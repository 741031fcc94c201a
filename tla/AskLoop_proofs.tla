--------------------------- MODULE AskLoop_proofs ---------------------------
(***************************************************************************)
(* For any number of questions, utterances and queries and any timing with *)
(* DenialDelay within Grace and Overall: no question ends by a refusal of  *)
(* something else, and none collects another's answers.  The invariant     *)
(* that carries the first is PrematureEnds: a question that is over though *)
(* the hub has not said a word about it has sat out its deadline, so no    *)
(* denial of it can still be on its way.                                   *)
(*                                                                         *)
(* Then what the events an application reads carry, language tags and      *)
(* samples (Languages), and the fields of frames (AskFields), for texts    *)
(* and arrays of any length.  Each loop is brought into a closed form, by  *)
(* counting places (Upto): WalkedIs, SqueezedAll, AudioLoopIs, StagesIs.   *)
(***************************************************************************)
EXTENDS AskLoop, FiniteSetTheorems, SequenceTheorems, WellFoundedInduction, TLAPS

Deadlines == \A a \in Asks : Waiting(a) /\ hub[a] = {} => deadline[a] = sentAt[a] + Overall

PrematureEnds ==
  \A a \in Asks : Sent(a) /\ ~Waiting(a) /\ hub[a] = {} => now >= sentAt[a] + Overall

UnsentIsFresh ==
  /\ \A u \in Everything : ~Sent(u) => hub[u] = {}
  /\ \A a \in Asks : ~Sent(a) => outcome[a] = "waiting"

IInv == /\ TypeOK
        /\ Deadlines
        /\ PrematureEnds
        /\ UnsentIsFresh
        /\ RefusalIsOwn
        /\ RepliesAreOwn

-----------------------------------------------------------------------------
(* What the classifier makes of the frames the hub sends. *)

\* An object whose first two names hold nothing is stamped by the third, and
\* so on: request_id_from falls through absent and null values only.
LEMMA NoStamp == /\ RequestIdFrom(<<>>) = NoId
                 /\ RequestIdFrom(<<"absent">>) = NoId
  BY DEF RequestIdFrom

LEMMA FirstStamp == ASSUME NEW a \in Asks PROVE RequestIdFrom(<<a>>) = a
<1> DEFINE there == {i \in 1..Len(<<a>>) : <<a>>[i] \notin {"absent", "null"}}
<1>1. a \notin {"absent", "null"}
  BY AskAssumption DEF AskAssumption
<1>2. there = {1}
  BY <1>1
<1>3. (CHOOSE i \in there : \A j \in there : i <= j) = 1
  BY <1>2
<1> QED
  BY <1>2, <1>3 DEF RequestIdFrom

LEMMA SecondStamp == ASSUME NEW a \in Asks PROVE RequestIdFrom(<<"null", a>>) = a
<1> DEFINE object == <<"null", a>>
           there == {i \in 1..Len(object) : object[i] \notin {"absent", "null"}}
<1>1. a \notin {"absent", "null"}
  BY AskAssumption DEF AskAssumption
<1>2. there = {2}
  BY <1>1
<1>3. (CHOOSE i \in there : \A j \in there : i <= j) = 2
  BY <1>2
<1> QED
  BY <1>2, <1>3 DEF RequestIdFrom

LEMMA ThirdStamp ==
  ASSUME NEW a \in Asks PROVE RequestIdFrom(<<"absent", "absent", a>>) = a
<1> DEFINE object == <<"absent", "absent", a>>
           there == {i \in 1..Len(object) : object[i] \notin {"absent", "null"}}
<1>1. a \notin {"absent", "null"}
  BY AskAssumption DEF AskAssumption
<1>2. there = {3}
  BY <1>1
<1>3. (CHOOSE i \in there : \A j \in there : i <= j) = 3
  BY <1>2
<1> QED
  BY <1>2, <1>3 DEF RequestIdFrom

\* Wherever the hub puts the id of a question, classify finds that id.
LEMMA StampedId ==
  ASSUME NEW form, NEW name, NEW a \in Asks, NEW frame \in Stamped(form, name, a)
  PROVE  EventId(frame) = a /\ frame.name = name
<1>1. a # NoId
  BY AskAssumption DEF AskAssumption
<1>2. CASE \E b \in Asks : frame = Frame(form, name, <<"null", a>>, <<b>>, <<>>, "")
  <2>1. frame.context = <<"null", a>> /\ frame.name = name
    <3>1. PICK b \in Asks : frame = Frame(form, name, <<"null", a>>, <<b>>, <<>>, "")
      BY <1>2
    <3> QED
      BY <3>1 DEF Frame
  <2>2. RequestIdFrom(frame.context) = a
    BY <2>1, SecondStamp
  <2> QED
    BY <1>1, <2>1, <2>2 DEF EventId
<1>3. CASE frame = Frame(form, name, <<"absent">>, <<a>>, <<>>, "")
  <2>1. /\ frame.context = <<"absent">> /\ frame.session = <<a>> /\ frame.name = name
        /\ frame.context # <<>>
    BY <1>3 DEF Frame
  <2>2. RequestIdFrom(frame.context) = NoId /\ RequestIdFrom(frame.session) = a
    BY <2>1, NoStamp, FirstStamp
  <2> QED
    BY <1>1, <2>1, <2>2 DEF EventId
<1>4. CASE frame = Frame(form, name, <<>>, <<>>, <<"absent", "absent", a>>, "")
  <2>1. /\ frame.context = <<>> /\ frame.session = <<>> /\ frame.name = name
        /\ frame.data = <<"absent", "absent", a>>
    BY <1>4 DEF Frame
  <2>2. RequestIdFrom(frame.context) = NoId /\ RequestIdFrom(frame.data) = a
    BY <2>1, NoStamp, ThirdStamp
  <2> QED
    BY <1>1, <2>1, <2>2 DEF EventId
<1> QED
  BY <1>2, <1>3, <1>4 DEF Stamped

LEMMA UnstampedId ==
  ASSUME NEW form, NEW name, NEW frame \in Unstamped(form, name)
  PROVE  EventId(frame) = NoId /\ frame.name = name
<1>1. /\ frame.context = <<"absent">> /\ frame.session = <<>> /\ frame.data = <<>>
      /\ frame.name = name
  <2>1. frame = Frame(form, name, <<"absent">>, <<>>, <<>>, "")
    BY DEF Unstamped
  <2> QED
    BY <2>1 DEF Frame
<1>2. /\ RequestIdFrom(frame.context) = NoId /\ RequestIdFrom(frame.session) = NoId
      /\ RequestIdFrom(frame.data) = NoId
  BY <1>1, NoStamp
<1> QED
  BY <1>1, <1>2 DEF EventId

About(u, name, form) == IF u \in Asks THEN Stamped(form, name, u) ELSE Unstamped(form, name)

\* What question a may make of a frame the hub sends about u.
LEMMA AnswerReaction ==
  ASSUME NEW u \in Everything, NEW name \in Names, NEW form, NEW a \in Asks, TypeOK,
         NEW frame \in About(u, name, form)
  PROVE  LET r == React(a, frame)
         IN /\ r.outcome = outcome[a] \/ (r.outcome = "expired" /\ a = u /\ name = "hive.query.timeout")
            /\ r.outcome \in Outcomes
            /\ r.deadline \in 0..Late
            /\ r.missed \in BOOLEAN
            /\ r.hears => a = u
            /\ a # u => r.deadline = deadline[a]
<1> DEFINE event == Classify(frame, a)
           any == Classify(frame, NoId)
<1>1. /\ EventId(frame) = IF u \in Asks THEN u ELSE NoId
      /\ frame.name = name
  BY StampedId, UnstampedId DEF About
<1>2. a # NoId
  BY AskAssumption DEF AskAssumption
<1>3. KindOf(name) # "POLICY_DENIED"
  BY DEF Names, KindOf
<1>4. any.kind # "POLICY_DENIED"
  BY <1>1, <1>3 DEF Classify, Ignored
<1>5. event.kind # "IGNORE" => a = u /\ event.kind = KindOf(name)
  BY <1>1, <1>2 DEF Classify, Ignored
<1>6. event.kind = "QUERY_TIMEOUT" => name = "hive.query.timeout"
  BY <1>5 DEF KindOf, Names
<1>7. /\ deadline[a] \in 0..Late /\ missed[a] \in BOOLEAN /\ outcome[a] \in Outcomes
      /\ now \in Nat /\ Late \in Nat /\ now + Settle \in Nat /\ now + EmptyWait \in Nat
  BY AskAssumption DEF TypeOK, Late, AskAssumption
<1>8. \A m \in Nat : Min2(deadline[a], m) \in 0..Late
  BY <1>7 DEF Min2
<1>9. Min2(deadline[a], now + Settle) \in 0..Late /\ Min2(deadline[a], now + EmptyWait) \in 0..Late
  BY <1>7, <1>8
<1>10. Late \in 0..Late
  BY <1>7
<1>11. CASE ~Waiting(a)
  BY <1>7, <1>11 DEF React
<1>12. CASE Waiting(a) /\ event.kind = "QUERY_TIMEOUT"
  BY <1>4, <1>5, <1>6, <1>7, <1>10, <1>12 DEF React, Outcomes, Waiting
<1>13. CASE Waiting(a) /\ event.kind = "SPEAK"
  BY <1>4, <1>5, <1>7, <1>9, <1>13 DEF React, Outcomes, Waiting
<1>14. CASE Waiting(a) /\ event.kind = "HANDLED"
  BY <1>4, <1>5, <1>7, <1>9, <1>14 DEF React, Outcomes, Waiting
<1>15. CASE Waiting(a) /\ event.kind = "INTENT_FAILURE"
  BY <1>4, <1>5, <1>7, <1>15 DEF React, Outcomes, Waiting
<1>16. CASE Waiting(a) /\ event.kind \notin {"QUERY_TIMEOUT", "SPEAK", "HANDLED", "INTENT_FAILURE"}
  BY <1>4, <1>7, <1>16 DEF React, Outcomes, Waiting
<1> QED
  BY <1>11, <1>12, <1>13, <1>14, <1>15, <1>16

Denial(form) == Frame(form, "hive.policy.denied", <<"absent">>, <<>>, <<>>, Utterance)

\* What question a may make of a denial, which carries no id.
LEMMA RefuseReaction ==
  ASSUME NEW form, NEW a \in Asks, TypeOK
  PROVE  LET r == React(a, Denial(form))
         IN /\ r.outcome = outcome[a]
               \/ /\ r.outcome = "refused" /\ Waiting(a)
                  /\ AsksInFlight = 1 /\ QueriesInFlight = 0 /\ SendsInFlight = 0
            /\ r.outcome \in Outcomes
            /\ r.deadline \in 0..Late
            /\ r.missed \in BOOLEAN
            /\ ~r.hears
            /\ r.outcome = outcome[a] => r.deadline = deadline[a]
<1> DEFINE frame == Denial(form)
           event == Classify(frame, a)
           any == Classify(frame, NoId)
<1>1. EventId(frame) = NoId /\ frame.name = "hive.policy.denied" /\ frame.denied = Utterance
  BY NoStamp DEF Denial, Frame, EventId
<1>2. a # NoId
  BY AskAssumption DEF AskAssumption
<1>3. KindOf("hive.policy.denied") = "POLICY_DENIED"
  BY DEF KindOf
<1>4. event.kind = "IGNORE"
  BY <1>1, <1>2 DEF Classify, Ignored
<1>5. any.kind \in {"IGNORE", "POLICY_DENIED"} /\ any.id = NoId
  BY <1>1, <1>3 DEF Classify, Ignored
<1>6. /\ deadline[a] \in 0..Late /\ missed[a] \in BOOLEAN /\ outcome[a] \in Outcomes
      /\ Late \in 0..Late
  BY AskAssumption DEF TypeOK, Late, AskAssumption
<1>7. CASE ~Waiting(a)
  BY <1>6, <1>7 DEF React
<1>8. CASE Waiting(a) /\ any.kind = "POLICY_DENIED"
  BY <1>1, <1>5, <1>6, <1>8 DEF React, RefusalBelongs, Outcomes, Waiting
<1>9. CASE Waiting(a) /\ any.kind # "POLICY_DENIED"
  BY <1>4, <1>6, <1>9 DEF React, Outcomes, Waiting
<1> QED
  BY <1>7, <1>8, <1>9

-----------------------------------------------------------------------------
(* The counts. *)

\* A refusal of u that ends question a was a refusal of a: were it anything
\* else, it would be out itself and counted.
LEMMA OnlyUtteranceOut ==
  ASSUME IInv, NEW u \in Everything, NEW a \in Asks,
         Sent(u), hub[u] = {}, now - sentAt[u] <= DenialDelay,
         Waiting(a), AsksInFlight = 1, QueriesInFlight = 0, SendsInFlight = 0
  PROVE  u = a
<1> SUFFICES ASSUME u # a PROVE FALSE
  OBVIOUS
<1>1. /\ now \in Nat /\ sentAt[u] \in Nat
      /\ {Overall, Grace, DenialDelay} \subseteq Nat
      /\ DenialDelay <= Grace /\ DenialDelay < Overall
  BY AskAssumption DEF IInv, TypeOK, AskAssumption, Late
<1>2. CASE u \in Sends
  <2> DEFINE out == {s \in Sends : Sent(s) /\ now - sentAt[s] <= Grace}
  <2>1. IsFiniteSet(out)
    BY AskAssumption, FS_Subset DEF AskAssumption
  <2>2. u \in out
    BY <1>1, <1>2
  <2> QED
    BY <2>1, <2>2, FS_EmptySet DEF SendsInFlight
<1>3. CASE u \in Queries
  <2> DEFINE out == {q \in Queries : Sent(q) /\ hub[q] = {}}
  <2>1. IsFiniteSet(out)
    BY AskAssumption, FS_Subset DEF AskAssumption
  <2>2. u \in out
    BY <1>3
  <2> QED
    BY <2>1, <2>2, FS_EmptySet DEF QueriesInFlight
<1>4. CASE u \in Asks
  <2> DEFINE out == {b \in Asks : Waiting(b)}
  <2>1. IsFiniteSet(out)
    BY AskAssumption, FS_Subset DEF AskAssumption
  <2>2. Waiting(u)
    BY <1>1, <1>4 DEF IInv, PrematureEnds
  <2>3. u \in out /\ a \in out
    BY <1>4, <2>2
  <2> QED
    BY <2>1, <2>3, FS_Singleton DEF AsksInFlight
<1> QED
  BY <1>2, <1>3, <1>4 DEF Everything

-----------------------------------------------------------------------------
(* The invariant. *)

LEMMA InitInv == Init => IInv
<1> SUFFICES ASSUME Init PROVE IInv
  OBVIOUS
<1>1. MaxTime \in Nat /\ Late \in 0..Late /\ 0 \in 0..MaxTime
  BY AskAssumption DEF AskAssumption, Late
<1> QED
  BY <1>1 DEF Init, IInv, TypeOK, Deadlines, PrematureEnds, UnsentIsFresh, RefusalIsOwn,
              RepliesAreOwn, Waiting, Sent, Outcomes, Everything

LEMMA SendInv == ASSUME IInv, NEW u \in Everything, Send(u) PROVE IInv'
<1>1. /\ ~Sent(u) /\ now + Overall <= MaxTime
      /\ sentAt' = [sentAt EXCEPT ![u] = now]
      /\ deadline' = IF u \in Asks THEN [deadline EXCEPT ![u] = now + Overall] ELSE deadline
      /\ UNCHANGED <<now, hub, outcome, missed, heard>>
  BY DEF Send
<1>2. /\ now \in Nat /\ Overall \in Nat /\ MaxTime \in Nat /\ now \in 0..Late /\ now # Late
      /\ now + Overall \in 0..Late /\ Late = MaxTime + 1
  BY <1>1, AskAssumption DEF IInv, TypeOK, Late, AskAssumption
<1>3. TypeOK'
  BY <1>1, <1>2 DEF IInv, TypeOK
<1>4. \A v \in Everything : v # u => sentAt'[v] = sentAt[v]
  BY <1>1 DEF IInv, TypeOK
<1>5. sentAt'[u] = now /\ hub[u] = {} /\ (u \in Asks => deadline'[u] = now + Overall)
  BY <1>1 DEF IInv, TypeOK, UnsentIsFresh
<1>6. \A a \in Asks : a # u => deadline'[a] = deadline[a]
  BY <1>1 DEF IInv, TypeOK
<1>7. Deadlines'
  BY <1>1, <1>4, <1>5, <1>6 DEF IInv, Deadlines, Waiting, Sent, Everything
<1>8. PrematureEnds'
  <2> SUFFICES ASSUME NEW a \in Asks, Sent(a)', ~Waiting(a)', hub'[a] = {}
               PROVE  now' >= sentAt'[a] + Overall
    BY DEF PrematureEnds
  <2>1. CASE a = u
    <3>1. outcome[u] = "waiting"
      BY <1>1, <2>1 DEF IInv, UnsentIsFresh
    <3> QED
      BY <1>1, <2>1, <3>1 DEF Waiting
  <2>2. CASE a # u
    BY <1>1, <1>4, <2>2 DEF IInv, PrematureEnds, Waiting, Sent, Everything
  <2> QED
    BY <2>1, <2>2
<1>9. UnsentIsFresh'
  BY <1>1, <1>2, <1>4, <1>5 DEF IInv, UnsentIsFresh, Sent
<1> QED
  BY <1>1, <1>3, <1>7, <1>8, <1>9 DEF IInv, RefusalIsOwn, RepliesAreOwn

\* What one frame about u changes, whichever it is.
LEMMA AnswerInv ==
  ASSUME IInv, NEW u \in Everything, NEW name \in Names, NEW form, Answer(u, name, form)
  PROVE  IInv'
<1>1. PICK frame \in About(u, name, form) : Receive(u, frame)
  BY DEF Answer, About
<1> DEFINE r(a) == React(a, frame)
<1>2. \A a \in Asks :
        /\ r(a).outcome = outcome[a]
             \/ (r(a).outcome = "expired" /\ a = u /\ name = "hive.query.timeout")
        /\ r(a).outcome \in Outcomes /\ r(a).deadline \in 0..Late /\ r(a).missed \in BOOLEAN
        /\ r(a).hears => a = u
        /\ a # u => r(a).deadline = deadline[a]
  <2> SUFFICES ASSUME NEW a \in Asks
               PROVE  /\ r(a).outcome = outcome[a]
                           \/ (r(a).outcome = "expired" /\ a = u /\ name = "hive.query.timeout")
                      /\ r(a).outcome \in Outcomes /\ r(a).deadline \in 0..Late
                      /\ r(a).missed \in BOOLEAN
                      /\ r(a).hears => a = u
                      /\ a # u => r(a).deadline = deadline[a]
    OBVIOUS
  <2>1. TypeOK
    BY DEF IInv
  <2> QED
    BY <2>1, AnswerReaction
<1>3. /\ \A a \in Asks : outcome'[a] = r(a).outcome /\ deadline'[a] = r(a).deadline
      /\ \A a \in Asks : heard'[a] = IF r(a).hears THEN heard[a] \cup {u} ELSE heard[a]
      /\ now' = now /\ sentAt' = sentAt
  BY <1>1 DEF Receive
<1>4. /\ Sent(u) /\ hub' = [hub EXCEPT ![u] = @ \cup {name}]
      /\ hub'[u] = hub[u] \cup {name}
      /\ \A v \in Everything : v # u => hub'[v] = hub[v]
  BY DEF Answer, IInv, TypeOK
<1>5. TypeOK'
  <2>1. /\ outcome' \in [Asks -> Outcomes] /\ deadline' \in [Asks -> 0..Late]
        /\ missed' \in [Asks -> BOOLEAN]
    BY <1>1, <1>2 DEF Receive
  <2>2. heard' \in [Asks -> SUBSET Everything]
    BY <1>1 DEF Receive, IInv, TypeOK
  <2>3. hub' \in [Everything -> SUBSET (Names \cup {"refused"})]
    BY <1>4 DEF IInv, TypeOK
  <2> QED
    BY <1>3, <2>1, <2>2, <2>3 DEF IInv, TypeOK
<1>6. \A a \in Asks : a \in Everything
  BY DEF Everything
<1>7. Deadlines'
  BY <1>2, <1>3, <1>4, <1>6 DEF IInv, Deadlines, Waiting, Sent
<1>8. PrematureEnds'
  BY <1>2, <1>3, <1>4, <1>6 DEF IInv, PrematureEnds, Waiting, Sent
<1>9. UnsentIsFresh'
  BY <1>2, <1>3, <1>4, <1>6 DEF IInv, UnsentIsFresh, Sent
<1>10. RefusalIsOwn'
  BY <1>2, <1>3, <1>4, <1>6 DEF IInv, RefusalIsOwn
<1>11. RepliesAreOwn'
  <2>1. \A a \in Asks : heard'[a] \subseteq {a}
    BY <1>2, <1>3 DEF IInv, RepliesAreOwn
  <2>2. \A a \in Asks : outcome'[a] = "expired" => "hive.query.timeout" \in hub'[a]
    BY <1>2, <1>3, <1>4, <1>6 DEF IInv, RepliesAreOwn
  <2> QED
    BY <2>1, <2>2 DEF RepliesAreOwn
<1> QED
  BY <1>5, <1>7, <1>8, <1>9, <1>10, <1>11 DEF IInv

LEMMA RefuseInv ==
  ASSUME IInv, NEW u \in Everything, NEW form, Refuse(u, form)
  PROVE  IInv'
<1> DEFINE r(a) == React(a, Denial(form))
<1>1. Receive(u, Denial(form)) /\ Sent(u) /\ hub[u] = {} /\ now - sentAt[u] <= DenialDelay
  BY DEF Refuse, Denial
<1>2. \A a \in Asks :
        /\ r(a).outcome = outcome[a]
             \/ /\ r(a).outcome = "refused" /\ Waiting(a)
                /\ AsksInFlight = 1 /\ QueriesInFlight = 0 /\ SendsInFlight = 0
        /\ r(a).outcome \in Outcomes /\ r(a).deadline \in 0..Late /\ r(a).missed \in BOOLEAN
        /\ ~r(a).hears
        /\ r(a).outcome = outcome[a] => r(a).deadline = deadline[a]
  BY RefuseReaction DEF IInv
<1>3. \A a \in Asks : r(a).outcome = outcome[a] \/ (r(a).outcome = "refused" /\ Waiting(a) /\ a = u)
  <2> SUFFICES ASSUME NEW a \in Asks, r(a).outcome # outcome[a]
               PROVE  r(a).outcome = "refused" /\ Waiting(a) /\ a = u
    OBVIOUS
  <2>1. /\ r(a).outcome = "refused" /\ Waiting(a)
        /\ AsksInFlight = 1 /\ QueriesInFlight = 0 /\ SendsInFlight = 0
    BY <1>2
  <2> QED
    BY <1>1, <2>1, OnlyUtteranceOut
<1>4. /\ \A a \in Asks : outcome'[a] = r(a).outcome /\ deadline'[a] = r(a).deadline
      /\ \A a \in Asks : heard'[a] = heard[a]
      /\ now' = now /\ sentAt' = sentAt
  BY <1>1, <1>2 DEF Receive
<1>5. /\ hub' = [hub EXCEPT ![u] = {"refused"}] /\ hub'[u] = {"refused"}
      /\ \A v \in Everything : v # u => hub'[v] = hub[v]
  BY DEF Refuse, IInv, TypeOK
<1>6. TypeOK'
  <2>1. /\ outcome' \in [Asks -> Outcomes] /\ deadline' \in [Asks -> 0..Late]
        /\ missed' \in [Asks -> BOOLEAN]
    BY <1>1, <1>2 DEF Receive
  <2>2. heard' \in [Asks -> SUBSET Everything]
    BY <1>1 DEF Receive, IInv, TypeOK
  <2>3. hub' \in [Everything -> SUBSET (Names \cup {"refused"})]
    BY <1>5 DEF IInv, TypeOK
  <2> QED
    BY <1>4, <2>1, <2>2, <2>3 DEF IInv, TypeOK
<1>7. \A a \in Asks : a \in Everything
  BY DEF Everything
<1>8. Deadlines'
  BY <1>2, <1>3, <1>4, <1>5, <1>7 DEF IInv, Deadlines, Waiting, Sent
<1>9. PrematureEnds'
  BY <1>3, <1>4, <1>5, <1>7 DEF IInv, PrematureEnds, Waiting, Sent
<1>10. UnsentIsFresh'
  BY <1>1, <1>3, <1>4, <1>5, <1>7 DEF IInv, UnsentIsFresh, Sent, Waiting
<1>11. RefusalIsOwn'
  BY <1>3, <1>4, <1>5, <1>7 DEF IInv, RefusalIsOwn
<1>12. RepliesAreOwn'
  <2>1. \A a \in Asks : outcome'[a] = "expired" => outcome[a] = "expired"
    BY <1>3, <1>4
  <2>2. \A a \in Asks : outcome[a] = "expired" => hub[a] # {} /\ a # u
    BY <1>1 DEF IInv, RepliesAreOwn
  <2> QED
    BY <1>4, <1>5, <1>7, <2>1, <2>2 DEF IInv, RepliesAreOwn
<1> QED
  BY <1>6, <1>8, <1>9, <1>10, <1>11, <1>12 DEF IInv

LEMMA GiveUpInv == ASSUME IInv, NEW a \in Asks, GiveUp(a) PROVE IInv'
<1>1. /\ Waiting(a) /\ now >= deadline[a]
      /\ outcome'[a] \in {"reply", "missed", "timeout"}
      /\ outcome' \in [Asks -> Outcomes]
      /\ \A b \in Asks : b # a => outcome'[b] = outcome[b] /\ deadline'[b] = deadline[b]
      /\ now' = now /\ sentAt' = sentAt /\ hub' = hub /\ heard' = heard
  BY DEF GiveUp, IInv, TypeOK, Outcomes
<1>2. deadline' \in [Asks -> 0..Late] /\ missed' \in [Asks -> BOOLEAN]
  <2>1. Late \in 0..Late
    BY AskAssumption DEF AskAssumption, Late
  <2> QED
    BY <2>1 DEF GiveUp, IInv, TypeOK
<1>3. TypeOK'
  BY <1>1, <1>2 DEF IInv, TypeOK
<1>4. Deadlines'
  BY <1>1 DEF IInv, Deadlines, Waiting, Sent
<1>5. PrematureEnds'
  <2> SUFFICES ASSUME NEW b \in Asks, Sent(b), ~Waiting(b)', hub[b] = {}
               PROVE  now >= sentAt[b] + Overall
    BY <1>1 DEF PrematureEnds, Sent
  <2>1. CASE b = a
    BY <1>1, <2>1 DEF IInv, Deadlines
  <2>2. CASE b # a
    BY <1>1, <2>2 DEF IInv, PrematureEnds, Waiting, Sent
  <2> QED
    BY <2>1, <2>2
<1>6. UnsentIsFresh'
  BY <1>1 DEF IInv, UnsentIsFresh, Sent, Waiting
<1>7. RefusalIsOwn' /\ RepliesAreOwn'
  BY <1>1 DEF IInv, RefusalIsOwn, RepliesAreOwn
<1> QED
  BY <1>3, <1>4, <1>5, <1>6, <1>7 DEF IInv

LEMMA TickInv == ASSUME IInv, Tick PROVE IInv'
<1>1. now < MaxTime /\ now' = now + 1 /\ UNCHANGED <<sentAt, hub, outcome, deadline, missed, heard>>
  BY DEF Tick
<1>2. now \in 0..MaxTime /\ MaxTime \in Nat /\ Overall \in Nat /\ Late = MaxTime + 1
  BY AskAssumption DEF IInv, TypeOK, AskAssumption, Late
<1>3. TypeOK'
  BY <1>1, <1>2 DEF IInv, TypeOK
<1>4. PrematureEnds'
  <2> SUFFICES ASSUME NEW a \in Asks, Sent(a), ~Waiting(a), hub[a] = {}
               PROVE  now + 1 >= sentAt[a] + Overall
    BY <1>1 DEF PrematureEnds, Sent, Waiting
  <2>1. now >= sentAt[a] + Overall /\ sentAt[a] \in Nat
    BY <1>2 DEF IInv, TypeOK, PrematureEnds, Everything
  <2> QED
    BY <1>2, <2>1
<1>5. Deadlines' /\ UnsentIsFresh' /\ RefusalIsOwn' /\ RepliesAreOwn'
  BY <1>1 DEF IInv, Deadlines, UnsentIsFresh, RefusalIsOwn, RepliesAreOwn, Waiting, Sent
<1> QED
  BY <1>3, <1>4, <1>5 DEF IInv

LEMMA StepInv == ASSUME IInv, [Next]_vars PROVE IInv'
<1>1. CASE UNCHANGED vars
  BY <1>1 DEF IInv, TypeOK, Deadlines, PrematureEnds, UnsentIsFresh, RefusalIsOwn,
              RepliesAreOwn, Waiting, Sent, vars
<1>2. ASSUME NEW u \in Everything, Send(u) PROVE IInv'
  BY <1>2, SendInv
<1>3. ASSUME NEW u \in Everything, NEW form \in Forms, Refuse(u, form) PROVE IInv'
  BY <1>3, RefuseInv
<1>4. ASSUME NEW u \in Everything, NEW form \in Forms, NEW name \in Names, Answer(u, name, form)
      PROVE  IInv'
  BY <1>4, AnswerInv
<1>5. ASSUME NEW a \in Asks, GiveUp(a) PROVE IInv'
  BY <1>5, GiveUpInv
<1>6. CASE Tick
  BY <1>6, TickInv
<1> QED
  BY <1>1, <1>2, <1>3, <1>4, <1>5, <1>6 DEF Next

LEMMA Invariance == Spec => []IInv
  BY InitInv, StepInv, PTL DEF Spec

\* The state of the loop is well formed.
THEOREM TypeCorrect == Spec => []TypeOK
<1>1. IInv => TypeOK
  BY DEF IInv
<1> QED
  BY <1>1, Invariance, PTL

\* However many questions, utterances and queries are out, a question ends as
\* refused only if the hub refused it: thalovant_refusal_belongs_to_ask makes
\* no wrong guess as long as denials come within the grace window.
THEOREM RefusalAttribution == Spec => []RefusalIsOwn
<1>1. IInv => RefusalIsOwn
  BY DEF IInv
<1> QED
  BY <1>1, Invariance, PTL

\* No question collects what was said about another, or expires for it.
THEOREM ReplyCorrelation == Spec => []RepliesAreOwn
<1>1. IInv => RepliesAreOwn
  BY DEF IInv
<1> QED
  BY <1>1, Invariance, PTL

-----------------------------------------------------------------------------
(* Speech. *)

\* Question a's own speech, handed to classify as a frame, is heard.
LEMMA SpeechReaction ==
  ASSUME NEW a \in Asks, NEW frame \in Stamped("frame", "speak", a), Waiting(a)
  PROVE  React(a, frame).hears
<1>1. EventId(frame) = a /\ frame.name = "speak" /\ frame.form = "frame"
  <2>1. ASSUME NEW b \in Asks, frame = Frame("frame", "speak", <<"null", a>>, <<b>>, <<>>, "")
        PROVE  frame.form = "frame"
    BY <2>1 DEF Frame
  <2>2. ASSUME frame = Frame("frame", "speak", <<"absent">>, <<a>>, <<>>, "")
        PROVE  frame.form = "frame"
    BY <2>2 DEF Frame
  <2>3. ASSUME frame = Frame("frame", "speak", <<>>, <<>>, <<"absent", "absent", a>>, "")
        PROVE  frame.form = "frame"
    BY <2>3 DEF Frame
  <2>4. frame.form = "frame"
    BY <2>1, <2>2, <2>3 DEF Stamped
  <2>5. EventId(frame) = a /\ frame.name = "speak"
    BY StampedId
  <2> QED
    BY <2>4, <2>5
<1>2. frame.name \in {"speak", "ovos.utterance.speak"} => KindOf(frame.name) = "SPEAK"
  BY DEF KindOf
<1>3. Classify(frame, a).kind = "SPEAK" /\ Classify(frame, NoId).kind = "SPEAK"
  BY <1>1, <1>2 DEF Classify
<1> QED
  BY <1>3 DEF React

LEMMA SpeechStep ==
  ASSUME Forms \subseteq {"frame"}, TypeOK, [Next]_vars,
         NEW a \in Asks, Waiting(a), hub'[a] \ hub[a] = {"speak"}
  PROVE  a \in heard'[a]
<1>1. a \in Everything /\ hub'[a] # hub[a]
  BY DEF Everything
<1>2. CASE UNCHANGED hub
  BY <1>1, <1>2
<1>3. ASSUME NEW u \in Everything, NEW form \in Forms, Refuse(u, form) PROVE FALSE
  <2>1. hub' = [hub EXCEPT ![u] = {"refused"}]
    BY <1>3 DEF Refuse
  <2>2. hub'[a] \in {hub[a], {"refused"}}
    BY <1>1, <2>1 DEF TypeOK
  <2> QED
    BY <2>2
<1>4. ASSUME NEW u \in Everything, NEW form \in Forms, NEW name \in Names, Answer(u, name, form)
      PROVE  a \in heard'[a]
  <2>1. hub' = [hub EXCEPT ![u] = @ \cup {name}]
    BY <1>4 DEF Answer
  <2>2. a = u /\ name = "speak" /\ form = "frame"
    BY <1>1, <2>1 DEF TypeOK
  <2>3. PICK frame \in Stamped("frame", "speak", a) : Receive(a, frame)
    BY <1>4, <2>2 DEF Answer
  <2>4. heard'[a] = heard[a] \cup {a}
    BY <2>3, SpeechReaction DEF Receive
  <2> QED
    BY <2>4
<1>5. ASSUME NEW u \in Everything, Send(u) PROVE UNCHANGED hub
  BY <1>5 DEF Send
<1>6. ASSUME NEW b \in Asks, GiveUp(b) PROVE UNCHANGED hub
  BY <1>6 DEF GiveUp
<1>7. CASE Tick
  BY <1>2, <1>7 DEF Tick
<1>8. CASE UNCHANGED vars
  BY <1>2, <1>8 DEF vars
<1> QED
  BY <1>2, <1>3, <1>4, <1>5, <1>6, <1>7, <1>8 DEF Next

\* Handed over as the HiveMessage it came in, what the hub says about a
\* question that still waits is heard, wherever the id is: context beside a
\* session that carries another's, session, or data.  (A bare payload is not:
\* the run ask_bare.)
THEOREM SpeechHeard == ASSUME Forms \subseteq {"frame"} PROVE Spec => SpeechIsHeard
<1>1. TypeOK /\ [Next]_vars =>
        [\A a \in Asks :
           Waiting(a) /\ hub'[a] \ hub[a] = {"speak"} => a \in heard'[a]]_vars
  BY SpeechStep
<1> QED
  BY <1>1, TypeCorrect, PTL DEF Spec, SpeechIsHeard

-----------------------------------------------------------------------------
(* The texts of events and definitions (Languages). *)
CONSTANTS MaxText, MaxRows   \* bounds of the texts
VARIABLES text, rows
Tags == INSTANCE Languages

\* Of some numbers one is the least.
LEMMA NatMin ==
  ASSUME NEW T, T \subseteq Nat, T # {}
  PROVE  \E x \in T : \A y \in T : x <= y
<1> DEFINE R == {ss \in Nat \X Nat : ss[1] < ss[2]}
<1>1. IsWellFoundedOn(R, Nat)
  BY NatLessThanWellFounded DEF OpToRel
<1> HIDE DEF R
<1>2. PICK x \in T : \A y \in T : ~(<<y, x>> \in R)
  BY <1>1, WFMin
<1>3. ASSUME NEW y \in T PROVE x <= y
  <2>1. ~(<<y, x>> \in R) /\ x \in Nat /\ y \in Nat
    BY <1>2
  <2> QED BY <2>1 DEF R
<1> QED BY <1>3

\* A sequence that is given element by element.
LEMMA Listed ==
  ASSUME NEW n \in Nat, NEW S, NEW f \in [1..n -> S]
  PROVE  f \in Seq(S) /\ Len(f) = n /\ DOMAIN f = 1..n
OBVIOUS

\* How many of the places in R come no later than n.
Upto(R, n) == Cardinality({j \in R : j <= n})

\* There are finitely many, no more than n.
LEMMA UptoFinite ==
  ASSUME NEW R, R \subseteq Nat \ {0}, NEW n \in Nat
  PROVE  /\ IsFiniteSet({j \in R : j <= n}) /\ {j \in R : j <= n} \subseteq 1..n
         /\ Upto(R, n) \in Nat /\ Upto(R, n) <= n
<1>1. {j \in R : j <= n} \subseteq 1..n
  <2>1. \A j \in R : j \in Nat /\ 1 <= j
    OBVIOUS
  <2>2. \A j \in R : j <= n => j \in 1..n
    BY <2>1
  <2> QED BY <2>2, Zenon
<1>2. IsFiniteSet(1..n) /\ Cardinality(1..n) = n
  BY FS_Interval
<1> QED BY <1>1, <1>2, FS_Subset, FS_CardinalityType DEF Upto

\* The count goes up by one at each place of R.
LEMMA UptoStep ==
  ASSUME NEW R, R \subseteq Nat \ {0}
  PROVE  /\ Upto(R, 0) = 0
         /\ \A n \in Nat \ {0} : Upto(R, n) = Upto(R, n - 1) + IF n \in R THEN 1 ELSE 0
<1>1. Upto(R, 0) = 0
  <2>1. 0 \in Nat /\ \A x \in Nat : x <= 0 => x = 0
    OBVIOUS
  <2> QED BY <2>1, UptoFinite
<1>2. ASSUME NEW n \in Nat \ {0} PROVE Upto(R, n) = Upto(R, n - 1) + IF n \in R THEN 1 ELSE 0
  <2> DEFINE A == {j \in R : j <= n - 1}
  <2>1. n - 1 \in Nat
    OBVIOUS
  <2>2. IsFiniteSet(A) /\ Cardinality(A) \in Nat
    BY <2>1, UptoFinite DEF Upto
  <2>3. n \notin A
    OBVIOUS
  <2>4. {j \in R : j <= n} = IF n \in R THEN A \cup {n} ELSE A
    <3>1. \A j \in R : j <= n <=> j <= n - 1 \/ j = n
      OBVIOUS
    <3> QED BY <3>1
  <2>5. Cardinality(A \cup {n}) = Cardinality(A) + 1
    <3> HIDE DEF A
    <3> QED BY <2>2, <2>3, FS_AddElement
  <2> HIDE DEF A
  <2>6. Upto(R, n) = IF n \in R THEN Cardinality(A) + 1 ELSE Cardinality(A)
    BY <2>4, <2>5 DEF Upto
  <2> QED BY <2>2, <2>6 DEF Upto, A
<1> QED BY <1>1, <1>2

\* It never falls, and at a place of R it passes what it was.
LEMMA UptoGrows ==
  ASSUME NEW R, R \subseteq Nat \ {0}, NEW m \in Nat, NEW n \in Nat, m <= n
  PROVE  Upto(R, m) <= Upto(R, n) /\ (m < n /\ n \in R => Upto(R, m) < Upto(R, n))
<1>1. \A i \in Nat, j \in Nat : i <= j => Upto(R, i) <= Upto(R, j)
  <2> TAKE i \in Nat, j \in Nat
  <2>1. \A k \in R : k \in Nat
    OBVIOUS
  <2>2. i <= j => \A k \in R : k <= i => k <= j
    BY <2>1
  <2>3. i <= j => {k \in R : k <= i} \subseteq {k \in R : k <= j}
    BY <2>2, Zenon
  <2> QED BY <2>3, UptoFinite, FS_Subset DEF Upto
<1>2. ASSUME m < n, n \in R PROVE Upto(R, m) < Upto(R, n)
  <2>1. n - 1 \in Nat /\ m <= n - 1 /\ n \in Nat \ {0}
    BY <1>2
  <2>2. Upto(R, m) <= Upto(R, n - 1) /\ Upto(R, n) = Upto(R, n - 1) + 1
    BY <1>1, <1>2, <2>1, UptoStep
  <2>3. Upto(R, m) \in Nat /\ Upto(R, n - 1) \in Nat
    BY <2>1, UptoFinite
  <2> QED BY <2>2, <2>3
<1> QED BY <1>1, <1>2

\* The k-th place is there, and it is one.
Reached(R, n, k) ==
  \E i \in 1..n : i \in R /\ Upto(R, i) = k /\ \A j \in R : Upto(R, j) = k => j = i

LEMMA UptoReaches ==
  ASSUME NEW R, R \subseteq Nat \ {0}, NEW n \in Nat, NEW k \in 1..Upto(R, n)
  PROVE  Reached(R, n, k)
<1> DEFINE T == {i \in 0..n : k <= Upto(R, i)}
<1>0. \A i \in Nat : Upto(R, i) \in Nat
  BY UptoFinite
<1>1. k \in Nat /\ k # 0 /\ n \in T /\ T \subseteq Nat
  BY <1>0
<1>2. PICK i \in T : \A j \in T : i <= j
  <2> HIDE DEF T
  <2> QED BY <1>1, NatMin
<1>3. i # 0
  <2>1. k <= Upto(R, i) /\ ~(k <= 0)
    BY <1>1, <1>2
  <2>2. Upto(R, 0) = 0
    BY UptoStep
  <2> HIDE DEF T
  <2> QED BY <2>1, <2>2
<1>4. i \in Nat \ {0} /\ i - 1 \in 0..n /\ i \in 1..n /\ i - 1 \in Nat
  BY <1>2, <1>3
<1>5. ~(k <= Upto(R, i - 1))
  <2>1. i - 1 \notin T
    <3>1. ~(i <= i - 1)
      BY <1>4
    <3> HIDE DEF T
    <3> QED BY <1>2, <3>1
  <2> QED BY <1>4, <2>1
<1>6. Upto(R, i) = Upto(R, i - 1) + IF i \in R THEN 1 ELSE 0
  BY <1>4, UptoStep
<1>7. k <= Upto(R, i)
  BY <1>2
<1>8. i \in R /\ Upto(R, i) = k
  BY <1>0, <1>1, <1>4, <1>5, <1>6, <1>7
<1>9. ASSUME NEW j \in R, Upto(R, j) = k PROVE j = i
  <2>1. j \in Nat /\ j # 0 /\ i \in Nat
    BY <1>4
  <2>2. j < i => j <= i /\ Upto(R, j) < Upto(R, i)
    <3> SUFFICES ASSUME j < i PROVE Upto(R, j) < Upto(R, i) /\ j <= i
      OBVIOUS
    <3>1. j <= i
      BY <2>1
    <3> QED BY <1>8, <2>1, <3>1, UptoGrows
  <2>3. i < j => Upto(R, i) < Upto(R, j)
    <3> SUFFICES ASSUME i < j PROVE Upto(R, i) < Upto(R, j)
      OBVIOUS
    <3>1. i <= j
      BY <2>1
    <3> QED BY <2>1, <3>1, UptoGrows
  <2> QED BY <1>0, <1>8, <1>9, <2>1, <2>2, <2>3
<1> QED BY <1>4, <1>8, <1>9 DEF Reached

-----------------------------------------------------------------------------
Real(r) == {i \in 1..Len(r) : r[i] \in {"text", "slot"}}
Bad(r) == {i \in 1..Len(r) : r[i] \in {"malformed", "overlong"}}
Nth(R, k) == CHOOSE i \in R : Upto(R, i) = k
\* What was delivered of the first n rows.
Delivered(r, n) ==
  [k \in 1..Upto(Real(r), n) |-> [index |-> k - 1, slot |-> r[Nth(Real(r), k)] = "slot"]]
Going(r, n) == [rc |-> "OK", out |-> Delivered(r, n), stopped |-> FALSE]
\* Where the walk stops that asks for w samples, and with what.
StopsAt(r, w, b) == b \in Bad(r) \/ (b \in Real(r) /\ Upto(Real(r), b) = w)
Stopped(r, b) ==
  IF b \in Bad(r)
  THEN [rc |-> IF r[b] = "malformed" THEN "JSON" ELSE "NOMEM", out |-> Delivered(r, b - 1), stopped |-> TRUE]
  ELSE [rc |-> "OK", out |-> Delivered(r, b), stopped |-> TRUE]
WalksTo(r, w, b) == /\ b \in 1..Len(r) + 1 /\ \A i \in 1..b - 1 : ~StopsAt(r, w, i)
                    /\ b <= Len(r) => StopsAt(r, w, b)

\* The samples' places are counted.
LEMMA RealPlaces ==
  ASSUME NEW r \in Seq(Tags!Row)
  PROVE  Real(r) \subseteq Nat \ {0} /\ Len(r) \in Nat /\ \A n \in Nat : Upto(Real(r), n) \in Nat
<1>1. Real(r) \subseteq Nat \ {0} /\ Len(r) \in Nat
  BY DEF Real
<1> QED BY <1>1, UptoFinite

\* One more sample is appended when its row is reached, nothing otherwise.
LEMMA DeliveredOne ==
  ASSUME NEW r \in Seq(Tags!Row), NEW n \in 1..Len(r)
  PROVE  /\ Len(Delivered(r, n)) = Upto(Real(r), n) /\ Len(Delivered(r, n - 1)) = Upto(Real(r), n - 1)
         /\ n \in Real(r) => /\ Upto(Real(r), n) = Upto(Real(r), n - 1) + 1
                             /\ Append(Delivered(r, n - 1), [index |-> Upto(Real(r), n - 1), slot |-> r[n] = "slot"])
                                  = Delivered(r, n)
         /\ n \notin Real(r) => Delivered(r, n) = Delivered(r, n - 1)
<1> DEFINE R == Real(r)
           c == Upto(R, n - 1)
           item(k) == [index |-> k - 1, slot |-> r[Nth(R, k)] = "slot"]
           S == {item(k) : k \in Nat}
<1>1. R \subseteq Nat \ {0} /\ n \in Nat \ {0} /\ n - 1 \in Nat
  BY RealPlaces
<1>2. Upto(R, n) = c + (IF n \in R THEN 1 ELSE 0) /\ c \in Nat /\ Upto(R, n) \in Nat
  BY <1>1, UptoStep, UptoFinite
<1>3. /\ Delivered(r, n) \in Seq(S) /\ Len(Delivered(r, n)) = Upto(R, n)
      /\ Delivered(r, n - 1) \in Seq(S) /\ Len(Delivered(r, n - 1)) = c
  <2>1. \A m \in Nat : Upto(R, m) \in Nat => Delivered(r, m) \in [1..Upto(R, m) -> S]
    <3> TAKE m \in Nat
    <3> HAVE Upto(R, m) \in Nat
    <3>1. \A k \in 1..Upto(R, m) : k \in Nat
      OBVIOUS
    <3>2. \A k \in 1..Upto(R, m) : item(k) \in S
      BY <3>1
    <3>3. Delivered(r, m) = [k \in 1..Upto(R, m) |-> item(k)]
      BY DEF Delivered
    <3> HIDE DEF S, item
    <3> QED BY <3>2, <3>3
  <2> HIDE DEF S
  <2> QED BY <1>1, <1>2, <2>1, Listed
<1>4. ASSUME n \in R
      PROVE  Append(Delivered(r, n - 1), [index |-> c, slot |-> r[n] = "slot"]) = Delivered(r, n)
  <2> DEFINE e == [index |-> c, slot |-> r[n] = "slot"]
  <2>1. Upto(R, n) = c + 1
    BY <1>2, <1>4
  <2>2. Nth(R, c + 1) = n
    <3>1. c + 1 \in 1..Upto(R, n)
      BY <1>2, <2>1
    <3>2. n \in Nat
      BY <1>1
    <3>3. Reached(R, n, c + 1)
      <4> DEFINE k == c + 1
      <4>1. R \subseteq Nat \ {0} /\ k \in 1..Upto(R, n)
        BY <1>1, <3>1
      <4> HIDE DEF R, k
      <4>2. Reached(R, n, k)
        BY <3>2, <4>1, UptoReaches, Zenon
      <4> QED BY <4>2 DEF k
    <3> HIDE DEF R
    <3>4. PICK i \in 1..n : i \in R /\ Upto(R, i) = c + 1 /\ \A j \in R : Upto(R, j) = c + 1 => j = i
      BY <3>3 DEF Reached
    <3> QED BY <1>4, <2>1, <3>4 DEF Nth
  <2>3. item(c + 1) = e
    BY <1>2, <2>2
  <2>4. Delivered(r, n) = [k \in 1..c + 1 |-> item(k)] /\ Delivered(r, n - 1) = [k \in 1..c |-> item(k)]
    BY <2>1 DEF Delivered
  <2> HIDE DEF item, e, c, R, S
  <2>5. /\ Append(Delivered(r, n - 1), e) = [k \in 1..c + 1 |-> IF k = c + 1 THEN e ELSE Delivered(r, n - 1)[k]]
    BY <1>2, <1>3
  <2>6. \A k \in 1..c + 1 : (IF k = c + 1 THEN e ELSE Delivered(r, n - 1)[k]) = item(k)
    BY <1>2, <2>3, <2>4
  <2> QED BY <2>4, <2>5, <2>6 DEF e
<1>5. n \notin R => Delivered(r, n) = Delivered(r, n - 1)
  BY <1>2 DEF Delivered
<1> HIDE DEF S, item
<1> QED BY <1>2, <1>3, <1>4, <1>5

\* One row of the walk.
LEMMA SampleStepIs ==
  ASSUME NEW r \in Seq(Tags!Row), NEW w, NEW n \in 1..Len(r)
  PROVE  Tags!SampleStep(Going(r, n - 1), n, r[n], w) =
           IF StopsAt(r, w, n) THEN Stopped(r, n) ELSE Going(r, n)
<1> DEFINE g == Going(r, n - 1)
<1>1. g.rc = "OK" /\ g.out = Delivered(r, n - 1) /\ g.stopped = FALSE /\ g = [rc |-> g.rc, out |-> g.out, stopped |-> g.stopped]
  BY DEF Going
<1>2. Len(g.out) = Upto(Real(r), n - 1)
  BY <1>1, DeliveredOne
<1>3. n \in Bad(r) <=> r[n] \in {"malformed", "overlong"}
  BY DEF Bad
<1>4. n \in Real(r) <=> r[n] \in {"text", "slot"}
  BY DEF Real
<1> HIDE DEF g
<1>5. CASE r[n] = "malformed"
  <2>1. Tags!SampleStep(g, n, r[n], w) = [rc |-> "JSON", out |-> Delivered(r, n - 1), stopped |-> TRUE]
    BY <1>1, <1>5 DEF Tags!SampleStep
  <2> QED BY <1>3, <1>5, <2>1 DEF StopsAt, Stopped, g
<1>6. CASE r[n] = "overlong"
  <2>1. Tags!SampleStep(g, n, r[n], w) = [rc |-> "NOMEM", out |-> Delivered(r, n - 1), stopped |-> TRUE]
    BY <1>1, <1>6 DEF Tags!SampleStep
  <2> QED BY <1>3, <1>6, <2>1 DEF StopsAt, Stopped, g
<1>7. CASE r[n] \in {"text", "slot"}
  <2> DEFINE e == [index |-> Len(g.out), slot |-> r[n] = "slot"]
  <2>1. Tags!SampleStep(g, n, r[n], w) =
          [rc |-> "OK", out |-> Append(g.out, e), stopped |-> Len(g.out) + 1 = w]
    BY <1>1, <1>7 DEF Tags!SampleStep
  <2>2. Append(g.out, e) = Delivered(r, n) /\ Len(g.out) + 1 = Upto(Real(r), n)
    BY <1>1, <1>2, <1>4, <1>7, DeliveredOne
  <2>3. n \notin Bad(r)
    BY <1>3, <1>7
  <2> QED BY <1>4, <1>7, <2>1, <2>2, <2>3 DEF StopsAt, Stopped, Going, g
<1>8. CASE r[n] \notin {"malformed", "overlong", "text", "slot"}
  <2>1. Tags!SampleStep(g, n, r[n], w) = g
    BY <1>1, <1>8 DEF Tags!SampleStep
  <2>2. Delivered(r, n) = Delivered(r, n - 1)
    BY <1>4, <1>8, DeliveredOne
  <2> QED BY <1>3, <1>4, <1>8, <2>1, <2>2 DEF StopsAt, Going, g
<1> QED BY <1>5, <1>6, <1>7, <1>8 DEF g

\* The walk, row by row, and what it has when it ends.
Unfolds(r, w, f) ==
  f = [i \in 0..Len(r) |-> IF i = 0 THEN [rc |-> "OK", out |-> <<>>, stopped |-> FALSE]
                           ELSE Tags!SampleStep(f[i - 1], i, r[i], w)]
Walked(r, w) == (CHOOSE f : Unfolds(r, w, f))[Len(r)]

\* The walk is the function thalovant_intent_samples computes row by row.
LEMMA SamplesIs ==
  ASSUME NEW r, NEW w
  PROVE  Tags!Samples(r, w) = [rc |-> Walked(r, w).rc, out |-> Walked(r, w).out]
BY DEF Tags!Samples, Walked, Unfolds

\* The walk in closed form: it goes on up to where it has to stop.
LEMMA WalkedIs ==
  ASSUME NEW r \in Seq(Tags!Row), NEW w, NEW b, WalksTo(r, w, b)
  PROVE  Walked(r, w) = IF b = Len(r) + 1 THEN Going(r, Len(r)) ELSE Stopped(r, b)
<1> DEFINE start == [rc |-> "OK", out |-> <<>>, stopped |-> FALSE]
           known == [n \in 0..Len(r) |-> IF n < b THEN Going(r, n) ELSE Stopped(r, b)]
           value == CHOOSE f : Unfolds(r, w, f)
<1>0. Len(r) \in Nat /\ b \in 1..Len(r) + 1
  BY DEF WalksTo
<1>1. known[0] = start
  <2>1. Upto(Real(r), 0) = 0
    BY RealPlaces, UptoStep
  <2>2. Delivered(r, 0) = <<>>
    BY <2>1 DEF Delivered
  <2>3. known[0] = Going(r, 0)
    BY <1>0
  <2>4. Going(r, 0) = start
    BY <2>2 DEF Going
  <2> QED BY <2>3, <2>4
<1>2. ASSUME NEW n \in 1..Len(r) PROVE known[n] = Tags!SampleStep(known[n - 1], n, r[n], w)
  <2>0. n - 1 \in 0..Len(r) /\ n \in 0..Len(r)
    BY <1>0
  <2>1. CASE n < b
    <3>1. ~StopsAt(r, w, n)
      BY <1>0, <2>1 DEF WalksTo
    <3>2. known[n] = Going(r, n) /\ known[n - 1] = Going(r, n - 1)
      BY <1>0, <2>0, <2>1
    <3> QED BY <3>1, <3>2, SampleStepIs
  <2>2. CASE n = b
    <3>1. known[n] = Stopped(r, n) /\ known[n - 1] = Going(r, n - 1)
      BY <1>0, <2>0, <2>2
    <3>2. StopsAt(r, w, n)
      BY <1>0, <2>2 DEF WalksTo
    <3> QED BY <3>1, <3>2, SampleStepIs
  <2>3. CASE n > b
    <3>1. known[n] = Stopped(r, b) /\ known[n - 1] = Stopped(r, b)
      BY <1>0, <2>0, <2>3
    <3>2. Stopped(r, b).stopped = TRUE
      BY DEF Stopped
    <3> HIDE DEF known
    <3> QED BY <3>1, <3>2 DEF Tags!SampleStep
  <2> QED BY <1>0, <2>1, <2>2, <2>3
<1>3. Unfolds(r, w, known)
  <2> DEFINE unfolded == [n \in 0..Len(r) |-> IF n = 0 THEN start ELSE Tags!SampleStep(known[n - 1], n, r[n], w)]
  <2>1. ASSUME NEW n \in 0..Len(r) PROVE known[n] = unfolded[n]
    <3>1. unfolded[n] = IF n = 0 THEN start ELSE Tags!SampleStep(known[n - 1], n, r[n], w)
      OBVIOUS
    <3> HIDE DEF known, unfolded, start
    <3> QED BY <1>0, <1>1, <1>2, <3>1
  <2> QED BY <2>1 DEF Unfolds
<1>4. Unfolds(r, w, value)
  <2> HIDE DEF known
  <2> QED BY <1>3
<1>5. \A n \in 0..Len(r) : value[n] = IF n = 0 THEN start ELSE Tags!SampleStep(value[n - 1], n, r[n], w)
  <2> HIDE DEF value
  <2>1. value = [n \in 0..Len(r) |-> IF n = 0 THEN start ELSE Tags!SampleStep(value[n - 1], n, r[n], w)]
    BY <1>4 DEF Unfolds
  <2> QED BY <2>1
<1>k. known[Len(r)] = IF b = Len(r) + 1 THEN Going(r, Len(r)) ELSE Stopped(r, b)
  BY <1>0
<1>v. Walked(r, w) = value[Len(r)]
  BY DEF Walked
<1> HIDE DEF value, known, start
<1>6. \A n \in 0..Len(r) : value[n] = known[n]
  <2> DEFINE T == {n \in 0..Len(r) : value[n] # known[n]}
  <2> SUFFICES ASSUME T # {} PROVE FALSE
    OBVIOUS
  <2>1. T \subseteq Nat
    OBVIOUS
  <2>2. PICK n \in T : \A j \in T : n <= j
    <3> HIDE DEF T
    <3> QED BY <2>1, NatMin
  <2>3. n # 0
    BY <1>1, <1>5, <2>2
  <2>4. n - 1 \in 0..Len(r) /\ n - 1 \notin T /\ n \in 1..Len(r)
    BY <2>2, <2>3
  <2>5. value[n] = Tags!SampleStep(value[n - 1], n, r[n], w) /\ value[n - 1] = known[n - 1]
    BY <1>5, <2>2, <2>3, <2>4
  <2> QED BY <1>2, <2>2, <2>4, <2>5
<1> QED BY <1>0, <1>6, <1>k, <1>v

\* It stops at one place, if only past the end.
LEMMA SomeWalk ==
  ASSUME NEW r \in Seq(Tags!Row), NEW w
  PROVE  \E b : WalksTo(r, w, b)
<1> DEFINE T == {i \in 1..Len(r) : StopsAt(r, w, i)}
<1>1. T \subseteq Nat /\ Len(r) \in Nat
  OBVIOUS
<1>2. CASE T = {}
  <2>1. WalksTo(r, w, Len(r) + 1)
    BY <1>1, <1>2 DEF WalksTo
  <2> QED BY <2>1
<1>3. CASE T # {}
  <2>1. PICK b \in T : \A i \in T : b <= i
    <3> HIDE DEF T
    <3> QED BY <1>1, <1>3, NatMin
  <2>2. WalksTo(r, w, b)
    BY <1>1, <2>1 DEF WalksTo
  <2> QED BY <2>2
<1> QED BY <1>2, <1>3

\* The instance counts as this module does.
LEMMA SameCounts == \A S : Tags!Cardinality(S) = Cardinality(S)
  BY DEF Tags!Cardinality, Cardinality
LEMMA SameMin == \A S : Tags!Min(S) = Tags!Intents!Min(S)
  BY DEF Tags!Min, Tags!Intents!Min

\* Samples are delivered in order, each once, up to where the walk stops.
LEMMA SamplesDelivered ==
  ASSUME rows \in Seq(Tags!Row), MaxRows \in Nat
  PROVE  Tags!SamplesAreNumbered
<1> SUFFICES ASSUME NEW w \in 1..(MaxRows + 1)
    PROVE LET got == Tags!Samples(rows, w)
              real == {i \in 1..Len(rows) : rows[i] \in {"text", "slot"}}
              bad == {i \in 1..Len(rows) : rows[i] \in {"malformed", "overlong"}}
              before(i) == Tags!Cardinality({j \in real : j < i})
              all == Tags!Cardinality(real)
          IN /\ Len(got.out) <= w /\ Len(got.out) <= Len(rows)
             /\ \A n \in 1..Len(got.out) : \E i \in real :
                  before(i) = n - 1 /\ got.out[n] = [index |-> n - 1, slot |-> rows[i] = "slot"]
             /\ got.rc = "OK" => Len(got.out) = IF all < w THEN all ELSE w
             /\ got.rc # "OK" => \E i \in bad : Len(got.out) = before(i)
  BY DEF Tags!SamplesAreNumbered
<1> DEFINE R == Real(rows)
           L == Len(rows)
           got == Tags!Samples(rows, w)
           before(i) == Tags!Cardinality({j \in R : j < i})
<1>1. R \subseteq Nat \ {0} /\ L \in Nat /\ w \in Nat /\ w # 0 /\ \A n \in Nat : Upto(R, n) \in Nat /\ Upto(R, n) <= n
  <2>1. Real(rows) \subseteq Nat \ {0}
    BY RealPlaces
  <2>2. L \in Nat /\ w \in Nat /\ w # 0
    OBVIOUS
  <2> HIDE DEF R
  <2>3. \A n \in Nat : Upto(R, n) \in Nat /\ Upto(R, n) <= n
    BY <2>1, UptoFinite DEF R
  <2> QED BY <2>1, <2>2, <2>3 DEF R
<1>2. PICK b : WalksTo(rows, w, b)
  BY SomeWalk
<1>3. b \in 1..L + 1 /\ \A i \in 1..b - 1 : ~StopsAt(rows, w, i)
  BY <1>2 DEF WalksTo
<1>4. got = [rc |-> IF b = L + 1 THEN "OK" ELSE Stopped(rows, b).rc,
             out |-> IF b = L + 1 THEN Delivered(rows, L) ELSE Stopped(rows, b).out]
  BY <1>2, SamplesIs, WalkedIs DEF Going
<1>5. \A i \in R : before(i) = Upto(R, i) - 1
  <2> TAKE i \in R
  <2>1. \A j \in R : j \in Nat /\ j # 0
    BY <1>1
  <2>2. i \in Nat /\ i # 0 /\ i - 1 \in Nat /\ \A j \in R : j < i <=> j <= i - 1
    BY <2>1
  <2>3. {j \in R : j < i} = {j \in R : j <= i - 1}
    BY <2>2, Zenon
  <2>4. Upto(R, i) = Upto(R, i - 1) + 1
    BY <1>1, <2>2, UptoStep
  <2>5. before(i) = Upto(R, i - 1)
    BY <2>3, SameCounts DEF Upto
  <2> HIDE DEF before, R
  <2> QED BY <1>1, <2>2, <2>4, <2>5
<1>6. Tags!Cardinality(R) = Upto(R, L)
  <2>1. {j \in R : j <= L} = R
    BY DEF Real
  <2> QED BY <2>1, SameCounts DEF Upto
<1>7. ASSUME NEW n \in 0..L, NEW k \in 1..Upto(R, n)
      PROVE  \E i \in R : before(i) = k - 1 /\ Delivered(rows, n)[k] = [index |-> k - 1, slot |-> rows[i] = "slot"]
  <2>1. PICK i \in 1..n : i \in R /\ Upto(R, i) = k /\ \A j \in R : Upto(R, j) = k => j = i
    <3>1. n \in Nat
      BY <1>1
    <3>2. R \subseteq Nat \ {0}
      BY <1>1
    <3>3. k \in 1..Upto(R, n)
      BY <1>7
    <3> HIDE DEF R, L
    <3>4. Reached(R, n, k)
      BY <3>1, <3>2, <3>3, UptoReaches, Zenon
    <3> QED BY <3>4 DEF Reached
  <2>2. Nth(R, k) = i
    BY <2>1 DEF Nth
  <2>3. Delivered(rows, n)[k] = [index |-> k - 1, slot |-> rows[i] = "slot"]
    BY <2>2 DEF Delivered
  <2>4. before(i) = k - 1
    BY <1>5, <2>1
  <2> QED BY <2>1, <2>3, <2>4
<1>8. ASSUME NEW n \in 0..L PROVE Len(Delivered(rows, n)) = Upto(R, n)
  <2>1. CASE n = 0
    <3>1. Upto(R, 0) = 0
      BY <1>1, UptoStep
    <3>2. Delivered(rows, n) = <<>>
      BY <2>1, <3>1 DEF Delivered
    <3> QED BY <2>1, <3>1, <3>2
  <2>2. CASE n # 0
    <3>1. n \in 1..L
      BY <2>2
    <3> QED BY <3>1, DeliveredOne
  <2> QED BY <2>1, <2>2
<1>9. ASSUME NEW n \in 0..b - 1 PROVE Upto(R, n) < w
  <2> SUFFICES ASSUME ~(Upto(R, n) < w) PROVE FALSE
    OBVIOUS
  <2>1. n \in Nat /\ w \in 1..Upto(R, n)
    BY <1>1, <1>3
  <2>2. PICK i \in 1..n : i \in R /\ Upto(R, i) = w
    <3>1. R \subseteq Nat \ {0}
      BY <1>1
    <3> HIDE DEF R, L
    <3>2. Reached(R, n, w)
      BY <2>1, <3>1, UptoReaches, Zenon
    <3> QED BY <3>2 DEF Reached

  <2>3. i \in 1..b - 1
    BY <1>3, <2>1
  <2> QED BY <1>3, <2>2, <2>3 DEF StopsAt
<1> HIDE DEF R, L, before
<1>a. ASSUME NEW n \in 0..L, got.out = Delivered(rows, n), Upto(R, n) <= w
      PROVE  /\ Len(got.out) <= w /\ Len(got.out) <= L
             /\ \A k \in 1..Len(got.out) : \E i \in R :
                  before(i) = k - 1 /\ got.out[k] = [index |-> k - 1, slot |-> rows[i] = "slot"]
  <2>1. Len(got.out) = Upto(R, n)
    BY <1>8, <1>a
  <2>2. Upto(R, n) <= L
    BY <1>1
  <2>3. \A k \in 1..Len(got.out) : k \in 1..Upto(R, n)
    BY <2>1
  <2> DEFINE out == got.out
  <2>4. out = Delivered(rows, n)
    BY <1>a
  <2> HIDE DEF out
  <2>5. \A k \in 1..Upto(R, n) : \E i \in R :
          before(i) = k - 1 /\ out[k] = [index |-> k - 1, slot |-> rows[i] = "slot"]
    BY <1>7, <2>4
  <2>6. Len(out) = Upto(R, n)
    BY <2>1 DEF out
  <2>7. Upto(R, n) \in Nat /\ Upto(R, n) <= L
    BY <1>1
  <2> QED BY <1>a, <2>5, <2>6, <2>7 DEF out
<1>b. \E n \in 0..L : got.out = Delivered(rows, n) /\ Upto(R, n) <= w
  <2>1. CASE b = L + 1
    <3>1. L \in 0..b - 1 /\ got.out = Delivered(rows, L) /\ L \in 0..L
      BY <1>1, <1>4, <2>1
    <3> QED BY <1>1, <1>9, <3>1
  <2>2. CASE b # L + 1 /\ b \in Bad(rows)
    <3>1. b - 1 \in 0..b - 1 /\ b - 1 \in 0..L /\ got.out = Delivered(rows, b - 1)
      BY <1>1, <1>3, <1>4, <2>2 DEF Stopped
    <3> QED BY <1>1, <1>9, <3>1
  <2>3. CASE b # L + 1 /\ b \notin Bad(rows)
    <3>1. b \in 0..L /\ got.out = Delivered(rows, b) /\ b <= L
      BY <1>1, <1>3, <1>4, <2>3 DEF Stopped
    <3>2. Upto(R, b) = w
      BY <1>2, <2>3, <3>1 DEF WalksTo, StopsAt, R, L
    <3> QED BY <1>1, <3>1, <3>2
  <2> QED BY <2>1, <2>2, <2>3
<1>c. got.rc = "OK" => Len(got.out) = IF Upto(R, L) < w THEN Upto(R, L) ELSE w
  <2>1. CASE b = L + 1
    <3>1. L \in 0..b - 1 /\ L \in 0..L /\ got.out = Delivered(rows, L)
      BY <1>1, <1>4, <2>1
    <3> QED BY <1>8, <1>9, <3>1
  <2>2. CASE b # L + 1 /\ b \in Bad(rows)
    BY <1>4, <2>2 DEF Stopped
  <2>3. CASE b # L + 1 /\ b \notin Bad(rows)
    <3>1. b \in 0..L /\ b <= L /\ b \in Nat /\ got.out = Delivered(rows, b)
      BY <1>1, <1>3, <1>4, <2>3 DEF Stopped
    <3>2. Upto(R, b) = w
      BY <1>2, <2>3, <3>1 DEF WalksTo, StopsAt, R, L
    <3>3. Upto(R, b) <= Upto(R, L)
      BY <1>1, <3>1, UptoGrows
    <3> QED BY <1>1, <1>8, <3>1, <3>2, <3>3
  <2> QED BY <2>1, <2>2, <2>3
<1>d. got.rc # "OK" => \E i \in Bad(rows) : Len(got.out) = before(i)
  <2> SUFFICES ASSUME got.rc # "OK" PROVE \E i \in Bad(rows) : Len(got.out) = before(i)
    OBVIOUS
  <2>1. b # L + 1 /\ b \in Bad(rows) /\ got.out = Delivered(rows, b - 1)
    BY <1>4 DEF Stopped
  <2>2. b \in Nat /\ b - 1 \in 0..L
    BY <1>1, <1>3, <2>1
  <2>3. before(b) = Upto(R, b - 1)
    <3>1. \A j \in R : j \in Nat
      BY <1>1
    <3>2. \A j \in R : j < b <=> j <= b - 1
      BY <2>2, <3>1
    <3>3. {j \in R : j < b} = {j \in R : j <= b - 1}
      BY <3>2, Zenon
    <3> QED BY <3>3, SameCounts DEF Upto, before
  <2> QED BY <1>8, <2>1, <2>2, <2>3
<1> HIDE DEF got
<1>e. /\ Len(got.out) <= w /\ Len(got.out) <= L
      /\ \A k \in 1..Len(got.out) : \E i \in R :
           before(i) = k - 1 /\ got.out[k] = [index |-> k - 1, slot |-> rows[i] = "slot"]
  BY <1>a, <1>b
<1> QED BY <1>6, <1>c, <1>d, <1>e DEF R, L, got, before, Real, Bad

-----------------------------------------------------------------------------
\* The first of some places.
LEMMA MinIs ==
  ASSUME NEW T, T \subseteq Nat, T # {}
  PROVE  Tags!Min(T) \in T /\ \A y \in T : Tags!Min(T) <= y
  BY NatMin DEF Tags!Min

\* The language of an event is its first (LanguageIsFirst).
LEMMA LanguageTaken ==
  ASSUME rows \in Seq(Tags!Row)
  PROVE  Tags!LanguageIsFirst
<1> DEFINE spoken == [i \in 1..3 |-> IF rows[i] = "array" THEN "absent" ELSE rows[i]]
           A == {i \in 1..Len(spoken) : spoken[i] \notin {"absent", ""}}
           B == {i \in 1..Len(rows) : rows[i] \notin {"array", ""}}
<1> SUFFICES ASSUME Len(rows) = 3, \A i \in 1..3 : rows[i] \notin {"blank", "malformed"}
             PROVE  LET taken == Tags!Intents!FirstOf(spoken)
                    IN Tags!EventLanguage(rows) = IF taken = "overlong" THEN "NOMEM" ELSE taken
  BY DEF Tags!LanguageIsFirst
<1>1. Len(spoken) = 3 /\ \A i \in 1..3 : rows[i] \in Tags!Row
  OBVIOUS
<1>2. A = B
  <2>1. \A i \in 1..3 : rows[i] # "absent"
    BY <1>1 DEF Tags!Row
  <2> QED BY <1>1, <2>1
<1>3. Tags!Intents!FirstOf(spoken) = IF A = {} THEN "" ELSE spoken[Tags!Min(A)]
  <2>1. Tags!Intents!FirstOf(spoken) = IF A = {} THEN "" ELSE spoken[Tags!Intents!Min(A)]
    BY Zenon DEF Tags!Intents!FirstOf, Tags!Intents!Missing
  <2>2. Tags!Intents!Min(A) = Tags!Min(A)
    BY SameMin
  <2> QED BY <2>1, <2>2
<1>4. B # {} => Tags!Min(B) \in B
  <2>1. B \subseteq Nat
    <3>1. \A i \in 1..Len(rows) : i \in Nat
      OBVIOUS
    <3> QED BY <3>1, Zenon
  <2> HIDE DEF B
  <2> QED BY <2>1, MinIs
<1>5. \A i \in B : spoken[i] = rows[i]
  OBVIOUS
<1> HIDE DEF A, B, spoken
<1> QED BY <1>2, <1>3, <1>4, <1>5 DEF Tags!EventLanguage, B

-----------------------------------------------------------------------------
\* What is trimmed of a text begins at a and ends at e.
Inner(s, a, e) == /\ a \in 1..Len(s) + 1 /\ e \in a - 1..Len(s)
                  /\ \A i \in 1..a - 1 : Tags!IsSpace(s[i])
                  /\ \A i \in e + 1..Len(s) : Tags!IsSpace(s[i])
                  /\ a <= Len(s) => ~Tags!IsSpace(s[a])
                  /\ e >= a => ~Tags!IsSpace(s[e])

\* The two loops of trimmed find exactly the inner text.
LEMMA InnerOne ==
  ASSUME NEW s \in Seq(Tags!Char), NEW a, NEW e, Inner(s, a, e)
  PROVE  /\ Tags!SkipSpaces(s) = a /\ Tags!DropSpaces(s, a) = e
         /\ Tags!Trimmed(s) = SubSeq(s, a, e)
<1>1. Len(s) \in Nat /\ a \in 1..Len(s) + 1 /\ e \in a - 1..Len(s) /\ a \in Nat /\ e \in Int
  BY DEF Inner
<1> DEFINE B(k) == (\A i \in 1..k - 1 : Tags!IsSpace(s[i])) /\ (k <= Len(s) => ~Tags!IsSpace(s[k]))
           D(k) == (\A i \in k + 1..Len(s) : Tags!IsSpace(s[i])) /\ (k >= a => ~Tags!IsSpace(s[k]))
<1>2. Tags!SkipSpaces(s) = CHOOSE k \in 1..Len(s) + 1 : B(k)
  BY Zenon DEF Tags!SkipSpaces
<1>3. Tags!DropSpaces(s, a) = CHOOSE k \in a - 1..Len(s) : D(k)
  BY Zenon DEF Tags!DropSpaces
<1>4. B(a) /\ D(e)
  BY DEF Inner
<1>5. ASSUME NEW k \in 1..Len(s) + 1, B(k) PROVE k = a
  <2>1. k < a => k \in 1..a - 1 /\ k <= Len(s)
    BY <1>1
  <2>2. a < k => a \in 1..k - 1 /\ a <= Len(s)
    BY <1>1
  <2> QED BY <1>1, <1>4, <1>5, <2>1, <2>2
<1>6. ASSUME NEW k \in a - 1..Len(s), D(k) PROVE k = e
  <2>1. k < e => e \in k + 1..Len(s) /\ e >= a
    BY <1>1
  <2>2. e < k => k \in e + 1..Len(s) /\ k >= a
    BY <1>1
  <2> QED BY <1>1, <1>4, <1>6, <2>1, <2>2
<1> HIDE DEF B, D
<1>7. Tags!SkipSpaces(s) = a
  BY <1>1, <1>2, <1>4, <1>5
<1>8. Tags!DropSpaces(s, a) = e
  BY <1>1, <1>3, <1>4, <1>6
<1> QED BY <1>7, <1>8 DEF Tags!Trimmed

\* Every text has an inner one.
LEMMA SomeInner ==
  ASSUME NEW s \in Seq(Tags!Char)
  PROVE  \E a, e : Inner(s, a, e)
<1> DEFINE L == Len(s)
           A == {i \in 1..L : ~Tags!IsSpace(s[i])}
           Z == {n \in 0..L : L - n \in A}
<1>1. L \in Nat /\ A \subseteq Nat /\ Z \subseteq Nat
  OBVIOUS
<1>2. CASE A = {}
  <2>1. Inner(s, L + 1, L)
    BY <1>1, <1>2 DEF Inner
  <2> QED BY <2>1
<1>3. CASE A # {}
  <2>1. PICK a \in A : \A i \in A : a <= i
    <3> HIDE DEF A
    <3> QED BY <1>1, <1>3, NatMin
  <2>2. L - a \in Z
    BY <1>1
  <2>3. PICK n \in Z : \A i \in Z : n <= i
    <3> HIDE DEF Z
    <3> QED BY <1>1, <2>2, NatMin
  <2> DEFINE e == L - n
  <2>4. a \in 1..L /\ e \in A /\ n \in 0..L
    BY <2>1, <2>3
  <2>5. a <= e /\ e \in 1..L /\ ~Tags!IsSpace(s[e]) /\ ~Tags!IsSpace(s[a])
    BY <2>1, <2>4
  <2>6. ASSUME NEW i \in e + 1..L PROVE Tags!IsSpace(s[i])
    <3>1. i \in 1..L /\ L - i \in 0..L /\ L - (L - i) = i /\ ~(n <= L - i)
      BY <1>1, <2>4, <2>5
    <3>2. L - i \notin Z
      <4> HIDE DEF Z
      <4> QED BY <2>3, <3>1
    <3> QED BY <3>1, <3>2
  <2>7. ASSUME NEW i \in 1..a - 1 PROVE Tags!IsSpace(s[i])
    <3>1. i \in 1..L /\ ~(a <= i)
      BY <1>1, <2>4
    <3> QED BY <2>1, <3>1
  <2>8. Inner(s, a, e)
    <3>1. a \in 1..L + 1 /\ e \in a - 1..L
      BY <1>1, <2>4, <2>5
    <3> HIDE DEF e, A
    <3> QED BY <2>5, <2>6, <2>7, <3>1 DEF Inner
  <2> QED BY <2>8
<1> QED BY <1>2, <1>3

\* The trimmed text, character by character.
LEMMA TrimmedIs ==
  ASSUME NEW s \in Seq(Tags!Char), NEW a, NEW e, Inner(s, a, e)
  PROVE  /\ Tags!Trimmed(s) \in Seq(Tags!Char) /\ Len(Tags!Trimmed(s)) = e + 1 - a /\ e + 1 - a \in Nat
         /\ \A i \in 1..e + 1 - a : Tags!Trimmed(s)[i] = s[a - 1 + i] /\ a - 1 + i \in 1..Len(s)
<1>1. Len(s) \in Nat /\ a \in 1..Len(s) + 1 /\ e \in a - 1..Len(s)
  BY DEF Inner
<1>2. Tags!Trimmed(s) = SubSeq(s, a, e)
  BY InnerOne
<1>3. e + 1 - a \in Nat /\ \A i \in 1..e + 1 - a : a - 1 + i \in 1..Len(s) /\ a + i - 1 = a - 1 + i
  BY <1>1
<1>4. SubSeq(s, a, e) \in Seq(Tags!Char) /\ Len(SubSeq(s, a, e)) = e + 1 - a
      /\ \A i \in 1..e + 1 - a : SubSeq(s, a, e)[i] = s[a - 1 + i]
  BY <1>1
<1> QED BY <1>2, <1>3, <1>4

\* The spelling of a text is its inner text, folded.
LEMMA SpellingIs ==
  ASSUME NEW s \in Seq(Tags!Char)
  PROVE  Tags!Spelling(s) = [n \in 1..Len(Tags!Trimmed(s)) |-> Tags!Fold(Tags!Trimmed(s)[n])]
<1> DEFINE t == Tags!Trimmed(s)
           inner == {i \in 1..Len(s) : /\ \E j \in 1..i : ~Tags!IsSpace(s[j])
                                       /\ \E j \in i..Len(s) : ~Tags!IsSpace(s[j])}
           first == CHOOSE i \in inner : \A j \in inner : i <= j
<1>1. PICK a, e : Inner(s, a, e)
  BY SomeInner
<1>2. Len(s) \in Nat /\ a \in 1..Len(s) + 1 /\ e \in a - 1..Len(s) /\ a \in Int /\ e \in Int
  BY <1>1 DEF Inner
<1>3. inner = a..e
  <2>1. ASSUME NEW i \in inner PROVE i \in a..e
    <3>1. PICK j \in 1..i : ~Tags!IsSpace(s[j])
      BY <2>1
    <3>2. PICK k \in i..Len(s) : ~Tags!IsSpace(s[k])
      BY <2>1
    <3>3. i \in 1..Len(s)
      OBVIOUS
    <3>4. ~(i < a)
      BY <1>1, <1>2, <3>1, <3>3 DEF Inner
    <3>5. ~(i > e)
      BY <1>1, <1>2, <3>2, <3>3 DEF Inner
    <3> QED BY <1>2, <3>3, <3>4, <3>5
  <2>2. ASSUME NEW i \in a..e PROVE i \in inner
    <3>1. i \in 1..Len(s) /\ a \in 1..i /\ e \in i..Len(s) /\ a <= Len(s) /\ e >= a
      BY <1>2
    <3>2. ~Tags!IsSpace(s[a]) /\ ~Tags!IsSpace(s[e])
      BY <1>1, <3>1 DEF Inner
    <3> QED BY <3>1, <3>2
  <2> HIDE DEF inner
  <2> QED BY <2>1, <2>2
<1>4. Tags!Spelling(s) = [n \in 1..Tags!Cardinality(inner) |-> Tags!Fold(s[first + n - 1])]
  BY Zenon DEF Tags!Spelling
<1> HIDE DEF inner
<1>5. Tags!Cardinality(inner) = e + 1 - a
  <2>1. Cardinality(a..e) = IF a > e THEN 0 ELSE e - a + 1
    BY <1>2, FS_Interval
  <2>2. Tags!Cardinality(inner) = Cardinality(a..e)
    BY <1>3, SameCounts
  <2> QED BY <1>2, <2>1, <2>2
<1>6. ASSUME NEW n \in 1..e + 1 - a PROVE first + n - 1 = a - 1 + n
  <2>1. a \in inner /\ \A j \in inner : a <= j
    BY <1>2, <1>3
  <2>2. first = a
    <3>1. \A i \in inner : (\A j \in inner : i <= j) => i = a
      <4>1. \A i \in inner : i \in Int
        BY <1>2, <1>3
      <4> QED BY <1>2, <2>1, <4>1
    <3> QED BY <2>1, <3>1
  <2> HIDE DEF first
  <2> QED BY <1>2, <2>2
<1>7. Len(t) = e + 1 - a /\ \A n \in 1..e + 1 - a : t[n] = s[a - 1 + n]
  BY <1>1, TrimmedIs
<1> HIDE DEF t, first
<1> QED BY <1>4, <1>5, <1>6, <1>7 DEF t

\* Trimming a trimmed text, and trimming it where it is.
LEMMA TrimmedTwice ==
  ASSUME NEW s \in Seq(Tags!Char)
  PROVE  Tags!Trimmed(Tags!Trimmed(s)) = Tags!Trimmed(s)
<1> DEFINE t == Tags!Trimmed(s)
<1>1. PICK a, e : Inner(s, a, e)
  BY SomeInner
<1>2. /\ t \in Seq(Tags!Char) /\ Len(t) = e + 1 - a /\ e + 1 - a \in Nat
      /\ \A i \in 1..e + 1 - a : t[i] = s[a - 1 + i]
  BY <1>1, TrimmedIs
<1>3. a \in 1..Len(s) + 1 /\ e \in a - 1..Len(s) /\ Len(s) \in Nat
  BY <1>1 DEF Inner
<1> HIDE DEF t
<1>4. Inner(t, 1, Len(t))
  <2>1. 1 \in 1..Len(t) + 1 /\ Len(t) \in 1 - 1..Len(t)
    BY <1>2
  <2>2. \A i : i \notin 1..1 - 1 /\ i \notin Len(t) + 1..Len(t)
    BY <1>2
  <2>3. ASSUME 1 <= Len(t) PROVE ~Tags!IsSpace(t[1]) /\ ~Tags!IsSpace(t[Len(t)])
    <3>1. a \in Int /\ e \in Int /\ 1 \in 1..e + 1 - a /\ e + 1 - a \in 1..e + 1 - a /\ a - 1 + 1 = a /\ a - 1 + (e + 1 - a) = e
      BY <1>2, <1>3, <2>3
    <3>2. t[1] = s[a] /\ t[Len(t)] = s[e]
      BY <1>2, <3>1
    <3>3. a <= Len(s) /\ e >= a
      BY <1>2, <1>3, <2>3
    <3> QED BY <1>1, <3>2, <3>3 DEF Inner
  <2> QED BY <2>1, <2>2, <2>3 DEF Inner
<1>5. Tags!Trimmed(t) = SubSeq(t, 1, Len(t))
  BY <1>2, <1>4, InnerOne
<1>6. SubSeq(t, 1, Len(t)) = t
  BY <1>2
<1> QED BY <1>5, <1>6 DEF t

\* trim_in_place leaves what trimmed returns.
LEMMA TrimInPlaceIs ==
  ASSUME NEW s \in Seq(Tags!Char)
  PROVE  Tags!TrimInPlace(s) = Tags!Trimmed(s)
<1>1. PICK a, e : Inner(s, a, e)
  BY SomeInner
<1> DEFINE n == e + 1 - a
           moved == IF a > 1 /\ n > 0
                    THEN [i \in 1..Len(s) |-> IF i <= n THEN s[a - 1 + i] ELSE s[i]] ELSE s
<1>2. Tags!SkipSpaces(s) = a /\ Tags!DropSpaces(s, a) = e /\ Tags!Trimmed(s) = SubSeq(s, a, e)
  BY <1>1, InnerOne
<1>3. a \in 1..Len(s) + 1 /\ e \in a - 1..Len(s) /\ Len(s) \in Nat
  BY <1>1 DEF Inner
<1>4. Tags!TrimInPlace(s) = SubSeq(moved, 1, n)
  BY <1>2 DEF Tags!TrimInPlace
<1>5. n \in Nat /\ n <= Len(s) /\ a \in Nat /\ e \in Int
  BY <1>3
<1>6. moved \in Seq(Tags!Char) /\ Len(moved) = Len(s) /\ \A i \in 1..n : moved[i] = s[a - 1 + i]
  <2>1. CASE a > 1 /\ n > 0
    <3>1. \A i \in 1..Len(s) : i <= n => a - 1 + i \in 1..Len(s)
      BY <1>3, <1>5
    <3>2. \A i \in 1..Len(s) : (IF i <= n THEN s[a - 1 + i] ELSE s[i]) \in Tags!Char
      BY <3>1
    <3>3. moved = [i \in 1..Len(s) |-> IF i <= n THEN s[a - 1 + i] ELSE s[i]]
      BY <2>1
    <3>4. moved \in [1..Len(s) -> Tags!Char]
      BY <3>2, <3>3
    <3>5. \A i \in 1..n : i \in 1..Len(s) /\ i <= n
      BY <1>5
    <3>6. \A i \in 1..n : moved[i] = s[a - 1 + i]
      BY <3>3, <3>5
    <3> HIDE DEF moved
    <3> QED BY <1>3, <3>4, <3>6, Listed
  <2>2. CASE ~(a > 1 /\ n > 0)
    <3>1. moved = s
      BY <2>2
    <3>2. \A i \in 1..n : a - 1 + i = i
      BY <1>3, <1>5, <2>2
    <3> QED BY <3>1, <3>2
  <2> QED BY <2>1, <2>2
<1> HIDE DEF moved
<1>7. /\ Tags!Trimmed(s) \in Seq(Tags!Char) /\ Len(Tags!Trimmed(s)) = n
      /\ \A i \in 1..n : Tags!Trimmed(s)[i] = s[a - 1 + i]
  BY <1>1, TrimmedIs
<1> HIDE DEF n
<1>8. SubSeq(moved, 1, n) \in Seq(Tags!Char) /\ Len(SubSeq(moved, 1, n)) = n /\ \A i \in 1..n : SubSeq(moved, 1, n)[i] = moved[i]
  BY <1>3, <1>5, <1>6
<1> DEFINE x == SubSeq(moved, 1, n)
           y == Tags!Trimmed(s)
<1>9. x \in Seq(Tags!Char) /\ y \in Seq(Tags!Char) /\ Len(x) = Len(y) /\ \A i \in 1..Len(x) : x[i] = y[i]
  BY <1>6, <1>7, <1>8
<1> HIDE DEF x, y
<1>a. x = y
  BY <1>9
<1> QED BY <1>4, <1>a DEF x, y

LEMMA SameIs ==
  ASSUME NEW a \in Seq(Tags!Char), NEW b \in Seq(Tags!Char)
  PROVE  Tags!SameLanguage(a, b) <=> Tags!Spelling(a) = Tags!Spelling(b)
<1> DEFINE x == Tags!Trimmed(a)
           y == Tags!Trimmed(b)
           f == [n \in 1..Len(x) |-> Tags!Fold(x[n])]
           g == [n \in 1..Len(y) |-> Tags!Fold(y[n])]
<1>1. Tags!Spelling(a) = f /\ Tags!Spelling(b) = g
  BY SpellingIs
<1>2. Tags!SameLanguage(a, b) <=> Len(x) = Len(y) /\ \A i \in 1..Len(x) : Tags!Fold(x[i]) = Tags!Fold(y[i])
  BY DEF Tags!SameLanguage
<1>3. Len(x) \in Nat /\ Len(y) \in Nat
  <2>1. PICK p, q : Inner(a, p, q)
    BY SomeInner
  <2>2. PICK u, v : Inner(b, u, v)
    BY SomeInner
  <2> QED BY <2>1, <2>2, TrimmedIs
<1> HIDE DEF x, y
<1>4. DOMAIN f = 1..Len(x) /\ DOMAIN g = 1..Len(y)
  OBVIOUS
<1>5. 1..Len(x) = 1..Len(y) => Len(x) = Len(y)
  <2> SUFFICES ASSUME 1..Len(x) = 1..Len(y) PROVE Len(x) = Len(y)
    OBVIOUS
  <2>1. Len(x) # 0 => Len(x) \in 1..Len(y)
    BY <1>3
  <2>2. Len(y) # 0 => Len(y) \in 1..Len(x)
    BY <1>3
  <2> QED BY <1>3, <2>1, <2>2
<1>6. ASSUME f = g PROVE Len(x) = Len(y) /\ \A i \in 1..Len(x) : Tags!Fold(x[i]) = Tags!Fold(y[i])
  <2>1. Len(x) = Len(y)
    BY <1>4, <1>5, <1>6
  <2>2. \A i \in 1..Len(x) : f[i] = Tags!Fold(x[i]) /\ g[i] = Tags!Fold(y[i])
    BY <2>1
  <2> HIDE DEF f, g
  <2> QED BY <1>6, <2>1, <2>2
<1>7. ASSUME Len(x) = Len(y), \A i \in 1..Len(x) : Tags!Fold(x[i]) = Tags!Fold(y[i]) PROVE f = g
  BY <1>7
<1> QED BY <1>1, <1>2, <1>6, <1>7

LEMMA TagsGrouped ==
  ASSUME text \in Seq(Tags!Char)
  PROVE  Tags!TagsAreGrouped
<1>1. ASSUME NEW cut \in 0..Len(text)
      PROVE  LET a == SubSeq(text, 1, cut)  b == SubSeq(text, cut + 1, Len(text))
             IN Tags!SameLanguage(a, b) = (Tags!Spelling(a) = Tags!Spelling(b))
  <2>1. SubSeq(text, 1, cut) \in Seq(Tags!Char) /\ SubSeq(text, cut + 1, Len(text)) \in Seq(Tags!Char)
    OBVIOUS
  <2> DEFINE a == SubSeq(text, 1, cut)
             b == SubSeq(text, cut + 1, Len(text))
  <2>2. Tags!SameLanguage(a, b) \in BOOLEAN
    BY DEF Tags!SameLanguage
  <2>3. Tags!SameLanguage(a, b) <=> Tags!Spelling(a) = Tags!Spelling(b)
    BY <2>1, SameIs
  <2> HIDE DEF a, b
  <2>4. Tags!SameLanguage(a, b) = (Tags!Spelling(a) = Tags!Spelling(b))
    BY <2>2, <2>3
  <2> QED BY <2>4 DEF a, b
<1>2. Tags!SameLanguage(Tags!TrimInPlace(text), text)
  <2>1. Tags!Trimmed(Tags!TrimInPlace(text)) = Tags!Trimmed(text)
    BY TrimInPlaceIs, TrimmedTwice
  <2> QED BY <2>1 DEF Tags!SameLanguage
<1> QED BY <1>1, <1>2 DEF Tags!TagsAreGrouped

\* Tags that are one language are those of one spelling; an event speaks the
\* language of its first tag; and samples are delivered in order, each once,
\* up to where the walk has to stop: of src/intents.c, src/ask.c and
\* src/json.c, for texts and arrays of any length.
THEOREM TextsAreTakenHolds ==
  ASSUME Tags!LanguagesAssumption
  PROVE  Tags!Spec => []Tags!TextsAreTaken
<1> DEFINE Types == text \in Seq(Tags!Char) /\ rows \in Seq(Tags!Row)
<1>1. Tags!Init => Types
  BY DEF Tags!Init
<1>2. Types /\ [Tags!Next]_Tags!vars => Types'
  <2> SUFFICES ASSUME Types, [Tags!Next]_Tags!vars PROVE Types'
    OBVIOUS
  <2>1. CASE Tags!GrowText
    BY <2>1 DEF Tags!GrowText
  <2>2. CASE Tags!GrowRows
    BY <2>2 DEF Tags!GrowRows
  <2>3. CASE UNCHANGED Tags!vars
    BY <2>3 DEF Tags!vars
  <2> QED BY <2>1, <2>2, <2>3 DEF Tags!Next
<1>3. Types => Tags!TextsAreTaken
  BY TagsGrouped, LanguageTaken, SamplesDelivered DEF Tags!TextsAreTaken, Tags!LanguagesAssumption
<1> QED BY <1>1, <1>2, <1>3, PTL DEF Tags!Spec

-----------------------------------------------------------------------------
(* The fields of frames (AskFields). *)
CONSTANTS ClipMax, ScratchCap, OutCap, PayloadCap, TokenRoom
Fields == INSTANCE AskFields

\* The instance counts as this module does, and the reader of intents.c too.
LEMMA FieldCounts == \A S : /\ Fields!Cardinality(S) = Cardinality(S)
                            /\ Fields!Intents!Cardinality(S) = Cardinality(S)
  BY DEF Fields!Cardinality, Fields!Intents!Cardinality, Cardinality

\* How many places of R come before one of them.
LEMMA UptoBefore ==
  ASSUME NEW R, R \subseteq Nat \ {0}, NEW i \in R
  PROVE  Cardinality({j \in R : j < i}) = Upto(R, i) - 1 /\ Upto(R, i) \in Nat
<1>1. \A j \in R : j \in Nat /\ j # 0
  OBVIOUS
<1>2. i \in Nat /\ i # 0 /\ i - 1 \in Nat /\ \A j \in R : j < i <=> j <= i - 1
  BY <1>1
<1>3. {j \in R : j < i} = {j \in R : j <= i - 1}
  BY <1>2, Zenon
<1>4. Upto(R, i) = Upto(R, i - 1) + 1 /\ Upto(R, i - 1) \in Nat
  BY <1>2, UptoStep, UptoFinite
<1>5. Cardinality({j \in R : j < i}) = Upto(R, i - 1)
  BY <1>3 DEF Upto
<1> QED BY <1>4, <1>5

\* The row b at which reading the list ends, if only past its last one.
ReadTo(r, b) == /\ b \in 1..Len(r) + 1
                /\ b <= Len(r) => r[b] \in Fields!Unread
                /\ \A i \in 1..b - 1 : r[i] \notin Fields!Unread

LEMMA SomeRead ==
  ASSUME NEW r, Len(r) \in Nat
  PROVE  \E b : ReadTo(r, b)
<1> DEFINE T == {i \in 1..Len(r) : r[i] \in Fields!Unread}
<1>1. T \subseteq Nat
  OBVIOUS
<1>2. CASE T = {}
  <2>1. ReadTo(r, Len(r) + 1)
    BY <1>2 DEF ReadTo
  <2> QED BY <2>1
<1>3. CASE T # {}
  <2>1. PICK b \in T : \A i \in T : b <= i
    <3> HIDE DEF T
    <3> QED BY <1>1, <1>3, NatMin
  <2>2. \A i \in 1..b - 1 : i \notin T /\ i \in 1..Len(r)
    BY <2>1
  <2>3. ReadTo(r, b)
    BY <2>1, <2>2 DEF ReadTo
  <2> QED BY <2>3
<1> QED BY <1>2, <1>3

\* What thalovant_ask_refusal_allowed ends with, and the rows it counts.
Ending(r, b) == IF b = Len(r) + 1 THEN "MISSING" ELSE IF r[b] = "malformed" THEN "JSON" ELSE "NOMEM"
NamedTo(r, b) == {i \in 1..b - 1 : r[i] \in Fields!Typed}

LEMMA ReadIs ==
  ASSUME NEW r, Len(r) \in Nat, NEW b, ReadTo(r, b)
  PROVE  /\ Fields!EndOf(r) = Ending(r, b) /\ Fields!NamesOf(r) = NamedTo(r, b)
         /\ Fields!FirstUnread(r) = IF b = Len(r) + 1 THEN {} ELSE {b}
         /\ b \in Nat /\ NamedTo(r, b) \subseteq Nat \ {0} /\ \A i \in NamedTo(r, b) : i \in 1..Len(r)
<1>0. /\ b \in 1..Len(r) + 1 /\ b \in Nat /\ (b # Len(r) + 1 => b \in 1..Len(r) /\ r[b] \in Fields!Unread)
      /\ \A i \in 1..b - 1 : r[i] \notin Fields!Unread
  BY DEF ReadTo
<1>1. Fields!FirstUnread(r) = IF b = Len(r) + 1 THEN {} ELSE {b}
  <2>1. ASSUME NEW i \in 1..Len(r), r[i] \in Fields!Unread, \A j \in 1..i - 1 : r[j] \notin Fields!Unread
        PROVE  i = b /\ b # Len(r) + 1
    <3>1. ~(i < b)
      BY <1>0, <2>1
    <3>2. b < i => b \in 1..i - 1 /\ b # Len(r) + 1
      BY <1>0
    <3> QED BY <1>0, <2>1, <3>1, <3>2
  <2> QED BY <1>0, <2>1 DEF Fields!FirstUnread
<1>2. Fields!EndOf(r) = Ending(r, b)
  <2> HIDE DEF Fields!FirstUnread
  <2> QED BY <1>1 DEF Fields!EndOf, Ending
<1>3. Fields!NamesOf(r) = NamedTo(r, b)
  <2>1. \A i \in 1..Len(r) : (\A j \in Fields!FirstUnread(r) : i < j) <=> i <= b - 1
    BY <1>0, <1>1
  <2>2. \A i \in 1..b - 1 : i \in 1..Len(r) /\ i <= b - 1
    BY <1>0
  <2>3. \A i \in 1..Len(r) : i <= b - 1 => i \in 1..b - 1
    BY <1>0
  <2> QED BY <2>1, <2>2, <2>3 DEF Fields!NamesOf, NamedTo
<1>4. NamedTo(r, b) \subseteq Nat \ {0} /\ \A i \in NamedTo(r, b) : i \in 1..Len(r)
  BY <1>0 DEF NamedTo
<1> QED BY <1>0, <1>1, <1>2, <1>3, <1>4

\* How many types the list names.
TypesIn(r, b) == Upto(NamedTo(r, b), Len(r))

LEMMA TypesAre ==
  ASSUME NEW r, Len(r) \in Nat, NEW b, ReadTo(r, b)
  PROVE  /\ TypesIn(r, b) \in Nat /\ TypesIn(r, b) = Cardinality(NamedTo(r, b))
         /\ \A i \in NamedTo(r, b) : Upto(NamedTo(r, b), i) \in 1..TypesIn(r, b)
<1> DEFINE N == NamedTo(r, b)
           L == Len(r)
<1>1. N \subseteq Nat \ {0} /\ (\A i \in N : i \in 1..L /\ i \in Nat /\ i <= L) /\ L \in Nat
  BY ReadIs
<1> HIDE DEF N, L
<1>2. {j \in N : j <= L} = N
  BY <1>1
<1>3. Upto(N, L) \in Nat /\ Upto(N, L) = Cardinality(N)
  BY <1>1, <1>2, UptoFinite DEF Upto
<1>4. ASSUME NEW i \in N PROVE Upto(N, i) \in 1..Upto(N, L)
  <2>1. Upto(N, i) <= Upto(N, L) /\ Upto(N, i) \in Nat /\ Upto(N, i - 1) \in Nat /\ Upto(N, i) = Upto(N, i - 1) + 1
    <3>1. i \in Nat \ {0} /\ i - 1 \in Nat /\ i <= L
      BY <1>1
    <3>2. Upto(N, i) = Upto(N, i - 1) + 1
      BY <1>1, <3>1, UptoStep
    <3> QED BY <1>1, <3>1, <3>2, UptoGrows, UptoFinite
  <2> QED BY <1>3, <2>1
<1> QED BY <1>3, <1>4 DEF N, L, TypesIn

\* What asking for an index gives: the type with as many before it, if there
\* is one and it fits, else the end.
LEMMA AskedIndex ==
  ASSUME NEW r, Len(r) \in Nat, Len(r) <= TokenRoom, TokenRoom \in Nat, NEW b, ReadTo(r, b),
         NEW index \in Nat, NEW cap
  PROVE  /\ \A i \in NamedTo(r, b) : Upto(NamedTo(r, b), i) = index + 1 =>
              Fields!RefusalAllowed(r, index, cap) =
                IF Fields!Size(r[i]) + 1 > cap THEN Fields!Answer("NOMEM") ELSE [rc |-> "OK", at |-> {i}]
         /\ index >= TypesIn(r, b) => Fields!RefusalAllowed(r, index, cap) = Fields!Answer(Ending(r, b))
<1> DEFINE N == NamedTo(r, b)
           at == {i \in N : Fields!Cardinality({j \in N : j < i}) = index}
           big == \E i \in at : Fields!Size(r[i]) + 1 > cap
<1>0. ~(Len(r) > TokenRoom)
  OBVIOUS
<1>1. Fields!RefusalAllowed(r, index, cap) =
        IF at = {} THEN Fields!Answer(Ending(r, b))
        ELSE IF big THEN Fields!Answer("NOMEM") ELSE [rc |-> "OK", at |-> at]
  BY <1>0, ReadIs DEF Fields!RefusalAllowed
<1>2. N \subseteq Nat \ {0} /\ \A i \in N : i \in 1..Len(r)
  BY ReadIs
<1>t. TypesIn(r, b) \in Nat /\ \A i \in N : Upto(N, i) \in 1..TypesIn(r, b)
  BY TypesAre
<1> HIDE DEF N
<1>3. at = {i \in N : Upto(N, i) = index + 1}
  <2>1. \A i \in N : Fields!Cardinality({j \in N : j < i}) = Upto(N, i) - 1 /\ Upto(N, i) \in Nat
    BY <1>2, UptoBefore, FieldCounts
  <2>2. \A i \in N : Fields!Cardinality({j \in N : j < i}) = index <=> Upto(N, i) = index + 1
    BY <2>1
  <2> QED BY <2>2
<1> HIDE DEF at
<1>4. ASSUME NEW i \in N, Upto(N, i) = index + 1 PROVE at = {i}
  <2>0. Upto(N, i) \in 1..Upto(N, i) /\ i \in Nat
    BY <1>2, <1>4
  <2> DEFINE k == Upto(N, i)
  <2>1. PICK m \in 1..i : m \in N /\ Upto(N, m) = k /\ \A j \in N : Upto(N, j) = k => j = m
    <3>1. k \in 1..Upto(N, i)
      BY <2>0
    <3> HIDE DEF k
    <3>2. Reached(N, i, k)
      BY <1>2, <2>0, <3>1, UptoReaches, Zenon
    <3> QED BY <3>2 DEF Reached
  <2>2. \A j \in N : Upto(N, j) = k => j = i
    BY <2>1
  <2> QED BY <1>3, <1>4, <2>2
<1>5. index >= TypesIn(r, b) => at = {}
  BY <1>3, <1>t
<1>6. ASSUME NEW i \in N, Upto(N, i) = index + 1
      PROVE  Fields!RefusalAllowed(r, index, cap) =
               IF Fields!Size(r[i]) + 1 > cap THEN Fields!Answer("NOMEM") ELSE [rc |-> "OK", at |-> {i}]
  <2>1. at = {i}
    BY <1>4, <1>6
  <2>2. big <=> Fields!Size(r[i]) + 1 > cap
    BY <2>1
  <2> HIDE DEF big
  <2> QED BY <1>1, <2>1, <2>2
<1> QED BY <1>1, <1>5, <1>6 DEF N

\* Index after index, the list is given.
LEMMA IndexHolds ==
  ASSUME rows \in Seq(Fields!Row), Fields!FieldsAssumption
  PROVE  Fields!IndexIsTheList
<1> DEFINE L == Len(rows)
<1>0. L \in Nat /\ TokenRoom \in Nat
  BY DEF Fields!FieldsAssumption
<1>1. CASE L > TokenRoom
  <2>1. \A index, cap : Fields!RefusalAllowed(rows, index, cap) = Fields!Answer("NOMEM")
    BY <1>1 DEF Fields!RefusalAllowed
  <2> QED BY <1>1, <2>1 DEF Fields!IndexIsTheList
<1>2. CASE ~(L > TokenRoom)
  <2>0. L <= TokenRoom
    BY <1>0, <1>2
  <2>1. PICK b : ReadTo(rows, b)
    BY <1>0, SomeRead
  <2> DEFINE N == NamedTo(rows, b)
             n == TypesIn(rows, b)
             readable(i) == \A j \in 1..i : rows[j] \notin {"overlong", "malformed"}
             types == {i \in 1..L : readable(i) /\ rows[i] \in {"type", "feed", "long"}}
             end == IF readable(L) THEN "MISSING"
                    ELSE IF \E i \in 1..L : readable(i - 1) /\ rows[i] = "malformed" THEN "JSON" ELSE "NOMEM"
             given(i) == [rc |-> "OK", at |-> {i}]
  <2>2. /\ b \in Nat /\ b \in 1..L + 1 /\ (b # L + 1 => b \in 1..L /\ rows[b] \in {"overlong", "malformed"})
        /\ \A i \in 1..b - 1 : rows[i] \notin {"overlong", "malformed"}
    BY <1>0, <2>1 DEF ReadTo, Fields!Unread
  <2>3. \A i \in 0..L : readable(i) <=> i <= b - 1
    <3>1. ASSUME NEW i \in 0..L, i <= b - 1 PROVE readable(i)
      BY <2>2, <3>1
    <3>2. ASSUME NEW i \in 0..L, ~(i <= b - 1) PROVE ~readable(i)
      <4>1. b \in 1..i /\ b # L + 1
        BY <1>0, <2>2, <3>2
      <4> QED BY <2>2, <4>1
    <3> HIDE DEF readable
    <3> QED BY <3>1, <3>2
  <2> HIDE DEF readable
  <2>4. types = N
    <3>1. \A i \in 1..L : i \in 0..L /\ (i <= b - 1 <=> i \in 1..b - 1)
      BY <1>0, <2>2
    <3>2. \A i \in 1..b - 1 : i \in 1..L
      BY <1>0, <2>2
    <3> QED BY <2>3, <3>1, <3>2 DEF NamedTo, Fields!Typed
  <2>5. end = Ending(rows, b)
    <3>1. readable(L) <=> b = L + 1
      BY <1>0, <2>2, <2>3
    <3>2. b # L + 1 => ((\E i \in 1..L : readable(i - 1) /\ rows[i] = "malformed") <=> rows[b] = "malformed")
      <4> SUFFICES ASSUME b # L + 1 PROVE (\E i \in 1..L : readable(i - 1) /\ rows[i] = "malformed") <=> rows[b] = "malformed"
        OBVIOUS
      <4>1. b \in 1..L /\ b - 1 \in 0..L /\ b - 1 <= b - 1
        BY <1>0, <2>2
      <4>2. readable(b - 1)
        BY <2>3, <4>1
      <4>3. ASSUME NEW i \in 1..L, readable(i - 1), rows[i] = "malformed" PROVE i = b
        <5>1. i - 1 \in 0..L /\ i - 1 <= b - 1
          BY <1>0, <2>3, <4>3
        <5>2. ~(i \in 1..b - 1)
          BY <2>2, <4>3
        <5> QED BY <1>0, <2>2, <5>1, <5>2
      <4> QED BY <4>1, <4>2, <4>3
    <3> QED BY <3>1, <3>2 DEF Ending
  <2> HIDE DEF types, end
  <2>6. n \in Nat /\ Fields!Cardinality(N) = n /\ \A i \in N : Upto(N, i) \in 1..n
    BY <1>0, <2>1, TypesAre, FieldCounts
  <2>7. N \subseteq Nat \ {0} /\ \A i \in N : i \in 1..L /\ i \in Nat /\ i # 0
    BY <1>0, <2>1, ReadIs
  <2>8. ASSUME NEW index \in Nat, NEW cap
        PROVE  /\ \A i \in N : Upto(N, i) = index + 1 =>
                    Fields!RefusalAllowed(rows, index, cap) =
                      IF Fields!Size(rows[i]) + 1 > cap THEN Fields!Answer("NOMEM") ELSE given(i)
               /\ index >= n => Fields!RefusalAllowed(rows, index, cap) = Fields!Answer(Ending(rows, b))
    BY <1>0, <2>0, <2>1, AskedIndex
  <2> HIDE DEF n, N
  <2>9. \A index \in n..L, cap \in 1..3 : Fields!RefusalAllowed(rows, index, cap) = Fields!Answer(end)
    <3>1. \A index \in n..L : index \in Nat /\ index >= n
      BY <1>0, <2>6
    <3> QED BY <2>5, <2>8, <3>1
  <2>a. \A i \in N : Fields!Size(rows[i]) = IF rows[i] = "long" THEN 2 ELSE 1
    BY DEF Fields!Size
  <2>b. ASSUME NEW i \in N
        PROVE  \E index \in 0..n - 1 :
                 /\ Fields!RefusalAllowed(rows, index, 3) = given(i)
                 /\ \A cap \in 1..2 : Fields!RefusalAllowed(rows, index, cap) =
                      IF rows[i] = "long" \/ cap = 1 THEN Fields!Answer("NOMEM") ELSE given(i)
                 /\ \A j \in N : j < i =>
                      \E before \in 0..index - 1 : Fields!RefusalAllowed(rows, before, 3) = given(j)
    <3> DEFINE k(j) == Upto(N, j) - 1
    <3>1. \A j \in N : k(j) \in Nat /\ k(j) \in 0..n - 1 /\ Upto(N, j) = k(j) + 1
      BY <2>6
    <3>2. \A j \in N : j < i => k(j) \in 0..k(i) - 1
      <4>1. ASSUME NEW j \in N, j < i PROVE Upto(N, j) < Upto(N, i)
        <5>1. i \in Nat /\ j \in Nat /\ j <= i /\ N \subseteq Nat \ {0}
          BY <2>7, <4>1
        <5> QED BY <4>1, <5>1, UptoGrows
      <4>2. ASSUME NEW j \in N, j < i PROVE k(j) \in 0..k(i) - 1
        <5> DEFINE x == Upto(N, j)
                   y == Upto(N, i)
        <5>1. x < y /\ x \in 1..n /\ y \in 1..n /\ n \in Nat
          BY <2>6, <4>1, <4>2
        <5> HIDE DEF x, y
        <5>2. x - 1 \in 0..(y - 1) - 1
          BY <5>1
        <5> QED BY <5>2 DEF x, y
      <4> QED BY <4>2
    <3> HIDE DEF k
    <3>3. ASSUME NEW j \in N PROVE Fields!RefusalAllowed(rows, k(j), 3) = given(j)
      <4>1. ~(Fields!Size(rows[j]) + 1 > 3)
        BY <2>a
      <4> QED BY <2>8, <3>1, <4>1
    <3>4. ASSUME NEW cap \in 1..2
          PROVE Fields!RefusalAllowed(rows, k(i), cap) =
                  IF rows[i] = "long" \/ cap = 1 THEN Fields!Answer("NOMEM") ELSE given(i)
      <4>1. Fields!Size(rows[i]) + 1 > cap <=> rows[i] = "long" \/ cap = 1
        BY <2>a
      <4> QED BY <2>8, <3>1, <4>1
    <3> HIDE DEF given
    <3> QED BY <3>1, <3>2, <3>3, <3>4
  <2> HIDE DEF given
  <2>c. Fields!Cardinality(types) = n
    BY <2>4, <2>6
  <2>d. \A index \in Fields!Cardinality(types)..L, cap \in 1..3 :
          Fields!RefusalAllowed(rows, index, cap) = Fields!Answer(end)
    BY <2>9, <2>c
  <2>e. ASSUME NEW i \in types
        PROVE  \E index \in 0..Fields!Cardinality(types) - 1 :
                 /\ Fields!RefusalAllowed(rows, index, 3) = given(i)
                 /\ \A cap \in 1..2 : Fields!RefusalAllowed(rows, index, cap) =
                      IF rows[i] = "long" \/ cap = 1 THEN Fields!Answer("NOMEM") ELSE given(i)
                 /\ \A j \in types : j < i =>
                      \E before \in 0..index - 1 : Fields!RefusalAllowed(rows, before, 3) = given(j)
    <3>1. i \in N
      BY <2>4
    <3>2. PICK index \in 0..n - 1 :
             /\ Fields!RefusalAllowed(rows, index, 3) = given(i)
             /\ \A cap \in 1..2 : Fields!RefusalAllowed(rows, index, cap) =
                  IF rows[i] = "long" \/ cap = 1 THEN Fields!Answer("NOMEM") ELSE given(i)
             /\ \A j \in N : j < i =>
                  \E before \in 0..index - 1 : Fields!RefusalAllowed(rows, before, 3) = given(j)
      BY <2>b, <3>1
    <3>3. \A j \in types : j < i =>
             \E before \in 0..index - 1 : Fields!RefusalAllowed(rows, before, 3) = given(j)
      BY <2>4, <3>2
    <3>4. index \in 0..Fields!Cardinality(types) - 1
      BY <2>c
    <3> QED BY <3>2, <3>3, <3>4
  <2> QED BY <1>2, <2>d, <2>e DEF Fields!IndexIsTheList, types, end, readable, given
<1> QED BY <1>1, <1>2

\* Where nothing tells the two readers of an allow-list apart, they find as
\* many types and the same end.
LEMMA ReadersHold ==
  ASSUME rows \in Seq(Fields!Row), Fields!FieldsAssumption
  PROVE  Fields!ReadersAgree
<1> DEFINE L == Len(rows)
           walk == Fields!Intents!WalkAllowed(rows, FALSE)
           stop == Fields!Intents!AllowedStop(rows, FALSE)
<1> SUFFICES ASSUME L <= TokenRoom, \A i \in 1..L : rows[i] \notin {"feed", "nul", "long", "wide"}
             PROVE  /\ \A index \in 0..L :
                         (Fields!RefusalAllowed(rows, index, 3).rc = "OK") = (index < walk.types)
                    /\ Fields!RefusalAllowed(rows, walk.types, 3).rc = IF walk.rc = "OK" THEN "MISSING" ELSE walk.rc
  BY DEF Fields!ReadersAgree
<1>0. L \in Nat /\ TokenRoom \in Nat
  BY DEF Fields!FieldsAssumption
<1>1. PICK b : ReadTo(rows, b)
  BY <1>0, SomeRead
<1> DEFINE N == NamedTo(rows, b)
           n == TypesIn(rows, b)
<1>2. /\ b \in Nat /\ b \in 1..L + 1 /\ (b # L + 1 => b \in 1..L /\ rows[b] \in {"overlong", "malformed"})
      /\ \A i \in 1..b - 1 : rows[i] \notin {"overlong", "malformed"}
  BY <1>0, <1>1 DEF ReadTo, Fields!Unread
<1>3. n \in Nat /\ n = Cardinality(N) /\ n = Upto(N, L)
  BY <1>0, <1>1, TypesAre DEF TypesIn
<1>4. N \subseteq Nat \ {0} /\ \A i \in N : i \in 1..L
  BY <1>0, <1>1, ReadIs
<1>5. \A i : i \in stop <=> i \in 1..L /\ rows[i] \in {"overlong", "malformed"}
  BY DEF Fields!Intents!AllowedStop, Fields!Intents!TooLong
<1> HIDE DEF stop
<1>6. stop # {} <=> b # L + 1
  BY <1>0, <1>2, <1>5
<1>7. \A i \in 1..L : (\A s \in stop : i < s) <=> i \in 1..b - 1
  <2>1. ASSUME NEW i \in 1..L, i \in 1..b - 1, NEW s \in stop PROVE i < s
    <3>1. s \in 1..L /\ s \notin 1..b - 1
      BY <1>2, <1>5
    <3> QED BY <1>0, <1>2, <2>1, <3>1
  <2>2. ASSUME NEW i \in 1..L, \A s \in stop : i < s PROVE i \in 1..b - 1
    <3>1. b # L + 1 => i < b
      BY <1>2, <1>5, <2>2
    <3> QED BY <1>0, <1>2, <2>2, <3>1
  <2> QED BY <2>1, <2>2
<1>8. walk.types = n
  <2>1. {i \in 1..L : (\A s \in stop : i < s) /\ rows[i] \in {"type", "nul"} \cup Fields!Intents!TooLong} = N
    <3>1. \A i \in 1..b - 1 : i \in 1..L /\ rows[i] # "overlong"
      BY <1>0, <1>2
    <3>2. \A i \in 1..L : i \in 1..b - 1 =>
            (rows[i] \in {"type", "nul"} \cup Fields!Intents!TooLong <=> rows[i] \in Fields!Typed)
      BY <3>1 DEF Fields!Intents!TooLong, Fields!Typed
    <3> QED BY <1>7, <3>1, <3>2 DEF NamedTo
  <2>2. Fields!Intents!TypesBefore(stop, rows) = n
    BY <1>3, <2>1, FieldCounts DEF Fields!Intents!TypesBefore
  <2> QED BY <2>2 DEF Fields!Intents!WalkAllowed, stop
<1>9. walk.rc = IF b = L + 1 THEN "OK" ELSE Ending(rows, b)
  <2>1. b # L + 1 => (Fields!Intents!EndsMalformed(stop, rows) <=> rows[b] = "malformed")
    <3> SUFFICES ASSUME b # L + 1 PROVE Fields!Intents!EndsMalformed(stop, rows) <=> rows[b] = "malformed"
      OBVIOUS
    <3>1. b \in stop
      BY <1>2, <1>5
    <3>2. \A s \in stop : s \in Nat /\ b <= s
      <4>1. \A s \in stop : s \in 1..L /\ s \notin 1..b - 1
        BY <1>2, <1>5
      <4> QED BY <1>0, <1>2, <4>1
    <3>3. \A i \in stop : (\A j \in stop : i <= j) => i = b
      BY <1>2, <3>1, <3>2
    <3> QED BY <3>1, <3>2, <3>3 DEF Fields!Intents!EndsMalformed
  <2> QED BY <1>6, <2>1 DEF Fields!Intents!WalkAllowed, Ending, stop
<1> HIDE DEF walk
<1>a. \A index \in Nat : index >= n => Fields!RefusalAllowed(rows, index, 3).rc = Ending(rows, b)
  <2>1. \A index \in Nat : index >= n => Fields!RefusalAllowed(rows, index, 3) = Fields!Answer(Ending(rows, b))
    BY <1>0, <1>1, AskedIndex
  <2> QED BY <2>1 DEF Fields!Answer
<1>b. Ending(rows, b) # "OK"
  BY DEF Ending
<1>c. ASSUME NEW index \in Nat, index < n PROVE Fields!RefusalAllowed(rows, index, 3).rc = "OK"
  <2>1. \A i \in N : Upto(N, i) = index + 1 =>
          Fields!RefusalAllowed(rows, index, 3) =
            IF Fields!Size(rows[i]) + 1 > 3 THEN Fields!Answer("NOMEM") ELSE [rc |-> "OK", at |-> {i}]
    BY <1>0, <1>1, AskedIndex
  <2> DEFINE k == index + 1
  <2>2. k \in 1..n /\ k \in 1..Upto(N, L)
    BY <1>3, <1>c
  <2> HIDE DEF k, N, n
  <2>3. Reached(N, L, k)
    BY <1>0, <1>4, <2>2, UptoReaches, Zenon
  <2>4. PICK i \in 1..L : i \in N /\ Upto(N, i) = k
    BY <2>3 DEF Reached
  <2>5. ~(Fields!Size(rows[i]) + 1 > 3)
    BY DEF Fields!Size
  <2> QED BY <2>1, <2>4, <2>5 DEF k
<1> HIDE DEF n, N
<1>d. \A index \in 0..L : (Fields!RefusalAllowed(rows, index, 3).rc = "OK") = (index < walk.types)
  <2>1. \A index \in 0..L : index \in Nat /\ (index < n \/ index >= n)
    BY <1>0, <1>3
  <2>2. \A index \in 0..L : (Fields!RefusalAllowed(rows, index, 3).rc = "OK") <=> index < n
    BY <1>3, <1>a, <1>b, <1>c, <2>1
  <2> QED BY <1>8, <2>2
<1>e. Fields!RefusalAllowed(rows, walk.types, 3).rc = IF walk.rc = "OK" THEN "MISSING" ELSE walk.rc
  <2>1. Fields!RefusalAllowed(rows, walk.types, 3).rc = Ending(rows, b)
    BY <1>3, <1>8, <1>a
  <2> QED BY <1>9, <1>b, <2>1 DEF Ending
<1> QED BY <1>d, <1>e

\* A function that is computed place by place is the one that is known.
LEMMA StepByStep ==
  ASSUME NEW n \in Nat, NEW value, NEW known, value[0] = known[0],
         \A i \in 1..n : value[i - 1] = known[i - 1] => value[i] = known[i]
  PROVE  \A i \in 0..n : value[i] = known[i]
<1> DEFINE T == {i \in 0..n : value[i] # known[i]}
<1> SUFFICES ASSUME T # {} PROVE FALSE
  OBVIOUS
<1>1. T \subseteq Nat
  OBVIOUS
<1>2. PICK i \in T : \A j \in T : i <= j
  <2> HIDE DEF T
  <2> QED BY <1>1, NatMin
<1>3. i # 0
  BY <1>2
<1>4. i - 1 \in 0..n /\ i \in 1..n /\ ~(i <= i - 1)
  BY <1>2, <1>3
<1>5. i - 1 \notin T
  <2> HIDE DEF T
  <2> QED BY <1>2, <1>4
<1> QED BY <1>2, <1>4, <1>5

\* Where there are no places nothing is counted.
LEMMA UptoFlat ==
  ASSUME NEW R, R \subseteq Nat \ {0}, NEW m \in Nat, NEW n \in Nat, m <= n,
         \A j \in m + 1..n : j \notin R
  PROVE  Upto(R, n) = Upto(R, m)
<1>1. \A j \in R : j \in Nat
  OBVIOUS
<1>2. \A j \in R : j <= n <=> j <= m
  BY <1>1
<1>3. {j \in R : j <= n} = {j \in R : j <= m}
  BY <1>2, Zenon
<1> QED BY <1>3 DEF Upto

\* A place is found by its count.
LEMMA NthIs ==
  ASSUME NEW R, R \subseteq Nat \ {0}, NEW i \in R
  PROVE  Nth(R, Upto(R, i)) = i /\ Upto(R, i) \in Nat \ {0}
<1>1. i \in Nat \ {0} /\ i - 1 \in Nat
  OBVIOUS
<1>2. Upto(R, i) = Upto(R, i - 1) + 1 /\ Upto(R, i - 1) \in Nat
  BY <1>1, UptoStep, UptoFinite
<1>3. Upto(R, i) \in 1..Upto(R, i)
  BY <1>2
<1>4. Reached(R, i, Upto(R, i))
  <2>1. i \in Nat
    BY <1>1
  <2> DEFINE k == Upto(R, i)
  <2>2. k \in 1..Upto(R, i)
    BY <1>3
  <2> HIDE DEF k
  <2>3. Reached(R, i, k)
    BY <2>1, <2>2, UptoReaches, Zenon
  <2> QED BY <2>3 DEF k
<1>5. PICK j \in 1..i : j \in R /\ \A l \in R : Upto(R, l) = Upto(R, i) => l = j
  BY <1>4 DEF Reached
<1> QED BY <1>2, <1>5 DEF Nth

-----------------------------------------------------------------------------
(* Collapsing a text in place. *)
Space(c) == Fields!IsSpace(c)
\* What is kept of a text: its words, and one space between them.
Kept(s) == {i \in 1..Len(s) :
              \/ ~Space(s[i])
              \/ i > 1 /\ ~Space(s[i - 1]) /\ \E j \in i..Len(s) : ~Space(s[j])}
\* The last word that begins up to i ends at e, or is still going on there.
EndsAt(s, i, e) == e \in 0..i /\ (e # 0 => ~Space(s[e])) /\ \A j \in e + 1..i : Space(s[j])
WordEnd(s, i) == CHOOSE e \in 0..i : EndsAt(s, i, e)
\* The loop after i characters.
SqueezedTo(s, i, e) ==
  [text |-> [n \in 1..Len(s) |-> IF n <= Upto(Kept(s), e) THEN s[Nth(Kept(s), n)] ELSE s[n]],
   out |-> Upto(Kept(s), e), pending |-> e # 0 /\ e < i]
Squeezed(s, i) == SqueezedTo(s, i, WordEnd(s, i))

\* There is one end of the last word.
LEMMA WordEndIs ==
  ASSUME NEW s, NEW i \in Nat
  PROVE  EndsAt(s, i, WordEnd(s, i)) /\ \A e : EndsAt(s, i, e) => WordEnd(s, i) = e
<1>1. \A e, f : EndsAt(s, i, e) /\ EndsAt(s, i, f) => e = f
  BY DEF EndsAt
<1>2. \E e : EndsAt(s, i, e)
  <2> DEFINE T == {e \in 0..i : \A j \in e + 1..i : Space(s[j])}
  <2>1. T \subseteq Nat /\ i \in T
    OBVIOUS
  <2>2. PICK e \in T : \A f \in T : e <= f
    <3> HIDE DEF T
    <3> QED BY <2>1, NatMin
  <2>3. e # 0 => ~Space(s[e])
    <3> SUFFICES ASSUME e # 0, Space(s[e]) PROVE FALSE
      OBVIOUS
    <3>1. e - 1 \in 0..i /\ ~(e <= e - 1) /\ e \in 1..i
      BY <2>2
    <3>2. \A j \in (e - 1) + 1..i : j = e \/ j \in e + 1..i
      BY <3>1
    <3>3. \A j \in (e - 1) + 1..i : Space(s[j])
      BY <2>2, <3>2
    <3> QED BY <2>2, <3>1, <3>3
  <2> QED BY <2>2, <2>3 DEF EndsAt
<1>3. PICK e : EndsAt(s, i, e)
  BY <1>2
<1>4. e \in 0..i
  BY <1>3 DEF EndsAt
<1> QED BY <1>1, <1>3, <1>4 DEF WordEnd

\* What is kept is counted.
LEMMA KeptPlaces ==
  ASSUME NEW s, Len(s) \in Nat
  PROVE  /\ Kept(s) \subseteq Nat \ {0} /\ Kept(s) \subseteq 1..Len(s)
         /\ \A n \in Nat : Upto(Kept(s), n) \in Nat /\ Upto(Kept(s), n) <= n
         /\ Upto(Kept(s), 0) = 0
<1>1. Kept(s) \subseteq Nat \ {0} /\ Kept(s) \subseteq 1..Len(s)
  BY DEF Kept
<1> QED BY <1>1, UptoFinite, UptoStep

\* What a character adds that is not a space, after a word that ended at e.
LEMMA KeptStep ==
  ASSUME NEW s, Len(s) \in Nat, NEW i \in 1..Len(s), ~Space(s[i]), NEW e, EndsAt(s, i - 1, e)
  PROVE  /\ i \in Kept(s) /\ e \in Nat /\ e <= i - 1
         /\ e # 0 => e \in Kept(s)
         /\ e # 0 /\ e < i - 1 => e + 1 \in Kept(s) /\ Upto(Kept(s), e + 1) = Upto(Kept(s), e) + 1
         /\ Upto(Kept(s), i) = Upto(Kept(s), e) + IF e # 0 /\ e < i - 1 THEN 2 ELSE 1
<1> DEFINE K == Kept(s)
<1>1. e \in Nat /\ e <= i - 1 /\ i - 1 \in Nat /\ i \in Nat \ {0} /\ \A j \in e + 1..i - 1 : Space(s[j])
  BY DEF EndsAt
<1>2. K \subseteq Nat \ {0} /\ \A n \in Nat : Upto(K, n) \in Nat
  BY KeptPlaces
<1>3. i \in K /\ (e # 0 => e \in K)
  BY <1>1 DEF Kept, EndsAt
<1>4. \A j \in (e + 1) + 1..i - 1 : j \notin K
  <2> TAKE j \in (e + 1) + 1..i - 1
  <2>1. j \in e + 1..i - 1 /\ j - 1 \in e + 1..i - 1
    BY <1>1
  <2> QED BY <1>1, <2>1 DEF Kept
<1>5. ASSUME e < i - 1 PROVE e + 1 \in K <=> e # 0
  <2>1. e + 1 \in e + 1..i - 1 /\ e + 1 \in 1..Len(s) /\ (e + 1) - 1 = e /\ i \in e + 1..Len(s) /\ (e + 1 > 1 <=> e # 0)
    BY <1>1, <1>5
  <2>2. Space(s[e + 1])
    BY <1>1, <2>1
  <2> QED BY <2>1, <2>2 DEF Kept, EndsAt
<1>6. Upto(K, i) = Upto(K, i - 1) + 1
  BY <1>1, <1>2, <1>3, UptoStep
<1> HIDE DEF K
<1>7. CASE e = i - 1
  BY <1>1, <1>2, <1>3, <1>6, <1>7 DEF K
<1>8. CASE e < i - 1
  <2>1. e + 1 \in Nat \ {0} /\ e + 1 <= i - 1 /\ (e + 1) - 1 = e
    BY <1>1, <1>8
  <2>2. Upto(K, i - 1) = Upto(K, e + 1)
    <3> DEFINE m == e + 1
               n == i - 1
    <3>1. m \in Nat /\ n \in Nat /\ m <= n /\ \A j \in m + 1..n : j \notin K
      BY <1>1, <1>4, <2>1
    <3> HIDE DEF m, n
    <3>2. Upto(K, n) = Upto(K, m)
      BY <1>2, <3>1, UptoFlat
    <3> QED BY <3>2 DEF m, n
  <2>3. Upto(K, e + 1) = Upto(K, e) + IF e + 1 \in K THEN 1 ELSE 0
    <3> DEFINE m == e + 1
    <3>1. m \in Nat \ {0} /\ m - 1 = e
      BY <2>1
    <3> HIDE DEF m
    <3>2. Upto(K, m) = Upto(K, m - 1) + IF m \in K THEN 1 ELSE 0
      BY <1>2, <3>1, UptoStep
    <3> QED BY <3>1, <3>2 DEF m
  <2>4. Upto(K, e) \in Nat /\ Upto(K, e + 1) \in Nat
    BY <1>1, <1>2, <2>1
  <2>5. e # 0 => e + 1 \in K /\ Upto(K, e + 1) = Upto(K, e) + 1
    BY <1>5, <1>8, <2>3
  <2>6. e = 0 => Upto(K, e + 1) = Upto(K, e)
    BY <1>5, <1>8, <2>3, <2>4
  <2>7. Upto(K, i) = Upto(K, e + 1) + 1
    BY <1>6, <2>2
  <2> QED BY <1>1, <1>3, <1>8, <2>4, <2>5, <2>6, <2>7 DEF K

<1> QED BY <1>1, <1>7, <1>8

\* One character of the loop that is a space.
LEMMA SqueezeSpace ==
  ASSUME NEW s, Len(s) \in Nat, NEW i \in 1..Len(s), Space(s[i])
  PROVE  Fields!NormalizeChar(Squeezed(s, i - 1), i) = Squeezed(s, i)
<1> DEFINE K == Kept(s)
           e == WordEnd(s, i - 1)
           r == Squeezed(s, i - 1)
<1>0. i - 1 \in Nat /\ i \in Nat \ {0}
  OBVIOUS
<1>1. EndsAt(s, i - 1, e)
  BY <1>0, WordEndIs
<1>2. EndsAt(s, i, e)
  <2>1. \A j \in e + 1..i : j = i \/ j \in e + 1..i - 1
    BY <1>0, <1>1 DEF EndsAt
  <2> QED BY <1>0, <1>1, <2>1 DEF EndsAt
<1>3. WordEnd(s, i) = e /\ e \in Nat /\ e <= i - 1
  BY <1>0, <1>1, <1>2, WordEndIs DEF EndsAt
<1>4. Upto(K, e) > 0 <=> e # 0
  <2>1. Upto(K, 0) = 0 /\ K \subseteq Nat \ {0}
    BY KeptPlaces
  <2>2. e # 0 => e \in K
    BY <1>1, <1>3 DEF EndsAt, Kept
  <2> HIDE DEF K, e
  <2>3. e # 0 => Upto(K, e) \in Nat \ {0}
    BY <2>1, <2>2, NthIs
  <2> QED BY <2>1, <2>3
<1> HIDE DEF e
<1>5. r = SqueezedTo(s, i - 1, e) /\ Squeezed(s, i) = SqueezedTo(s, i, e)
  BY <1>3 DEF Squeezed, e
<1>6. r.text[i] = s[i]
  <2>1. Upto(K, e) \in Nat /\ Upto(K, e) <= e
    BY <1>3, KeptPlaces
  <2>2. ~(i <= Upto(K, e))
    BY <1>0, <1>3, <2>1
  <2> QED BY <1>5, <2>2 DEF SqueezedTo
<1>7. Fields!NormalizeChar(r, i) = [r EXCEPT !.pending = @ \/ r.out > 0]
  BY <1>6 DEF Fields!NormalizeChar, Space
<1> DEFINE P == e # 0 /\ e < i - 1
           Q == e # 0 /\ e < i
           c == Upto(K, e)
           T == [n \in 1..Len(s) |-> IF n <= c THEN s[Nth(K, n)] ELSE s[n]]
<1>8. r = [text |-> T, out |-> c, pending |-> P] /\ Squeezed(s, i) = [text |-> T, out |-> c, pending |-> Q]
  BY <1>5 DEF SqueezedTo
<1>9. (P \/ c > 0) = Q
  BY <1>0, <1>3, <1>4
<1> HIDE DEF r, T, P, Q, c
<1>a. [r EXCEPT !.pending = @ \/ r.out > 0] = [text |-> T, out |-> c, pending |-> (P \/ c > 0)]
  BY <1>8
<1> QED BY <1>7, <1>8, <1>9, <1>a DEF r

\* One character of the loop that is of a word.
LEMMA SqueezeWord ==
  ASSUME NEW s, Len(s) \in Nat, NEW i \in 1..Len(s), ~Space(s[i])
  PROVE  Fields!NormalizeChar(Squeezed(s, i - 1), i) = Squeezed(s, i)
<1> DEFINE K == Kept(s)
           e == WordEnd(s, i - 1)
           r == Squeezed(s, i - 1)
           at == IF r.pending THEN r.out + 1 ELSE r.out
           spaced == IF r.pending THEN [r.text EXCEPT ![at] = Fields!Space] ELSE r.text
           c == Upto(K, e)
<1>0. i - 1 \in Nat /\ i \in Nat \ {0}
  OBVIOUS
<1>1. EndsAt(s, i - 1, e) /\ WordEnd(s, i) = i
  <2>1. EndsAt(s, i, i)
    BY <1>0 DEF EndsAt
  <2> QED BY <1>0, <2>1, WordEndIs
<1> HIDE DEF e
<1>2. r = SqueezedTo(s, i - 1, e) /\ Squeezed(s, i) = SqueezedTo(s, i, i)
  BY <1>1 DEF Squeezed, e
<1>3. /\ i \in K /\ e \in Nat /\ e <= i - 1
      /\ e # 0 /\ e < i - 1 => e + 1 \in K /\ Upto(K, e + 1) = c + 1
      /\ Upto(K, i) = c + IF e # 0 /\ e < i - 1 THEN 2 ELSE 1
  BY <1>1, KeptStep
<1>4. c \in Nat /\ c <= e
  BY <1>3, KeptPlaces
<1>5. K \subseteq Nat \ {0}
  BY KeptPlaces
<1>6. Nth(K, Upto(K, i)) = i
  <2> HIDE DEF K
  <2> QED BY <1>3, <1>5, NthIs
<1>7. e # 0 /\ e < i - 1 => Nth(K, c + 1) = e + 1 /\ Space(s[e + 1])
  <2>1. e # 0 /\ e < i - 1 => Space(s[e + 1])
    <3> SUFFICES ASSUME e < i - 1 PROVE Space(s[e + 1])
      OBVIOUS
    <3>1. e + 1 \in e + 1..i - 1
      BY <1>0, <1>3
    <3> QED BY <1>1, <3>1 DEF EndsAt
  <2>2. e # 0 /\ e < i - 1 => Nth(K, Upto(K, e + 1)) = e + 1
    <3> HIDE DEF K
    <3> QED BY <1>3, <1>5, NthIs
  <2> QED BY <1>3, <2>1, <2>2
<1>8. r.pending = (e # 0 /\ e < i - 1) /\ r.out = c
  BY <1>2 DEF SqueezedTo
<1>9. r.text = [n \in 1..Len(s) |-> IF n <= c THEN s[Nth(K, n)] ELSE s[n]]
  BY <1>2 DEF SqueezedTo
<1> HIDE DEF r, c, K
<1>p. c \in Nat /\ c <= e /\ Upto(K, i) = c + IF e # 0 /\ e < i - 1 THEN 2 ELSE 1
  BY <1>3, <1>4 DEF c, K
<1>a. /\ at = (IF e # 0 /\ e < i - 1 THEN c + 1 ELSE c) /\ at + 1 = Upto(K, i) /\ at + 1 <= i
      /\ at \in Nat
  <2>1. CASE e # 0 /\ e < i - 1
    <3>1. at = c + 1
      BY <1>8, <2>1
    <3> HIDE DEF at
    <3> QED BY <1>0, <1>3, <1>p, <2>1, <3>1
  <2>2. CASE ~(e # 0 /\ e < i - 1)
    <3>1. at = c
      BY <1>8, <2>2
    <3> HIDE DEF at
    <3> QED BY <1>0, <1>3, <1>p, <2>2, <3>1
  <2> QED BY <2>1, <2>2
<1>b. spaced \in [1..Len(s) -> {spaced[n] : n \in 1..Len(s)}]
      /\ \A n \in 1..Len(s) : spaced[n] = IF n <= at THEN s[Nth(K, n)] ELSE s[n]
  <2>1. CASE ~(e # 0 /\ e < i - 1)
    BY <1>8, <1>9, <1>a, <2>1
  <2>2. CASE e # 0 /\ e < i - 1
    <3>1. spaced = [r.text EXCEPT ![c + 1] = Fields!Space] /\ at = c + 1
      BY <1>8, <2>2
    <3>2. Fields!Space = s[Nth(K, c + 1)]
      BY <1>7, <2>2 DEF Space, Fields!IsSpace
    <3>3. \A n \in 1..Len(s) : n <= c + 1 <=> n <= c \/ n = c + 1
      BY <1>4
    <3> HIDE DEF at, spaced
    <3> QED BY <1>4, <1>9, <3>1, <3>2, <3>3
  <2> QED BY <2>1, <2>2
<1>c. spaced[i] = s[i]
  BY <1>0, <1>3, <1>4, <1>a, <1>b
<1>d. r.text[i] = s[i]
  BY <1>0, <1>3, <1>4, <1>9
<1>e. Fields!NormalizeChar(r, i) = [text |-> [spaced EXCEPT ![at + 1] = spaced[i]], out |-> at + 1, pending |-> FALSE]
  BY <1>d DEF Fields!NormalizeChar, Space
<1> HIDE DEF at, spaced
<1>f. [spaced EXCEPT ![at + 1] = spaced[i]] = [n \in 1..Len(s) |-> IF n <= Upto(K, i) THEN s[Nth(K, n)] ELSE s[n]]
  <2> DEFINE new == [spaced EXCEPT ![at + 1] = spaced[i]]
  <2>1. DOMAIN new = 1..Len(s)
    BY <1>b
  <2>2. ASSUME NEW n \in 1..Len(s) PROVE new[n] = IF n <= Upto(K, i) THEN s[Nth(K, n)] ELSE s[n]
    <3>1. CASE n = at + 1
      <4>1. new[n] = s[i]
        BY <1>b, <1>c, <3>1
      <4>2. n = Upto(K, i) /\ n <= n
        BY <1>a, <3>1
      <4> HIDE DEF new
      <4> QED BY <1>6, <4>1, <4>2
    <3>2. CASE n # at + 1
      <4>1. new[n] = spaced[n]
        BY <1>b, <3>2
      <4>2. n <= Upto(K, i) <=> n <= at
        <5>1. n \in Nat
          OBVIOUS
        <5> QED BY <1>a, <3>2, <5>1

      <4> QED BY <1>b, <4>1, <4>2
    <3> QED BY <3>1, <3>2
  <2>3. new = [n \in 1..Len(s) |-> new[n]]
    BY <1>b
  <2> HIDE DEF new
  <2> QED BY <2>2, <2>3 DEF new
<1>g. Squeezed(s, i) = [text |-> [n \in 1..Len(s) |-> IF n <= Upto(K, i) THEN s[Nth(K, n)] ELSE s[n]],
                        out |-> Upto(K, i), pending |-> FALSE]
  <2>1. (i # 0 /\ i < i) = FALSE
    BY <1>0
  <2> QED BY <1>2, <2>1 DEF SqueezedTo, K
<1> QED BY <1>a
, <1>e, <1>f, <1>g DEF r

\* The loop, character by character, and what it has when it ends.
SqueezeUnfolds(s, f) ==
  f = [i \in 0..Len(s) |-> IF i = 0 THEN [text |-> s, out |-> 0, pending |-> FALSE]
                           ELSE Fields!NormalizeChar(f[i - 1], i)]

\* The loop ends with what is known after the last character.
LEMMA SqueezedAll ==
  ASSUME NEW S, NEW s \in Seq(S)
  PROVE  (CHOOSE f : SqueezeUnfolds(s, f))[Len(s)] = Squeezed(s, Len(s))
<1> DEFINE start == [text |-> s, out |-> 0, pending |-> FALSE]
           known == [i \in 0..Len(s) |-> Squeezed(s, i)]
           value == CHOOSE f : SqueezeUnfolds(s, f)
<1>0. Len(s) \in Nat /\ 0 \in 0..Len(s) /\ Len(s) \in 0..Len(s)
  OBVIOUS
<1>1. known[0] = start
  <2>1. EndsAt(s, 0, WordEnd(s, 0))
    BY WordEndIs
  <2>2. WordEnd(s, 0) = 0
    BY <2>1 DEF EndsAt
  <2>3. Upto(Kept(s), 0) = 0
    BY <1>0, KeptPlaces
  <2>4. Squeezed(s, 0) = [text |-> [n \in 1..Len(s) |-> IF n <= 0 THEN s[Nth(Kept(s), n)] ELSE s[n]],
                          out |-> 0, pending |-> FALSE]
    <3>1. (0 # 0 /\ 0 < 0) = FALSE
      OBVIOUS
    <3> QED BY <2>2, <2>3, <3>1 DEF Squeezed, SqueezedTo
  <2>5. [n \in 1..Len(s) |-> IF n <= 0 THEN s[Nth(Kept(s), n)] ELSE s[n]] = s
    <3>1. s = [n \in 1..Len(s) |-> s[n]]
      OBVIOUS
    <3>2. \A n \in 1..Len(s) : ~(n <= 0)
      BY <1>0
    <3> QED BY <3>1, <3>2
  <2>6. known[0] = Squeezed(s, 0)
    BY <1>0
  <2> HIDE DEF known
  <2> QED BY <2>4, <2>5, <2>6
<1>2. ASSUME NEW i \in 1..Len(s) PROVE known[i] = Fields!NormalizeChar(known[i - 1], i)
  <2>1. i - 1 \in 0..Len(s) /\ i \in 0..Len(s)
    BY <1>0
  <2>2. known[i] = Squeezed(s, i) /\ known[i - 1] = Squeezed(s, i - 1)
    BY <2>1
  <2> HIDE DEF known
  <2> QED BY <1>0, <2>2, SqueezeSpace, SqueezeWord
<1>3. SqueezeUnfolds(s, known)
  <2> DEFINE unfolded == [i \in 0..Len(s) |-> IF i = 0 THEN start ELSE Fields!NormalizeChar(known[i - 1], i)]
  <2>1. ASSUME NEW i \in 0..Len(s) PROVE known[i] = unfolded[i]
    <3>1. unfolded[i] = IF i = 0 THEN start ELSE Fields!NormalizeChar(known[i - 1], i)
      OBVIOUS
    <3>2. i # 0 => i \in 1..Len(s)
      BY <1>0
    <3> HIDE DEF known, unfolded, start
    <3> QED BY <1>1, <1>2, <3>1, <3>2
  <2> QED BY <2>1 DEF SqueezeUnfolds
<1>4. SqueezeUnfolds(s, value)
  <2> HIDE DEF known
  <2> QED BY <1>3
<1>5. \A i \in 0..Len(s) : value[i] = IF i = 0 THEN start ELSE Fields!NormalizeChar(value[i - 1], i)
  <2> HIDE DEF value
  <2>1. value = [i \in 0..Len(s) |-> IF i = 0 THEN start ELSE Fields!NormalizeChar(value[i - 1], i)]
    BY <1>4 DEF SqueezeUnfolds
  <2> QED BY <2>1
<1>6. known[Len(s)] = Squeezed(s, Len(s))
  BY <1>0
<1> HIDE DEF value, known, start
<1>7. value[0] = known[0] /\ \A i \in 1..Len(s) : value[i - 1] = known[i - 1] => value[i] = known[i]
  <2>1. \A i \in 1..Len(s) : i # 0 /\ i \in 0..Len(s)
    BY <1>0
  <2> QED BY <1>0, <1>1, <1>2, <1>5, <2>1
<1>8. \A i \in 0..Len(s) : value[i] = known[i]
  BY <1>0, <1>7, StepByStep
<1> QED BY <1>0, <1>6, <1>8 DEF value

\* What is left are the words, one space between them.
LEMMA NormalizedHold ==
  ASSUME text \in Seq(Fields!Char)
  PROVE  Fields!NormalizedIsWords
<1> DEFINE L == Len(text)
           K == Kept(text)
           e == WordEnd(text, L)
           end == Squeezed(text, L)
           c == Upto(K, e)
<1>0. L \in Nat
  OBVIOUS
<1>1. EndsAt(text, L, e)
  BY <1>0, WordEndIs
<1>2. e \in Nat /\ e <= L
  BY <1>0, <1>1 DEF EndsAt
<1>3. K \subseteq Nat \ {0} /\ K \subseteq 1..L /\ \A n \in Nat : Upto(K, n) \in Nat /\ Upto(K, n) <= n
  BY <1>0, KeptPlaces
<1>4. \A j \in e + 1..L : j \notin K
  <2> TAKE j \in e + 1..L
  <2>1. \A l \in j..L : l \in e + 1..L
    BY <1>2
  <2> QED BY <1>1, <2>1 DEF Kept, EndsAt
<1>5. Upto(K, L) = c
  <2> HIDE DEF K, e, L
  <2> QED BY <1>0, <1>2, <1>3, <1>4, UptoFlat
<1>6. Cardinality(K) = Upto(K, L)
  <2>1. {j \in K : j <= L} = K
    BY <1>0, <1>3
  <2> QED BY <2>1 DEF Upto
<1>7. end.out = c /\ end.text = [n \in 1..L |-> IF n <= c THEN text[Nth(K, n)] ELSE text[n]]
  BY DEF Squeezed, SqueezedTo
<1>8. Fields!NormalizeText(text) = SubSeq(end.text, 1, end.out)
  <2> DEFINE f == CHOOSE f : SqueezeUnfolds(text, f)
  <2>1. Fields!NormalizeText(text) = SubSeq(f[L].text, 1, f[L].out)
    BY DEF Fields!NormalizeText, SqueezeUnfolds
  <2>2. f[L] = end
    BY SqueezedAll
  <2> HIDE DEF f, end
  <2> QED BY <2>1, <2>2
<1>9. c \in 0..L
  BY <1>0, <1>2, <1>3
<1> HIDE DEF end, c, K, e
<1>a. SubSeq(end.text, 1, end.out) = [n \in 1..c |-> text[Nth(K, n)]]
  <2> DEFINE all == end.text
  <2>1. all = [n \in 1..L |-> IF n <= c THEN text[Nth(K, n)] ELSE text[n]]
    BY <1>7
  <2> DEFINE S == {all[n] : n \in 1..L}
  <2>2. all \in [1..L -> S]
    <3>1. \A n \in 1..L : all[n] \in S
      OBVIOUS
    <3>2. DOMAIN all = 1..L /\ all = [n \in 1..L |-> all[n]]
      BY <2>1
    <3> HIDE DEF all, S
    <3> QED BY <3>1, <3>2
  <2> HIDE DEF all, S
  <2>3. all \in Seq(S) /\ Len(all) = L
    BY <1>0, <2>2, Listed
  <2>4. SubSeq(all, 1, c) = [n \in 1..c |-> all[n]]
    BY <1>0, <1>9, <2>3
  <2>5. \A n \in 1..c : n \in 1..L /\ n <= c
    BY <1>0, <1>9
  <2> QED BY <1>7, <2>1, <2>4, <2>5 DEF all
<1>b. Fields!Cardinality(K) = c /\ \A n, i : Fields!Cardinality({j \in K : j <= i}) = Upto(K, i)
  BY <1>5, <1>6, FieldCounts DEF Upto
<1>c. \A n : (CHOOSE i \in K : Fields!Cardinality({j \in K : j <= i}) = n) = Nth(K, n)
  BY <1>b DEF Nth
<1> QED BY <1>8, <1>a, <1>b, <1>c DEF Fields!NormalizedIsWords, Kept, K, Space

\* Halves of numbers.
LEMMA Halves ==
  /\ \A c \in Nat : c \div 2 \in Nat /\ (c % 2 = 0 => c = 2 * (c \div 2))
                    /\ (c % 2 # 0 => c % 2 = 1 /\ c = 2 * (c \div 2) + 1)
  /\ \A k \in Nat : /\ (2 * k) % 2 = 0 /\ (2 * k) \div 2 = k
                    /\ (2 * k + 1) % 2 = 1 /\ (2 * k + 1) \div 2 = k
  OBVIOUS

-----------------------------------------------------------------------------
(* A clip's digits, two by two. *)
DigitsOf(s) == {i \in 1..Len(s) : ~Space(s[i])}
Count(s, n) == Upto(DigitsOf(s), n)
Pair(s, k) == Fields!Digit(s[Nth(DigitsOf(s), 2 * k - 1)]) * 16 + Fields!Digit(s[Nth(DigitsOf(s), 2 * k)])
\* The bytes that are complete after n characters, and the digit left over.
Pairs(s, n) == [k \in 1..Count(s, n) \div 2 |-> Pair(s, k)]
Half(s, n) == IF Count(s, n) % 2 = 0 THEN <<>> ELSE << Fields!Digit(s[Nth(DigitsOf(s), Count(s, n))]) >>
Decoded(s, n) == [rc |-> "OK", high |-> Half(s, n), out |-> Pairs(s, n)]
\* Where the loop fails, and with what.
FailsAt(s, b) == \/ Space(s[b]) /\ Count(s, b) % 2 # 0
                 \/ ~Space(s[b]) /\ s[b] = "z"
                 \/ ~Space(s[b]) /\ Count(s, b) % 2 = 0 /\ Count(s, b) \div 2 > OutCap
Failed(s, b) == [rc |-> IF Space(s[b]) \/ s[b] = "z" THEN "INVALID" ELSE "NOMEM",
                 high |-> Half(s, b - 1), out |-> Pairs(s, b - 1)]
DecodesTo(s, b) == /\ b \in 1..Len(s) + 1 /\ \A i \in 1..b - 1 : ~FailsAt(s, i)
                   /\ b <= Len(s) => FailsAt(s, b)

\* The digits are counted.
LEMMA CountIs ==
  ASSUME NEW s, Len(s) \in Nat
  PROVE  /\ DigitsOf(s) \subseteq Nat \ {0} /\ DigitsOf(s) \subseteq 1..Len(s)
         /\ \A n \in Nat : Count(s, n) \in Nat
         /\ Count(s, 0) = 0
         /\ \A n \in 1..Len(s) : Count(s, n) = Count(s, n - 1) + IF Space(s[n]) THEN 0 ELSE 1
         /\ \A n \in 1..Len(s) : ~Space(s[n]) => Nth(DigitsOf(s), Count(s, n)) = n
<1> DEFINE D == DigitsOf(s)
<1>1. D \subseteq Nat \ {0} /\ D \subseteq 1..Len(s) /\ \A n \in 1..Len(s) : n \in D <=> ~Space(s[n])
  BY DEF DigitsOf
<1> HIDE DEF D
<1>2. Upto(D, 0) = 0 /\ \A n \in Nat \ {0} : Upto(D, n) = Upto(D, n - 1) + IF n \in D THEN 1 ELSE 0
  BY <1>1, UptoStep
<1>3. \A n \in Nat : Upto(D, n) \in Nat
  BY <1>1, UptoFinite
<1>4. \A n \in D : Nth(D, Upto(D, n)) = n
  BY <1>1, NthIs
<1>5. ASSUME NEW n \in 1..Len(s) PROVE Upto(D, n) = Upto(D, n - 1) + IF Space(s[n]) THEN 0 ELSE 1
  <2>1. n \in Nat \ {0}
    OBVIOUS
  <2>2. Upto(D, n) = Upto(D, n - 1) + IF n \in D THEN 1 ELSE 0
    BY <1>2, <2>1
  <2> QED BY <1>1, <2>2
<1> QED BY <1>1, <1>2, <1>3, <1>4, <1>5 DEF Count, D

\* The bytes are a sequence; and one more of them.
LEMMA PairsAre ==
  ASSUME NEW s, Len(s) \in Nat, NEW n \in Nat
  PROVE  /\ Pairs(s, n) \in Seq({Pair(s, k) : k \in Nat}) /\ Len(Pairs(s, n)) = Count(s, n) \div 2
         /\ \A m \in Nat : Count(s, m) = Count(s, n) => Pairs(s, m) = Pairs(s, n) /\ Half(s, m) = Half(s, n)
<1> DEFINE S == {Pair(s, k) : k \in Nat}
           c == Count(s, n) \div 2
<1>1. c \in Nat
  BY CountIs, Halves
<1>2. Pairs(s, n) = [k \in 1..c |-> Pair(s, k)]
  BY DEF Pairs
<1> HIDE DEF c
<1>3. \A k \in 1..c : Pair(s, k) \in S
  BY <1>1
<1> HIDE DEF S
<1>4. Pairs(s, n) \in [1..c -> S]
  BY <1>2, <1>3
<1>5. Pairs(s, n) \in Seq(S) /\ Len(Pairs(s, n)) = c
  BY <1>1, <1>4, Listed
<1>6. \A m \in Nat : Count(s, m) = Count(s, n) => Pairs(s, m) = Pairs(s, n) /\ Half(s, m) = Half(s, n)
  BY DEF Pairs, Half
<1> QED BY <1>5, <1>6 DEF S, c

\* One character of the loop.
LEMMA AudioStepIs ==
  ASSUME NEW s, Len(s) \in Nat, OutCap \in Nat, NEW n \in 1..Len(s)
  PROVE  Fields!AudioStep(Decoded(s, n - 1), s[n]) = IF FailsAt(s, n) THEN Failed(s, n) ELSE Decoded(s, n)
<1> DEFINE c == Count(s, n - 1)
           h == c \div 2
           g == Decoded(s, n - 1)
<1>0. n - 1 \in Nat /\ n \in Nat
  OBVIOUS
<1>1. c \in Nat /\ Count(s, n) = c + (IF Space(s[n]) THEN 0 ELSE 1) /\ Count(s, n) \in Nat
  BY <1>0, CountIs
<1>2. g = [rc |-> "OK", high |-> Half(s, n - 1), out |-> Pairs(s, n - 1)] /\ Len(Pairs(s, n - 1)) = h
  BY <1>0, PairsAre DEF Decoded
<1>3. h \in Nat /\ (c % 2 = 0 => c = 2 * h) /\ (c % 2 # 0 => c = 2 * h + 1)
  BY <1>1, Halves
<1>4. Half(s, n - 1) = IF c % 2 = 0 THEN <<>> ELSE << Fields!Digit(s[Nth(DigitsOf(s), c)]) >>
  BY DEF Half
<1>f. c % 2 # 0 => Half(s, n - 1) # <<>> /\ Half(s, n - 1)[1] = Fields!Digit(s[Nth(DigitsOf(s), c)])
  <2> DEFINE d == Fields!Digit(s[Nth(DigitsOf(s), c)])
  <2>1. << d >> # <<>> /\ << d >>[1] = d
    OBVIOUS
  <2> HIDE DEF d
  <2>2. c % 2 # 0 => Half(s, n - 1) = << d >>
    BY <1>4 DEF d
  <2> QED BY <2>1, <2>2 DEF d
<1> HIDE DEF c, g, h
<1>5. CASE Space(s[n])
  <2>1. Count(s, n) = c
    BY <1>1, <1>5
  <2>2. Pairs(s, n) = Pairs(s, n - 1) /\ Half(s, n) = Half(s, n - 1)
    BY <1>0, <2>1, PairsAre DEF c
  <2>3. CASE c % 2 # 0
    <3>1. Fields!AudioStep(g, s[n]) = [rc |-> "INVALID", high |-> Half(s, n - 1), out |-> Pairs(s, n - 1)]
      BY <1>2, <1>f, <1>5, <2>3 DEF Fields!AudioStep, Space
    <3> QED BY <1>5, <2>1, <2>3, <3>1 DEF FailsAt, Failed, g
  <2>4. CASE c % 2 = 0
    <3>1. Fields!AudioStep(g, s[n]) = g
      BY <1>2, <1>4, <1>5, <2>4 DEF Fields!AudioStep, Space
    <3>2. Decoded(s, n) = g
      BY <1>2, <2>2 DEF Decoded
    <3> QED BY <1>5, <2>1, <2>4, <3>1, <3>2 DEF FailsAt, g
  <2> QED BY <2>3, <2>4
<1>6. CASE ~Space(s[n]) /\ s[n] = "z"
  <2>1. Fields!AudioStep(g, s[n]) = [rc |-> "INVALID", high |-> Half(s, n - 1), out |-> Pairs(s, n - 1)]
    BY <1>2, <1>6 DEF Fields!AudioStep, Space
  <2> QED BY <1>6, <2>1 DEF FailsAt, Failed, g
<1>7. CASE ~Space(s[n]) /\ s[n] # "z"
  <2>1. Count(s, n) = c + 1 /\ Nth(DigitsOf(s), c + 1) = n
    <3>1. Count(s, n) = c + 1
      BY <1>1, <1>7
    <3> QED BY <1>7, <3>1, CountIs
  <2>2. CASE c % 2 = 0
    <3>1. Fields!AudioStep(g, s[n]) = [rc |-> "OK", high |-> << Fields!Digit(s[n]) >>, out |-> Pairs(s, n - 1)]
      BY <1>2, <1>4, <1>7, <2>2 DEF Fields!AudioStep, Space
    <3>2. Count(s, n) % 2 = 1 /\ Count(s, n) \div 2 = h /\ ~(Count(s, n) % 2 = 0)
      <4>1. Count(s, n) = 2 * h + 1
        BY <1>3, <2>1, <2>2
      <4>2. Count(s, n) % 2 = 1 /\ Count(s, n) \div 2 = h
        BY <1>3, <4>1, Halves
      <4> QED BY <4>2
    <3>3. Half(s, n) = << Fields!Digit(s[n]) >>
      BY <2>1, <3>2 DEF Half
    <3>4. Pairs(s, n) = Pairs(s, n - 1)
      BY <3>2 DEF Pairs, c, h
    <3> QED BY <1>7, <3>1, <3>2, <3>3, <3>4 DEF FailsAt, Decoded, g
  <2>3. CASE c % 2 # 0
    <3>1. Count(s, n) % 2 = 0 /\ Count(s, n) \div 2 = h + 1
      <4>1. Count(s, n) = 2 * (h + 1) /\ h + 1 \in Nat
        BY <1>3, <2>1, <2>3
      <4> DEFINE k == h + 1
      <4>2. k \in Nat /\ Count(s, n) = 2 * k
        BY <4>1
      <4> HIDE DEF k
      <4>3. Count(s, n) % 2 = 0 /\ Count(s, n) \div 2 = k
        BY <4>2, Halves
      <4> QED BY <4>3 DEF k
    <3>2. Half(s, n) = <<>>
      BY <3>1 DEF Half
    <3>3. CASE h >= OutCap
      <4>1. Fields!AudioStep(g, s[n]) = [rc |-> "NOMEM", high |-> Half(s, n - 1), out |-> Pairs(s, n - 1)]
        BY <1>2, <1>f, <1>7, <2>3, <3>3 DEF Fields!AudioStep, Space
      <4>2. Count(s, n) \div 2 > OutCap
        BY <1>3, <3>1, <3>3
      <4> QED BY <1>7, <3>1, <4>1, <4>2 DEF FailsAt, Failed, g
    <3>4. CASE ~(h >= OutCap)
      <4> DEFINE v == Fields!Digit(s[Nth(DigitsOf(s), c)]) * 16 + Fields!Digit(s[n])
      <4>1. Fields!AudioStep(g, s[n]) = [rc |-> "OK", high |-> <<>>, out |-> Append(Pairs(s, n - 1), v)]
        BY <1>2, <1>f, <1>7, <2>3, <3>4 DEF Fields!AudioStep, Space
      <4>2. v = Pair(s, h + 1)
        <5>1. 2 * (h + 1) = c + 1 /\ 2 * (h + 1) - 1 = c
          BY <1>3, <2>3
        <5> QED BY <2>1, <5>1 DEF Pair
      <4>3. Pairs(s, n) = [k \in 1..h + 1 |-> Pair(s, k)]
        BY <3>1 DEF Pairs
      <4>4. Pairs(s, n - 1) = [k \in 1..h |-> Pair(s, k)]
        BY DEF Pairs, c, h
      <4>5. Pairs(s, n - 1) \in Seq({Pair(s, k) : k \in Nat})
        BY <1>0, PairsAre
      <4> DEFINE p == Pairs(s, n - 1)
      <4> HIDE DEF v, p
      <4>6. Append(p, v) = [k \in 1..h + 1 |-> IF k = h + 1 THEN v ELSE p[k]]
        BY <1>2, <4>5 DEF p
      <4>7. \A k \in 1..h + 1 : (IF k = h + 1 THEN v ELSE p[k]) = Pair(s, k)
        <5>1. \A k \in 1..h + 1 : k = h + 1 \/ k \in 1..h
          BY <1>3
        <5> QED BY <4>2, <4>4, <5>1 DEF p
      <4>8. Append(p, v) = Pairs(s, n)
        BY <4>3, <4>6, <4>7
      <4>9. ~(Count(s, n) \div 2 > OutCap)
        BY <1>3, <3>1, <3>4

      <4> QED BY <1>7, <3>1, <3>2, <4>1, <4>8, <4>9 DEF FailsAt, Decoded, g, p
    <3> QED BY <3>3, <3>4
  <2> QED BY <2>2, <2>3
<1> QED BY <1>5, <1>6, <1>7 DEF g

\* The loop, character by character, and what it has when it ends.
AudioUnfolds(s, f) ==
  f = [i \in 0..Len(s) |-> IF i = 0 THEN [rc |-> "OK", high |-> <<>>, out |-> <<>>]
                           ELSE Fields!AudioStep(f[i - 1], s[i])]

\* The loop ends with what is known where it fails, or after the last character.
LEMMA AudioLoopIs ==
  ASSUME NEW s, Len(s) \in Nat, OutCap \in Nat, NEW b, DecodesTo(s, b)
  PROVE  Fields!AudioLoop(s) = IF b = Len(s) + 1 THEN Decoded(s, Len(s)) ELSE Failed(s, b)
<1> DEFINE start == [rc |-> "OK", high |-> <<>>, out |-> <<>>]
           known == [i \in 0..Len(s) |-> IF i < b THEN Decoded(s, i) ELSE Failed(s, b)]
           value == CHOOSE f : AudioUnfolds(s, f)
<1>0. Len(s) \in Nat /\ b \in 1..Len(s) + 1
  BY DEF DecodesTo
<1>1. known[0] = start
  <2>1. Count(s, 0) = 0 /\ 0 % 2 = 0 /\ 0 \div 2 = 0
    BY CountIs
  <2>2. Pairs(s, 0) = <<>> /\ Half(s, 0) = <<>>
    BY <2>1 DEF Pairs, Half
  <2>3. known[0] = Decoded(s, 0)
    BY <1>0
  <2> HIDE DEF known
  <2> QED BY <2>2, <2>3 DEF Decoded
<1>2. ASSUME NEW n \in 1..Len(s) PROVE known[n] = Fields!AudioStep(known[n - 1], s[n])
  <2>0. n - 1 \in 0..Len(s) /\ n \in 0..Len(s)
    BY <1>0
  <2>1. CASE n < b
    <3>1. ~FailsAt(s, n)
      BY <1>0, <2>1 DEF DecodesTo
    <3>2. known[n] = Decoded(s, n) /\ known[n - 1] = Decoded(s, n - 1)
      BY <1>0, <2>0, <2>1
    <3> QED BY <3>1, <3>2, AudioStepIs
  <2>2. CASE n = b
    <3>1. known[n] = Failed(s, n) /\ known[n - 1] = Decoded(s, n - 1)
      BY <1>0, <2>0, <2>2
    <3>2. FailsAt(s, n)
      BY <1>0, <2>2 DEF DecodesTo
    <3> QED BY <3>1, <3>2, AudioStepIs
  <2>3. CASE n > b
    <3>1. known[n] = Failed(s, b) /\ known[n - 1] = Failed(s, b)
      BY <1>0, <2>0, <2>3
    <3>2. Failed(s, b).rc # "OK"
      BY DEF Failed
    <3> HIDE DEF known
    <3> QED BY <3>1, <3>2 DEF Fields!AudioStep
  <2> QED BY <1>0, <2>1, <2>2, <2>3
<1>3. AudioUnfolds(s, known)
  <2> DEFINE unfolded == [n \in 0..Len(s) |-> IF n = 0 THEN start ELSE Fields!AudioStep(known[n - 1], s[n])]
  <2>1. ASSUME NEW n \in 0..Len(s) PROVE known[n] = unfolded[n]
    <3>1. unfolded[n] = IF n = 0 THEN start ELSE Fields!AudioStep(known[n - 1], s[n])
      OBVIOUS
    <3>2. n # 0 => n \in 1..Len(s)
      BY <1>0
    <3> HIDE DEF known, unfolded, start
    <3> QED BY <1>1, <1>2, <3>1, <3>2
  <2> QED BY <2>1 DEF AudioUnfolds
<1>4. AudioUnfolds(s, value)
  <2> HIDE DEF known
  <2> QED BY <1>3
<1>5. \A n \in 0..Len(s) : value[n] = IF n = 0 THEN start ELSE Fields!AudioStep(value[n - 1], s[n])
  <2> HIDE DEF value
  <2>1. value = [n \in 0..Len(s) |-> IF n = 0 THEN start ELSE Fields!AudioStep(value[n - 1], s[n])]
    BY <1>4 DEF AudioUnfolds
  <2> QED BY <2>1
<1>6. known[Len(s)] = IF b = Len(s) + 1 THEN Decoded(s, Len(s)) ELSE Failed(s, b)
  BY <1>0
<1>v. Fields!AudioLoop(s) = value[Len(s)]
  BY DEF Fields!AudioLoop, AudioUnfolds
<1> HIDE DEF value, known, start
<1>7. value[0] = known[0] /\ \A i \in 1..Len(s) : value[i - 1] = known[i - 1] => value[i] = known[i]
  <2>1. \A i \in 1..Len(s) : i # 0 /\ i \in 0..Len(s)
    BY <1>0
  <2> QED BY <1>0, <1>1, <1>2, <1>5, <2>1
<1>8. \A i \in 0..Len(s) : value[i] = known[i]
  BY <1>0, <1>7, StepByStep
<1>9. Len(s) \in 0..Len(s)
  BY <1>0
<1> QED BY <1>6, <1>8, <1>9, <1>v

\* It fails at one place, if only past the end.
LEMMA SomeDecoding ==
  ASSUME NEW s, Len(s) \in Nat
  PROVE  \E b : DecodesTo(s, b)
<1> DEFINE T == {i \in 1..Len(s) : FailsAt(s, i)}
<1>1. T \subseteq Nat
  OBVIOUS
<1>2. CASE T = {}
  <2>1. DecodesTo(s, Len(s) + 1)
    BY <1>2 DEF DecodesTo
  <2> QED BY <2>1
<1>3. CASE T # {}
  <2>1. PICK b \in T : \A i \in T : b <= i
    <3> HIDE DEF T
    <3> QED BY <1>1, <1>3, NatMin
  <2>2. DecodesTo(s, b)
    BY <2>1 DEF DecodesTo
  <2> QED BY <2>2
<1> QED BY <1>2, <1>3

\* What was decoded without a failure fits the buffer.
LEMMA PairsFit ==
  ASSUME NEW s, Len(s) \in Nat, OutCap \in Nat, NEW n \in 0..Len(s), \A i \in 1..n : ~FailsAt(s, i)
  PROVE  Count(s, n) \div 2 <= OutCap
<1> DEFINE D == DigitsOf(s)
           h == Count(s, n) \div 2
<1>1. n \in Nat /\ Count(s, n) \in Nat
  BY CountIs
<1>2. h \in Nat /\ (Count(s, n) = 2 * h \/ Count(s, n) = 2 * h + 1)
  BY <1>1, Halves
<1> HIDE DEF h
<1>3. CASE h = 0
  BY <1>3 DEF h
<1>4. CASE h # 0
  <2> DEFINE k == 2 * h
  <2>1. k \in 1..Count(s, n) /\ k % 2 = 0 /\ k \div 2 = h
    <3>1. k % 2 = 0 /\ k \div 2 = h
      BY <1>2, Halves
    <3>2. k \in 1..Count(s, n)
      BY <1>1, <1>2, <1>4
    <3> QED BY <3>1, <3>2
  <2> HIDE DEF k
  <2>2. D \subseteq Nat \ {0} /\ k \in 1..Upto(D, n)
    BY <2>1, CountIs DEF Count
  <2> HIDE DEF D
  <2>3. Reached(D, n, k)
    BY <1>1, <2>2, UptoReaches, Zenon
  <2>4. PICK i \in 1..n : i \in D /\ Upto(D, i) = k
    BY <2>3 DEF Reached
  <2>5. ~FailsAt(s, i) /\ ~Space(s[i]) /\ Count(s, i) = k
    BY <2>4 DEF D, DigitsOf, Count
  <2>6. ~(h > OutCap)
    BY <2>1, <2>5 DEF FailsAt
  <2> QED BY <1>2, <2>6 DEF h
<1> QED BY <1>3, <1>4

\* A clip is decoded whole or not at all.
LEMMA AudioHolds ==
  ASSUME text \in Seq(Fields!Char), Fields!FieldsAssumption
  PROVE  Fields!AudioIsWhole
<1> DEFINE L == Len(text)
           D == DigitsOf(text)
           all == Count(text, L)
           paired == \A i \in 1..L : Space(text[i]) => Count(text, i) % 2 = 0
           plain == \A i \in D : text[i] # "z"
           short == text # <<>> /\ L < ScratchCap /\ L <= 2 * ClipMax
           good == short /\ plain /\ paired /\ all % 2 = 0 /\ all <= 2 * OutCap
           result == Fields!AudioDecode(text)
           end == Fields!AudioLoop(text)
<1>0. L \in Nat /\ {ScratchCap, OutCap, ClipMax} \subseteq Nat /\ OutCap \in Nat
  BY DEF Fields!FieldsAssumption
<1>1. all \in Nat /\ (all % 2 = 0 => all = 2 * (all \div 2)) /\ all \div 2 \in Nat
  BY <1>0, CountIs, Halves
<1>2. Len(<<>>) = 0
  OBVIOUS
<1>3. ASSUME ~short
      PROVE  /\ (result.rc = "OK") = good
             /\ good => result.out = Pairs(text, L)
             /\ Len(result.out) <= OutCap
  <2>1. result.rc # "OK" /\ result.out = <<>>
    BY <1>0, <1>3 DEF Fields!AudioDecode
  <2>2. ~good /\ good \in BOOLEAN
    BY <1>3
  <2> HIDE DEF result, good
  <2>3. Len(result.out) <= OutCap
    BY <1>0, <1>2, <2>1
  <2> QED BY <2>1, <2>2, <2>3
<1>4. ASSUME short
      PROVE  /\ (result.rc = "OK") = good
             /\ good => result.out = Pairs(text, L)
             /\ Len(result.out) <= OutCap
  <2>1. result = [rc |-> IF end.rc = "OK" /\ end.high # <<>> THEN "INVALID" ELSE end.rc, out |-> end.out]
    BY <1>0, <1>4 DEF Fields!AudioDecode
  <2>2. PICK b : DecodesTo(text, b)
    BY <1>0, SomeDecoding
  <2>3. b \in 1..L + 1 /\ (\A i \in 1..b - 1 : ~FailsAt(text, i)) /\ (b <= L => FailsAt(text, b))
    BY <2>2 DEF DecodesTo
  <2>4. end = IF b = L + 1 THEN Decoded(text, L) ELSE Failed(text, b)
    BY <1>0, <2>2, AudioLoopIs
  <2>5. \A n \in Nat : Len(Pairs(text, n)) = Count(text, n) \div 2
    BY <1>0, PairsAre
  <2>6. CASE b = L + 1
    <3>1. \A i \in 1..L : ~FailsAt(text, i)
      BY <1>0, <2>3, <2>6
    <3>2. paired /\ plain
      BY <3>1 DEF FailsAt, DigitsOf
    <3>3. all \div 2 <= OutCap
      BY <1>0, <3>1, PairsFit
    <3>4. all % 2 = 0 => all <= 2 * OutCap
      BY <1>0, <1>1, <3>3
    <3>5. end.rc = "OK" /\ end.high = Half(text, L) /\ end.out = Pairs(text, L)
      BY <2>4, <2>6 DEF Decoded
    <3>6. (end.high = <<>>) <=> all % 2 = 0
      <4> DEFINE d == Fields!Digit(text[Nth(DigitsOf(text), all)])
      <4>1. << d >> # <<>>
        OBVIOUS
      <4>2. Half(text, L) = IF all % 2 = 0 THEN <<>> ELSE << d >>
        BY DEF Half
      <4> HIDE DEF d
      <4> QED BY <3>5, <4>1, <4>2
    <3>7. result.rc = "OK" <=> all % 2 = 0
      BY <2>1, <3>5, <3>6
    <3>8. result.out = Pairs(text, L) /\ Len(result.out) = all \div 2
      BY <1>0, <2>1, <2>5, <3>5
    <3> HIDE DEF result, paired, plain, all, short
    <3>9. (result.rc = "OK") = good
      BY <1>4, <3>2, <3>4, <3>7
    <3> QED BY <3>3, <3>8, <3>9
  <2>7. CASE b # L + 1
    <3>1. b \in 1..L /\ FailsAt(text, b) /\ b - 1 \in 0..L /\ b - 1 \in Nat /\ b \in Nat /\ b <= L
      BY <1>0, <2>3, <2>7
    <3>2. end.rc # "OK" /\ end.out = Pairs(text, b - 1)
      BY <2>4, <2>7 DEF Failed
    <3>3. Count(text, b - 1) \div 2 <= OutCap
      BY <1>0, <2>3, <3>1, PairsFit
    <3>4. result.rc # "OK" /\ Len(result.out) <= OutCap
      <4>1. result.rc # "OK" /\ result.out = Pairs(text, b - 1)
        BY <2>1, <3>2
      <4> HIDE DEF result
      <4> QED BY <2>5, <3>1, <3>3, <4>1
    <3>5. ~good
      <4>1. CASE Space(text[b]) /\ Count(text, b) % 2 # 0
        BY <3>1, <4>1
      <4>2. CASE ~Space(text[b]) /\ text[b] = "z"
        BY <3>1, <4>2 DEF DigitsOf
      <4>3. CASE ~Space(text[b]) /\ Count(text, b) % 2 = 0 /\ Count(text, b) \div 2 > OutCap
        <5>1. Count(text, b) \in Nat /\ Count(text, b) <= all
          <6>1. DigitsOf(text) \subseteq Nat \ {0} /\ Count(text, b) \in Nat
            BY <1>0, <3>1, CountIs
          <6> HIDE DEF L
          <6>2. Upto(DigitsOf(text), b) <= Upto(DigitsOf(text), L)
            BY <1>0, <3>1, <6>1, UptoGrows
          <6> QED BY <6>1, <6>2 DEF Count
        <5>2. Count(text, b) = 2 * (Count(text, b) \div 2) /\ Count(text, b) \div 2 \in Nat
          BY <4>3, <5>1, Halves
        <5>3. ~(all <= 2 * OutCap)
          BY <1>0, <1>1, <4>3, <5>1, <5>2
        <5> QED BY <5>3
      <4> QED BY <3>1, <4>1, <4>2, <4>3 DEF FailsAt
    <3>6. good \in BOOLEAN
      OBVIOUS
    <3> HIDE DEF result, good
    <3> QED BY <3>4, <3>5, <3>6
  <2> QED BY <2>6, <2>7
<1>b. short \/ ~short
  OBVIOUS
<1> HIDE DEF result, good, short
<1>5. /\ (result.rc = "OK") = good
      /\ good => result.out = Pairs(text, L)
      /\ Len(result.out) <= OutCap
  BY <1>3, <1>4, <1>b
<1>6. \A i : Fields!Cardinality({j \in D : j <= i}) = Count(text, i)
  BY FieldCounts DEF Count, Upto
<1>7. Fields!Cardinality(D) = all
  <2>1. {j \in D : j <= L} = D
    BY <1>0 DEF DigitsOf
  <2> QED BY <2>1, FieldCounts DEF Count, Upto
<1>8. \A n : (CHOOSE i \in D : Fields!Cardinality({j \in D : j <= i}) = n) = Nth(D, n)
  BY <1>6 DEF Nth, Count
<1>9. Pairs(text, L) = [k \in 1..all \div 2 |-> 16 * Fields!Digit(text[Nth(D, 2 * k - 1)]) + Fields!Digit(text[Nth(D, 2 * k)])]
  <2>1. \A c : Fields!Digit(c) \in Nat
    BY DEF Fields!Digit
  <2>2. \A k : Pair(text, k) = 16 * Fields!Digit(text[Nth(D, 2 * k - 1)]) + Fields!Digit(text[Nth(D, 2 * k)])
    BY <2>1 DEF Pair
  <2> QED BY <2>2 DEF Pairs
<1> DEFINE upTo(i) == Fields!Cardinality({j \in D : j <= i})
           nth(n) == CHOOSE i \in D : upTo(i) = n
           even == \A i \in 1..L : Space(text[i]) => upTo(i) % 2 = 0
           count == Fields!Cardinality(D)
           whole == /\ text # <<>> /\ L < ScratchCap /\ L <= 2 * ClipMax
                    /\ \A i \in D : text[i] # "z"
                    /\ even /\ count % 2 = 0 /\ count <= 2 * OutCap
<1>a. whole = good
  <2>1. even = paired
    BY <1>6
  <2> HIDE DEF even, paired
  <2> QED BY <1>7, <2>1 DEF good, short
<1>c. [k \in 1..count \div 2 |-> 16 * Fields!Digit(text[nth(2 * k - 1)]) + Fields!Digit(text[nth(2 * k)])]
        = Pairs(text, L)
  BY <1>7, <1>8, <1>9
<1> HIDE DEF whole
<1>d. /\ (result.rc = "OK") = whole
      /\ whole => result.out = [k \in 1..count \div 2 |->
                     16 * Fields!Digit(text[nth(2 * k - 1)]) + Fields!Digit(text[nth(2 * k)])]
      /\ Len(result.out) <= OutCap
  BY <1>5, <1>a, <1>c
<1> QED BY <1>d DEF Fields!AudioIsWhole, DigitsOf, Space, D, whole, result

-----------------------------------------------------------------------------
(* The pipeline a payload asks for. *)

Mark == {"open", "comma", "close", "stage"}
\* The list when c stages are named, before it is closed.
Opened(c) == [i \in 1..2 * c |-> IF i = 1 THEN "open" ELSE IF i % 2 = 0 THEN "stage" ELSE "comma"]
Named(r) == {i \in 1..Len(r) : r[i] \in {"type", "nul", "long"}}
Staged(r, n) == [rc |-> "OK", out |-> Opened(Upto(Named(r), n))]
Unstaged(r, n) == [rc |-> Fields!StopCode(r[n]), out |-> Opened(Upto(Named(r), n - 1))]
Unnamed(r, b) == r[b] \in Fields!Stopping
StagesTo(r, b) == /\ b \in 1..Len(r) + 1 /\ \A i \in 1..b - 1 : ~Unnamed(r, i)
                  /\ b <= Len(r) => Unnamed(r, b)

LEMMA StopsBadly == \A row : Fields!StopCode(row) # "OK"
  BY DEF Fields!StopCode

\* One stage more is appended to the list.
LEMMA OpenedIs ==
  ASSUME NEW c \in Nat
  PROVE  /\ Opened(c) \in Seq(Mark) /\ Len(Opened(c)) = 2 * c
         /\ Opened(c) = <<>> <=> c = 0
         /\ Opened(c) \o << IF Opened(c) = <<>> THEN "open" ELSE "comma", "stage" >> = Opened(c + 1)
<1>1. 2 * c \in Nat /\ 2 * (c + 1) = 2 * c + 2
  OBVIOUS
<1>2. \A i \in 1..2 * c : Opened(c)[i] \in Mark
  BY DEF Opened, Mark
<1>3. Opened(c) \in [1..2 * c -> Mark]
  BY <1>2 DEF Opened
<1>4. Opened(c) \in Seq(Mark) /\ Len(Opened(c)) = 2 * c
  BY <1>1, <1>3, Listed
<1>5. Opened(c) = <<>> <=> c = 0
  <2>1. c = 0 => Opened(c) = <<>>
    BY DEF Opened
  <2>2. Len(<<>>) = 0
    OBVIOUS
  <2> QED BY <1>4, <2>1, <2>2
<1> DEFINE p == IF Opened(c) = <<>> THEN "open" ELSE "comma"
           more == Opened(c) \o << p, "stage" >>
<1>6. p = IF c = 0 THEN "open" ELSE "comma"
  BY <1>5
<1> HIDE DEF p
<1>7. p \in Mark /\ "stage" \in Mark
  BY <1>6 DEF Mark
<1>8. << p, "stage" >> \in Seq(Mark) /\ Len(<< p, "stage" >>) = 2 /\ << p, "stage" >>[1] = p /\ << p, "stage" >>[2] = "stage"
  BY <1>7
<1> DEFINE two == << p, "stage" >>
<1> HIDE DEF two
<1>9. /\ more \in Seq(Mark) /\ Len(more) = 2 * c + 2
      /\ \A i \in 1..2 * c + 2 : more[i] = IF i <= 2 * c THEN Opened(c)[i] ELSE two[i - 2 * c]
  BY <1>1, <1>4, <1>8 DEF two
<1>a. ASSUME NEW i \in 1..2 * c + 2 PROVE more[i] = Opened(c + 1)[i]
  <2>0. i \in Nat /\ i # 0
    BY <1>1
  <2>1. Opened(c + 1)[i] = IF i = 1 THEN "open" ELSE IF i % 2 = 0 THEN "stage" ELSE "comma"
    BY <1>1 DEF Opened
  <2>2. more[i] = IF i <= 2 * c THEN Opened(c)[i] ELSE two[i - 2 * c]
    BY <1>9
  <2>3. CASE i <= 2 * c
    <3>1. i \in 1..2 * c
      BY <1>1, <2>0, <2>3
    <3>2. Opened(c)[i] = IF i = 1 THEN "open" ELSE IF i % 2 = 0 THEN "stage" ELSE "comma"
      BY <3>1 DEF Opened
    <3> HIDE DEF more
    <3> QED BY <2>1, <2>2, <2>3, <3>2
  <2>4. CASE i = 2 * c + 1
    <3>1. i % 2 = 1 /\ (i = 1 <=> c = 0) /\ i - 2 * c = 1 /\ ~(i <= 2 * c)
      BY <2>4, Halves
    <3>2. more[i] = p
      BY <1>8, <2>2, <3>1 DEF two
    <3> HIDE DEF more
    <3> QED BY <1>6, <2>1, <3>1, <3>2
  <2>5. CASE i = 2 * c + 2
    <3> DEFINE k == c + 1
    <3>0. k \in Nat /\ i = 2 * k
      BY <2>5
    <3> HIDE DEF k
    <3>1. i % 2 = 0
      BY <3>0, Halves
    <3>2. i # 1 /\ i - 2 * c = 2 /\ ~(i <= 2 * c)
      BY <2>5
    <3>3. more[i] = "stage"
      BY <1>8, <2>2, <3>2 DEF two
    <3> HIDE DEF more
    <3> QED BY <2>1, <3>1, <3>2, <3>3
  <2>6. i <= 2 * c \/ i = 2 * c + 1 \/ i = 2 * c + 2
    BY <1>1, <2>0
  <2> HIDE DEF more
  <2> QED BY <2>3, <2>4, <2>5, <2>6
<1>b. more = [i \in 1..2 * c + 2 |-> more[i]]
  BY <1>9
<1>c. Opened(c + 1) = [i \in 1..2 * c + 2 |-> Opened(c + 1)[i]]
  BY <1>1 DEF Opened
<1>d. more = Opened(c + 1)
  <2> HIDE DEF more
  <2> QED BY <1>a, <1>b, <1>c
<1> QED BY <1>4, <1>5, <1>d DEF p

\* The stages are counted.
LEMMA NamedIs ==
  ASSUME NEW r, Len(r) \in Nat
  PROVE  /\ Named(r) \subseteq Nat \ {0} /\ Upto(Named(r), 0) = 0
         /\ \A n \in Nat : Upto(Named(r), n) \in Nat
         /\ \A n \in 1..Len(r) : Upto(Named(r), n) = Upto(Named(r), n - 1) + IF r[n] \in {"type", "nul", "long"} THEN 1 ELSE 0
<1> DEFINE R == Named(r)
<1>1. R \subseteq Nat \ {0} /\ \A n \in 1..Len(r) : n \in R <=> r[n] \in {"type", "nul", "long"}
  BY DEF Named
<1> HIDE DEF R
<1>2. Upto(R, 0) = 0 /\ \A n \in Nat \ {0} : Upto(R, n) = Upto(R, n - 1) + IF n \in R THEN 1 ELSE 0
  BY <1>1, UptoStep
<1>3. \A n \in Nat : Upto(R, n) \in Nat
  BY <1>1, UptoFinite
<1>4. \A n \in 1..Len(r) : n \in Nat \ {0}
  OBVIOUS
<1> QED BY <1>1, <1>2, <1>3, <1>4 DEF R

\* One row of the pipeline.
LEMMA PipelineStepIs ==
  ASSUME NEW r \in Seq(Fields!Row), NEW n \in 1..Len(r)
  PROVE  Fields!PipelineStep(Staged(r, n - 1), r[n]) = IF Unnamed(r, n) THEN Unstaged(r, n) ELSE Staged(r, n)
<1> DEFINE c == Upto(Named(r), n - 1)
           g == Staged(r, n - 1)
<1>0. Len(r) \in Nat /\ n - 1 \in Nat /\ r[n] \in Fields!Row
  OBVIOUS
<1>1. c \in Nat /\ Upto(Named(r), n) = c + IF r[n] \in {"type", "nul", "long"} THEN 1 ELSE 0
  BY <1>0, NamedIs
<1>2. g = [rc |-> "OK", out |-> Opened(c)]
  BY DEF Staged
<1> HIDE DEF c, g
<1>3. CASE r[n] \in Fields!Stopping
  BY <1>2, <1>3 DEF Fields!PipelineStep, Unnamed, Unstaged, g, c
<1>4. CASE r[n] \in {"blank", "feed", "wide"}
  <2>1. r[n] \notin Fields!Stopping /\ r[n] \notin {"type", "nul", "long"}
    BY <1>4 DEF Fields!Stopping
  <2>2. Fields!PipelineStep(g, r[n]) = g
    BY <1>2, <1>4, <2>1 DEF Fields!PipelineStep
  <2>3. Staged(r, n) = g
    BY <1>1, <1>2, <2>1 DEF Staged
  <2> QED BY <2>1, <2>2, <2>3 DEF Unnamed, g
<1>5. CASE r[n] \in {"type", "nul", "long"}
  <2>0. r[n] \notin Fields!Stopping /\ r[n] \notin {"blank", "feed", "wide"}
    BY <1>5 DEF Fields!Stopping
  <2>1. Fields!PipelineStep(g, r[n]) =
          [rc |-> "OK", out |-> Opened(c) \o << IF Opened(c) = <<>> THEN "open" ELSE "comma", "stage" >>]
    BY <1>2, <2>0 DEF Fields!PipelineStep
  <2>2. Fields!PipelineStep(g, r[n]) = [rc |-> "OK", out |-> Opened(c + 1)]
    BY <1>1, <2>1, OpenedIs
  <2> QED BY <1>1, <1>5, <2>0, <2>2 DEF Unnamed, Staged, g
<1> QED BY <1>0, <1>3, <1>4, <1>5 DEF Fields!Row, Fields!Stopping

\* The loop over the rows, and what it has when it ends.
StagesUnfold(r, f) ==
  f = [i \in 0..Len(r) |-> IF i = 0 THEN [rc |-> "OK", out |-> <<>>] ELSE Fields!PipelineStep(f[i - 1], r[i])]
Stages(r) == (CHOOSE f : StagesUnfold(r, f))[Len(r)]

\* What append_pipeline makes of the loop.
LEMMA PipelineIs ==
  ASSUME NEW r
  PROVE  Fields!Pipeline(r) = IF Stages(r).rc = "OK" /\ Stages(r).out # <<>>
                              THEN [Stages(r) EXCEPT !.out = Append(@, "close")] ELSE Stages(r)
BY DEF Fields!Pipeline, Stages, StagesUnfold

\* The loop ends with what is known where it stops, or after the last row.
LEMMA StagesIs ==
  ASSUME NEW r \in Seq(Fields!Row), NEW b, StagesTo(r, b)
  PROVE  Stages(r) = IF b = Len(r) + 1 THEN Staged(r, Len(r)) ELSE Unstaged(r, b)
<1> DEFINE start == [rc |-> "OK", out |-> <<>>]
           known == [i \in 0..Len(r) |-> IF i < b THEN Staged(r, i) ELSE Unstaged(r, b)]
           value == CHOOSE f : StagesUnfold(r, f)
<1>0. Len(r) \in Nat /\ b \in 1..Len(r) + 1
  BY DEF StagesTo
<1>1. known[0] = start
  <2>1. Upto(Named(r), 0) = 0 /\ Opened(0) = <<>>
    BY <1>0, NamedIs, OpenedIs
  <2>2. known[0] = Staged(r, 0)
    BY <1>0
  <2> HIDE DEF known
  <2> QED BY <2>1, <2>2 DEF Staged
<1>2. ASSUME NEW n \in 1..Len(r) PROVE known[n] = Fields!PipelineStep(known[n - 1], r[n])
  <2>0. n - 1 \in 0..Len(r) /\ n \in 0..Len(r)
    BY <1>0
  <2>1. CASE n < b
    <3>1. ~Unnamed(r, n)
      BY <1>0, <2>1 DEF StagesTo
    <3>2. known[n] = Staged(r, n) /\ known[n - 1] = Staged(r, n - 1)
      BY <1>0, <2>0, <2>1
    <3> HIDE DEF known
    <3> QED BY <3>1, <3>2, PipelineStepIs
  <2>2. CASE n = b
    <3>1. known[n] = Unstaged(r, n) /\ known[n - 1] = Staged(r, n - 1)
      BY <1>0, <2>0, <2>2
    <3>2. Unnamed(r, n)
      BY <1>0, <2>2 DEF StagesTo
    <3> HIDE DEF known
    <3> QED BY <3>1, <3>2, PipelineStepIs
  <2>3. CASE n > b
    <3>1. known[n] = Unstaged(r, b) /\ known[n - 1] = Unstaged(r, b)
      BY <1>0, <2>0, <2>3
    <3>2. Unstaged(r, b).rc # "OK"
      BY StopsBadly DEF Unstaged
    <3> HIDE DEF known
    <3> QED BY <3>1, <3>2 DEF Fields!PipelineStep
  <2> QED BY <1>0, <2>1, <2>2, <2>3
<1>3. StagesUnfold(r, known)
  <2> DEFINE unfolded == [n \in 0..Len(r) |-> IF n = 0 THEN start ELSE Fields!PipelineStep(known[n - 1], r[n])]
  <2>1. ASSUME NEW n \in 0..Len(r) PROVE known[n] = unfolded[n]
    <3>1. unfolded[n] = IF n = 0 THEN start ELSE Fields!PipelineStep(known[n - 1], r[n])
      OBVIOUS
    <3>2. n # 0 => n \in 1..Len(r)
      BY <1>0
    <3> HIDE DEF known, unfolded, start
    <3> QED BY <1>1, <1>2, <3>1, <3>2
  <2> QED BY <2>1 DEF StagesUnfold
<1>4. StagesUnfold(r, value)
  <2> HIDE DEF known
  <2> QED BY <1>3
<1>5. \A n \in 0..Len(r) : value[n] = IF n = 0 THEN start ELSE Fields!PipelineStep(value[n - 1], r[n])
  <2> HIDE DEF value
  <2>1. value = [n \in 0..Len(r) |-> IF n = 0 THEN start ELSE Fields!PipelineStep(value[n - 1], r[n])]
    BY <1>4 DEF StagesUnfold
  <2> QED BY <2>1
<1>6. known[Len(r)] = IF b = Len(r) + 1 THEN Staged(r, Len(r)) ELSE Unstaged(r, b)
  BY <1>0
<1>v. Stages(r) = value[Len(r)]
  BY DEF Stages
<1> HIDE DEF value, known, start
<1>7. value[0] = known[0] /\ \A i \in 1..Len(r) : value[i - 1] = known[i - 1] => value[i] = known[i]
  <2>1. \A i \in 1..Len(r) : i # 0 /\ i \in 0..Len(r)
    BY <1>0
  <2> QED BY <1>0, <1>1, <1>2, <1>5, <2>1
<1>8. \A i \in 0..Len(r) : value[i] = known[i]
  BY <1>0, <1>7, StepByStep
<1>9. Len(r) \in 0..Len(r)
  BY <1>0
<1> QED BY <1>6, <1>8, <1>9, <1>v

\* It stops at one row, if only past the end.
LEMMA SomeStages ==
  ASSUME NEW r, Len(r) \in Nat
  PROVE  \E b : StagesTo(r, b)
<1> DEFINE T == {i \in 1..Len(r) : Unnamed(r, i)}
<1>1. T \subseteq Nat
  OBVIOUS
<1>2. CASE T = {}
  <2>1. StagesTo(r, Len(r) + 1)
    BY <1>2 DEF StagesTo
  <2> QED BY <2>1
<1>3. CASE T # {}
  <2>1. PICK b \in T : \A i \in T : b <= i
    <3> HIDE DEF T
    <3> QED BY <1>1, <1>3, NatMin
  <2>2. StagesTo(r, b)
    BY <2>1 DEF StagesTo
  <2> QED BY <2>2
<1> QED BY <1>2, <1>3

\* The closed list.
Closed(c) == IF c = 0 THEN <<>>
             ELSE [i \in 1..2 * c + 1 |-> IF i = 1 THEN "open" ELSE IF i = 2 * c + 1 THEN "close"
                                          ELSE IF i % 2 = 0 THEN "stage" ELSE "comma"]

\* The list is closed.
LEMMA ClosedIs ==
  ASSUME NEW c \in Nat
  PROVE  /\ Closed(c) \in Seq(Mark) /\ Len(Closed(c)) \in Nat
         /\ c # 0 => Append(Opened(c), "close") = Closed(c)
<1>1. CASE c = 0
  BY <1>1 DEF Closed
<1>2. CASE c # 0
  <2> DEFINE l == 2 * c
             more == Append(Opened(c), "close")
  <2>0. l \in Nat /\ l > 1
    BY <1>2
  <2>1. Opened(c) \in Seq(Mark) /\ Len(Opened(c)) = l
    BY OpenedIs
  <2>2. more \in Seq(Mark) /\ Len(more) = l + 1
    BY <2>1 DEF Mark
  <2>3. Opened(c) = [i \in 1..l |-> IF i = 1 THEN "open" ELSE IF i % 2 = 0 THEN "stage" ELSE "comma"]
    BY DEF Opened
  <2>4. Closed(c) = [i \in 1..l + 1 |-> IF i = 1 THEN "open" ELSE IF i = l + 1 THEN "close"
                                        ELSE IF i % 2 = 0 THEN "stage" ELSE "comma"]
    BY <1>2 DEF Closed
  <2> HIDE DEF l
  <2>5. more = [i \in 1..l + 1 |-> IF i = l + 1 THEN "close" ELSE Opened(c)[i]]
    <3> DEFINE o == Opened(c)
               v == "close"
    <3>1. o \in Seq(Mark) /\ Len(o) = l
      BY <2>1
    <3> HIDE DEF o, v
    <3>2. Append(o, v) = [i \in 1..l + 1 |-> IF i = l + 1 THEN v ELSE o[i]]
      <4>1. \A i \in 1..l + 1 : Append(o, v)[i] = IF i = l + 1 THEN v ELSE o[i]
        BY <2>0, <3>1
      <4>2. v \in Mark
        BY DEF v, Mark
      <4> DEFINE p == Append(o, v)
      <4>3. p \in Seq(Mark) /\ Len(p) = l + 1
        BY <3>1, <4>2
      <4> HIDE DEF p
      <4>4. p = [i \in 1..l + 1 |-> p[i]]
        BY <2>0, <4>3
      <4> QED BY <4>1, <4>4 DEF p

    <3> QED BY <3>2 DEF o, v

  <2> HIDE DEF more
  <2>6. ASSUME NEW i \in 1..l + 1 PROVE more[i] = Closed(c)[i]
    <3>1. CASE i = l + 1
      <4>1. i # 1
        BY <2>0, <3>1
      <4> QED BY <2>4, <2>5, <3>1, <4>1
    <3>2. CASE i # l + 1
      <4>1. i \in 1..l
        BY <2>0, <3>2
      <4> QED BY <2>3, <2>4, <2>5, <3>2, <4>1
    <3> QED BY <3>1, <3>2
  <2>7. more = Closed(c)
    <3>1. more = [i \in 1..l + 1 |-> more[i]] /\ Closed(c) = [i \in 1..l + 1 |-> Closed(c)[i]]
      BY <2>4, <2>5
    <3> QED BY <2>6, <3>1
  <2> QED BY <2>0, <2>2, <2>7 DEF more
<1> QED BY <1>1, <1>2

\* A frame that is built is whole.
LEMMA FrameHolds ==
  ASSUME rows \in Seq(Fields!Row), Fields!FieldsAssumption
  PROVE  Fields!FrameIsWhole
<1> DEFINE L == Len(rows)
           c == Upto(Named(rows), L)
           stages == Stages(rows)
           pipeline == Fields!Pipeline(rows)
           whole == Fields!Before \o Closed(c) \o Fields!After
           readable == \A i \in 1..L : rows[i] \notin {"number", "overlong", "malformed"}
           hints == Fields!HintCode(rows)
           frame == Fields!BuildFrame(rows)
<1>0. L \in Nat /\ PayloadCap \in Nat /\ TokenRoom \in Nat
  BY DEF Fields!FieldsAssumption
<1>1. c \in Nat
  BY <1>0, NamedIs
<1>2. Len(whole) \in Nat
  <2> DEFINE S == Mark \cup {"utterance", "lang", "request_id", "thalovant_request_id", "session_id",
                             "session_lang", "session_request_id", "stt_lang", "location", "route"}
  <2>1. Fields!Before \in Seq(S) /\ Fields!After \in Seq(S)
    BY DEF Fields!Before, Fields!After
  <2>2. Closed(c) \in Seq(S)
    <3>1. Closed(c) \in Seq(Mark) /\ \A x \in Mark : x \in S
      BY <1>1, ClosedIs
    <3> HIDE DEF S, c
    <3> QED BY <3>1
  <2> HIDE DEF S, c
  <2> QED BY <2>1, <2>2
<1>3. PICK b : StagesTo(rows, b)
  BY <1>0, SomeStages
<1>4. b \in 1..L + 1 /\ (\A i \in 1..b - 1 : ~Unnamed(rows, i)) /\ (b <= L => Unnamed(rows, b))
  BY <1>3 DEF StagesTo
<1>5. stages = IF b = L + 1 THEN Staged(rows, L) ELSE Unstaged(rows, b)
  BY <1>3, StagesIs
<1>6. pipeline = IF stages.rc = "OK" /\ stages.out # <<>>
                 THEN [stages EXCEPT !.out = Append(@, "close")] ELSE stages
  BY PipelineIs
<1>h. (hints = "OK" => L <= TokenRoom) /\ (hints # "OK" => ~(readable /\ L <= TokenRoom))
  BY <1>0 DEF Fields!HintCode
<1>f. frame = IF hints # "OK" THEN [rc |-> hints, out |-> <<>>]
              ELSE LET upTo == Fields!Before \o pipeline.out
                       all == IF pipeline.rc = "OK" THEN upTo \o Fields!After ELSE upTo
                   IN IF Len(all) + 1 > PayloadCap THEN [rc |-> "NOMEM", out |-> <<>>]
                      ELSE IF pipeline.rc # "OK" THEN [rc |-> pipeline.rc, out |-> <<>>]
                      ELSE [rc |-> "OK", out |-> all]
  BY DEF Fields!BuildFrame
<1> HIDE DEF stages, pipeline, hints, frame
<1>6h. ASSUME hints # "OK"
       PROVE  /\ frame.rc = "OK" => frame.out = whole
              /\ (frame.rc = "OK") <=> (readable /\ L <= TokenRoom /\ Len(whole) < PayloadCap)
  BY <1>h, <1>f, <1>6h
<1>7. ASSUME hints = "OK", b = L + 1
      PROVE  /\ frame.rc = "OK" => frame.out = whole
             /\ (frame.rc = "OK") <=> (readable /\ L <= TokenRoom /\ Len(whole) < PayloadCap)
  <2>1. readable
    <3>1. \A i \in 1..L : ~Unnamed(rows, i)
      BY <1>0, <1>4, <1>7
    <3> QED BY <3>1 DEF Unnamed, Fields!Stopping
  <2>2. stages = [rc |-> "OK", out |-> Opened(c)]
    BY <1>5, <1>7 DEF Staged
  <2>3. Opened(c) = <<>> <=> c = 0
    BY <1>1, OpenedIs
  <2> HIDE DEF c, L
  <2>4. pipeline = [rc |-> "OK", out |-> Closed(c)]
    <3>1. CASE c = 0
      BY <1>6, <2>2, <2>3, <3>1 DEF Closed
    <3>2. CASE c # 0
      BY <1>1, <1>6, <2>2, <2>3, <3>2, ClosedIs
    <3> QED BY <3>1, <3>2
  <2>5. frame = IF Len(whole) + 1 > PayloadCap THEN [rc |-> "NOMEM", out |-> <<>>] ELSE [rc |-> "OK", out |-> whole]
    BY <1>f, <1>7, <2>4
  <2> HIDE DEF whole, readable
  <2>6. ~(Len(whole) + 1 > PayloadCap) <=> Len(whole) < PayloadCap
    BY <1>0, <1>2
  <2>7. /\ frame.rc = "OK" => frame.out = whole
        /\ (frame.rc = "OK") <=> (readable /\ L <= TokenRoom /\ Len(whole) < PayloadCap)
    BY <1>h, <1>7, <2>1, <2>5, <2>6 DEF L
  <2> QED BY <2>7
<1>8. ASSUME hints = "OK", b # L + 1
      PROVE  /\ frame.rc = "OK" => frame.out = whole
             /\ (frame.rc = "OK") <=> (readable /\ L <= TokenRoom /\ Len(whole) < PayloadCap)
  <2>1. b \in 1..L /\ Unnamed(rows, b)
    BY <1>0, <1>4, <1>8
  <2>2. ~readable
    BY <2>1 DEF Unnamed, Fields!Stopping
  <2>3. stages.rc # "OK"
    BY <1>5, <1>8, StopsBadly DEF Unstaged
  <2>4. pipeline.rc # "OK"
    BY <1>6, <2>3
  <2>5. frame.rc # "OK"
    BY <1>f, <1>8, <2>4
  <2> HIDE DEF readable, whole
  <2> QED BY <2>2, <2>5
<1>9. Fields!Cardinality({i \in 1..L : rows[i] \in {"type", "nul", "long"}}) = c
  <2>1. {j \in Named(rows) : j <= L} = {i \in 1..L : rows[i] \in {"type", "nul", "long"}}
    BY <1>0 DEF Named
  <2> QED BY <2>1, FieldCounts DEF Upto
<1> HIDE DEF readable, c
<1>a. /\ frame.rc = "OK" => frame.out = whole
      /\ (frame.rc = "OK") = (readable /\ L <= TokenRoom /\ Len(whole) < PayloadCap)
  <2>1. readable \in BOOLEAN
    BY DEF readable
  <2> HIDE DEF whole
  <2> QED BY <1>6h, <1>7, <1>8, <2>1
<1> QED BY <1>9, <1>a DEF Fields!FrameIsWhole, Closed, readable, frame, c

\* No field is cut, repeated or made up, read or written: a text that is
\* collapsed in place, a clip's hexadecimal, an allow-list read by index or in
\* one walk, a payload with its pipeline, of src/ask.c, for texts and arrays of
\* any length and buffers of any size.
THEOREM FieldsAreWholeHolds ==
  ASSUME Fields!FieldsAssumption
  PROVE  Fields!Spec => []Fields!FieldsAreWhole
<1> DEFINE Types == text \in Seq(Fields!Char) /\ rows \in Seq(Fields!Row)
<1>1. Fields!Init => Types
  BY DEF Fields!Init
<1>2. Types /\ [Fields!Next]_Fields!vars => Types'
  <2> SUFFICES ASSUME Types, [Fields!Next]_Fields!vars PROVE Types'
    OBVIOUS
  <2>1. CASE Fields!GrowText
    BY <2>1 DEF Fields!GrowText
  <2>2. CASE Fields!GrowRows
    BY <2>2 DEF Fields!GrowRows
  <2>3. CASE UNCHANGED Fields!vars
    BY <2>3 DEF Fields!vars
  <2> QED BY <2>1, <2>2, <2>3 DEF Fields!Next
<1>3. Types => Fields!FieldsAreWhole
  BY NormalizedHold, AudioHolds, IndexHolds, ReadersHold, FrameHolds DEF Fields!FieldsAreWhole
<1> QED BY <1>1, <1>2, <1>3, PTL DEF Fields!Spec
=============================================================================
