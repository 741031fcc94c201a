------------------------------ MODULE AskLoop ------------------------------
(***************************************************************************)
(* The ask loop an application runs on src/ask.c (include/thalovant/ask.h, *)
(* docs/esp32-mqtt.md): several questions at a time, fire-and-forget       *)
(* utterances and queries beside them, one hub that answers or refuses     *)
(* each of them, and a clock.  The application classifies every frame once *)
(* for each question it waits for, and counts what is out for the refusals *)
(* that carry no request id.                                               *)
(*                                                                         *)
(* Frames are delivered as they are made: how long the hub and the network *)
(* take is the freedom of when a delivery happens.  Only a denial is known *)
(* to be fast (DenialDelay), which is what the grace window rests on.      *)
(***************************************************************************)
EXTENDS AskEvents, FiniteSets

CONSTANTS Asks,         \* the questions, named by their request ids
          Sends,        \* fire-and-forget utterances
          Queries,      \* queries
          Forms,        \* the forms the application hands to classify
          Overall,      \* 12 s: the deadline of a question
          EmptyWait,    \* 5 s: the wait for speech after HANDLED
          Settle,       \* 250 ms: the wait for more speech
          Grace,        \* THALOVANT_UNTRACKED_UTTERANCE_GRACE_SECONDS
          DenialDelay,  \* how late a denial may come
          MaxTime       \* bound: the clock

ASSUME AskAssumption ==
  /\ {Overall, EmptyWait, Settle, Grace, DenialDelay, MaxTime} \subseteq Nat
  /\ DenialDelay <= Grace /\ DenialDelay < Overall
  /\ IsFiniteSet(Asks) /\ IsFiniteSet(Sends) /\ IsFiniteSet(Queries)
  /\ Asks \cap Sends = {} /\ Asks \cap Queries = {} /\ Sends \cap Queries = {}
  /\ {NoId, "absent", "null"} \cap Asks = {}

Everything == Asks \cup Sends \cup Queries
Late == MaxTime + 1

VARIABLES now,       \* the clock
          sentAt,    \* when each was sent; Late: not yet
          hub,       \* what the hub has said about each
          outcome,   \* "waiting" (sent or not), or how a question ended
          deadline,  \* when a question is given up or settled
          missed,    \* a soft miss was recorded and not superseded
          heard      \* whose answers a question collected

vars == <<now, sentAt, hub, outcome, deadline, missed, heard>>

Init ==
  /\ now = 0
  /\ sentAt = [u \in Everything |-> Late]
  /\ hub = [u \in Everything |-> {}]
  /\ outcome = [a \in Asks |-> "waiting"]
  /\ deadline = [a \in Asks |-> Late]
  /\ missed = [a \in Asks |-> FALSE]
  /\ heard = [a \in Asks |-> {}]

Sent(u) == sentAt[u] # Late
Waiting(a) == Sent(a) /\ outcome[a] = "waiting"

\* The counts the application keeps for refusal_belongs_to_ask.
AsksInFlight == Cardinality({a \in Asks : Waiting(a)})
QueriesInFlight == Cardinality({q \in Queries : Sent(q) /\ hub[q] = {}})
SendsInFlight == Cardinality({s \in Sends : Sent(s) /\ now - sentAt[s] <= Grace})

-----------------------------------------------------------------------------
\* A question, a fire-and-forget utterance or a query goes out.
Send(u) ==
  /\ ~Sent(u)
  /\ now + Overall <= MaxTime
  /\ sentAt' = [sentAt EXCEPT ![u] = now]
  /\ deadline' = IF u \in Asks THEN [deadline EXCEPT ![u] = now + Overall] ELSE deadline
  /\ UNCHANGED <<now, hub, outcome, missed, heard>>

\* What question a makes of a frame: its end, or what it waits for next.
Min2(m, n) == IF m <= n THEN m ELSE n
React(a, frame) ==
  LET event == Classify(frame, a)
      any == Classify(frame, NoId)
      stay == [outcome |-> "waiting", deadline |-> deadline[a], missed |-> missed[a],
               hears |-> FALSE]
      ends(how) == [outcome |-> how, deadline |-> Late, missed |-> FALSE, hears |-> FALSE]
  IN IF ~Waiting(a) THEN [stay EXCEPT !.outcome = outcome[a]]
     ELSE IF any.kind = "POLICY_DENIED"
     THEN IF RefusalBelongs(any.id, a, frame.denied, AsksInFlight, QueriesInFlight, SendsInFlight)
          THEN ends("refused") ELSE stay
     ELSE
     CASE event.kind = "QUERY_TIMEOUT" -> ends("expired")
       [] event.kind = "SPEAK" ->
            [stay EXCEPT !.hears = TRUE, !.missed = FALSE,
                         !.deadline = IF heard[a] = {} THEN Min2(@, now + Settle) ELSE @]
       [] event.kind = "HANDLED" ->
            [stay EXCEPT !.missed = FALSE,
                         !.deadline = IF heard[a] = {} THEN Min2(@, now + EmptyWait) ELSE @]
       [] event.kind = "INTENT_FAILURE" -> [stay EXCEPT !.missed = (heard[a] = {})]
       [] OTHER -> stay

\* A frame about u arrives; every question looks at it.
Receive(u, frame) ==
  /\ outcome' = [a \in Asks |-> React(a, frame).outcome]
  /\ deadline' = [a \in Asks |-> React(a, frame).deadline]
  /\ missed' = [a \in Asks |-> React(a, frame).missed]
  /\ heard' = [a \in Asks |-> IF React(a, frame).hears THEN heard[a] \cup {u} ELSE heard[a]]
  /\ UNCHANGED <<now, sentAt>>

Frame(form, name, context, session, data, denied) ==
  [form |-> form, name |-> name, context |-> context, session |-> session, data |-> data,
   denied |-> denied]

\* Where the hub may put the request id of question a: in the context beside
\* a session that still carries another question's, in the session alone, or
\* in the data of a frame without context.
Stamped(form, name, a) ==
  {Frame(form, name, <<"null", a>>, <<b>>, <<>>, "") : b \in Asks}
    \cup {Frame(form, name, <<"absent">>, <<a>>, <<>>, ""),
          Frame(form, name, <<>>, <<>>, <<"absent", "absent", a>>, "")}
Unstamped(form, name) == {Frame(form, name, <<"absent">>, <<>>, <<>>, "")}

Names == {"speak", "ovos.intent.unmatched", "ovos.utterance.handled", "hive.query.timeout"}

\* The hub says something about u, once under each name.  What it says to an
\* utterance or a query the application gave no id carries none.  Of these, and
\* of what comes after a question's end, speech stands for all (bound).
Answer(u, name, form) ==
  /\ Sent(u)
  /\ u \notin Asks \/ ~Waiting(u) => name = "speak"
  /\ hub[u] \cap {"refused", "hive.query.timeout", name} = {}
  /\ hub' = [hub EXCEPT ![u] = @ \cup {name}]
  /\ \E frame \in IF u \in Asks THEN Stamped(form, name, u) ELSE Unstamped(form, name) :
       Receive(u, frame)

\* The hub refuses u: no request id, the refused type instead.
Refuse(u, form) ==
  /\ Sent(u)
  /\ hub[u] = {}
  /\ now - sentAt[u] <= DenialDelay
  /\ hub' = [hub EXCEPT ![u] = {"refused"}]
  /\ Receive(u, Frame(form, "hive.policy.denied", <<"absent">>, <<>>, <<>>, Utterance))

\* A question whose deadline has come ends with what it has.
GiveUp(a) ==
  /\ Waiting(a)
  /\ now >= deadline[a]
  /\ outcome' = [outcome EXCEPT ![a] =
       IF heard[a] # {} THEN "reply" ELSE IF missed[a] THEN "missed" ELSE "timeout"]
  /\ deadline' = [deadline EXCEPT ![a] = Late]
  /\ missed' = [missed EXCEPT ![a] = FALSE]
  /\ UNCHANGED <<now, sentAt, hub, heard>>

\* The application looks at its deadlines before time goes on.
Tick ==
  /\ now < MaxTime
  /\ \A a \in Asks : Waiting(a) => now < deadline[a]
  /\ now' = now + 1
  /\ UNCHANGED <<sentAt, hub, outcome, deadline, missed, heard>>

Next ==
  \/ \E u \in Everything : Send(u)
  \/ \E u \in Everything, form \in Forms :
       Refuse(u, form) \/ \E name \in Names : Answer(u, name, form)
  \/ \E a \in Asks : GiveUp(a)
  \/ Tick

Spec == Init /\ [][Next]_vars

-----------------------------------------------------------------------------
Outcomes == {"waiting", "reply", "missed", "timeout", "refused", "expired"}

TypeOK ==
  /\ now \in 0..MaxTime
  /\ sentAt \in [Everything -> 0..Late]
  /\ hub \in [Everything -> SUBSET (Names \cup {"refused"})]
  /\ outcome \in [Asks -> Outcomes]
  /\ deadline \in [Asks -> 0..Late]
  /\ missed \in [Asks -> BOOLEAN]
  /\ heard \in [Asks -> SUBSET Everything]

\* "A wrong guess ends a question the hub never refused": no question ends by
\* a refusal of something else, though denials carry no request id and come
\* after other questions, queries and utterances went out or were forgotten.
RefusalIsOwn == \A a \in Asks : outcome[a] = "refused" => "refused" \in hub[a]

\* A question collects answers to itself only, whatever else is answered at
\* the time in the same session, and expires only when it was told so.
RepliesAreOwn ==
  \A a \in Asks :
    /\ heard[a] \subseteq {a}
    /\ outcome[a] = "expired" => "hive.query.timeout" \in hub[a]

\* Speech about a question that is still waiting is heard, wherever in the
\* frame the hub put the request id (context, session or data, any alias).
SpeechIsHeard ==
  [][\A a \in Asks :
       Waiting(a) /\ hub'[a] \ hub[a] = {"speak"} => a \in heard'[a]]_vars
=============================================================================
