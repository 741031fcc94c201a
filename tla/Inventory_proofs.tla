-------------------------- MODULE Inventory_proofs --------------------------
(***************************************************************************)
(* What thalovant_intent_classify says of a frame, for every frame and not *)
(* only those of a hub TLC can try: whose reply it is, and that a denial's *)
(* types can be read out.  Then what an application makes of it: answers   *)
(* are its own, and a list that counts as known is complete, whatever the  *)
(* hub has registered, in how many languages and intents.                  *)
(***************************************************************************)
EXTENDS Inventory, FiniteSetTheorems, FunctionTheorems, SequenceTheorems, TLAPS

\* A classifier given a request id speaks of that request's reply, or of one
\* that says nothing of whose it is.
THEOREM OwnOrUnsaid ==
  ASSUME NEW frame, NEW own, own # NoId, Classify(frame, own).kind # "IGNORE"
  PROVE  Classify(frame, own).id \in {NoId, own}
<1>1. \A code : Refused(code).kind = "IGNORE"
  BY DEF Refused, Ignored
<1>2. Ignored.kind = "IGNORE"
  BY DEF Ignored
<1>3. /\ Classify(frame, own) = Classified(frame, KindOf(frame.name), ReplyId(frame))
      /\ ReplyId(frame) \in {NoId, own}
  BY <1>1, <1>2 DEF Classify
<1>4. ASSUME NEW kind, NEW id
      PROVE  /\ Described(frame, kind, id).id = id
             /\ [Described(frame, kind, id) EXCEPT !.ok = FALSE, !.denied = frame.denied].id = id
  BY DEF Described, Ignored
<1>5. ASSUME NEW kind, NEW id, Classified(frame, kind, id).kind # "IGNORE"
      PROVE  Classified(frame, kind, id).id = id
  BY <1>1, <1>5 DEF Classified, Described, Ignored
<1>6. QED
  BY <1>3, <1>5

\* A list counted without stopping is delivered with as many types, or stops
\* at one too long to copy.
LEMMA CountedIsDelivered ==
  ASSUME NEW allowed, WalkAllowed(allowed, TRUE).rc = "OK"
  PROVE  \/ WalkAllowed(allowed, FALSE) = WalkAllowed(allowed, TRUE)
         \/ /\ WalkAllowed(allowed, FALSE).rc = "NOMEM"
            /\ \E i \in 1..Len(allowed) : allowed[i] \in TooLong
<1>1. AllowedStop(allowed, TRUE) = {}
  BY DEF WalkAllowed
<1>2. CASE AllowedStop(allowed, FALSE) = {}
  BY <1>1, <1>2 DEF WalkAllowed
<1>3. CASE AllowedStop(allowed, FALSE) # {}
  <2>1. \A i \in AllowedStop(allowed, FALSE) :
          i \in 1..Len(allowed) /\ allowed[i] \in TooLong
    BY <1>1 DEF AllowedStop
  <2>2. ~EndsMalformed(AllowedStop(allowed, FALSE), allowed)
    BY <2>1 DEF EndsMalformed, TooLong
  <2>3. QED
    BY <1>3, <2>1, <2>2 DEF WalkAllowed
<1>4. QED
  BY <1>2, <1>3

\* What a classified denial keeps of its list: all of it when it counted to
\* the end and found a type, nothing otherwise.
LEMMA DenialKeepsWhatCounts ==
  ASSUME NEW frame, NEW id
  PROVE  LET event == Classified(frame, "DENIED", id)
         IN \/ event.kind = "IGNORE"
            \/ event.allowed = <<>> /\ event.types = 0
            \/ /\ WalkAllowed(event.allowed, TRUE).rc = "OK"
               /\ event.types = WalkAllowed(event.allowed, TRUE).types
<1>1. Refused("NOMEM").kind = "IGNORE"
  BY DEF Refused, Ignored
<1>2. /\ Described(frame, "DENIED", id).allowed = <<>>
      /\ Described(frame, "DENIED", id).types = 0
  BY DEF Described, Ignored
<1>3. QED
  BY <1>1, <1>2 DEF Classified, Described, Ignored

\* thalovant_intent_allowed_types delivers as many types as the classifier
\* announced, or stops at one too long to copy, whatever the frame.
THEOREM DenialsAreReadable == Spec => []AllowedIsReadable
<1>1. ASSUME NEW frame, Classify(frame, NoId).kind = "DENIED"
      PROVE  LET event == Classify(frame, NoId)
                 read == AllowedTypes(event)
             IN \/ read.rc = "OK" /\ read.types = event.types
                \/ read.rc = "NOMEM" /\ \E i \in 1..Len(event.allowed) : event.allowed[i] \in TooLong
  <2> DEFINE event == Classify(frame, NoId)
  <2>1. \A code : Refused(code).kind = "IGNORE"
    BY DEF Refused, Ignored
  <2>2. Ignored.kind = "IGNORE"
    BY DEF Ignored
  <2>3. event = Classified(frame, KindOf(frame.name), ReplyId(frame))
    BY <1>1, <2>1, <2>2 DEF Classify
  <2>4. KindOf(frame.name) = "DENIED"
    BY <1>1, <2>1, <2>3 DEF Classified, Described, Ignored
  <2>5. AllowedTypes(event) = WalkAllowed(event.allowed, FALSE)
    BY <1>1 DEF AllowedTypes
  <2>6. CASE event.allowed = <<>> /\ event.types = 0
    <3>1. AllowedStop(<<>>, FALSE) = {} /\ AllowedStop(<<>>, TRUE) = {}
      BY DEF AllowedStop
    <3>2. TypesBefore({}, <<>>) = 0
      <4>1. {i \in 1..Len(<<>>) : /\ \A stop \in {} : i < stop
                                 /\ <<>>[i] \in {"type", "nul"} \cup TooLong} = {}
        OBVIOUS
      <4>2. QED
        BY <4>1, FS_EmptySet DEF TypesBefore
    <3>3. WalkAllowed(<<>>, FALSE).rc = "OK" /\ WalkAllowed(<<>>, FALSE).types = 0
      BY <3>1, <3>2 DEF WalkAllowed
    <3>4. AllowedTypes(event).rc = "OK" /\ AllowedTypes(event).types = event.types
      BY <2>5, <2>6, <3>3
    <3>5. QED
      BY <3>4
  <2>7. CASE /\ WalkAllowed(event.allowed, TRUE).rc = "OK"
             /\ event.types = WalkAllowed(event.allowed, TRUE).types
    <3>1. WalkAllowed(event.allowed, FALSE) = WalkAllowed(event.allowed, TRUE)
          \/ /\ WalkAllowed(event.allowed, FALSE).rc = "NOMEM"
             /\ \E i \in 1..Len(event.allowed) : event.allowed[i] \in TooLong
      BY <2>7, CountedIsDelivered
    <3>2. QED
      BY <2>5, <2>7, <3>1
  <2>8. QED
    BY <1>1, <2>3, <2>4, <2>6, <2>7, DenialKeepsWhatCounts
<1>2. AllowedIsReadable
  BY <1>1 DEF AllowedIsReadable
<1>3. QED
  BY <1>2, PTL

-----------------------------------------------------------------------------
(* The invariant: what was asked, and whose every reply on the wire is. *)

Statuses == {"none", "out", "gone", "known", "denied", "refused", "error"}
Lists == {"listing", "all"}

\* A query that went out is the one of its id.
QueryOf(id, q) ==
  /\ q = [kind |-> q.kind, langs |-> QueryLangs(q.kind, q.lang), intent |-> q.intent,
          lang |-> q.lang]
  /\ id = "listing" => q.kind = "list" /\ q.lang \in Tongue \cup {"absent"}
  /\ id = "all" => q.kind = "list_all"
  /\ id \in DescribeIds => q.kind = "describe" /\ q.intent \in Intent /\ q.lang \in Tongue

Asked(id) == status[id] # "none"
QueriesOK ==
  /\ catalogue \in Catalogues /\ echo \in {"context", "session", "data", "nowhere"}
  /\ DOMAIN query = Id /\ DOMAIN status = Id /\ DOMAIN rows = Id /\ DOMAIN origin = Id
  /\ \A id \in Id : /\ status[id] \in Statuses
                    /\ Asked(id) => QueryOf(id, query[id])
                    /\ Answered(id) <=> status[id] \notin {"none", "out", "gone"}
                    /\ Answered(id) => origin[id] \in Id /\ Asked(origin[id])
  /\ \A a, b \in DescribeIds :
       Asked(a) /\ Asked(b) /\ query[a].intent = query[b].intent /\ query[a].lang = query[b].lang
         => a = b
  /\ Asked("all") => status["listing"] = "known"

\* A reply of the hub to a query, that it made once.
Sent(frame, id) ==
  /\ Asked(id) /\ id \notin inbox
  /\ frame \in Answers(id, query[id]) \cup Denials(id, EventType(query[id].kind))
WireOK ==
  /\ inbox \subseteq {id \in Id : Asked(id)}
  /\ \A frame \in wire : frame \in Foreign \/ \E id \in Id : Sent(frame, id)
  /\ \A f, g \in wire : f.for = g.for /\ f.for \in Id => f = g
\* A reply without an id is not read twice.
SpentOK ==
  echo = "nowhere" =>
    \A id \in Id : origin[id] = id => id \notin inbox /\ \A frame \in wire : frame.for # id

IInv == /\ QueriesOK /\ WireOK /\ SpentOK
        /\ \A id \in Lists : rows[id] \subseteq catalogue
        /\ AnswersAreOwn /\ KnownIsComplete /\ AllMeansAll

-----------------------------------------------------------------------------
(* What the hub's lists hold, and what a walker makes of them. *)

\* The least position of a set of positions.
LEMMA MinIs ==
  ASSUME NEW S, NEW k \in S, \A i \in S : k <= i, S \subseteq Int
  PROVE  Min(S) = k
<1>1. k \in S /\ \A i \in S : k <= i
  OBVIOUS
<1>2. Min(S) \in S /\ \A i \in S : Min(S) <= i
  BY <1>1 DEF Min
<1>3. Min(S) <= k /\ k <= Min(S) /\ k \in Int /\ Min(S) \in Int
  BY <1>1, <1>2
<1> QED BY <1>3

\* The first of three texts that is there.
LEMMA FirstOfThree ==
  ASSUME NEW a, NEW b, NEW c
  PROVE  FirstOf(<<a, b, c>>) = IF a \notin Missing THEN a
                                ELSE IF b \notin Missing THEN b
                                ELSE IF c \notin Missing THEN c ELSE ""
<1> DEFINE texts == <<a, b, c>>
<1> DEFINE there == {i \in 1..3 : texts[i] \notin Missing}
<1>1. Len(texts) = 3 /\ texts[1] = a /\ texts[2] = b /\ texts[3] = c
  OBVIOUS
<1>2. FirstOf(texts) = IF there = {} THEN "" ELSE texts[Min(there)]
  BY <1>1 DEF FirstOf
<1>3. \A i \in 1..3 : i = 1 \/ i = 2 \/ i = 3
  OBVIOUS
<1> HIDE DEF texts
<1>4. there \subseteq Int
  OBVIOUS
<1>5. \A i \in there : i >= 1 /\ (i # 1 => i >= 2) /\ (i # 1 /\ i # 2 => i >= 3)
  OBVIOUS
<1>6. /\ 1 \in there <=> a \notin Missing
      /\ 2 \in there <=> b \notin Missing
      /\ 3 \in there <=> c \notin Missing
  BY <1>1
<1>7. \A i \in there : i = 1 \/ i = 2 \/ i = 3
  BY <1>3
<1> HIDE DEF there
<1>8. CASE a \notin Missing
  <2>1. Min(there) = 1
    BY <1>4, <1>5, <1>6, <1>8, MinIs
  <2>2. there # {}
    BY <1>6, <1>8
  <2> QED BY <1>1, <1>2, <1>8, <2>1, <2>2 DEF texts
<1>9. CASE a \in Missing /\ b \notin Missing
  <2>1. 2 \in there /\ \A i \in there : 2 <= i
    BY <1>5, <1>6, <1>9
  <2>2. Min(there) = 2
    BY <1>4, <2>1, MinIs
  <2> QED BY <1>1, <1>2, <1>9, <2>1, <2>2 DEF texts
<1>10. CASE a \in Missing /\ b \in Missing /\ c \notin Missing
  <2>1. 3 \in there /\ \A i \in there : 3 <= i
    BY <1>5, <1>6, <1>10
  <2>2. Min(there) = 3
    BY <1>4, <2>1, MinIs
  <2> QED BY <1>1, <1>2, <1>10, <2>1, <2>2 DEF texts
<1>11. CASE a \in Missing /\ b \in Missing /\ c \in Missing
  <2>1. there = {}
    BY <1>6, <1>7, <1>11
  <2> QED BY <1>2, <1>11, <2>1 DEF texts
<1> QED BY <1>8, <1>9, <1>10, <1>11

\* A reply carries the id it is for where the hub echoes ids, and none
\* otherwise.
LEMMA ReplyIdIs ==
  ASSUME NEW frame, NEW id, id \notin Missing, echo \in {"context", "session", "data", "nowhere"},
         frame.context = Ids(id, "context"), frame.session = Ids(id, "session"),
         frame.data = Ids(id, "data")
  PROVE  ReplyId(frame) = IF echo = "nowhere" THEN NoId ELSE id
<1> DEFINE F(a, b, c) == FirstOf(<<a, b, c>>)
<1>0. \A a, b, c : F(a, b, c) = IF a \notin Missing THEN a
                               ELSE IF b \notin Missing THEN b
                               ELSE IF c \notin Missing THEN c ELSE ""
  BY FirstOfThree
<1> HIDE DEF F
<1>m. "absent" \in Missing /\ "" \in Missing
  BY DEF Missing
<1>1. /\ F("absent", id, "absent") = id
      /\ F("", "absent", "absent") = ""
  BY <1>0, <1>m
<1>2. \A place : Ids(id, place) # <<>> /\ FirstOf(Ids(id, place)) = IF echo = place THEN id ELSE ""
  BY <1>1 DEF Ids, F
<1> DEFINE At(place) == IF echo = place THEN id ELSE ""
<1>3. ReplyId(frame) = F(At("context"), At("session"), At("data"))
  BY <1>2 DEF ReplyId, F
<1>4. CASE echo = "context"
  <2>1. At("context") = id
    BY <1>4
  <2> HIDE DEF At
  <2>2. F(At("context"), At("session"), At("data")) = id
    BY <1>0, <2>1
  <2> QED BY <1>3, <1>4, <2>2
<1>5. CASE echo = "session"
  <2>1. At("context") = "" /\ At("session") = id
    BY <1>5
  <2> HIDE DEF At
  <2>2. F(At("context"), At("session"), At("data")) = id
    BY <1>0, <1>m, <2>1
  <2> QED BY <1>3, <1>5, <2>2
<1>6. CASE echo = "data"
  <2>1. At("context") = "" /\ At("session") = "" /\ At("data") = id
    BY <1>6
  <2> HIDE DEF At
  <2>2. F(At("context"), At("session"), At("data")) = id
    BY <1>0, <1>m, <2>1
  <2> QED BY <1>3, <1>6, <2>2
<1>7. CASE echo = "nowhere"
  <2>1. At("context") = "" /\ At("session") = "" /\ At("data") = ""
    BY <1>7
  <2> HIDE DEF At
  <2>2. F(At("context"), At("session"), At("data")) = ""
    BY <1>0, <1>m, <2>1
  <2> QED BY <1>3, <1>7, <2>2 DEF NoId
<1> QED BY <1>4, <1>5, <1>6, <1>7

\* The rows of a finite set of registrations are just these.
LEMMA ObjectsAre ==
  ASSUME NEW S, IsFiniteSet(S)
  PROVE  /\ Len(Objects(S)) \in Nat
         /\ Objects(S) = [i \in 1..Len(Objects(S)) |-> Objects(S)[i]]
         /\ \A i \in 1..Len(Objects(S)) : \E r \in S : Objects(S)[i] = Object(r)
         /\ \A r \in S : \E i \in 1..Len(Objects(S)) : Objects(S)[i] = Object(r)
<1> DEFINE n == Cardinality(S)
<1> DEFINE order == SetToSeq(S)
<1>1. n \in Nat /\ ExistsBijection(1..n, S)
  BY FS_CardinalityType
<1>2. PICK f : f \in Bijection(1..n, S)
  BY <1>1 DEF ExistsBijection
<1> HIDE DEF n
<1>3. f \in [1..n -> S] /\ IsInjective(f)
  <2>1. f \in [1..n -> S] /\ \A a, b \in 1..n : f[a] = f[b] => a = b
    BY <1>2, Fun_BijectionProperties
  <2> QED BY <2>1 DEF IsInjective
<1>4. order \in [1..n -> S] /\ IsInjective(order)
  BY <1>3 DEF SetToSeq, n
<1>5. order \in Injection(1..n, S)
  BY <1>4, Fun_IsInj DEF IsInjective
<1>6. IsFiniteSet(1..n) /\ Cardinality(1..n) = n
  BY <1>1, FS_Interval DEF n
<1>7. order \in Surjection(1..n, S)
  BY <1>5, <1>6, FS_Injection DEF n
<1>8. \A r \in S : \E i \in 1..n : order[i] = r
  <2> HIDE DEF order
  <2> QED BY <1>7 DEF Surjection
<1>9. order \in Seq(S) /\ Len(order) = n
  <2> HIDE DEF order
  <2>1. n \in Nat
    BY <1>1 DEF n
  <2> QED BY <2>1, <1>4
<1>10. Objects(S) = [i \in 1..n |-> Object(order[i])]
  BY <1>9 DEF Objects
<1> HIDE DEF order
<1> DEFINE T == {Object(r) : r \in S}
<1>11. Objects(S) \in Seq(T) /\ Len(Objects(S)) = n
  <2>1. \A i \in 1..n : Object(order[i]) \in T
    BY <1>4
  <2> QED BY <1>1, <1>10, <2>1
<1>12. \A i \in 1..n : Objects(S)[i] = Object(order[i]) /\ order[i] \in S
  BY <1>4, <1>10
<1> QED BY <1>1, <1>8, <1>10, <1>11, <1>12

\* What an answer of the hub lists for a query: rows of the registrations it
\* wants, and what a walker passes over or cannot read.
ListsOf(items, S) ==
  /\ Len(items) \in Nat
  /\ \A i \in 1..Len(items) :
       \/ Fill(items[i]) \in {"skip", "error"}
       \/ \E r \in S : items[i].intent = r.intent /\ items[i].lang = r.lang
ListsAll(items, S) ==
  /\ ListsOf(items, S)
  /\ \A r \in S : \E i \in 1..Len(items) :
       Fill(items[i]) = "named" /\ items[i].intent = r.intent /\ items[i].lang = r.lang

\* Two rows before a list.
LEMMA OneAfterOther ==
  ASSUME NEW T, NEW a \in Seq(T), NEW b \in Seq(T), Len(a) = 2
  PROVE  /\ Len(a \o b) = Len(b) + 2
         /\ \A i \in 1..Len(b) + 2 : (a \o b)[i] = IF i <= 2 THEN a[i] ELSE b[i - 2]
<1> DEFINE c == a \o b
<1>1. /\ Len(c) = 2 + Len(b)
      /\ \A i \in 1..2 + Len(b) : c[i] = IF i <= 2 THEN a[i] ELSE b[i - 2]
  <2>1. /\ Len(c) = Len(a) + Len(b)
        /\ \A i \in 1..Len(a) + Len(b) : c[i] = IF i <= Len(a) THEN a[i] ELSE b[i - Len(a)]
    BY ConcatProperties
  <2> HIDE DEF c
  <2> QED BY <2>1
<1> HIDE DEF c
<1>2. Len(b) \in Nat
  OBVIOUS
<1>3. 2 + Len(b) = Len(b) + 2
  BY <1>2
<1> QED BY <1>1, <1>3 DEF c

\* A registration's row is read, as that registration.
LEMMA ObjectIsNamed ==
  ASSUME NEW r \in Registration
  PROVE  Fill(Object(r)) = "named" /\ Object(r).intent = r.intent /\ Object(r).lang = r.lang
<1>1. r.intent \in Intent
  BY DEF Registration
<1>2. r.intent \notin Missing /\ r.intent # "overlong"
  BY <1>1, InventoryAssumption
<1>3. "skill" \notin Missing
  BY DEF Missing
<1>4. /\ Object(r).form = "object" /\ Object(r).skill = "skill" /\ Object(r).rest = TRUE
      /\ Object(r).intent = r.intent /\ Object(r).lang = r.lang
  BY DEF Object
<1> QED BY <1>2, <1>3, <1>4 DEF Fill

\* Padding is passed over, and what cannot be read stops a walker.
LEMMA OthersAreNot ==
  /\ Len(Padding) = 2 /\ \A i \in 1..2 : Fill(Padding[i]) = "skip"
  /\ \A bad \in Unreadable : Fill(bad) = "error"
<1> DEFINE some == Some
<1>1. /\ some = [form |-> "object", skill |-> "skill", intent |-> "some", lang |-> "some", rest |-> TRUE]
  BY DEF Some, Object
<1>2. "skill" \notin Missing /\ "some" \notin Missing /\ "absent" \in Missing /\ "overlong" \notin Missing
  BY DEF Missing
<1> HIDE DEF some
<1>3. Fill([some EXCEPT !.form = "value"]) = "skip"
  BY <1>1, <1>2 DEF Fill
<1>4. Fill([some EXCEPT !.intent = "absent"]) = "skip"
  BY <1>1, <1>2 DEF Fill
<1>5. Len(Padding) = 2 /\ Padding[1] = [some EXCEPT !.form = "value"]
      /\ Padding[2] = [some EXCEPT !.intent = "absent"]
  BY DEF Padding, some
<1>6. \A i \in 1..2 : i = 1 \/ i = 2
  OBVIOUS
<1>7. /\ Fill([some EXCEPT !.form = "malformed"]) = "error"
      /\ Fill([some EXCEPT !.skill = "overlong"]) = "error"
      /\ Fill([some EXCEPT !.rest = FALSE]) = "error"
  BY <1>1, <1>2 DEF Fill
<1>8. \A bad \in Unreadable : Fill(bad) = "error"
  <2>1. \A bad \in Unreadable : \/ bad = [some EXCEPT !.form = "malformed"]
                                \/ bad = [some EXCEPT !.skill = "overlong"]
                                \/ bad = [some EXCEPT !.rest = FALSE]
    BY DEF Unreadable, some
  <2> QED BY <1>7, <2>1
<1> QED BY <1>3, <1>4, <1>5, <1>6, <1>8

\* The three lists the hub answers with.
LEMMA ItemsAre ==
  ASSUME NEW S, IsFiniteSet(S), S \subseteq Registration
  PROVE  /\ ListsAll(Objects(S), S)
         /\ ListsAll(Padding \o Objects(S), S)
         /\ \A bad \in Unreadable : ListsOf(Objects(S) \o <<bad>>, S)
                                    /\ \E i \in 1..Len(Objects(S) \o <<bad>>) :
                                         Fill((Objects(S) \o <<bad>>)[i]) = "error"
<1> DEFINE q == Objects(S)
<1> DEFINE n == Len(q)
<1>1. /\ n \in Nat /\ q = [i \in 1..n |-> q[i]]
      /\ \A i \in 1..n : \E r \in S : q[i] = Object(r)
      /\ \A r \in S : \E i \in 1..n : q[i] = Object(r)
  BY ObjectsAre
<1>2. \A r \in S : Fill(Object(r)) = "named" /\ Object(r).intent = r.intent /\ Object(r).lang = r.lang
  BY ObjectIsNamed
<1> HIDE DEF q
<1>3. ListsAll(q, S)
  BY <1>1, <1>2 DEF ListsAll, ListsOf
<1>4. ListsAll(Padding \o q, S)
  <2>1. /\ Len(Padding) = 2 /\ Padding[1].form = "value" /\ \A i \in 1..2 : Fill(Padding[i]) = "skip"
    BY OthersAreNot DEF Padding, Some, Object
  <2> DEFINE T == {q[i] : i \in 1..n} \cup {Padding[1], Padding[2]}
  <2>2. q \in Seq(T) /\ Padding \in Seq(T)
    <3>1. q \in Seq(T)
      BY <1>1
    <3>2. Padding = <<Padding[1], Padding[2]>>
      BY DEF Padding
    <3>3. Padding[1] \in T /\ Padding[2] \in T
      OBVIOUS
    <3> HIDE DEF T
    <3>4. \A a, b \in T : <<a, b>> \in Seq(T)
      OBVIOUS
    <3> QED BY <3>1, <3>2, <3>3, <3>4
  <2> HIDE DEF T
  <2> DEFINE all == Padding \o q
  <2>3. /\ Len(all) = n + 2
        /\ \A i \in 1..n + 2 : all[i] = IF i <= 2 THEN Padding[i] ELSE q[i - 2]
    BY <2>1, <2>2, OneAfterOther
  <2> HIDE DEF all
  <2>4. \A i \in 1..n + 2 : i \in 1..2 \/ (~(i <= 2) /\ i - 2 \in 1..n)
    <3>1. PICK m \in Nat : m = n
      BY <1>1
    <3>2. \A i \in 1..m + 2 : i \in 1..2 \/ (~(i <= 2) /\ i - 2 \in 1..m)
      OBVIOUS
    <3> QED BY <3>1, <3>2
  <2>5. ListsOf(all, S)
    <3>1. ASSUME NEW i \in 1..n + 2
          PROVE  \/ Fill(all[i]) \in {"skip", "error"}
                 \/ \E r \in S : all[i].intent = r.intent /\ all[i].lang = r.lang
      <4>1. CASE i \in 1..2
        BY <2>1, <2>3, <4>1
      <4>2. CASE ~(i <= 2) /\ i - 2 \in 1..n
        <5>1. PICK r \in S : q[i - 2] = Object(r)
          BY <1>1, <4>2
        <5>2. all[i] = Object(r)
          BY <2>3, <4>2, <5>1
        <5> QED BY <1>2, <5>2
      <4> QED BY <2>4, <4>1, <4>2
    <3>2. n + 2 \in Nat
      BY <1>1
    <3> QED BY <2>3, <3>1, <3>2 DEF ListsOf
  <2>6. ASSUME NEW r \in S
        PROVE  \E i \in 1..Len(all) : /\ Fill(all[i]) = "named" /\ all[i].intent = r.intent
                                      /\ all[i].lang = r.lang
    <3>1. PICK i \in 1..n : q[i] = Object(r)
      BY <1>1
    <3>2. i + 2 \in 1..n + 2 /\ ~(i + 2 <= 2) /\ i + 2 - 2 = i
      BY <1>1
    <3>3. all[i + 2] = Object(r)
      BY <2>3, <3>1, <3>2
    <3> QED BY <1>2, <2>3, <3>2, <3>3
  <2>7. ListsAll(all, S)
    BY <2>5, <2>6 DEF ListsAll
  <2> QED BY <2>7 DEF all
<1>5. ASSUME NEW bad \in Unreadable
      PROVE  /\ ListsOf(q \o <<bad>>, S)
             /\ \E i \in 1..Len(q \o <<bad>>) : Fill((q \o <<bad>>)[i]) = "error"
  <2>1. Fill(bad) = "error"
    BY OthersAreNot
  <2> DEFINE T == {q[i] : i \in 1..n} \cup {bad}
  <2>2. q \in Seq(T) /\ <<bad>> \in Seq(T)
    BY <1>1
  <2> HIDE DEF T
  <2> DEFINE all == q \o <<bad>>
  <2>3. /\ Len(all) = n + 1
        /\ \A i \in 1..n + 1 : all[i] = IF i <= n THEN q[i] ELSE bad
    BY <2>2, <1>1
  <2> HIDE DEF all
  <2>4. \A i \in 1..n + 1 : (i <= n /\ i \in 1..n) \/ ~(i <= n)
    BY <1>1
  <2>5. ASSUME NEW i \in 1..n + 1
        PROVE  \/ Fill(all[i]) \in {"skip", "error"}
               \/ \E r \in S : all[i].intent = r.intent /\ all[i].lang = r.lang
    <3>1. CASE i <= n /\ i \in 1..n
      <4>1. PICK r \in S : q[i] = Object(r)
        BY <1>1, <3>1
      <4>2. all[i] = Object(r)
        BY <2>3, <3>1, <4>1
      <4> QED BY <1>2, <4>2
    <3>2. CASE ~(i <= n)
      BY <2>1, <2>3, <3>2
    <3> QED BY <2>4, <3>1, <3>2
  <2>6. n + 1 \in Nat /\ n + 1 \in 1..n + 1 /\ ~(n + 1 <= n)
    BY <1>1
  <2>7. all[n + 1] = bad
    BY <2>3, <2>6
  <2>8. ListsOf(all, S) /\ \E i \in 1..Len(all) : Fill(all[i]) = "error"
    BY <2>1, <2>3, <2>5, <2>6, <2>7 DEF ListsOf
  <2> QED BY <2>8 DEF all
<1> QED BY <1>3, <1>4, <1>5 DEF q

\* What the hub answers a query with.
IsAnswer(frame, id, q) ==
  /\ frame.for = id /\ frame.name = ResponseType(q.kind)
  /\ ReplyId(frame) = IF echo = "nowhere" THEN NoId ELSE id
  /\ frame.ok \in BOOLEAN /\ ListsOf(frame.items, Wanted(q))
  /\ frame.ok = TRUE => /\ frame.list = TRUE
                        /\ \/ ListsAll(frame.items, Wanted(q))
                           \/ \E i \in 1..Len(frame.items) : Fill(frame.items[i]) = "error"
LEMMA AnswerIs ==
  ASSUME NEW id, id \notin Missing, echo \in {"context", "session", "data", "nowhere"},
         NEW q, IsFiniteSet(Wanted(q)), Wanted(q) \subseteq Registration,
         NEW frame \in Answers(id, q)
  PROVE  IsAnswer(frame, id, q)
<1> DEFINE name == ResponseType(q.kind)
<1> DEFINE S == Wanted(q)
<1> DEFINE base == Reply(id, name)
<1> DEFINE answer(list) == [base EXCEPT !.list = TRUE, !.items = list]
<1>1. /\ base.for = id /\ base.name = name /\ base.ok = TRUE /\ base.items = <<>>
      /\ base.context = Ids(id, "context") /\ base.session = Ids(id, "session")
      /\ base.data = Ids(id, "data")
      /\ {"list", "items", "ok", "fits"} \subseteq DOMAIN base
  BY DEF Reply
<1>2. \A list : LET a == answer(list)
                IN /\ a.for = id /\ a.name = name /\ a.ok = TRUE /\ a.list = TRUE /\ a.items = list
                   /\ a.context = base.context /\ a.session = base.session /\ a.data = base.data
  BY DEF Reply
<1>3. \A fits : LET a == [base EXCEPT !.ok = FALSE, !.fits = fits]
                IN /\ a.for = id /\ a.name = name /\ a.ok = FALSE /\ a.items = <<>>
                   /\ a.context = base.context /\ a.session = base.session /\ a.data = base.data
  BY DEF Reply
<1>4. \/ frame = answer(Objects(S)) \/ frame = answer(Padding \o Objects(S))
      \/ \E bad \in Unreadable : frame = answer(Objects(S) \o <<bad>>)
      \/ \E fits \in BOOLEAN : frame = [base EXCEPT !.ok = FALSE, !.fits = fits]
  BY DEF Answers
<1> HIDE DEF base
<1>5. ASSUME NEW list, frame = answer(list),
             \/ ListsAll(list, S)
             \/ ListsOf(list, S) /\ \E i \in 1..Len(list) : Fill(list[i]) = "error"
      PROVE  IsAnswer(frame, id, q)
  <2>1. /\ frame.for = id /\ frame.name = name /\ frame.ok = TRUE /\ frame.list = TRUE
        /\ frame.items = list
        /\ frame.context = base.context /\ frame.session = base.session /\ frame.data = base.data
    BY <1>2, <1>5
  <2>2. ReplyId(frame) = IF echo = "nowhere" THEN NoId ELSE id
    BY <1>1, <2>1, ReplyIdIs
  <2>3. ListsOf(list, S)
    BY <1>5 DEF ListsAll
  <2> QED BY <1>5, <2>1, <2>2, <2>3 DEF IsAnswer
<1>6. ASSUME NEW fits \in BOOLEAN, frame = [base EXCEPT !.ok = FALSE, !.fits = fits]
      PROVE  IsAnswer(frame, id, q)
  <2>1. /\ frame.for = id /\ frame.name = name /\ frame.ok = FALSE
        /\ frame.items = <<>>
        /\ frame.context = base.context /\ frame.session = base.session /\ frame.data = base.data
    BY <1>3, <1>6
  <2>2. ReplyId(frame) = IF echo = "nowhere" THEN NoId ELSE id
    BY <1>1, <2>1, ReplyIdIs
  <2>3. ListsOf(<<>>, S)
    BY DEF ListsOf
  <2> QED BY <2>1, <2>2, <2>3 DEF IsAnswer
<1> HIDE DEF answer
<1>7. /\ ListsAll(Objects(S), S) /\ ListsAll(Padding \o Objects(S), S)
      /\ \A bad \in Unreadable : ListsOf(Objects(S) \o <<bad>>, S)
                                 /\ \E i \in 1..Len(Objects(S) \o <<bad>>) :
                                      Fill((Objects(S) \o <<bad>>)[i]) = "error"
  BY ItemsAre
<1> HIDE DEF S
<1> QED BY <1>4, <1>5, <1>6, <1>7

\* And what it denies one with.
IsDenial(frame, id, type) ==
  /\ frame.for = id /\ frame.name = "hive.policy.denied" /\ frame.denied = type
  /\ ReplyId(frame) = IF echo = "nowhere" THEN NoId ELSE id
LEMMA DenialIs ==
  ASSUME NEW id, id \notin Missing, echo \in {"context", "session", "data", "nowhere"},
         NEW type, NEW frame \in Denials(id, type)
  PROVE  IsDenial(frame, id, type)
<1>1. PICK allowed \in AllowLists :
        frame = [Reply(id, "hive.policy.denied") EXCEPT !.denied = type, !.allowed = allowed]
  BY DEF Denials
<1>2. /\ frame.for = id /\ frame.name = "hive.policy.denied" /\ frame.denied = type
      /\ frame.context = Ids(id, "context") /\ frame.session = Ids(id, "session")
      /\ frame.data = Ids(id, "data")
  BY <1>1 DEF Reply
<1> QED BY <1>2, ReplyIdIs DEF IsDenial

\* Whatever else is on the wire is no reply to a query of this application.
LEMMA ForeignIs ==
  ASSUME echo \in {"context", "session", "data", "nowhere"}, NEW frame \in Foreign
  PROVE  /\ frame.for = "other"
         /\ echo = "nowhere" =>
              \/ frame.form \in {"another", "malformed"}
              \/ frame.name = "hive.policy.denied" /\ frame.denied = "recognizer_loop:utterance"
              \/ frame.name = "ovos.skills.list.response"
         /\ ReplyId(frame) = IF echo = "nowhere" THEN NoId ELSE "other"
<1> DEFINE holding(name, items) == [Reply("other", name) EXCEPT !.list = TRUE, !.items = items]
<1> DEFINE listing == holding("ovos.intent.list.response", <<Some>>)
<1>0. "other" \notin Missing
  BY DEF Missing
<1> DEFINE FromOther(f) == /\ f.for = "other" /\ f.context = Ids("other", "context")
                           /\ f.session = Ids("other", "session") /\ f.data = Ids("other", "data")
<1>1. \A name, items : FromOther(holding(name, items)) /\ holding(name, items).name = name
  BY DEF Reply
<1>2. \A form : /\ FromOther([listing EXCEPT !.form = form])
                /\ [listing EXCEPT !.form = form].form = form
  BY DEF Reply
<1>3. ASSUME FromOther(frame) PROVE ReplyId(frame) = IF echo = "nowhere" THEN NoId ELSE "other"
  BY <1>0, <1>3, ReplyIdIs
<1>4. \/ frame \in Denials("other", "recognizer_loop:utterance")
      \/ \E form \in {"another", "malformed"} : frame = [listing EXCEPT !.form = form]
      \/ \E items : frame = holding("ovos.skills.list.response", items)
      \/ echo # "nowhere" /\ frame = listing
  BY DEF Foreign
<1>5. CASE frame \in Denials("other", "recognizer_loop:utterance")
  <2>1. IsDenial(frame, "other", "recognizer_loop:utterance")
    BY <1>0, <1>5, DenialIs
  <2> QED BY <2>1 DEF IsDenial
<1>6. CASE \E form \in {"another", "malformed"} : frame = [listing EXCEPT !.form = form]
  <2> HIDE DEF listing
  <2>1. FromOther(frame) /\ frame.form \in {"another", "malformed"}
    BY <1>2, <1>6
  <2> QED BY <1>3, <2>1
<1>7. CASE \E items : frame = holding("ovos.skills.list.response", items)
  <2>1. FromOther(frame) /\ frame.name = "ovos.skills.list.response"
    BY <1>1, <1>7
  <2> QED BY <1>3, <2>1
<1>8. CASE echo # "nowhere" /\ frame = listing
  <2>1. FromOther(frame)
    BY <1>1, <1>8
  <2> QED BY <1>3, <1>8, <2>1
<1> QED BY <1>4, <1>5, <1>6, <1>7, <1>8

\* An event that is taken says what its frame does.
LEMMA EventIs ==
  ASSUME NEW frame, NEW own, NEW event, event = Classify(frame, own),
         event.rc = "OK", event.kind # "IGNORE"
  PROVE  /\ event.kind = KindOf(frame.name) /\ event.id = ReplyId(frame)
         /\ frame.form \notin {"another", "malformed"}
         /\ event.kind = "DENIED" => event.denied = frame.denied
         /\ event.kind \in {"LIST", "DESCRIBE"} =>
              event.ok = frame.ok /\ event.items = IF frame.list THEN frame.items ELSE <<>>
         /\ own # NoId => ReplyId(frame) \in {NoId, own}
<1> DEFINE kind == KindOf(frame.name)
<1> DEFINE id == ReplyId(frame)
<1>1. \A code : Refused(code).kind = "IGNORE"
  BY DEF Refused, Ignored
<1>2. Ignored.kind = "IGNORE"
  BY DEF Ignored
<1>3. /\ event = Classified(frame, kind, id) /\ frame.form \notin {"another", "malformed"}
      /\ own # NoId => id \in {NoId, own}
  BY <1>1, <1>2 DEF Classify
<1> DEFINE said == Described(frame, kind, id)
<1>4. said.kind = kind /\ said.id = id /\ said.rc = "OK"
      /\ {"ok", "list", "items", "denied", "types", "allowed", "kind", "id"} \subseteq DOMAIN said
  BY DEF Described, Ignored
<1> DEFINE counted == WalkAllowed(frame.allowed, TRUE)
<1> DEFINE e1 == [said EXCEPT !.ok = FALSE, !.denied = frame.denied,
                              !.types = counted.types, !.allowed = frame.allowed]
<1> DEFINE e2 == [said EXCEPT !.ok = FALSE, !.denied = frame.denied]
<1> DEFINE e3 == [said EXCEPT !.ok = frame.ok, !.list = frame.list,
                              !.items = IF frame.list THEN frame.items ELSE <<>>]
<1>5. \/ kind = "DENIED" /\ (event = e1 \/ event = e2)
      \/ kind # "DENIED" /\ event = e3
  BY <1>1, <1>3 DEF Classified
<1>6. /\ e1.kind = kind /\ e1.id = id /\ e1.denied = frame.denied
      /\ e2.kind = kind /\ e2.id = id /\ e2.denied = frame.denied
      /\ e3.kind = kind /\ e3.id = id /\ e3.ok = frame.ok
      /\ e3.items = IF frame.list THEN frame.items ELSE <<>>
  BY DEF Described, Ignored
<1> HIDE DEF e1, e2, e3
<1> QED BY <1>3, <1>5, <1>6

\* What a walker delivers of a list is what the list holds.
LEMMA DeliveredIs ==
  ASSUME NEW event, NEW q, NEW S, S \subseteq Registration, ListsOf(event.items, S)
  PROVE  /\ Delivered(event, q) \subseteq S
         /\ Delivered(event, q) # {} => Entry(event, ReplyKind(q)) = "OK"
<1> DEFINE walk == Walk(event, ReplyKind(q))
<1>1. /\ walk.delivered \subseteq {i \in 1..Len(event.items) : Fill(event.items[i]) = "named"}
      /\ walk.delivered # {} => Entry(event, ReplyKind(q)) = "OK"
  BY DEF Walk
<1> HIDE DEF walk
<1>2. Delivered(event, q) = {[intent |-> event.items[i].intent, lang |-> event.items[i].lang] :
                               i \in walk.delivered}
  BY DEF Delivered, walk
<1>3. \A r \in S : [intent |-> r.intent, lang |-> r.lang] = r
  BY DEF Registration
<1>4. ASSUME NEW i \in walk.delivered
      PROVE  [intent |-> event.items[i].intent, lang |-> event.items[i].lang] \in S
  <2>1. i \in 1..Len(event.items) /\ Fill(event.items[i]) = "named"
    BY <1>1
  <2>2. PICK r \in S : event.items[i].intent = r.intent /\ event.items[i].lang = r.lang
    BY <2>1 DEF ListsOf
  <2> QED BY <1>3, <2>2
<1> QED BY <1>1, <1>2, <1>4

\* A list that counts as known was read to its end.
LEMMA KnownIs ==
  ASSUME NEW event, NEW q, NEW S, S \subseteq Registration, q.kind # "describe",
         event.ok \in BOOLEAN, Outcome(event, q) = "known",
         event.ok = TRUE => \/ ListsAll(event.items, S)
                            \/ \E i \in 1..Len(event.items) : Fill(event.items[i]) = "error"
  PROVE  Delivered(event, q) = S
<1> DEFINE walk == Walk(event, "LIST")
<1> DEFINE stops == WalkStop(event.items)
<1>1. walk.rc = "OK" /\ ReplyKind(q) = "LIST"
  BY DEF Outcome, ReplyKind
<1>2. Entry(event, "LIST") = "OK"
  BY <1>1 DEF Walk
<1>3. event.kind = "LIST" /\ event.ok = TRUE
  BY <1>2 DEF Entry
<1>4. stops = {}
  BY <1>1, <1>2, <1>3 DEF Walk
<1>5. \A i \in 1..Len(event.items) : Fill(event.items[i]) # "error"
  BY <1>4 DEF WalkStop
<1>6. ListsAll(event.items, S)
  BY <1>3, <1>5
<1>7. walk.delivered = {i \in 1..Len(event.items) : Fill(event.items[i]) = "named"}
  BY <1>2, <1>3, <1>4 DEF Walk
<1> HIDE DEF walk
<1>8. Delivered(event, q) = {[intent |-> event.items[i].intent, lang |-> event.items[i].lang] :
                               i \in walk.delivered}
  BY <1>1 DEF Delivered, walk
<1>9. \A r \in S : [intent |-> r.intent, lang |-> r.lang] = r
  BY DEF Registration
<1>10. ASSUME NEW r \in S PROVE r \in Delivered(event, q)
  <2>1. PICK i \in 1..Len(event.items) :
          Fill(event.items[i]) = "named" /\ event.items[i].intent = r.intent /\ event.items[i].lang = r.lang
    BY <1>6 DEF ListsAll
  <2>2. i \in walk.delivered
    BY <1>7, <2>1
  <2>3. r = [intent |-> event.items[i].intent, lang |-> event.items[i].lang]
    BY <1>9, <2>1
  <2> QED BY <1>8, <2>2, <2>3
<1>11. Delivered(event, q) \subseteq S
  BY <1>6, DeliveredIs DEF ListsAll
<1> QED BY <1>10, <1>11

\* The ids of queries are read as ids, and are not another's.
LEMMA IdsAre ==
  /\ \A id \in Id : id \notin Missing /\ id # NoId /\ id # "other"
  /\ "listing" \in Id /\ "all" \in Id /\ "listing" # "all" /\ "listing" \notin DescribeIds
  /\ "all" \notin DescribeIds
  /\ \A id \in Id : id = "listing" \/ id = "all" \/ id \in DescribeIds
<1>1. "listing" \notin Missing /\ "all" \notin Missing /\ "" \in Missing
  BY DEF Missing
<1>2. \A id \in DescribeIds : id \notin Missing /\ id \notin {"listing", "all", "other"}
  BY InventoryAssumption
<1> QED BY <1>1, <1>2 DEF Id, NoId

\* The registrations a query asks about.
LEMMA WantedIs ==
  ASSUME QueriesOK, NEW id \in Id, Asked(id)
  PROVE  LET q == query[id] IN
         /\ IsFiniteSet(Wanted(q)) /\ Wanted(q) \subseteq Registration /\ Wanted(q) \subseteq catalogue
         /\ id = "all" => Wanted(q) = catalogue
         /\ id = "listing" =>
              Wanted(q) = {r \in catalogue : r.lang = IF q.lang = "absent" THEN "en-us" ELSE q.lang}
         /\ id \in DescribeIds => Wanted(q) \subseteq {[intent |-> q.intent, lang |-> q.lang]}
         /\ (q.kind = "describe") <=> (id \in DescribeIds)
<1> DEFINE q == query[id]
<1>1. catalogue \subseteq Registration /\ IsFiniteSet(catalogue)
  BY InventoryAssumption DEF QueriesOK
<1>2. Wanted(q) \subseteq catalogue
  BY DEF Wanted
<1>3. IsFiniteSet(Wanted(q))
  BY <1>1, <1>2, FS_Subset
<1>4. QueryOf(id, q)
  BY DEF QueriesOK
<1>5. q.langs = QueryLangs(q.kind, q.lang)
  BY <1>4 DEF QueryOf
<1>6. \A said : said \notin Missing => FirstOf(<<said, said, said>>) = said
  BY FirstOfThree
<1>7. FirstOf(<<"absent", "absent", "absent">>) = ""
  <2>1. "absent" \in Missing
    BY DEF Missing
  <2> QED BY <2>1, FirstOfThree
<1> HIDE DEF q
<1>8. ASSUME id = "all" PROVE Wanted(q) = catalogue /\ q.kind = "list_all"
  <2>1. q.kind = "list_all"
    BY <1>4, <1>8 DEF QueryOf
  <2>2. FirstOf(q.langs) = ""
    BY <1>5, <1>7, <2>1 DEF QueryLangs
  <2> QED BY <2>1, <2>2 DEF Wanted
<1> DEFINE said == IF q.lang = "absent" THEN "en-us" ELSE q.lang
<1>9. ASSUME id = "listing" PROVE Wanted(q) = {r \in catalogue : r.lang = said} /\ q.kind = "list"
  <2>1. q.kind = "list" /\ q.lang \in Tongue \cup {"absent"}
    BY <1>4, <1>9 DEF QueryOf
  <2>2. said \notin Missing /\ said # ""
    BY <2>1, InventoryAssumption DEF Missing
  <2>3. FirstOf(q.langs) = said
    BY <1>5, <1>6, <2>1, <2>2 DEF QueryLangs
  <2> HIDE DEF said
  <2> QED BY <2>1, <2>2, <2>3 DEF Wanted
<1>10. ASSUME id \in DescribeIds
       PROVE  Wanted(q) \subseteq {[intent |-> q.intent, lang |-> q.lang]} /\ q.kind = "describe"
  <2>1. q.kind = "describe" /\ q.lang \in Tongue
    BY <1>4, <1>10 DEF QueryOf
  <2>2. q.lang \notin Missing /\ q.lang # "absent" /\ q.lang # ""
    BY <2>1, InventoryAssumption DEF Missing
  <2>3. FirstOf(q.langs) = q.lang
    BY <1>5, <1>6, <2>1, <2>2 DEF QueryLangs
  <2>4. \A r \in Wanted(q) : r.intent = q.intent /\ r.lang = q.lang
    BY <2>1, <2>2, <2>3 DEF Wanted
  <2>5. \A r \in Wanted(q) : r = [intent |-> r.intent, lang |-> r.lang]
    BY <1>1, <1>2 DEF Registration
  <2> QED BY <2>1, <2>4, <2>5
<1> QED BY <1>1, <1>2, <1>3, <1>8, <1>9, <1>10, IdsAre DEF q

\* Frames on the wire, by the query they are for.
LEMMA SentIs ==
  ASSUME QueriesOK, NEW id \in Id, NEW frame, Sent(frame, id)
  PROVE  /\ IsAnswer(frame, id, query[id]) \/ IsDenial(frame, id, EventType(query[id].kind))
         /\ frame.for = id /\ ReplyId(frame) = IF echo = "nowhere" THEN NoId ELSE id
<1>1. id \notin Missing /\ echo \in {"context", "session", "data", "nowhere"}
  BY IdsAre DEF QueriesOK
<1>2. IsFiniteSet(Wanted(query[id])) /\ Wanted(query[id]) \subseteq Registration
  BY WantedIs DEF Sent
<1>3. IsAnswer(frame, id, query[id]) \/ IsDenial(frame, id, EventType(query[id].kind))
  BY <1>1, <1>2, AnswerIs, DenialIs DEF Sent
<1> QED BY <1>3 DEF IsAnswer, IsDenial

-----------------------------------------------------------------------------
(* Whose reply is taken for whose. *)

\* What a query takes is its own answer, or a denial of the type it sent.
LEMMA TakenIsOwn ==
  ASSUME IInv, NEW frame \in wire, NEW id \in Id, Takes(frame, id)
  PROVE  \E other \in Id :
           /\ Sent(frame, other)
           /\ \/ other = id /\ IsAnswer(frame, id, query[id])
              \/ /\ IsDenial(frame, other, EventType(query[other].kind))
                 /\ EventType(query[other].kind) = EventType(query[id].kind)
<1> DEFINE event == Classify(frame, id)
<1> DEFINE q == query[id]
<1>1. QueriesOK /\ WireOK /\ SpentOK
  BY DEF IInv
<1>2. /\ status[id] = "out" /\ event.rc = "OK" /\ event.kind # "IGNORE"
      /\ event.id # NoId \/ Matches(event, q)
  BY DEF Takes
<1>3. id # NoId /\ id # "other" /\ id \notin Missing
  BY IdsAre
<1>4. Asked(id) /\ QueryOf(id, q) /\ echo \in {"context", "session", "data", "nowhere"}
  BY <1>1, <1>2 DEF Asked, QueriesOK
<1> HIDE DEF event, q
<1>5. /\ event.kind = KindOf(frame.name) /\ event.id = ReplyId(frame)
      /\ frame.form \notin {"another", "malformed"}
      /\ event.kind = "DENIED" => event.denied = frame.denied
      /\ event.kind \in {"LIST", "DESCRIBE"} =>
           event.ok = frame.ok /\ event.items = IF frame.list THEN frame.items ELSE <<>>
      /\ ReplyId(frame) \in {NoId, id}
  BY <1>2, <1>3, EventIs DEF event
<1>6. frame \in Foreign \/ \E other \in Id : Sent(frame, other)
  BY <1>1 DEF WireOK
<1>7. CASE frame \in Foreign
  <2>1. /\ echo = "nowhere" =>
             \/ frame.name = "hive.policy.denied" /\ frame.denied = "recognizer_loop:utterance"
             \/ frame.name = "ovos.skills.list.response"
        /\ ReplyId(frame) = IF echo = "nowhere" THEN NoId ELSE "other"
    BY <1>4, <1>5, <1>7, ForeignIs
  <2>2. echo = "nowhere" /\ event.id = NoId
    BY <1>3, <1>5, <2>1 DEF NoId
  <2>3. CASE frame.name = "hive.policy.denied" /\ frame.denied = "recognizer_loop:utterance"
    <3>1. event.kind = "DENIED" /\ event.denied = "recognizer_loop:utterance"
      BY <1>5, <2>3 DEF KindOf
    <3> QED BY <1>2, <2>2, <3>1 DEF Matches, EventType
  <2>4. CASE frame.name = "ovos.skills.list.response"
    <3>1. event.kind = "SKILLS"
      BY <1>5, <2>4 DEF KindOf
    <3> QED BY <1>2, <2>2, <3>1 DEF Matches
  <2> QED BY <2>1, <2>2, <2>3, <2>4
<1>8. CASE \E other \in Id : Sent(frame, other)
  <2>1. PICK other \in Id : Sent(frame, other)
    BY <1>8
  <2> DEFINE p == query[other]
  <2>2. /\ IsAnswer(frame, other, p) \/ IsDenial(frame, other, EventType(p.kind))
        /\ ReplyId(frame) = IF echo = "nowhere" THEN NoId ELSE other
        /\ frame.for = other
    BY <1>1, <2>1, SentIs
  <2> HIDE DEF p
  <2>3. CASE echo # "nowhere"
    <3>1. other = id
      BY <1>5, <2>2, <2>3, IdsAre
    <3> QED BY <2>1, <2>2, <3>1 DEF p
  <2>4. CASE echo = "nowhere" /\ IsDenial(frame, other, EventType(p.kind))
    <3>1. event.kind = "DENIED" /\ event.denied = EventType(p.kind) /\ event.id = NoId
      BY <1>5, <2>2, <2>4 DEF IsDenial, KindOf
    <3>2. EventType(p.kind) = EventType(q.kind)
      BY <1>2, <3>1 DEF Matches
    <3> QED BY <2>1, <2>4, <3>2 DEF p, q
  <2>5. CASE echo = "nowhere" /\ IsAnswer(frame, other, p)
    <3>1. /\ event.kind = IF p.kind = "describe" THEN "DESCRIBE" ELSE "LIST"
          /\ event.id = NoId
      BY <1>5, <2>2, <2>5 DEF IsAnswer, KindOf, ResponseType
    <3>2. Asked(other)
      BY <2>1 DEF Sent
    <3>3. /\ (q.kind = "describe") <=> (id \in DescribeIds)
          /\ (p.kind = "describe") <=> (other \in DescribeIds)
          /\ Wanted(p) \subseteq Registration
          /\ other \in DescribeIds => Wanted(p) \subseteq {[intent |-> p.intent, lang |-> p.lang]}
      BY <1>1, <1>4, <3>2, WantedIs DEF p, q
    <3>4. CASE p.kind = "describe"
      <4>1. /\ q.kind = "describe"
            /\ [intent |-> q.intent, lang |-> q.lang] \in Delivered(event, q)
        BY <1>2, <3>1, <3>4 DEF Matches
      <4>2. ListsOf(event.items, Wanted(p))
        <5>1. ListsOf(<<>>, Wanted(p))
          BY DEF ListsOf
        <5> QED BY <1>5, <2>5, <3>1, <3>4, <5>1 DEF IsAnswer
      <4>3. [intent |-> q.intent, lang |-> q.lang] = [intent |-> p.intent, lang |-> p.lang]
        BY <3>3, <3>4, <4>1, <4>2, DeliveredIs
      <4>4. q.intent = p.intent /\ q.lang = p.lang
        BY <4>3
      <4>5. other = id
        BY <1>1, <1>4, <3>2, <3>3, <3>4, <4>1, <4>4 DEF QueriesOK, p, q
      <4> QED BY <2>1, <2>5, <4>5 DEF p
    <3>5. CASE p.kind # "describe"
      <4>1. q.kind # "describe"
        BY <1>2, <3>1, <3>5 DEF Matches
      <4>2. id \in Lists /\ other \in Lists
        BY <3>3, <3>5, <4>1, IdsAre DEF Lists
      <4>3. CASE id = other
        BY <2>1, <2>5, <4>3 DEF p
      <4>4. CASE id # other
        <5>1. Asked("all")
          BY <1>4, <3>2, <4>2, <4>4 DEF Lists
        <5>2. status["listing"] = "known"
          BY <1>1, <5>1 DEF QueriesOK
        <5>3. id = "all" /\ other = "listing"
          BY <1>2, <4>2, <4>4, <5>2 DEF Lists
        <5>4. Answered("listing")
          BY <1>1, <5>2, IdsAre DEF QueriesOK
        <5>5. origin["listing"] = "listing"
          BY <5>2, <5>4, IdsAre DEF IInv, AnswersAreOwn
        <5>6. frame.for # "listing"
          BY <1>1, <2>5, <5>5, IdsAre DEF SpentOK
        <5> QED BY <2>2, <5>3, <5>6
      <4> QED BY <4>3, <4>4
    <3> QED BY <3>4, <3>5
  <2> QED BY <2>2, <2>3, <2>4, <2>5
<1> QED BY <1>6, <1>7, <1>8

\* What taking it does.
Effect(frame, id) ==
  LET event == Classify(frame, id)
      q == query[id]
  IN /\ frame.for \in Id /\ Asked(frame.for)
     /\ frame.for = id => id \notin inbox
     /\ Delivered(event, q) \subseteq Wanted(q)
     /\ Outcome(event, q) \in {"known", "denied", "refused", "error"}
     /\ frame.for # id => /\ Outcome(event, q) = "denied"
                          /\ EventType(query[frame.for].kind) = EventType(q.kind)
     /\ Outcome(event, q) = "known" /\ q.kind # "describe" => Delivered(event, q) = Wanted(q)
LEMMA TakenHas ==
  ASSUME IInv, NEW frame \in wire, NEW id \in Id, Takes(frame, id)
  PROVE  Effect(frame, id)
<1> DEFINE event == Classify(frame, id)
<1> DEFINE q == query[id]
<1>1. QueriesOK
  BY DEF IInv
<1>2. PICK other \in Id :
        /\ Sent(frame, other)
        /\ \/ other = id /\ IsAnswer(frame, id, query[id])
           \/ /\ IsDenial(frame, other, EventType(query[other].kind))
              /\ EventType(query[other].kind) = EventType(query[id].kind)
  BY TakenIsOwn
<1>3. frame.for = other
  BY <1>1, <1>2, SentIs
<1>4. /\ frame.for \in Id /\ Asked(frame.for)
      /\ frame.for = id => id \notin inbox
  BY <1>2, <1>3 DEF Sent
<1>5. event.rc = "OK" /\ event.kind # "IGNORE" /\ Asked(id)
  BY DEF Takes, Asked
<1>6. Wanted(q) \subseteq Registration
  BY <1>1, <1>5, WantedIs
<1>7. Outcome(event, q) \in {"known", "denied", "refused", "error"}
  BY DEF Outcome
<1>8. /\ event.kind = KindOf(frame.name)
      /\ event.kind \in {"LIST", "DESCRIBE"} =>
           event.ok = frame.ok /\ event.items = IF frame.list THEN frame.items ELSE <<>>
  BY <1>5, EventIs
<1> HIDE DEF event, q
<1>9. CASE other = id /\ IsAnswer(frame, id, q)
  <2>1. event.kind = ReplyKind(q) /\ event.kind \in {"LIST", "DESCRIBE"}
    BY <1>8, <1>9 DEF IsAnswer, KindOf, ResponseType, ReplyKind
  <2>2. ListsOf(<<>>, Wanted(q))
    BY DEF ListsOf
  <2>3. ListsOf(event.items, Wanted(q)) /\ event.ok \in BOOLEAN
    BY <1>8, <1>9, <2>1, <2>2 DEF IsAnswer
  <2>4. Delivered(event, q) \subseteq Wanted(q)
    BY <1>6, <2>3, DeliveredIs
  <2>5. event.ok = TRUE => \/ ListsAll(event.items, Wanted(q))
                           \/ \E i \in 1..Len(event.items) : Fill(event.items[i]) = "error"
    BY <1>8, <1>9, <2>1 DEF IsAnswer
  <2>6. Outcome(event, q) = "known" /\ q.kind # "describe" => Delivered(event, q) = Wanted(q)
    BY <1>6, <2>3, <2>5, KnownIs
  <2> QED BY <1>3, <1>4, <1>7, <1>9, <2>4, <2>6 DEF Effect, event, q
<1>10. CASE /\ IsDenial(frame, other, EventType(query[other].kind))
            /\ EventType(query[other].kind) = EventType(query[id].kind)
  <2>1. event.kind = "DENIED"
    BY <1>8, <1>10 DEF IsDenial, KindOf
  <2>2. Entry(event, ReplyKind(q)) = "POLICY_DENIED"
    BY <2>1 DEF Entry
  <2>3. Walk(event, ReplyKind(q)) = [rc |-> "POLICY_DENIED", delivered |-> {}]
    BY <2>2 DEF Walk
  <2>4. Outcome(event, q) = "denied" /\ Delivered(event, q) = {}
    BY <2>3 DEF Outcome, Delivered
  <2> QED BY <1>3, <1>4, <1>10, <2>4 DEF Effect, event, q
<1> QED BY <1>2, <1>9, <1>10 DEF q

-----------------------------------------------------------------------------
(* The steps. *)

\* Nothing was asked yet, and what is on the wire is for others.
LEMMA InitOK == Init => IInv
<1> SUFFICES ASSUME Init PROVE IInv
  OBVIOUS
<1>1. /\ catalogue \in Catalogues /\ echo \in {"context", "session", "data", "nowhere"}
      /\ DOMAIN query = Id /\ DOMAIN status = Id /\ DOMAIN rows = Id /\ DOMAIN origin = Id
      /\ \A id \in Id : status[id] = "none" /\ rows[id] = {} /\ origin[id] = NoId
      /\ inbox = {} /\ wire = Foreign
  BY DEF Init
<1>2. \A id \in Id : ~Asked(id) /\ ~Answered(id) /\ status[id] \in Statuses
  BY <1>1 DEF Asked, Answered, Statuses
<1>3. QueriesOK
  BY <1>1, <1>2, IdsAre DEF QueriesOK, Id
<1>4. \A frame \in wire : frame.for = "other"
  BY <1>1, ForeignIs
<1>5. WireOK
  BY <1>1, <1>4, IdsAre DEF WireOK
<1>6. SpentOK
  BY <1>1, IdsAre DEF SpentOK
<1>7. AnswersAreOwn /\ KnownIsComplete /\ AllMeansAll
  BY <1>1, <1>2, IdsAre DEF AnswersAreOwn, KnownIsComplete, AllMeansAll
<1>8. \A id \in Lists : rows[id] \subseteq catalogue
  BY <1>1, IdsAre DEF Lists
<1> QED BY <1>3, <1>5, <1>6, <1>7, <1>8 DEF IInv

\* What the hub says of a query depends on what it has and how it echoes.
LEMMA HubStays ==
  ASSUME UNCHANGED <<catalogue, echo>>
  PROVE  /\ \A id, q : Answers(id, q)' = Answers(id, q)
         /\ \A id, type : Denials(id, type)' = Denials(id, type)
         /\ Foreign' = Foreign
<1>1. \A q : Wanted(q)' = Wanted(q)
  BY DEF Wanted
<1>2. \A id, name : Reply(id, name)' = Reply(id, name)
  BY DEF Reply, Ids
<1>3. ASSUME NEW id, NEW q PROVE Answers(id, q)' = Answers(id, q)
  BY <1>1, <1>2 DEF Answers
<1>4. ASSUME NEW id, NEW type PROVE Denials(id, type)' = Denials(id, type)
  BY <1>2 DEF Denials
<1>5. Foreign' = Foreign
  BY <1>2, <1>4 DEF Foreign
<1> QED BY <1>3, <1>4, <1>5

\* A reply stays one that was made while its query stays as it is.
LEMMA SentStays ==
  ASSUME UNCHANGED <<catalogue, echo>>, NEW frame, NEW id, Sent(frame, id),
         Asked(id)', query'[id] = query[id], id \notin inbox'
  PROVE  Sent(frame, id)'
<1>1. /\ \A a, q : Answers(a, q)' = Answers(a, q)
      /\ \A a, type : Denials(a, type)' = Denials(a, type)
  BY HubStays
<1> QED BY <1>1 DEF Sent

\* The hub answers or denies a query it has: once.
LEMMA ServeKeeps ==
  ASSUME IInv, NEW id \in Id, NEW reply, Serve(id, reply),
         reply \in Answers(id, query[id]) \cup Denials(id, EventType(query[id].kind))
  PROVE  IInv'
<1>1. /\ id \in inbox /\ inbox' = inbox \ {id} /\ wire' = wire \cup {reply}
      /\ UNCHANGED <<catalogue, echo, query, status, rows, origin>>
  BY DEF Serve
<1>2. QueriesOK /\ WireOK /\ SpentOK
  BY DEF IInv
<1>3. \A other \in Id : Asked(other)' <=> Asked(other)
  BY <1>1 DEF Asked
<1>4. QueriesOK'
  BY <1>1, <1>2, <1>3 DEF QueriesOK, Answered, Asked, QueryOf
<1>5. Foreign' = Foreign
  BY <1>1, HubStays
<1>6. Asked(id)
  BY <1>1, <1>2 DEF WireOK
<1>7. ASSUME NEW frame, NEW other \in Id, Sent(frame, other) PROVE Sent(frame, other)'
  <2>1. Asked(other)' /\ other \notin inbox' /\ query'[other] = query[other]
    BY <1>1, <1>3, <1>7 DEF Sent
  <2> QED BY <1>1, <1>7, <2>1, SentStays
<1>8. Sent(reply, id)'
  <2>1. \A a, q : Answers(a, q)' = Answers(a, q)
    BY <1>1, HubStays
  <2>2. \A a, t : Denials(a, t)' = Denials(a, t)
    BY <1>1, HubStays
  <2> QED BY <1>1, <1>3, <1>6, <2>1, <2>2 DEF Sent
<1>9. reply.for = id
  <2>1. id \notin Missing /\ echo \in {"context", "session", "data", "nowhere"}
    BY <1>2, IdsAre DEF QueriesOK
  <2>2. IsFiniteSet(Wanted(query[id])) /\ Wanted(query[id]) \subseteq Registration
    BY <1>2, <1>6, WantedIs
  <2>3. IsAnswer(reply, id, query[id]) \/ IsDenial(reply, id, EventType(query[id].kind))
    BY <2>1, <2>2, AnswerIs, DenialIs
  <2> QED BY <2>3 DEF IsAnswer, IsDenial
<1>10. \A frame \in wire : frame.for # id
  <2> SUFFICES ASSUME NEW frame \in wire PROVE frame.for # id
    OBVIOUS
  <2>1. CASE frame \in Foreign
    BY <2>1, ForeignIs, IdsAre, <1>2 DEF QueriesOK
  <2>2. ASSUME NEW other \in Id, Sent(frame, other) PROVE frame.for # id
    <3>1. frame.for = other
      BY <1>2, <2>2, SentIs
    <3>2. other \notin inbox
      BY <2>2 DEF Sent
    <3> QED BY <1>1, <3>1, <3>2
  <2> QED BY <1>2, <2>1, <2>2 DEF WireOK
<1>11. WireOK'
  <2>1. \A f, g \in wire' : f.for = g.for /\ f.for \in Id => f = g
    BY <1>1, <1>2, <1>9, <1>10 DEF WireOK
  <2>2. \A frame \in wire' : frame \in Foreign' \/ \E other \in Id : Sent(frame, other)'
    BY <1>1, <1>2, <1>5, <1>7, <1>8 DEF WireOK
  <2>3. inbox' \subseteq {other \in Id : Asked(other)'}
    BY <1>1, <1>2, <1>3 DEF WireOK
  <2> QED BY <2>1, <2>2, <2>3 DEF WireOK
<1>12. SpentOK'
  BY <1>1, <1>2, <1>9 DEF SpentOK
<1> QED BY <1>1, <1>4, <1>11, <1>12
        DEF IInv, AnswersAreOwn, KnownIsComplete, AllMeansAll, Answered

\* A query of a new id, or of one whose rows are what the listing held.
LEMMA AskKeeps ==
  ASSUME IInv, NEW id \in Id, NEW kind, NEW intent, NEW lang, Ask(id, kind, intent, lang),
         QueryOf(id, [kind |-> kind, langs |-> QueryLangs(kind, lang), intent |-> intent,
                      lang |-> lang]),
         id = "all" => status["listing"] = "known",
         id \in DescribeIds => \A other \in DescribeIds :
                                 query[other].intent # intent \/ query[other].lang # lang
  PROVE  IInv'
<1> DEFINE asked == [kind |-> kind, langs |-> QueryLangs(kind, lang), intent |-> intent,
                     lang |-> lang]
<1>1. /\ status[id] = "none" /\ query' = [query EXCEPT ![id] = asked]
      /\ status' = [status EXCEPT ![id] = "out"] /\ inbox' = inbox \cup {id}
      /\ UNCHANGED <<catalogue, echo, rows, origin, wire>>
  BY DEF Ask
<1>2. QueryOf(id, asked) /\ asked.intent = intent /\ asked.lang = lang
  OBVIOUS
<1> HIDE DEF asked
<1>3. QueriesOK /\ WireOK /\ SpentOK
  BY DEF IInv
<1>4. /\ DOMAIN query = Id /\ DOMAIN status = Id
      /\ DOMAIN query' = Id /\ DOMAIN status' = Id /\ DOMAIN rows' = Id /\ DOMAIN origin' = Id
      /\ query'[id] = asked /\ status'[id] = "out"
      /\ \A other \in Id \ {id} : query'[other] = query[other] /\ status'[other] = status[other]
  BY <1>1, <1>3 DEF QueriesOK
<1>5. /\ ~Asked(id) /\ Asked(id)'
      /\ \A other \in Id \ {id} : Asked(other)' <=> Asked(other)
  BY <1>1, <1>4 DEF Asked
<1>6. ~Answered(id) /\ origin[id] = NoId
  BY <1>1, <1>3 DEF QueriesOK, Answered
<1>7. \A other \in Id : Answered(other)' <=> Answered(other)
  BY <1>1 DEF Answered
<1>8. \A other \in Id : /\ status'[other] \in Statuses
                        /\ Answered(other)' <=> status'[other] \notin {"none", "out", "gone"}
  <2>1. "out" \in Statuses
    BY DEF Statuses
  <2>2. \A other \in Id : /\ status[other] \in Statuses
                          /\ Answered(other) <=> status[other] \notin {"none", "out", "gone"}
    BY <1>3 DEF QueriesOK
  <2>3. ASSUME NEW other \in Id
        PROVE  /\ status'[other] \in Statuses
               /\ Answered(other)' <=> status'[other] \notin {"none", "out", "gone"}
    <3>1. CASE other = id
      BY <1>4, <1>6, <1>7, <2>1, <3>1
    <3>2. CASE other # id
      BY <1>4, <1>7, <2>2, <3>2
    <3> QED BY <3>1, <3>2
  <2> QED BY <2>3
<1>o. \A other \in Id : (Answered(other) => origin[other] \in Id /\ Asked(origin[other]))'
  <2>1. \A other \in Id : Answered(other) => origin[other] \in Id /\ Asked(origin[other])
    BY <1>3 DEF QueriesOK
  <2>2. \A other \in Id : Asked(other) => Asked(other)'
    BY <1>5
  <2> QED BY <1>1, <1>7, <2>1, <2>2 DEF Asked
<1>9. \A other \in Id : Asked(other)' => QueryOf(other, query[other])'
  <2>1. ASSUME NEW other \in Id, Asked(other)' PROVE QueryOf(other, query'[other])
    BY <1>2, <1>3, <1>4, <1>5, <2>1 DEF QueriesOK
  <2> QED BY <2>1 DEF QueryOf
<1>10. \A a, b \in DescribeIds :
         (/\ Asked(a)' /\ Asked(b)'
          /\ query'[a].intent = query'[b].intent /\ query'[a].lang = query'[b].lang)
            => a = b
  <2> SUFFICES ASSUME NEW a \in DescribeIds, NEW b \in DescribeIds,
                      Asked(a)', Asked(b)', query'[a].intent = query'[b].intent,
                      query'[a].lang = query'[b].lang
               PROVE  a = b
    OBVIOUS
  <2>0. a \in Id /\ b \in Id
    BY DEF Id
  <2>1. CASE a # id /\ b # id
    BY <1>3, <1>4, <1>5, <2>0, <2>1 DEF QueriesOK
  <2>2. CASE a = id /\ b # id
    BY <1>2, <1>4, <2>0, <2>2
  <2>3. CASE a # id /\ b = id
    BY <1>2, <1>4, <2>0, <2>3
  <2> QED BY <2>1, <2>2, <2>3
<1>11. status["listing"] = "known" => status'["listing"] = "known" /\ id # "listing"
  BY <1>1, <1>4, IdsAre
<1>12. Asked("all")' => status'["listing"] = "known"
  BY <1>3, <1>5, <1>11, IdsAre DEF QueriesOK
<1>13. QueriesOK'
  BY <1>1, <1>3, <1>4, <1>8, <1>o, <1>9, <1>10, <1>12 DEF QueriesOK
<1>14. ASSUME NEW frame, NEW other \in Id, Sent(frame, other) PROVE Sent(frame, other)'
  <2>1. other # id /\ other \notin inbox
    BY <1>5, <1>14 DEF Sent
  <2>2. Asked(other)' /\ query'[other] = query[other] /\ other \notin inbox'
    BY <1>1, <1>4, <1>5, <1>14, <2>1 DEF Sent
  <2> QED BY <1>1, <1>14, <2>2, SentStays
<1>15. Foreign' = Foreign
  BY <1>1, HubStays
<1>16. WireOK'
  BY <1>1, <1>3, <1>5, <1>14, <1>15 DEF WireOK
<1>17. SpentOK'
  <2>1. id # NoId
    BY IdsAre
  <2> QED BY <1>1, <1>3, <1>6, <2>1 DEF SpentOK
<1>18. /\ \A other \in Lists : rows[other] \subseteq catalogue
       /\ AnswersAreOwn /\ KnownIsComplete /\ AllMeansAll
  BY DEF IInv
<1>19. AnswersAreOwn'
  <2> SUFFICES ASSUME NEW other \in Id, Answered(other)
               PROVE  /\ \/ origin[other] = other
                         \/ /\ status'[other] = "denied" /\ origin[other] # "other"
                            /\ EventType(query'[origin[other]].kind) = EventType(query'[other].kind)
                      /\ query'[other].kind = "describe" =>
                           rows[other] \subseteq {[intent |-> query'[other].intent,
                                                   lang |-> query'[other].lang]}
    BY <1>1, <1>7 DEF AnswersAreOwn
  <2>1. other # id
    BY <1>6
  <2>2. query'[other] = query[other] /\ status'[other] = status[other]
    BY <1>4, <2>1
  <2>3. Asked(origin[other]) /\ origin[other] \in Id
    BY <1>3 DEF QueriesOK
  <2>4. query'[origin[other]] = query[origin[other]]
    BY <1>4, <1>5, <2>3
  <2> QED BY <1>18, <2>2, <2>4 DEF AnswersAreOwn
<1>20. KnownIsComplete'
  <2>1. ASSUME status'["listing"] = "known"
        PROVE  status["listing"] = "known" /\ query'["listing"] = query["listing"]
    BY <1>4, <2>1, IdsAre
  <2> QED BY <1>1, <1>18, <2>1 DEF KnownIsComplete
<1>21. AllMeansAll'
  <2>1. status'["all"] = "known" => status["all"] = "known"
    BY <1>4, IdsAre
  <2> QED BY <1>1, <1>18, <2>1 DEF AllMeansAll
<1> QED BY <1>1, <1>13, <1>16, <1>17, <1>18, <1>19, <1>20, <1>21 DEF IInv

\* The three queries the application sends.
LEMMA AskingKeeps == ASSUME IInv, AskListing \/ AskAll \/ AskDescribe PROVE IInv'
<1>1. QueriesOK /\ \A id \in Lists : rows[id] \subseteq catalogue
  BY DEF IInv
<1>2. CASE AskListing
  <2>1. PICK lang \in Tongue \cup {"absent"} : Ask("listing", "list", "", lang)
    BY <1>2 DEF AskListing
  <2>2. QueryOf("listing", [kind |-> "list", langs |-> QueryLangs("list", lang), intent |-> "",
                            lang |-> lang])
    BY IdsAre DEF QueryOf
  <2> QED BY <2>1, <2>2, IdsAre, AskKeeps
<1>3. CASE AskAll
  <2>1. status["listing"] = "known" /\ Ask("all", "list_all", "", "absent")
    BY <1>3 DEF AskAll
  <2>2. QueryOf("all", [kind |-> "list_all", langs |-> QueryLangs("list_all", "absent"),
                        intent |-> "", lang |-> "absent"])
    BY IdsAre DEF QueryOf
  <2> QED BY <2>1, <2>2, IdsAre, AskKeeps
<1>4. CASE AskDescribe
  <2>1. PICK id \in DescribeIds, r \in rows["listing"] \cup rows["all"] :
          /\ \A other \in DescribeIds : query[other].intent # r.intent \/ query[other].lang # r.lang
          /\ Ask(id, "describe", r.intent, r.lang)
    BY <1>4 DEF AskDescribe
  <2>2. r \in Registration
    BY <1>1, InventoryAssumption DEF QueriesOK, Lists
  <2>3. r.intent \in Intent /\ r.lang \in Tongue
    BY <2>2 DEF Registration
  <2>4. QueryOf(id, [kind |-> "describe", langs |-> QueryLangs("describe", r.lang),
                     intent |-> r.intent, lang |-> r.lang])
    BY <2>3, IdsAre DEF QueryOf
  <2>5. id \in Id /\ id # "all"
    BY IdsAre DEF Id
  <2> QED BY <2>1, <2>4, <2>5, AskKeeps
<1> QED BY <1>2, <1>3, <1>4

\* The application waits no longer.
LEMMA GiveUpKeeps == ASSUME IInv, NEW id \in Id, GiveUp(id) PROVE IInv'
<1>1. /\ status[id] = "out" /\ status' = [status EXCEPT ![id] = "gone"]
      /\ UNCHANGED <<catalogue, echo, query, rows, origin, inbox, wire>>
  BY DEF GiveUp
<1>2. QueriesOK /\ WireOK /\ SpentOK
  BY DEF IInv
<1>3. DOMAIN status' = Id /\ status'[id] = "gone"
      /\ \A other \in Id \ {id} : status'[other] = status[other]
  BY <1>1, <1>2 DEF QueriesOK
<1>4. \A other \in Id : Asked(other)' <=> Asked(other)
  BY <1>1, <1>3 DEF Asked
<1>5. \A other \in Id : Answered(other)' <=> Answered(other)
  BY <1>1 DEF Answered
<1>6. \A other \in Id : /\ status'[other] \in Statuses
                        /\ Answered(other)' <=> status'[other] \notin {"none", "out", "gone"}
  BY <1>1, <1>2, <1>3, <1>5 DEF QueriesOK, Statuses
<1>7. \A other \in Id : (Answered(other) => origin[other] \in Id /\ Asked(origin[other]))'
  BY <1>1, <1>2, <1>4, <1>5 DEF QueriesOK, Asked
<1>8. \A other \in Id : (Asked(other) => QueryOf(other, query[other]))'
  BY <1>1, <1>2, <1>4 DEF QueriesOK, QueryOf
<1>9. status["listing"] = "known" => status'["listing"] = "known"
  BY <1>1, <1>3, IdsAre
<1>10. Asked("all") => status["listing"] = "known"
  BY <1>2 DEF QueriesOK
<1>11. \A a, b \in DescribeIds :
         Asked(a)' /\ Asked(b)' /\ query[a].intent = query[b].intent
           /\ query[a].lang = query[b].lang => a = b
  <2>1. DescribeIds \subseteq Id
    BY DEF Id
  <2> QED BY <1>2, <1>4, <2>1 DEF QueriesOK
<1>12. QueriesOK'
  BY <1>1, <1>2, <1>3, <1>4, <1>6, <1>7, <1>8, <1>9, <1>10, <1>11, IdsAre DEF QueriesOK
<1>13. ASSUME NEW frame, NEW other \in Id, Sent(frame, other) PROVE Sent(frame, other)'
  <2>1. Asked(other)' /\ query'[other] = query[other] /\ other \notin inbox'
    BY <1>1, <1>4, <1>13 DEF Sent
  <2> QED BY <1>1, <1>13, <2>1, SentStays
<1>14. Foreign' = Foreign
  BY <1>1, HubStays
<1>15. WireOK'
  BY <1>1, <1>2, <1>4, <1>13, <1>14 DEF WireOK
<1>16. SpentOK'
  BY <1>1, <1>2 DEF SpentOK
<1>17. /\ \A other \in Lists : rows[other] \subseteq catalogue
       /\ AnswersAreOwn /\ KnownIsComplete /\ AllMeansAll
  BY DEF IInv
<1>18. AnswersAreOwn'
  <2>1. \A other \in Id : Answered(other) => status'[other] = status[other]
    BY <1>1, <1>2, <1>3 DEF QueriesOK
  <2> QED BY <1>1, <1>5, <1>17, <2>1 DEF AnswersAreOwn
<1>19. KnownIsComplete' /\ AllMeansAll'
  <2>1. \A other \in Id : status'[other] = "known" => status[other] = "known"
    BY <1>3
  <2> QED BY <1>1, <1>17, <2>1, IdsAre DEF KnownIsComplete, AllMeansAll
<1> QED BY <1>1, <1>12, <1>15, <1>16, <1>17, <1>18, <1>19 DEF IInv

\* A frame arrives, for the queries it answers.
LEMMA ReceiveKeeps == ASSUME IInv, NEW frame \in wire, Receive(frame) PROVE IInv'
<1> DEFINE takers == {id \in Id : Takes(frame, id)}
<1> DEFINE out(id) == Outcome(Classify(frame, id), query[id])
<1> DEFINE got(id) == Delivered(Classify(frame, id), query[id])
<1>1. /\ DOMAIN status' = Id /\ DOMAIN rows' = Id /\ DOMAIN origin' = Id
      /\ wire' = IF echo = "nowhere" THEN wire \ {frame} ELSE wire
      /\ UNCHANGED <<catalogue, echo, query, inbox>>
      /\ \A id \in Id : IF id \in takers
                        THEN status'[id] = out(id) /\ rows'[id] = got(id) /\ origin'[id] = frame.for
                        ELSE status'[id] = status[id] /\ rows'[id] = rows[id] /\ origin'[id] = origin[id]
  BY DEF Receive
<1>2. QueriesOK /\ WireOK /\ SpentOK
  BY DEF IInv
<1>3. \A id \in takers :
        /\ status[id] = "out" /\ Asked(id)
        /\ frame.for \in Id /\ Asked(frame.for) /\ frame.for # NoId
        /\ frame.for = id => id \notin inbox
        /\ got(id) \subseteq Wanted(query[id])
        /\ out(id) \in {"known", "denied", "refused", "error"}
        /\ frame.for # id => /\ out(id) = "denied"
                             /\ EventType(query[frame.for].kind) = EventType(query[id].kind)
        /\ out(id) = "known" /\ query[id].kind # "describe" => got(id) = Wanted(query[id])
  <2> SUFFICES ASSUME NEW id \in Id, Takes(frame, id)
               PROVE  /\ status[id] = "out" /\ Asked(id) /\ Effect(frame, id) /\ frame.for # NoId
    BY DEF Effect
  <2>1. Effect(frame, id)
    BY TakenHas
  <2>2. frame.for # NoId
    BY <2>1, IdsAre DEF Effect
  <2> QED BY <2>1, <2>2 DEF Takes, Asked
<1>4. \A id \in takers : id \in Id
  OBVIOUS
<1> HIDE DEF takers, out, got
<1>5. \A id \in Id : Asked(id)' <=> Asked(id)
  BY <1>1, <1>3 DEF Asked
<1>6. \A id \in Id : IF id \in takers THEN Answered(id)' ELSE Answered(id)' <=> Answered(id)
  BY <1>1, <1>3 DEF Answered
<1>7. \A id \in Id : /\ status'[id] \in Statuses
                     /\ Answered(id)' <=> status'[id] \notin {"none", "out", "gone"}
  BY <1>1, <1>2, <1>3, <1>6 DEF QueriesOK, Statuses
<1>8. \A id \in Id : (Answered(id) => origin[id] \in Id /\ Asked(origin[id]))'
  <2> SUFFICES ASSUME NEW id \in Id, Answered(id)'
               PROVE  (origin[id] \in Id /\ Asked(origin[id]))'
    OBVIOUS
  <2>1. origin'[id] \in Id /\ Asked(origin'[id])
    BY <1>1, <1>2, <1>3, <1>6 DEF QueriesOK
  <2> QED BY <1>5, <2>1 DEF Asked
<1>9. \A id \in Id : (Asked(id) => QueryOf(id, query[id]))'
  BY <1>1, <1>2, <1>5 DEF QueriesOK, QueryOf
<1>10. \A a, b \in DescribeIds :
         Asked(a)' /\ Asked(b)' /\ query[a].intent = query[b].intent
           /\ query[a].lang = query[b].lang => a = b
  <2>1. DescribeIds \subseteq Id
    BY DEF Id
  <2> QED BY <1>2, <1>5, <2>1 DEF QueriesOK
<1>11. Asked("all") => status["listing"] = "known" /\ status'["listing"] = "known"
  BY <1>1, <1>2, <1>3, IdsAre DEF QueriesOK
<1>12. QueriesOK'
  BY <1>1, <1>2, <1>5, <1>7, <1>8, <1>9, <1>10, <1>11, IdsAre DEF QueriesOK
<1>13. ASSUME NEW f, NEW id \in Id, Sent(f, id) PROVE Sent(f, id)'
  <2>1. Asked(id)' /\ query'[id] = query[id] /\ id \notin inbox'
    BY <1>1, <1>5, <1>13 DEF Sent
  <2> QED BY <1>1, <1>13, <2>1, SentStays
<1>14. Foreign' = Foreign
  BY <1>1, HubStays
<1>15. wire' \subseteq wire
  BY <1>1
<1>16. WireOK'
  BY <1>1, <1>2, <1>5, <1>13, <1>14, <1>15 DEF WireOK
<1>17. SpentOK'
  <2> SUFFICES ASSUME echo = "nowhere", NEW id \in Id, origin'[id] = id
               PROVE  id \notin inbox /\ \A f \in wire' : f.for # id
    BY <1>1 DEF SpentOK
  <2>1. CASE id \in takers
    <3>1. frame.for = id /\ id \notin inbox
      BY <1>1, <1>3, <2>1
    <3>2. \A f \in wire : f.for = id => f = frame
      BY <1>2, <3>1 DEF WireOK
    <3> QED BY <1>1, <3>1, <3>2
  <2>2. CASE id \notin takers
    BY <1>1, <1>2, <1>15, <2>2 DEF SpentOK
  <2> QED BY <2>1, <2>2
<1>18. /\ \A id \in Lists : rows[id] \subseteq catalogue
       /\ AnswersAreOwn /\ KnownIsComplete /\ AllMeansAll
  BY DEF IInv
<1>19. \A id \in takers :
         /\ Wanted(query[id]) \subseteq catalogue
         /\ id = "all" => Wanted(query[id]) = catalogue
         /\ id = "listing" =>
              Wanted(query[id]) = {r \in catalogue :
                 r.lang = IF query[id].lang = "absent" THEN "en-us" ELSE query[id].lang}
         /\ id \in DescribeIds =>
              Wanted(query[id]) \subseteq {[intent |-> query[id].intent, lang |-> query[id].lang]}
         /\ (query[id].kind = "describe") <=> (id \in DescribeIds)
  BY <1>2, <1>3, <1>4, WantedIs
<1>20. \A id \in Lists : rows'[id] \subseteq catalogue
  BY <1>1, <1>3, <1>18, <1>19, IdsAre DEF Lists
<1>21. AnswersAreOwn'
  <2> DEFINE own(id) ==
        /\ \/ origin'[id] = id
           \/ /\ status'[id] = "denied" /\ origin'[id] # "other"
              /\ EventType(query[origin'[id]].kind) = EventType(query[id].kind)
        /\ query[id].kind = "describe" =>
             rows'[id] \subseteq {[intent |-> query[id].intent, lang |-> query[id].lang]}
  <2>1. ASSUME NEW id \in Id, id \in takers PROVE own(id)
    <3>1. status'[id] = out(id) /\ rows'[id] = got(id) /\ origin'[id] = frame.for
      BY <1>1, <2>1
    <3>2. frame.for # "other"
      BY <1>3, <2>1, IdsAre
    <3>3. query[id].kind = "describe" =>
             rows'[id] \subseteq {[intent |-> query[id].intent, lang |-> query[id].lang]}
      BY <1>3, <1>19, <2>1, <3>1
    <3>4. frame.for # id => /\ out(id) = "denied"
                            /\ EventType(query[frame.for].kind) = EventType(query[id].kind)
      BY <1>3, <2>1
    <3> QED BY <3>1, <3>2, <3>3, <3>4
  <2>2. ASSUME NEW id \in Id, id \notin takers, Answered(id) PROVE own(id)
    BY <1>1, <1>18, <2>2 DEF AnswersAreOwn
  <2> QED BY <1>1, <1>6, <2>1, <2>2 DEF AnswersAreOwn
<1>22. KnownIsComplete'
  <2>1. CASE "listing" \in takers
    <3>1. status'["listing"] = out("listing") /\ rows'["listing"] = got("listing")
      BY <1>1, <2>1, IdsAre
    <3>2. query["listing"].kind # "describe"
      BY <1>19, <2>1, IdsAre
    <3>3. out("listing") = "known" => got("listing") = Wanted(query["listing"])
      BY <1>3, <2>1, <3>2
    <3> QED BY <1>1, <1>19, <2>1, <3>1, <3>3 DEF KnownIsComplete
  <2>2. CASE "listing" \notin takers
    BY <1>1, <1>18, <2>2, IdsAre DEF KnownIsComplete
  <2> QED BY <2>1, <2>2
<1>23. AllMeansAll'
  <2>1. CASE "all" \in takers
    <3>1. status'["all"] = out("all") /\ rows'["all"] = got("all")
      BY <1>1, <2>1, IdsAre
    <3>2. query["all"].kind # "describe"
      BY <1>19, <2>1, IdsAre
    <3>3. out("all") = "known" => got("all") = Wanted(query["all"])
      BY <1>3, <2>1, <3>2
    <3> QED BY <1>1, <1>19, <2>1, <3>1, <3>3 DEF AllMeansAll
  <2>2. CASE "all" \notin takers
    BY <1>1, <1>18, <2>2, IdsAre DEF AllMeansAll
  <2> QED BY <2>1, <2>2
<1> QED BY <1>1, <1>12, <1>16, <1>17, <1>20, <1>21, <1>22, <1>23 DEF IInv

-----------------------------------------------------------------------------
(* The theorems. *)

\* Every reply on the wire is one to a query that was asked, made once; what
\* an application keeps of it is its own.
THEOREM InventoryInvariant == Spec => []IInv
<1>1. ASSUME IInv, [Next]_vars PROVE IInv'
  <2>1. CASE AskListing \/ AskAll \/ AskDescribe
    BY <1>1, <2>1, AskingKeeps
  <2>2. CASE Answer \/ Deny
    <3>1. PICK id \in inbox :
            \E reply \in Answers(id, query[id]) \cup Denials(id, EventType(query[id].kind)) :
              Serve(id, reply)
      BY <2>2 DEF Answer, Deny
    <3>2. id \in Id
      BY <1>1 DEF IInv, WireOK
    <3> QED BY <1>1, <3>1, <3>2, ServeKeeps
  <2>3. CASE \E frame \in wire : Receive(frame)
    BY <1>1, <2>3, ReceiveKeeps
  <2>4. CASE \E id \in Id : GiveUp(id)
    BY <1>1, <2>4, GiveUpKeeps
  <2>5. CASE UNCHANGED vars
    <3>1. UNCHANGED <<catalogue, echo, query, status, rows, origin, inbox, wire>>
      BY <2>5 DEF vars
    <3>2. Foreign' = Foreign /\ \A f, id : Sent(f, id)' <=> Sent(f, id)
      <4>1. /\ \A a, q : Answers(a, q)' = Answers(a, q)
            /\ \A a, type : Denials(a, type)' = Denials(a, type)
            /\ Foreign' = Foreign
        BY <3>1, HubStays
      <4> QED BY <3>1, <4>1 DEF Sent, Asked
    <3>3. QueriesOK' /\ WireOK' /\ SpentOK'
      BY <1>1, <3>1, <3>2 DEF IInv, QueriesOK, WireOK, SpentOK, QueryOf, Asked, Answered
    <3>4. AnswersAreOwn' /\ KnownIsComplete' /\ AllMeansAll'
      BY <1>1, <3>1 DEF IInv, AnswersAreOwn, KnownIsComplete, AllMeansAll, Answered
    <3> QED BY <1>1, <3>1, <3>3, <3>4 DEF IInv
  <2> QED BY <1>1, <2>1, <2>2, <2>3, <2>4, <2>5 DEF Next
<1> QED BY <1>1, InitOK, PTL DEF Spec

\* "Describes may be sent together, one request id each": whatever is lost,
\* repeated or reordered, a query is answered by its own reply or by a denial
\* of the type it sent, and describes what it asked about.
THEOREM AnswersAreOwnHolds == Spec => []AnswersAreOwn
<1>1. IInv => AnswersAreOwn
  BY DEF IInv
<1> QED BY <1>1, InventoryInvariant, PTL

\* "Rather than the zero rows that would show a person a hub able to do
\* nothing": a listing that counts as known is complete, however many intents
\* the hub has registered.
THEOREM KnownIsCompleteHolds == Spec => []KnownIsComplete
<1>1. IInv => KnownIsComplete
  BY DEF IInv
<1> QED BY <1>1, InventoryInvariant, PTL

\* The listing of every language holds all there is, whatever the languages.
THEOREM AllMeansAllHolds == Spec => []AllMeansAll
<1>1. IInv => AllMeansAll
  BY DEF IInv
<1> QED BY <1>1, InventoryInvariant, PTL
=============================================================================
