-------------------------- MODULE SkillsFallbacks --------------------------
(***************************************************************************)
(* thalovant_skills_fallbacks (src/intents.c): the fallback skills of an   *)
(* ovos.skills.list reply, reported to the caller's callback sorted and    *)
(* without repetition, with no memory to sort in.  Every pass rescans all  *)
(* rows and delivers the smallest id above the one delivered before it.    *)
(*                                                                         *)
(* Ids are numbers in strcmp's order, 0 standing for "no id".  What the    *)
(* scanner makes of a row is data here: a row names what its session_id,   *)
(* capabilities and skill_id read as.                                      *)
(***************************************************************************)
EXTENDS Naturals, Sequences

CONSTANTS Id,        \* the skill ids that fit their buffer
          Replies    \* the classified events the walk may be given

None == 0

Session == {"absent", "null", "", "default", "other", "overlong", "number", "badescape"}
OwnSession == {"absent", "null", "", "default"}
Capability == {"fallback", "other", "badescape"}

\* form: a JSON object, another value, or text the scanner refuses.
\* skill: None when skill_id is absent, blank or no string; reads: it fits.
Row == [form : {"object", "value", "malformed"}, session : Session,
        capabilities : Seq(Capability), skill : Id \cup {None}, reads : BOOLEAN]

\* thalovant_intent_event; items: the reply holds a list of skills.
Reply == [kind : {"skills", "denied", "another"}, ok : BOOLEAN, items : BOOLEAN,
          rows : Seq(Row)]

ASSUME FallbacksAssumption ==
  /\ Id \subseteq Nat \ {None}
  /\ Replies \subseteq Reply

VARIABLES event,      \* the event walked, never written
          result,     \* "running", a code, or "delivered": the count
          cursor,     \* rows of this pass already read
          found,      \* the smallest id of this pass so far, or None
          last,       \* the id delivered last, or None
          delivered   \* the ids the callback was given

vars == <<event, result, cursor, found, last, delivered>>

-----------------------------------------------------------------------------
\* fallback_skill: the capabilities are read up to the first "fallback".
Offers(capabilities) ==
  \E i \in 1..Len(capabilities) :
    capabilities[i] = "fallback" /\ \A j \in 1..i : capabilities[j] # "badescape"
Garbled(capabilities) ==
  \E i \in 1..Len(capabilities) :
    capabilities[i] = "badescape" /\ \A j \in 1..i : capabilities[j] # "fallback"

\* The id of a row that is one of this hub's fallback skills, else None.
FallbackId(row) ==
  IF row.form = "object" /\ row.session \in OwnSession /\ Offers(row.capabilities) /\ row.reads
  THEN row.skill ELSE None

\* The row ends the walk with an error.
Fails(row) ==
  \/ row.form = "malformed"
  \/ /\ row.form = "object"
     /\ \/ row.session = "badescape"
        \/ row.session \in OwnSession /\ Garbled(row.capabilities)
        \/ row.session \in OwnSession /\ Offers(row.capabilities) /\ ~row.reads

\* What the reply's list holds.
Listed(rows) == {FallbackId(rows[i]) : i \in 1..Len(rows)} \ {None}
Sound(rows) == \A i \in 1..Len(rows) : ~Fails(rows[i])

\* The answer before any row is read.
Entry(reply) ==
  CASE reply.kind = "denied" -> "POLICY_DENIED"
    [] reply.kind = "another" -> "INVALID"
    [] reply.kind = "skills" /\ ~reply.ok -> "HUB_REFUSED"
    [] reply.kind = "skills" /\ reply.ok /\ ~reply.items -> "MISSING"
    [] OTHER -> "running"

Init ==
  /\ event \in Replies
  /\ result = Entry(event)
  /\ cursor = 0
  /\ found = None
  /\ last = None
  /\ delivered = <<>>

\* One turn of the inner loop: the next row of the pass.
\* (mutants: the id delivered last is taken again; the pass's first is kept)
BetterNotBelow(id) == id # None /\ id >= last /\ (found = None \/ id < found)
BetterKeepsFirst(id) == id # None /\ id > last /\ found = None
Better(id) == id # None /\ id > last /\ (found = None \/ id < found)

ReadRow ==
  /\ result = "running"
  /\ cursor < Len(event.rows)
  /\ LET row == event.rows[cursor + 1]
     IN IF Fails(row)
        THEN result' = "ERROR" /\ UNCHANGED <<cursor, found>>
        ELSE /\ cursor' = cursor + 1
             /\ found' = IF Better(FallbackId(row)) THEN FallbackId(row) ELSE found
             /\ UNCHANGED result
  /\ UNCHANGED <<event, last, delivered>>

\* The pass is over: its id goes to the callback, which may stop the walk.
\* (mutant: delivered as soon as found)
DeliverEarly(goOn) ==
  /\ result = "running" /\ found # None
  /\ delivered' = Append(delivered, found)
  /\ last' = found /\ found' = None /\ cursor' = 0
  /\ result' = IF goOn THEN "running" ELSE "delivered"
  /\ UNCHANGED event
Deliver(goOn) ==
  /\ result = "running"
  /\ cursor = Len(event.rows)
  /\ found # None
  /\ delivered' = Append(delivered, found)
  /\ last' = found
  /\ found' = None
  /\ cursor' = 0
  /\ result' = IF goOn THEN "running" ELSE "delivered"
  /\ UNCHANGED event

\* A pass that found nothing ends the walk.
\* (mutant: it is followed by another one)
FinishNever ==
  /\ result = "running" /\ cursor = Len(event.rows) /\ found = None
  /\ cursor' = 0
  /\ UNCHANGED <<event, result, found, last, delivered>>
Finish ==
  /\ result = "running"
  /\ cursor = Len(event.rows)
  /\ found = None
  /\ result' = "delivered"
  /\ UNCHANGED <<event, cursor, found, last, delivered>>

Next == ReadRow \/ (\E goOn \in BOOLEAN : Deliver(goOn)) \/ Finish

Spec == Init /\ [][Next]_vars

\* The function runs to its end and the callback returns.
FairSpec == Spec /\ WF_vars(Next)

-----------------------------------------------------------------------------
Results == {"running", "delivered", "POLICY_DENIED", "INVALID", "HUB_REFUSED", "MISSING",
            "ERROR"}

TypeOK ==
  /\ event \in Reply
  /\ result \in Results
  /\ cursor \in 0..Len(event.rows)
  /\ found \in Id \cup {None}
  /\ last \in Id \cup {None}
  /\ delivered \in Seq(Id)

Delivered == {delivered[i] : i \in 1..Len(delivered)}

\* "Delivered once each, in byte order": each id the callback gets is above
\* the one before, and none of the list below it is left out, however often
\* and in whatever order the rows repeat it.
SortedAndComplete ==
  /\ \A i, j \in 1..Len(delivered) : i < j => delivered[i] < delivered[j]
  /\ \A id \in Listed(event.rows) : id <= last => id \in Delivered
  /\ Delivered \subseteq Listed(event.rows)

\* "Known and unknown stay different answers": a walk that cannot read the
\* whole list has not called back, so no caller is left with half a list, in
\* spite of the rescanning.
UnknownReportsNothing ==
  (result \notin {"running", "delivered"} \/ ~Sound(event.rows)) => delivered = <<>>

\* The walk implements the abstract listing.
Listing == INSTANCE SortedListing WITH
             todo <- Listed(event.rows) \ Delivered,
             out <- delivered,
             over <- result # "running"
ImplementsListing == Listing!ListSpec

\* The passes come to an end.
Terminates == <>(result # "running")
=============================================================================
