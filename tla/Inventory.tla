----------------------------- MODULE Inventory -----------------------------
(***************************************************************************)
(* An application reading the hub's intents with the functions of          *)
(* src/intents.c, the way the header's contract describes: a listing, then *)
(* one in every language when the first had no row, and descriptions of    *)
(* what was listed, sent together.  It gives up on a query as it likes.    *)
(*                                                                         *)
(* A hub that echoes request ids may have its replies lost, repeated and   *)
(* reordered, among those to other requests.  One that does not answers    *)
(* each query once at most, and only this application asks it.             *)
(***************************************************************************)
EXTENDS IntentEvents

CONSTANTS DescribeIds,   \* request ids of the describes it may send
          Tongue,        \* language tags
          Intent,        \* intents of the one skill
          Catalogues,    \* what the hub may have registered
          AllowLists     \* the allowed lists of a denial

Id == {"listing", "all"} \cup DescribeIds
Registration == [intent : Intent, lang : Tongue]
NotAsked == [kind |-> "none", langs |-> <<>>, intent |-> "", lang |-> ""]
EventType(kind) == IF kind = "describe" THEN "ovos.intent.describe" ELSE "ovos.intent.list"
ResponseType(kind) ==
  IF kind = "describe" THEN "ovos.intent.describe.response" ELSE "ovos.intent.list.response"

ASSUME InventoryAssumption ==
  /\ DescribeIds \cap ({"listing", "all", "other"} \cup Missing) = {}
  /\ Tongue \cap Missing = {} /\ Intent \cap (Missing \cup {"overlong"}) = {}
  /\ Catalogues \subseteq SUBSET Registration
  /\ \A registered \in Catalogues : IsFiniteSet(registered)

VARIABLES catalogue,   \* the hub's registrations
          echo,        \* where its replies carry the request id, or "nowhere"
          query,       \* the query sent under each id
          status,      \* "none", "out", "gone", or how it was answered
          rows,        \* what was delivered for each id
          origin,      \* history: the id whose reply was taken
          inbox,       \* queries the hub has not answered
          wire         \* its replies

vars == <<catalogue, echo, query, status, rows, origin, inbox, wire>>

-----------------------------------------------------------------------------
(* The hub. *)

Object(r) == [form |-> "object", skill |-> "skill", intent |-> r.intent, lang |-> r.lang,
              rest |-> TRUE]
Objects(registrations) ==
  LET order == SetToSeq(registrations) IN [i \in 1..Len(order) |-> Object(order[i])]
Some == Object([intent |-> "some", lang |-> "some"])
Padding == <<[Some EXCEPT !.form = "value"], [Some EXCEPT !.intent = "absent"]>>
Unreadable == {[Some EXCEPT !.form = "malformed"], [Some EXCEPT !.skill = "overlong"],
               [Some EXCEPT !.rest = FALSE]}

\* A reply to the query of an id; blank ids stand before the one that counts.
Ids(id, place) == IF echo = place THEN <<"absent", id, "absent">> ELSE <<"", "absent", "absent">>
Reply(id, name) ==
  [for |-> id, form |-> IF echo = "data" THEN "bare" ELSE "frame", name |-> name,
   context |-> Ids(id, "context"), session |-> Ids(id, "session"), data |-> Ids(id, "data"),
   langs |-> <<"absent", "absent", "en-us">>, fits |-> TRUE, ok |-> TRUE, list |-> FALSE,
   items |-> <<>>, denied |-> "", allowed |-> <<>>]
Denials(id, type) ==
  {[Reply(id, "hive.policy.denied") EXCEPT !.denied = type, !.allowed = allowed] :
     allowed \in AllowLists}

\* The registrations a query asks about: those of the first language it names.
Wanted(q) ==
  {r \in catalogue :
     /\ FirstOf(q.langs) \in {"", r.lang}
     /\ q.kind = "describe" => r.intent = q.intent}

Answers(id, q) ==
  LET name == ResponseType(q.kind)
      items == Objects(Wanted(q))
      answer(list) == [Reply(id, name) EXCEPT !.list = TRUE, !.items = list]
  IN {answer(items), answer(Padding \o items)}
       \cup {answer(items \o <<bad>>) : bad \in Unreadable}
       \cup {[Reply(id, name) EXCEPT !.ok = FALSE, !.fits = fits] : fits \in BOOLEAN}

\* What else is on the wire: a denied utterance and skills lists, frames that
\* are no bus event or cut short and, where ids tell them apart, a listing.
Foreign ==
  LET holding(name, items) == [Reply("other", name) EXCEPT !.list = TRUE, !.items = items]
      listing == holding("ovos.intent.list.response", <<Some>>)
  IN Denials("other", "recognizer_loop:utterance")
       \cup {[listing EXCEPT !.form = form] : form \in {"another", "malformed"}}
       \cup {holding("ovos.skills.list.response", items) :
               items \in {<<Some>>, <<[Some EXCEPT !.form = "malformed"]>>}}
       \cup (IF echo = "nowhere" THEN {} ELSE {listing})

Serve(id, reply) ==
  /\ id \in inbox
  /\ inbox' = inbox \ {id}
  /\ wire' = wire \cup {reply}
  /\ UNCHANGED <<catalogue, echo, query, status, rows, origin>>

Answer == \E id \in inbox : \E reply \in Answers(id, query[id]) : Serve(id, reply)
Deny == \E id \in inbox : \E reply \in Denials(id, EventType(query[id].kind)) : Serve(id, reply)

-----------------------------------------------------------------------------
(* The application. *)

Init ==
  /\ catalogue \in Catalogues
  /\ echo \in {"context", "session", "data", "nowhere"}
  /\ query = [id \in Id |-> NotAsked]
  /\ status = [id \in Id |-> "none"]
  /\ rows = [id \in Id |-> {}]
  /\ origin = [id \in Id |-> NoId]
  /\ inbox = {}
  /\ wire = Foreign

\* build_list_payload, thalovant_intent_describe_build_payload: the query as
\* it goes out.
Ask(id, kind, intent, lang) ==
  /\ status[id] = "none"
  /\ query' = [query EXCEPT ![id] = [kind |-> kind, langs |-> QueryLangs(kind, lang),
                                     intent |-> intent, lang |-> lang]]
  /\ status' = [status EXCEPT ![id] = "out"]
  /\ inbox' = inbox \cup {id}
  /\ UNCHANGED <<catalogue, echo, rows, origin, wire>>

\* thalovant_intent_list_build_frame, in a language or with none given.
AskListing == \E lang \in Tongue \cup {"absent"} : Ask("listing", "list", "", lang)

\* thalovant_intent_list_all_build_frame: the asked language left no row.
AskAll ==
  /\ status["listing"] = "known" /\ rows["listing"] = {}
  /\ Ask("all", "list_all", "", "absent")

\* thalovant_intent_describe_build_frame, of a row in its own language.
AskDescribe ==
  \E id \in DescribeIds, r \in rows["listing"] \cup rows["all"] :
    /\ \A other \in DescribeIds : query[other].intent # r.intent \/ query[other].lang # r.lang
    /\ Ask(id, "describe", r.intent, r.lang)

\* A reply without an id is matched by content: a denial by the type denied,
\* a description by the names in it.
ReplyKind(q) == IF q.kind = "describe" THEN "DESCRIBE" ELSE "LIST"
Delivered(event, q) ==
  {[intent |-> event.items[i].intent, lang |-> event.items[i].lang] :
     i \in Walk(event, ReplyKind(q)).delivered}
Matches(event, q) ==
  \/ event.kind = "DENIED" /\ event.denied = EventType(q.kind)
  \/ event.kind = "LIST" /\ q.kind # "describe"
  \/ /\ event.kind = "DESCRIBE" /\ q.kind = "describe"
     /\ [intent |-> q.intent, lang |-> q.lang] \in Delivered(event, q)
Takes(frame, id) ==
  LET event == Classify(frame, id)
  IN /\ status[id] = "out"
     /\ event.rc = "OK" /\ event.kind # "IGNORE"
     /\ event.id # NoId \/ Matches(event, query[id])

\* How the walkers answer for the query.
Outcome(event, q) ==
  LET walk == Walk(event, ReplyKind(q)).rc
  IN CASE walk = "OK" -> "known"
       [] walk = "POLICY_DENIED" -> "denied"
       [] walk = "HUB_REFUSED" -> "refused"
       [] OTHER -> "error"

\* A frame arrives: thalovant_intent_classify for every query that is out, and
\* a walk for those it answers.  A reply without an id does not come twice.
Receive(frame) ==
  LET takers == {id \in Id : Takes(frame, id)}
      event(id) == Classify(frame, id)
  IN /\ takers # {}
     /\ status' = [id \in Id |-> IF id \in takers THEN Outcome(event(id), query[id])
                                 ELSE status[id]]
     /\ rows' = [id \in Id |-> IF id \in takers THEN Delivered(event(id), query[id])
                               ELSE rows[id]]
     /\ origin' = [id \in Id |-> IF id \in takers THEN frame.for ELSE origin[id]]
     /\ wire' = IF echo = "nowhere" THEN wire \ {frame} ELSE wire
     /\ UNCHANGED <<catalogue, echo, query, inbox>>

GiveUp(id) ==
  /\ status[id] = "out"
  /\ status' = [status EXCEPT ![id] = "gone"]
  /\ UNCHANGED <<catalogue, echo, query, rows, origin, inbox, wire>>

Next ==
  \/ AskListing \/ AskAll \/ AskDescribe
  \/ Answer \/ Deny
  \/ \E frame \in wire : Receive(frame)
  \/ \E id \in Id : GiveUp(id)

Spec == Init /\ [][Next]_vars

-----------------------------------------------------------------------------
TypeOK ==
  /\ status \in [Id -> {"none", "out", "gone", "known", "denied", "refused", "error"}]
  /\ rows \in [Id -> SUBSET Registration]
  /\ inbox \subseteq {id \in Id : status[id] # "none"}
  /\ \A id \in Id : rows[id] # {} => status[id] \in {"known", "error"}
  /\ \A id \in Id : origin[id] = NoId <=> status[id] \in {"none", "out", "gone"}

Answered(id) == origin[id] # NoId

\* "Describes may be sent together, one request id each": however replies are
\* reordered and repeated, a query is answered by its own reply, or by a
\* denial of the type it sent, and what is delivered for a description is the
\* registration it asked for.
AnswersAreOwn ==
  \A id \in Id : Answered(id) =>
    /\ \/ origin[id] = id
       \/ /\ status[id] = "denied" /\ origin[id] # "other"
          /\ EventType(query[origin[id]].kind) = EventType(query[id].kind)
    /\ query[id].kind = "describe" =>
         rows[id] \subseteq {[intent |-> query[id].intent, lang |-> query[id].lang]}

\* "Rather than the zero rows that would show a person a hub able to do
\* nothing": a listing that counts as known holds every registration of the
\* language asked for, en-us where none was given.
KnownIsComplete ==
  status["listing"] = "known" =>
    LET said == IF query["listing"].lang = "absent" THEN "en-us" ELSE query["listing"].lang
    IN rows["listing"] = {r \in catalogue : r.lang = said}

\* The listing of every language, asked for after an empty one, holds all the
\* hub has, so no rows means there are none.
AllMeansAll == status["all"] = "known" => rows["all"] = catalogue

\* A denial that announces message types can be read out: the walk delivers
\* as many as the classifier counted, unless one is too long to copy.
AllowedIsReadable ==
  \A frame \in wire :
    LET event == Classify(frame, NoId)
        read == AllowedTypes(event)
    IN event.kind = "DENIED" =>
         \/ read.rc = "OK" /\ read.types = event.types
         \/ read.rc = "NOMEM" /\ \E i \in 1..Len(event.allowed) : event.allowed[i] \in TooLong
=============================================================================
