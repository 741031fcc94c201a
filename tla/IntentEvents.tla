---------------------------- MODULE IntentEvents ----------------------------
(***************************************************************************)
(* What src/intents.c asks the hub about its intents, and what it makes of *)
(* the replies: the queries, thalovant_intent_classify and the walkers.    *)
(*                                                                         *)
(* A text is what read_text makes of it: "absent" (or null, or no text),   *)
(* "" (blank), "overlong" (more than its buffer), or a name.  A frame is   *)
(*   form               a HiveMessage "frame", the "bare" bus payload,     *)
(*                      "another" message, or "malformed" JSON             *)
(*   name               the bus event's type                               *)
(*   context, session, data   the texts under the three names of a request *)
(*                      id, <<>> where there is no such object             *)
(*   langs              the lang of data, of context and of the session    *)
(*   fits               error, denied_type, code and reason fit            *)
(*   ok, list, items    data.ok; whether the list is there, and its items  *)
(*   denied, allowed    what is refused; the items of data.data.allowed    *)
(***************************************************************************)
EXTENDS Naturals, Sequences, FiniteSetsExt, SequencesExt

NoId == ""
Missing == {"absent", ""}

FirstOf(texts) ==
  LET there == {i \in 1..Len(texts) : texts[i] \notin Missing}
  IN IF there = {} THEN "" ELSE texts[Min(there)]

-----------------------------------------------------------------------------
(* Queries. *)

\* The language of a query, and where it is written: data, context, session.
\* list_all names none anywhere; a listing or a describe without one says en-us.
\* (mutant: the default goes into the context of a query for all languages)
QueryLangsAlwaysDefault(query, lang) ==
  LET said == IF lang = "absent" THEN "en-us" ELSE lang
  IN CASE query = "list_all" -> <<"absent", said, said>>
       [] query = "skills" -> <<"absent", "absent", "absent">>
       [] OTHER -> <<said, said, said>>
QueryLangs(query, lang) ==
  LET said == IF lang = "absent" THEN "en-us" ELSE lang
  IN CASE query \in {"list_all", "skills"} -> <<"absent", "absent", "absent">>
       [] OTHER -> <<said, said, said>>

-----------------------------------------------------------------------------
(* Replies. *)

KindOf(name) ==
  CASE name = "ovos.intent.list.response" -> "LIST"
    [] name = "ovos.intent.describe.response" -> "DESCRIBE"
    [] name = "hive.policy.denied" -> "DENIED"
    [] name = "ovos.skills.fallback.list.response" -> "FALLBACKS"
    [] name = "ovos.skills.list.response" -> "SKILLS"
    [] OTHER -> "IGNORE"

\* The request id of a reply: context, then its session, then data, each under
\* three names; a blank one is passed over.
ReplyId(frame) ==
  LET inSession == IF frame.context = <<>> THEN "" ELSE FirstOf(frame.session)
  IN FirstOf(<<FirstOf(frame.context), inSession, FirstOf(frame.data)>>)

\* walk_allowed: where it stops, and how many types it passes on the way.  An
\* item is a "type", "blank" (to isspace, as "feed" is), "nul" (an escaped one
\* alone, one byte long and so delivered), "number" or another value, too long
\* for 64 bytes ("wide" if of spaces only: it is measured before it is
\* trimmed), or "malformed".
\* counting: no callback; an entry too long to copy still counts.
TooLong == {"long", "wide", "overlong"}
AllowedStop(allowed, counting) ==
  {i \in 1..Len(allowed) : \/ allowed[i] = "malformed"
                           \/ allowed[i] \in TooLong /\ ~counting}
TypesBefore(stops, allowed) ==
  Cardinality({i \in 1..Len(allowed) : /\ \A stop \in stops : i < stop
                                       /\ allowed[i] \in {"type", "nul"} \cup TooLong})
EndsMalformed(stops, allowed) ==
  \E i \in stops : allowed[i] = "malformed" /\ \A j \in stops : i <= j
\* (mutant: a list that cannot be read to its end counts as far as it goes)
WalkAllowedPartly(allowed, counting) ==
  LET stops == AllowedStop(allowed, counting)
  IN [rc |-> IF stops = {} \/ counting THEN "OK"
             ELSE IF EndsMalformed(stops, allowed) THEN "JSON" ELSE "NOMEM",
      types |-> TypesBefore(stops, allowed)]
WalkAllowed(allowed, counting) ==
  LET stops == AllowedStop(allowed, counting)
  IN [rc |-> IF stops = {} THEN "OK"
             ELSE IF EndsMalformed(stops, allowed) THEN "JSON" ELSE "NOMEM",
      types |-> TypesBefore(stops, allowed)]

Ignored == [rc |-> "OK", kind |-> "IGNORE", id |-> NoId, lang |-> "", sessionLang |-> "",
            ok |-> TRUE, list |-> FALSE, items |-> <<>>, denied |-> "", types |-> 0,
            allowed |-> <<>>]
Refused(code) == [Ignored EXCEPT !.rc = code]

HasMalformed(items) == \E i \in 1..Len(items) : items[i].form = "malformed"

\* thalovant_intent_classify.  own = NoId: NULL, any request's.
Described(frame, kind, id) ==
  [Ignored EXCEPT
     !.kind = kind, !.id = id,
     !.lang = FirstOf(frame.langs),
     !.sessionLang = IF frame.langs[3] \in Missing THEN "" ELSE frame.langs[3]]
Classified(frame, kind, id) ==
  LET counted == WalkAllowed(frame.allowed, TRUE)
  IN IF "overlong" \in {FirstOf(frame.langs), frame.langs[3]} \/ ~frame.fits
     THEN Refused("NOMEM")
     ELSE IF kind = "DENIED"
     THEN IF counted.rc = "OK" /\ counted.types > 0
          THEN [Described(frame, kind, id) EXCEPT
                  !.ok = FALSE, !.denied = frame.denied,
                  !.types = counted.types, !.allowed = frame.allowed]
          ELSE [Described(frame, kind, id) EXCEPT !.ok = FALSE, !.denied = frame.denied]
     ELSE IF kind \in {"FALLBACKS", "SKILLS"} /\ frame.list /\ HasMalformed(frame.items)
     THEN Refused("JSON")
     ELSE [Described(frame, kind, id) EXCEPT
             !.ok = frame.ok, !.list = frame.list,
             !.items = IF frame.list THEN frame.items ELSE <<>>]

\* (mutant: any reply is taken for one's own)
ClassifyAnyId(frame, own) ==
  IF frame.form = "malformed" THEN Refused("JSON")
  ELSE IF frame.form = "another" \/ KindOf(frame.name) = "IGNORE" THEN Ignored
  ELSE Classified(frame, KindOf(frame.name), ReplyId(frame))
Classify(frame, own) ==
  LET id == ReplyId(frame)
  IN IF frame.form = "malformed" THEN Refused("JSON")
     ELSE IF frame.form = "another" \/ KindOf(frame.name) = "IGNORE" THEN Ignored
     ELSE IF id = "overlong" THEN Refused("NOMEM")
     ELSE IF own # NoId /\ id \notin {NoId, own} THEN Ignored
     ELSE Classified(frame, KindOf(frame.name), id)

-----------------------------------------------------------------------------
(* Walkers. *)

\* thalovant_intent_allowed_types with a callback that wants them all.
AllowedTypes(event) ==
  IF event.kind # "DENIED" THEN [rc |-> "INVALID", types |-> 0]
  ELSE WalkAllowed(event.allowed, FALSE)

\* fill_registration, fill_definition: an item is an object (for a definition:
\* one that holds a definition object), another value, or malformed; rest: its
\* optional texts fit.
Item == [form : {"object", "value", "malformed"}, skill : STRING, intent : STRING,
         lang : STRING, rest : BOOLEAN]
Fill(item) ==
  IF item.form = "malformed" THEN "error"
  ELSE IF item.form = "value" \/ item.skill \in Missing THEN "skip"
  ELSE IF item.skill = "overlong" THEN "error"
  ELSE IF item.intent \in Missing THEN "skip"
  ELSE IF item.intent = "overlong" \/ ~item.rest THEN "error"
  ELSE "named"

\* walkable: what an event says before its items are looked at.
\* (mutant: a refused listing is an empty one)
EntryIgnoresRefusal(event, kind) ==
  CASE event.kind = "DENIED" -> "POLICY_DENIED"
    [] event.kind \notin {"DENIED", kind} -> "INVALID"
    [] OTHER -> "OK"
Entry(event, kind) ==
  CASE event.kind = "DENIED" -> "POLICY_DENIED"
    [] event.kind \notin {"DENIED", kind} -> "INVALID"
    [] event.kind = kind /\ ~event.ok /\ kind = "LIST" -> "HUB_REFUSED"
    [] OTHER -> "OK"

\* thalovant_intent_list_rows and thalovant_intent_definitions, with a callback
\* that wants them all: the code and the items delivered (by position, the
\* lowest first), up to the first one that cannot be read.
WalkStop(items) == {i \in 1..Len(items) : Fill(items[i]) = "error"}
Walk(event, kind) ==
  LET stops == WalkStop(event.items)
      named == {i \in 1..Len(event.items) : /\ \A stop \in stops : i < stop
                                           /\ Fill(event.items[i]) = "named"}
  IN IF Entry(event, kind) # "OK" THEN [rc |-> Entry(event, kind), delivered |-> {}]
     ELSE IF ~event.ok THEN [rc |-> "OK", delivered |-> {}]
     ELSE [rc |-> IF stops = {} THEN "OK" ELSE "ERROR", delivered |-> named]
=============================================================================
