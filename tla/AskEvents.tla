----------------------------- MODULE AskEvents -----------------------------
(***************************************************************************)
(* What src/ask.c makes of one frame: which event it is, for which         *)
(* request, and whose refusal.  A frame is a record                        *)
(*   [form, name, context, session, data, denied]                          *)
(* form: a HiveMessage "frame", the "bare" bus payload, or "another" kind  *)
(* of message; name: the bus event's type; context, session, data: what    *)
(* each object holds under the three names of a request id, <<>> where     *)
(* there is no such object; denied: the type a denial names.               *)
(***************************************************************************)
EXTENDS Naturals, Sequences

NoId == ""
Utterance == "recognizer_loop:utterance"

KindOf(name) ==
  CASE name \in {"speak", "ovos.utterance.speak"} -> "SPEAK"
    [] name = "mycroft.audio.queue" -> "AUDIO"
    [] name = "ovos.utterance.handled" -> "HANDLED"
    [] name \in {"complete_intent_failure", "ovos.intent.unmatched"} -> "INTENT_FAILURE"
    [] name = "hive.policy.denied" -> "POLICY_DENIED"
    [] name = "hive.query.timeout" -> "QUERY_TIMEOUT"
    [] OTHER -> "IGNORE"

\* request_id_from: the first of request_id, thalovant_request_id and
\* correlation_id that is there and not null, unless it is blank.
RequestIdFrom(object) ==
  LET there == {i \in 1..Len(object) : object[i] \notin {"absent", "null"}}
      first == CHOOSE i \in there : \A j \in there : i <= j
  IN IF there = {} THEN NoId ELSE object[first]

\* (mutant: the session is looked at before the context)
EventIdSessionFirst(frame) ==
  LET inContext == RequestIdFrom(frame.context)
      inSession == RequestIdFrom(frame.session)
  IN IF inSession # NoId THEN inSession
     ELSE IF inContext # NoId THEN inContext ELSE RequestIdFrom(frame.data)
EventId(frame) ==
  LET inContext == RequestIdFrom(frame.context)
      inSession == RequestIdFrom(frame.session)
  IN IF inContext # NoId THEN inContext
     ELSE IF frame.context # <<>> /\ inSession # NoId THEN inSession
     ELSE RequestIdFrom(frame.data)

Ignored == [kind |-> "IGNORE", id |-> NoId]

\* thalovant_ask_classify.  own = NoId: NULL, any request's.
\* (mutant: an event that carries no id is taken for one's own)
ClassifyKeepsUnstamped(frame, own) ==
  LET id == EventId(frame)
  IN IF frame.form # "frame" \/ KindOf(frame.name) = "IGNORE" THEN Ignored
     ELSE IF own # NoId /\ id \notin {own, NoId} THEN Ignored
     ELSE [kind |-> KindOf(frame.name), id |-> id]
Classify(frame, own) ==
  LET id == EventId(frame)
  IN IF frame.form # "frame" \/ KindOf(frame.name) = "IGNORE" THEN Ignored
     ELSE IF own # NoId /\ id # own THEN Ignored
     ELSE [kind |-> KindOf(frame.name), id |-> id]

\* thalovant_refusal_belongs_to_ask.
\* (mutant: utterances nobody waits for are not counted)
RefusalBelongsIgnoresSends(id, own, denied, asks, queries, sends) ==
  IF id # NoId THEN id = own
  ELSE denied = Utterance /\ asks = 1 /\ queries = 0
RefusalBelongs(id, own, denied, asks, queries, sends) ==
  IF id # NoId THEN id = own
  ELSE denied = Utterance /\ asks = 1 /\ queries = 0 /\ sends = 0
=============================================================================
