-------------------------------- MODULE Reply --------------------------------
(***************************************************************************)
(* What an application collects of one question's reply with the helpers   *)
(* of src/ask.c: the speech, the clips and the budget they count against,  *)
(* the stages that answered, and at the end the claim.  A frame is one of  *)
(* AskEvents with, in addition, the fields                                 *)
(*   texts: data.utterance, data.text and data.utterances (a string, or an *)
(*          array by its first element);                                   *)
(*   stage: context.pipeline_id;  meta: data.meta.thalovant_claimed;       *)
(*   clip: the characters of data.binary_data;                             *)
(*   code, numbers: a denial's data.code and the three counts under        *)
(*          data.data, each <<n>>, or <<>> for what is no whole number.    *)
(* A field is "absent", of "another" type, "overlong" (it does not fit its *)
(* buffer), "nul" (it holds an embedded NUL), or the string it is.         *)
(***************************************************************************)
EXTENDS AskEvents, Integers, FiniteSets, SequencesExt

CONSTANTS Own,        \* the question's request id
          Frames,     \* the frames the hub may send
          ClipMax,    \* THALOVANT_AUDIO_CLIP_MAX * 2
          MediaMax,   \* THALOVANT_REPLY_MEDIA_MAX * 2
          SizeMax,    \* SIZE_MAX
          CountMax,   \* THALOVANT_POLICY_COUNT_MAX
          LongMax,    \* LLONG_MAX
          MaxFrames   \* bound of the model: frames of one reply

Errors == {"NOMEM", "MISSING", "INVALID"}

ASSUME ReplyAssumption ==
  /\ {ClipMax, MediaMax, SizeMax, CountMax, LongMax} \subseteq Nat
  /\ ClipMax <= MediaMax /\ MediaMax <= SizeMax /\ CountMax < LongMax
  /\ Own # NoId /\ MaxFrames \in Nat
  /\ \A frame \in Frames :
       /\ frame.clip \in 0..SizeMax /\ frame.stage \notin Errors
       /\ \A i \in 1..3 : frame.numbers[i] \in Seq(Int) /\ Len(frame.numbers[i]) <= 1

VARIABLES seen,       \* history: the frames received
          budget,     \* thalovant_audio_budget
          kept,       \* history: the characters of the clips let through
          offered,    \* history: those of every clip of the reply
          speech,     \* the texts collected
          stages,     \* the distinct stamps, in first-seen order
          asserted, handled, failure, errors,
          quota       \* what a refusal said of an allowance
vars == <<seen, budget, kept, offered, speech, stages, asserted, handled, failure, errors, quota>>

Readable(field) == field \notin {"absent", "another"}
Fits(field) == field # "overlong"

\* extract_text: the first of the three that is a string, "" without one.
\* (mutant: a text that does not fit is taken for none)
ExtractTextOrNone(texts) ==
  LET there == {i \in 1..3 : Readable(texts[i]) /\ Fits(texts[i])}
  IN IF there = {} THEN ""
     ELSE texts[CHOOSE i \in there : \A j \in there : i <= j]
ExtractText(texts) ==
  LET there == {i \in 1..3 : Readable(texts[i])}
  IN IF there = {} THEN ""
     ELSE texts[CHOOSE i \in there : \A j \in there : i <= j]

\* thalovant_ask_classify with its last step.
ClassifyEvent(frame, own) ==
  LET event == Classify(frame, own)
  IN IF event.kind # "IGNORE" /\ ~Fits(ExtractText(frame.texts)) THEN "NOMEM"
     ELSE event.kind

\* event_tokens: the kind, for the accessors below.
\* (mutant: an accessor reads whatever the hub answers, to whomever)
EventKindOfAny(frame, own) ==
  LET kind == ClassifyEvent(frame, NoId) IN IF kind = "IGNORE" THEN "MISSING" ELSE kind
EventKind(frame, own) ==
  LET kind == ClassifyEvent(frame, own) IN IF kind = "IGNORE" THEN "MISSING" ELSE kind

\* event_context_identifier: the stamp, or an error.
\* (mutant: an embedded NUL is copied)
EventIdentifierRaw(frame, own) ==
  IF EventKind(frame, own) \in Errors THEN EventKind(frame, own)
  ELSE IF ~Readable(frame.stage) \/ frame.stage = "" THEN "MISSING"
  ELSE IF ~Fits(frame.stage) THEN "NOMEM" ELSE frame.stage
EventIdentifier(frame, own) ==
  IF EventKind(frame, own) \in Errors THEN EventKind(frame, own)
  ELSE IF ~Readable(frame.stage) \/ frame.stage = "" THEN "MISSING"
  ELSE IF ~Fits(frame.stage) THEN "NOMEM"
  ELSE IF frame.stage = "nul" THEN "INVALID" ELSE frame.stage

\* thalovant_ask_event_claim_asserted: the literal true of a speak event.
ClaimAsserted(frame, own) == EventKind(frame, own) = "SPEAK" /\ frame.meta = "true"

\* refusal_count.  strtoll clamps what it cannot hold, and says so.
\* (mutant: what it clamped is reported)
RefusalCountClamped(number) ==
  IF number = <<>> \/ number[1] < 0 THEN 0
  ELSE IF number[1] > LongMax THEN LongMax ELSE number[1]
RefusalCount(number) ==
  IF number = <<>> \/ number[1] \notin -LongMax - 1 .. LongMax THEN 0
  ELSE IF number[1] \notin 0..CountMax THEN 0 ELSE number[1]

\* thalovant_ask_refusal, by its code and counts; the other strings it copies
\* fail as the code does.
NoQuota == [hasQuota |-> FALSE, counts |-> <<0, 0, 0>>]
Refusal(frame, own) ==
  LET kind == EventKind(frame, own)
  IN IF kind \in Errors THEN [rc |-> kind, quota |-> NoQuota]
     ELSE IF kind # "POLICY_DENIED" THEN [rc |-> "MISSING", quota |-> NoQuota]
     ELSE IF ~Fits(frame.code) THEN [rc |-> "NOMEM", quota |-> NoQuota]
     ELSE [rc |-> "OK",
           quota |-> IF frame.code # "intent_quota_exceeded" THEN NoQuota
                     ELSE [hasQuota |-> TRUE,
                           counts |-> [i \in 1..3 |-> RefusalCount(frame.numbers[i])]]]

\* thalovant_audio_budget_accept; size_t arithmetic is modulo SizeMax + 1.
\* (mutant: only the sum is compared with the limit, and wraps)
BudgetAcceptsBySum(b, chars) == (b.encoded + chars) % (SizeMax + 1) <= MediaMax
\* (mutant: a clip that fills the budget exactly is dropped)
BudgetAcceptsLess(b, chars) ==
  /\ chars <= ClipMax
  /\ b.encoded <= MediaMax
  /\ chars < (MediaMax - b.encoded) % (SizeMax + 1)
BudgetAccepts(b, chars) ==
  /\ chars <= ClipMax
  /\ b.encoded <= MediaMax
  /\ chars <= (MediaMax - b.encoded) % (SizeMax + 1)
BudgetAfter(b, chars) ==
  IF BudgetAccepts(b, chars) THEN [b EXCEPT !.encoded = (@ + chars) % (SizeMax + 1)]
  ELSE IF b.dropped < SizeMax THEN [b EXCEPT !.dropped = @ + 1] ELSE b

\* thalovant_reply_claimed_with_meta.  A stage is modelled by whether its
\* name contains "fallback".
IsFallback(stage) == stage \in {"fallback", "fallback_high"}
\* (mutant: the assertion is looked at before the failure)
ClaimedAssertedFirst(done, failed, stamps, claim) ==
  \/ claim
  \/ /\ done /\ ~failed
     /\ \/ \A i \in 1..Len(stamps) : stamps[i] = ""
        \/ \E i \in 1..Len(stamps) : stamps[i] # "" /\ ~IsFallback(stamps[i])
Claimed(done, failed, stamps, claim) ==
  /\ done /\ ~failed
  /\ \/ claim
     \/ \A i \in 1..Len(stamps) : stamps[i] = ""
     \/ \E i \in 1..Len(stamps) : stamps[i] # "" /\ ~IsFallback(stamps[i])
-----------------------------------------------------------------------------
\* Frames of the reply: addressed to the question, of a kind it knows.
IsOwn(frame) == /\ frame.form = "frame" /\ KindOf(frame.name) # "IGNORE"
                /\ EventId(frame) = Own
Text(frame) == IF Readable(frame.texts[1]) THEN frame.texts[1]
               ELSE IF Readable(frame.texts[2]) THEN frame.texts[2]
               ELSE IF Readable(frame.texts[3]) THEN frame.texts[3] ELSE ""
IsClip(frame) == IsOwn(frame) /\ Fits(Text(frame)) /\ KindOf(frame.name) = "AUDIO"

Init == /\ seen = <<>> /\ budget = [encoded |-> 0, dropped |-> 0] /\ kept = 0 /\ offered = 0
        /\ speech = <<>> /\ stages = <<>> /\ asserted = FALSE
        /\ handled = FALSE /\ failure = "none" /\ errors = 0
        /\ quota = NoQuota

Terminal == failure = "hard"

\* ask.h: the stamps of every correlated event, distinct, in first-seen order.
CollectStamp(frame) ==
  LET stage == EventIdentifier(frame, Own)
  IN stages' = IF stage \in Errors \/ Contains(stages, stage)
               THEN stages ELSE Append(stages, stage)

Receive(frame) ==
  LET kind == ClassifyEvent(frame, Own)
      text == ExtractText(frame.texts)
      keep == kind = "AUDIO" /\ BudgetAccepts(budget, frame.clip)
  IN /\ ~Terminal /\ Len(seen) < MaxFrames
     /\ seen' = Append(seen, frame)
     /\ errors' = IF kind = "NOMEM" THEN errors + 1 ELSE errors
     /\ CollectStamp(frame)
     /\ asserted' = (asserted \/ ClaimAsserted(frame, Own))
     /\ budget' = IF kind = "AUDIO" THEN BudgetAfter(budget, frame.clip) ELSE budget
     /\ kept' = IF keep THEN kept + frame.clip ELSE kept
     /\ offered' = IF IsClip(frame) THEN offered + frame.clip ELSE offered
     /\ speech' = IF kind = "SPEAK" /\ text # "" /\ (speech = <<>> \/ Last(speech) # text)
                  THEN Append(speech, text) ELSE speech
     /\ handled' = (handled \/ kind = "HANDLED")
     /\ failure' = CASE kind \in {"POLICY_DENIED", "QUERY_TIMEOUT"} -> "hard"
                     [] kind = "INTENT_FAILURE" -> "soft"
                     [] kind \in {"SPEAK", "HANDLED"} -> "none"
                     [] OTHER -> failure
     /\ quota' = IF Refusal(frame, Own).rc = "OK" THEN Refusal(frame, Own).quota ELSE quota

Next == \E frame \in Frames : Receive(frame)
Spec == Init /\ [][Next]_vars
-----------------------------------------------------------------------------
Heard == {i \in 1..Len(seen) : IsOwn(seen[i]) /\ Fits(Text(seen[i]))}
HeardOf(kinds) == {i \in Heard : KindOf(seen[i].name) \in kinds}

\* Types; a stamp collected is a name, once, and none was cut at a NUL.
TypeOK ==
  /\ seen \in Seq(Frames) /\ Len(seen) <= MaxFrames
  /\ budget \in [encoded : 0..SizeMax, dropped : 0..SizeMax]
  /\ kept \in Nat /\ errors \in Nat
  /\ {asserted, handled} \subseteq BOOLEAN /\ failure \in {"none", "soft", "hard"}
  /\ IsInjective(stages)
  /\ ToSet(stages) \cap {"", "absent", "another", "overlong", "nul"} = {}

\* The clips kept for a reply never exceed its budget, and the budget counts
\* exactly them, whatever sizes the hub announces.
MediaWithinBudget == budget.encoded = kept /\ kept <= MediaMax

\* A reply whose clips are all within the limits loses none of them.
DropsAreDue ==
  \/ budget.dropped = 0
  \/ MediaMax < offered
  \/ \E i \in 1..Len(seen) : IsClip(seen[i]) /\ seen[i].clip > ClipMax

\* The claim is what the frames of this reply say, in any order: it was
\* handled, nothing said after its last miss failed it, and a speech asserted
\* it, or a stage that is no fallback answered, or no stage gave its name.
\* Frames of other questions, other event kinds and truths that are strings
\* have no part in it.
ClaimIsEarned ==
  Claimed(handled, failure # "none", stages, asserted) =
    LET named == {i \in Heard : seen[i].stage \notin
                    {"", "absent", "another", "overlong", "nul"}}
    IN /\ HeardOf({"HANDLED"}) # {}
       /\ HeardOf({"POLICY_DENIED", "QUERY_TIMEOUT"}) = {}
       /\ \A i \in HeardOf({"INTENT_FAILURE"}) :
            \E j \in HeardOf({"SPEAK", "HANDLED"}) : j > i
       /\ \/ \E i \in HeardOf({"SPEAK"}) : seen[i].meta = "true"
          \/ \E i \in named : ~IsFallback(seen[i].stage)
          \/ named = {}

\* An allowance is told only by a denial that is about one, and every number
\* told is one the hub sent; what no count can be is told as 0.
AllowanceIsSent ==
  LET last == Last(seen)
  IN IF Terminal /\ last.name = "hive.policy.denied" /\ last.code = "intent_quota_exceeded"
     THEN \A i \in 1..3 : quota.counts[i] = IF last.numbers[i] \in {<<n>> : n \in 0..CountMax}
                                           THEN last.numbers[i][1] ELSE 0
     ELSE quota = NoQuota

\* No text is lost without a word: every text that is not collected was
\* reported as an error, and none was cut or taken from a lesser field.
TextsAccounted ==
  /\ errors = Cardinality({i \in 1..Len(seen) : IsOwn(seen[i]) /\ ~Fits(Text(seen[i]))})
  /\ ToSet(speech) = {Text(seen[i]) : i \in HeardOf({"SPEAK"})} \ {""}

\* What the hub sent for the question is what the application has of it.
RepliesAreWhole == TypeOK /\ TextsAccounted /\ AllowanceIsSent /\ DropsAreDue
=============================================================================
