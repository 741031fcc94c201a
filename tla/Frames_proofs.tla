--------------------------- MODULE Frames_proofs ---------------------------
(* What is made of frames is what was meant by them, for every question, key *)
(* and text. Of a reply an application has what the hub sent for it, however *)
(* many frames of it and of others come in whatever order, and the media     *)
(* budget holds though size_t wraps. The envelopes of the pre-shared key     *)
(* hold their messages and say nothing else. A frame of JSON members and one *)
(* of bits is read as it was written, or refused for a reason. The tokens of *)
(* any document nest as their parents say.                                   *)
EXTENDS Reply, BinaryFrame, LegacyWire, JsonTokens, FiniteSetTheorems, SequenceTheorems, WellFoundedInduction, TLAPS

(* Replies.                                                                *)
\* The budget is what was kept, and neither of its counters has wrapped.
BudgetInv == /\ budget \in [encoded : 0..MediaMax, dropped : 0..SizeMax]
             /\ kept = budget.encoded

-----------------------------------------------------------------------------
\* A size_t that does not reach SizeMax + 1 is the number it is.
LEMMA NoWrap == ASSUME NEW top \in Nat, NEW n \in 0..top PROVE n % (top + 1) = n
  OBVIOUS

\* As long as the budget is within the limit, a clip is let through exactly if
\* it fits what is left, and the sum is the sum.
LEMMA AcceptsWhatFits ==
  ASSUME NEW b \in [encoded : 0..MediaMax, dropped : 0..SizeMax], NEW chars \in 0..SizeMax
  PROVE  /\ BudgetAccepts(b, chars) => chars <= MediaMax - b.encoded
         /\ BudgetAccepts(b, chars) => BudgetAfter(b, chars) = [b EXCEPT !.encoded = b.encoded + chars]
         /\ BudgetAfter(b, chars) \in [encoded : 0..MediaMax, dropped : 0..SizeMax]
         /\ ~BudgetAccepts(b, chars) => BudgetAfter(b, chars).encoded = b.encoded
<1> DEFINE left == MediaMax - b.encoded
           sum == b.encoded + chars
<1>0. /\ MediaMax \in Nat /\ SizeMax \in Nat /\ MediaMax <= SizeMax
      /\ b.encoded \in 0..MediaMax /\ b.dropped \in 0..SizeMax /\ chars \in 0..SizeMax
  BY ReplyAssumption
<1>1. left \in 0..SizeMax /\ left % (SizeMax + 1) = left
  <2>1. left \in 0..SizeMax BY <1>0
  <2> QED BY <2>1, <1>0, NoWrap
<1>2. BudgetAccepts(b, chars) => chars <= left
  BY <1>1 DEF BudgetAccepts
<1>3. BudgetAccepts(b, chars) => sum \in 0..MediaMax /\ sum % (SizeMax + 1) = sum
  <2> SUFFICES ASSUME BudgetAccepts(b, chars)
               PROVE  sum \in 0..MediaMax /\ sum % (SizeMax + 1) = sum
    OBVIOUS
  <2>1. chars <= left BY <1>2
  <2>2. sum \in 0..MediaMax BY <2>1, <1>0
  <2>3. sum \in 0..SizeMax BY <2>2, <1>0
  <2> QED BY <2>2, <2>3, <1>0, NoWrap
<1>4. BudgetAccepts(b, chars) => BudgetAfter(b, chars) = [b EXCEPT !.encoded = sum]
  BY <1>3 DEF BudgetAfter
<1>5. ~BudgetAccepts(b, chars) =>
        /\ BudgetAfter(b, chars) \in [encoded : 0..MediaMax, dropped : 0..SizeMax]
        /\ BudgetAfter(b, chars).encoded = b.encoded
  BY <1>0 DEF BudgetAfter
<1> HIDE DEF left, sum
<1>6. BudgetAccepts(b, chars) => BudgetAfter(b, chars) \in [encoded : 0..MediaMax, dropped : 0..SizeMax]
  BY <1>3, <1>4
<1> QED BY <1>2, <1>4, <1>5, <1>6 DEF left, sum

-----------------------------------------------------------------------------
LEMMA BudgetInit == Init => BudgetInv
  BY ReplyAssumption DEF Init, BudgetInv

\* A frame changes the budget only if it is an own clip, and then as the lemma
\* says.
LEMMA BudgetStep == BudgetInv /\ [Next]_vars => BudgetInv'
<1> SUFFICES ASSUME BudgetInv, [Next]_vars PROVE BudgetInv'
  OBVIOUS
<1>1. CASE UNCHANGED vars
  BY <1>1 DEF vars, BudgetInv
<1>2. ASSUME NEW input \in Frames, Receive(input) PROVE BudgetInv'
  <2> DEFINE audio == ClassifyEvent(input, Own) = "AUDIO"
             accepts == BudgetAccepts(budget, input.clip)
  <2>1. /\ budget' = IF audio THEN BudgetAfter(budget, input.clip) ELSE budget
        /\ kept' = IF audio /\ accepts THEN kept + input.clip ELSE kept
    BY <1>2 DEF Receive
  <2>2. input.clip \in 0..SizeMax
    BY ReplyAssumption
  <2>3. /\ budget \in [encoded : 0..MediaMax, dropped : 0..SizeMax]
        /\ kept = budget.encoded
    BY DEF BudgetInv
  <2>4. /\ accepts => BudgetAfter(budget, input.clip) = [budget EXCEPT !.encoded = budget.encoded + input.clip]
        /\ BudgetAfter(budget, input.clip) \in [encoded : 0..MediaMax, dropped : 0..SizeMax]
        /\ ~accepts => BudgetAfter(budget, input.clip).encoded = budget.encoded
    BY <2>2, <2>3, AcceptsWhatFits
  <2> HIDE DEF audio, accepts
  <2>5. CASE ~audio
    BY <2>5, <2>1, <2>3 DEF BudgetInv
  <2>6. CASE audio /\ accepts
    BY <2>6, <2>1, <2>3, <2>4 DEF BudgetInv
  <2>7. CASE audio /\ ~accepts
    BY <2>7, <2>1, <2>3, <2>4 DEF BudgetInv
  <2> QED BY <2>5, <2>6, <2>7
<1> QED BY <1>1, <1>2 DEF Next

\* The clips kept for a reply never exceed its budget, and the budget counts
\* exactly them: thalovant_audio_budget_accept, whatever the limits are, as
\* long as they fit a size_t, and whatever sizes the hub announces.
THEOREM MediaBounded == Spec => []MediaWithinBudget
<1>1. BudgetInv => MediaWithinBudget
  BY ReplyAssumption DEF BudgetInv, MediaWithinBudget
<1> QED BY BudgetInit, BudgetStep, <1>1, PTL DEF Spec

-----------------------------------------------------------------------------
(* What the library says of a frame, by the frame's own fields. *)

\* A frame of the reply whose text can be read.
IsHeard(input) == IsOwn(input) /\ Fits(Text(input))
Kinds == {"SPEAK", "AUDIO", "HANDLED", "INTENT_FAILURE", "POLICY_DENIED", "QUERY_TIMEOUT"}
IsNamed(input) == input.stage \notin {"", "absent", "another", "overlong", "nul"}

\* The text of an event is the first of the three that is a string.
LEMMA TextIs == ASSUME NEW input PROVE ExtractText(input.texts) = Text(input)
<1> DEFINE texts == input.texts
<1> DEFINE there == {i \in 1..3 : Readable(texts[i])}
<1> DEFINE first == CHOOSE i \in there : \A j \in there : i <= j
<1>1. ExtractText(texts) = IF there = {} THEN "" ELSE texts[first]
  BY DEF ExtractText
<1>2. \A i \in 1..3 : i = 1 \/ i = 2 \/ i = 3
  OBVIOUS
<1>3. Text(input) = IF Readable(texts[1]) THEN texts[1] ELSE IF Readable(texts[2]) THEN texts[2]
                    ELSE IF Readable(texts[3]) THEN texts[3] ELSE ""
  BY DEF Text
<1>4. /\ 1 \in there <=> Readable(texts[1])
      /\ 2 \in there <=> Readable(texts[2])
      /\ 3 \in there <=> Readable(texts[3])
      /\ \A i \in there : i = 1 \/ i = 2 \/ i = 3
  BY <1>2
<1> HIDE DEF there, texts
<1>5. ASSUME NEW k \in there, \A j \in there : k <= j PROVE first = k
  <2>1. first \in there /\ \A j \in there : first <= j
    BY <1>5
  <2>2. first <= k /\ k <= first /\ k \in Int /\ first \in Int
    BY <1>4, <1>5, <2>1
  <2> QED BY <2>2
<1> HIDE DEF first
<1>6. CASE Readable(texts[1])
  <2>1. first = 1
    BY <1>4, <1>5, <1>6
  <2> QED BY <1>1, <1>3, <1>4, <1>6, <2>1 DEF texts
<1>7. CASE ~Readable(texts[1]) /\ Readable(texts[2])
  <2>1. 2 \in there /\ \A j \in there : 2 <= j
    BY <1>4, <1>7
  <2>2. first = 2
    BY <1>5, <2>1
  <2> QED BY <1>1, <1>3, <1>7, <2>1, <2>2 DEF texts
<1>8. CASE ~Readable(texts[1]) /\ ~Readable(texts[2]) /\ Readable(texts[3])
  <2>1. 3 \in there /\ \A j \in there : 3 <= j
    BY <1>4, <1>8
  <2>2. first = 3
    BY <1>5, <2>1
  <2> QED BY <1>1, <1>3, <1>8, <2>1, <2>2 DEF texts
<1>9. CASE ~Readable(texts[1]) /\ ~Readable(texts[2]) /\ ~Readable(texts[3])
  <2>1. there = {}
    BY <1>4, <1>9
  <2> QED BY <1>1, <1>3, <1>9, <2>1 DEF texts
<1> QED BY <1>6, <1>7, <1>8, <1>9

\* What thalovant_ask_classify says of a frame, for the question.
LEMMA SaysIs ==
  ASSUME NEW input
  PROVE  /\ ClassifyEvent(input, Own) = IF ~IsOwn(input) THEN "IGNORE"
                                        ELSE IF IsHeard(input) THEN KindOf(input.name) ELSE "NOMEM"
         /\ IsOwn(input) => KindOf(input.name) \in Kinds
<1>1. KindOf(input.name) \in Kinds \cup {"IGNORE"}
  BY DEF KindOf, Kinds
<1>2. Own # NoId
  BY ReplyAssumption
<1>3. Classify(input, Own).kind = IF IsOwn(input) THEN KindOf(input.name) ELSE "IGNORE"
  BY <1>2 DEF Classify, IsOwn, Ignored
<1>4. ExtractText(input.texts) = Text(input)
  BY TextIs
<1>5. "IGNORE" \notin Kinds
  BY DEF Kinds
<1>6. IsOwn(input) => KindOf(input.name) \in Kinds
  BY <1>1 DEF IsOwn
<1> QED BY <1>3, <1>4, <1>5, <1>6 DEF ClassifyEvent, IsHeard

\* What the accessors say of it.
LEMMA AccessorsSay ==
  ASSUME NEW input \in Frames
  PROVE  /\ (EventIdentifier(input, Own) \notin Errors) <=> (IsHeard(input) /\ IsNamed(input))
         /\ IsHeard(input) /\ IsNamed(input) => EventIdentifier(input, Own) = input.stage
         /\ ClaimAsserted(input, Own) <=>
              IsHeard(input) /\ KindOf(input.name) = "SPEAK" /\ input.meta = "true"
         /\ (Refusal(input, Own).rc = "OK") <=>
              IsHeard(input) /\ KindOf(input.name) = "POLICY_DENIED" /\ Fits(input.code)
         /\ Refusal(input, Own).rc = "OK" =>
              Refusal(input, Own).quota =
                IF input.code # "intent_quota_exceeded" THEN NoQuota
                ELSE [hasQuota |-> TRUE,
                      counts |-> [i \in 1..3 |-> RefusalCount(input.numbers[i])]]
<1>1. /\ ClassifyEvent(input, Own) = IF ~IsOwn(input) THEN "IGNORE"
                                     ELSE IF IsHeard(input) THEN KindOf(input.name) ELSE "NOMEM"
      /\ IsOwn(input) => KindOf(input.name) \in Kinds
  BY SaysIs
<1>2. IsHeard(input) => IsOwn(input)
  BY DEF IsHeard
<1>3. EventKind(input, Own) = IF ~IsOwn(input) THEN "MISSING"
                              ELSE IF IsHeard(input) THEN KindOf(input.name) ELSE "NOMEM"
  BY <1>1, <1>2 DEF EventKind, Kinds
<1>4. Kinds \cap Errors = {} /\ {"NOMEM", "MISSING", "INVALID"} \subseteq Errors
  BY DEF Kinds, Errors
<1>5. EventKind(input, Own) \notin Errors <=> IsHeard(input)
  BY <1>1, <1>2, <1>3, <1>4
<1>6. input.stage \notin Errors
  BY ReplyAssumption
<1>7. /\ IsHeard(input) /\ IsNamed(input) => EventIdentifier(input, Own) = input.stage
      /\ ~(IsHeard(input) /\ IsNamed(input)) => EventIdentifier(input, Own) \in Errors
  BY <1>4, <1>5 DEF EventIdentifier, IsNamed, Readable, Fits
<1>8. ClaimAsserted(input, Own) <=>
        IsHeard(input) /\ KindOf(input.name) = "SPEAK" /\ input.meta = "true"
  BY <1>2, <1>3 DEF ClaimAsserted
<1>9. EventKind(input, Own) = "POLICY_DENIED" <=> IsHeard(input) /\ KindOf(input.name) = "POLICY_DENIED"
  BY <1>2, <1>3
<1>10. Refusal(input, Own) =
         IF ~IsHeard(input) THEN [rc |-> EventKind(input, Own), quota |-> NoQuota]
         ELSE IF KindOf(input.name) # "POLICY_DENIED" THEN [rc |-> "MISSING", quota |-> NoQuota]
         ELSE IF ~Fits(input.code) THEN [rc |-> "NOMEM", quota |-> NoQuota]
         ELSE [rc |-> "OK",
               quota |-> IF input.code # "intent_quota_exceeded" THEN NoQuota
                         ELSE [hasQuota |-> TRUE,
                               counts |-> [i \in 1..3 |-> RefusalCount(input.numbers[i])]]]
  BY <1>5, <1>9 DEF Refusal
<1>11. ~IsHeard(input) => EventKind(input, Own) # "OK"
  BY <1>3
<1> QED BY <1>6, <1>7, <1>8, <1>10, <1>11

-----------------------------------------------------------------------------
(* The invariant: what was collected, by the frames that came. *)

SeenOK == seen \in Seq(Frames) /\ Len(seen) <= MaxFrames
\* No clip was dropped while everything offered was kept.
OfferedOK == /\ offered \in Nat /\ DropsAreDue
             /\ budget.dropped = 0 => offered = budget.encoded
\* What the flags remember.  A refusal ends the reply.
FlagsOK ==
  /\ {asserted, handled} \subseteq BOOLEAN /\ failure \in {"none", "soft", "hard"}
  /\ handled = TRUE <=> HeardOf({"HANDLED"}) # {}
  /\ asserted = TRUE <=> \E i \in HeardOf({"SPEAK"}) : seen[i].meta = "true"
  /\ failure = "hard" <=> HeardOf({"POLICY_DENIED", "QUERY_TIMEOUT"}) # {}
  /\ failure # "hard" =>
       (failure = "none" <=> \A i \in HeardOf({"INTENT_FAILURE"}) :
                               \E j \in HeardOf({"SPEAK", "HANDLED"}) : j > i)
\* The stamps are those of the frames heard, each once.
StagesOK ==
  /\ stages \in Seq({input.stage : input \in Frames}) /\ IsInjective(stages)
  /\ ToSet(stages) = {seen[i].stage : i \in {j \in Heard : IsNamed(seen[j])}}
SpeechOK ==
  /\ speech \in Seq({Text(input) : input \in Frames})
  /\ errors \in Nat /\ TextsAccounted
QuotaOK == AllowanceIsSent /\ (~Terminal => quota = NoQuota)

IInv == SeenOK /\ BudgetInv /\ OfferedOK /\ FlagsOK /\ StagesOK /\ SpeechOK /\ QuotaOK

-----------------------------------------------------------------------------
(* One frame more. *)

\* What an appended sequence holds.
GrownBy(S, s, e, t) ==
  /\ t \in Seq(S) /\ Len(t) = Len(s) + 1 /\ Len(s) \in Nat
  /\ \A i \in 1..Len(s) : t[i] = s[i]
  /\ t[Len(s) + 1] = e /\ Last(t) = e
  /\ 1..Len(t) = 1..Len(s) \cup {Len(s) + 1} /\ Len(s) + 1 \notin 1..Len(s)
  /\ \A i \in 1..Len(s) : i < Len(s) + 1
  /\ ToSet(t) = ToSet(s) \cup {e}
LEMMA AppendIs ==
  ASSUME NEW S, NEW s \in Seq(S), NEW e \in S
  PROVE  GrownBy(S, s, e, Append(s, e))
<1> DEFINE t == Append(s, e)
<1>1. /\ t \in Seq(S) /\ Len(t) = Len(s) + 1 /\ Len(s) \in Nat
      /\ \A i \in 1..Len(s) : t[i] = s[i]
      /\ t[Len(s) + 1] = e
  OBVIOUS
<1> HIDE DEF t
<1>2. /\ 1..Len(t) = 1..Len(s) \cup {Len(s) + 1} /\ Len(s) + 1 \notin 1..Len(s)
      /\ \A i \in 1..Len(s) : i < Len(s) + 1
  BY <1>1
<1>3. DOMAIN t = 1..Len(t) /\ DOMAIN s = 1..Len(s)
  BY <1>1
<1>4. ToSet(t) = ToSet(s) \cup {e}
  BY <1>1, <1>2, <1>3 DEF ToSet
<1>5. GrownBy(S, s, e, t)
  BY <1>1, <1>2, <1>4 DEF Last, GrownBy
<1> QED BY <1>5 DEF t

\* What a step does to the frames heard.
LEMMA HeardGrows ==
  ASSUME SeenOK, NEW input \in Frames, Receive(input)
  PROVE  /\ SeenOK' /\ Len(seen)' = Len(seen) + 1 /\ seen'[Len(seen) + 1] = input
         /\ \A i \in 1..Len(seen) : seen'[i] = seen[i] /\ i < Len(seen) + 1
         /\ Len(seen) + 1 \notin 1..Len(seen) /\ Last(seen)' = input
         /\ (1..Len(seen))' = 1..Len(seen) \cup {Len(seen) + 1}
         /\ Heard' = Heard \cup (IF IsHeard(input) THEN {Len(seen) + 1} ELSE {})
         /\ \A kinds : HeardOf(kinds)' =
              HeardOf(kinds) \cup
                (IF IsHeard(input) /\ KindOf(input.name) \in kinds THEN {Len(seen) + 1} ELSE {})
         /\ Heard \subseteq 1..Len(seen) /\ \A kinds : HeardOf(kinds) \subseteq 1..Len(seen)
<1> DEFINE n == Len(seen)
<1> DEFINE next == Append(seen, input)
<1>1. seen' = next /\ n < MaxFrames /\ MaxFrames \in Nat
  BY ReplyAssumption DEF Receive
<1>2. /\ next \in Seq(Frames) /\ Len(next) = n + 1 /\ n \in Nat
      /\ \A i \in 1..n : next[i] = seen[i]
      /\ next[n + 1] = input /\ Last(next) = input
      /\ 1..Len(next) = 1..n \cup {n + 1} /\ n + 1 \notin 1..n
      /\ \A i \in 1..n : i < n + 1
  <2>1. seen \in Seq(Frames)
    BY DEF SeenOK
  <2>2. GrownBy(Frames, seen, input, next)
    BY <2>1, AppendIs
  <2> HIDE DEF next
  <2> QED BY <2>2 DEF GrownBy
<1> HIDE DEF n, next
<1>3. SeenOK'
  BY <1>1, <1>2 DEF SeenOK
<1>4. Heard = {i \in 1..n : IsHeard(seen[i])} /\ Heard' = {i \in 1..Len(next) : IsHeard(next[i])}
  BY <1>1 DEF Heard, IsHeard, n
<1>5. Heard' = Heard \cup (IF IsHeard(input) THEN {n + 1} ELSE {})
  BY <1>2, <1>4
<1>6. ASSUME NEW kinds
      PROVE  HeardOf(kinds)' =
               HeardOf(kinds) \cup
                 (IF IsHeard(input) /\ KindOf(input.name) \in kinds THEN {n + 1} ELSE {})
  <2>1. /\ HeardOf(kinds)' = {i \in Heard' : KindOf(next[i].name) \in kinds}
        /\ HeardOf(kinds) = {i \in Heard : KindOf(seen[i].name) \in kinds}
    BY <1>1 DEF HeardOf
  <2>2. \A i \in Heard : next[i] = seen[i]
    BY <1>2, <1>4
  <2>3. CASE IsHeard(input)
    BY <1>2, <1>5, <2>1, <2>2, <2>3
  <2>4. CASE ~IsHeard(input)
    BY <1>5, <2>1, <2>2, <2>4
  <2> QED BY <2>3, <2>4
<1>7. Heard \subseteq 1..n /\ \A kinds : HeardOf(kinds) \subseteq 1..n
  BY <1>4 DEF HeardOf
<1> QED BY <1>1, <1>2, <1>3, <1>5, <1>6, <1>7 DEF n

\* The clips, kept and dropped.
LEMMA OfferedStep ==
  ASSUME SeenOK, BudgetInv, OfferedOK, NEW input \in Frames, Receive(input)
  PROVE  OfferedOK'
<1> DEFINE b == budget
<1> DEFINE n == Len(seen)
<1> DEFINE big == \E i \in 1..n : IsClip(seen[i]) /\ seen[i].clip > ClipMax
<1>1. /\ seen'[n + 1] = input /\ \A i \in 1..n : seen'[i] = seen[i]
      /\ (1..n)' = 1..n \cup {n + 1}
  BY HeardGrows
<1>2. b \in [encoded : 0..MediaMax, dropped : 0..SizeMax] /\ kept = b.encoded
  BY DEF BudgetInv
<1>3. /\ offered \in Nat /\ input.clip \in 0..SizeMax /\ input.clip \in Nat
      /\ MediaMax \in Nat /\ ClipMax \in Nat /\ SizeMax \in Nat
  BY ReplyAssumption DEF OfferedOK
<1>4. IsClip(input) <=> ClassifyEvent(input, Own) = "AUDIO"
  <2>1. "AUDIO" \in Kinds /\ "NOMEM" # "AUDIO" /\ "IGNORE" # "AUDIO"
    BY DEF Kinds
  <2> QED BY <2>1, SaysIs DEF IsClip, IsHeard
<1>5. /\ offered' = IF IsClip(input) THEN offered + input.clip ELSE offered
      /\ budget' = IF IsClip(input) THEN BudgetAfter(b, input.clip) ELSE b
  BY <1>4 DEF Receive
<1>6. big => big'
  BY <1>1
<1>7. IsClip(input) /\ input.clip > ClipMax => big'
  <2>1. n + 1 \in (1..n)'
    BY <1>1
  <2> QED BY <1>1, <2>1
<1>8. /\ b.dropped = 0 \/ MediaMax < offered \/ big
      /\ b.dropped = 0 => offered = b.encoded
      /\ DropsAreDue' <=> (budget'.dropped = 0 \/ MediaMax < offered' \/ big')
  BY DEF OfferedOK, DropsAreDue
<1>9. /\ BudgetAccepts(b, input.clip) =>
           BudgetAfter(b, input.clip) = [b EXCEPT !.encoded = b.encoded + input.clip]
      /\ ~BudgetAccepts(b, input.clip) =>
           BudgetAfter(b, input.clip) = IF b.dropped < SizeMax
                                        THEN [b EXCEPT !.dropped = b.dropped + 1] ELSE b
      /\ ~BudgetAccepts(b, input.clip) =>
           input.clip > ClipMax \/ input.clip > MediaMax - b.encoded
  <2>1. MediaMax - b.encoded \in 0..SizeMax
    BY <1>2, ReplyAssumption
  <2>2. (MediaMax - b.encoded) % (SizeMax + 1) = MediaMax - b.encoded
    BY <1>3, <2>1, NoWrap
  <2>3. ~BudgetAccepts(b, input.clip) =>
           input.clip > ClipMax \/ input.clip > MediaMax - b.encoded
    BY <1>2, <1>3, <2>2 DEF BudgetAccepts
  <2>4. ~BudgetAccepts(b, input.clip) =>
           BudgetAfter(b, input.clip) = IF b.dropped < SizeMax
                                        THEN [b EXCEPT !.dropped = b.dropped + 1] ELSE b
    BY DEF BudgetAfter
  <2> QED BY <1>2, <1>3, <2>3, <2>4, AcceptsWhatFits
<1> HIDE DEF b, big, n
<1>10. CASE ~IsClip(input)
  BY <1>3, <1>5, <1>6, <1>8, <1>10 DEF OfferedOK
<1>11. CASE IsClip(input) /\ BudgetAccepts(b, input.clip)
  <2>1. budget' = [b EXCEPT !.encoded = b.encoded + input.clip] /\ offered' = offered + input.clip
    BY <1>5, <1>9, <1>11
  <2>2. budget'.dropped = b.dropped /\ budget'.encoded = b.encoded + input.clip
    BY <1>2, <2>1
  <2>3. offered' \in Nat /\ (MediaMax < offered => MediaMax < offered')
    BY <1>3, <2>1
  <2> QED BY <1>6, <1>8, <2>1, <2>2, <2>3 DEF OfferedOK
<1>12. CASE IsClip(input) /\ ~BudgetAccepts(b, input.clip)
  <2>1. /\ offered' = offered + input.clip
        /\ budget' = IF b.dropped < SizeMax THEN [b EXCEPT !.dropped = b.dropped + 1] ELSE b
    BY <1>5, <1>9, <1>12
  <2>2. input.clip > ClipMax \/ input.clip > MediaMax - b.encoded
    BY <1>9, <1>12
  <2>3. offered' \in Nat /\ (MediaMax < offered => MediaMax < offered')
    BY <1>3, <2>1
  <2>4. budget'.dropped # 0
    <3>1. CASE b.dropped < SizeMax
      BY <1>2, <2>1, <3>1
    <3>2. CASE ~(b.dropped < SizeMax)
      <4>1. b.dropped # 0
        <5>1. SizeMax = 0 => input.clip = 0 /\ MediaMax = 0 /\ b.encoded = 0
          BY <1>2, <1>3, ReplyAssumption
        <5>2. SizeMax # 0
          BY <1>3, <2>2, <5>1
        <5> QED BY <1>2, <1>3, <3>2, <5>2
      <4> QED BY <2>1, <3>2, <4>1
    <3> QED BY <3>1, <3>2
  <2>5. MediaMax < offered' \/ big'
    <3>1. CASE input.clip > ClipMax
      BY <1>7, <1>12, <3>1
    <3>2. CASE input.clip > MediaMax - b.encoded /\ b.dropped = 0
      BY <1>2, <1>3, <1>8, <2>1, <3>2
    <3>3. CASE b.dropped # 0
      BY <1>6, <1>8, <2>3, <3>3
    <3> QED BY <2>2, <3>1, <3>2, <3>3
  <2> QED BY <1>8, <2>3, <2>4, <2>5 DEF OfferedOK
<1> QED BY <1>10, <1>11, <1>12

\* What the flags remember of a frame more.
LEMMA FlagsStep ==
  ASSUME SeenOK, FlagsOK, NEW input \in Frames, Receive(input)
  PROVE  FlagsOK'
<1> DEFINE n == Len(seen)
<1> DEFINE kind == KindOf(input.name)
<1> DEFINE heard == IsHeard(input)
<1> DEFINE event == ClassifyEvent(input, Own)
<1> DEFINE Of(kinds) == HeardOf(kinds)
<1>1. /\ seen'[n + 1] = input /\ \A i \in 1..n : seen'[i] = seen[i] /\ i < n + 1
      /\ n + 1 \notin 1..n
      /\ \A kinds : Of(kinds)' = Of(kinds) \cup (IF heard /\ kind \in kinds THEN {n + 1} ELSE {})
      /\ \A kinds : Of(kinds) \subseteq 1..n
  BY HeardGrows
<1>2. /\ {asserted, handled} \subseteq BOOLEAN /\ failure \in {"none", "soft", "hard"}
      /\ handled = TRUE <=> Of({"HANDLED"}) # {}
      /\ asserted = TRUE <=> \E i \in Of({"SPEAK"}) : seen[i].meta = "true"
      /\ failure = "hard" <=> Of({"POLICY_DENIED", "QUERY_TIMEOUT"}) # {}
      /\ failure # "hard" =>
           (failure = "none" <=> \A i \in Of({"INTENT_FAILURE"}) :
                                   \E j \in Of({"SPEAK", "HANDLED"}) : j > i)
  BY DEF FlagsOK
<1>3. /\ failure # "hard"
      /\ asserted' = (asserted \/ ClaimAsserted(input, Own))
      /\ handled' = (handled \/ event = "HANDLED")
      /\ failure' = CASE event \in {"POLICY_DENIED", "QUERY_TIMEOUT"} -> "hard"
                      [] event = "INTENT_FAILURE" -> "soft"
                      [] event \in {"SPEAK", "HANDLED"} -> "none"
                      [] OTHER -> failure
  BY DEF Receive, Terminal
<1>4. event \in Kinds <=> heard
  BY SaysIs DEF Kinds, IsHeard
<1>5. heard => event = kind
  BY SaysIs DEF IsHeard
<1>6. ClaimAsserted(input, Own) <=> heard /\ kind = "SPEAK" /\ input.meta = "true"
  BY AccessorsSay
<1> HIDE DEF kind, heard, event, n, Of
<1>7. \A k \in Kinds : event = k <=> heard /\ kind = k
  BY <1>4, <1>5
<1>8. {asserted', handled'} \subseteq BOOLEAN
  <2>1. handled \in BOOLEAN /\ asserted \in BOOLEAN
    BY <1>2
  <2>2. (handled \/ event = "HANDLED") \in BOOLEAN
    BY <2>1
  <2>3. (asserted \/ ClaimAsserted(input, Own)) \in BOOLEAN
    BY <2>1
  <2> QED BY <1>3, <2>2, <2>3
<1>9. handled' = TRUE <=> Of({"HANDLED"})' # {}
  <2>1. handled' = TRUE <=> handled = TRUE \/ event = "HANDLED"
    BY <1>2, <1>3
  <2>2. event = "HANDLED" <=> heard /\ kind = "HANDLED"
    BY <1>7 DEF Kinds
  <2>3. Of({"HANDLED"})' = Of({"HANDLED"}) \cup (IF heard /\ kind \in {"HANDLED"} THEN {n + 1} ELSE {})
    BY <1>1
  <2> QED BY <1>2, <2>1, <2>2, <2>3
<1>10. asserted' = TRUE <=> \E i \in Of({"SPEAK"})' : seen'[i].meta = "true"
  <2>1. asserted' = TRUE <=> asserted = TRUE \/ ClaimAsserted(input, Own)
    BY <1>2, <1>3
  <2>2. Of({"SPEAK"})' = Of({"SPEAK"}) \cup (IF heard /\ kind \in {"SPEAK"} THEN {n + 1} ELSE {})
    BY <1>1
  <2>3. (\E i \in Of({"SPEAK"})' : seen'[i].meta = "true")
          <=> \/ \E i \in Of({"SPEAK"}) : seen[i].meta = "true"
              \/ heard /\ kind = "SPEAK" /\ input.meta = "true"
    BY <1>1, <2>2
  <2> QED BY <1>2, <1>6, <2>1, <2>3
<1>11. failure' = "hard" <=> Of({"POLICY_DENIED", "QUERY_TIMEOUT"})' # {}
  <2>1. failure' = "hard" <=> event = "POLICY_DENIED" \/ event = "QUERY_TIMEOUT"
    BY <1>2, <1>3
  <2>2. /\ event = "POLICY_DENIED" <=> heard /\ kind = "POLICY_DENIED"
        /\ event = "QUERY_TIMEOUT" <=> heard /\ kind = "QUERY_TIMEOUT"
    BY <1>7 DEF Kinds
  <2>3. Of({"POLICY_DENIED", "QUERY_TIMEOUT"})' =
          Of({"POLICY_DENIED", "QUERY_TIMEOUT"})
            \cup (IF heard /\ kind \in {"POLICY_DENIED", "QUERY_TIMEOUT"} THEN {n + 1} ELSE {})
    BY <1>1
  <2>4. Of({"POLICY_DENIED", "QUERY_TIMEOUT"}) = {}
    BY <1>2, <1>3
  <2> QED BY <2>1, <2>2, <2>3, <2>4
<1>12. failure' \in {"none", "soft", "hard"}
  BY <1>2, <1>3
<1>13. ASSUME failure' # "hard"
       PROVE  failure' = "none" <=> \A i \in Of({"INTENT_FAILURE"})' :
                                      \E j \in Of({"SPEAK", "HANDLED"})' : j > i
  <2> DEFINE miss == Of({"INTENT_FAILURE"})
  <2> DEFINE good == Of({"SPEAK", "HANDLED"})
  <2>1. /\ miss' = miss \cup (IF heard /\ kind \in {"INTENT_FAILURE"} THEN {n + 1} ELSE {})
        /\ good' = good \cup (IF heard /\ kind \in {"SPEAK", "HANDLED"} THEN {n + 1} ELSE {})
        /\ miss \subseteq 1..n /\ good \subseteq 1..n
    BY <1>1
  <2>2. failure = "none" <=> \A i \in miss : \E j \in good : j > i
    BY <1>2, <1>3
  <2>3. /\ event = "INTENT_FAILURE" <=> heard /\ kind = "INTENT_FAILURE"
        /\ event = "SPEAK" <=> heard /\ kind = "SPEAK"
        /\ event = "HANDLED" <=> heard /\ kind = "HANDLED"
    BY <1>7 DEF Kinds
  <2>4. n \in Nat /\ ~(n + 1 > n + 1) /\ \A i \in 1..n : i < n + 1 /\ n + 1 > i /\ ~(i > n + 1)
    <3>1. n \in Nat
      BY DEF SeenOK, n
    <3> QED BY <3>1
  <2> HIDE DEF miss, good
  <2>5. CASE event = "INTENT_FAILURE"
    <3>1. failure' = "soft"
      BY <1>3, <2>5
    <3>2. n + 1 \in miss' /\ good' = good
      BY <2>1, <2>3, <2>5
    <3>3. \A j \in good' : ~(j > n + 1)
      BY <2>1, <2>4, <3>2
    <3> QED BY <3>1, <3>2, <3>3 DEF miss, good
  <2>6. CASE event \in {"SPEAK", "HANDLED"}
    <3>1. failure' = "none"
      BY <1>3, <2>6
    <3>2. n + 1 \in good' /\ miss' = miss
      BY <2>1, <2>3, <2>6
    <3>3. \A i \in miss' : n + 1 > i
      BY <2>1, <2>4, <3>2
    <3> QED BY <3>1, <3>2, <3>3 DEF miss, good
  <2>7. CASE event \notin {"INTENT_FAILURE", "SPEAK", "HANDLED"}
    <3>1. failure' = failure
      BY <1>3, <1>13, <2>7
    <3>2. miss' = miss /\ good' = good
      BY <2>1, <2>3, <2>7
    <3> QED BY <2>2, <3>1, <3>2 DEF miss, good
  <2> QED BY <2>5, <2>6, <2>7
<1> QED BY <1>8, <1>9, <1>10, <1>11, <1>12, <1>13 DEF FlagsOK, Of

\* The stamps: a new one is appended.
LEMMA StagesStep ==
  ASSUME SeenOK, StagesOK, NEW input \in Frames, Receive(input)
  PROVE  StagesOK'
<1> DEFINE n == Len(seen)
<1> DEFINE Stamp == {f.stage : f \in Frames}
<1> DEFINE named == {j \in Heard : IsNamed(seen[j])}
<1> DEFINE answers == IsHeard(input) /\ IsNamed(input)
<1>1. /\ seen'[n + 1] = input /\ \A i \in 1..n : seen'[i] = seen[i]
      /\ Heard' = Heard \cup (IF IsHeard(input) THEN {n + 1} ELSE {})
      /\ n + 1 \notin 1..n /\ Heard \subseteq 1..n
  BY HeardGrows
<1>2. /\ stages \in Seq(Stamp) /\ IsInjective(stages)
      /\ ToSet(stages) = {seen[i].stage : i \in named}
  BY DEF StagesOK
<1>3. /\ answers => EventIdentifier(input, Own) = input.stage
      /\ EventIdentifier(input, Own) \notin Errors <=> answers
  BY AccessorsSay
<1>4. stages' = IF ~answers \/ Contains(stages, input.stage)
                THEN stages ELSE Append(stages, input.stage)
  <2>1. CollectStamp(input)
    BY DEF Receive
  <2> HIDE DEF answers
  <2> QED BY <1>3, <2>1 DEF CollectStamp
<1>5. named' = named \cup (IF answers THEN {n + 1} ELSE {})
  <2>1. named' = {j \in Heard' : IsNamed(seen'[j])}
    OBVIOUS
  <2>2. CASE IsHeard(input)
    BY <1>1, <2>1, <2>2
  <2>3. CASE ~IsHeard(input)
    BY <1>1, <2>1, <2>3
  <2> QED BY <2>2, <2>3
<1>6. {seen'[i].stage : i \in named'} =
        {seen[i].stage : i \in named} \cup (IF answers THEN {input.stage} ELSE {})
  <2>1. \A i \in named : seen'[i] = seen[i]
    BY <1>1
  <2> HIDE DEF named, answers
  <2>2. CASE answers
    BY <1>1, <1>5, <2>1, <2>2
  <2>3. CASE ~answers
    BY <1>5, <2>1, <2>3
  <2> QED BY <2>2, <2>3
<1>7. input.stage \in Stamp
  OBVIOUS
<1>8. Contains(stages, input.stage) <=> input.stage \in ToSet(stages)
  BY <1>2 DEF Contains, ToSet
<1> HIDE DEF named, answers, Stamp
<1>9. CASE ~answers \/ input.stage \in ToSet(stages)
  <2>1. stages' = stages
    BY <1>4, <1>8, <1>9
  <2>2. {seen'[i].stage : i \in named'} = {seen[i].stage : i \in named}
    BY <1>2, <1>6, <1>9
  <2> QED BY <1>2, <2>1, <2>2 DEF StagesOK, Stamp, named
<1>10. CASE answers /\ input.stage \notin ToSet(stages)
  <2>1. stages' = Append(stages, input.stage)
    BY <1>4, <1>8, <1>10
  <2>2. GrownBy(Stamp, stages, input.stage, stages')
    BY <1>2, <1>7, <2>1, AppendIs
  <2>3. ToSet(stages') = {seen'[i].stage : i \in named'}
    BY <1>2, <1>6, <1>10, <2>2 DEF GrownBy
  <2>4. IsInjective(stages')
    <3>1. /\ DOMAIN stages' = 1..Len(stages) \cup {Len(stages) + 1}
          /\ DOMAIN stages = 1..Len(stages)
      BY <1>2, <2>2 DEF GrownBy
    <3>2. \A i \in DOMAIN stages : stages[i] # input.stage /\ stages'[i] = stages[i]
      BY <1>10, <2>2, <3>1 DEF ToSet, GrownBy
    <3>3. stages'[Len(stages) + 1] = input.stage
      BY <2>2 DEF GrownBy
    <3> QED BY <1>2, <3>1, <3>2, <3>3 DEF IsInjective
  <2>5. stages' \in Seq(Stamp)
    BY <2>2 DEF GrownBy
  <2> QED BY <2>3, <2>4, <2>5 DEF StagesOK, Stamp, named
<1> QED BY <1>9, <1>10

\* The texts: none is lost without an error.
LEMMA SpeechStep ==
  ASSUME SeenOK, SpeechOK, NEW input \in Frames, Receive(input)
  PROVE  SpeechOK'
<1> DEFINE n == Len(seen)
<1> DEFINE text == Text(input)
<1> DEFINE event == ClassifyEvent(input, Own)
<1> DEFINE Lines == {Text(f) : f \in Frames}
<1> DEFINE gone == {i \in 1..Len(seen) : IsOwn(seen[i]) /\ ~Fits(Text(seen[i]))}
<1> DEFINE spoken == {Text(seen[i]) : i \in HeardOf({"SPEAK"})} \ {""}
<1> DEFINE speaks == IsHeard(input) /\ KindOf(input.name) \in {"SPEAK"}
<1>1. /\ seen'[n + 1] = input /\ \A i \in 1..n : seen'[i] = seen[i]
      /\ (1..n)' = 1..n \cup {n + 1} /\ n + 1 \notin 1..n
      /\ HeardOf({"SPEAK"})' = HeardOf({"SPEAK"}) \cup (IF speaks THEN {n + 1} ELSE {})
      /\ HeardOf({"SPEAK"}) \subseteq 1..n
  BY HeardGrows
<1>2. /\ speech \in Seq(Lines) /\ errors \in Nat
      /\ errors = Cardinality(gone) /\ ToSet(speech) = spoken
  BY DEF SpeechOK, TextsAccounted
<1>3. ExtractText(input.texts) = text
  BY TextIs
<1>4. event = "NOMEM" <=> IsOwn(input) /\ ~Fits(text)
  BY SaysIs DEF Kinds, IsHeard
<1>5. event = "SPEAK" <=> speaks
  BY SaysIs DEF Kinds, IsHeard
<1>6. /\ errors' = IF event = "NOMEM" THEN errors + 1 ELSE errors
      /\ speech' = IF event = "SPEAK" /\ text # "" /\ (speech = <<>> \/ Last(speech) # text)
                   THEN Append(speech, text) ELSE speech
  BY <1>3 DEF Receive
<1>7. text \in Lines
  OBVIOUS
<1>8. errors' = Cardinality(gone') /\ errors' \in Nat
  <2>1. gone' = gone \cup (IF event = "NOMEM" THEN {n + 1} ELSE {})
    <3>1. gone' = {i \in (1..n)' : IsOwn(seen'[i]) /\ ~Fits(Text(seen'[i]))}
      OBVIOUS
    <3> HIDE DEF event
    <3>2. CASE event = "NOMEM"
      BY <1>1, <1>4, <3>1, <3>2
    <3>3. CASE event # "NOMEM"
      BY <1>1, <1>4, <3>1, <3>3
    <3> QED BY <3>2, <3>3
  <2>2. n + 1 \notin gone /\ IsFiniteSet(gone)
    <3>1. n \in Nat
      BY DEF SeenOK
    <3>2. IsFiniteSet(1..n)
      BY <3>1, FS_Interval
    <3> QED BY <1>1, <3>2, FS_Subset
  <2> HIDE DEF gone, event
  <2>3. Cardinality(gone \cup {n + 1}) = Cardinality(gone) + 1
    BY <2>2, FS_AddElement
  <2>4. errors = Cardinality(gone) /\ errors \in Nat
    BY <1>2
  <2>5. errors' = IF event = "NOMEM" THEN errors + 1 ELSE errors
    BY <1>6
  <2>6. CASE event = "NOMEM"
    <3>1. gone' = gone \cup {n + 1} /\ errors' = errors + 1
      BY <2>1, <2>5, <2>6
    <3> HIDE DEF n
    <3> QED BY ONLY <2>3, <2>4, <3>1
  <2>7. CASE event # "NOMEM"
    <3>1. gone' = gone /\ errors' = errors
      BY <2>1, <2>5, <2>7
    <3> QED BY ONLY <2>4, <3>1
  <2> QED BY <2>6, <2>7
<1>9. spoken' = (spoken \cup (IF speaks THEN {text} ELSE {})) \ {""}
  <2>1. spoken' = {Text(seen'[i]) : i \in HeardOf({"SPEAK"})'} \ {""}
    OBVIOUS
  <2>2. \A i \in HeardOf({"SPEAK"}) : seen'[i] = seen[i]
    BY <1>1
  <2> HIDE DEF speaks
  <2>3. CASE speaks
    BY <1>1, <2>1, <2>2, <2>3
  <2>4. CASE ~speaks
    BY <1>1, <2>1, <2>2, <2>4
  <2> QED BY <2>3, <2>4
<1> HIDE DEF Lines, gone, spoken, speaks, event, text
<1>10. CASE event = "SPEAK" /\ text # "" /\ (speech = <<>> \/ Last(speech) # text)
  <2>1. speech' = Append(speech, text)
    BY <1>6, <1>10
  <2>2. GrownBy(Lines, speech, text, speech')
    BY <1>2, <1>7, <2>1, AppendIs
  <2>3. spoken' = spoken \cup {text}
    BY <1>2, <1>5, <1>9, <1>10 DEF spoken
  <2>4. speech' \in Seq(Lines) /\ ToSet(speech') = spoken'
    BY <1>2, <2>2, <2>3 DEF GrownBy
  <2> QED BY <1>8, <2>4 DEF SpeechOK, TextsAccounted, Lines, gone, spoken
<1>11. CASE ~(event = "SPEAK" /\ text # "" /\ (speech = <<>> \/ Last(speech) # text))
  <2>1. speech' = speech
    BY <1>6, <1>11
  <2>2. event = "SPEAK" /\ text # "" => text \in spoken
    <3> SUFFICES ASSUME event = "SPEAK", text # "" PROVE text \in spoken
      OBVIOUS
    <3>1. speech # <<>> /\ Last(speech) = text
      BY <1>11
    <3>2. Len(speech) \in DOMAIN speech
      <4>1. speech \in Seq(Lines)
        BY <1>2
      <4>2. Len(speech) \in Nat \ {0}
        BY <3>1, <4>1, EmptySeq
      <4>3. DOMAIN speech = 1..Len(speech)
        BY ONLY <4>1
      <4> QED BY ONLY <4>2, <4>3
    <3> QED BY <1>2, <3>1, <3>2 DEF Last, ToSet
  <2>3. "" \notin spoken
    BY DEF spoken
  <2>4. spoken' = spoken
    <3>1. CASE speaks
      BY <1>5, <1>9, <2>2, <2>3, <3>1
    <3>2. CASE ~speaks
      BY <1>9, <2>3, <3>2
    <3> QED BY <3>1, <3>2
  <2> QED BY <1>2, <1>8, <2>1, <2>4 DEF SpeechOK, TextsAccounted, Lines, gone, spoken
<1> QED BY <1>10, <1>11

\* What a refusal says of an allowance is what the hub sent.
LEMMA CountIs ==
  ASSUME NEW number \in Seq(Int), Len(number) <= 1
  PROVE  RefusalCount(number) = IF number \in {<<n>> : n \in 0..CountMax} THEN number[1] ELSE 0
<1>1. CountMax \in Nat /\ LongMax \in Nat /\ CountMax < LongMax
  BY ReplyAssumption
<1>2. CASE number = <<>>
  <2>1. \A n : <<n>> # <<>>
    OBVIOUS
  <2> QED BY <1>2, <2>1 DEF RefusalCount
<1>3. CASE number # <<>>
  <2>1. Len(number) \in Nat \ {0}
    BY <1>3, EmptySeq
  <2>2. Len(number) = 1
    <3>1. \A k \in Nat \ {0} : k <= 1 => k = 1
      OBVIOUS
    <3> QED BY <2>1, <3>1
  <2>3. number[1] \in Int /\ number = <<number[1]>>
    BY <2>2
  <2>4. number \in {<<n>> : n \in 0..CountMax} <=> number[1] \in 0..CountMax
    <3>1. \A n \in 0..CountMax : <<n>>[1] = n
      OBVIOUS
    <3> QED BY <2>3, <3>1
  <2>5. number[1] \in 0..CountMax => number[1] \in -LongMax - 1 .. LongMax
    BY <1>1
  <2> QED BY <1>3, <2>3, <2>4, <2>5 DEF RefusalCount
<1> QED BY <1>2, <1>3

\* The allowance: only a refusal at the end says one.
LEMMA QuotaStep ==
  ASSUME SeenOK, QuotaOK, FlagsOK, NEW input \in Frames, Receive(input)
  PROVE  QuotaOK'
<1> DEFINE event == ClassifyEvent(input, Own)
<1> DEFINE kind == KindOf(input.name)
<1> DEFINE note == Refusal(input, Own)
<1>1. Last(seen)' = input
  BY HeardGrows
<1>2. ~Terminal /\ quota = NoQuota
  BY DEF Receive, QuotaOK
<1>3. /\ quota' = IF note.rc = "OK" THEN note.quota ELSE quota
      /\ failure' = CASE event \in {"POLICY_DENIED", "QUERY_TIMEOUT"} -> "hard"
                      [] event = "INTENT_FAILURE" -> "soft"
                      [] event \in {"SPEAK", "HANDLED"} -> "none"
                      [] OTHER -> failure
  BY DEF Receive
<1>4. /\ note.rc = "OK" <=> IsHeard(input) /\ kind = "POLICY_DENIED" /\ Fits(input.code)
      /\ note.rc = "OK" => note.quota =
           IF input.code # "intent_quota_exceeded" THEN NoQuota
           ELSE [hasQuota |-> TRUE, counts |-> [i \in 1..3 |-> RefusalCount(input.numbers[i])]]
  BY AccessorsSay
<1>5. /\ event = "POLICY_DENIED" <=> IsHeard(input) /\ kind = "POLICY_DENIED"
      /\ event = "QUERY_TIMEOUT" <=> IsHeard(input) /\ kind = "QUERY_TIMEOUT"
  BY SaysIs DEF Kinds, IsHeard
<1>6. kind = "POLICY_DENIED" <=> input.name = "hive.policy.denied"
  BY DEF KindOf
<1>7. Terminal' <=> event = "POLICY_DENIED" \/ event = "QUERY_TIMEOUT"
  BY <1>2, <1>3 DEF Terminal
<1> HIDE DEF event, kind, note
<1>8. ~Terminal' => quota' = NoQuota
  BY <1>2, <1>3, <1>4, <1>5, <1>7
<1>9. CASE Terminal' /\ input.name = "hive.policy.denied" /\ input.code = "intent_quota_exceeded"
  <2>1. IsHeard(input) /\ kind = "POLICY_DENIED" /\ Fits(input.code)
    BY <1>5, <1>6, <1>7, <1>9 DEF Fits
  <2>2. quota' = [hasQuota |-> TRUE, counts |-> [i \in 1..3 |-> RefusalCount(input.numbers[i])]]
    BY <1>3, <1>4, <1>9, <2>1
  <2>3. \A i \in 1..3 : quota'.counts[i] = RefusalCount(input.numbers[i])
    BY <2>2
  <2>4. \A i \in 1..3 : input.numbers[i] \in Seq(Int) /\ Len(input.numbers[i]) <= 1
    BY ReplyAssumption
  <2>5. \A i \in 1..3 : quota'.counts[i] = IF input.numbers[i] \in {<<n>> : n \in 0..CountMax}
                                           THEN input.numbers[i][1] ELSE 0
    BY <2>3, <2>4, CountIs
  <2>6. AllowanceIsSent'
    BY <1>1, <1>9, <2>5 DEF AllowanceIsSent
  <2> QED BY <1>8, <2>6 DEF QuotaOK
<1>10. CASE ~(Terminal' /\ input.name = "hive.policy.denied" /\ input.code = "intent_quota_exceeded")
  <2>1. quota' = NoQuota
    BY <1>2, <1>3, <1>4, <1>5, <1>6, <1>7, <1>10
  <2>2. AllowanceIsSent'
    BY <1>1, <1>10, <2>1 DEF AllowanceIsSent
  <2> QED BY <1>8, <2>2 DEF QuotaOK
<1> QED BY <1>9, <1>10

-----------------------------------------------------------------------------
(* The theorems. *)

\* Nothing was received yet.
LEMMA InitOK == Init => IInv
<1> SUFFICES ASSUME Init PROVE IInv
  OBVIOUS
<1>1. /\ seen = <<>> /\ budget = [encoded |-> 0, dropped |-> 0] /\ kept = 0 /\ offered = 0
      /\ speech = <<>> /\ stages = <<>> /\ asserted = FALSE
      /\ handled = FALSE /\ failure = "none" /\ errors = 0 /\ quota = NoQuota
  BY DEF Init
<1>2. Len(<<>>) = 0 /\ 1..0 = {} /\ (\A S : <<>> \in Seq(S)) /\ DOMAIN <<>> = {}
  BY EmptySeq
<1>3. Heard = {} /\ \A kinds : HeardOf(kinds) = {}
  BY <1>1, <1>2 DEF Heard, HeardOf
<1>4. SeenOK
  BY <1>1, <1>2, ReplyAssumption DEF SeenOK
<1>5. BudgetInv
  BY BudgetInit
<1>6. OfferedOK
  BY <1>1 DEF OfferedOK, DropsAreDue
<1>7. FlagsOK
  BY <1>1, <1>3 DEF FlagsOK
<1>8. StagesOK
  <2>1. IsInjective(stages) /\ ToSet(stages) = {}
    BY <1>1, <1>2 DEF IsInjective, ToSet
  <2> QED BY <1>1, <1>2, <1>3, <2>1 DEF StagesOK
<1>9. SpeechOK
  <2>1. {i \in 1..Len(seen) : IsOwn(seen[i]) /\ ~Fits(Text(seen[i]))} = {}
    BY <1>1, <1>2
  <2>2. Cardinality({}) = 0
    BY FS_EmptySet
  <2>3. ToSet(speech) = {Text(seen[i]) : i \in HeardOf({"SPEAK"})} \ {""}
    BY <1>1, <1>2, <1>3 DEF ToSet
  <2> QED BY <1>1, <1>2, <2>1, <2>2, <2>3 DEF SpeechOK, TextsAccounted
<1>10. QuotaOK
  BY <1>1 DEF QuotaOK, AllowanceIsSent, Terminal
<1> QED BY <1>4, <1>5, <1>6, <1>7, <1>8, <1>9, <1>10 DEF IInv

\* What the application has is what the frames that came say, at every moment
\* of the reply.
THEOREM ReplyInvariant == Spec => []IInv
<1>1. ASSUME IInv, [Next]_vars PROVE IInv'
  <2>0. BudgetInv'
    BY <1>1, BudgetStep DEF IInv
  <2>1. ASSUME NEW input \in Frames, Receive(input) PROVE IInv'
    <3>1. SeenOK /\ BudgetInv /\ OfferedOK /\ FlagsOK /\ StagesOK /\ SpeechOK /\ QuotaOK
      BY <1>1 DEF IInv
    <3>2. SeenOK'
      BY <2>1, <3>1, HeardGrows
    <3>3. OfferedOK'
      BY <2>1, <3>1, OfferedStep
    <3>4. FlagsOK'
      BY <2>1, <3>1, FlagsStep
    <3>5. StagesOK'
      BY <2>1, <3>1, StagesStep
    <3>6. SpeechOK'
      BY <2>1, <3>1, SpeechStep
    <3>7. QuotaOK'
      BY <2>1, <3>1, QuotaStep
    <3> QED BY <2>0, <3>2, <3>3, <3>4, <3>5, <3>6, <3>7 DEF IInv
  <2>2. CASE UNCHANGED vars
    <3>1. UNCHANGED <<seen, budget, kept, offered, speech, stages, asserted, handled, failure,
                      errors, quota>>
      BY <2>2 DEF vars
    <3>2. Heard' = Heard /\ \A kinds : HeardOf(kinds)' = HeardOf(kinds)
      BY <3>1 DEF Heard, HeardOf
    <3>3. SeenOK' /\ OfferedOK'
      BY <1>1, <3>1 DEF IInv, SeenOK, OfferedOK, DropsAreDue
    <3>4. FlagsOK'
      BY <1>1, <3>1, <3>2 DEF IInv, FlagsOK
    <3>5. StagesOK'
      BY <1>1, <3>1, <3>2 DEF IInv, StagesOK
    <3>6. SpeechOK'
      BY <1>1, <3>1, <3>2 DEF IInv, SpeechOK, TextsAccounted
    <3>7. QuotaOK'
      BY <1>1, <3>1 DEF IInv, QuotaOK, AllowanceIsSent, Terminal
    <3> QED BY <2>0, <3>3, <3>4, <3>5, <3>6, <3>7 DEF IInv
  <2> QED BY <1>1, <2>1, <2>2 DEF Next
<1> QED BY <1>1, InitOK, PTL DEF Spec

\* thalovant_reply_claimed_with_meta says of what was collected exactly what
\* the frames of the reply say, in whatever order they come, however many
\* frames of others come between.
THEOREM ClaimHolds == Spec => []ClaimIsEarned
<1>1. IInv => ClaimIsEarned
  <2> SUFFICES ASSUME IInv PROVE ClaimIsEarned
    OBVIOUS
  <2> DEFINE named == {i \in Heard : seen[i].stage \notin {"", "absent", "another", "overlong", "nul"}}
  <2> DEFINE good == \A i \in HeardOf({"INTENT_FAILURE"}) : \E j \in HeardOf({"SPEAK", "HANDLED"}) : j > i
  <2> DEFINE flag == \E i \in HeardOf({"SPEAK"}) : seen[i].meta = "true"
  <2>1. /\ asserted \in BOOLEAN /\ handled \in BOOLEAN
        /\ handled = TRUE <=> HeardOf({"HANDLED"}) # {}
        /\ asserted = TRUE <=> flag
        /\ failure = "hard" <=> HeardOf({"POLICY_DENIED", "QUERY_TIMEOUT"}) # {}
        /\ failure # "hard" => (failure = "none" <=> good)
    BY DEF IInv, FlagsOK
  <2>2. ToSet(stages) = {seen[i].stage : i \in named} /\ DOMAIN stages = 1..Len(stages)
    <3>1. named = {j \in Heard : IsNamed(seen[j])}
      BY DEF IsNamed
    <3>2. /\ stages \in Seq({input.stage : input \in Frames})
          /\ ToSet(stages) = {seen[i].stage : i \in {j \in Heard : IsNamed(seen[j])}}
      BY DEF IInv, StagesOK
    <3>3. ToSet(stages) = {seen[i].stage : i \in named}
      <4> HIDE DEF named
      <4> QED BY <3>1, <3>2
    <3>4. DOMAIN stages = 1..Len(stages)
      BY ONLY <3>2
    <3> QED BY <3>3, <3>4
  <2> DEFINE blank == \A i \in 1..Len(stages) : stages[i] = ""
  <2> DEFINE own == \E i \in 1..Len(stages) : stages[i] # "" /\ ~IsFallback(stages[i])
  <2>3. \A i \in named : seen[i].stage # ""
    OBVIOUS
  <2> HIDE DEF named
  <2>4. blank <=> named = {}
    BY <2>2, <2>3 DEF ToSet
  <2>5. own <=> \E i \in named : ~IsFallback(seen[i].stage)
    BY <2>2, <2>3 DEF ToSet
  <2>6. Claimed(handled, failure # "none", stages, asserted) <=>
          handled /\ ~(failure # "none") /\ (asserted \/ blank \/ own)
    BY DEF Claimed
  <2> DEFINE earned == /\ HeardOf({"HANDLED"}) # {}
                       /\ HeardOf({"POLICY_DENIED", "QUERY_TIMEOUT"}) = {}
                       /\ good /\ (flag \/ (\E i \in named : ~IsFallback(seen[i].stage)) \/ named = {})
  <2> HIDE DEF good, flag, blank, own
  <2>7. failure = "none" <=> HeardOf({"POLICY_DENIED", "QUERY_TIMEOUT"}) = {} /\ good
    BY <2>1
  <2>8. Claimed(handled, failure # "none", stages, asserted) <=> earned
    BY <2>1, <2>4, <2>5, <2>6, <2>7
  <2>9. Claimed(handled, failure # "none", stages, asserted) \in BOOLEAN
    BY DEF Claimed
  <2>10. ClaimIsEarned <=> (Claimed(handled, failure # "none", stages, asserted) = earned)
    BY DEF ClaimIsEarned, good, flag, named
  <2> DEFINE claimed == Claimed(handled, failure # "none", stages, asserted)
  <2>11. earned \in BOOLEAN
    OBVIOUS
  <2> HIDE DEF earned, claimed
  <2>12. claimed = earned
    <3>1. claimed \in BOOLEAN /\ (claimed <=> earned)
      BY <2>8, <2>9 DEF claimed
    <3> QED BY <2>11, <3>1
  <2> QED BY <2>10, <2>12 DEF claimed
<1> QED BY <1>1, ReplyInvariant, PTL

\* No text is lost without an error, none cut or taken from a lesser field; an
\* allowance is told only as the hub sent it; a clip is dropped only where a
\* limit says so; a stamp is kept once, and whole: for every limit, every set
\* of frames and replies of every length.
THEOREM RepliesHold == Spec => []RepliesAreWhole
<1>1. IInv => RepliesAreWhole
  <2> SUFFICES ASSUME IInv PROVE RepliesAreWhole
    OBVIOUS
  <2>1. TextsAccounted /\ AllowanceIsSent /\ DropsAreDue
    BY DEF IInv, SpeechOK, QuotaOK, OfferedOK
  <2>2. budget \in [encoded : 0..SizeMax, dropped : 0..SizeMax] /\ kept \in Nat
    <3>1. MediaMax \in Nat /\ SizeMax \in Nat /\ MediaMax <= SizeMax
      BY ReplyAssumption
    <3>2. 0..MediaMax \subseteq 0..SizeMax /\ 0..MediaMax \subseteq Nat
      BY <3>1
    <3>3. budget \in [encoded : 0..MediaMax, dropped : 0..SizeMax] /\ kept = budget.encoded
      BY DEF IInv, BudgetInv
    <3>4. budget.encoded \in 0..MediaMax
      BY <3>3
    <3> QED BY <3>2, <3>3, <3>4
  <2>3. ToSet(stages) \cap {"", "absent", "another", "overlong", "nul"} = {}
    BY DEF IInv, StagesOK, IsNamed
  <2>4. TypeOK
    BY <2>2, <2>3 DEF IInv, SeenOK, FlagsOK, StagesOK, SpeechOK, TypeOK
  <2> QED BY <2>1, <2>4 DEF RepliesAreWhole
<1> QED BY <1>1, ReplyInvariant, PTL

-----------------------------------------------------------------------------
(* Sequences and numbers of the wire.                                      *)
\* A sequence, of whatever its elements are.
IsSequence(s) == \E S : s \in Seq(S)

\* Of some numbers one is the least.
LEMMA NatMin ==
  ASSUME NEW T, T \subseteq Nat, T # {}
  PROVE  \E x \in T : \A y \in T : x <= y
<1> DEFINE R == {ss \in Nat \X Nat : ss[1] < ss[2]}
<1>1. IsWellFoundedOn(R, Nat)
  BY NatLessThanWellFounded DEF OpToRel
<1> HIDE DEF R
<1>2. PICK x \in T : \A y \in T : ~(<<y, x>> \in R)
  BY <1>1, WFMin
<1>3. ASSUME NEW y \in T PROVE x <= y
  <2>1. ~(<<y, x>> \in R) /\ x \in Nat /\ y \in Nat
    BY <1>2
  <2> QED BY <2>1 DEF R
<1> QED BY <1>3

-----------------------------------------------------------------------------
(* The envelopes of the pre-shared key.                                    *)
\* What the hub sent, and the frame that carries it.
Tells == [msg : Messages, sealed : BOOLEAN]
OfTell(f, t, ok) ==
  IF t.sealed
  THEN /\ f.kind = "json" /\ f.text = [msg |-> t.msg, pads |-> {f.nonce}]
       /\ f.tag = Tag(IF ok THEN "node" ELSE "other", f.nonce, f.text)
       /\ f.enc \in {"hex", "base64", "unpadded"} /\ f.nonceLen \in {12, 16} /\ f.hexish \in BOOLEAN
  ELSE f.kind = "plain" /\ f.text = [msg |-> t.msg, pads |-> {}]
HubInv ==
  /\ trusted \in BOOLEAN /\ greeted \in BOOLEAN
  /\ told \in Seq(Tells)
  /\ IsSequence(down) /\ Len(down) <= Len(told)
  /\ \A k \in 1..Len(down) : OfTell(down[k], told[Arrived + k], trusted)
  /\ greeted <=> Accepted(Arrived) # {}

\* What the node sent: u its frames, s of each the message and how often its
\* buffer had been sealed before, n the nonces drawn.
HellosOf(u) == {i \in 1..Len(u) : u[i].kind = "hello"}
Behind(u, i) == \E j \in 1..i - 1 : u[j].kind = "hello"
OfSend(f, t, n) ==
  /\ \E k \in 0..n - 1 : f.nonce = <<"node", k>>
  /\ f.text = [msg |-> t.msg, pads |-> f.text.pads] /\ f.nonce \in f.text.pads
  /\ f.text.pads = {f.nonce} <=> t.tries = 0
  /\ f.tag = Tag("node", f.nonce, f.text)
FramesSent(u, s, n) ==
  /\ IsSequence(u) /\ IsSequence(s) /\ Len(s) = Len(u)
  /\ \A i \in 1..Len(u) : /\ u[i].kind \in {"hello", "plain", "json"}
                          /\ u[i].kind = "plain" => ~Behind(u, i)
                          /\ u[i].kind = "json" => Behind(u, i) /\ OfSend(u[i], s[i], n)
  /\ \A i, j \in 1..Len(u) : i # j /\ u[i].kind = "json" /\ u[j].kind = "json" => u[i].nonce # u[j].nonce
\* The buffer a frame is sealed in: bare unless it was sealed.
Buffer(content, t, n) ==
  /\ content = [msg |-> content.msg, pads |-> content.pads] /\ t \in Nat
  /\ \A p \in content.pads : \E k \in 0..n - 1 : p = <<"node", k>>
  /\ content.pads = {} <=> t = 0
NodeInv ==
  /\ nonces \in Nat /\ FramesSent(up, said, nonces) /\ Buffer(scratch, tries, nonces)
  /\ greeted <=> HellosOf(up) # {}
  /\ ~greeted => tries = 0
  /\ Cardinality(HellosOf(up)) = Cardinality(Accepted(Arrived))

\* What the application has of it.
InboxInv == inbox \in Seq(Messages) /\ GivenIsTold

EnvelopeInv == HubInv /\ NodeInv /\ InboxInv

-----------------------------------------------------------------------------
\* What is in a sequence once its head is taken,
LEMMA SequenceFacts ==
  ASSUME NEW s, IsSequence(s)
  PROVE  /\ Len(s) \in Nat /\ DOMAIN s = 1..Len(s)
         /\ s # <<>> => /\ Len(s) > 0 /\ IsSequence(Tail(s)) /\ Len(Tail(s)) = Len(s) - 1
                        /\ Head(s) = s[1] /\ \A i \in 1..Len(s) - 1 : Tail(s)[i] = s[i + 1]
<1>1. PICK S : s \in Seq(S)
  BY DEF IsSequence
<1>2. s # <<>> => Tail(s) \in Seq(S)
  BY <1>1
<1>3. s # <<>> => IsSequence(Tail(s))
  BY <1>2 DEF IsSequence
<1> QED BY <1>1, <1>3

\* and once an element is appended.
LEMMA SequenceGrows ==
  ASSUME NEW s, IsSequence(s), NEW x
  PROVE  /\ IsSequence(Append(s, x)) /\ Len(Append(s, x)) = Len(s) + 1
         /\ Append(s, x)[Len(s) + 1] = x
         /\ \A i \in 1..Len(s) : Append(s, x)[i] = s[i]
<1>1. PICK S : s \in Seq(S)
  BY DEF IsSequence
<1>2. s \in Seq(S \cup {x})
  BY <1>1
<1>3. Append(s, x) \in Seq(S \cup {x})
  BY <1>2
<1> QED BY <1>2, <1>3 DEF IsSequence

\* The letters of a nonce never decide what an encoding is: no length at which
\* its Base64 could be taken for hexadecimal is that of a nonce.
LEMMA LooksHexIsHex ==
  ASSUME NEW f, f.enc \in {"hex", "base64", "unpadded"}, f.nonceLen \in {12, 16}
  PROVE  LooksHex(f) = (f.enc = "hex")
<1>1. /\ (4 * ((12 + 2) \div 3)) \div 2 = 8
      /\ (4 * 12 + 2) \div 3 = 16 /\ 16 \div 2 = 8 /\ (4 * 16 + 2) \div 3 = 22 /\ 22 \div 2 = 11
      /\ 16 % 3 # 0 /\ 12 % 3 = 0 /\ (2 * 12) % 2 = 0 /\ (2 * 16) % 2 = 0
      /\ (2 * 12) \div 2 = 12 /\ (2 * 16) \div 2 = 16
  OBVIOUS
<1>2. LooksHex(f) <=> f.enc = "hex"
  BY <1>1 DEF LooksHex, TextLen, Padded
<1> QED BY <1>2 DEF LooksHex

\* A frame told in the clear is read, a sealed one exactly if the hub holds the
\* key and the message fits.
LEMMA ReceivedIs ==
  ASSUME NEW f, NEW t \in Tells, OfTell(f, t, trusted), trusted \in BOOLEAN
  PROVE  Received(f) = IF t.sealed => trusted /\ Lengths[t.msg] <= InCap
                       THEN [msg |-> t.msg, pads |-> {}] ELSE Nil
<1>1. CASE t.sealed
  <2> DEFINE m == t.msg
  <2>0. m \in Messages
    BY DEF Tells
  <2>1. LooksHex(f) = (f.enc = "hex") /\ f.nonceLen \in {12, 16}
    BY <1>1, LooksHexIsHex DEF OfTell
  <2>2. ASSUME NEW n \in Nat, NEW cap \in Nat
        PROVE  Decoded(LooksHex(f), f.enc, n, cap) = IF n > cap THEN -1 ELSE n
    BY <2>1 DEF Decoded
  <2>3. /\ Decoded(LooksHex(f), f.enc, f.nonceLen, NonceLen) > 0
        /\ Decoded(LooksHex(f), f.enc, TagLen, TagLen) = TagLen
        /\ (Decoded(LooksHex(f), f.enc, Lengths[m], InCap) # -1) <=> (Lengths[m] <= InCap)
    BY <2>0, <2>1, <2>2, WireAssumption DEF NonceLen, TagLen
  <2>4. Verified(f) <=> trusted
    BY <1>1 DEF Verified, Tag, OfTell
  <2>5. Toggle(f.text, f.nonce) = [msg |-> m, pads |-> {}] /\ f.text.msg = m
    BY <1>1 DEF OfTell, Toggle
  <2>6. DecryptJson(f, InCap) = IF trusted /\ Lengths[m] <= InCap THEN [msg |-> m, pads |-> {}] ELSE Nil
    BY <2>3, <2>4, <2>5 DEF DecryptJson
  <2> QED BY <1>1, <2>6 DEF Received, OfTell
<1>2. CASE ~t.sealed
  BY <1>2 DEF Received, OfTell
<1> QED BY <1>1, <1>2

\* One place more is one more to count.
LEMMA CountGrows ==
  ASSUME NEW n \in Nat, NEW S \in SUBSET (1..n)
  PROVE  /\ IsFiniteSet(S) /\ Cardinality(S) \in Nat
         /\ Cardinality(S \cup {n + 1}) = Cardinality(S) + 1
         /\ S = {} <=> Cardinality(S) = 0
<1>1. IsFiniteSet(S)
  <2>1. IsFiniteSet(1..n)
    BY FS_Interval
  <2> QED BY <2>1, FS_Subset
<1>2. n + 1 \notin S
  <2>1. ~(n + 1 \in 1..n)
    OBVIOUS
  <2> QED BY <2>1
<1> QED BY <1>1, <1>2, FS_AddElement, FS_CardinalityType, FS_EmptySet

\* What the next frame told adds to the offers and to the bus frames.
OfferAt(i) == /\ Reaches(i) /\ TypeOf[told[i].msg] \in {"handshake", "shake"}
              /\ Truthy[told[i].msg] = {"preshared_key"}
BusAt(i) == Reaches(i) /\ TypeOf[told[i].msg] = "bus"
LEMMA NextTold ==
  ASSUME NEW n \in Nat
  PROVE  /\ Accepted(n) \in SUBSET (1..n) /\ Given(n) \in SUBSET (1..n)
         /\ Accepted(n + 1) = IF OfferAt(n + 1) THEN Accepted(n) \cup {n + 1} ELSE Accepted(n)
         /\ Given(n + 1) = IF BusAt(n + 1) /\ Accepted(n) # {} THEN Given(n) \cup {n + 1} ELSE Given(n)
         /\ BusAt(n + 1) => ~OfferAt(n + 1)
<1>1. 1..n + 1 = (1..n) \cup {n + 1}
  OBVIOUS
<1>2. BusAt(n + 1) => ~OfferAt(n + 1)
  BY DEF BusAt, OfferAt
<1>3. Accepted(n + 1) = IF OfferAt(n + 1) THEN Accepted(n) \cup {n + 1} ELSE Accepted(n)
  BY <1>1 DEF Accepted, OfferAt
<1>4. Given(n + 1) = IF BusAt(n + 1) /\ Accepted(n) # {} THEN Given(n) \cup {n + 1} ELSE Given(n)
  <2>1. BusAt(n + 1) => Accepted(n + 1) = Accepted(n)
    BY <1>2, <1>3
  <2> QED BY <1>1, <2>1 DEF Given, BusAt
<1> QED BY <1>2, <1>3, <1>4 DEF Accepted, Given

\* A bus frame is counted among those before it.
LEMMA GivenCounts ==
  ASSUME NEW n \in Nat, NEW i \in Given(n)
  PROVE  Cardinality(Given(i)) \in 1..Cardinality(Given(n))
<1>1. i \in 1..n /\ i \in Nat
  BY DEF Given
<1>2. Given(i) \subseteq Given(n) /\ i \in Given(i)
  BY <1>1 DEF Given
<1>3. IsFiniteSet(Given(n)) /\ Cardinality(Given(n)) \in Nat
  BY NextTold, CountGrows
<1>4. Cardinality(Given(i)) \in Nat /\ Cardinality(Given(i)) # 0
  BY <1>1, <1>2, NextTold, CountGrows
<1>5. Cardinality(Given(i)) <= Cardinality(Given(n))
  BY <1>2, <1>3, FS_Subset
<1> QED BY <1>3, <1>4, <1>5

\* A frame more is sent, of which t is said, after the frames u and n nonces.
MaySend(f, t, u, n, more) ==
  /\ n \in Nat /\ more \in Nat /\ n <= more
  /\ f.kind \in {"hello", "plain", "json"}
  /\ f.kind = "plain" => HellosOf(u) = {}
  /\ f.kind = "json" => HellosOf(u) # {} /\ f.nonce = <<"node", n>> /\ OfSend(f, t, more)
LEMMA FramesGrow ==
  ASSUME NEW u, NEW s, NEW n, NEW more, NEW f, NEW t, FramesSent(u, s, n), MaySend(f, t, u, n, more)
  PROVE  /\ FramesSent(Append(u, f), Append(s, t), more)
         /\ HellosOf(Append(u, f)) = IF f.kind = "hello" THEN HellosOf(u) \cup {Len(u) + 1} ELSE HellosOf(u)
<1> DEFINE L == Len(u)
           v == Append(u, f)
           w == Append(s, t)
<1>0. /\ n \in Nat /\ more \in Nat /\ n <= more
      /\ f.kind \in {"hello", "plain", "json"}
      /\ f.kind = "plain" => HellosOf(u) = {}
      /\ f.kind = "json" => HellosOf(u) # {} /\ f.nonce = <<"node", n>> /\ OfSend(f, t, more)
  BY DEF MaySend
<1>1. /\ IsSequence(v) /\ Len(v) = L + 1 /\ v[L + 1] = f /\ \A i \in 1..L : v[i] = u[i]
      /\ IsSequence(w) /\ Len(w) = L + 1 /\ w[L + 1] = t /\ \A i \in 1..L : w[i] = s[i]
      /\ L \in Nat
  <2>1. IsSequence(u) /\ IsSequence(s) /\ Len(s) = Len(u)
    BY DEF FramesSent
  <2> QED BY <2>1, SequenceFacts, SequenceGrows
<1> HIDE DEF v, w, L
<1>2. HellosOf(v) = IF f.kind = "hello" THEN HellosOf(u) \cup {L + 1} ELSE HellosOf(u)
  <2>1. 1..L + 1 = (1..L) \cup {L + 1}
    BY <1>1
  <2> QED BY <1>1, <2>1 DEF HellosOf, L
<1>3. ASSUME NEW i \in 1..L + 1 PROVE Behind(v, i) <=> Behind(u, i)
  <2>1. \A j \in 1..i - 1 : j \in 1..L
    BY <1>1
  <2> QED BY <1>1, <2>1 DEF Behind
<1>4. Behind(u, L + 1) <=> HellosOf(u) # {}
  <2>1. 1..(L + 1) - 1 = 1..L
    BY <1>1
  <2> QED BY <2>1 DEF Behind, HellosOf, L
<1>5. ASSUME NEW i \in 1..L, u[i].kind = "json"
      PROVE  OfSend(u[i], s[i], more) /\ \E k \in 0..n - 1 : u[i].nonce = <<"node", k>>
  <2>1. OfSend(u[i], s[i], n)
    BY <1>5 DEF FramesSent, L
  <2>2. \A k \in 0..n - 1 : k \in 0..more - 1
    BY <1>0
  <2> QED BY <2>1, <2>2 DEF OfSend
<1>6. ASSUME NEW i \in 1..L + 1
      PROVE  /\ v[i].kind \in {"hello", "plain", "json"}
             /\ v[i].kind = "plain" => ~Behind(v, i)
             /\ v[i].kind = "json" => Behind(v, i) /\ OfSend(v[i], w[i], more)
  <2>1. CASE i = L + 1
    BY <1>0, <1>1, <1>3, <1>4, <2>1
  <2>2. CASE i \in 1..L
    <3>1. /\ u[i].kind \in {"hello", "plain", "json"} /\ (u[i].kind = "plain" => ~Behind(u, i))
          /\ (u[i].kind = "json" => Behind(u, i))
      BY <2>2 DEF FramesSent, L
    <3> QED BY <1>1, <1>3, <1>5, <2>2, <3>1
  <2> QED BY <1>1, <2>1, <2>2
<1>7. ASSUME NEW i \in 1..L, u[i].kind = "json", f.kind = "json" PROVE u[i].nonce # f.nonce
  <2>1. PICK k \in 0..n - 1 : u[i].nonce = <<"node", k>>
    BY <1>5, <1>7
  <2>2. f.nonce = <<"node", n>>
    BY <1>0, <1>7
  <2> QED BY <1>0, <2>1, <2>2
<1>8. ASSUME NEW i \in 1..L + 1, NEW j \in 1..L + 1, i # j, v[i].kind = "json", v[j].kind = "json"
      PROVE  v[i].nonce # v[j].nonce
  <2>1. CASE i = L + 1
    <3>1. j \in 1..L
      BY <1>1, <1>8, <2>1
    <3> QED BY <1>1, <1>7, <1>8, <2>1, <3>1
  <2>2. CASE j = L + 1
    <3>1. i \in 1..L
      BY <1>1, <1>8, <2>2
    <3> QED BY <1>1, <1>7, <1>8, <2>2, <3>1
  <2>3. CASE i \in 1..L /\ j \in 1..L
    BY <1>1, <1>8, <2>3 DEF FramesSent, L
  <2> QED BY <1>1, <2>1, <2>2, <2>3
<1>9. FramesSent(v, w, more)
  BY <1>1, <1>6, <1>8 DEF FramesSent
<1> QED BY <1>2, <1>9 DEF v, w, L

\* A nonce drawn in vain changes nothing that was sent.
LEMMA FramesStay ==
  ASSUME NEW u, NEW s, NEW n \in Nat, FramesSent(u, s, n)
  PROVE  FramesSent(u, s, n + 1)
<1>1. \A k \in 0..n - 1 : k \in 0..(n + 1) - 1
  OBVIOUS
<1>2. \A i : OfSend(u[i], s[i], n) => OfSend(u[i], s[i], n + 1)
  BY <1>1 DEF OfSend
<1> QED BY <1>2 DEF FramesSent

\* Before anything is sent there is nothing to be wrong.
LEMMA EnvelopeInit == WireInit => EnvelopeInv
<1> SUFFICES ASSUME WireInit PROVE EnvelopeInv
  OBVIOUS
<1>1. IsSequence(<<>>)
  BY DEF IsSequence
<1>2. Arrived = 0 /\ Accepted(0) = {} /\ Given(0) = {} /\ Cardinality({}) = 0
  BY FS_EmptySet DEF WireInit, Arrived, Accepted, Given
<1>3. HubInv
  <2>1. told \in Seq(Tells) /\ Len(told) = 0 /\ Len(down) = 0 /\ IsSequence(down)
    BY <1>1 DEF WireInit
  <2>2. trusted \in BOOLEAN /\ ~greeted /\ greeted \in BOOLEAN
    BY DEF WireInit
  <2>3. Accepted(Arrived) = {}
    BY <1>2
  <2> QED BY <2>1, <2>2, <2>3 DEF HubInv
<1>4. NodeInv
  <2>1. HellosOf(up) = {} /\ FramesSent(up, said, 0)
    BY <1>1 DEF WireInit, HellosOf, FramesSent
  <2>2. Buffer(scratch, tries, 0)
    BY DEF WireInit, Buffer, Nil
  <2> QED BY <1>2, <2>1, <2>2 DEF WireInit, NodeInv
<1>5. InboxInv
  <2>1. Given(Arrived) = {}
    BY <1>2
  <2>2. inbox \in Seq(Messages) /\ Len(inbox) = 0
    BY DEF WireInit
  <2> QED BY <1>2, <2>1, <2>2 DEF InboxInv, GivenIsTold
<1> QED BY <1>3, <1>4, <1>5 DEF EnvelopeInv

-----------------------------------------------------------------------------
\* What the hub tells later does not change what has arrived.
LEMMA ToldStays ==
  ASSUME told \in Seq(Tells), NEW t \in Tells, told' = Append(told, t), trusted' = trusted,
         NEW n \in 0..Len(told)
  PROVE  /\ Accepted(n)' = Accepted(n) /\ Given(n)' = Given(n)
         /\ \A i \in Given(n) : Given(i)' = Given(i) /\ told'[i] = told[i]
<1>1. \A i \in 1..Len(told) : told'[i] = told[i]
  OBVIOUS
<1>2. \A i \in 1..Len(told) : Reaches(i)' <=> Reaches(i)
  BY <1>1 DEF Reaches
<1>3. ASSUME NEW k \in 0..Len(told) PROVE Accepted(k)' = Accepted(k)
  <2>1. \A i \in 1..k : i \in 1..Len(told)
    OBVIOUS
  <2> QED BY <1>1, <1>2, <2>1 DEF Accepted
<1>4. ASSUME NEW k \in 0..Len(told) PROVE Given(k)' = Given(k)
  <2>1. \A i \in 1..k : i \in 1..Len(told) /\ i \in 0..Len(told)
    OBVIOUS
  <2> QED BY <1>1, <1>2, <1>3, <2>1 DEF Given
<1>5. \A i \in Given(n) : i \in 1..Len(told) /\ i \in 0..Len(told)
  BY DEF Given
<1> QED BY <1>1, <1>3, <1>4, <1>5

\* A frame of the hub is on its way.
LEMMA TellKeeps ==
  ASSUME EnvelopeInv, NEW m \in Messages, NEW sealed \in BOOLEAN, NEW f,
         OfTell(f, [msg |-> m, sealed |-> sealed], trusted), Tell(m, f, sealed)
  PROVE  EnvelopeInv'
<1> DEFINE t == [msg |-> m, sealed |-> sealed]
<1>1. /\ down' = Append(down, f) /\ told' = Append(told, t)
      /\ UNCHANGED <<up, greeted, scratch, tries, nonces, said, inbox, trusted>>
  BY DEF Tell
<1>2. /\ HubInv /\ NodeInv /\ InboxInv /\ t \in Tells
      /\ IsSequence(down) /\ told \in Seq(Tells) /\ Len(down) <= Len(told)
  BY DEF EnvelopeInv, HubInv, Tells
<1>3. Len(down) \in Nat /\ Len(told) \in Nat /\ Arrived \in 0..Len(told)
  <2>1. Len(down) \in Nat
    BY <1>2, SequenceFacts
  <2> QED BY <1>2, <2>1 DEF Arrived
<1>4. OfTell(f, t, trusted)
  OBVIOUS
<1> HIDE DEF t
<1>5. /\ IsSequence(down') /\ Len(down') = Len(down) + 1 /\ down'[Len(down) + 1] = f
      /\ \A k \in 1..Len(down) : down'[k] = down[k]
  BY <1>1, <1>2, SequenceGrows
<1>6. /\ told' \in Seq(Tells) /\ Len(told') = Len(told) + 1 /\ told'[Len(told) + 1] = t
      /\ \A i \in 1..Len(told) : told'[i] = told[i]
  BY <1>1, <1>2
<1>7. Arrived' = Arrived
  BY <1>3, <1>5, <1>6 DEF Arrived
<1>8. /\ Accepted(Arrived)' = Accepted(Arrived) /\ Given(Arrived)' = Given(Arrived)
      /\ \A i \in Given(Arrived) : Given(i)' = Given(i) /\ told'[i] = told[i]
  <2>1. PICK n \in 0..Len(told) : n = Arrived
    BY <1>3
  <2>2. Accepted(n)' = Accepted(n) /\ Given(n)' = Given(n)
        /\ \A i \in Given(n) : Given(i)' = Given(i) /\ told'[i] = told[i]
    BY <1>1, <1>2, ToldStays
  <2>3. Accepted(Arrived) = Accepted(n) /\ Given(Arrived) = Given(n)
    BY <2>1
  <2>4. Accepted(Arrived)' = Accepted(n)' /\ Given(Arrived)' = Given(n)'
    BY <1>7, <2>1 DEF Accepted, Given
  <2> QED BY <2>2, <2>3, <2>4
<1>a. ASSUME NEW k \in 1..Len(down) + 1 PROVE OfTell(down'[k], told'[Arrived + k], trusted)
  <2>1. CASE k = Len(down) + 1
    <3>1. Arrived + k = Len(told) + 1
      BY <1>3, <2>1 DEF Arrived
    <3> QED BY <1>4, <1>5, <1>6, <2>1, <3>1
  <2>2. CASE k \in 1..Len(down)
    <3>1. OfTell(down[k], told[Arrived + k], trusted) /\ Arrived + k \in 1..Len(told)
      BY <1>2, <1>3, <2>2 DEF HubInv, Arrived
    <3> QED BY <1>5, <1>6, <2>2, <3>1
  <2> QED BY <1>3, <2>1, <2>2
<1>b. HubInv'
  <2>1. (\A k \in 1..Len(down) : OfTell(down[k], told[Arrived + k], trusted))'
    BY <1>1, <1>5, <1>7, <1>a
  <2>2. (Len(down) <= Len(told))' /\ (told \in Seq(Tells))'
    BY <1>2, <1>3, <1>5, <1>6 DEF Tells
  <2>3. (greeted <=> Accepted(Arrived) # {})'
    BY <1>1, <1>2, <1>8 DEF HubInv
  <2>4. IsSequence(down)' /\ (trusted \in BOOLEAN /\ greeted \in BOOLEAN)'
    BY <1>1, <1>2, <1>5 DEF HubInv, IsSequence
  <2> QED BY <2>1, <2>2, <2>3, <2>4 DEF HubInv
<1>c. NodeInv'
  BY <1>1, <1>2, <1>8 DEF NodeInv, FramesSent, IsSequence, OfSend, Tag, Behind, HellosOf, Buffer
<1>d. InboxInv'
  BY <1>1, <1>2, <1>8 DEF InboxInv, GivenIsTold
<1> QED BY <1>b, <1>c, <1>d DEF EnvelopeInv

\* What is left of the connection once its first frame is taken, and what that
\* frame is read as.
LEMMA FrameTaken ==
  ASSUME HubInv, down # <<>>, down' = Tail(down), UNCHANGED <<told, trusted>>
  PROVE  /\ Arrived' = Arrived + 1 /\ Arrived \in Nat /\ Arrived + 1 \in 1..Len(told)
         /\ IsSequence(down') /\ Len(down') <= Len(told')
         /\ \A k \in 1..Len(down') : OfTell(down'[k], told[Arrived + 1 + k], trusted)
         /\ told[Arrived + 1] \in Tells
         /\ Received(Head(down)) = IF Reaches(Arrived + 1)
                                  THEN [msg |-> told[Arrived + 1].msg, pads |-> {}] ELSE Nil
<1>1. /\ IsSequence(down) /\ Len(down) <= Len(told) /\ Len(told) \in Nat /\ told \in Seq(Tells)
      /\ trusted \in BOOLEAN
  BY DEF HubInv
<1>2. /\ Len(down) \in Nat /\ Len(down) > 0 /\ IsSequence(Tail(down))
      /\ Len(Tail(down)) = Len(down) - 1 /\ Head(down) = down[1]
      /\ \A i \in 1..Len(down) - 1 : Tail(down)[i] = down[i + 1]
  BY <1>1, SequenceFacts
<1>3. Arrived' = Arrived + 1 /\ Arrived \in Nat /\ Arrived + 1 \in 1..Len(told) /\ Len(down') <= Len(told')
  BY <1>1, <1>2 DEF Arrived
<1>4. \A k \in 1..Len(down) : OfTell(down[k], told[Arrived + k], trusted)
  BY DEF HubInv
<1>5. ASSUME NEW k \in 1..Len(down') PROVE OfTell(down'[k], told[Arrived + 1 + k], trusted)
  <2>1. down'[k] = down[k + 1] /\ k + 1 \in 1..Len(down) /\ Arrived + 1 + k = Arrived + (k + 1)
    BY <1>2, <1>3
  <2> QED BY <1>4, <2>1
<1>6. told[Arrived + 1] \in Tells
  BY <1>1, <1>3
<1>7. OfTell(Head(down), told[Arrived + 1], trusted)
  BY <1>2, <1>4
<1>8. Received(Head(down)) = IF Reaches(Arrived + 1)
                             THEN [msg |-> told[Arrived + 1].msg, pads |-> {}] ELSE Nil
  BY <1>1, <1>6, <1>7, ReceivedIs DEF Reaches
<1> QED BY <1>2, <1>3, <1>5, <1>6, <1>8

\* What the application makes of it: a hello, a message, or nothing.
LEMMA HandledIs ==
  ASSUME HubInv, HandleFrame
  PROVE  LET n == Arrived + 1
         IN /\ up' = IF OfferAt(n) THEN Append(up, [kind |-> "hello"]) ELSE up
            /\ said' = IF OfferAt(n) THEN Append(said, [msg |-> "none", tries |-> 0]) ELSE said
            /\ greeted' <=> greeted \/ OfferAt(n)
            /\ greeted' \in BOOLEAN
            /\ inbox' = IF BusAt(n) /\ greeted THEN Append(inbox, told[n].msg) ELSE inbox
<1> DEFINE n == Arrived + 1
           m == told[n].msg
           text == Received(Head(down))
           parsed == text.msg \in Messages /\ text.pads = {}
           offer == parsed /\ IsPresharedHandshake(text.msg)
           bus == parsed /\ ~offer /\ greeted /\ TypeOf[text.msg] = "bus"
<1>1. /\ down # <<>> /\ down' = Tail(down) /\ UNCHANGED <<told, trusted>>
      /\ up' = IF offer THEN Append(up, [kind |-> "hello"]) ELSE up
      /\ said' = IF offer THEN Append(said, [msg |-> "none", tries |-> 0]) ELSE said
      /\ greeted' = (greeted \/ offer)
      /\ inbox' = IF bus THEN Append(inbox, text.msg) ELSE inbox
  BY DEF HandleFrame
<1>2. told[n] \in Tells /\ text = IF Reaches(n) THEN [msg |-> m, pads |-> {}] ELSE Nil
  BY <1>1, FrameTaken
<1>3. m \in Messages /\ Truthy[m] \subseteq {"preshared_key", "handshake", "envelope"} /\ "none" \notin Messages
  BY <1>2, WireAssumption DEF Tells
<1>4. greeted \in BOOLEAN
  BY DEF HubInv
<1> HIDE DEF n, text
<1>5. parsed <=> Reaches(n)
  BY <1>2, <1>3 DEF Nil
<1>6. Reaches(n) => text.msg = m
  BY <1>2
<1>7. IsPresharedHandshake(m) <=> TypeOf[m] \in {"handshake", "shake"} /\ Truthy[m] = {"preshared_key"}
  BY <1>3 DEF IsPresharedHandshake
<1>8. offer <=> OfferAt(n)
  <2> HIDE DEF parsed
  <2> QED BY <1>5, <1>6, <1>7 DEF OfferAt
<1>9. bus <=> BusAt(n) /\ greeted
  <2>1. BusAt(n) => ~OfferAt(n)
    BY DEF BusAt, OfferAt
  <2> HIDE DEF parsed, offer
  <2> QED BY <1>5, <1>6, <1>8, <2>1 DEF BusAt
<1>a. bus => text.msg = m
  <2>1. bus => Reaches(n)
    BY <1>9 DEF BusAt
  <2> HIDE DEF bus
  <2> QED BY <1>6, <2>1
<1> HIDE DEF offer, bus, m
<1>b. /\ up' = IF OfferAt(n) THEN Append(up, [kind |-> "hello"]) ELSE up
      /\ said' = IF OfferAt(n) THEN Append(said, [msg |-> "none", tries |-> 0]) ELSE said
      /\ greeted' <=> greeted \/ OfferAt(n)
      /\ greeted' \in BOOLEAN
  BY <1>1, <1>4, <1>8
<1>c. inbox' = IF BusAt(n) /\ greeted THEN Append(inbox, m) ELSE inbox
  BY <1>1, <1>9, <1>a
<1> QED BY <1>b, <1>c DEF n, m

LEMMA HandleKeeps ==
  ASSUME EnvelopeInv, HandleFrame
  PROVE  EnvelopeInv'
<1> DEFINE a == Arrived
           n == Arrived + 1
<1>1. /\ down # <<>> /\ down' = Tail(down) /\ UNCHANGED <<scratch, tries, nonces, told, trusted>>
  BY DEF HandleFrame
<1>2. HubInv /\ NodeInv /\ InboxInv
  BY DEF EnvelopeInv
<1>3. /\ Arrived' = n /\ a \in Nat /\ n = a + 1 /\ n \in 1..Len(told) /\ IsSequence(down') /\ Len(down') <= Len(told')
      /\ \A k \in 1..Len(down') : OfTell(down'[k], told[n + k], trusted)
      /\ told[n] \in Tells
  BY <1>1, <1>2, FrameTaken
<1>4. /\ up' = IF OfferAt(n) THEN Append(up, [kind |-> "hello"]) ELSE up
      /\ said' = IF OfferAt(n) THEN Append(said, [msg |-> "none", tries |-> 0]) ELSE said
      /\ greeted' <=> greeted \/ OfferAt(n)
      /\ greeted' \in BOOLEAN
      /\ inbox' = IF BusAt(n) /\ greeted THEN Append(inbox, told[n].msg) ELSE inbox
  BY <1>2, HandledIs
<1>5. \A k : Accepted(k)' = Accepted(k) /\ Given(k)' = Given(k)
  BY <1>1 DEF Accepted, Given, Reaches
<1>6. (greeted <=> Accepted(a) # {}) /\ trusted \in BOOLEAN /\ told \in Seq(Tells)
  BY <1>2 DEF HubInv
<1>7. Accepted(Arrived)' = Accepted(n) /\ Given(Arrived)' = Given(n)
  BY <1>1, <1>3 DEF Accepted, Given, Reaches
<1> HIDE DEF a, n
<1>8. /\ Accepted(a) \in SUBSET (1..a) /\ Given(a) \in SUBSET (1..a)
      /\ Accepted(n) = IF OfferAt(n) THEN Accepted(a) \cup {n} ELSE Accepted(a)
      /\ Given(n) = IF BusAt(n) /\ Accepted(a) # {} THEN Given(a) \cup {n} ELSE Given(a)
      /\ BusAt(n) => ~OfferAt(n)
  BY <1>3, NextTold
<1>9. HubInv'
  <2>1. (greeted <=> Accepted(Arrived) # {})'
    BY <1>4, <1>6, <1>7, <1>8
  <2>2. (\A k \in 1..Len(down) : OfTell(down[k], told[Arrived + k], trusted))'
    BY <1>1, <1>3
  <2>3. (trusted \in BOOLEAN /\ greeted \in BOOLEAN /\ told \in Seq(Tells))'
    BY <1>1, <1>4, <1>6 DEF Tells
  <2>4. IsSequence(down)' /\ (Len(down) <= Len(told))'
    BY <1>3 DEF IsSequence
  <2> QED BY <2>1, <2>2, <2>3, <2>4 DEF HubInv
<1>a. NodeInv'
  <2> DEFINE hello == [kind |-> "hello"]
             none == [msg |-> "none", tries |-> 0]
  <2>1. /\ nonces \in Nat /\ FramesSent(up, said, nonces) /\ Buffer(scratch, tries, nonces)
        /\ greeted <=> HellosOf(up) # {}
        /\ ~greeted => tries = 0
        /\ Cardinality(HellosOf(up)) = Cardinality(Accepted(a))
    BY <1>2 DEF NodeInv, a
  <2>2. CASE OfferAt(n)
    <3>1. hello.kind = "hello" /\ up' = Append(up, hello) /\ said' = Append(said, none)
      BY <1>4, <2>2
    <3>1a. MaySend(hello, none, up, nonces, nonces)
      BY <2>1, <3>1 DEF MaySend
    <3> HIDE DEF hello, none
    <3>1b. /\ FramesSent(Append(up, hello), Append(said, none), nonces)
           /\ HellosOf(Append(up, hello)) = IF hello.kind = "hello" THEN HellosOf(up) \cup {Len(up) + 1} ELSE HellosOf(up)
      <4>1. FramesSent(up, said, nonces)
        BY <2>1
      <4> QED BY ONLY <3>1a, <4>1, FramesGrow
    <3>2. /\ FramesSent(up', said', nonces) /\ HellosOf(up') = HellosOf(up) \cup {Len(up) + 1}
      BY <3>1, <3>1b
    <3>3. Len(up) \in Nat /\ HellosOf(up) \in SUBSET (1..Len(up))
      BY <2>1, SequenceFacts DEF FramesSent, HellosOf
    <3>4. Cardinality(HellosOf(up')) = Cardinality(HellosOf(up)) + 1
      BY <3>2, <3>3, CountGrows
    <3>5. Cardinality(Accepted(n)) = Cardinality(Accepted(a)) + 1
      BY <1>3, <1>8, <2>2, CountGrows
    <3>6. greeted' /\ HellosOf(up') # {}
      BY <1>4, <2>2, <3>2
    <3> QED BY <1>1, <1>7, <2>1, <3>2, <3>4, <3>5, <3>6 DEF NodeInv
  <2>3. CASE ~OfferAt(n)
    <3>1. up' = up /\ said' = said /\ (greeted' <=> greeted) /\ Accepted(n) = Accepted(a)
      BY <1>4, <1>8, <2>3
    <3> QED BY <1>1, <1>7, <2>1, <3>1 DEF NodeInv
  <2> QED BY <2>2, <2>3
<1>b. InboxInv'
  <2> DEFINE m == told[n].msg
  <2>1. /\ inbox \in Seq(Messages) /\ Len(inbox) = Cardinality(Given(a))
        /\ \A i \in Given(a) : inbox[Cardinality(Given(i))] = told[i].msg /\ Cardinality(Given(i)) \in 1..Len(inbox)
    BY <1>2, <1>3, GivenCounts DEF InboxInv, GivenIsTold, a
  <2>2. m \in Messages
    BY <1>3 DEF Tells
  <2> HIDE DEF m
  <2>3. /\ inbox' \in Seq(Messages) /\ Len(inbox') = Cardinality(Given(n))
        /\ \A i \in Given(n) : inbox'[Cardinality(Given(i))] = told[i].msg
    <3>1. CASE BusAt(n) /\ greeted
      <4>1. inbox' = Append(inbox, m) /\ Given(n) = Given(a) \cup {n}
        BY <1>4, <1>6, <1>8, <3>1 DEF m
      <4>2. Cardinality(Given(n)) = Len(inbox) + 1
        <5>1. Cardinality(Given(a) \cup {a + 1}) = Cardinality(Given(a)) + 1
          BY <1>3, <1>8, CountGrows
        <5> QED BY <1>3, <2>1, <4>1, <5>1
      <4>3. /\ inbox' \in Seq(Messages) /\ Len(inbox') = Len(inbox) + 1 /\ inbox'[Len(inbox) + 1] = m
            /\ \A i \in 1..Len(inbox) : inbox'[i] = inbox[i]
        BY <2>1, <2>2, <4>1
      <4>4. \A i \in Given(a) : inbox'[Cardinality(Given(i))] = told[i].msg
        BY <2>1, <4>3
      <4>5. inbox'[Cardinality(Given(n))] = told[n].msg
        BY <4>2, <4>3 DEF m
      <4> QED BY <4>1, <4>2, <4>3, <4>4, <4>5
    <3>2. CASE ~(BusAt(n) /\ greeted)
      <4>1. inbox' = inbox /\ Given(n) = Given(a)
        BY <1>4, <1>6, <1>8, <3>2
      <4> QED BY <2>1, <4>1
    <3> QED BY <3>1, <3>2
  <2>4. GivenIsTold'
    BY <1>1, <1>5, <1>7, <2>3 DEF GivenIsTold
  <2> QED BY <2>3, <2>4 DEF InboxInv
<1> QED BY <1>9, <1>a, <1>b DEF EnvelopeInv

\* Neither what is told nor what has arrived changes while the node sends.
LEMMA HubUnchanged ==
  ASSUME EnvelopeInv, UNCHANGED <<down, greeted, inbox, told, trusted>>
  PROVE  HubInv' /\ InboxInv' /\ Accepted(Arrived)' = Accepted(Arrived)
<1>1. HubInv /\ InboxInv
  BY DEF EnvelopeInv
<1>2. Accepted(Arrived)' = Accepted(Arrived)
  BY DEF Accepted, Arrived, Reaches
<1>3. HubInv'
  BY <1>1, <1>2 DEF HubInv, Arrived, IsSequence, Tells
<1>4. InboxInv'
  <2>1. \A i : Given(i)' = Given(i)
    BY DEF Given, Accepted, Reaches
  <2>2. Given(Arrived)' = Given(Arrived)
    BY DEF Given, Accepted, Reaches, Arrived
  <2> QED BY <1>1, <2>1, <2>2 DEF InboxInv, GivenIsTold
<1> QED BY <1>2, <1>3, <1>4

\* A frame of the node is written,
LEMMA ComposeKeeps ==
  ASSUME EnvelopeInv, NEW m \in Messages, Compose(m)
  PROVE  EnvelopeInv'
<1>1. /\ scratch' = [msg |-> m, pads |-> {}] /\ tries' = 0
      /\ UNCHANGED <<up, down, greeted, nonces, said, inbox, told, trusted>>
  BY DEF Compose
<1>2. HubInv' /\ InboxInv' /\ Accepted(Arrived)' = Accepted(Arrived)
  BY <1>1, HubUnchanged
<1>3. NodeInv'
  <2>1. Buffer(scratch', tries', nonces')
    BY <1>1 DEF Buffer
  <2> QED BY <1>1, <1>2, <2>1 DEF EnvelopeInv, NodeInv
<1> QED BY <1>2, <1>3 DEF EnvelopeInv

\* and sent: in the clear, or sealed with the next of its nonces.
LEMMA SendKeeps ==
  ASSUME EnvelopeInv, NEW cap \in EnvelopeCaps, SendFrame(cap)
  PROVE  EnvelopeInv'
<1> DEFINE nonce == <<"node", nonces>>
           out == EncryptJson(scratch, nonce, cap)
           text == Sealed(scratch, nonce)
           t == [msg |-> scratch.msg, tries |-> tries]
<1>1. /\ nonces \in Nat /\ FramesSent(up, said, nonces) /\ Buffer(scratch, tries, nonces)
      /\ greeted <=> HellosOf(up) # {}
      /\ ~greeted => tries = 0
      /\ Cardinality(HellosOf(up)) = Cardinality(Accepted(Arrived))
  BY DEF EnvelopeInv, NodeInv
<1>2. UNCHANGED <<down, greeted, inbox, told, trusted>>
  BY DEF SendFrame
<1>3. HubInv' /\ InboxInv' /\ Accepted(Arrived)' = Accepted(Arrived)
  BY <1>2, HubUnchanged
<1>4. CASE ~greeted
  <2> DEFINE f == [kind |-> "plain", text |-> scratch]
             u == [msg |-> scratch.msg, tries |-> 0]
  <2>1. up' = Append(up, f) /\ said' = Append(said, u) /\ UNCHANGED <<scratch, tries, nonces>>
    BY <1>4 DEF SendFrame
  <2>2. f.kind = "plain" /\ HellosOf(up) = {}
    BY <1>1, <1>4
  <2> HIDE DEF f, u
  <2>3. MaySend(f, u, up, nonces, nonces) /\ f.kind # "hello"
    BY <1>1, <2>2 DEF MaySend
  <2>3a. /\ FramesSent(Append(up, f), Append(said, u), nonces)
         /\ HellosOf(Append(up, f)) = IF f.kind = "hello" THEN HellosOf(up) \cup {Len(up) + 1} ELSE HellosOf(up)
    BY <1>1, <2>3, FramesGrow
  <2>4. FramesSent(up', said', nonces) /\ HellosOf(up') = HellosOf(up)
    BY <2>1, <2>3, <2>3a
  <2>5. NodeInv'
    BY <1>1, <1>2, <1>3, <2>1, <2>4 DEF NodeInv
  <2> QED BY <1>3, <2>5 DEF EnvelopeInv
<1>5. CASE greeted
  <2>1. /\ nonces' = nonces + 1 /\ scratch' = text /\ tries' = tries + 1
        /\ IF out.rc = "OK" THEN up' = Append(up, out.frame) /\ said' = Append(said, t)
                            ELSE UNCHANGED <<up, said>>
    BY <1>5 DEF SendFrame
  <2>2. /\ scratch = [msg |-> scratch.msg, pads |-> scratch.pads] /\ tries \in Nat
        /\ \A p \in scratch.pads : \E k \in 0..nonces - 1 : p = <<"node", k>>
        /\ scratch.pads = {} <=> tries = 0
    BY <1>1 DEF Buffer
  <2>3. nonce \notin scratch.pads
    <3>1. \A k \in 0..nonces - 1 : <<"node", k>> # nonce
      BY <1>1
    <3> QED BY <2>2, <3>1
  <2>4. text = [msg |-> scratch.msg, pads |-> scratch.pads \cup {nonce}]
    <3> HIDE DEF nonce
    <3>1. [scratch EXCEPT !.pads = scratch.pads \cup {nonce}] = [msg |-> scratch.msg, pads |-> scratch.pads \cup {nonce}]
      BY <2>2
    <3> QED BY <2>3, <3>1 DEF Sealed, Toggle
  <2>5. \A p \in scratch.pads \cup {nonce} : \E k \in 0..nonces' - 1 : p = <<"node", k>>
    <3>1. \A k \in 0..nonces - 1 : k \in 0..nonces' - 1
      BY <1>1, <2>1
    <3>2. nonces \in 0..nonces' - 1
      BY <1>1, <2>1
    <3> QED BY <2>2, <3>1, <3>2
  <2>6. Buffer(scratch', tries', nonces')
    <3>1. tries' \in Nat /\ tries' # 0
      BY <2>1, <2>2
    <3> HIDE DEF nonce, text
    <3> QED BY <2>1, <2>4, <2>5, <3>1 DEF Buffer
  <2>7. CASE out.rc = "OK"
    <3> DEFINE f == out.frame
    <3>1. f.kind = "json" /\ f.text = text /\ f.nonce = nonce /\ f.tag = Tag("node", nonce, text)
      BY DEF EncryptJson, Envelope
    <3>2. t.msg = scratch.msg /\ t.tries = tries
      OBVIOUS
    <3> HIDE DEF out, f, t, text
    <3>3. OfSend(f, t, nonces')
      <4>1. \E k \in 0..nonces' - 1 : f.nonce = <<"node", k>>
        <5>1. nonces \in 0..nonces' - 1
          BY <1>1, <2>1
        <5> QED BY <3>1, <5>1
      <4>2. scratch.pads \cup {nonce} = {nonce} <=> tries = 0
        <5> HIDE DEF nonce
        <5> QED BY <2>2, <2>3
      <4> HIDE DEF nonce
      <4> QED BY <2>4, <3>1, <3>2, <4>1, <4>2 DEF OfSend
    <3>4. /\ nonces' \in Nat /\ nonces <= nonces' /\ up' = Append(up, f) /\ said' = Append(said, t)
          /\ HellosOf(up) # {}
      BY <1>1, <1>5, <2>1, <2>7 DEF f
    <3>4a. MaySend(f, t, up, nonces, nonces') /\ f.kind # "hello"
      BY <1>1, <3>1, <3>3, <3>4 DEF MaySend
    <3>5. FramesSent(up', said', nonces') /\ HellosOf(up') = HellosOf(up)
      BY <1>1, <3>4, <3>4a, FramesGrow
    <3>6. NodeInv'
      BY <1>1, <1>2, <1>3, <1>5, <2>6, <3>4, <3>5 DEF NodeInv
    <3> QED BY <1>3, <3>6 DEF EnvelopeInv
  <2>8. CASE out.rc # "OK"
    <3>1. up' = up /\ said' = said /\ FramesSent(up, said, nonces')
      BY <1>1, <2>1, <2>8, FramesStay
    <3>2. nonces' \in Nat
      BY <1>1, <2>1
    <3>3. NodeInv'
      BY <1>1, <1>2, <1>3, <1>5, <2>6, <3>1, <3>2 DEF NodeInv
    <3> QED BY <1>3, <3>3 DEF EnvelopeInv
  <2> QED BY <2>7, <2>8
<1> QED BY <1>4, <1>5

\* What is under way between the application of docs/linux-websocket.md and a
\* hub that tells it anything, in the clear or sealed: each frame of the node is
\* of the kind its place behind a hello calls for, what a buffer was sealed with
\* is known, and the application has what it was told.
THEOREM EnvelopesInductive == WireSpec => []EnvelopeInv
<1>1. ASSUME EnvelopeInv, [WireNext]_wireVars PROVE EnvelopeInv'
  <2>1. CASE UNCHANGED wireVars
    <3>1. HubInv' /\ InboxInv' /\ Accepted(Arrived)' = Accepted(Arrived)
      BY <1>1, <2>1, HubUnchanged DEF wireVars
    <3>2. NodeInv'
      BY <1>1, <2>1, <3>1 DEF wireVars, EnvelopeInv, NodeInv
    <3> QED BY <3>1, <3>2 DEF EnvelopeInv
  <2>2. ASSUME NEW m \in Messages, HubTell(m) PROVE EnvelopeInv'
    <3> DEFINE f == [kind |-> "plain", text |-> [msg |-> m, pads |-> {}]]
    <3>1. OfTell(f, [msg |-> m, sealed |-> FALSE], trusted)
      BY DEF OfTell
    <3>2. Tell(m, f, FALSE)
      BY <2>2 DEF HubTell
    <3> HIDE DEF f
    <3> QED BY <1>1, <3>1, <3>2, TellKeeps
  <2>3. ASSUME NEW m \in Messages, NEW form \in Forms, HubSeal(m, form) PROVE EnvelopeInv'
    <3> DEFINE nonce == <<"hub", Len(told)>>
               text == [msg |-> m, pads |-> {nonce}]
               f == [kind |-> "json", text |-> text, nonce |-> nonce, enc |-> form.enc,
                     nonceLen |-> form.nonceLen, hexish |-> form.hexish,
                     tag |-> Tag(IF trusted THEN "node" ELSE "other", nonce, text)]
    <3>1. form.enc \in {"hex", "base64", "unpadded"} /\ form.nonceLen \in {12, 16} /\ form.hexish \in BOOLEAN
      BY WireAssumption
    <3>2. Tell(m, f, TRUE)
      BY <2>3 DEF HubSeal
    <3> HIDE DEF nonce
    <3>3. OfTell(f, [msg |-> m, sealed |-> TRUE], trusted)
      BY <3>1 DEF OfTell
    <3> HIDE DEF f
    <3> QED BY <1>1, <3>2, <3>3, TellKeeps
  <2> QED BY <1>1, <2>1, <2>2, <2>3, HandleKeeps, ComposeKeeps, SendKeeps DEF WireNext
<1> QED BY <1>1, EnvelopeInit, PTL DEF WireSpec

\* Against any hub, with buffers of any size and whenever it writes, sends or
\* sends again: the application answers each offer with one hello, goes sealed
\* from the first on, lets no message nor nonce go out twice under
\* thalovant_envelope_encrypt_json, and is given exactly what it was told.
THEOREM EnvelopesHoldHolds == WireSpec => []EnvelopesHold
<1>1. ASSUME EnvelopeInv PROVE EnvelopesHold
  <2>1. /\ FramesSent(up, said, nonces) /\ Cardinality(HellosOf(up)) = Cardinality(Accepted(Arrived))
        /\ IsSequence(up) /\ DOMAIN up = 1..Len(up) /\ Len(up) \in Nat
    <3>1. FramesSent(up, said, nonces) /\ Cardinality(HellosOf(up)) = Cardinality(Accepted(Arrived))
      BY <1>1 DEF EnvelopeInv, NodeInv
    <3>2. IsSequence(up)
      BY <3>1 DEF FramesSent
    <3> QED BY <3>1, <3>2, SequenceFacts
  <2>2. Hellos = HellosOf(up)
    BY <2>1 DEF Hellos, HellosOf
  <2>3. ASSUME NEW i \in Sent
        PROVE  /\ i \in 1..Len(up) /\ up[i].kind \in {"plain", "json"}
               /\ up[i].kind = "json" <=> Behind(up, i)
               /\ up[i].kind = "json" => OfSend(up[i], said[i], nonces)
    <3>1. i \in 1..Len(up) /\ up[i].kind # "hello"
      BY <2>1 DEF Sent
    <3> QED BY <2>1, <3>1 DEF FramesSent
  <2>4. HelloAnswersOffer
    <3>1. ASSUME NEW i \in Sent PROVE (up[i].kind = "json") = (\E j \in Hellos : j < i)
      <4>1. Behind(up, i) <=> \E j \in Hellos : j < i
        BY <2>1, <2>2, <2>3 DEF Behind, HellosOf
      <4> QED BY <2>3, <4>1
    <3> QED BY <2>1, <2>2, <3>1 DEF HelloAnswersOffer
  <2>5. SealedOnce
    <3> SUFFICES ASSUME NEW i \in Sent, up[i].kind = "json"
                 PROVE  /\ up[i].nonce \in up[i].text.pads /\ Verified(up[i])
                        /\ (Toggle(up[i].text, up[i].nonce) = [msg |-> said[i].msg, pads |-> {}]) = (said[i].tries = 0)
                        /\ \A j \in Sent : j # i /\ up[j].kind = "json" => up[j].nonce # up[i].nonce
      BY DEF SealedOnce
    <3>1. /\ up[i].text = [msg |-> said[i].msg, pads |-> up[i].text.pads] /\ up[i].nonce \in up[i].text.pads
          /\ up[i].text.pads = {up[i].nonce} <=> said[i].tries = 0
          /\ up[i].tag = Tag("node", up[i].nonce, up[i].text)
      BY <2>3 DEF OfSend
    <3>2. \A j \in Sent : j # i /\ up[j].kind = "json" => up[j].nonce # up[i].nonce
      BY <2>1, <2>3 DEF FramesSent
    <3> DEFINE c == up[i].text
               n == up[i].nonce
    <3>3. Toggle(c, n) = [msg |-> said[i].msg, pads |-> c.pads \ {n}]
      BY <3>1 DEF Toggle
    <3>4. c.pads \ {n} = {} <=> c.pads = {n}
      BY <3>1
    <3>5. (Toggle(c, n) = [msg |-> said[i].msg, pads |-> {}]) <=> said[i].tries = 0
      <4> HIDE DEF c, n
      <4> QED BY <3>1, <3>3, <3>4 DEF c, n
    <3> QED BY <3>1, <3>2, <3>5 DEF Verified
  <2>6. GivenIsTold
    BY <1>1 DEF EnvelopeInv, InboxInv
  <2> QED BY <2>4, <2>5, <2>6 DEF EnvelopesHold
<1> QED BY <1>1, EnvelopesInductive, PTL

-----------------------------------------------------------------------------
(* JSON frames.                                                            *)
MembersInv ==
  /\ IsSequence(frame) /\ \A i \in DOMAIN frame : frame[i].value.len \in Nat
  /\ message # Hub => /\ message.m \in NodeMessages
                      /\ message.rc = "OK" => frame = MembersOf(message.m)

\* What is read of a frame is the first member of a name.
LEMMA GetIsFirst ==
  ASSUME NEW f, NEW n \in Nat, Len(f) = n, NEW key
  PROVE  /\ \A i \in 1..n : f[i].key = key /\ (\A j \in 1..i - 1 : f[j].key # key) => Get(f, key) = f[i].value
         /\ (\A i \in 1..n : f[i].key # key) => Get(f, key) = Absent
<1> DEFINE I == {i \in 1..Len(f) : f[i].key = key}
           at == IF I # {} THEN Min(I) ELSE 0
<1>1. Get(f, key) = IF at = 0 THEN Absent ELSE f[at].value
  BY DEF Get, SelectInSeq
<1> HIDE DEF at
<1>2. ASSUME NEW i \in 1..n, f[i].key = key, \A j \in 1..i - 1 : f[j].key # key
      PROVE  Get(f, key) = f[i].value
  <2>1. i \in I /\ \A j \in I : i <= j
    BY <1>2
  <2>2. Min(I) \in I /\ \A j \in I : Min(I) <= j
    BY <2>1 DEF Min
  <2>3. Min(I) = i /\ i # 0
    BY <2>1, <2>2
  <2> QED BY <1>1, <2>1, <2>3 DEF at
<1>3. (\A i \in 1..n : f[i].key # key) => Get(f, key) = Absent
  BY <1>1 DEF at
<1> QED BY <1>2, <1>3

\* Strings and objects have a length, and are there.
LEMMA StringFacts ==
  /\ \A s \in StringValues : s.type = "string" /\ s.len \in Nat /\ s # Absent
  /\ Object # Absent /\ Object.len \in Nat
<1>1. ASSUME NEW s \in StringValues PROVE s.type = "string" /\ s.len \in Nat /\ s # Absent
  <2>1. PICK len \in TextLengths : s = String(len)
    BY DEF StringValues
  <2>2. s.type = "string" /\ s.len = len
    BY <2>1 DEF String
  <2>3. s.type # Absent.type
    BY <2>2 DEF Absent
  <2> QED BY <2>2, <2>3, MembersAssumption
<1>2. Object # Absent /\ Object.len \in Nat
  <2>1. Object.type # Absent.type /\ Object.len = 9
    BY DEF Object, Absent
  <2> QED BY <2>1
<1> QED BY <1>1, <1>2

\* No member is written at first.
LEMMA MembersInit0 == MembersInit => MembersInv
BY DEF MembersInit, MembersInv, IsSequence

\* The eight members of a message the node serializes.
LEMMA MembersWritten ==
  ASSUME NEW m \in NodeMessages
  PROVE  /\ IsSequence(MembersOf(m)) /\ Len(MembersOf(m)) = 8
         /\ \A i \in 1..8 : /\ MembersOf(m)[i].key = Order[i]
                            /\ MembersOf(m)[i].value = Written(m, Order[i])
                            /\ MembersOf(m)[i].value.len \in Nat
<1>1. MembersOf(m) \in Seq({MembersOf(m)[i] : i \in 1..8})
  BY DEF MembersOf
<1>2. ASSUME NEW i \in 1..8 PROVE Written(m, Order[i]).len \in Nat
  <2>1. Order[i] \in {"msg_type", "payload", "metadata", "route", "node", "target_site_id", "target_pubkey", "source_peer"}
    BY DEF Order
  <2>3. m[Order[i]] # Absent => m[Order[i]].len \in Nat
    BY <2>1, StringFacts DEF NodeMessages
  <2> QED BY <2>3 DEF Written
<1>3. IsSequence(MembersOf(m))
  BY <1>1 DEF IsSequence
<1> QED BY <1>2, <1>3 DEF MembersOf

\* The node writes its members, or a hub adds one.
LEMMA MembersStep ==
  ASSUME MembersInv, [MembersNext]_memberVars
  PROVE  MembersInv'
<1>1. ASSUME NEW m \in NodeMessages, NEW cap \in FrameCaps, NodeWrites(m, cap)
      PROVE  MembersInv'
  <2>1. CASE Serialize(m, cap).rc = "OK"
    <3>1. Serialize(m, cap).frame = MembersOf(m)
      BY <2>1 DEF Serialize
    <3>2. frame' = MembersOf(m) /\ message' = [m |-> m, cap |-> cap, rc |-> "OK"]
      BY <1>1, <2>1, <3>1 DEF NodeWrites
    <3>3. DOMAIN MembersOf(m) = 1..8
      BY DEF MembersOf
    <3> QED BY <3>2, <3>3, MembersWritten DEF MembersInv, IsSequence
  <2>2. CASE Serialize(m, cap).rc # "OK"
    BY <1>1, <2>2 DEF NodeWrites, MembersInv, IsSequence
  <2> QED BY <2>1, <2>2
<1>2. ASSUME NEW key, NEW v \in Values, HubAdds(key, v)
      PROVE  MembersInv'
  <2>1. v.len \in Nat
    BY StringFacts DEF Values
  <2>2. PICK S : frame \in Seq(S)
    BY DEF MembersInv, IsSequence
  <2>3. frame \in Seq(S \cup {[key |-> key, value |-> v]})
    BY <2>2
  <2>4. /\ frame' = Append(frame, [key |-> key, value |-> v]) /\ message' = Hub
    BY <1>2 DEF HubAdds
  <2>5. frame' \in Seq(S \cup {[key |-> key, value |-> v]})
    BY <2>3, <2>4
  <2>6. \A i \in DOMAIN frame' : frame'[i].value.len \in Nat
    <3>1. \A i \in DOMAIN frame' : (i \in DOMAIN frame /\ frame'[i] = frame[i])
                                   \/ frame'[i] = [key |-> key, value |-> v]
      BY <2>3, <2>4
    <3> QED BY <2>1, <3>1 DEF MembersInv
  <2>7. IsSequence(frame)'
    BY <2>5 DEF IsSequence
  <2> QED BY <2>4, <2>6, <2>7 DEF MembersInv
<1>3. CASE UNCHANGED memberVars
  BY <1>3 DEF memberVars, MembersInv, IsSequence
<1> QED BY <1>1, <1>2, <1>3 DEF MembersNext

\* What the node writes it can read: every field is what was meant.
LEMMA OwnRead == MembersInv => OwnFramesRead
<1> SUFFICES ASSUME MembersInv, message # Hub, message.rc = "OK", Short(message.m)
             PROVE  LET read == Parse(frame) IN
                    /\ read.rc = "OK" /\ read.msg_type = message.m.msg_type
                    /\ \A i \in DOMAIN Routing : read.fields[i] = message.m[Routing[i]]
                    /\ read.payload = (IF message.m.payload = Absent THEN [type |-> "object", len |-> 2, is |-> "{}"]
                                      ELSE message.m.payload)
  BY DEF OwnFramesRead
<1> DEFINE m == message.m
<1>1. m \in NodeMessages /\ frame = MembersOf(m)
  BY DEF MembersInv
<1> HIDE DEF m
<1>2. ASSUME NEW i \in 1..8 PROVE Get(frame, Order[i]) = Written(m, Order[i])
  <2>1. \A j \in 1..i - 1 : Order[j] # Order[i]
    BY DEF Order
  <2>2. /\ Len(frame) = 8 /\ frame[i].key = Order[i] /\ frame[i].value = Written(m, Order[i])
        /\ \A j \in 1..i - 1 : frame[j].key # Order[i]
    BY <1>1, <2>1, MembersWritten
  <2> QED BY <2>2, GetIsFirst
<1>3. (\A s \in StringValues : s.type = "string" /\ s.len \in Nat /\ s # Absent) /\ Object # Absent
  BY StringFacts
<1>4. Get(frame, "msg_type") = m.msg_type /\ m.msg_type \in StringValues
  BY <1>1, <1>2, <1>3 DEF Order, Written, NodeMessages
<1>5. Get(frame, "payload") = IF m.payload = Absent THEN [type |-> "object", len |-> 2, is |-> "{}"] ELSE m.payload
  <2>1. Get(frame, "payload") = Written(m, "payload")
    BY <1>2 DEF Order
  <2> QED BY <2>1 DEF Written, Json
<1>6. ASSUME NEW key \in DOMAIN FieldCaps
      PROVE  Copy(frame, key) = m[key] /\ (m[key] # Absent => FitsBuffer(m[key], FieldCaps[key]))
  <2>1. key \in {"node", "target_site_id", "target_pubkey", "source_peer"}
    BY MembersAssumption
  <2>2. m[key] \in StringValues \cup {Absent}
    BY <1>1, <2>1 DEF NodeMessages
  <2>3. Get(frame, key) = Written(m, key)
    BY <1>2, <2>1 DEF Order
  <2>4. Copy(frame, key) = m[key]
    <3>1. CASE m[key] = Absent
      <4>1. Get(frame, key) = [type |-> "null", len |-> 4, is |-> "null"]
        BY <2>1, <2>3, <3>1 DEF Written, Json
      <4> QED BY <3>1, <4>1 DEF Copy
    <3>2. CASE m[key] \in StringValues
      BY <1>3, <2>3, <3>2 DEF Copy, Written
    <3> QED BY <2>2, <3>1, <3>2
  <2> QED BY <2>4 DEF Short, FitsBuffer, m
<1>7. \A i \in DOMAIN Routing : Routing[i] \in DOMAIN FieldCaps
  BY MembersAssumption DEF Routing
<1>8. Parse(frame).rc = "OK"
  BY <1>3, <1>4, <1>6, <1>7 DEF Parse, Short, FitsBuffer, m
<1>9. /\ Parse(frame).msg_type = Get(frame, "msg_type") /\ Parse(frame).payload = Get(frame, "payload")
      /\ Parse(frame).fields = [i \in DOMAIN Routing |-> Copy(frame, Routing[i])]
  BY <1>8 DEF Parse
<1> QED BY <1>4, <1>5, <1>6, <1>7, <1>8, <1>9 DEF m

\* The first member of a name is one, and what Get reads.
LEMMA GetFirst ==
  ASSUME MembersInv, NEW key
  PROVE  /\ First(key) = {} => Get(frame, key) = Absent
         /\ \A i \in First(key) : /\ First(key) = {i} /\ Get(frame, key) = frame[i].value
                                  /\ frame[i].value.len \in Nat /\ frame[i].key = key
<1>1. PICK S : frame \in Seq(S)
  BY DEF MembersInv, IsSequence
<1>2. Len(frame) \in Nat /\ DOMAIN frame = 1..Len(frame)
  BY <1>1
<1>3. ASSUME NEW i \in First(key)
      PROVE  /\ First(key) = {i} /\ Get(frame, key) = frame[i].value
             /\ frame[i].value.len \in Nat /\ frame[i].key = key
  <2>1. i \in 1..Len(frame) /\ frame[i].key = key /\ \A j \in 1..i - 1 : frame[j].key # key
    BY <1>2 DEF First
  <2>2. Get(frame, key) = frame[i].value
    BY <1>2, <2>1, GetIsFirst
  <2>3. \A j \in First(key) : j = i
    BY <1>2, <2>1 DEF First
  <2> QED BY <1>2, <2>1, <2>2, <2>3 DEF MembersInv
<1>4. ASSUME First(key) = {} PROVE Get(frame, key) = Absent
  <2> DEFINE I == {i \in 1..Len(frame) : frame[i].key = key}
  <2>1. I = {}
    <3> SUFFICES ASSUME I # {} PROVE FALSE
      OBVIOUS
    <3>1. PICK i \in I : \A j \in I : i <= j
      <4>1. I \subseteq Nat
        BY <1>2
      <4> HIDE DEF I
      <4> QED BY <4>1, NatMin
    <3>2. i \in First(key)
      BY <1>2, <3>1 DEF First
    <3> QED BY <1>4, <3>2
  <2> QED BY <1>2, <2>1, GetIsFirst
<1> QED BY <1>3, <1>4

\* A frame says what the first of its members of each name say, in any order.
LEMMA CanonicalSame == MembersInv => FirstMembersSayAll
<1> SUFFICES ASSUME MembersInv PROVE Parse(frame) = Parse(Canonical)
  BY DEF FirstMembersSayAll
<1>1. Len(Canonical) = 8 /\ \A i \in 1..8 : Canonical[i] = FirstOrSpam(Order[9 - i])
  BY DEF Canonical
<1>2. ASSUME NEW key PROVE FirstOrSpam(key).key \in {"spam", key}
                           /\ (First(key) = {} => FirstOrSpam(key).key = "spam")
                           /\ (First(key) # {} => /\ FirstOrSpam(key).key = key
                                                  /\ FirstOrSpam(key).value = Get(frame, key))
  <2>1. CASE First(key) = {}
    BY <2>1 DEF FirstOrSpam
  <2>2. CASE First(key) # {}
    <3>1. PICK i \in First(key) : First(key) = {i} /\ Get(frame, key) = frame[i].value /\ frame[i].key = key
      BY <2>2, GetFirst
    <3>2. FirstOrSpam(key) = frame[i]
      BY <3>1 DEF FirstOrSpam
    <3> QED BY <2>2, <3>1, <3>2
  <2> QED BY <2>1, <2>2
<1>3. ASSUME NEW k \in 1..8 PROVE Get(Canonical, Order[k]) = Get(frame, Order[k])
  <2> DEFINE key == Order[k]
             i == 9 - k
  <2>1. i \in 1..8 /\ Order[9 - i] = key
    OBVIOUS
  <2>2. /\ \A j \in 1..8 : j # i => Order[9 - j] # key
        /\ key # "spam"
    BY DEF Order
  <2>3. \A j \in 1..8 : j # i => Canonical[j].key # key
    BY <1>1, <1>2, <2>2
  <2>4. CASE First(key) = {}
    <3>1. Canonical[i].key # key
      BY <1>1, <1>2, <2>1, <2>2, <2>4
    <3>2. \A j \in 1..8 : Canonical[j].key # key
      BY <2>3, <3>1
    <3> HIDE DEF key, i
    <3>3. Get(Canonical, key) = Absent /\ Get(frame, key) = Absent
      <4>1. Get(Canonical, key) = Absent
        <5>1. Len(Canonical) \in Nat /\ \A j \in 1..Len(Canonical) : Canonical[j].key # key
          BY <1>1, <3>2
        <5> QED BY ONLY <5>1, GetIsFirst
      <4>2. Get(frame, key) = Absent
        BY <2>4, GetFirst
      <4> QED BY <4>1, <4>2
    <3> QED BY <3>3 DEF key
  <2>5. CASE First(key) # {}
    <3>1. Canonical[i].key = key /\ Canonical[i].value = Get(frame, key)
      BY <1>1, <1>2, <2>1, <2>5
    <3>2. \A j \in 1..i - 1 : Canonical[j].key # key
      BY <2>1, <2>3
    <3> HIDE DEF key, i
    <3>3. Get(Canonical, key) = Canonical[i].value
      BY <1>1, <2>1, <3>1, <3>2, GetIsFirst
    <3> QED BY <3>1, <3>3 DEF key
  <2> QED BY <2>4, <2>5
<1>4. /\ Get(Canonical, "msg_type") = Get(frame, "msg_type")
      /\ Get(Canonical, "payload") = Get(frame, "payload")
      /\ Get(Canonical, "metadata") = Get(frame, "metadata")
      /\ \A i \in DOMAIN Routing : Get(Canonical, Routing[i]) = Get(frame, Routing[i])
  BY <1>3 DEF Order, Routing
<1>5. \A i \in DOMAIN Routing : Copy(Canonical, Routing[i]) = Copy(frame, Routing[i])
  BY <1>4 DEF Copy
<1>6. [i \in DOMAIN Routing |-> Copy(Canonical, Routing[i])] = [i \in DOMAIN Routing |-> Copy(frame, Routing[i])]
  BY <1>5
<1> QED BY <1>4, <1>5, <1>6 DEF Parse

\* A frame is refused only for a field that does not fit.
LEMMA ReadUnless == MembersInv => ReadUnlessTooLong
<1> SUFFICES ASSUME MembersInv PROVE ReadUnlessTooLong
  OBVIOUS
<1>1. ASSUME NEW key, NEW cap \in Nat
      PROVE  TooLong(key, cap) <=> Get(frame, key).type = "string" /\ ~FitsBuffer(Get(frame, key), cap)
  <2>1. CASE First(key) = {}
    <3>1. Get(frame, key) = Absent
      BY <2>1, GetFirst
    <3> QED BY <2>1, <3>1 DEF TooLong, Absent
  <2>2. CASE First(key) # {}
    <3>1. PICK i \in First(key) : /\ First(key) = {i} /\ Get(frame, key) = frame[i].value
                                  /\ frame[i].value.len \in Nat
      BY <2>2, GetFirst
    <3> QED BY <3>1 DEF TooLong, FitsBuffer
  <2> QED BY <2>1, <2>2
<1>2. (\E i \in First("msg_type") : frame[i].value.type = "string") <=> Get(frame, "msg_type").type = "string"
  <2>1. CASE First("msg_type") = {}
    <3>1. Get(frame, "msg_type") = Absent
      BY <2>1, GetFirst
    <3> QED BY <2>1, <3>1 DEF Absent
  <2>2. CASE First("msg_type") # {}
    <3>1. PICK i \in First("msg_type") : First("msg_type") = {i} /\ Get(frame, "msg_type") = frame[i].value
      BY <2>2, GetFirst
    <3> QED BY <3>1
  <2> QED BY <2>1, <2>2
<1>3. ASSUME NEW key, NEW cap \in Nat
      PROVE  TooLong(key, cap) <=> Copy(frame, key) # Absent /\ ~FitsBuffer(Copy(frame, key), cap)
  <2>1. Get(frame, key).type = "string" => Get(frame, key) # Absent
    BY DEF Absent
  <2> QED BY <1>1, <2>1 DEF Copy
<1>4. \A key \in DOMAIN FieldCaps : FieldCaps[key] \in Nat
  BY MembersAssumption
<1>5. (\E i \in DOMAIN Routing : /\ Copy(frame, Routing[i]) # Absent
                                 /\ ~FitsBuffer(Copy(frame, Routing[i]), FieldCaps[Routing[i]]))
      <=> \E key \in DOMAIN FieldCaps : TooLong(key, FieldCaps[key])
  <2>1. /\ \A i \in DOMAIN Routing : Routing[i] \in DOMAIN FieldCaps
        /\ \A key \in DOMAIN FieldCaps : \E i \in DOMAIN Routing : Routing[i] = key
    BY MembersAssumption DEF Routing
  <2> QED BY <1>3, <1>4, <2>1
<1>6. Parse(frame).rc = "OK" <=>
        /\ Get(frame, "msg_type").type = "string" /\ FitsBuffer(Get(frame, "msg_type"), TypeCap)
        /\ ~\E i \in DOMAIN Routing : /\ Copy(frame, Routing[i]) # Absent
                                      /\ ~FitsBuffer(Copy(frame, Routing[i]), FieldCaps[Routing[i]])
  BY DEF Parse
<1> QED BY <1>1, <1>2, <1>4, <1>5, <1>6, MembersAssumption DEF ReadUnlessTooLong

\* JSON frames are read as they were written, or refused for a reason: of
\* thalovant_wire_serialize and thalovant_wire_parse, for every message, order
\* and size of buffers.
THEOREM MembersAreReadHolds == MembersSpec => []MembersAreRead
<1>1. MembersInv => MembersAreRead
  BY OwnRead, CanonicalSame, ReadUnless DEF MembersAreRead
<1> QED BY <1>1, MembersInit0, MembersStep, PTL DEF MembersSpec

-----------------------------------------------------------------------------
(* Binary frames.                                                          *)
\* The weights of bits: each is half the one before.
LEMMA Weights ==
  /\ \A k \in 1..8 : Weight[k] \in Nat \ {0}
  /\ Weight[8] = 1 /\ Weight[1] = 128 /\ Weight[4] = 16
BY DEF Weight

\* What one, five and eight bits can tell.
LEMMA Ranges ==
  /\ 0..2 * Weight[9 - 1] - 1 = 0..1 /\ 0..2 * Weight[9 - 5] - 1 = 0..31
  /\ 0..2 * Weight[9 - 8] - 1 = 0..255
  /\ 1 \in 1..8 /\ 5 \in 1..8 /\ 8 \in 1..8
BY DEF Weight

\* A bit of a number is what its half leaves over.
LEMMA Halves ==
  ASSUME NEW n \in Nat, NEW k \in 2..8
  PROVE  n \div Weight[k] = 2 * (n \div Weight[k - 1]) + ((n \div Weight[k]) % 2)
<1>1. /\ n \div 1 = 2 * (n \div 2) + ((n \div 1) % 2)
      /\ n \div 2 = 2 * (n \div 4) + ((n \div 2) % 2)
      /\ n \div 4 = 2 * (n \div 8) + ((n \div 4) % 2)
      /\ n \div 8 = 2 * (n \div 16) + ((n \div 8) % 2)
      /\ n \div 16 = 2 * (n \div 32) + ((n \div 16) % 2)
      /\ n \div 32 = 2 * (n \div 64) + ((n \div 32) % 2)
      /\ n \div 64 = 2 * (n \div 128) + ((n \div 64) % 2)
  OBVIOUS
<1>2. k \in {2, 3, 4, 5, 6, 7, 8}
  OBVIOUS
<1> QED BY <1>1, <1>2 DEF Weight

\* The bits of a number, the weightiest first.
LEMMA BitsAre ==
  ASSUME NEW n \in Nat, NEW width \in 1..8
  PROVE  /\ Bits(n, width) \in Seq(Bit) /\ Len(Bits(n, width)) = width
         /\ \A i \in 1..width : Bits(n, width)[i] = (n \div Weight[8 - width + i]) % 2
<1>1. ASSUME NEW i \in 1..width PROVE (n \div Weight[8 - width + i]) % 2 \in 0..1
  <2> DEFINE k == 8 - width + i
  <2>0. k \in 1..8
    OBVIOUS
  <2>1. Weight[k] \in Nat \ {0}
    BY ONLY <2>0, Weights
  <2>2. n \div Weight[8 - width + i] \in Nat
    BY <2>1
  <2> QED BY <2>2
<1>2. Bits(n, width) \in [1..width -> Bit]
  BY <1>1 DEF Bits, Bit
<1> QED BY <1>2 DEF Bits

\* read_uint reads the number whose bits they are,
LEMMA ReadsNumber ==
  ASSUME NEW bits, NEW pos \in Nat, NEW width \in 1..8, NEW n \in 0..2 * Weight[9 - width] - 1,
         Len(bits) \in Nat, pos + width <= Len(bits),
         \A i \in 1..width : bits[pos + i] = Bits(n, width)[i]
  PROVE  ReadUint(bits, pos, width) = [value |-> n, pos |-> pos + width]
<1> DEFINE Unfolds(f) == f = [i \in 0..width |-> IF i = 0 THEN 0 ELSE 2 * f[i - 1] + bits[pos + i]]
           known == [i \in 0..width |-> IF i = 0 THEN 0 ELSE n \div Weight[8 - width + i]]
           value == CHOOSE f : Unfolds(f)
<1>1. ReadUint(bits, pos, width) = [value |-> value[width], pos |-> pos + width]
  BY DEF ReadUint
<1>2. n \in Nat /\ 9 - width \in 1..8
  <2>1. 9 - width \in 1..8
    OBVIOUS
  <2>2. Weight[9 - width] \in Nat
    BY ONLY <2>1, Weights
  <2>3. n \in 0..2 * Weight[9 - width] - 1
    OBVIOUS
  <2> QED BY ONLY <2>1, <2>2, <2>3
<1>3. ASSUME NEW i \in 1..width
      PROVE  known[i] = 2 * known[i - 1] + bits[pos + i]
  <2>1. bits[pos + i] = (n \div Weight[8 - width + i]) % 2
    BY <1>2, BitsAre
  <2>2. known[i] = n \div Weight[8 - width + i]
    OBVIOUS
  <2>3. CASE i = 1
    <3>1. n \div Weight[9 - width] \in 0..1
      <4> DEFINE w == Weight[9 - width]
      <4>1. w \in {1, 2, 4, 8, 16, 32, 64, 128}
        <5>1. \A k \in 1..8 : Weight[k] \in {1, 2, 4, 8, 16, 32, 64, 128}
          BY DEF Weight
        <5> QED BY <1>2, <5>1
      <4>1a. n \in 0..2 * w - 1
        OBVIOUS
      <4> HIDE DEF w
      <4>2. n \div w \in 0..1
        BY <4>1, <4>1a
      <4> QED BY <4>2 DEF w
    <3>2. known[0] = 0 /\ 8 - width + 1 = 9 - width
      OBVIOUS
    <3> QED BY <2>1, <2>2, <2>3, <3>1, <3>2
  <2>4. CASE i # 1
    <3>1. 8 - width + i \in 2..8 /\ i - 1 \in 1..width
      BY <2>4
    <3>2. known[i - 1] = n \div Weight[(8 - width + i) - 1]
      BY <3>1
    <3> HIDE DEF known
    <3> DEFINE k == 8 - width + i
    <3>3. n \div Weight[k] = 2 * (n \div Weight[k - 1]) + ((n \div Weight[k]) % 2)
      <4>1. n \in Nat /\ k \in 2..8
        BY <1>2, <3>1
      <4> HIDE DEF k
      <4> QED BY ONLY <4>1, Halves
    <3> QED BY <2>1, <2>2, <3>2, <3>3
  <2> QED BY <2>3, <2>4
<1>4. known[0] = 0
  OBVIOUS
<1>5. Unfolds(known)
  <2> DEFINE unfolded == [i \in 0..width |-> IF i = 0 THEN 0 ELSE 2 * known[i - 1] + bits[pos + i]]
  <2>1. ASSUME NEW i \in 0..width PROVE known[i] = unfolded[i]
    <3>1. unfolded[i] = IF i = 0 THEN 0 ELSE 2 * known[i - 1] + bits[pos + i]
      OBVIOUS
    <3> HIDE DEF known, unfolded
    <3> QED BY <1>3, <1>4, <3>1
  <2> QED BY <2>1
<1>6. Unfolds(value)
  <2> HIDE DEF Unfolds, known
  <2> QED BY <1>5
<1>7. \A i \in 0..width : value[i] = IF i = 0 THEN 0 ELSE 2 * value[i - 1] + bits[pos + i]
  <2> HIDE DEF value
  <2>1. value = [i \in 0..width |-> IF i = 0 THEN 0 ELSE 2 * value[i - 1] + bits[pos + i]]
    BY <1>6
  <2> QED BY <2>1
<1> HIDE DEF value, known, Unfolds
<1>8. \A i \in 0..width : value[i] = known[i]
  <2> DEFINE T == {i \in 0..width : value[i] # known[i]}
  <2> SUFFICES ASSUME T # {} PROVE FALSE
    OBVIOUS
  <2>1. T \subseteq Nat
    OBVIOUS
  <2>2. PICK i \in T : \A j \in T : i <= j
    <3> HIDE DEF T
    <3> QED BY <2>1, NatMin
  <2>3. i # 0
    BY <1>4, <1>7, <2>2
  <2>4. i - 1 \in 0..width /\ i - 1 \notin T /\ i \in 1..width
    BY <2>2, <2>3
  <2>5. value[i] = 2 * value[i - 1] + bits[pos + i] /\ value[i - 1] = known[i - 1]
    BY <1>7, <2>2, <2>3, <2>4
  <2> QED BY <1>3, <2>2, <2>4, <2>5
<1>9. known[width] = n
  <2>1. known[width] = n \div Weight[8 - width + width] /\ 8 - width + width = 8
    BY DEF known
  <2>2. n \div 1 = n
    BY <1>2
  <2> QED BY <2>1, <2>2, Weights
<1>10. width \in 0..width
  OBVIOUS
<1> QED BY ONLY <1>1, <1>8, <1>9, <1>10

\* one bit,
LEMMA ReadsBit ==
  ASSUME NEW bits, NEW pos \in Nat, Len(bits) \in Nat, pos + 1 <= Len(bits), bits[pos + 1] \in 0..1
  PROVE  ReadUint(bits, pos, 1) = [value |-> bits[pos + 1], pos |-> pos + 1]
<1> DEFINE bit == bits[pos + 1]
<1>1. bit \in 0..1
  OBVIOUS
<1> HIDE DEF bit
<1>2. Bits(bit, 1)[1] = (bit \div Weight[8]) % 2
  <2>1. bit \in Nat /\ 1 \in 1..8 /\ 1 \in 1..1 /\ 8 - 1 + 1 = 8
    BY <1>1
  <2>2. \A i \in 1..1 : Bits(bit, 1)[i] = (bit \div Weight[8 - 1 + i]) % 2
    BY ONLY <2>1, BitsAre
  <2> QED BY <2>1, <2>2
<1>3. (bit \div 1) % 2 = bit
  BY <1>1
<1>4. Bits(bit, 1)[1] = bit
  BY <1>2, <1>3, Weights
<1>5. bit \in 0..2 * Weight[9 - 1] - 1
  <2>1. 2 * Weight[8] - 1 = 1 /\ 9 - 1 = 8
    BY Weights
  <2> QED BY <1>1, <2>1
<1>6. \A i \in 1..1 : bits[pos + i] = Bits(bit, 1)[i]
  BY <1>4 DEF bit
<1> QED BY <1>5, <1>6, ReadsNumber DEF bit

\* and nothing past the end.
LEMMA ReadsNothing ==
  ASSUME NEW bits, NEW pos, NEW width, pos + width > Len(bits)
  PROVE  ReadUint(bits, pos, width) = [value |-> -1, pos |-> Len(bits)]
BY DEF ReadUint

-----------------------------------------------------------------------------
\* Where a piece lies in a frame.
At(bits, pos, s) == pos + Len(s) <= Len(bits) /\ \A i \in 1..Len(s) : bits[pos + i] = s[i]

\* A piece stays where it is when more follows.
LEMMA Joined ==
  ASSUME NEW a \in Seq(Bit), NEW b \in Seq(Bit)
  PROVE  /\ a \o b \in Seq(Bit) /\ Len(a \o b) = Len(a) + Len(b)
         /\ \A i \in 1..Len(a) : (a \o b)[i] = a[i]
         /\ At(a \o b, Len(a), b)
         /\ \A pos \in Nat, s \in Seq(Bit) : At(a, pos, s) => At(a \o b, pos, s)
<1>1. /\ a \o b \in Seq(Bit) /\ Len(a \o b) = Len(a) + Len(b)
      /\ \A i \in 1..Len(a) : (a \o b)[i] = a[i]
      /\ \A i \in 1..Len(b) : (a \o b)[Len(a) + i] = b[i]
  OBVIOUS
<1> DEFINE ab == a \o b
<1> HIDE DEF ab
<1>2. /\ ab \in Seq(Bit) /\ Len(ab) = Len(a) + Len(b) /\ Len(a) \in Nat /\ Len(b) \in Nat
      /\ \A i \in 1..Len(a) : ab[i] = a[i]
      /\ \A i \in 1..Len(b) : ab[Len(a) + i] = b[i]
  BY <1>1 DEF ab
<1>3. At(ab, Len(a), b)
  BY <1>2 DEF At
<1>4. ASSUME NEW pos \in Nat, NEW s \in Seq(Bit), At(a, pos, s) PROVE At(ab, pos, s)
  <2>1. Len(s) \in Nat /\ pos + Len(s) <= Len(a)
    BY <1>4 DEF At
  <2>2. \A i \in 1..Len(s) : pos + i \in 1..Len(a)
    BY <1>2, <2>1
  <2> QED BY <1>2, <1>4, <2>1, <2>2 DEF At
<1> QED BY <1>2, <1>3, <1>4 DEF ab

\* Six pieces, one after another.
Chained(w, a, b, c, d, e, f) ==
  /\ a \in Seq(Bit) /\ b \in Seq(Bit) /\ c \in Seq(Bit)
  /\ d \in Seq(Bit) /\ e \in Seq(Bit) /\ f \in Seq(Bit)
  /\ w = a \o b \o c \o d \o e \o f
LEMMA Chain ==
  ASSUME NEW w, NEW a, NEW b, NEW c, NEW d, NEW e, NEW f, Chained(w, a, b, c, d, e, f)
  PROVE  /\ w \in Seq(Bit) /\ Len(w) = Len(a) + Len(b) + Len(c) + Len(d) + Len(e) + Len(f)
         /\ At(w, 0, a) /\ At(w, Len(a), b) /\ At(w, Len(a) + Len(b), c)
         /\ At(w, Len(a) + Len(b) + Len(c), d) /\ At(w, Len(a) + Len(b) + Len(c) + Len(d), e)
         /\ At(w, Len(a) + Len(b) + Len(c) + Len(d) + Len(e), f)
<1>0. /\ a \in Seq(Bit) /\ b \in Seq(Bit) /\ c \in Seq(Bit)
      /\ d \in Seq(Bit) /\ e \in Seq(Bit) /\ f \in Seq(Bit)
      /\ w = a \o b \o c \o d \o e \o f
  BY DEF Chained
<1>1. PICK ab : ab = a \o b
  OBVIOUS
<1>2. PICK abc : abc = ab \o c
  OBVIOUS
<1>3. PICK abcd : abcd = abc \o d
  OBVIOUS
<1>4. PICK abcde : abcde = abcd \o e
  OBVIOUS
<1>5. w = abcde \o f
  BY <1>0, <1>1, <1>2, <1>3, <1>4
<1>6. /\ Len(a) \in Nat /\ Len(b) \in Nat /\ Len(c) \in Nat /\ Len(d) \in Nat /\ Len(e) \in Nat
      /\ Len(f) \in Nat
  BY ONLY <1>0
<1>7. At(a, 0, a)
  BY <1>6 DEF At
<1>p2. PICK p2 : p2 = Len(a) + Len(b)
  OBVIOUS
<1>p3. PICK p3 : p3 = p2 + Len(c)
  OBVIOUS
<1>p4. PICK p4 : p4 = p3 + Len(d)
  OBVIOUS
<1>p5. PICK p5 : p5 = p4 + Len(e)
  OBVIOUS
<1>8. p2 \in Nat /\ p3 \in Nat /\ p4 \in Nat /\ p5 \in Nat
  BY <1>6, <1>p2, <1>p3, <1>p4, <1>p5
<1>9. ab \in Seq(Bit) /\ Len(ab) = p2 /\ At(ab, 0, a) /\ At(ab, Len(a), b)
  BY ONLY <1>0, <1>1, <1>6, <1>7, <1>p2, Joined
<1>10. abc \in Seq(Bit) /\ Len(abc) = p3
  BY ONLY <1>0, <1>2, <1>6, <1>9, <1>p3, Joined
<1>11. At(abc, 0, a) /\ At(abc, Len(a), b) /\ At(abc, p2, c)
  BY ONLY <1>0, <1>2, <1>6, <1>8, <1>9, Joined
<1>12. abcd \in Seq(Bit) /\ Len(abcd) = p4
  BY ONLY <1>0, <1>3, <1>6, <1>10, <1>p4, Joined
<1>13. At(abcd, 0, a) /\ At(abcd, Len(a), b) /\ At(abcd, p2, c) /\ At(abcd, p3, d)
  BY ONLY <1>0, <1>3, <1>6, <1>8, <1>10, <1>11, Joined
<1>14. abcde \in Seq(Bit) /\ Len(abcde) = p5
  BY ONLY <1>0, <1>4, <1>6, <1>12, <1>p5, Joined
<1>15. At(abcde, 0, a) /\ At(abcde, Len(a), b) /\ At(abcde, p2, c) /\ At(abcde, p3, d) /\ At(abcde, p4, e)
  BY ONLY <1>0, <1>4, <1>6, <1>8, <1>12, <1>13, Joined
<1>16. w \in Seq(Bit) /\ Len(w) = p5 + Len(f)
  BY ONLY <1>0, <1>5, <1>14, Joined
<1>17. /\ At(w, 0, a) /\ At(w, Len(a), b) /\ At(w, p2, c) /\ At(w, p3, d) /\ At(w, p4, e) /\ At(w, p5, f)
  BY ONLY <1>0, <1>5, <1>6, <1>8, <1>14, <1>15, Joined
<1> QED BY <1>6, <1>8, <1>p2, <1>p3, <1>p4, <1>p5, <1>16, <1>17

\* Bytes as numbers, and the pieces of one bit.
LEMMA Octets ==
  /\ \A x \in Byte : x \in 0..255 /\ x \in Nat
  /\ 0 \in Bit /\ 1 \in Bit /\ <<0>> \in Seq(Bit) /\ <<1>> \in Seq(Bit)
  /\ Len(<<0>>) = 1 /\ Len(<<1>>) = 1 /\ <<0>>[1] = 0 /\ <<1>>[1] = 1
BY DEF Byte, Bit

\* A byte of a text is a number.
LEMMA ByteOf ==
  ASSUME NEW text \in Seq(Byte), NEW j \in 1..Len(text)
  PROVE  text[j] \in Byte /\ text[j] \in 0..255 /\ text[j] \in Nat
<1>1. text[j] \in Byte
  OBVIOUS
<1> QED BY ONLY <1>1, Octets

\* The bits of a text are eight of each byte.
LEMMA TextBitsAre ==
  ASSUME NEW text \in Seq(Byte)
  PROVE  /\ TextBits(text) \in Seq(Bit) /\ Len(TextBits(text)) = 8 * Len(text)
         /\ \A j \in 1..Len(text) : \A i \in 1..8 :
              8 * (j - 1) + i \in 1..8 * Len(text) /\ TextBits(text)[8 * (j - 1) + i] = Bits(text[j], 8)[i]
<1>1. ASSUME NEW k \in 1..8 * Len(text)
      PROVE  Bits(text[((k - 1) \div 8) + 1], 8)[((k - 1) % 8) + 1] \in Bit
  <2> DEFINE j == ((k - 1) \div 8) + 1
             i == ((k - 1) % 8) + 1
  <2>1. j \in 1..Len(text) /\ i \in 1..8
    OBVIOUS
  <2> HIDE DEF i, j
  <2>2. text[j] \in Nat
    BY ONLY <2>1, text \in Seq(Byte), ByteOf
  <2>3. Bits(text[j], 8) \in Seq(Bit) /\ Len(Bits(text[j], 8)) = 8
    <3>1. text[j] \in Nat /\ 8 \in 1..8
      BY <2>2
    <3> QED BY ONLY <3>1, BitsAre
  <2>4. Bits(text[j], 8)[i] \in Bit
    BY <2>1, <2>3
  <2> QED BY <2>4 DEF i, j
<1>2. TextBits(text) \in [1..8 * Len(text) -> Bit]
  BY <1>1 DEF TextBits
<1>3. ASSUME NEW j \in 1..Len(text), NEW i \in 1..8
      PROVE  8 * (j - 1) + i \in 1..8 * Len(text) /\ TextBits(text)[8 * (j - 1) + i] = Bits(text[j], 8)[i]
  <2> DEFINE k == 8 * (j - 1) + i
  <2>1. k \in 1..8 * Len(text) /\ (k - 1) \div 8 = j - 1 /\ (k - 1) % 8 = i - 1
    OBVIOUS
  <2> HIDE DEF k
  <2>2. TextBits(text)[k] = Bits(text[((k - 1) \div 8) + 1], 8)[((k - 1) % 8) + 1]
    BY <2>1 DEF TextBits
  <2>3. ((k - 1) \div 8) + 1 = j /\ ((k - 1) % 8) + 1 = i
    BY <2>1
  <2>4. TextBits(text)[k] = Bits(text[j], 8)[i]
    BY <2>2, <2>3
  <2> QED BY <2>1, <2>4 DEF k
<1>4. TextBits(text) \in Seq(Bit) /\ Len(TextBits(text)) = 8 * Len(text)
  <2>1. 8 * Len(text) \in Nat
    OBVIOUS
  <2> QED BY <1>2, <2>1
<1> QED BY <1>3, <1>4

-----------------------------------------------------------------------------
\* What a frame's author meant, and its frame behind p bits of padding.
Author(s) ==
  /\ s.metadata \in Seq(Byte) /\ Len(s.metadata) < 256 /\ s.payload \in Seq(Byte)
  /\ s.version \in 0..255 /\ s.type \in 0..31 /\ s.compressed \in 0..1
TypeAt(p, s) == IF s.version = 0 THEN p + 2 ELSE p + 10
Framed(W, p, s) ==
  /\ W \in Seq(Bit) /\ p \in Nat /\ \A i \in 1..p : W[i] = 0
  /\ At(W, p, <<1>>) /\ At(W, p + 1, VersionBits(s.version))
  /\ At(W, TypeAt(p, s), Bits(s.type, 5)) /\ At(W, TypeAt(p, s) + 5, <<s.compressed>>)
  /\ At(W, TypeAt(p, s) + 6, Bits(Len(s.metadata), 8))
  /\ At(W, TypeAt(p, s) + 14, TextBits(s.metadata))
  /\ At(W, TypeAt(p, s) + 14 + 8 * Len(s.metadata), TextBits(s.payload))
  /\ Len(W) - (TypeAt(p, s) + 14 + 8 * Len(s.metadata) + 8 * Len(s.payload)) \in 0..7

\* What has arrived of a frame: all up to some bit.
Begun(w, W) == w \in Seq(Bit) /\ Len(w) <= Len(W) /\ \A i \in 1..Len(w) : w[i] = W[i]

\* The answer of a reader that has read up to bit at, or to the end.
Reading(w, n, at) == IF at <= Len(w) THEN [value |-> n, pos |-> at] ELSE [value |-> -1, pos |-> Len(w)]

\* What an author can tell is a number a reader can answer,
LEMMA AuthorNumbers ==
  ASSUME NEW s, Author(s)
  PROVE  /\ s.version \in 0..255 /\ s.version \in Nat /\ s.version # -1
         /\ s.type \in 0..31 /\ s.type # -1 /\ s.compressed \in {0, 1} /\ s.compressed \in 0..1
         /\ Len(s.metadata) \in 0..255 /\ Len(s.metadata) \in Nat /\ Len(s.metadata) # -1
         /\ Len(s.payload) \in Nat
<1>1. s.version \in 0..255 /\ s.type \in 0..31 /\ s.compressed \in 0..1
  BY DEF Author
<1>2. /\ Len(s.metadata) \in 0..255 /\ Len(s.metadata) \in Nat /\ Len(s.metadata) # -1
      /\ Len(s.payload) \in Nat
  <2>1. s.metadata \in Seq(Byte) /\ s.payload \in Seq(Byte) /\ Len(s.metadata) < 256
    BY DEF Author
  <2>2. Len(s.metadata) \in Nat /\ Len(s.payload) \in Nat
    BY ONLY <2>1
  <2> DEFINE len == Len(s.metadata)
  <2>3. len \in Nat /\ len < 256
    BY <2>1, <2>2
  <2> HIDE DEF len
  <2>4. len \in 0..255 /\ len # -1
    BY ONLY <2>3
  <2> QED BY <2>2, <2>4 DEF len
<1>3. s.version \in Nat /\ s.version # -1 /\ s.type # -1 /\ s.compressed \in {0, 1}
  BY ONLY <1>1
<1> QED BY <1>1, <1>2, <1>3

\* and a text it can copy.
LEMMA AuthorTexts ==
  ASSUME NEW s, Author(s)
  PROVE  /\ s.metadata \in Seq(Byte) /\ s.payload \in Seq(Byte)
         /\ s.metadata = [i \in 1..Len(s.metadata) |-> s.metadata[i]]
         /\ s.payload = [i \in 1..Len(s.payload) |-> s.payload[i]]
<1>1. s.metadata \in Seq(Byte) /\ s.payload \in Seq(Byte)
  BY DEF Author
<1> QED BY ONLY <1>1

\* A field is read if it has arrived, and nothing of it if not.
LEMMA ReadsField ==
  ASSUME NEW W \in Seq(Bit), NEW w, Begun(w, W), NEW at \in Nat, NEW width \in 1..8, NEW x,
         NEW n \in 0..2 * Weight[9 - width] - 1, At(W, at, Bits(n, width))
  PROVE  ReadUint(w, Reading(w, x, at).pos, width) = Reading(w, n, at + width)
<1>1. Len(w) \in Nat /\ Len(W) \in Nat /\ 9 - width \in 1..8
  BY DEF Begun
<1>2. n \in Nat
  <2>1. Weight[9 - width] \in Nat
    BY ONLY <1>1, Weights
  <2> QED BY <2>1
<1>3. CASE at + width <= Len(w)
  <2>1. \A i \in 1..width : w[at + i] = Bits(n, width)[i]
    <3> SUFFICES ASSUME NEW i \in 1..width PROVE w[at + i] = Bits(n, width)[i]
      OBVIOUS
    <3>1. at + i \in 1..Len(w)
      BY <1>1, <1>3
    <3>2. Len(Bits(n, width)) = width
      BY ONLY <1>2, width \in 1..8, BitsAre
    <3>3. W[at + i] = Bits(n, width)[i]
      BY ONLY <3>2, i \in 1..width, At(W, at, Bits(n, width)) DEF At
    <3> QED BY <3>1, <3>3 DEF Begun
  <2>2. ReadUint(w, at, width) = [value |-> n, pos |-> at + width]
    BY ONLY <1>1, <1>3, <2>1, at \in Nat, width \in 1..8, n \in 0..2 * Weight[9 - width] - 1, ReadsNumber
  <2>3. Reading(w, x, at).pos = at
    BY <1>1, <1>3 DEF Reading
  <2> QED BY <1>3, <2>2, <2>3 DEF Reading
<1>4. CASE ~(at + width <= Len(w))
  <2>1. Reading(w, x, at).pos + width > Len(w)
    BY <1>1, <1>4 DEF Reading
  <2> QED BY <1>4, <2>1, ReadsNothing DEF Reading
<1> QED BY <1>3, <1>4

\* The first set bit is the one behind the padding.
LEMMA StartIs ==
  ASSUME NEW W, NEW p, NEW s, Framed(W, p, s), NEW w, Begun(w, W)
  PROVE  Start(w) = IF p + 1 <= Len(w) THEN p + 1 ELSE 0
<1> DEFINE I == {i \in 1..Len(w) : w[i] = 1}
           at == IF I # {} THEN Min(I) ELSE 0
<1>1. Start(w) = at
  BY DEF Start, SelectInSeq
<1>2. Len(w) \in Nat /\ p \in Nat /\ (\A i \in 1..p : W[i] = 0) /\ \A i \in 1..Len(w) : w[i] = W[i]
  BY DEF Begun, Framed
<1>3. W[p + 1] = 1
  <2>1. At(W, p, <<1>>)
    BY DEF Framed
  <2> QED BY <2>1 DEF At
<1>4. CASE p + 1 <= Len(w)
  <2>1. p + 1 \in I /\ \A i \in I : p + 1 <= i
    BY <1>2, <1>3, <1>4
  <2>2. Min(I) = p + 1
    BY <1>2, <2>1 DEF Min
  <2> QED BY <1>1, <1>4, <2>1, <2>2
<1>5. CASE ~(p + 1 <= Len(w))
  <2>1. I = {}
    BY <1>2, <1>5
  <2> QED BY <1>1, <1>5, <2>1
<1> QED BY <1>4, <1>5

\* A byte of a text is read if it has arrived.
LEMMA ReadsText ==
  ASSUME NEW W \in Seq(Bit), NEW w, Begun(w, W), NEW at \in Nat, NEW text \in Seq(Byte),
         At(W, at, TextBits(text)), NEW i \in 1..Len(text)
  PROVE  ReadUint(w, at + 8 * (i - 1), 8).value = IF at + 8 * i <= Len(w) THEN text[i] ELSE -1
<1>1. text[i] \in 0..255 /\ text[i] \in Nat
  BY ONLY text \in Seq(Byte), i \in 1..Len(text), ByteOf
<1>2. Len(w) \in Nat /\ at + 8 * (i - 1) \in Nat /\ Len(text) \in Nat
  BY DEF Begun
<1>3. /\ Len(TextBits(text)) = 8 * Len(text)
      /\ \A k \in 1..8 : 8 * (i - 1) + k \in 1..8 * Len(text) /\ TextBits(text)[8 * (i - 1) + k] = Bits(text[i], 8)[k]
  BY TextBitsAre
<1>4. CASE at + 8 * i <= Len(w)
  <2>1. ASSUME NEW k \in 1..8 PROVE w[(at + 8 * (i - 1)) + k] = Bits(text[i], 8)[k]
    <3>1. 8 * (i - 1) + k \in 1..Len(TextBits(text))
      BY <1>3
    <3>2. W[at + (8 * (i - 1) + k)] = TextBits(text)[8 * (i - 1) + k]
      BY <3>1 DEF At
    <3>3. at + (8 * (i - 1) + k) \in 1..Len(w) /\ at + (8 * (i - 1) + k) = (at + 8 * (i - 1)) + k
      BY <1>2, <1>4
    <3> QED BY <1>3, <3>2, <3>3 DEF Begun
  <2>2. text[i] \in 0..2 * Weight[9 - 8] - 1
    BY ONLY <1>1, Ranges
  <2>3. (at + 8 * (i - 1)) + 8 <= Len(w)
    BY <1>2, <1>4
  <2>4. ReadUint(w, at + 8 * (i - 1), 8) = [value |-> text[i], pos |-> (at + 8 * (i - 1)) + 8]
    <3>1. 8 \in 1..8
      OBVIOUS
    <3> QED BY ONLY <1>2, <2>1, <2>2, <2>3, <3>1, ReadsNumber
  <2> QED BY <1>4, <2>4
<1>5. CASE ~(at + 8 * i <= Len(w))
  <2>1. (at + 8 * (i - 1)) + 8 > Len(w)
    BY <1>2, <1>5
  <2> QED BY <1>5, <2>1, ReadsNothing
<1> QED BY <1>4, <1>5

\* Where the fields of a frame begin, and the numbers they hold.
LEMMA FieldsOf ==
  ASSUME NEW W, NEW p, NEW s, Framed(W, p, s), Author(s)
  PROVE  /\ TypeAt(p, s) \in Nat /\ p \in Nat /\ W \in Seq(Bit)
         /\ s.version = 0 => At(W, p + 1, Bits(0, 1)) /\ TypeAt(p, s) = p + 2
         /\ s.version # 0 => /\ At(W, p + 1, Bits(1, 1)) /\ At(W, p + 2, Bits(s.version, 8))
                             /\ TypeAt(p, s) = p + 10
         /\ At(W, TypeAt(p, s) + 5, Bits(s.compressed, 1))
<1>1. TypeAt(p, s) \in Nat /\ p \in Nat /\ W \in Seq(Bit)
  <2>1. p \in Nat /\ W \in Seq(Bit)
    BY DEF Framed
  <2> QED BY ONLY <2>1 DEF TypeAt
<1>2. Len(W) \in Nat /\ At(W, p + 1, VersionBits(s.version)) /\ At(W, TypeAt(p, s) + 5, <<s.compressed>>)
  BY DEF Framed
<1>3. \A b \in 0..1 : Bits(b, 1) = <<b>>
  <2> SUFFICES ASSUME NEW b \in 0..1 PROVE Bits(b, 1) = <<b>>
    OBVIOUS
  <2>1. b \in Nat /\ 1 \in 1..8 /\ 1 \in 1..1 /\ 8 - 1 + 1 = 8
    OBVIOUS
  <2>2. /\ Bits(b, 1) \in Seq(Bit) /\ Len(Bits(b, 1)) = 1
        /\ \A i \in 1..1 : Bits(b, 1)[i] = (b \div Weight[8 - 1 + i]) % 2
    BY ONLY <2>1, BitsAre
  <2>3. (b \div 1) % 2 = b
    OBVIOUS
  <2>4. Bits(b, 1)[1] = b
    BY ONLY <2>1, <2>2, <2>3, Weights
  <2> QED BY ONLY <2>2, <2>4
<1>4. At(W, TypeAt(p, s) + 5, Bits(s.compressed, 1))
  BY <1>2, <1>3, AuthorNumbers
<1>5. s.version = 0 => At(W, p + 1, Bits(0, 1))
  BY <1>2, <1>3 DEF VersionBits
<1>6. ASSUME s.version # 0
      PROVE  At(W, p + 1, Bits(1, 1)) /\ At(W, p + 2, Bits(s.version, 8))
  <2> DEFINE v == Bits(s.version, 8)
  <2>1. v \in Seq(Bit) /\ Len(v) = 8
    <3>1. s.version \in Nat /\ 8 \in 1..8
      BY AuthorNumbers
    <3> QED BY ONLY <3>1, BitsAre
  <2> HIDE DEF v
  <2>2. At(W, p + 1, <<1>> \o v)
    BY <1>2, <1>6 DEF VersionBits, v
  <2>3. /\ Len(<<1>> \o v) = 9 /\ (<<1>> \o v)[1] = 1
        /\ \A i \in 1..8 : i + 1 \in 1..9 /\ (<<1>> \o v)[i + 1] = v[i]
    <3>1. PICK one \in Seq(Bit) : one = <<1>> /\ Len(one) = 1 /\ one[1] = 1
      BY Octets
    <3>2. /\ Len(one \o v) = 1 + 8 /\ \A i \in 1..1 : (one \o v)[i] = one[i]
          /\ At(one \o v, 1, v)
      <4>1. one \in Seq(Bit) /\ v \in Seq(Bit) /\ Len(one) = 1 /\ Len(v) = 8
        BY <2>1, <3>1
      <4>2. /\ Len(one \o v) = Len(one) + Len(v) /\ \A i \in 1..Len(one) : (one \o v)[i] = one[i]
            /\ At(one \o v, Len(one), v)
        BY ONLY <4>1, Joined
      <4> QED BY ONLY <4>1, <4>2
    <3>3. \A i \in 1..8 : (one \o v)[1 + i] = v[i]
      BY ONLY <2>1, <3>2 DEF At
    <3>4. \A i \in 1..8 : i + 1 \in 1..9 /\ i + 1 = 1 + i
      OBVIOUS
    <3> QED BY <3>1, <3>2, <3>3, <3>4
  <2> DEFINE flag == <<1>> \o v
  <2> HIDE DEF flag
  <2>3a. Len(flag) = 9 /\ flag[1] = 1 /\ At(W, p + 1, flag)
    BY <2>2, <2>3 DEF flag
  <2>4a. /\ p + 10 <= Len(W) /\ \A i \in 1..9 : W[(p + 1) + i] = flag[i]
    BY <1>1, <2>3a DEF At
  <2>4. /\ p + 10 <= Len(W) /\ W[p + 2] = 1 /\ \A i \in 1..9 : W[(p + 1) + i] = flag[i]
    <3>1. (p + 1) + 1 = p + 2
      BY <1>1
    <3> QED BY <2>3a, <2>4a, <3>1
  <2>5. \A i \in 1..8 : W[(p + 2) + i] = v[i]
    <3> SUFFICES ASSUME NEW i \in 1..8 PROVE W[(p + 2) + i] = v[i]
      OBVIOUS
    <3>1. (p + 2) + i = (p + 1) + (i + 1) /\ i + 1 \in 1..9
      BY <1>1
    <3> QED BY <2>3, <2>4, <3>1 DEF flag
  <2>6. At(W, p + 2, v)
    BY <1>1, <2>1, <2>4, <2>5 DEF At
  <2>7. At(W, p + 1, <<1>>)
    <3>1. PICK one : one = <<1>> /\ Len(one) = 1 /\ one[1] = 1
      BY Octets
    <3>2. p \in Nat /\ Len(W) \in Nat /\ W[p + 2] = 1 /\ p + 10 <= Len(W) /\ (p + 1) + 1 = p + 2
      BY <1>1, <1>2, <2>4
    <3>3. At(W, p + 1, one)
      BY ONLY <3>1, <3>2 DEF At
    <3> QED BY <3>1, <3>3
  <2> QED BY <1>3, <2>6, <2>7 DEF v
<1> QED BY <1>1, <1>4, <1>5, <1>6 DEF TypeAt

\* How far decode gets with what has arrived of a frame.
LEMMA Decodes ==
  ASSUME NEW W, NEW p, NEW s, Framed(W, p, s), Author(s), NEW w, Begun(w, W),
         NEW mc \in Nat, NEW pc \in Nat
  PROVE  LET q == TypeAt(p, s)
             end == q + 14 + 8 * Len(s.metadata)
             remaining == (Len(w) - end) \div 8
             d == Decode(w, mc, pc)
         IN /\ d.rc = "OK" => end <= Len(w)
            /\ end <= Len(w) =>
                 /\ s.version > 1 \/ s.compressed = 1 => d.rc = "UNSUPPORTED"
                 /\ s.version <= 1 /\ s.compressed = 0 =>
                      IF Len(s.metadata) < mc /\ remaining < pc
                      THEN d = [rc |-> "OK", type |-> s.type, name |-> TypeName(s.type),
                                metadata |-> s.metadata, payload |-> ReadText(w, end, remaining)]
                      ELSE d = Rc("NOMEM")
<1> DEFINE start == Start(w)
           versioned == ReadUint(w, start, 1)
           version == IF versioned.value = 1 THEN ReadUint(w, versioned.pos, 8)
                      ELSE [value |-> versioned.value, pos |-> versioned.pos]
           type == ReadUint(w, version.pos, 5)
           compressed == ReadUint(w, type.pos, 1)
           length == ReadUint(w, compressed.pos, 8)
           metadata == ReadText(w, length.pos, length.value)
           after == length.pos + 8 * length.value
           remaining == (Len(w) - after) \div 8
           q == TypeAt(p, s)
           end == q + 14 + 8 * Len(s.metadata)
<1>1. Decode(w, mc, pc) =
        IF start = 0 \/ version.value = -1 THEN Rc("INVALID")
        ELSE IF version.value > 1 THEN Rc("UNSUPPORTED")
        ELSE IF -1 \in {type.value, compressed.value, length.value} THEN Rc("INVALID")
        ELSE IF compressed.value = 1 THEN Rc("UNSUPPORTED")
        ELSE IF ~Terminated(length.value, mc) THEN Rc("NOMEM")
        ELSE IF \E i \in DOMAIN metadata : metadata[i] = -1 THEN Rc("INVALID")
        ELSE IF ~Terminated(remaining, pc) THEN Rc("NOMEM")
        ELSE [rc |-> "OK", type |-> type.value, name |-> TypeName(type.value),
              metadata |-> metadata, payload |-> ReadText(w, after, remaining)]
  BY DEF Decode
<1>2. /\ q \in Nat /\ p \in Nat /\ q > p + 1 /\ Len(w) \in Nat /\ W \in Seq(Bit)
      /\ Len(s.metadata) \in 0..255 /\ end \in Nat /\ q + 14 <= end
  <2>1. q \in Nat /\ p \in Nat /\ W \in Seq(Bit)
    BY FieldsOf
  <2>2. Len(w) \in Nat
    BY DEF Begun
  <2>3. Len(s.metadata) \in 0..255
    BY AuthorNumbers
  <2>4. q > p + 1
    BY <2>1 DEF TypeAt
  <2> HIDE DEF q
  <2>5. end \in Nat /\ q + 14 <= end
    <3> DEFINE len == Len(s.metadata)
    <3>1. len \in Nat /\ q \in Nat
      BY <2>1, <2>3
    <3> HIDE DEF q, len
    <3>2. q + 14 + 8 * len \in Nat /\ q + 14 <= q + 14 + 8 * len
      BY ONLY <3>1
    <3> QED BY <3>2 DEF len
  <2> QED BY <2>1, <2>2, <2>3, <2>4, <2>5
<1>2a. W \in Seq(Bit)
  BY <1>2
<1>3. start = IF p + 1 <= Len(w) THEN p + 1 ELSE 0
  BY StartIs
<1>4. CASE ~(p + 1 <= Len(w))
  <2>1. Decode(w, mc, pc) = Rc("INVALID")
    BY <1>1, <1>3, <1>4
  <2> QED BY <1>2, <1>4, <2>1 DEF Rc
<1>5. CASE p + 1 <= Len(w)
  <2>1. start = p + 1 /\ start = Reading(w, 1, p + 1).pos /\ start # 0
    BY <1>2, <1>3, <1>5 DEF Reading
  <2>2. version = Reading(w, s.version, q)
    <3> HIDE DEF start
    <3>1. CASE s.version = 0
      <4>1. versioned = Reading(w, 0, p + 2)
        <5>1. At(W, p + 1, Bits(0, 1)) /\ p + 1 \in Nat /\ 1 \in 1..8 /\ 0 \in 0..2 * Weight[9 - 1] - 1
          <6>1. At(W, p + 1, Bits(0, 1)) /\ p + 1 \in Nat
            BY <1>2, <3>1, FieldsOf
          <6> QED BY ONLY <6>1, Ranges
        <5>2. ReadUint(w, Reading(w, 1, p + 1).pos, 1) = Reading(w, 0, p + 1 + 1)
          BY ONLY <1>2a, <5>1, Begun(w, W), ReadsField
        <5> QED BY <1>2, <2>1, <5>2
      <4>2. q = p + 2
        BY <3>1 DEF TypeAt
      <4> HIDE DEF versioned
      <4> QED BY <3>1, <4>1, <4>2 DEF Reading
    <3>2. CASE s.version # 0
      <4>1. versioned = Reading(w, 1, p + 2)
        <5>1. At(W, p + 1, Bits(1, 1)) /\ p + 1 \in Nat /\ 1 \in 1..8 /\ 1 \in 0..2 * Weight[9 - 1] - 1
          <6>1. At(W, p + 1, Bits(1, 1)) /\ p + 1 \in Nat
            BY <1>2, <3>2, FieldsOf
          <6> QED BY ONLY <6>1, Ranges
        <5>2. ReadUint(w, Reading(w, 1, p + 1).pos, 1) = Reading(w, 1, p + 1 + 1)
          BY ONLY <1>2a, <5>1, Begun(w, W), ReadsField
        <5> QED BY <1>2, <2>1, <5>2
      <4>2. ReadUint(w, versioned.pos, 8) = Reading(w, s.version, q)
        <5>1. At(W, p + 2, Bits(s.version, 8)) /\ p + 2 \in Nat /\ 8 \in 1..8 /\ p + 2 + 8 = q
          BY <1>2, <3>2, FieldsOf
        <5>2. s.version \in 0..2 * Weight[9 - 8] - 1
          BY AuthorNumbers, Ranges
        <5>3. ReadUint(w, Reading(w, 1, p + 2).pos, 8) = Reading(w, s.version, p + 2 + 8)
          BY ONLY <1>2a, <5>1, <5>2, Begun(w, W), ReadsField
        <5> QED BY <4>1, <5>1, <5>3
      <4>3. q = p + 10
        BY <3>2 DEF TypeAt
      <4> HIDE DEF versioned
      <4>4. CASE p + 2 <= Len(w)
        BY <4>1, <4>2, <4>4 DEF Reading
      <4>5. CASE ~(p + 2 <= Len(w))
        BY <1>2, <4>1, <4>3, <4>5 DEF Reading
      <4> QED BY <4>4, <4>5
    <3> QED BY <3>1, <3>2
  <2> HIDE DEF version
  <2>3. type = Reading(w, s.type, q + 5)
    <3>1. At(W, q, Bits(s.type, 5)) /\ q \in Nat /\ 5 \in 1..8
      BY <1>2 DEF Framed
    <3>2. s.type \in 0..2 * Weight[9 - 5] - 1
      BY AuthorNumbers, Ranges
    <3>3. ReadUint(w, Reading(w, s.version, q).pos, 5) = Reading(w, s.type, q + 5)
      BY ONLY <1>2a, <3>1, <3>2, Begun(w, W), ReadsField
    <3> QED BY <2>2, <3>3
  <2> HIDE DEF type
  <2>4. compressed = Reading(w, s.compressed, q + 6)
    <3>1. At(W, q + 5, Bits(s.compressed, 1)) /\ q + 5 \in Nat /\ 1 \in 1..8 /\ q + 5 + 1 = q + 6
      BY <1>2, FieldsOf
    <3>2. s.compressed \in 0..2 * Weight[9 - 1] - 1
      BY AuthorNumbers, Ranges
    <3>3. ReadUint(w, Reading(w, s.type, q + 5).pos, 1) = Reading(w, s.compressed, q + 5 + 1)
      BY ONLY <1>2a, <3>1, <3>2, Begun(w, W), ReadsField
    <3> QED BY <2>3, <3>1, <3>3
  <2> HIDE DEF compressed
  <2>5. length = Reading(w, Len(s.metadata), q + 14)
    <3>1. At(W, q + 6, Bits(Len(s.metadata), 8)) /\ q + 6 \in Nat /\ 8 \in 1..8 /\ q + 6 + 8 = q + 14
      <4>1. At(W, q + 6, Bits(Len(s.metadata), 8))
        BY DEF Framed
      <4> HIDE DEF q
      <4> QED BY <1>2, <4>1
    <3>2. Len(s.metadata) \in 0..2 * Weight[9 - 8] - 1
      BY AuthorNumbers, Ranges
    <3>3. ReadUint(w, Reading(w, s.compressed, q + 6).pos, 8) = Reading(w, Len(s.metadata), q + 6 + 8)
      BY ONLY <1>2a, <3>1, <3>2, Begun(w, W), ReadsField
    <3> QED BY <2>4, <3>1, <3>3
  <2> HIDE DEF length
  <2>6. CASE ~(q + 14 <= Len(w))
    <3>1. length.value = -1
      BY <2>5, <2>6 DEF Reading
    <3>2. Decode(w, mc, pc).rc # "OK"
      BY <1>1, <3>1 DEF Rc
    <3> QED BY <1>2, <2>6, <3>2
  <2>7. CASE q + 14 <= Len(w)
    <3>1. /\ version.value = s.version /\ type.value = s.type /\ compressed.value = s.compressed
          /\ length = [value |-> Len(s.metadata), pos |-> q + 14]
      BY <1>2, <2>2, <2>3, <2>4, <2>5, <2>7 DEF Reading
    <3>2. after = end
      BY <1>2, <3>1
    <3>3. /\ metadata = ReadText(w, q + 14, Len(s.metadata))
          /\ s.version \in Nat /\ s.version # -1 /\ s.type # -1 /\ s.compressed \in {0, 1} /\ Len(s.metadata) # -1
      <4>1. metadata = ReadText(w, q + 14, Len(s.metadata))
        BY <3>1
      <4>2. /\ s.version \in Nat /\ s.version # -1 /\ s.type # -1 /\ s.compressed \in {0, 1} /\ Len(s.metadata) # -1
        BY AuthorNumbers
      <4> QED BY <4>1, <4>2
    <3>4. DOMAIN metadata = 1..Len(s.metadata)
      BY <3>3 DEF ReadText
    <3>5. ASSUME NEW i \in 1..Len(s.metadata)
          PROVE  metadata[i] = IF q + 14 + 8 * i <= Len(w) THEN s.metadata[i] ELSE -1
      <4>1. At(W, q + 14, TextBits(s.metadata)) /\ q + 14 \in Nat /\ s.metadata \in Seq(Byte)
        <5>1. At(W, q + 14, TextBits(s.metadata))
          BY DEF Framed
        <5> HIDE DEF q
        <5>2. q + 14 \in Nat
          BY <1>2
        <5>3. s.metadata \in Seq(Byte)
          BY AuthorTexts
        <5> QED BY ONLY <5>1, <5>2, <5>3
      <4>2. ReadUint(w, q + 14 + 8 * (i - 1), 8).value = IF q + 14 + 8 * i <= Len(w) THEN s.metadata[i] ELSE -1
        BY ONLY <1>2, <4>1, i \in 1..Len(s.metadata), Begun(w, W), ReadsText
      <4>3. metadata[i] = ReadUint(w, q + 14 + 8 * (i - 1), 8).value
        BY <3>3 DEF ReadText
      <4> QED BY <4>2, <4>3
    <3> HIDE DEF metadata, after, start
    <3>6. CASE end <= Len(w)
      <4>1. \A i \in 1..Len(s.metadata) : metadata[i] = s.metadata[i] /\ metadata[i] # -1
        <5> SUFFICES ASSUME NEW i \in 1..Len(s.metadata) PROVE metadata[i] = s.metadata[i] /\ metadata[i] # -1
          OBVIOUS
        <5>1. q + 14 + 8 * i <= Len(w)
          BY <1>2, <3>6
        <5>2. s.metadata \in Seq(Byte)
          BY AuthorTexts
        <5>3. s.metadata[i] \in Nat
          BY ONLY <5>2, i \in 1..Len(s.metadata), ByteOf
        <5> QED BY <3>5, <5>1, <5>3
      <4>2. metadata = s.metadata
        <5>1. s.metadata = [i \in 1..Len(s.metadata) |-> s.metadata[i]]
          BY AuthorTexts
        <5>2. metadata = [i \in 1..Len(s.metadata) |-> metadata[i]]
          BY <3>3 DEF ReadText
        <5> QED BY <4>1, <5>1, <5>2
      <4>3. ~\E i \in DOMAIN metadata : metadata[i] = -1
        BY <3>4, <4>1
      <4>4. remaining = (Len(w) - end) \div 8 /\ remaining \in Nat
        BY <1>2, <3>2, <3>6
      <4> HIDE DEF remaining
      <4>5. Terminated(Len(s.metadata), mc) <=> Len(s.metadata) < mc
        BY <1>2 DEF Terminated
      <4>6. Terminated(remaining, pc) <=> remaining < pc
        BY <4>4 DEF Terminated
      <4>7. s.version > 1 \/ s.compressed = 1 => Decode(w, mc, pc).rc = "UNSUPPORTED"
        BY <1>1, <2>1, <3>1, <3>3 DEF Rc
      <4>8. ASSUME s.version <= 1, s.compressed = 0
            PROVE  Decode(w, mc, pc) =
                     IF Len(s.metadata) < mc /\ remaining < pc
                     THEN [rc |-> "OK", type |-> s.type, name |-> TypeName(s.type),
                           metadata |-> s.metadata, payload |-> ReadText(w, end, remaining)]
                     ELSE Rc("NOMEM")
        <5>1. Decode(w, mc, pc) =
                IF ~Terminated(Len(s.metadata), mc) THEN Rc("NOMEM")
                ELSE IF ~Terminated(remaining, pc) THEN Rc("NOMEM")
                ELSE [rc |-> "OK", type |-> s.type, name |-> TypeName(s.type),
                      metadata |-> metadata, payload |-> ReadText(w, after, remaining)]
          BY <1>1, <2>1, <3>1, <3>3, <4>3, <4>8
        <5> QED BY <3>2, <4>2, <4>5, <4>6, <5>1
      <4> QED BY <3>6, <4>4, <4>7, <4>8
    <3>7. CASE ~(end <= Len(w))
      <4>1. Len(s.metadata) \in 1..Len(s.metadata) /\ Len(s.metadata) # 0
        BY <1>2, <2>7, <3>7
      <4>2. metadata[Len(s.metadata)] = -1
        BY <1>2, <3>5, <3>7, <4>1
      <4>3. \E i \in DOMAIN metadata : metadata[i] = -1
        BY <3>4, <4>1, <4>2
      <4>4. Decode(w, mc, pc).rc # "OK"
        BY <1>1, <4>3 DEF Rc
      <4> QED BY <3>7, <4>4
    <3> QED BY <3>6, <3>7
  <2> QED BY <2>6, <2>7
<1> QED BY <1>4, <1>5

-----------------------------------------------------------------------------
\* Names and numbers of types.
LEMMA NamesOfTypes ==
  ASSUME NEW name \in {"shake", "handshake", "hello", "bin", "unknown"}
  PROVE  /\ TypeId(name) \in 0..12
         /\ name \in {"handshake", "unknown"} \/ TypeName(TypeId(name)) = name
<1> DEFINE Named(n) == {i \in 1..Len(MsgTypes) : MsgTypes[i][1] = n}
           Numbered(id) == {i \in 1..Len(MsgTypes) : MsgTypes[i][2] = id}
<1>1. ASSUME NEW i \in 1..14, MsgTypes[i][1] = name, Named(name) = {i}
      PROVE  TypeId(name) = MsgTypes[i][2]
  <2>1. Min(Named(name)) = i
    BY <1>1 DEF Min
  <2> HIDE DEF Named
  <2> QED BY <1>1, <2>1 DEF TypeId, SelectInSeq, Named
<1>2. /\ Named("shake") = {1} /\ Named("handshake") = {2} /\ Named("hello") = {8} /\ Named("bin") = {14}
      /\ Named("unknown") = {}
  BY DEF MsgTypes
<1>3. TypeId("unknown") = 11
  BY <1>2 DEF TypeId, SelectInSeq
<1>4. /\ MsgTypes[1] = <<"shake", 0>> /\ MsgTypes[2] = <<"handshake", 0>> /\ MsgTypes[8] = <<"hello", 6>>
      /\ MsgTypes[14] = <<"bin", 12>>
  BY DEF MsgTypes
<1>5. ASSUME NEW i \in 1..14, NEW id, MsgTypes[i][2] = id, i \in Numbered(id), \A j \in Numbered(id) : i <= j
      PROVE  TypeName(id) = MsgTypes[i][1]
  <2>1. Min(Numbered(id)) = i
    BY <1>5 DEF Min
  <2> HIDE DEF Numbered
  <2>2. Numbered(id) # {} /\ i # 0
    BY <1>5
  <2> QED BY <2>1, <2>2 DEF TypeName, SelectInSeq, Numbered
<1>6. Numbered(0) = {1, 2} /\ Numbered(6) = {8} /\ Numbered(12) = {14}
  BY DEF MsgTypes
<1> HIDE DEF Named, Numbered
<1>7. TypeName(0) = "shake" /\ TypeName(6) = "hello" /\ TypeName(12) = "bin"
  BY <1>4, <1>5, <1>6
<1>8. CASE name = "unknown"
  BY <1>3, <1>8
<1>9. CASE name = "shake"
  BY <1>1, <1>2, <1>4, <1>7, <1>9
<1>10. CASE name = "handshake"
  BY <1>1, <1>2, <1>4, <1>10
<1>11. CASE name = "hello"
  BY <1>1, <1>2, <1>4, <1>7, <1>11
<1>12. CASE name = "bin"
  BY <1>1, <1>2, <1>4, <1>7, <1>12
<1> QED BY <1>8, <1>9, <1>10, <1>11, <1>12

\* Remainders of small numbers.
LEMMA SmallNumbers ==
  /\ \A n \in 0..31 : n % 32 = n /\ n \in Nat /\ n \div 32 = 0
  /\ \A k \in Nat : (8 * k) % 8 = 0
  /\ 0 % 2 = 0
OBVIOUS

DecodedWell(w, p, s, mc, pc, d) ==
  LET end == TypeAt(p, s) + 14 + 8 * Len(s.metadata)
      remaining == (Len(w) - end) \div 8
  IN /\ d.rc = "OK" => end <= Len(w)
     /\ end <= Len(w) =>
          /\ s.version > 1 \/ s.compressed = 1 => d.rc = "UNSUPPORTED"
          /\ s.version <= 1 /\ s.compressed = 0 =>
               IF Len(s.metadata) < mc /\ remaining < pc
               THEN d = [rc |-> "OK", type |-> s.type, name |-> TypeName(s.type),
                         metadata |-> s.metadata, payload |-> ReadText(w, end, remaining)]
               ELSE d = Rc("NOMEM")
\* The same, as one predicate of the answer.
LEMMA DecodesWell ==
  ASSUME NEW W, NEW p, NEW s, Framed(W, p, s), Author(s), NEW w, Begun(w, W),
         NEW mc \in Nat, NEW pc \in Nat
  PROVE  DecodedWell(w, p, s, mc, pc, Decode(w, mc, pc))
BY Decodes DEF DecodedWell

\* The node's frame is that of an unversioned, uncompressed message,
NodeBits(W, type, m, t, s) ==
  /\ type \in 0..31 /\ m \in Seq(Byte) /\ Len(m) < 256 /\ t \in Seq(Byte)
  /\ W = <<1>> \o Bits(type % 32, 6) \o <<0>> \o Bits(Len(m), 8) \o TextBits(m) \o TextBits(t)
  /\ s.metadata = m /\ s.payload = t /\ s.version = 0 /\ s.type = type /\ s.compressed = 0
LEMMA NodeFrames ==
  ASSUME NEW W, NEW type, NEW m, NEW t, NEW s, NodeBits(W, type, m, t, s)
  PROVE  Framed(W, 0, s) /\ Len(W) % 8 = 0
<1> SUFFICES ASSUME type \in 0..31, m \in Seq(Byte), Len(m) < 256, t \in Seq(Byte),
                    W = << 1 >> \o Bits(type % 32, 6) \o << 0 >> \o Bits(Len(m), 8) \o TextBits(m) \o TextBits(t),
                    s.metadata = m, s.payload = t, s.version = 0, s.type = type, s.compressed = 0
             PROVE  Framed(W, 0, s) /\ Len(W) % 8 = 0
  BY DEF NodeBits
<1> DEFINE b6 == Bits(type % 32, 6)
           b8 == Bits(Len(m), 8)
<1>1. Len(m) \in Nat /\ Len(t) \in Nat /\ 6 \in 1..8 /\ 8 \in 1..8 /\ 5 \in 1..8
  OBVIOUS
<1>2. type % 32 = type /\ type \in Nat /\ type \div 32 = 0
  BY SmallNumbers
<1>3. /\ b6 \in Seq(Bit) /\ Len(b6) = 6 /\ \A i \in 1..6 : b6[i] = (type \div Weight[8 - 6 + i]) % 2
  <2>1. /\ Bits(type, 6) \in Seq(Bit) /\ Len(Bits(type, 6)) = 6
        /\ \A i \in 1..6 : Bits(type, 6)[i] = (type \div Weight[8 - 6 + i]) % 2
    BY ONLY <1>1, <1>2, BitsAre
  <2> QED BY <1>2, <2>1
<1>4. b8 \in Seq(Bit) /\ Len(b8) = 8
  BY ONLY <1>1, BitsAre
<1>5. /\ TextBits(m) \in Seq(Bit) /\ Len(TextBits(m)) = 8 * Len(m)
      /\ TextBits(t) \in Seq(Bit) /\ Len(TextBits(t)) = 8 * Len(t)
  BY TextBitsAre
<1> DEFINE mb == TextBits(m)
           tb == TextBits(t)
<1> HIDE DEF b6, b8, mb, tb
<1>6. W = <<1>> \o b6 \o <<0>> \o b8 \o mb \o tb
  BY DEF b6, b8, mb, tb
<1>7. /\ W \in Seq(Bit) /\ Len(W) = 1 + 6 + 1 + 8 + Len(mb) + Len(tb)
      /\ At(W, 0, <<1>>) /\ At(W, 1, b6) /\ At(W, 7, <<0>>) /\ At(W, 8, b8)
      /\ At(W, 16, mb) /\ At(W, 16 + Len(mb), tb)
  <2>1. /\ mb \in Seq(Bit) /\ tb \in Seq(Bit) /\ Len(mb) \in Nat
    BY <1>1, <1>5 DEF mb, tb
  <2>2. PICK zero \in Seq(Bit), one \in Seq(Bit) : zero = <<0>> /\ one = <<1>> /\ Len(zero) = 1 /\ Len(one) = 1
    BY Octets
  <2>3. W = one \o b6 \o zero \o b8 \o mb \o tb
    BY <1>6, <2>2
  <2>4. /\ W \in Seq(Bit)
        /\ Len(W) = Len(one) + Len(b6) + Len(zero) + Len(b8) + Len(mb) + Len(tb)
        /\ At(W, 0, one) /\ At(W, Len(one), b6) /\ At(W, Len(one) + Len(b6), zero)
        /\ At(W, Len(one) + Len(b6) + Len(zero), b8)
        /\ At(W, Len(one) + Len(b6) + Len(zero) + Len(b8), mb)
        /\ At(W, Len(one) + Len(b6) + Len(zero) + Len(b8) + Len(mb), tb)
    <3>1. b6 \in Seq(Bit) /\ b8 \in Seq(Bit)
      BY <1>3, <1>4
    <3>2. Chained(W, one, b6, zero, b8, mb, tb)
      BY ONLY <2>1, <2>2, <2>3, <3>1 DEF Chained
    <3> QED BY ONLY <3>2, Chain
  <2>5. 1 + 6 = 7 /\ 1 + 6 + 1 = 8 /\ 1 + 6 + 1 + 8 = 16
    OBVIOUS
  <2> QED BY ONLY <1>3, <1>4, <2>2, <2>4, <2>5
<1>8. At(W, 1, <<0>>) /\ At(W, 2, Bits(type, 5))
  <2>1. /\ Bits(type, 5) \in Seq(Bit) /\ Len(Bits(type, 5)) = 5
        /\ \A i \in 1..5 : Bits(type, 5)[i] = (type \div Weight[8 - 5 + i]) % 2
    BY ONLY <1>1, <1>2, BitsAre
  <2> DEFINE b5 == Bits(type, 5)
  <2> HIDE DEF b5
  <2>2. /\ Len(b5) = 5 /\ 7 <= Len(W) /\ Len(W) \in Nat /\ \A i \in 1..6 : W[1 + i] = b6[i]
    <3>1. Len(b5) = 5
      BY <2>1 DEF b5
    <3>2. W \in Seq(Bit) /\ At(W, 1, b6) /\ Len(b6) = 6
      BY <1>3, <1>7
    <3>3. Len(W) \in Nat
      BY ONLY <3>2
    <3>4. 7 <= Len(W) /\ \A i \in 1..6 : W[1 + i] = b6[i]
      BY ONLY <3>2, <3>3 DEF At
    <3> QED BY ONLY <3>1, <3>3, <3>4
  <2>3. \A i \in 1..5 : W[2 + i] = b5[i]
    <3> SUFFICES ASSUME NEW i \in 1..5 PROVE W[2 + i] = b5[i]
      OBVIOUS
    <3>1. i + 1 \in 1..6 /\ 1 + (i + 1) = 2 + i /\ 8 - 6 + (i + 1) = 8 - 5 + i
      OBVIOUS
    <3>2. b6[i + 1] = (type \div Weight[8 - 6 + (i + 1)]) % 2
      BY ONLY <1>3, <3>1
    <3>3. b6[i + 1] = b5[i]
      BY <2>1, <3>1, <3>2 DEF b5
    <3> QED BY <2>2, <3>1, <3>3
  <2>4. At(W, 2, b5)
    BY ONLY <2>2, <2>3 DEF At
  <2>5. b6[1] = 0
    <3>1. 1 \in 1..6 /\ 8 - 6 + 1 = 3 /\ type \div 32 = 0 /\ 0 % 2 = 0
      BY <1>2, SmallNumbers
    <3>2. Weight[3] = 32
      BY DEF Weight
    <3>3. b6[1] = (type \div Weight[8 - 6 + 1]) % 2
      BY ONLY <1>3, <3>1
    <3> QED BY <3>1, <3>2, <3>3
  <2>6. PICK zero : zero = <<0>> /\ Len(zero) = 1 /\ zero[1] = 0
    BY Octets
  <2>7. W[1 + 1] = 0
    BY ONLY <2>2, <2>5
  <2>8. At(W, 1, zero)
    BY ONLY <2>2, <2>6, <2>7 DEF At
  <2> QED BY <2>4, <2>6, <2>8 DEF b5
<1>9. TypeAt(0, s) = 2 /\ VersionBits(s.version) = <<0>>
  BY DEF TypeAt, VersionBits
<1>10. /\ At(W, 0, <<1>>) /\ At(W, 0 + 1, VersionBits(s.version)) /\ At(W, TypeAt(0, s), Bits(s.type, 5))
       /\ At(W, TypeAt(0, s) + 5, <<s.compressed>>)
  <2>1. /\ At(W, 0, <<1>>) /\ At(W, 1, <<0>>) /\ At(W, 2, Bits(type, 5)) /\ At(W, 7, <<0>>)
    BY <1>7, <1>8
  <2>2. 0 + 1 = 1 /\ 2 + 5 = 7
    OBVIOUS
  <2> QED BY <1>9, <2>1, <2>2
<1>11. At(W, TypeAt(0, s) + 6, Bits(Len(s.metadata), 8))
  BY <1>7, <1>9 DEF b8
<1>12. Len(mb) = 8 * Len(m) /\ Len(tb) = 8 * Len(t) /\ 2 + 14 = 16
  BY <1>5 DEF mb, tb
<1>13. At(W, TypeAt(0, s) + 14, TextBits(s.metadata))
       /\ At(W, TypeAt(0, s) + 14 + 8 * Len(s.metadata), TextBits(s.payload))
  BY <1>7, <1>9, <1>12 DEF mb, tb
<1>14. Len(W) = 16 + 8 * Len(m) + 8 * Len(t)
  BY <1>1, <1>7, <1>12
<1>15. Len(W) - (TypeAt(0, s) + 14 + 8 * Len(s.metadata) + 8 * Len(s.payload)) \in 0..7
  BY <1>1, <1>9, <1>14
<1>16. Len(W) % 8 = 0
  <2>1. Len(W) = 8 * (2 + Len(m) + Len(t)) /\ 2 + Len(m) + Len(t) \in Nat
    BY <1>1, <1>14
  <2> QED BY ONLY <2>1, SmallNumbers
<1>17. W \in Seq(Bit) /\ \A i \in 1..0 : W[i] = 0
  BY <1>7
<1> QED BY <1>10, <1>11, <1>13, <1>15, <1>16, <1>17 DEF Framed

\* A piece behind padding lies as much further on.
LEMMA Shifted ==
  ASSUME NEW a \in Seq(Bit), NEW b \in Seq(Bit), NEW pos \in Nat, NEW s, Len(s) \in Nat, At(b, pos, s)
  PROVE  At(a \o b, Len(a) + pos, s)
<1>1. /\ Len(a \o b) = Len(a) + Len(b) /\ Len(a) \in Nat /\ Len(b) \in Nat
      /\ At(a \o b, Len(a), b)
  BY Joined
<1>2. pos + Len(s) <= Len(b) /\ \A i \in 1..Len(s) : b[pos + i] = s[i]
  BY DEF At
<1> DEFINE ab == a \o b
<1> HIDE DEF ab
<1>3. \A i \in 1..Len(b) : ab[Len(a) + i] = b[i]
  BY <1>1 DEF At, ab
<1>4. ASSUME NEW i \in 1..Len(s) PROVE ab[(Len(a) + pos) + i] = s[i]
  <2>1. pos + i \in 1..Len(b) /\ Len(a) + (pos + i) = (Len(a) + pos) + i
    BY <1>1, <1>2
  <2> QED BY <1>2, <1>3, <2>1
<1>5. Len(a) + pos + Len(s) <= Len(a) + Len(b)
  BY <1>1, <1>2
<1> QED BY <1>1, <1>4, <1>5 DEF At, ab

\* Padding is zeros,
LEMMA ZerosAre ==
  ASSUME NEW n \in Nat
  PROVE  Zeros(n) \in Seq(Bit) /\ Len(Zeros(n)) = n /\ \A i \in 1..n : Zeros(n)[i] = 0
<1>1. Zeros(n) \in [1..n -> Bit]
  BY Octets DEF Zeros
<1> QED BY <1>1 DEF Zeros

\* and a version one bit or nine.
LEMMA VersionBitsAre ==
  ASSUME NEW v \in 0..255
  PROVE  VersionBits(v) \in Seq(Bit) /\ Len(VersionBits(v)) = IF v = 0 THEN 1 ELSE 9
<1>1. v \in Nat /\ 8 \in 1..8
  OBVIOUS
<1>2. Bits(v, 8) \in Seq(Bit) /\ Len(Bits(v, 8)) = 8
  BY ONLY <1>1, BitsAre
<1>3. PICK one \in Seq(Bit) : one = <<1>> /\ Len(one) = 1
  BY Octets
<1>4. one \o Bits(v, 8) \in Seq(Bit) /\ Len(one \o Bits(v, 8)) = Len(one) + Len(Bits(v, 8))
  BY ONLY <1>2, <1>3, Joined
<1>5. v = 0 => VersionBits(v) = <<0>>
  BY DEF VersionBits
<1>6. v # 0 => VersionBits(v) = one \o Bits(v, 8)
  BY <1>3 DEF VersionBits
<1>7. one \o Bits(v, 8) \in Seq(Bit) /\ Len(one \o Bits(v, 8)) = 9
  <2>1. Len(one) = 1
    BY <1>3
  <2>2. Len(one \o Bits(v, 8)) = 1 + 8
    BY ONLY <1>2, <1>4, <2>1
  <2>3. 1 + 8 = 9
    OBVIOUS
  <2> QED BY ONLY <1>4, <2>2, <2>3
<1> QED BY ONLY <1>5, <1>6, <1>7, Octets

\* and a hub's that of any, behind its padding.
HubBits(body, version, type, compressed, m, t, spare, s) ==
  /\ version \in 0..255 /\ type \in 0..31 /\ compressed \in 0..1
  /\ m \in Seq(Byte) /\ Len(m) < 256 /\ t \in Seq(Byte) /\ spare \in 0..7
  /\ body = <<1>> \o VersionBits(version) \o Bits(type, 5) \o <<compressed>>
            \o Bits(Len(m), 8) \o TextBits(m) \o TextBits(t) \o Zeros(spare)
  /\ s.metadata = m /\ s.payload = t /\ s.version = version /\ s.type = type /\ s.compressed = compressed
LEMMA HubFrames ==
  ASSUME NEW body, NEW version, NEW type, NEW compressed, NEW m, NEW t, NEW spare, NEW s,
         HubBits(body, version, type, compressed, m, t, spare, s), NEW p \in Nat
  PROVE  /\ Framed(Zeros(p) \o body, p, s)
         /\ Len(body) \in Nat /\ Len(Zeros(p) \o body) = p + Len(body)
<1> SUFFICES ASSUME version \in 0..255, type \in 0..31, compressed \in 0..1,
                    m \in Seq(Byte), Len(m) < 256, t \in Seq(Byte), spare \in 0..7,
                    body = << 1 >> \o VersionBits(version) \o Bits(type, 5) \o <<compressed>>
                           \o Bits(Len(m), 8) \o TextBits(m) \o TextBits(t) \o Zeros(spare),
                    s.metadata = m, s.payload = t, s.version = version, s.type = type,
                    s.compressed = compressed
             PROVE  /\ Framed(Zeros(p) \o body, p, s)
                    /\ Len(body) \in Nat /\ Len(Zeros(p) \o body) = p + Len(body)
  BY DEF HubBits
<1>1. PICK one : one = <<1>> /\ one \in Seq(Bit) /\ Len(one) = 1
  BY Octets
<1>2. PICK v : v = VersionBits(version) /\ v \in Seq(Bit) /\ Len(v) = IF version = 0 THEN 1 ELSE 9
  BY VersionBitsAre
<1>3. PICK b5 : b5 = Bits(type, 5) /\ b5 \in Seq(Bit) /\ Len(b5) = 5
  <2>1. type \in Nat /\ 5 \in 1..8
    BY SmallNumbers
  <2> QED BY ONLY <2>1, BitsAre
<1>4. PICK c : c = <<compressed>> /\ c \in Seq(Bit) /\ Len(c) = 1
  <2>1. compressed = 0 \/ compressed = 1
    OBVIOUS
  <2> QED BY ONLY <2>1, Octets
<1>5. PICK b8 : b8 = Bits(Len(m), 8) /\ b8 \in Seq(Bit) /\ Len(b8) = 8
  <2>1. Len(m) \in Nat /\ 8 \in 1..8
    OBVIOUS
  <2> QED BY ONLY <2>1, BitsAre
<1>6. PICK mb : mb = TextBits(m) /\ mb \in Seq(Bit) /\ Len(mb) = 8 * Len(m)
  BY TextBitsAre
<1>7. PICK tb : tb = TextBits(t) /\ tb \in Seq(Bit) /\ Len(tb) = 8 * Len(t)
  BY TextBitsAre
<1>8. PICK z : z = Zeros(spare) /\ z \in Seq(Bit) /\ Len(z) = spare
  <2>1. spare \in Nat
    OBVIOUS
  <2> QED BY ONLY <2>1, ZerosAre
<1>9. PICK pad : pad = Zeros(p) /\ pad \in Seq(Bit) /\ Len(pad) = p /\ \A i \in 1..p : pad[i] = 0
  BY ZerosAre
<1>10. PICK head : head = one \o v \o b5 \o c \o b8 \o mb
  OBVIOUS
<1>11. PICK whole : whole = head \o tb
  OBVIOUS
<1>12. body = whole \o z
  BY <1>1, <1>2, <1>3, <1>4, <1>5, <1>6, <1>7, <1>8, <1>10, <1>11
<1>13. Len(m) \in Nat /\ Len(t) \in Nat /\ spare \in Nat
  OBVIOUS
<1>14. PICK V : V = Len(v) /\ V \in {1, 9} /\ V \in Nat
  BY <1>2
<1>15. Chained(head, one, v, b5, c, b8, mb)
  BY ONLY <1>1, <1>2, <1>3, <1>4, <1>5, <1>6, <1>10 DEF Chained
<1>16. /\ head \in Seq(Bit) /\ Len(head) = 1 + V + 5 + 1 + 8 + 8 * Len(m)
       /\ At(head, 0, one) /\ At(head, 1, v) /\ At(head, 1 + V, b5) /\ At(head, V + 6, c)
       /\ At(head, V + 7, b8) /\ At(head, V + 15, mb)
  <2>1. /\ head \in Seq(Bit)
        /\ Len(head) = Len(one) + Len(v) + Len(b5) + Len(c) + Len(b8) + Len(mb)
        /\ At(head, 0, one) /\ At(head, Len(one), v) /\ At(head, Len(one) + Len(v), b5)
        /\ At(head, Len(one) + Len(v) + Len(b5), c)
        /\ At(head, Len(one) + Len(v) + Len(b5) + Len(c), b8)
        /\ At(head, Len(one) + Len(v) + Len(b5) + Len(c) + Len(b8), mb)
    BY ONLY <1>15, Chain
  <2>2. 1 + V + 5 = V + 6 /\ 1 + V + 5 + 1 = V + 7 /\ 1 + V + 5 + 1 + 8 = V + 15
    BY ONLY <1>14
  <2>3. /\ Len(one) = 1 /\ Len(v) = V /\ Len(b5) = 5 /\ Len(c) = 1 /\ Len(b8) = 8 /\ Len(mb) = 8 * Len(m)
    BY <1>1, <1>2, <1>3, <1>4, <1>5, <1>6, <1>14
  <2> QED BY ONLY <2>1, <2>2, <2>3
<1> DEFINE k == V + 15 + 8 * Len(m)
<1>17. k \in Nat /\ Len(head) = k /\ 1 + V \in Nat /\ V + 6 \in Nat /\ V + 7 \in Nat /\ V + 15 \in Nat
       /\ 0 \in Nat /\ 1 \in Nat
  BY ONLY <1>13, <1>14, <1>16
<1> HIDE DEF k
<1>18. whole \in Seq(Bit) /\ Len(whole) = k + 8 * Len(t) /\ At(whole, k, tb)
  BY ONLY <1>7, <1>11, <1>16, <1>17, Joined
<1>19. /\ At(whole, 0, one) /\ At(whole, 1, v) /\ At(whole, 1 + V, b5) /\ At(whole, V + 6, c)
       /\ At(whole, V + 7, b8) /\ At(whole, V + 15, mb)
  BY ONLY <1>1, <1>2, <1>3, <1>4, <1>5, <1>6, <1>7, <1>11, <1>16, <1>17, Joined
<1>20. body \in Seq(Bit) /\ Len(body) = k + 8 * Len(t) + spare
  BY ONLY <1>8, <1>12, <1>18, Joined
<1>21. /\ At(body, 0, one) /\ At(body, 1, v) /\ At(body, 1 + V, b5) /\ At(body, V + 6, c)
       /\ At(body, V + 7, b8) /\ At(body, V + 15, mb) /\ At(body, k, tb)
  BY ONLY <1>1, <1>2, <1>3, <1>4, <1>5, <1>6, <1>7, <1>8, <1>12, <1>17, <1>18, <1>19, Joined
<1> DEFINE W == pad \o body
<1> HIDE DEF W
<1>22. W \in Seq(Bit) /\ Len(W) = p + Len(body) /\ \A i \in 1..p : W[i] = 0
  BY ONLY <1>9, <1>20, Joined DEF W
<1>23. /\ At(W, p + 0, one) /\ At(W, p + 1, v) /\ At(W, p + (1 + V), b5) /\ At(W, p + (V + 6), c)
       /\ At(W, p + (V + 7), b8) /\ At(W, p + (V + 15), mb) /\ At(W, p + k, tb)
  <2>1. /\ Len(one) \in Nat /\ Len(v) \in Nat /\ Len(b5) \in Nat /\ Len(c) \in Nat /\ Len(b8) \in Nat
        /\ Len(mb) \in Nat /\ Len(tb) \in Nat
    BY ONLY <1>1, <1>2, <1>3, <1>4, <1>5, <1>6, <1>7, <1>13, <1>14
  <2>2. pad \in Seq(Bit) /\ Len(pad) = p
    BY <1>9
  <2>3. body \in Seq(Bit)
    BY <1>20
  <2> QED BY ONLY <1>17, <1>21, <2>1, <2>2, <2>3, Shifted DEF W
<1> DEFINE q == TypeAt(p, s)
<1>24. q = p + (1 + V)
  BY <1>2, <1>14 DEF TypeAt
<1> HIDE DEF q
<1>25. /\ p + 0 = p /\ p + (V + 6) = q + 5 /\ p + (V + 7) = q + 6 /\ p + (V + 15) = q + 14
       /\ p + k = q + 14 + 8 * Len(m) /\ Len(body) \in Nat
       /\ Len(W) - (q + 14 + 8 * Len(m) + 8 * Len(t)) = spare
  <2>1. p \in Nat
    OBVIOUS
  <2> QED BY ONLY <1>13, <1>14, <1>17, <1>20, <1>22, <1>24, <2>1 DEF k
<1>26. /\ At(W, p, one) /\ At(W, p + 1, v) /\ At(W, q, b5) /\ At(W, q + 5, c) /\ At(W, q + 6, b8)
       /\ At(W, q + 14, mb) /\ At(W, q + 14 + 8 * Len(m), tb)
  BY ONLY <1>23, <1>24, <1>25
<1>27. Framed(W, p, s)
  <2>1. /\ At(W, p, <<1>>) /\ At(W, p + 1, VersionBits(s.version)) /\ At(W, q, Bits(s.type, 5))
        /\ At(W, q + 5, <<s.compressed>>) /\ At(W, q + 6, Bits(Len(s.metadata), 8))
        /\ At(W, q + 14, TextBits(s.metadata)) /\ At(W, q + 14 + 8 * Len(s.metadata), TextBits(s.payload))
    BY <1>1, <1>2, <1>3, <1>4, <1>5, <1>6, <1>7, <1>26
  <2>2. Len(W) - (q + 14 + 8 * Len(s.metadata) + 8 * Len(s.payload)) \in 0..7
    BY <1>25
  <2> QED BY <1>22, <2>1, <2>2 DEF Framed, q
<1> QED BY <1>9, <1>22, <1>25, <1>27 DEF W

-----------------------------------------------------------------------------
\* What is on the wire is a frame of what was meant, or what is left of one,
\* and what decode answered is what it makes of that.
Meant(s) == Author(s) /\ (s.name \in {"handshake", "unknown"} \/ TypeName(s.type) = s.name)
OnWire(W, p) ==
  /\ Framed(W, p, sent) /\ Begun(wire, W) /\ Len(W) % 8 = 0
  /\ 8 * lost <= Len(W) /\ Len(wire) = Len(W) - 8 * lost
BitsInv ==
  /\ lost \in Nat
  /\ sent = Nothing \/ sent.rc # "OK" => wire = <<>> /\ lost = 0 /\ got = Nothing
  /\ sent # Nothing /\ sent.rc = "OK" => Meant(sent) /\ \E W, p : OnWire(W, p)
  /\ got # Nothing => /\ got.metadataCap \in Nat /\ got.payloadCap \in Nat
                      /\ got.answer = Decode(wire, got.metadataCap, got.payloadCap)

\* No bit is written at first.
LEMMA BitsInit0 == BitsInit => BitsInv
BY DEF BitsInit, BitsInv, Nothing

\* The node writes a frame,
LEMMA WriteKeeps ==
  ASSUME BitsInv, NEW name \in {"shake", "handshake", "hello", "bin", "unknown"},
         NEW m \in Texts \cup {LongText}, NEW t \in Texts, NEW cap, Write(name, m, t, cap)
  PROVE  BitsInv'
<1> DEFINE out == Encode(name, m, t, cap)
<1>1. /\ sent = Nothing /\ wire' = (IF out.rc = "OK" THEN out.bits ELSE <<>>) /\ lost' = lost /\ got' = got
      /\ sent' = [rc |-> out.rc, by |-> "node", type |-> TypeId(name), name |-> name, cap |-> cap,
                  metadata |-> m, payload |-> t, version |-> 0, compressed |-> 0]
  BY DEF Write
<1>2. lost = 0 /\ got = Nothing
  BY <1>1 DEF BitsInv
<1>3. CASE out.rc # "OK"
  <2>1. sent'.rc # "OK" /\ wire' = <<>> /\ lost' = 0 /\ got' = Nothing
    BY <1>1, <1>2, <1>3
  <2> QED BY <2>1 DEF BitsInv
<1>4. CASE out.rc = "OK"
  <2>1. /\ ~(Len(m) > 255)
        /\ out.bits = <<1>> \o Bits(TypeId(name) % 32, 6) \o <<0>> \o Bits(Len(m), 8)
                      \o TextBits(m) \o TextBits(t)
    BY <1>4 DEF Encode, Rc
  <2>2. m \in Seq(Byte) /\ t \in Seq(Byte)
    BY BitsAssumption
  <2>3. Len(m) \in Nat
    BY ONLY <2>2
  <2>4. TypeId(name) \in 0..31 /\ (name \in {"handshake", "unknown"} \/ TypeName(TypeId(name)) = name)
    <3>1. TypeId(name) \in 0..12
      BY NamesOfTypes
    <3>2. \A n \in 0..12 : n \in 0..31
      OBVIOUS
    <3> QED BY <3>1, <3>2, NamesOfTypes
  <2>5. /\ sent'.metadata = m /\ sent'.payload = t /\ sent'.version = 0 /\ sent'.type = TypeId(name)
        /\ sent'.compressed = 0 /\ sent'.name = name /\ sent'.rc = "OK"
    BY <1>1, <1>4
  <2>6. Len(m) < 256
    BY ONLY <2>1, <2>3
  <2>7. Framed(wire', 0, sent') /\ Len(wire') % 8 = 0
    <3>1. wire' = <<1>> \o Bits(TypeId(name) % 32, 6) \o <<0>> \o Bits(Len(m), 8)
                  \o TextBits(m) \o TextBits(t)
      BY <1>1, <1>4, <2>1
    <3> HIDE DEF out
    <3>2. PICK W, s : W = wire' /\ s = sent'
      OBVIOUS
    <3>3. NodeBits(W, TypeId(name), m, t, s)
      BY ONLY <2>2, <2>4, <2>5, <2>6, <3>1, <3>2 DEF NodeBits
    <3> QED BY ONLY <3>2, <3>3, NodeFrames
  <2>8. Meant(sent)'
    <3>1. Author(sent)'
      <4>1. 0 \in 0..255 /\ 0 \in 0..1
        OBVIOUS
      <4> QED BY ONLY <2>2, <2>4, <2>5, <2>6, <4>1 DEF Author
    <3> QED BY <2>4, <2>5, <3>1 DEF Meant
  <2>9. (\E W, p : OnWire(W, p))'
    <3>1. wire' = wire' /\ lost' = 0
      BY <1>1, <1>2
    <3>2. OnWire(wire, 0)'
      <4>1. wire' \in Seq(Bit)
        BY <2>7 DEF Framed
      <4>2. Len(wire') \in Nat
        BY ONLY <4>1
      <4>3. Begun(wire', wire')
        BY ONLY <4>1, <4>2 DEF Begun
      <4>4. 8 * lost' <= Len(wire') /\ Len(wire') = Len(wire') - 8 * lost'
        BY ONLY <4>2, <3>1
      <4> QED BY <2>7, <4>3, <4>4 DEF OnWire
    <3> QED BY <3>2
  <2>10. lost' \in Nat /\ got' = Nothing /\ sent' # Nothing
    BY <1>1, <1>2, <2>5 DEF Nothing
  <2> QED BY <2>5, <2>8, <2>9, <2>10 DEF BitsInv
<1> QED BY <1>3, <1>4

\* a hub writes one,
LEMMA HubKeeps ==
  ASSUME BitsInv, NEW version \in {0, 1, 2}, NEW type \in {0, 11, 13, 31}, NEW compressed \in {0, 1},
         NEW m \in Texts, NEW t \in Texts, NEW spare \in {0, 7}, NEW lead \in 0..1,
         HubWrite(version, type, compressed, m, t, spare, lead)
  PROVE  BitsInv'
<1> DEFINE body == <<1>> \o VersionBits(version) \o Bits(type, 5) \o <<compressed>>
                   \o Bits(Len(m), 8) \o TextBits(m) \o TextBits(t) \o Zeros(spare)
           p == 8 * lead + ((8 - (Len(body) % 8)) % 8)
<1>1. /\ sent = Nothing /\ wire' = Zeros(p) \o body /\ lost' = lost /\ got' = got
      /\ sent' = [rc |-> "OK", by |-> "hub", type |-> type, name |-> TypeName(type), cap |-> 0,
                  metadata |-> m, payload |-> t, version |-> version, compressed |-> compressed]
  BY DEF HubWrite
<1> HIDE DEF body
<1>2. lost = 0 /\ got = Nothing
  BY <1>1 DEF BitsInv
<1>3. m \in Seq(Byte) /\ t \in Seq(Byte) /\ Len(m) < 256
  BY BitsAssumption
<1>4. version \in 0..255 /\ type \in 0..31 /\ compressed \in 0..1 /\ spare \in 0..7 /\ lead \in Nat
  OBVIOUS
<1>5. /\ sent'.metadata = m /\ sent'.payload = t /\ sent'.version = version /\ sent'.type = type
      /\ sent'.compressed = compressed /\ sent'.name = TypeName(type) /\ sent'.rc = "OK"
  BY <1>1
<1>6. ASSUME NEW n \in Nat
      PROVE  Framed(Zeros(n) \o body, n, sent') /\ Len(body) \in Nat /\ Len(Zeros(n) \o body) = n + Len(body)
  <2>1. PICK s : s = sent'
    OBVIOUS
  <2>2. HubBits(body, version, type, compressed, m, t, spare, s)
    BY ONLY <1>3, <1>4, <1>5, <2>1 DEF HubBits, body
  <2> QED BY ONLY <2>1, <2>2, n \in Nat, HubFrames
<1>7. Len(body) \in Nat
  <2>1. 0 \in Nat
    OBVIOUS
  <2> QED BY <1>6, <2>1
<1>8. p \in Nat /\ (p + Len(body)) % 8 = 0
  <2> DEFINE n == Len(body)
             k == n \div 8
             e == n % 8
  <2>1. n \in Nat
    BY <1>7
  <2> HIDE DEF n
  <2>2. k \in Nat /\ e \in 0..7 /\ n = 8 * k + e
    BY ONLY <2>1
  <2> HIDE DEF k, e
  <2>3. (8 - e) % 8 \in 0..7 /\ \E j \in 0..1 : ((8 - e) % 8) + e = 8 * j
    <3>1. e \in {0, 1, 2, 3, 4, 5, 6, 7}
      BY ONLY <2>2
    <3>2. CASE e = 0
      BY ONLY <3>2
    <3>3. CASE e # 0
      BY ONLY <3>1, <3>3
    <3> QED BY <3>2, <3>3
  <2> DEFINE u == (8 - e) % 8
  <2> HIDE DEF u
  <2>4. PICK j \in 0..1 : u + e = 8 * j
    BY <2>3 DEF u
  <2>5. u \in 0..7 /\ p = 8 * lead + u
    BY <2>3 DEF u, e, n
  <2> HIDE DEF p
  <2>6. p \in Nat /\ p + n = 8 * (lead + k + j) /\ lead + k + j \in Nat
    BY ONLY <1>4, <2>1, <2>2, <2>4, <2>5
  <2> QED BY <2>6, SmallNumbers DEF n
<1> HIDE DEF p
<1>9. Framed(wire', p, sent') /\ Len(wire') % 8 = 0
  BY <1>1, <1>6, <1>8
<1>10. Meant(sent)'
  <2>1. Author(sent)'
    BY ONLY <1>3, <1>4, <1>5 DEF Author
  <2> QED BY <1>5, <2>1 DEF Meant
<1>11. OnWire(wire, p)'
  <2>1. wire' \in Seq(Bit)
    BY <1>9 DEF Framed
  <2>2. Len(wire') \in Nat
    BY ONLY <2>1
  <2>3. Begun(wire', wire')
    BY ONLY <2>1, <2>2 DEF Begun
  <2>4. 8 * lost' <= Len(wire') /\ Len(wire') = Len(wire') - 8 * lost'
    BY ONLY <1>1, <1>2, <2>2
  <2> QED BY <1>9, <2>3, <2>4 DEF OnWire
<1>12. lost' \in Nat /\ got' = Nothing /\ sent' # Nothing
  BY <1>1, <1>2, <1>5 DEF Nothing
<1> QED BY <1>5, <1>10, <1>11, <1>12 DEF BitsInv

\* a byte of it is lost,
LEMMA CutKeeps == ASSUME BitsInv, Cut PROVE BitsInv'
<1>1. /\ got = Nothing /\ wire # <<>> /\ wire' = SubSeq(wire, 1, Len(wire) - 8) /\ lost' = lost + 1
      /\ sent' = sent /\ got' = got
  BY DEF Cut
<1>2. lost \in Nat /\ sent # Nothing /\ sent.rc = "OK" /\ Meant(sent)
  BY <1>1 DEF BitsInv
<1>3. PICK W, p : OnWire(W, p)
  BY <1>2 DEF BitsInv
<1>4. /\ Framed(W, p, sent) /\ wire \in Seq(Bit) /\ (\A i \in 1..Len(wire) : wire[i] = W[i])
      /\ Len(W) % 8 = 0 /\ 8 * lost <= Len(W) /\ Len(wire) = Len(W) - 8 * lost
  BY <1>3 DEF OnWire, Begun
<1>5. Len(W) \in Nat
  <2>1. W \in Seq(Bit)
    BY <1>4 DEF Framed
  <2> QED BY ONLY <2>1
<1>6. Len(wire) \in Nat /\ Len(wire) # 0
  <2>1. wire \in Seq(Bit) /\ wire # <<>>
    BY <1>1, <1>4
  <2> QED BY ONLY <2>1
<1>7. Len(wire) >= 8
  <2>1. PICK k \in Int : Len(W) = 8 * k
    <3>1. Len(W) = 8 * (Len(W) \div 8) /\ Len(W) \div 8 \in Int
      BY ONLY <1>4, <1>5
    <3> QED BY <3>1
  <2>2. Len(wire) = 8 * (k - lost)
    BY ONLY <1>2, <1>4, <2>1
  <2> QED BY ONLY <1>2, <1>6, <2>1, <2>2
<1>8. /\ wire' \in Seq(Bit) /\ Len(wire') = Len(wire) - 8
      /\ \A i \in 1..Len(wire) - 8 : wire'[i] = wire[i]
  <2> DEFINE n == Len(wire) - 8
  <2>1. n \in Nat /\ n <= Len(wire)
    BY ONLY <1>6, <1>7
  <2>2. wire' = SubSeq(wire, 1, n) /\ wire \in Seq(Bit)
    BY <1>1, <1>4
  <2> HIDE DEF n
  <2>3. wire' = [i \in 1..n |-> wire[i]]
    BY ONLY <2>1, <2>2
  <2>4. \A i \in 1..n : wire[i] \in Bit
    BY ONLY <2>1, <2>2
  <2>5. wire' \in [1..n -> Bit]
    BY ONLY <2>3, <2>4
  <2> QED BY ONLY <2>1, <2>3, <2>5 DEF n
<1>9. OnWire(W, p)'
  <2>1. /\ Len(wire') <= Len(W) /\ 8 * lost' <= Len(W) /\ Len(wire') = Len(W) - 8 * lost'
    <3>1. PICK n, w, v, l : n = Len(W) /\ w = Len(wire) /\ v = Len(wire') /\ l = lost
      OBVIOUS
    <3>2. n \in Nat /\ w \in Nat /\ l \in Nat /\ w >= 8 /\ 8 * l <= n /\ w = n - 8 * l /\ v = w - 8
      BY <1>2, <1>4, <1>5, <1>6, <1>7, <1>8, <3>1
    <3>3. v <= n /\ 8 * (l + 1) <= n /\ v = n - 8 * (l + 1)
      BY ONLY <3>2
    <3> QED BY ONLY <1>1, <3>1, <3>3
  <2>2. \A i \in 1..Len(wire') : wire'[i] = W[i]
    <3> SUFFICES ASSUME NEW i \in 1..Len(wire') PROVE wire'[i] = W[i]
      OBVIOUS
    <3>1. i \in 1..Len(wire) - 8 /\ i \in 1..Len(wire)
      BY ONLY <1>6, <1>8, i \in 1..Len(wire')
    <3> QED BY <1>4, <1>8, <3>1
  <2>3. Begun(wire', W)
    BY <1>8, <2>1, <2>2 DEF Begun
  <2> QED BY <1>1, <1>4, <2>1, <2>3 DEF OnWire
<1>10. Meant(sent)'
  BY <1>1, <1>2 DEF Meant, Author
<1>11. (\E V, q : OnWire(V, q))'
  BY <1>9
<1>12. lost' \in Nat /\ got' = Nothing /\ sent' # Nothing /\ sent'.rc = "OK"
  BY <1>1, <1>2
<1> QED BY <1>10, <1>11, <1>12 DEF BitsInv

\* and nothing else happens to it before it is decoded.
LEMMA BitsStep ==
  ASSUME BitsInv, [BitsNext]_bitVars
  PROVE  BitsInv'
<1>1. ASSUME NEW mc \in TextCaps, NEW pc \in TextCaps, DecodeArrived(mc, pc)
      PROVE  BitsInv'
  <2>1. /\ sent # Nothing /\ sent.rc = "OK" /\ sent' = sent /\ wire' = wire /\ lost' = lost
        /\ got' = [answer |-> Decode(wire, mc, pc), metadataCap |-> mc, payloadCap |-> pc]
    BY <1>1 DEF DecodeArrived
  <2>2. mc \in Nat /\ pc \in Nat
    BY BitsAssumption
  <2>3. lost \in Nat /\ Meant(sent) /\ \E W, p : OnWire(W, p)
    BY <2>1 DEF BitsInv
  <2>4. Meant(sent)' /\ (\E W, p : OnWire(W, p))'
    BY <2>1, <2>3 DEF Meant, Author, OnWire
  <2>5. got'.metadataCap = mc /\ got'.payloadCap = pc /\ got'.answer = Decode(wire, mc, pc)
    BY <2>1
  <2> QED BY <2>1, <2>2, <2>3, <2>4, <2>5 DEF BitsInv
<1>2. CASE UNCHANGED bitVars
  <2>1. sent' = sent /\ wire' = wire /\ lost' = lost /\ got' = got
    BY <1>2 DEF bitVars
  <2> QED BY <2>1 DEF BitsInv, Meant, Author, OnWire
<1> QED BY <1>1, <1>2, WriteKeeps, HubKeeps, CutKeeps DEF BitsNext

\* What was made of it is then what was meant, as far as it arrived.
LEMMA BitsRead == BitsInv => BitsAreRead
<1> SUFFICES ASSUME BitsInv, got # Nothing PROVE BitsAreRead
  BY DEF BitsAreRead, ReadAsWritten, CutIsNoticed, RefusedWithReason, Answered
<1> DEFINE mc == got.metadataCap
           pc == got.payloadCap
           d == got.answer
<1>1. /\ sent # Nothing /\ sent.rc = "OK" /\ Meant(sent) /\ lost \in Nat
      /\ mc \in Nat /\ pc \in Nat /\ d = Decode(wire, mc, pc)
  BY DEF BitsInv
<1>2. PICK W, p : OnWire(W, p)
  BY <1>1 DEF BitsInv
<1> DEFINE end == TypeAt(p, sent) + 14 + 8 * Len(sent.metadata)
           remaining == (Len(wire) - end) \div 8
<1>3. /\ Framed(W, p, sent) /\ Begun(wire, W) /\ Len(wire) = Len(W) - 8 * lost /\ Author(sent)
  BY <1>1, <1>2 DEF OnWire, Meant
<1>4. /\ d.rc = "OK" => end <= Len(wire)
      /\ end <= Len(wire) =>
           /\ sent.version > 1 \/ sent.compressed = 1 => d.rc = "UNSUPPORTED"
           /\ sent.version <= 1 /\ sent.compressed = 0 =>
                IF Len(sent.metadata) < mc /\ remaining < pc
                THEN d = [rc |-> "OK", type |-> sent.type, name |-> TypeName(sent.type),
                          metadata |-> sent.metadata, payload |-> ReadText(wire, end, remaining)]
                ELSE d = Rc("NOMEM")
  <2> HIDE DEF mc, pc, d
  <2>1. PICK a, b : a = mc /\ b = pc /\ a \in Nat /\ b \in Nat /\ d = Decode(wire, a, b)
    BY <1>1
  <2>2. DecodedWell(wire, p, sent, a, b, Decode(wire, a, b))
    BY ONLY <1>3, <2>1, DecodesWell
  <2>3. DecodedWell(wire, p, sent, mc, pc, d)
    BY ONLY <2>1, <2>2
  <2> QED BY ONLY <2>3 DEF DecodedWell
<1>5. /\ Len(sent.metadata) \in Nat /\ Len(sent.payload) \in Nat /\ sent.version \in Nat
      /\ sent.compressed \in {0, 1}
  BY <1>3, AuthorNumbers
<1>6. end \in Nat /\ Len(W) \in Nat /\ Len(wire) \in Nat /\ Len(wire) <= Len(W)
      /\ Len(W) - (end + 8 * Len(sent.payload)) \in 0..7 /\ At(W, end, TextBits(sent.payload))
  <2>1. TypeAt(p, sent) \in Nat /\ W \in Seq(Bit)
    BY <1>3, FieldsOf
  <2>2. wire \in Seq(Bit) /\ Len(wire) <= Len(W)
    BY <1>3 DEF Begun
  <2>3. Len(W) \in Nat /\ Len(wire) \in Nat
    BY ONLY <2>1, <2>2
  <2>4. end \in Nat
    <3> DEFINE q == TypeAt(p, sent)
               len == Len(sent.metadata)
    <3>1. q \in Nat /\ len \in Nat
      BY <1>5, <2>1
    <3> HIDE DEF q, len
    <3>2. q + 14 + 8 * len \in Nat
      BY ONLY <3>1
    <3> QED BY <3>2 DEF q, len
  <2>5. Len(W) - (end + 8 * Len(sent.payload)) \in 0..7 /\ At(W, end, TextBits(sent.payload))
    BY <1>3 DEF Framed
  <2> QED BY <2>2, <2>3, <2>4, <2>5
<1> HIDE DEF end, mc, pc, d
<1>7. end <= Len(wire) => /\ remaining \in Nat /\ remaining <= Len(sent.payload)
                          /\ end + 8 * remaining <= Len(wire)
                          /\ lost = 0 => remaining = Len(sent.payload)
  <2>1. PICK n, w, e, l : n = Len(W) /\ w = Len(wire) /\ e = end /\ l = Len(sent.payload)
    OBVIOUS
  <2>2. /\ n \in Nat /\ w \in Nat /\ e \in Nat /\ l \in Nat /\ w <= n /\ n - (e + 8 * l) \in 0..7
        /\ lost = 0 => w = n
    BY <1>1, <1>3, <1>5, <1>6, <2>1
  <2>3. e <= w => /\ (w - e) \div 8 \in Nat /\ (w - e) \div 8 <= l
                  /\ e + 8 * ((w - e) \div 8) <= w
                  /\ w = n => (w - e) \div 8 = l
    BY ONLY <2>2
  <2> QED BY ONLY <2>1, <2>2, <2>3
<1>8. lost = 0 => end <= Len(wire)
  <2>1. PICK n, w, e, l : n = Len(W) /\ w = Len(wire) /\ e = end /\ l = Len(sent.payload)
    OBVIOUS
  <2>2. /\ n \in Nat /\ w \in Nat /\ e \in Nat /\ l \in Nat /\ n - (e + 8 * l) \in 0..7
        /\ lost = 0 => w = n
    BY <1>1, <1>3, <1>5, <1>6, <2>1
  <2>3. lost = 0 => e <= w
    BY ONLY <2>2
  <2> QED BY ONLY <2>1, <2>3
<1> HIDE DEF remaining
<1>9. end <= Len(wire) => ReadText(wire, end, remaining) = [i \in 1..remaining |-> sent.payload[i]]
  <2> SUFFICES ASSUME end <= Len(wire)
               PROVE  ReadText(wire, end, remaining) = [i \in 1..remaining |-> sent.payload[i]]
    OBVIOUS
  <2>1. ASSUME NEW i \in 1..remaining
        PROVE  ReadUint(wire, end + 8 * (i - 1), 8).value = sent.payload[i]
    <3>1. i \in 1..Len(sent.payload) /\ end + 8 * i <= Len(wire)
      BY ONLY <1>5, <1>6, <1>7, end <= Len(wire), i \in 1..remaining
    <3>2. sent.payload \in Seq(Byte) /\ W \in Seq(Bit)
      BY <1>3, AuthorTexts, FieldsOf
    <3>3. ReadUint(wire, end + 8 * (i - 1), 8).value =
            IF end + 8 * i <= Len(wire) THEN sent.payload[i] ELSE -1
      BY ONLY <1>3, <1>6, <3>1, <3>2, ReadsText
    <3> QED BY <3>1, <3>3
  <2> QED BY <2>1 DEF ReadText
<1>10. sent.payload = [i \in 1..Len(sent.payload) |-> sent.payload[i]]
  BY <1>3, AuthorTexts
<1>11. d.rc = "OK" =>
         /\ end <= Len(wire) /\ sent.version <= 1 /\ sent.compressed = 0
         /\ Len(sent.metadata) < mc /\ remaining < pc
         /\ d.type = sent.type /\ d.name = TypeName(sent.type) /\ d.metadata = sent.metadata
         /\ d.payload = [i \in 1..remaining |-> sent.payload[i]]
  <2> SUFFICES ASSUME d.rc = "OK" PROVE
         /\ end <= Len(wire) /\ sent.version <= 1 /\ sent.compressed = 0
         /\ Len(sent.metadata) < mc /\ remaining < pc
         /\ d.type = sent.type /\ d.name = TypeName(sent.type) /\ d.metadata = sent.metadata
         /\ d.payload = [i \in 1..remaining |-> sent.payload[i]]
    OBVIOUS
  <2>1. end <= Len(wire)
    BY <1>4
  <2>2. ~(sent.version > 1 \/ sent.compressed = 1)
    BY <1>4, <2>1
  <2>3. sent.version <= 1 /\ sent.compressed = 0
    BY ONLY <1>5, <2>2
  <2>4. d # Rc("NOMEM")
    BY DEF Rc
  <2>5. /\ Len(sent.metadata) < mc /\ remaining < pc
        /\ d = [rc |-> "OK", type |-> sent.type, name |-> TypeName(sent.type),
                metadata |-> sent.metadata, payload |-> ReadText(wire, end, remaining)]
    BY <1>4, <2>1, <2>3, <2>4
  <2> QED BY <1>9, <2>1, <2>3, <2>5
<1>12. ReadAsWritten
  <2>1. ASSUME lost = 0, d.rc = "OK"
        PROVE  d.type = sent.type /\ d.name = TypeName(sent.type) /\ d.metadata = sent.metadata
               /\ d.payload = sent.payload
    BY <1>7, <1>10, <1>11, <2>1
  <2>2. sent.name \in {"handshake", "unknown"} \/ TypeName(sent.type) = sent.name
    BY <1>1 DEF Meant
  <2> QED BY <2>1, <2>2 DEF ReadAsWritten, d
<1>13. CutIsNoticed
  <2>1. ASSUME d.rc = "OK" PROVE d.metadata = sent.metadata /\ IsPrefix(d.payload, sent.payload)
    <3>1. remaining \in Nat /\ remaining <= Len(sent.payload) /\ d.payload = [i \in 1..remaining |-> sent.payload[i]]
      BY <1>7, <1>11, <2>1
    <3>2. sent.payload \in Seq(Byte)
      BY <1>3, AuthorTexts
    <3>3. Len(d.payload) = remaining /\ SubSeq(sent.payload, 1, remaining) = [i \in 1..remaining |-> sent.payload[i]]
      BY ONLY <1>5, <3>1, <3>2
    <3>4. d.payload \in Seq(Byte)
      <4>1. \A i \in 1..remaining : sent.payload[i] \in Byte
        BY ONLY <1>5, <3>1, <3>2
      <4> QED BY ONLY <3>1, <4>1
    <3>5. SubSeq(d.payload, 1, Len(d.payload)) = d.payload
      BY ONLY <3>4
    <3>6. IsPrefix(d.payload, sent.payload)
      BY <3>1, <3>3, <3>5 DEF IsPrefix
    <3> QED BY <1>11, <2>1, <3>6
  <2> QED BY <2>1 DEF CutIsNoticed, d
<1>14. RefusedWithReason
  <2> DEFINE tight == Len(sent.metadata) >= mc \/ Len(sent.payload) >= pc
             foreign == sent.version > 1 \/ sent.compressed = 1
  <2>1. lost = 0 /\ foreign => d.rc = "UNSUPPORTED"
    BY <1>4, <1>8
  <2>2. ASSUME lost = 0, ~foreign
        PROVE  (d.rc = "NOMEM" <=> tight) /\ (~tight => d.rc = "OK")
    <3>1. sent.version <= 1 /\ sent.compressed = 0
      BY ONLY <1>5, <2>2
    <3>2. remaining = Len(sent.payload) /\ end <= Len(wire)
      BY <1>7, <1>8, <2>2
    <3>3. IF Len(sent.metadata) < mc /\ Len(sent.payload) < pc
          THEN d.rc = "OK" ELSE d.rc = "NOMEM"
      BY <1>4, <3>1, <3>2 DEF Rc
    <3>4. mc \in Nat /\ pc \in Nat
      BY <1>1
    <3> QED BY ONLY <1>5, <3>3, <3>4
  <2>3. d.rc = "OK" => Len(d.metadata) < mc /\ Len(d.payload) < pc
    <3> SUFFICES ASSUME d.rc = "OK" PROVE Len(d.metadata) < mc /\ Len(d.payload) < pc
      OBVIOUS
    <3>1. remaining \in Nat /\ d.payload = [i \in 1..remaining |-> sent.payload[i]]
      BY <1>7, <1>11
    <3>2. Len(d.payload) = remaining
      BY ONLY <3>1
    <3> QED BY <1>11, <3>2
  <2> HIDE DEF tight, foreign
  <2> QED BY <2>1, <2>2, <2>3 DEF RefusedWithReason, tight, foreign, d, mc, pc
<1> QED BY <1>12, <1>13, <1>14 DEF BitsAreRead

\* Binary frames are read as they were written, cut short or not, or refused for
\* a reason: of thalovant_wire_encode_binary and thalovant_wire_decode_binary, for
\* every text and every size of buffers.
THEOREM BitsAreReadHolds == BitsSpec => []BitsAreRead
<1> QED BY BitsInit0, BitsStep, BitsRead, PTL DEF BitsSpec

\* A frame in bits or in JSON is read as its author meant it, or refused for a
\* reason: of thalovant_wire_decode_binary and thalovant_wire_parse.
THEOREM FramesAreReadHolds == BitsSpec /\ MembersSpec => []FramesAreRead
<1>1. BitsAreRead /\ MembersAreRead => FramesAreRead
  BY DEF FramesAreRead
<1> QED BY <1>1, BitsAreReadHolds, MembersAreReadHolds, PTL
-----------------------------------------------------------------------------
(* The tokenizer.                                                          *)
TokenSet == [type : {"object", "array", "string", "primitive"}, first : Nat, next : Nat,
             size : Nat, parent : Nat]
Container(i) == toks[i].type \in {"object", "array"}
\* A key of object o whose value has not ended.
Waits(k, o) == k \in DOMAIN toks /\ toks[k].parent = o /\ toks[k].type = "string" /\ toks[k].size = 0
Pending == expect = "colon" \/ (expect = "value" /\ InObject)

Link(m) == IF toks[stack[m]].type = "array" THEN toks[stack[m + 1]].parent = stack[m]
           ELSE Waits(toks[stack[m + 1]].parent, stack[m])

\* The stack holds exactly the tokens that are open, each within the one before.
StackOK ==
  /\ \A m, n \in DOMAIN stack : m < n => stack[m] < stack[n]
  /\ \A i \in DOMAIN toks : toks[i].next = 0 <=> \E m \in DOMAIN stack : stack[m] = i
  /\ \A m \in DOMAIN stack : Container(stack[m])
  /\ stack # <<>> => stack[1] = 1
  /\ \A m \in DOMAIN stack : m + 1 \in DOMAIN stack => Link(m)
\* What is looked for next goes with what is open.
ExpectOK ==
  /\ stack = <<>> => expect = "end" \/ (expect = "value" /\ toks = <<>>)
  /\ expect = "end" => stack = <<>>
  /\ expect \in {"key", "colon"} => InObject
  /\ Pending => Waits(Len(toks), Innermost)
  /\ rc = "run" /\ toks = <<>> => doc = <<>>
  /\ rc = "run" /\ expect = "end" => toks # <<>> /\ toks[1].next = Len(doc) + 1
\* A parent is an array, an object, or the key just before.
ParentsOK == \A i \in DOMAIN toks :
  /\ toks[i].parent = 0 <=> i = 1
  /\ toks[i].first = 1 <=> i = 1
  /\ IsKey(i) => toks[i].type = "string"
  /\ i > 1 => \/ Container(toks[i].parent)
              \/ IsKey(toks[i].parent) /\ toks[i].parent = i - 1
TokensInv == TokensOK /\ StackOK /\ ExpectOK /\ ParentsOK /\ SizesAreChildren /\ SpansNest

-----------------------------------------------------------------------------
\* What TokensOK says of the stack and of what is on top of it.
LEMMA TokenFacts ==
  ASSUME TokensOK
  PROVE  /\ Len(toks) \in Nat /\ DOMAIN toks = 1..Len(toks)
         /\ Len(stack) \in Nat /\ DOMAIN stack = 1..Len(stack)
         /\ Len(doc) \in Nat
         /\ \A i \in DOMAIN toks : toks[i] \in TokenSet
         /\ \A m \in DOMAIN stack : stack[m] \in DOMAIN toks
         /\ stack # <<>> => Len(stack) \in DOMAIN stack /\ Innermost \in DOMAIN toks
         /\ stack = <<>> <=> Len(stack) = 0
         /\ toks = <<>> <=> Len(toks) = 0
<1>1. toks \in Seq(TokenSet) /\ stack \in Seq(DOMAIN toks) /\ doc \in Seq(Lexemes)
  BY DEF TokensOK, TokenSet
<1>2. stack # <<>> => Len(stack) \in DOMAIN stack
  BY <1>1
<1> QED BY <1>1, <1>2 DEF Innermost

\* A token of a set's type, field by field.
LEMMA TokenFields ==
  ASSUME NEW t \in TokenSet
  PROVE  /\ t.type \in {"object", "array", "string", "primitive"} /\ t.first \in Nat
         /\ t.next \in Nat /\ t.size \in Nat /\ t.parent \in Nat
BY DEF TokenSet

\* What is on top of the stack is the last thing open.
LEMMA TopIsLast ==
  ASSUME TokensOK, StackOK, stack # <<>>
  PROVE  /\ toks[Innermost].next = 0 /\ Container(Innermost) /\ Innermost \in DOMAIN toks
         /\ \A m \in DOMAIN stack : stack[m] <= Innermost /\ (m # Len(stack) => stack[m] < Innermost)
         /\ \A i \in DOMAIN toks : i > Innermost => toks[i].next # 0
<1>1. Len(stack) \in DOMAIN stack /\ Innermost \in DOMAIN toks /\ Innermost = stack[Len(stack)]
  BY TokenFacts DEF Innermost
<1>2. DOMAIN toks \subseteq Nat /\ DOMAIN stack = 1..Len(stack) /\ Len(stack) \in Nat
  BY TokenFacts
<1>3. ASSUME NEW m \in DOMAIN stack
      PROVE  stack[m] <= Innermost /\ (m # Len(stack) => stack[m] < Innermost)
  <2>1. stack[m] \in DOMAIN toks
    BY TokenFacts
  <2>2. m = Len(stack) \/ m < Len(stack)
    BY <1>2
  <2> QED BY <1>1, <1>2, <2>1, <2>2 DEF StackOK
<1>4. ASSUME NEW i \in DOMAIN toks, i > Innermost PROVE toks[i].next # 0
  <2>1. \A m \in DOMAIN stack : stack[m] # i
    BY <1>1, <1>2, <1>3, <1>4
  <2> QED BY <2>1 DEF StackOK
<1> QED BY <1>1, <1>3, <1>4 DEF StackOK

\* A container is no key.
LEMMA ContainersAreNoKeys ==
  ASSUME ParentsOK, NEW i \in DOMAIN toks, Container(i)
  PROVE  ~IsKey(i)
BY DEF ParentsOK, Container

\* The key that waits is the last token, and an ended one.
LEMMA WaitingKey ==
  ASSUME TokensOK, StackOK, ExpectOK, ParentsOK, Pending
  PROVE  /\ stack # <<>> /\ Waits(Len(toks), Innermost) /\ IsKey(Len(toks)) /\ toks[Len(toks)].next # 0
         /\ Len(toks) > Innermost /\ toks[Innermost].type = "object"
<1>1. InObject /\ Waits(Len(toks), Innermost)
  BY DEF ExpectOK, Pending
<1>2. stack # <<>> /\ toks[Innermost].type = "object"
  BY <1>1 DEF InObject
<1>3. Len(toks) \in DOMAIN toks /\ toks[Len(toks)].parent = Innermost /\ toks[Len(toks)].type = "string"
  BY <1>1 DEF Waits
<1>4. Innermost \in Nat /\ Innermost # 0 /\ Len(toks) \in Nat
  BY <1>2, TokenFacts, TopIsLast
<1>5. IsKey(Len(toks))
  BY <1>2, <1>3, <1>4 DEF IsKey
<1>6. Len(toks) > Innermost
  BY <1>3, <1>4 DEF TokensOK
<1> QED BY <1>1, <1>2, <1>3, <1>4, <1>5, <1>6, TopIsLast

-----------------------------------------------------------------------------
\* What a token keeps for good.
Kept(i) == /\ toks'[i].type = toks[i].type /\ toks'[i].first = toks[i].first
           /\ toks'[i].parent = toks[i].parent
\* Every token is kept, and those of bumped count one more.
Counting(bumped) ==
  /\ DOMAIN toks \subseteq DOMAIN toks'
  /\ \A i \in DOMAIN toks : /\ Kept(i)
                            /\ toks'[i].size = IF i \in bumped THEN toks[i].size + 1 ELSE toks[i].size
\* One token more, n, that is no child's parent yet.
Appended(n, bumped) ==
  /\ toks' \in Seq(TokenSet) /\ Len(toks') = Len(toks) + 1
  /\ Counting(bumped)
  /\ \A i \in DOMAIN toks : toks'[i].next = toks[i].next
  /\ toks'[Len(toks) + 1] = n

LEMMA TokenGrows ==
  ASSUME NEW t \in TokenSet
  PROVE  [t EXCEPT !.size = @ + 1] \in TokenSet
<1>1. t.size + 1 \in Nat
  BY TokenFields
<1> QED BY <1>1 DEF TokenSet

\* Counted changes sizes only: those of the container and of the key.
Bumped(around, p) == IF around = <<>> THEN {} ELSE {around[Len(around)], p}
LEMMA CountedFacts ==
  ASSUME NEW ts \in Seq(TokenSet), NEW value \in DOMAIN ts, NEW around, NEW bumped,
         bumped = Bumped(around, ts[value].parent)
  PROVE  /\ Counted(ts, value, around) \in Seq(TokenSet)
         /\ Len(Counted(ts, value, around)) = Len(ts)
         /\ \A i \in DOMAIN ts :
              Counted(ts, value, around)[i] =
                IF i \in bumped THEN [ts[i] EXCEPT !.size = @ + 1] ELSE ts[i]
<1> DEFINE c == Counted(ts, value, around)
<1>1. c = [i \in DOMAIN ts |-> IF i \in bumped THEN [ts[i] EXCEPT !.size = @ + 1] ELSE ts[i]]
  BY DEF Counted, Bumped
<1>2. ASSUME NEW i \in DOMAIN ts
      PROVE  ts[i] \in TokenSet /\ [ts[i] EXCEPT !.size = @ + 1] \in TokenSet
  <2>1. ts[i] \in TokenSet
    OBVIOUS
  <2> QED BY <2>1, TokenGrows
<1>3. DOMAIN ts = 1..Len(ts) /\ Len(ts) \in Nat
  OBVIOUS
<1>4. c \in [1..Len(ts) -> TokenSet]
  BY <1>1, <1>2, <1>3
<1>5. c \in Seq(TokenSet) /\ Len(c) = Len(ts)
  BY <1>3, <1>4
<1> HIDE DEF c
<1> QED BY <1>1, <1>5 DEF c

\* Counting leaves keys keys and containers containers.
LEMMA KindsStay ==
  ASSUME TokensOK, NEW bumped, Counting(bumped), NEW i \in DOMAIN toks
  PROVE  /\ IsKey(i)' = IsKey(i) /\ Container(i)' = Container(i)
         /\ Kept(i) /\ i \in DOMAIN toks'
         /\ i \notin bumped => toks'[i].size = toks[i].size
<1>1. toks[i].parent < i /\ toks[i] \in TokenSet /\ DOMAIN toks = 1..Len(toks) /\ Len(toks) \in Nat
  BY TokenFacts DEF TokensOK
<1>2. toks[i].parent # 0 => toks[i].parent \in DOMAIN toks
  <2>1. toks[i].parent \in Nat
    BY <1>1, TokenFields
  <2> QED BY <1>1, <2>1
<1> QED BY <1>2 DEF Counting, Kept, IsKey, Container

LEMMA TokensSeq == ASSUME TokensOK PROVE toks \in Seq(TokenSet)
BY DEF TokensOK, TokenSet

\* Key and Open append a token,
LEMMA AppendedPlain ==
  ASSUME TokensOK, NEW n \in TokenSet, toks' = Append(toks, n)
  PROVE  Appended(n, {})
<1>1. toks \in Seq(TokenSet) /\ Len(toks) \in Nat /\ DOMAIN toks = 1..Len(toks)
  BY TokensSeq, TokenFacts
<1>2. toks' \in Seq(TokenSet) /\ Len(toks') = Len(toks) + 1 /\ toks'[Len(toks) + 1] = n
  BY <1>1, AppendProperties
<1>3. \A i \in DOMAIN toks : toks'[i] = toks[i]
  BY <1>1, AppendProperties
<1>4. DOMAIN toks \subseteq DOMAIN toks'
  BY <1>1, <1>2
<1> QED BY <1>2, <1>3, <1>4 DEF Appended, Counting, Kept

\* and Scalar one that counts.
LEMMA AppendedCounted ==
  ASSUME TokensOK, NEW n \in TokenSet, NEW around, toks' = Counted(Append(toks, n), Len(toks) + 1, around),
         NEW bumped, bumped = Bumped(around, n.parent),
         Len(toks) + 1 \notin bumped
  PROVE  Appended(n, bumped)
<1> DEFINE ts == Append(toks, n)
<1>1. toks \in Seq(TokenSet) /\ Len(toks) \in Nat /\ DOMAIN toks = 1..Len(toks)
  BY TokensSeq, TokenFacts
<1>2. ts \in Seq(TokenSet) /\ Len(ts) = Len(toks) + 1 /\ ts[Len(toks) + 1] = n
  BY <1>1, AppendProperties
<1>3. \A i \in DOMAIN toks : ts[i] = toks[i]
  BY <1>1, AppendProperties
<1>4. DOMAIN ts = 1..Len(toks) + 1
  BY <1>1, <1>2
<1> HIDE DEF ts
<1>5. Len(toks) + 1 \in DOMAIN ts
  BY <1>1, <1>4
<1>6. /\ toks' \in Seq(TokenSet) /\ Len(toks') = Len(ts)
      /\ \A i \in DOMAIN ts : toks'[i] = IF i \in bumped THEN [ts[i] EXCEPT !.size = @ + 1] ELSE ts[i]
  <2>1. bumped = Bumped(around, ts[Len(toks) + 1].parent)
    BY <1>2
  <2>2. toks' = Counted(ts, Len(toks) + 1, around)
    BY DEF ts
  <2> QED BY ONLY <1>2, <1>5, <2>1, <2>2, CountedFacts
<1>7. DOMAIN toks \subseteq DOMAIN ts /\ DOMAIN toks' = DOMAIN ts
  BY <1>1, <1>2, <1>4, <1>6
<1>8. toks'[Len(toks) + 1] = n
  BY <1>2, <1>5, <1>6
<1>9. ASSUME NEW i \in DOMAIN toks
      PROVE  /\ Kept(i) /\ toks'[i].next = toks[i].next
             /\ toks'[i].size = IF i \in bumped THEN toks[i].size + 1 ELSE toks[i].size
  <2>1. i \in DOMAIN ts /\ ts[i] = toks[i] /\ toks[i] \in TokenSet
    BY <1>1, <1>3, <1>7
  <2>2. toks'[i] = IF i \in bumped THEN [toks[i] EXCEPT !.size = @ + 1] ELSE toks[i]
    BY <1>6, <2>1
  <2> QED BY <2>1, <2>2 DEF Kept, TokenSet
<1> QED BY <1>2, <1>6, <1>7, <1>8, <1>9 DEF Appended, Counting

\* Close ends the innermost container, and counts it.
Closed(bumped) ==
  /\ toks' \in Seq(TokenSet) /\ Len(toks') = Len(toks)
  /\ Counting(bumped)
  /\ \A i \in DOMAIN toks : toks'[i].next = IF i = Innermost THEN Len(doc) + 2 ELSE toks[i].next
LEMMA ClosedCounted ==
  ASSUME TokensOK, stack # <<>>, NEW around, NEW bumped,
         toks' = Counted([toks EXCEPT ![Innermost].next = Len(doc) + 2], Innermost, around),
         bumped = Bumped(around, toks[Innermost].parent)
  PROVE  Closed(bumped)
<1> DEFINE ts == [toks EXCEPT ![Innermost].next = Len(doc) + 2]
<1>1. toks \in Seq(TokenSet) /\ Len(toks) \in Nat /\ DOMAIN toks = 1..Len(toks) /\ Innermost \in DOMAIN toks
      /\ Len(doc) + 2 \in Nat
  BY TokensSeq, TokenFacts
<1>2. \A i \in DOMAIN toks : toks[i] \in TokenSet
  BY <1>1
<1>3. /\ DOMAIN ts = DOMAIN toks
      /\ \A i \in DOMAIN toks : ts[i] = IF i = Innermost THEN [toks[i] EXCEPT !.next = Len(doc) + 2] ELSE toks[i]
  BY <1>1
<1>4. \A i \in DOMAIN toks : [toks[i] EXCEPT !.next = Len(doc) + 2] \in TokenSet
  BY <1>1, <1>2 DEF TokenSet
<1>5. ts \in [1..Len(toks) -> TokenSet]
  BY <1>1, <1>2, <1>3, <1>4
<1>6. ts \in Seq(TokenSet) /\ Len(ts) = Len(toks)
  BY <1>1, <1>5
<1>7. toks' = Counted(ts, Innermost, around)
  OBVIOUS
<1> HIDE DEF ts
<1>8. ts[Innermost].parent = toks[Innermost].parent
  BY <1>1, <1>2, <1>3 DEF TokenSet
<1>9. /\ toks' \in Seq(TokenSet) /\ Len(toks') = Len(ts)
      /\ \A i \in DOMAIN ts : toks'[i] = IF i \in bumped THEN [ts[i] EXCEPT !.size = @ + 1] ELSE ts[i]
  <2>1. Innermost \in DOMAIN ts
    BY <1>1, <1>3
  <2>2. bumped = Bumped(around, ts[Innermost].parent)
    BY <1>8
  <2> QED BY ONLY <1>6, <1>7, <2>1, <2>2, CountedFacts
<1>10. DOMAIN toks \subseteq DOMAIN toks'
  BY <1>1, <1>6, <1>9
<1>11. ASSUME NEW i \in DOMAIN toks
       PROVE  /\ Kept(i) /\ toks'[i].next = IF i = Innermost THEN Len(doc) + 2 ELSE toks[i].next
              /\ toks'[i].size = IF i \in bumped THEN toks[i].size + 1 ELSE toks[i].size
  <2>1. toks[i] \in TokenSet /\ ts[i] \in TokenSet
    BY <1>2, <1>3, <1>4
  <2>2. ts[i] = IF i = Innermost THEN [toks[i] EXCEPT !.next = Len(doc) + 2] ELSE toks[i]
    BY <1>3
  <2>3. toks'[i] = IF i \in bumped THEN [ts[i] EXCEPT !.size = @ + 1] ELSE ts[i]
    BY <1>3, <1>9
  <2> QED BY <2>1, <2>2, <2>3 DEF Kept, TokenSet
<1> QED BY <1>6, <1>9, <1>10, <1>11 DEF Closed, Counting

-----------------------------------------------------------------------------
(* Sizes.                                                                  *)
Children(i) == {j \in DOMAIN toks : toks[j].parent = i /\ Complete(j)}

\* What a completed value completes with it: nothing, or its key.
Completing(p, bumped) ==
  \/ p = 0 /\ bumped = {}
  \/ p \in DOMAIN toks /\ toks[p].type = "array" /\ bumped = {p}
  \/ \E o \in DOMAIN toks : Waits(p, o) /\ toks[o].type = "object" /\ bumped = {o, p}

\* A value that completes is its parent's child from then on, and its key the
\* object's: the sizes count exactly that.
LEMMA SizesCount ==
  ASSUME TokensOK, ParentsOK, SizesAreChildren, NEW value, NEW bumped,
         NEW p \in Nat, p = toks'[value].parent, p < value,
         Counting(bumped), Completing(p, bumped),
         DOMAIN toks' = DOMAIN toks \cup {value},
         toks'[value].next # 0,
         \A i \in DOMAIN toks : i # value => toks'[i].next = toks[i].next,
         \/ value \in DOMAIN toks /\ toks[value].next = 0 /\ Container(value)
         \/ value = Len(toks) + 1 /\ toks'[value].size = 0
  PROVE  SizesAreChildren'
<1>1. Len(toks) \in Nat /\ DOMAIN toks = 1..Len(toks) /\ \A i \in DOMAIN toks : toks[i] \in TokenSet
  BY TokenFacts
<1>2. ~IsKey(value)'
  <2>1. CASE p = 0
    BY <2>1 DEF IsKey
  <2>2. CASE p \in DOMAIN toks /\ toks[p].type = "array"
    <3>1. toks'[p].type = "array"
      BY <2>2, KindsStay DEF Kept
    <3> QED BY <3>1 DEF IsKey
  <2>3. ASSUME NEW o, Waits(p, o) PROVE ~IsKey(value)'
    <3>1. p \in DOMAIN toks /\ toks[p].type = "string"
      BY <2>3 DEF Waits
    <3>2. toks'[p].type = "string"
      BY <3>1, KindsStay DEF Kept
    <3> QED BY <3>2 DEF IsKey
  <2> QED BY <2>1, <2>2, <2>3 DEF Completing
<1>3. Complete(value)'
  BY <1>2 DEF Complete
<1>4. value \in DOMAIN toks => ~Complete(value)
  <2>1. value \in DOMAIN toks => Container(value) /\ toks[value].next = 0
    BY <1>1
  <2> QED BY <2>1, ContainersAreNoKeys DEF Complete
<1>5. value \in DOMAIN toks => toks[value].parent = p
  BY KindsStay DEF Kept
<1>6. IsFiniteSet(DOMAIN toks)
  BY <1>1, FS_Interval
<1>7. \A i : IsFiniteSet(Children(i))
  BY <1>6, FS_Subset DEF Children
<1>8. ASSUME NEW j \in DOMAIN toks, j # value, j \notin bumped \/ ~IsKey(j)
      PROVE  Complete(j)' = Complete(j) /\ toks'[j].parent = toks[j].parent
  BY <1>8, KindsStay DEF Complete, Kept
<1>9. ASSUME NEW k, NEW S, IsFiniteSet(S), k \notin S, NEW x \in Nat, x = Cardinality(S)
      PROVE  x + 1 = Cardinality(S \cup {k})
  BY <1>9, FS_AddElement
<1>10. \A i \in DOMAIN toks : toks[i].size \in Nat /\ toks[i].size = Cardinality(Children(i))
  BY <1>1, TokenFields DEF SizesAreChildren, Children
<1>11. value \notin DOMAIN toks => Children(value)' = {} /\ toks'[value].size = 0
  <2>1. ASSUME value \notin DOMAIN toks, NEW j \in DOMAIN toks' PROVE toks'[j].parent # value
    <3>1. CASE j = value
      BY <3>1
    <3>2. CASE j \in DOMAIN toks
      <4>1. toks[j].parent < j /\ toks'[j].parent = toks[j].parent
        BY <3>2, KindsStay DEF Kept, TokensOK
      <4> QED BY <1>1, <2>1, <3>2, <4>1
    <3> QED BY <3>1, <3>2
  <2> QED BY <1>1, <2>1 DEF Children
<1>12. Cardinality({}) = 0
  BY FS_EmptySet
<1>13. ASSUME NEW i \in DOMAIN toks, Children(i)' = Children(i), i \notin bumped
       PROVE  toks'[i].size = Cardinality(Children(i)')
  BY <1>10, <1>13, KindsStay
<1>14. ASSUME NEW i \in DOMAIN toks, NEW k, Children(i)' = Children(i) \cup {k}, k \notin Children(i), i \in bumped
       PROVE  toks'[i].size = Cardinality(Children(i)')
  <2>1. toks'[i].size = toks[i].size + 1
    BY <1>14 DEF Counting
  <2> QED BY <1>7, <1>9, <1>10, <1>14, <2>1
<1>15. \A i : value \notin Children(i)
  BY <1>4 DEF Children
<1>16. ASSUME NEW i \in DOMAIN toks PROVE toks'[i].size = Cardinality(Children(i)')
  <2>1. CASE p = 0 /\ bumped = {}
    <3>0. i # 0 /\ \A j \in DOMAIN toks : j # value => Complete(j)' = Complete(j) /\ toks'[j].parent = toks[j].parent
      BY <1>1, <1>8, <2>1
    <3>1. Children(i)' = Children(i)
      BY <1>15, <2>1, <3>0 DEF Children
    <3> QED BY <1>13, <2>1, <3>1
  <2>2. CASE p \in DOMAIN toks /\ toks[p].type = "array" /\ bumped = {p}
    <3>0. ~IsKey(p)
      BY <2>2, ContainersAreNoKeys DEF Container
    <3>1. CASE i = p
      <4>1. Children(i)' = Children(i) \cup {value}
        BY <1>3, <1>8, <1>15, <2>2, <3>0, <3>1 DEF Children
      <4> QED BY <1>14, <1>15, <2>2, <3>1, <4>1
    <3>2. CASE i # p
      <4>1. Children(i)' = Children(i)
        BY <1>3, <1>8, <1>15, <2>2, <3>0, <3>2 DEF Children
      <4> QED BY <1>13, <2>2, <3>2, <4>1
    <3> QED BY <3>1, <3>2
  <2>3. ASSUME NEW o \in DOMAIN toks, Waits(p, o), toks[o].type = "object", bumped = {o, p}
        PROVE  toks'[i].size = Cardinality(Children(i)')
    <3>1. p \in DOMAIN toks /\ toks[p].parent = o /\ toks[p].type = "string" /\ toks[p].size = 0
      BY <2>3 DEF Waits
    <3>2. IsKey(p) /\ o # p /\ ~IsKey(o) /\ p # value
      <4>1. o # 0
        BY <1>1
      <4>2. ~IsKey(o)
        BY <2>3, ContainersAreNoKeys DEF Container
      <4>3. p # value
        BY <3>1, <1>1
      <4> QED BY <2>3, <3>1, <4>1, <4>2, <4>3 DEF IsKey
    <3>3. ~Complete(p) /\ Complete(p)'
      <4>1. toks'[p].size = 1
        BY <1>1, <2>3, <3>1 DEF Counting
      <4>2. IsKey(p)'
        BY <3>1, <3>2, KindsStay
      <4> QED BY <3>1, <3>2, <4>1, <4>2 DEF Complete
    <3>4. toks'[p].parent = o
      BY <3>1, KindsStay DEF Kept
    <3>5. \A j \in DOMAIN toks : j # value /\ j # p => Complete(j)' = Complete(j) /\ toks'[j].parent = toks[j].parent
      BY <1>8, <2>3, <3>2
    <3>6. \A h : p \notin Children(h)
      BY <3>3 DEF Children
    <3>7. CASE i = p
      <4>1. Children(i)' = Children(i) \cup {value}
        BY <1>3, <1>15, <3>1, <3>2, <3>4, <3>5, <3>6, <3>7 DEF Children
      <4> QED BY <1>14, <1>15, <2>3, <3>7, <4>1
    <3>8. CASE i = o
      <4>1. Children(i)' = Children(i) \cup {p}
        BY <1>3, <1>15, <3>1, <3>2, <3>3, <3>4, <3>5, <3>6, <3>8 DEF Children
      <4> QED BY <1>14, <2>3, <3>6, <3>8, <4>1
    <3>9. CASE i # p /\ i # o
      <4>1. Children(i)' = Children(i)
        BY <1>3, <1>15, <3>1, <3>2, <3>3, <3>4, <3>5, <3>6, <3>9 DEF Children
      <4> QED BY <1>13, <2>3, <3>9, <4>1
    <3> QED BY <3>7, <3>8, <3>9
  <2> QED BY <2>1, <2>2, <2>3 DEF Completing
<1>17. ASSUME NEW i \in DOMAIN toks' PROVE toks'[i].size = Cardinality(Children(i)')
  BY <1>11, <1>12, <1>16, <1>17
<1> QED BY <1>17 DEF SizesAreChildren, Children

-----------------------------------------------------------------------------
(* Spans.                                                                  *)
\* The parent of a new token is a key that has ended or an open container, and
\* nothing behind it is open.
HasPlace(p) ==
  /\ p \in 0..Len(toks)
  /\ \A i \in DOMAIN toks : i > p => toks[i].next # 0
  /\ p # 0 => (toks[p].next # 0 <=> IsKey(p))

LEMMA SpansAppended ==
  ASSUME TokensOK, SpansNest, NEW n \in TokenSet, NEW bumped, Appended(n, bumped),
         NEW c \in Lexemes, doc' = Append(doc, c),
         n.first = Len(doc) + 1, n.next \in {0, Len(doc) + 2}, HasPlace(n.parent)
  PROVE  SpansNest'
<1> DEFINE L == Len(toks)  D == Len(doc)
<1>1. L \in Nat /\ DOMAIN toks = 1..L /\ D \in Nat /\ \A i \in DOMAIN toks : toks[i] \in TokenSet
  BY TokenFacts
<1>2. Len(doc') = D + 1
  BY DEF TokensOK
<1>3. DOMAIN toks' = 1..L + 1 /\ toks'[L + 1] = n /\ Counting(bumped)
  BY <1>1 DEF Appended
<1>4. \A i \in DOMAIN toks : toks'[i].first = toks[i].first /\ toks'[i].next = toks[i].next
                             /\ toks'[i].parent = toks[i].parent /\ IsKey(i)' = IsKey(i)
  BY <1>3, KindsStay DEF Appended, Kept
<1>5. \A i \in DOMAIN toks : toks[i].first \in 1..D /\ toks[i].next \in {0} \cup (toks[i].first + 1..D + 1)
  BY DEF SpansNest
<1>6. \A i \in DOMAIN toks : /\ toks[i].first \in Nat /\ toks[i].next \in Nat /\ toks[i].parent \in Nat
                             /\ toks[i].next <= D + 1 /\ toks[i].first <= D
  BY <1>1, <1>5, TokenFields
<1>7. n.first = D + 1 /\ n.next \in {0, D + 2} /\ n.parent \in Nat
  BY TokenFields
<1>8. ASSUME NEW i \in DOMAIN toks'
      PROVE  toks'[i].first \in 1..Len(doc') /\ toks'[i].next \in {0} \cup (toks'[i].first + 1..Len(doc') + 1)
  <2>1. CASE i = L + 1
    BY <1>1, <1>2, <1>3, <1>7, <2>1
  <2>2. CASE i \in DOMAIN toks
    <3>1. toks'[i].first = toks[i].first /\ toks'[i].next = toks[i].next
      BY <1>4, <2>2
    <3>2. toks[i].first \in 1..D /\ toks[i].next \in {0} \cup (toks[i].first + 1..D + 1)
      BY <1>5, <2>2
    <3> QED BY <1>1, <1>2, <3>1, <3>2
  <2> QED BY <1>1, <1>3, <2>1, <2>2
<1>9. ASSUME NEW i \in DOMAIN toks', NEW j \in DOMAIN toks', i < j
      PROVE  /\ toks'[i].first < toks'[j].first
             /\ toks'[j].parent < i => Ended(i, toks[j].first)'
             /\ toks'[j].parent = i => (Ended(i, toks[j].first)' <=> IsKey(i)')
             /\ Ended(i, toks[j].first)' \/ toks'[i].next = 0 \/ Ended(j, toks[i].next - 1)'
  <2>0. i \in DOMAIN toks
    BY <1>1, <1>3, <1>9
  <2>1. CASE j = L + 1
    <3>1. toks'[j].first = D + 1 /\ toks'[j].parent = n.parent
      BY <1>3, <1>7, <2>1
    <3>2. Ended(i, toks[j].first)' <=> toks[i].next # 0
      BY <1>1, <1>4, <1>6, <2>0, <3>1 DEF Ended
    <3>3. toks'[i].first < toks'[j].first /\ toks'[i].next = toks[i].next
      BY <1>1, <1>4, <1>6, <2>0, <3>1
    <3>4. n.parent < i => toks[i].next # 0
      BY <1>7, <2>0 DEF HasPlace
    <3>5. n.parent = i => (toks[i].next # 0 <=> IsKey(i)')
      <4>1. IsKey(i)' = IsKey(i) /\ i # 0
        BY <1>1, <1>4, <2>0
      <4> QED BY <4>1 DEF HasPlace
    <3> QED BY <3>1, <3>2, <3>3, <3>4, <3>5
  <2>2. CASE j \in DOMAIN toks
    <3>1. /\ toks'[i].first = toks[i].first /\ toks'[i].next = toks[i].next /\ IsKey(i)' = IsKey(i)
          /\ toks'[j].first = toks[j].first /\ toks'[j].next = toks[j].next /\ toks'[j].parent = toks[j].parent
      BY <1>4, <2>0, <2>2
    <3>2. /\ Ended(i, toks[j].first)' = Ended(i, toks[j].first)
          /\ Ended(j, toks[i].next - 1)' = Ended(j, toks[i].next - 1)
      BY <3>1 DEF Ended
    <3>3. /\ toks[i].first < toks[j].first
          /\ toks[j].parent < i => Ended(i, toks[j].first)
          /\ toks[j].parent = i => (Ended(i, toks[j].first) <=> IsKey(i))
          /\ Ended(i, toks[j].first) \/ toks[i].next = 0 \/ Ended(j, toks[i].next - 1)
      BY <1>9, <2>0, <2>2 DEF SpansNest
    <3> QED BY <3>1, <3>2, <3>3
  <2> QED BY <1>1, <1>3, <2>1, <2>2
<1> QED BY <1>8, <1>9 DEF SpansNest

LEMMA SpansClosed ==
  ASSUME TokensOK, StackOK, ParentsOK, SpansNest, stack # <<>>, NEW bumped, Closed(bumped),
         NEW c \in Lexemes, doc' = Append(doc, c)
  PROVE  SpansNest'
<1> DEFINE D == Len(doc)  e == Innermost
<1>1. Len(toks) \in Nat /\ DOMAIN toks = 1..Len(toks) /\ D \in Nat /\ \A i \in DOMAIN toks : toks[i] \in TokenSet
  BY TokenFacts
<1>2. Len(doc') = D + 1
  BY DEF TokensOK
<1>3. DOMAIN toks' = DOMAIN toks /\ Counting(bumped)
  BY <1>1 DEF Closed
<1>4. \A i \in DOMAIN toks : /\ toks'[i].first = toks[i].first
                             /\ toks'[i].next = IF i = e THEN D + 2 ELSE toks[i].next
                             /\ toks'[i].parent = toks[i].parent /\ IsKey(i)' = IsKey(i)
  BY <1>3, KindsStay DEF Closed, Kept
<1>5. \A i \in DOMAIN toks : toks[i].first \in 1..D /\ toks[i].next \in {0} \cup (toks[i].first + 1..D + 1)
  BY DEF SpansNest
<1>6. \A i \in DOMAIN toks : /\ toks[i].first \in Nat /\ toks[i].next \in Nat /\ toks[i].parent \in Nat
                             /\ toks[i].next <= D + 1 /\ toks[i].first <= D
  BY <1>1, <1>5, TokenFields
<1>7. e \in DOMAIN toks /\ toks[e].next = 0 /\ ~IsKey(e) /\ \A i \in DOMAIN toks : i > e => toks[i].next # 0
  BY TopIsLast, ContainersAreNoKeys
<1>8. ASSUME NEW i \in DOMAIN toks
      PROVE  toks'[i].first \in 1..Len(doc') /\ toks'[i].next \in {0} \cup (toks'[i].first + 1..Len(doc') + 1)
  <2>1. toks[i].first \in 1..D /\ toks[i].next \in {0} \cup (toks[i].first + 1..D + 1)
    BY <1>5
  <2>2. toks'[i].first = toks[i].first /\ toks'[i].next \in {D + 2, toks[i].next}
    BY <1>4
  <2> QED BY <1>1, <1>2, <2>1, <2>2
<1>9. ASSUME NEW i \in DOMAIN toks, NEW j \in DOMAIN toks, i < j
      PROVE  /\ toks'[i].first < toks'[j].first
             /\ toks'[j].parent < i => Ended(i, toks[j].first)'
             /\ toks'[j].parent = i => (Ended(i, toks[j].first)' <=> IsKey(i)')
             /\ Ended(i, toks[j].first)' \/ toks'[i].next = 0 \/ Ended(j, toks[i].next - 1)'
  <2>1. /\ toks'[i].first = toks[i].first /\ IsKey(i)' = IsKey(i)
        /\ toks'[j].first = toks[j].first /\ toks'[j].parent = toks[j].parent
        /\ toks'[i].next = (IF i = e THEN D + 2 ELSE toks[i].next)
        /\ toks'[j].next = (IF j = e THEN D + 2 ELSE toks[j].next)
    BY <1>4
  <2>2. /\ toks[i].first < toks[j].first
        /\ toks[j].parent < i => Ended(i, toks[j].first)
        /\ toks[j].parent = i => (Ended(i, toks[j].first) <=> IsKey(i))
        /\ Ended(i, toks[j].first) \/ toks[i].next = 0 \/ Ended(j, toks[i].next - 1)
    BY <1>9 DEF SpansNest
  <2>3. Ended(i, toks[j].first)' <=> Ended(i, toks[j].first)
    <3>1. CASE i = e
      <4>1. ~Ended(i, toks[j].first)
        BY <1>7, <3>1 DEF Ended
      <4>2. ~Ended(i, toks[j].first)'
        BY <1>1, <1>6, <2>1, <3>1 DEF Ended
      <4> QED BY <4>1, <4>2
    <3>2. CASE i # e
      BY <2>1, <3>2 DEF Ended
    <3> QED BY <3>1, <3>2
  <2>4. Ended(i, toks[j].first)' \/ toks'[i].next = 0 \/ Ended(j, toks[i].next - 1)'
    <3>1. CASE i = e
      <4>1. j # e /\ toks[j].next # 0 /\ toks'[j].next = toks[j].next
        BY <1>1, <1>7, <1>9, <2>1, <3>1
      <4>2. toks'[i].next - 1 = D + 1 /\ toks'[j].next <= D + 1
        BY <1>1, <1>6, <2>1, <3>1, <4>1
      <4> QED BY <4>1, <4>2 DEF Ended
    <3>2. CASE i # e
      <4>1. toks'[i].next = toks[i].next
        BY <2>1, <3>2
      <4>2. Ended(j, toks[i].next - 1) => Ended(j, toks[i].next - 1)'
        <5>1. Ended(j, toks[i].next - 1) => j # e
          BY <1>7 DEF Ended
        <5> QED BY <2>1, <4>1, <5>1 DEF Ended
      <4> QED BY <2>2, <2>3, <4>1, <4>2
    <3> QED BY <3>1, <3>2
  <2> QED BY <2>1, <2>2, <2>3, <2>4
<1> QED BY <1>3, <1>8, <1>9 DEF SpansNest

\* More text alone changes no span.
LEMMA SpansStay ==
  ASSUME TokensOK, SpansNest, toks' = toks, NEW c \in Lexemes, doc' = Append(doc, c)
  PROVE  SpansNest'
<1>1. Len(doc) \in Nat /\ Len(doc') = Len(doc) + 1
  BY DEF TokensOK
<1>2. \A i \in DOMAIN toks : toks[i].first \in Nat
  BY TokenFacts, TokenFields
<1>3. \A i \in DOMAIN toks : /\ toks[i].first \in 1..Len(doc')
                             /\ toks[i].next \in {0} \cup (toks[i].first + 1..Len(doc') + 1)
  BY <1>1, <1>2 DEF SpansNest
<1> QED BY <1>3 DEF SpansNest, Ended, IsKey

-----------------------------------------------------------------------------
(* Stack and parents.                                                      *)
\* Where a value is due it has its place: at the top, in the innermost array,
\* or behind the key that waits.
LEMMA ValueFits ==
  ASSUME TokensInv, WantsValue
  PROVE  /\ HasPlace(Parent) /\ (Parent = 0 <=> toks = <<>>) /\ (Parent = 0 <=> stack = <<>>)
         /\ Parent # 0 => \/ Parent = Innermost /\ toks[Innermost].type = "array"
                         \/ /\ Parent = Len(toks) /\ Innermost < Len(toks)
                            /\ Waits(Len(toks), Innermost) /\ IsKey(Len(toks))
                            /\ toks[Innermost].type = "object"
<1>0. TokensOK /\ StackOK /\ ExpectOK /\ ParentsOK
  BY DEF TokensInv
<1>1. /\ Len(toks) \in Nat /\ DOMAIN toks = 1..Len(toks) /\ (toks = <<>> <=> Len(toks) = 0)
      /\ \A m \in DOMAIN stack : stack[m] \in DOMAIN toks
      /\ stack # <<>> => Innermost \in DOMAIN toks
  BY <1>0, TokenFacts
<1>2. CASE stack = <<>>
  <2>1. toks = <<>> /\ Parent = 0
    BY <1>0, <1>2 DEF ExpectOK, WantsValue, Parent
  <2> QED BY <1>1, <1>2, <2>1 DEF HasPlace
<1>3. CASE stack # <<>> /\ InObject
  <2>1. Pending
    BY <1>3 DEF Pending, WantsValue, WantsKey
  <2>2. Parent = Len(toks)
    BY <1>3 DEF Parent
  <2>3. /\ Waits(Len(toks), Innermost) /\ IsKey(Len(toks)) /\ toks[Len(toks)].next # 0
        /\ Len(toks) > Innermost /\ toks[Innermost].type = "object"
    BY <1>0, <2>1, WaitingKey
  <2>4. Len(toks) # 0 /\ HasPlace(Len(toks))
    BY <1>1, <1>3, <2>3 DEF HasPlace
  <2> QED BY <1>1, <1>3, <2>2, <2>3, <2>4
<1>4. CASE stack # <<>> /\ ~InObject
  <2>1. Parent = Innermost
    BY <1>4 DEF Parent
  <2>2. /\ toks[Innermost].next = 0 /\ Container(Innermost) /\ Innermost \in DOMAIN toks
        /\ \A i \in DOMAIN toks : i > Innermost => toks[i].next # 0
    BY <1>0, <1>4, TopIsLast
  <2>3. toks[Innermost].type = "array" /\ ~IsKey(Innermost)
    BY <1>0, <1>4, <2>2, ContainersAreNoKeys DEF Container, InObject
  <2>4. HasPlace(Innermost) /\ Innermost # 0 /\ toks # <<>>
    BY <1>1, <2>2, <2>3 DEF HasPlace
  <2> QED BY <1>4, <2>1, <2>3, <2>4
<1> QED BY <1>2, <1>3, <1>4

\* A link between two open containers stays while what counts lies behind it.
LEMMA LinkStays ==
  ASSUME TokensOK, StackOK, NEW bumped \in SUBSET Nat, Counting(bumped), NEW m \in DOMAIN stack, m + 1 \in DOMAIN stack,
         stack'[m] = stack[m], stack'[m + 1] = stack[m + 1], \A x \in bumped : x >= stack[m + 1]
  PROVE  Link(m)'
<1> DEFINE o == stack[m]  e == stack[m + 1]
<1>1. o \in DOMAIN toks /\ e \in DOMAIN toks /\ Link(m)
  BY TokenFacts DEF StackOK
<1>2. Kept(o) /\ Kept(e)
  BY <1>1, KindsStay
<1>3. CASE toks[o].type = "array"
  BY <1>1, <1>2, <1>3 DEF Link, Kept
<1>4. CASE toks[o].type # "array"
  <2>1. Waits(toks[e].parent, o)
    BY <1>1, <1>4 DEF Link
  <2>2. PICK q : q = toks[e].parent
    OBVIOUS
  <2>3. q \in DOMAIN toks /\ toks[q].parent = o /\ toks[q].type = "string" /\ toks[q].size = 0
    BY <2>1, <2>2 DEF Waits
  <2>4. q < e /\ q \in Nat /\ e \in Nat
    <3>1. DOMAIN toks \subseteq Nat
      BY TokenFacts
    <3>2. toks[e].parent < e
      BY <1>1 DEF TokensOK
    <3> QED BY <1>1, <2>2, <2>3, <3>1, <3>2
  <2>5. q \notin bumped
    BY <2>4
  <2>6. q \in DOMAIN toks' /\ toks'[q].parent = o /\ toks'[q].type = "string" /\ toks'[q].size = 0
    BY <2>3, <2>5, KindsStay DEF Kept
  <2>7. toks'[e].parent = q /\ toks'[o].type # "array"
    BY <1>2, <1>4, <2>2 DEF Kept
  <2> QED BY <2>6, <2>7 DEF Link, Waits
<1> QED BY <1>3, <1>4

\* A token that has ended leaves the stack as it was,
LEMMA StackStays ==
  ASSUME TokensOK, StackOK, NEW n \in TokenSet, NEW bumped \in SUBSET Nat, Appended(n, bumped), n.next # 0, stack' = stack,
         stack # <<>> => \A x \in bumped : x >= Innermost
  PROVE  StackOK'
<1>1. /\ Len(toks) \in Nat /\ DOMAIN toks = 1..Len(toks) /\ DOMAIN toks' = 1..Len(toks) + 1
      /\ \A m \in DOMAIN stack : stack[m] \in DOMAIN toks
  BY TokenFacts DEF Appended
<1>2. \A i \in DOMAIN toks : toks'[i].next = toks[i].next /\ Container(i)' = Container(i)
  BY KindsStay DEF Appended
<1>3. ASSUME NEW i \in DOMAIN toks' PROVE toks'[i].next = 0 <=> \E m \in DOMAIN stack : stack[m] = i
  <2>1. CASE i \in DOMAIN toks
    BY <1>2, <2>1 DEF StackOK
  <2>2. CASE i = Len(toks) + 1
    BY <1>1, <2>2 DEF Appended
  <2> QED BY <1>1, <2>1, <2>2
<1>4. ASSUME NEW m \in DOMAIN stack, m + 1 \in DOMAIN stack PROVE Link(m)'
  <2>1. stack # <<>>
    BY <1>4
  <2>2. stack[m + 1] <= Innermost
    BY <1>4, <2>1, TopIsLast
  <2>3. Innermost \in Nat /\ stack[m + 1] \in Nat
    BY <1>1, <1>4, <2>1, TopIsLast
  <2>4. \A x \in bumped : x >= stack[m + 1]
    <3>1. \A x \in bumped : x \in Nat /\ x >= Innermost
      BY <2>1
    <3> QED BY <2>2, <2>3, <3>1
  <2>5. Counting(bumped) /\ stack'[m] = stack[m] /\ stack'[m + 1] = stack[m + 1]
    BY DEF Appended
  <2> QED BY <1>4, <2>4, <2>5, LinkStays
<1>5. \A m \in DOMAIN stack : Container(stack[m])'
  BY <1>1, <1>2 DEF StackOK
<1> QED BY <1>3, <1>4, <1>5 DEF StackOK

\* a container goes on top of it,
LEMMA StackGrows ==
  ASSUME TokensOK, StackOK, NEW n \in TokenSet, Appended(n, {}), n.next = 0, n.type \in {"object", "array"},
         stack' = Append(stack, Len(toks) + 1), stack = <<>> <=> toks = <<>>,
         stack # <<>> => IF toks[Innermost].type = "array" THEN n.parent = Innermost
                         ELSE Waits(n.parent, Innermost)
  PROVE  StackOK' /\ stack' \in Seq(DOMAIN toks') /\ Innermost' = Len(toks) + 1 /\ stack' # <<>>
<1> DEFINE L == Len(toks)  K == Len(stack)
<1>1. /\ L \in Nat /\ DOMAIN toks = 1..L /\ DOMAIN toks' = 1..L + 1
      /\ K \in Nat /\ DOMAIN stack = 1..K /\ \A m \in DOMAIN stack : stack[m] \in DOMAIN toks
      /\ toks'[L + 1] = n
  BY TokenFacts DEF Appended
<1>2. \A i \in DOMAIN toks : toks'[i].next = toks[i].next /\ Container(i)' = Container(i)
  BY KindsStay DEF Appended
<1>3. /\ DOMAIN stack' = 1..K + 1 /\ stack'[K + 1] = L + 1 /\ Len(stack') = K + 1
      /\ \A m \in DOMAIN stack : stack'[m] = stack[m]
  <2>1. stack \in Seq(Nat)
    BY <1>1 DEF TokensOK
  <2> QED BY <1>1, <2>1, AppendProperties
<1>4. stack' \in Seq(DOMAIN toks')
  <2>1. stack \in Seq(1..L + 1)
    <3>1. stack \in Seq(1..L)
      BY <1>1 DEF TokensOK
    <3>2. 1..L \subseteq 1..L + 1
      BY <1>1
    <3> QED BY <3>1, <3>2
  <2> QED BY <1>1, <2>1
<1>5. ASSUME NEW i \in DOMAIN toks' PROVE toks'[i].next = 0 <=> \E m \in DOMAIN stack' : stack'[m] = i
  <2>1. CASE i \in DOMAIN toks
    <3>1. toks'[i].next = 0 <=> \E m \in DOMAIN stack : stack[m] = i
      BY <1>2, <2>1 DEF StackOK
    <3>2. i # L + 1
      BY <1>1, <2>1
    <3> QED BY <1>1, <1>3, <3>1, <3>2
  <2>2. CASE i = L + 1
    BY <1>1, <1>3, <2>2
  <2> QED BY <1>1, <2>1, <2>2
<1>6. ASSUME NEW m \in DOMAIN stack', NEW k \in DOMAIN stack', m < k PROVE stack'[m] < stack'[k]
  <2>1. m \in DOMAIN stack
    BY <1>1, <1>3, <1>6
  <2>2. CASE k \in DOMAIN stack
    BY <1>3, <1>6, <2>1, <2>2 DEF StackOK
  <2>3. CASE k = K + 1
    BY <1>1, <1>3, <2>1, <2>3
  <2> QED BY <1>1, <1>3, <2>2, <2>3
<1>7. ASSUME NEW m \in DOMAIN stack' PROVE Container(stack[m])'
  <2>1. CASE m \in DOMAIN stack
    BY <1>1, <1>2, <1>3, <2>1 DEF StackOK, Container
  <2>2. CASE m = K + 1
    BY <1>1, <1>3, <2>2 DEF Container
  <2> QED BY <1>1, <1>3, <2>1, <2>2
<1>8. ASSUME NEW m \in DOMAIN stack', m + 1 \in DOMAIN stack' PROVE Link(m)'
  <2>1. m \in DOMAIN stack
    BY <1>1, <1>3, <1>8
  <2>2. CASE m + 1 \in DOMAIN stack
    BY <1>3, <2>1, <2>2, LinkStays DEF Appended
  <2>3. CASE m + 1 = K + 1
    <3>1. m = K /\ stack # <<>> /\ stack[m] = Innermost /\ stack'[m] = Innermost /\ stack'[m + 1] = L + 1
      BY <1>1, <1>3, <2>1, <2>3 DEF Innermost
    <3>2. Innermost \in DOMAIN toks /\ Kept(Innermost)
      BY <1>1, <2>1, <3>1, KindsStay DEF Appended
    <3>3. CASE toks[Innermost].type = "array"
      BY <1>1, <3>1, <3>2, <3>3 DEF Link, Kept
    <3>4. CASE toks[Innermost].type # "array"
      <4>1. Waits(n.parent, Innermost)
        BY <3>1, <3>4
      <4>2. PICK q : q = n.parent
        OBVIOUS
      <4>3. q \in DOMAIN toks /\ toks[q].parent = Innermost /\ toks[q].type = "string" /\ toks[q].size = 0
        BY <4>1, <4>2 DEF Waits
      <4>4. q \in DOMAIN toks' /\ toks'[q].parent = Innermost /\ toks'[q].type = "string" /\ toks'[q].size = 0
        BY <4>3, KindsStay DEF Appended, Kept
      <4> QED BY <1>1, <3>1, <3>2, <3>4, <4>2, <4>4 DEF Link, Waits, Kept
    <3> QED BY <3>3, <3>4
  <2> QED BY <1>1, <1>3, <1>8, <2>2, <2>3
<1>9. stack'[1] = 1
  <2>1. CASE stack = <<>>
    <3>1. K = 0 /\ L = 0
      BY <2>1
    <3> QED BY <1>3, <3>1
  <2>2. CASE stack # <<>>
    <3>1. 1 \in DOMAIN stack
      BY <1>1, <2>2, TokenFacts
    <3> QED BY <1>3, <2>2, <3>1 DEF StackOK
  <2> QED BY <2>1, <2>2
<1> QED BY <1>1, <1>3, <1>4, <1>5, <1>6, <1>7, <1>8, <1>9 DEF StackOK, Innermost

\* and what is around it is left when it is closed.
LEMMA StackShrinks ==
  ASSUME TokensOK, StackOK, stack # <<>>, NEW bumped \in SUBSET Nat, Closed(bumped),
         stack' = SubSeq(stack, 1, Len(stack) - 1),
         Len(stack) > 1 => \A x \in bumped : x >= stack[Len(stack) - 1]
  PROVE  StackOK' /\ stack' \in Seq(DOMAIN toks')
<1> DEFINE K == Len(stack)
<1>1. /\ DOMAIN toks \subseteq Nat /\ DOMAIN toks' = DOMAIN toks
      /\ K \in Nat /\ DOMAIN stack = 1..K /\ K >= 1 /\ \A m \in DOMAIN stack : stack[m] \in DOMAIN toks
      /\ Len(doc) \in Nat
  BY TokenFacts DEF Closed
<1>2. \A i \in DOMAIN toks : /\ toks'[i].next = (IF i = Innermost THEN Len(doc) + 2 ELSE toks[i].next)
                             /\ Container(i)' = Container(i)
  BY KindsStay DEF Closed
<1>3. DOMAIN stack' = 1..K - 1 /\ \A m \in 1..K - 1 : stack'[m] = stack[m]
  <2>1. stack \in Seq(Nat)
    BY <1>1 DEF TokensOK
  <2> QED BY <1>1, <2>1
<1>4. stack' \in Seq(DOMAIN toks')
  <2>1. stack \in Seq(DOMAIN toks)
    BY DEF TokensOK
  <2> QED BY <1>1, <2>1
<1>5. ASSUME NEW i \in DOMAIN toks' PROVE toks'[i].next = 0 <=> \E m \in DOMAIN stack' : stack'[m] = i
  <2>1. CASE i = Innermost
    <3>1. toks'[i].next # 0
      BY <1>1, <1>2, <2>1
    <3>2. \A m \in 1..K - 1 : stack[m] # i
      <4>1. \A m \in 1..K - 1 : m \in DOMAIN stack /\ m # K
        <5>1. K \in Nat /\ DOMAIN stack = 1..K
          BY <1>1
        <5> HIDE DEF K
        <5> QED BY ONLY <5>1
      <4>2. \A m \in DOMAIN stack : m # K => stack[m] < Innermost /\ stack[m] \in Nat
        BY <1>1, TopIsLast
      <4>3. Innermost \in Nat
        BY <1>1, TopIsLast
      <4> QED BY ONLY <2>1, <4>1, <4>2, <4>3
    <3> QED BY <1>3, <3>1, <3>2
  <2>2. CASE i # Innermost
    <3>1. toks'[i].next = 0 <=> \E m \in DOMAIN stack : stack[m] = i
      BY <1>1, <1>2, <2>2 DEF StackOK
    <3>2. \A m \in DOMAIN stack : stack[m] = i => m \in 1..K - 1
      BY <1>1, <2>2 DEF Innermost
    <3>3. \A m \in 1..K - 1 : m \in DOMAIN stack
      BY <1>1
    <3> QED BY <1>3, <3>1, <3>2, <3>3
  <2> QED BY <2>1, <2>2
<1>6. \A m \in DOMAIN stack' : m \in DOMAIN stack /\ stack'[m] = stack[m]
  BY <1>1, <1>3
<1>7. ASSUME NEW m \in DOMAIN stack', m + 1 \in DOMAIN stack' PROVE Link(m)'
  <2>1. m \in DOMAIN stack /\ m + 1 \in DOMAIN stack /\ stack'[m] = stack[m] /\ stack'[m + 1] = stack[m + 1]
    BY <1>6, <1>7
  <2>2. K > 1 /\ K - 1 \in DOMAIN stack /\ (m + 1 = K - 1 \/ m + 1 < K - 1)
    BY <1>1, <1>3, <1>7
  <2>3. stack[m + 1] <= stack[K - 1] /\ stack[m + 1] \in Nat /\ stack[K - 1] \in Nat
    <3>1. stack[m + 1] \in Nat /\ stack[K - 1] \in Nat
      BY <1>1, <2>1, <2>2
    <3>2. m + 1 < K - 1 => stack[m + 1] < stack[K - 1]
      BY <2>1, <2>2 DEF StackOK
    <3> QED BY <2>2, <3>1, <3>2
  <2>4. \A x \in bumped : x >= stack[m + 1]
    <3>1. \A x \in bumped : x \in Nat /\ x >= stack[K - 1]
      BY <2>2
    <3> QED BY <2>3, <3>1
  <2>5. Counting(bumped)
    BY DEF Closed
  <2> QED BY <2>1, <2>4, <2>5, LinkStays
<1>8. \A m \in DOMAIN stack' : Container(stack[m])'
  BY <1>1, <1>2, <1>6 DEF StackOK, Container
<1>9. \A m, n \in DOMAIN stack' : m < n => stack'[m] < stack'[n]
  BY <1>6 DEF StackOK
<1>10. stack' # <<>> => stack'[1] = 1
  <2>1. stack' # <<>> => 1 \in DOMAIN stack'
    BY <1>4
  <2> QED BY <1>6, <2>1 DEF StackOK
<1> QED BY <1>4, <1>5, <1>7, <1>8, <1>9, <1>10 DEF StackOK

\* A new token has its parent,
LEMMA ParentsAppended ==
  ASSUME TokensOK, ParentsOK, NEW n \in TokenSet, NEW bumped, Appended(n, bumped),
         n.parent \in 0..Len(toks), n.parent = 0 <=> toks = <<>>, n.first = 1 <=> toks = <<>>,
         n.parent # 0 => /\ toks[n.parent].type = "object" => n.type = "string"
                         /\ Container(n.parent) \/ (IsKey(n.parent) /\ n.parent = Len(toks))
  PROVE  ParentsOK' /\ \A i \in DOMAIN toks' : toks'[i].parent < i
<1>0. PICK L : L = Len(toks)
  OBVIOUS
<1>1. L \in Nat /\ DOMAIN toks = 1..L /\ DOMAIN toks' = 1..L + 1 /\ toks'[L + 1] = n /\ (toks = <<>> <=> L = 0)
  BY <1>0, TokenFacts DEF Appended
<1>2. \A i \in DOMAIN toks : Kept(i) /\ (IsKey(i)' <=> IsKey(i)) /\ (Container(i)' <=> Container(i))
  BY KindsStay DEF Appended
<1>3. ASSUME NEW i \in DOMAIN toks
      PROVE  /\ toks'[i].parent = 0 <=> i = 1
             /\ toks'[i].first = 1 <=> i = 1
             /\ IsKey(i)' => toks'[i].type = "string"
             /\ i > 1 => \/ Container(toks[i].parent)'
                         \/ IsKey(toks[i].parent)' /\ toks'[i].parent = i - 1
             /\ toks'[i].parent < i
  <2>1. PICK q : q = toks[i].parent
    OBVIOUS
  <2>2. toks'[i].parent = q /\ q < i /\ q \in Nat
    BY <1>2, <2>1, TokenFacts, TokenFields DEF Kept, TokensOK
  <2>3. i > 1 => q \in DOMAIN toks
    <3>1. i > 1 => q # 0
      BY <1>1, <2>1 DEF ParentsOK
    <3> QED BY <1>1, <2>2, <3>1
  <2>4. i > 1 => Container(q) \/ (IsKey(q) /\ q = i - 1)
    BY <2>1 DEF ParentsOK
  <2>5. i > 1 => Container(q)' \/ (IsKey(q)' /\ q = i - 1)
    BY <1>2, <2>3, <2>4
  <2>6. i > 1 => \/ Container(toks[i].parent)'
                 \/ IsKey(toks[i].parent)' /\ toks'[i].parent = i - 1
    BY <2>2, <2>5 DEF Container, IsKey
  <2> QED BY <1>2, <2>2, <2>6 DEF ParentsOK, Kept
<1>4. PICK q : q = n.parent
  OBVIOUS
<1>5. q # 0 => q \in DOMAIN toks /\ toks'[q].type = toks[q].type
  BY <1>1, <1>2, <1>4 DEF Kept
<1>6. IsKey(L + 1)' => n.type = "string"
  BY <1>1, <1>4, <1>5 DEF IsKey
<1>7. q # 0 => Container(q)' \/ (IsKey(q)' /\ q = L)
  BY <1>0, <1>2, <1>4, <1>5
<1>8. /\ n.parent = 0 <=> L + 1 = 1
      /\ n.first = 1 <=> L + 1 = 1
      /\ L + 1 > 1 => \/ Container(toks[L + 1].parent)'
                      \/ IsKey(toks[L + 1].parent)' /\ toks'[L + 1].parent = (L + 1) - 1
      /\ n.parent < L + 1
  BY <1>1, <1>4, <1>7 DEF Container, IsKey
<1> QED BY <1>1, <1>3, <1>6, <1>8 DEF ParentsOK

\* and keeps it.
LEMMA ParentsStay ==
  ASSUME TokensOK, ParentsOK, NEW bumped, Counting(bumped), DOMAIN toks' = DOMAIN toks
  PROVE  ParentsOK' /\ \A i \in DOMAIN toks' : toks'[i].parent < i
<1>1. ASSUME NEW i \in DOMAIN toks
      PROVE  /\ toks'[i].parent = 0 <=> i = 1
             /\ toks'[i].first = 1 <=> i = 1
             /\ IsKey(i)' => toks'[i].type = "string"
             /\ i > 1 => \/ Container(toks[i].parent)'
                         \/ IsKey(toks[i].parent)' /\ toks'[i].parent = i - 1
             /\ toks'[i].parent < i
  <2>1. PICK q : q = toks[i].parent
    OBVIOUS
  <2>2. Kept(i) /\ IsKey(i)' = IsKey(i)
    BY KindsStay
  <2>3. q < i /\ q \in Nat /\ i \in Nat /\ DOMAIN toks = 1..Len(toks) /\ Len(toks) \in Nat
    <3>1. toks[i] \in TokenSet /\ DOMAIN toks = 1..Len(toks) /\ Len(toks) \in Nat
      BY TokenFacts
    <3>2. toks[i].parent < i
      BY DEF TokensOK
    <3> QED BY <2>1, <3>1, <3>2, TokenFields
  <2>4. i > 1 => q \in DOMAIN toks
    <3>1. i > 1 => q # 0
      BY <2>1, <2>3 DEF ParentsOK
    <3> QED BY <2>3, <3>1
  <2>5. i > 1 => Container(q)' \/ (IsKey(q)' /\ q = i - 1)
    BY <2>1, <2>4, KindsStay DEF ParentsOK
  <2> QED BY <2>1, <2>2, <2>3, <2>5 DEF ParentsOK, Kept, Container, IsKey
<1> QED BY <1>1 DEF ParentsOK

\* A token that is not complete counts nowhere.
LEMMA SizesStay ==
  ASSUME TokensOK, SizesAreChildren, NEW n \in TokenSet, Appended(n, {}), n.size = 0, n.parent <= Len(toks),
         NEW l, l = Len(toks) + 1, ~Complete(l)'
  PROVE  SizesAreChildren'
<1>1. /\ Len(toks) \in Nat /\ DOMAIN toks = 1..Len(toks) /\ DOMAIN toks' = DOMAIN toks \cup {l}
      /\ toks'[l] = n /\ l \in Nat
  BY TokenFacts DEF Appended
<1>2. \A j \in DOMAIN toks : /\ Complete(j)' <=> Complete(j)
                             /\ toks'[j].parent = toks[j].parent /\ toks'[j].size = toks[j].size
  BY KindsStay DEF Appended, Complete, Kept
<1>3. \A i : Children(i)' = Children(i)
  BY <1>1, <1>2 DEF Children
<1>4. Children(l) = {}
  <2>1. \A j \in DOMAIN toks : toks[j].parent < j /\ toks[j].parent \in Nat
    BY TokenFacts, TokenFields DEF TokensOK
  <2>2. \A j \in DOMAIN toks : toks[j].parent # l
    BY <1>1, <2>1
  <2> QED BY <2>2 DEF Children
<1>5. Cardinality({}) = 0
  BY FS_EmptySet
<1>6. ASSUME NEW i \in DOMAIN toks' PROVE toks'[i].size = Cardinality(Children(i)')
  <2>1. CASE i = l
    BY <1>1, <1>3, <1>4, <1>5, <2>1
  <2>2. CASE i \in DOMAIN toks
    BY <1>2, <1>3, <2>2 DEF SizesAreChildren, Children
  <2> QED BY <1>1, <2>1, <2>2
<1> QED BY <1>6 DEF SizesAreChildren, Children

-----------------------------------------------------------------------------
(* The steps.                                                              *)
\* The document is empty only before the first token.
LEMMA DocBegins ==
  ASSUME TokensInv, rc = "run"
  PROVE  Len(doc) = 0 <=> toks = <<>>
<1>1. TokensOK /\ ExpectOK /\ SpansNest
  BY DEF TokensInv
<1>2. toks = <<>> => doc = <<>>
  BY <1>1 DEF ExpectOK
<1>3. ASSUME Len(doc) = 0 PROVE toks = <<>>
  <2>1. \A i \in DOMAIN toks : toks[i].first \in 1..0
    BY <1>1, <1>3 DEF SpansNest
  <2>2. 1..0 = {}
    OBVIOUS
  <2>3. DOMAIN toks = {}
    BY <2>1, <2>2
  <2> QED BY <1>1, <2>3, TokenFacts
<1> QED BY <1>2, <1>3

\* The types of a step that appends.
LEMMA TypesAppended ==
  ASSUME TokensOK, NEW n \in TokenSet, NEW bumped, Appended(n, bumped), Room, JsonAssumption,
         NEW c \in Lexemes, doc' = Append(doc, c), \A i \in DOMAIN toks' : toks'[i].parent < i,
         stack' \in Seq(DOMAIN toks'), Len(stack') <= MaxDepth + 1,
         expect' \in {"value", "first", "key", "colon", "more", "end"}, rc' = "run"
  PROVE  TokensOK'
<1>1. doc' \in Seq(Lexemes)
  BY DEF TokensOK
<1>2. Len(toks') <= MaxToks
  <2>1. Len(toks) < MaxToks /\ MaxToks \in Nat /\ Len(toks) \in Nat /\ Len(toks') = Len(toks) + 1
    BY TokenFacts DEF Appended, Room, JsonAssumption
  <2> QED BY ONLY <2>1
<1>3. toks' \in Seq(TokenSet)
  BY DEF Appended
<1> QED BY <1>1, <1>2, <1>3 DEF TokensOK, TokenSet

\* The lexeme a step reads.
LEMMA ReadFacts ==
  ASSUME TokensOK, NEW c, Read(c), c \in Lexemes
  PROVE  /\ doc' = Append(doc, c) /\ rc = "run" /\ doc' \in Seq(Lexemes)
         /\ Len(doc) \in Nat /\ Len(doc') = Len(doc) + 1
<1>1. doc \in Seq(Lexemes) /\ doc' = Append(doc, c) /\ rc = "run"
  BY DEF TokensOK, Read
<1> QED BY <1>1, AppendProperties

LEMMA StacksType ==
  ASSUME TokensOK, NEW l, l = Len(toks) + 1
  PROVE  /\ stack \in Seq(1..l) /\ Len(stack) \in Nat /\ Len(stack) <= MaxDepth + 1
         /\ Len(Append(stack, l)) = Len(stack) + 1
<1>1. stack \in Seq(1..Len(toks)) /\ Len(stack) <= MaxDepth + 1 /\ Len(toks) \in Nat
  BY TokenFacts DEF TokensOK
<1>2. 1..Len(toks) \subseteq 1..l
  BY <1>1
<1>3. stack \in Seq(1..l)
  BY <1>1, <1>2
<1> QED BY <1>1, <1>3, AppendProperties

LEMMA KeyKeeps ==
  ASSUME JsonAssumption, TokensInv, NEW c \in Strings, Key(c), Room
  PROVE  TokensInv'
<1> DEFINE n == [type |-> "string", first |-> Len(doc) + 1, next |-> Len(doc) + 2, size |-> 0,
                 parent |-> Innermost]
<1>0. TokensOK /\ StackOK /\ ExpectOK /\ ParentsOK /\ SizesAreChildren /\ SpansNest
  BY DEF TokensInv
<1>1. /\ c \in Lexemes /\ doc' = Append(doc, c) /\ rc = "run" /\ rc' = "run" /\ stack' = stack /\ expect' = "colon"
      /\ Len(doc) \in Nat /\ Len(doc') = Len(doc) + 1
  <2>1. Read(c) /\ rc' = rc /\ stack' = stack /\ expect' = "colon"
    BY DEF Key
  <2>2. c \in Lexemes
    BY DEF Lexemes
  <2> QED BY <1>0, <2>1, <2>2, ReadFacts
<1>2. InObject /\ stack # <<>> /\ toks[Innermost].type = "object"
  BY <1>0 DEF Key, WantsKey, ExpectOK, InObject
<1>3. /\ Len(toks) \in Nat /\ DOMAIN toks = 1..Len(toks) /\ Innermost \in DOMAIN toks
      /\ Innermost' = Innermost /\ Innermost \in Nat
  BY <1>0, <1>1, <1>2, TokenFacts DEF Innermost
<1>4. n \in TokenSet
  BY <1>1, <1>3 DEF TokenSet
<1>5. toks' = Append(toks, n)
  <2>1. toks' = Append(toks, Token("string", Len(doc') + 1, Innermost))
    BY DEF Key
  <2>2. Len(doc') + 1 = Len(doc) + 2
    BY <1>1
  <2> QED BY <1>1, <2>1, <2>2 DEF Token
<1>6. n.parent = Innermost /\ n.first = Len(doc) + 1 /\ n.next = Len(doc) + 2 /\ n.size = 0 /\ n.type = "string"
  OBVIOUS
<1>7. Appended(n, {})
  BY <1>0, <1>4, <1>5, AppendedPlain
<1> HIDE DEF n
<1>8. /\ toks[Innermost].next = 0 /\ ~IsKey(Innermost) /\ Container(Innermost)
      /\ \A i \in DOMAIN toks : i > Innermost => toks[i].next # 0
  BY <1>0, <1>2, <1>3, TopIsLast, ContainersAreNoKeys
<1>9. HasPlace(Innermost)
  BY <1>3, <1>8 DEF HasPlace
<1>10. SpansNest'
  BY <1>0, <1>1, <1>4, <1>6, <1>7, <1>9, SpansAppended
<1>11. n.next # 0
  BY <1>1, <1>6
<1>12. StackOK'
  BY <1>0, <1>1, <1>4, <1>7, <1>11, StackStays
<1>13. toks # <<>> /\ n.first # 1
  <2>1. toks # <<>>
    BY <1>3
  <2> QED BY <1>1, <1>6, <2>1, DocBegins
<1>14. ParentsOK' /\ \A i \in DOMAIN toks' : toks'[i].parent < i
  <2>1. n.parent \in 0..Len(toks) /\ n.parent # 0
    BY <1>3, <1>6
  <2> QED BY <1>0, <1>4, <1>6, <1>7, <1>8, <1>13, <2>1, ParentsAppended
<1>15. PICK l : l = Len(toks) + 1
  OBVIOUS
<1>16. toks'[l] = n /\ Len(toks') = l /\ DOMAIN toks' = 1..l
  BY <1>3, <1>7, <1>15 DEF Appended
<1>17. toks'[Innermost].type = "object" /\ Innermost # 0
  BY <1>0, <1>2, <1>3, <1>7, KindsStay DEF Appended, Kept
<1>18. ~Complete(l)'
  <2>1. IsKey(l)'
    BY <1>6, <1>16, <1>17 DEF IsKey
  <2> QED BY <1>6, <1>16, <2>1 DEF Complete
<1>19. SizesAreChildren'
  BY <1>0, <1>3, <1>4, <1>6, <1>7, <1>15, <1>18, SizesStay
<1>20. stack' \in Seq(DOMAIN toks') /\ Len(stack') <= MaxDepth + 1
  BY <1>0, <1>1, <1>15, <1>16, StacksType
<1>21. TokensOK'
  BY <1>0, <1>1, <1>4, <1>7, <1>14, <1>20, TypesAppended
<1>22. ExpectOK'
  <2>1. InObject'
    BY <1>1, <1>2, <1>3, <1>17 DEF InObject
  <2>2. l \in 1..l
    BY <1>3, <1>15
  <2>3. Waits(Len(toks), Innermost)'
    BY <1>3, <1>6, <1>16, <2>2 DEF Waits
  <2>4. toks' # <<>>
    BY <1>16, <2>2
  <2> QED BY <1>1, <1>2, <2>1, <2>3, <2>4 DEF ExpectOK
<1> QED BY <1>10, <1>12, <1>14, <1>19, <1>21, <1>22 DEF TokensInv

LEMMA OpenKeeps ==
  ASSUME JsonAssumption, TokensInv, NEW c \in Lexemes, Open(c), ~TooDeep, Room
  PROVE  TokensInv'
<1>0a. PICK kind \in {"object", "array"} : toks' = Append(toks, Token(kind, 0, Parent))
  BY Zenon DEF Open
<1> DEFINE n == [type |-> kind, first |-> Len(doc) + 1, next |-> 0, size |-> 0, parent |-> Parent]
<1>0. TokensOK /\ StackOK /\ ExpectOK /\ ParentsOK /\ SizesAreChildren /\ SpansNest
  BY DEF TokensInv
<1>1. /\ c \in Lexemes /\ doc' = Append(doc, c) /\ rc = "run" /\ rc' = "run" /\ expect' = "first"
      /\ Len(doc) \in Nat /\ Len(doc') = Len(doc) + 1 /\ stack' = Append(stack, Len(toks'))
  <2>1. Read(c) /\ rc' = rc /\ stack' = Append(stack, Len(toks')) /\ expect' = "first"
    BY DEF Open
  <2> QED BY <1>0, <2>1, ReadFacts
<1>2. /\ Len(toks) \in Nat /\ DOMAIN toks = 1..Len(toks) /\ Len(stack) \in Nat
  BY <1>0, TokenFacts
<1>3. /\ HasPlace(Parent) /\ (Parent = 0 <=> toks = <<>>) /\ (Parent = 0 <=> stack = <<>>)
      /\ Parent # 0 => \/ Parent = Innermost /\ toks[Innermost].type = "array"
                      \/ /\ Parent = Len(toks) /\ Innermost < Len(toks)
                         /\ Waits(Len(toks), Innermost) /\ IsKey(Len(toks))
                         /\ toks[Innermost].type = "object"
  BY ValueFits DEF Open
<1>4. Parent \in 0..Len(toks)
  BY <1>3 DEF HasPlace
<1>5. n \in TokenSet
  <2>1. Parent \in Nat /\ Len(doc) + 1 \in Nat
    BY <1>1, <1>2, <1>4
  <2> QED BY <2>1 DEF TokenSet
<1>6. toks' = Append(toks, n)
  BY <1>0a, <1>1 DEF Token
<1>7. /\ n.parent = Parent /\ n.first = Len(doc) + 1 /\ n.next = 0 /\ n.size = 0
      /\ n.type \in {"object", "array"}
  OBVIOUS
<1>8. Appended(n, {})
  BY <1>0, <1>5, <1>6, AppendedPlain
<1> HIDE DEF n
<1>9. PICK l : l = Len(toks) + 1
  OBVIOUS
<1>10. toks'[l] = n /\ Len(toks') = l /\ DOMAIN toks' = 1..l /\ l \in 1..l
  <2>1. toks'[l] = n /\ Len(toks') = l /\ toks' \in Seq(TokenSet)
    BY <1>8, <1>9 DEF Appended
  <2>2. l \in 1..l
    BY ONLY <1>2, <1>9
  <2> QED BY ONLY <2>1, <2>2
<1>11. SpansNest'
  BY <1>0, <1>1, <1>3, <1>5, <1>7, <1>8, SpansAppended
<1>12. stack # <<>> => IF toks[Innermost].type = "array" THEN n.parent = Innermost
                       ELSE Waits(n.parent, Innermost)
  BY <1>3, <1>7
<1>13. StackOK' /\ stack' \in Seq(DOMAIN toks') /\ Innermost' = l /\ stack' # <<>>
  BY <1>0, <1>1, <1>3, <1>5, <1>7, <1>8, <1>9, <1>10, <1>12, StackGrows
<1>14. n.first = 1 <=> toks = <<>>
  <2>1. Len(doc) = 0 <=> toks = <<>>
    BY <1>1, DocBegins
  <2> QED BY ONLY <1>1, <1>7, <2>1
<1>15. Parent # 0 => /\ toks[Parent].type # "object"
                     /\ Container(Parent) \/ (IsKey(Parent) /\ Parent = Len(toks))
  BY <1>3 DEF Container, Waits
<1>16. ParentsOK' /\ \A i \in DOMAIN toks' : toks'[i].parent < i
  BY <1>0, <1>3, <1>4, <1>5, <1>7, <1>8, <1>14, <1>15, ParentsAppended
<1>17. ~Complete(l)'
  <2>1. ~IsKey(l)'
    BY <1>0, <1>7, <1>10, <1>16 DEF ParentsOK
  <2> QED BY <1>7, <1>10, <2>1 DEF Complete
<1>18. SizesAreChildren'
  <2>1. n.parent <= Len(toks)
    BY ONLY <1>2, <1>4, <1>7
  <2> QED BY <1>0, <1>5, <1>7, <1>8, <1>9, <1>17, <2>1, SizesStay
<1>19. Len(stack') <= MaxDepth + 1
  <2>1. Len(stack') = Len(stack) + 1
    BY <1>0, <1>1, <1>9, <1>10, StacksType
  <2>2. MaxDepth \in Nat /\ ~(Len(stack) > MaxDepth)
    BY DEF TooDeep, JsonAssumption
  <2> QED BY ONLY <1>2, <2>1, <2>2
<1>20. TokensOK'
  BY <1>0, <1>1, <1>5, <1>8, <1>13, <1>16, <1>19, TypesAppended
<1>21. ExpectOK'
  <2>1. ~Pending'
    BY <1>1 DEF Pending
  <2>2. toks' # <<>>
    BY ONLY <1>10
  <2> QED BY <1>1, <1>13, <2>1, <2>2 DEF ExpectOK
<1> QED BY <1>11, <1>13, <1>16, <1>18, <1>20, <1>21 DEF TokensInv

LEMMA ScalarKeeps ==
  ASSUME JsonAssumption, TokensInv, NEW c \in Strings \cup Primitives, Scalar(c), ~TooDeep, Room
  PROVE  TokensInv'
<1> DEFINE n == [type |-> IF c \in Strings THEN "string" ELSE "primitive", first |-> Len(doc) + 1,
                 next |-> Len(doc) + 2, size |-> 0, parent |-> Parent]
           bumped == Bumped(stack, Parent)
<1>0. TokensOK /\ StackOK /\ ExpectOK /\ ParentsOK /\ SizesAreChildren /\ SpansNest
  BY DEF TokensInv
<1>1. /\ c \in Lexemes /\ doc' = Append(doc, c) /\ rc = "run" /\ rc' = "run" /\ expect' = AfterValue(stack)
      /\ Len(doc) \in Nat /\ Len(doc') = Len(doc) + 1 /\ stack' = stack
  <2>1. Read(c) /\ rc' = rc /\ stack' = stack /\ expect' = AfterValue(stack)
    BY DEF Scalar
  <2>2. c \in Lexemes
    BY DEF Lexemes
  <2> QED BY <1>0, <2>1, <2>2, ReadFacts
<1>2. /\ Len(toks) \in Nat /\ DOMAIN toks = 1..Len(toks) /\ Len(stack) \in Nat
      /\ stack # <<>> => Innermost \in DOMAIN toks
  BY <1>0, TokenFacts
<1>3. /\ HasPlace(Parent) /\ (Parent = 0 <=> toks = <<>>) /\ (Parent = 0 <=> stack = <<>>)
      /\ Parent # 0 => \/ Parent = Innermost /\ toks[Innermost].type = "array"
                      \/ /\ Parent = Len(toks) /\ Innermost < Len(toks)
                         /\ Waits(Len(toks), Innermost) /\ IsKey(Len(toks))
                         /\ toks[Innermost].type = "object"
  BY ValueFits DEF Scalar
<1>4. Parent \in 0..Len(toks)
  BY <1>3 DEF HasPlace
<1>5. n \in TokenSet
  BY <1>1, <1>2, <1>4 DEF TokenSet
<1>6. toks' = Counted(Append(toks, n), Len(toks) + 1, stack)
  <2>1. toks' = Counted(Append(toks, Token(IF c \in Strings THEN "string" ELSE "primitive", Len(doc') + 1, Parent)),
                        Len(toks) + 1, stack)
    BY DEF Scalar
  <2>2. Len(doc') + 1 = Len(doc) + 2
    BY <1>1
  <2> QED BY <1>1, <2>1, <2>2 DEF Token
<1>7. /\ n.parent = Parent /\ n.first = Len(doc) + 1 /\ n.next = Len(doc) + 2 /\ n.size = 0
      /\ n.type \in {"string", "primitive"}
  OBVIOUS
<1> HIDE DEF n
<1>8. /\ bumped = IF stack = <<>> THEN {} ELSE {Innermost, Parent}
      /\ bumped \in SUBSET Nat /\ Len(toks) + 1 \notin bumped
      /\ stack # <<>> => \A x \in bumped : x >= Innermost
  <2>1. bumped = IF stack = <<>> THEN {} ELSE {Innermost, Parent}
    BY DEF Bumped, Innermost
  <2>2. stack # <<>> => Innermost \in 1..Len(toks) /\ Parent >= Innermost
    BY <1>2, <1>3
  <2> QED BY <1>2, <1>4, <2>1, <2>2
<1>9. Appended(n, bumped)
  BY <1>0, <1>5, <1>6, <1>7, <1>8, AppendedCounted
<1> HIDE DEF bumped
<1>10. PICK l : l = Len(toks) + 1
  OBVIOUS
<1>11. toks'[l] = n /\ Len(toks') = l /\ DOMAIN toks' = 1..l /\ l \in 1..l
  BY <1>2, <1>9, <1>10 DEF Appended
<1>12. SpansNest'
  BY <1>0, <1>1, <1>3, <1>5, <1>7, <1>9, SpansAppended
<1>13. n.next # 0
  BY <1>1, <1>7
<1>14. StackOK'
  BY <1>0, <1>1, <1>5, <1>8, <1>9, <1>13, StackStays
<1>15. n.first = 1 <=> toks = <<>>
  <2>1. Len(doc) = 0 <=> toks = <<>>
    BY <1>1, DocBegins
  <2> QED BY <1>1, <1>7, <2>1
<1>16. Parent # 0 => /\ toks[Parent].type # "object"
                     /\ Container(Parent) \/ (IsKey(Parent) /\ Parent = Len(toks))
  BY <1>3 DEF Container, Waits
<1>17. ParentsOK' /\ \A i \in DOMAIN toks' : toks'[i].parent < i
  BY <1>0, <1>3, <1>4, <1>5, <1>7, <1>9, <1>15, <1>16, ParentsAppended
<1>18. Completing(Parent, bumped)
  BY <1>2, <1>3, <1>8 DEF Completing, Waits
<1>19. SizesAreChildren'
  <2>1. Counting(bumped) /\ \A i \in DOMAIN toks : toks'[i].next = toks[i].next
    BY <1>9 DEF Appended
  <2>2. DOMAIN toks' = DOMAIN toks \cup {l}
    BY <1>2, <1>10, <1>11
  <2>3. Parent \in Nat /\ Parent = toks'[l].parent /\ Parent < l /\ toks'[l].next # 0 /\ toks'[l].size = 0
    BY <1>2, <1>4, <1>7, <1>10, <1>11, <1>13
  <2> QED BY <1>0, <1>10, <1>18, <2>1, <2>2, <2>3, SizesCount
<1>20. stack' \in Seq(DOMAIN toks') /\ Len(stack') <= MaxDepth + 1
  BY <1>0, <1>1, <1>10, <1>11, StacksType
<1>21. TokensOK'
  <2>1. expect' \in {"more", "end"}
    BY <1>1 DEF AfterValue
  <2> QED BY <1>0, <1>1, <1>5, <1>9, <1>17, <1>20, <2>1, TypesAppended
<1>22. ExpectOK'
  <2>1. expect' = IF stack = <<>> THEN "end" ELSE "more"
    BY <1>1 DEF AfterValue
  <2>2. toks' # <<>>
    BY <1>11
  <2>3. stack = <<>> => toks'[1].next = Len(doc') + 1
    <3>1. stack = <<>> => l = 1
      BY <1>2, <1>3, <1>10
    <3> QED BY <1>1, <1>7, <1>11, <3>1
  <2>4. ~Pending'
    BY <2>1 DEF Pending
  <2> QED BY <1>1, <2>1, <2>2, <2>3, <2>4 DEF ExpectOK
<1> QED BY <1>12, <1>14, <1>17, <1>19, <1>21, <1>22 DEF TokensInv

LEMMA CloseKeeps ==
  ASSUME JsonAssumption, TokensInv, NEW c \in Lexemes, Close(c)
  PROVE  TokensInv'
<1>0. TokensOK /\ StackOK /\ ExpectOK /\ ParentsOK /\ SizesAreChildren /\ SpansNest
  BY DEF TokensInv
<1>1. /\ Read(c) /\ rc' = rc /\ stack # <<>> /\ stack' = SubSeq(stack, 1, Len(stack) - 1)
      /\ toks' = Counted([toks EXCEPT ![Innermost].next = Len(doc') + 1], Innermost, stack')
      /\ expect' = AfterValue(stack')
  BY Zenon DEF Close
<1> DEFINE K == Len(stack)
<1>2. /\ doc' = Append(doc, c) /\ rc = "run" /\ doc' \in Seq(Lexemes)
      /\ Len(doc) \in Nat /\ Len(doc') = Len(doc) + 1
  BY <1>0, <1>1, ReadFacts
<1>3. /\ Len(toks) \in Nat /\ DOMAIN toks = 1..Len(toks)
      /\ K \in Nat /\ DOMAIN stack = 1..K /\ \A m \in DOMAIN stack : stack[m] \in DOMAIN toks
      /\ K # 0 /\ Innermost = stack[K]
  BY <1>0, <1>1, TokenFacts DEF Innermost
<1>4. PICK e, p : e = Innermost /\ p = toks[e].parent
  OBVIOUS
<1>5. e \in DOMAIN toks /\ toks[e].next = 0 /\ Container(e) /\ p \in Nat /\ p < e
  BY <1>0, <1>1, <1>4, TopIsLast, TokenFacts, TokenFields DEF TokensOK
<1>6. PICK bumped : bumped = Bumped(stack', p)
  OBVIOUS
<1>7. Closed(bumped)
  <2>1. Len(doc') + 1 = Len(doc) + 2
    BY <1>2
  <2>2. toks' = Counted([toks EXCEPT ![Innermost].next = Len(doc) + 2], Innermost, stack')
    BY <1>1, <2>1
  <2> QED BY <1>0, <1>1, <1>4, <1>6, <2>2, ClosedCounted
<1>8. /\ K = 1 => stack' = <<>>
      /\ K > 1 => stack' # <<>> /\ stack'[Len(stack')] = stack[K - 1] /\ K - 1 \in DOMAIN stack /\ K \in DOMAIN stack
  <2>1. stack \in Seq(Nat)
    BY <1>0, <1>3 DEF TokensOK
  <2> QED BY <1>1, <1>3, <2>1
<1>9. K = 1 => e = 1 /\ p = 0 /\ bumped = {}
  BY <1>0, <1>1, <1>3, <1>4, <1>5, <1>6, <1>8 DEF StackOK, ParentsOK, Bumped
<1>10. ASSUME K > 1
       PROVE  /\ bumped = {stack[K - 1], p} /\ stack[K - 1] \in DOMAIN toks /\ p \in DOMAIN toks
              /\ \/ p = stack[K - 1] /\ toks[p].type = "array"
                 \/ Waits(p, stack[K - 1]) /\ toks[stack[K - 1]].type = "object" /\ p > stack[K - 1]
  <2>1. PICK o : o = stack[K - 1]
    OBVIOUS
  <2>2. bumped = {o, p}
    BY <1>6, <1>8, <1>10, <2>1 DEF Bumped
  <2>3. o \in DOMAIN toks /\ Container(o) /\ Link(K - 1) /\ (K - 1) + 1 = K
    <3>1. (K - 1) + 1 = K
      BY <1>3
    <3>2. K - 1 \in DOMAIN stack /\ K \in DOMAIN stack
      BY <1>8, <1>10
    <3>3. Link(K - 1)
      BY <1>0, <3>1, <3>2 DEF StackOK
    <3> QED BY <1>0, <1>3, <2>1, <3>1, <3>2, <3>3 DEF StackOK
  <2>4. CASE toks[o].type = "array"
    BY <1>3, <1>4, <2>1, <2>2, <2>3, <2>4 DEF Link
  <2>5. CASE toks[o].type # "array"
    <3>1. Waits(p, o) /\ toks[o].type = "object"
      BY <1>3, <1>4, <2>1, <2>3, <2>5 DEF Link, Container
    <3>2. p \in DOMAIN toks /\ toks[p].parent = o
      BY <3>1 DEF Waits
    <3>3. p > o
      BY <1>0, <1>3, <2>3, <3>2 DEF TokensOK
    <3> QED BY <2>1, <2>2, <2>3, <3>1, <3>2, <3>3
  <2> QED BY <2>4, <2>5
<1>11. K = 1 \/ K > 1
  BY <1>3
<1>12. bumped \in SUBSET Nat /\ (K > 1 => \A x \in bumped : x >= stack[K - 1])
  <2>1. CASE K = 1
    BY <1>9, <2>1
  <2>2. CASE K > 1
    <3>1. PICK o : o = stack[K - 1]
      OBVIOUS
    <3>2. bumped = {o, p} /\ o \in Nat /\ p \in Nat /\ p >= o
      BY <1>3, <1>10, <2>2, <3>1
    <3> QED BY <3>1, <3>2
  <2> QED BY <1>11, <2>1, <2>2
<1>13. Completing(p, bumped)
  <2>1. CASE K = 1
    BY <1>9, <2>1 DEF Completing
  <2>2. CASE K > 1
    BY <1>10, <2>2 DEF Completing
  <2> QED BY <1>11, <2>1, <2>2
<1>14. DOMAIN toks' = DOMAIN toks /\ Counting(bumped)
  BY <1>3, <1>7 DEF Closed
<1>15. toks'[e].next = Len(doc) + 2 /\ toks'[e].parent = p
  BY <1>4, <1>5, <1>7 DEF Closed, Counting, Kept
<1>16. SizesAreChildren'
  <2>1. \A i \in DOMAIN toks : i # e => toks'[i].next = toks[i].next
    BY <1>4, <1>7 DEF Closed
  <2>2. toks'[e].next # 0 /\ DOMAIN toks' = DOMAIN toks \cup {e}
    <3>1. Len(doc) + 2 # 0
      BY <1>2
    <3> QED BY <1>5, <1>14, <1>15, <3>1
  <2> QED BY <1>0, <1>5, <1>13, <1>14, <1>15, <2>1, <2>2, SizesCount
<1>17. StackOK' /\ stack' \in Seq(DOMAIN toks')
  BY <1>0, <1>1, <1>7, <1>12, StackShrinks
<1>18. ParentsOK' /\ \A i \in DOMAIN toks' : toks'[i].parent < i
  BY <1>0, <1>14, ParentsStay
<1>19. SpansNest'
  BY <1>0, <1>1, <1>2, <1>7, SpansClosed
<1>20. TokensOK'
  <2>1. expect' \in {"more", "end"} /\ rc' = "run"
    BY <1>1, <1>2 DEF AfterValue
  <2>2. Len(stack') <= MaxDepth + 1
    <3>1. Len(stack') = K - 1
      <4>1. stack \in Seq(Nat)
        BY <1>0, <1>3 DEF TokensOK
      <4> QED BY <1>1, <1>3, <4>1
    <3>2. K <= MaxDepth + 1 /\ MaxDepth \in Nat
      BY <1>0 DEF TokensOK, JsonAssumption
    <3> QED BY <1>3, <3>1, <3>2
  <2>3. toks' \in Seq(TokenSet) /\ Len(toks') <= MaxToks
    BY <1>0, <1>7 DEF Closed, TokensOK
  <2> QED BY <1>2, <1>17, <1>18, <2>1, <2>2, <2>3 DEF TokensOK, TokenSet
<1>21. ExpectOK'
  <2>1. expect' = IF stack' = <<>> THEN "end" ELSE "more"
    BY <1>1 DEF AfterValue
  <2>2. ~Pending'
    BY <2>1 DEF Pending
  <2>3. toks' # <<>>
    BY <1>5, <1>14
  <2>4. stack' = <<>> => toks'[1].next = Len(doc') + 1
    BY <1>2, <1>8, <1>9, <1>11, <1>15
  <2> QED BY <2>1, <2>2, <2>3, <2>4 DEF ExpectOK
<1> QED BY <1>16, <1>17, <1>18, <1>19, <1>20, <1>21 DEF TokensInv

\* Without a new token nothing but the text and what is expected changes.
LEMMA TokensStay ==
  ASSUME TokensInv, NEW c \in Lexemes, doc' = Append(doc, c), toks' = toks, stack' = stack,
         expect' \in {"value", "first", "key", "colon", "more", "end"}, rc' \in {"run", "JSON", "NOMEM"}
  PROVE  TokensOK' /\ StackOK' /\ ParentsOK' /\ SizesAreChildren' /\ SpansNest'
<1>0. TokensOK /\ StackOK /\ ParentsOK /\ SizesAreChildren /\ SpansNest
  BY DEF TokensInv
<1>1. doc' \in Seq(Lexemes)
  BY <1>0 DEF TokensOK
<1>2. TokensOK'
  BY <1>0, <1>1 DEF TokensOK
<1>3. StackOK'
  BY <1>0 DEF StackOK, Link, Waits, Container
<1>4. ParentsOK'
  BY <1>0 DEF ParentsOK, IsKey, Container
<1>5. SizesAreChildren'
  BY <1>0 DEF SizesAreChildren, Complete, IsKey
<1>6. SpansNest'
  BY <1>0, SpansStay
<1> QED BY <1>2, <1>3, <1>4, <1>5, <1>6

\* A text that is refused stays as far as it was read.
LEMMA RefusalKeeps ==
  ASSUME TokensInv, NEW c \in Lexemes, doc' = Append(doc, c), UNCHANGED <<toks, stack, expect>>,
         rc' \in {"JSON", "NOMEM"}
  PROVE  TokensInv'
<1>1. expect' \in {"value", "first", "key", "colon", "more", "end"}
  BY DEF TokensInv, TokensOK
<1>2. TokensOK' /\ StackOK' /\ ParentsOK' /\ SizesAreChildren' /\ SpansNest'
  BY <1>1, TokensStay
<1>3. ExpectOK'
  <2>1. ExpectOK
    BY DEF TokensInv
  <2> QED BY <2>1 DEF ExpectOK, Pending, InObject, Innermost, Waits
<1> QED BY <1>2, <1>3 DEF TokensInv

LEMMA SeparatorKeeps ==
  ASSUME TokensInv, Colon \/ Comma
  PROVE  TokensInv'
<1>0. TokensOK /\ ExpectOK /\ (":" \in Lexemes /\ "," \in Lexemes)
  BY DEF TokensInv, Lexemes
<1>1. CASE Colon
  <2>1. expect = "colon" /\ Read(":") /\ expect' = "value" /\ toks' = toks /\ stack' = stack /\ rc' = rc
    BY <1>1 DEF Colon
  <2>2. doc' = Append(doc, ":") /\ rc' = "run"
    BY <1>0, <2>1, ReadFacts
  <2>3. TokensOK' /\ StackOK' /\ ParentsOK' /\ SizesAreChildren' /\ SpansNest'
    BY <1>0, <2>1, <2>2, TokensStay
  <2>4. InObject /\ Waits(Len(toks), Innermost) /\ stack # <<>> /\ toks # <<>>
    <3>1. InObject /\ Waits(Len(toks), Innermost)
      BY <1>0, <2>1 DEF ExpectOK, Pending
    <3> QED BY <3>1 DEF InObject, Waits
  <2>5. ExpectOK'
    BY <2>1, <2>4 DEF ExpectOK, Pending, InObject, Innermost, Waits
  <2> QED BY <2>3, <2>5 DEF TokensInv
<1>2. CASE Comma
  <2>1. /\ expect = "more" /\ Read(",") /\ expect' = (IF InObject THEN "key" ELSE "value")
        /\ toks' = toks /\ stack' = stack /\ rc' = rc
    BY <1>2 DEF Comma
  <2>2. doc' = Append(doc, ",") /\ rc' = "run"
    BY <1>0, <2>1, ReadFacts
  <2>3. TokensOK' /\ StackOK' /\ ParentsOK' /\ SizesAreChildren' /\ SpansNest'
    BY <1>0, <2>1, <2>2, TokensStay
  <2>4. stack # <<>> /\ toks # <<>>
    <3>1. stack # <<>>
      BY <1>0, <2>1 DEF ExpectOK
    <3>2. Innermost \in DOMAIN toks
      BY <1>0, <3>1, TokenFacts
    <3> QED BY <3>1, <3>2
  <2>5. ExpectOK'
    BY <2>1, <2>4 DEF ExpectOK, Pending, InObject, Innermost, Waits
  <2> QED BY <2>3, <2>5 DEF TokensInv
<1> QED BY <1>1, <1>2

LEMMA TokensBegin == ASSUME JsonAssumption, TokensInit PROVE TokensInv
<1>1. TokensOK
  <2>1. doc = <<>> /\ toks = <<>> /\ stack = <<>> /\ expect = "value" /\ rc = "run"
    BY DEF TokensInit
  <2>2. /\ doc \in Seq(Lexemes) /\ toks \in Seq(TokenSet) /\ stack \in Seq(DOMAIN toks)
        /\ Len(toks) = 0 /\ Len(stack) = 0 /\ DOMAIN toks = {}
    BY <2>1
  <2>3. 0 <= MaxToks /\ 0 <= MaxDepth + 1
    <3>1. MaxToks \in Nat /\ MaxDepth \in Nat
      BY Zenon DEF JsonAssumption
    <3> QED BY <3>1
  <2> QED BY <2>1, <2>2, <2>3 DEF TokensOK, TokenSet
<1>2. StackOK /\ ParentsOK /\ SizesAreChildren /\ SpansNest
  BY DEF TokensInit, StackOK, ParentsOK, SizesAreChildren, SpansNest
<1>3. ExpectOK
  BY DEF TokensInit, ExpectOK, Pending, InObject
<1> QED BY <1>1, <1>2, <1>3 DEF TokensInv

LEMMA TokensStep == ASSUME JsonAssumption, TokensInv, [TokensNext]_tokenVars PROVE TokensInv'
<1>0. TokensOK
  BY DEF TokensInv
<1>1. ASSUME NEW c \in {"{", "["}, Open(c) PROVE TokensInv'
  <2>1. c \in Lexemes
    BY <1>1, Zenon DEF Lexemes, Brackets
  <2>2. Read(c)
    BY <1>1, Zenon DEF Open
  <2>3. CASE TooDeep \/ ~Room
    <3>1. UNCHANGED <<toks, stack, expect>> /\ rc' \in {"JSON", "NOMEM"}
      BY <1>1, <2>3, Zenon DEF Open, Fail
    <3> QED BY <1>0, <2>1, <2>2, <3>1, ReadFacts, RefusalKeeps
  <2>4. CASE ~TooDeep /\ Room
    BY <1>1, <2>1, <2>4, OpenKeeps
  <2> QED BY <2>3, <2>4
<1>2. ASSUME NEW c \in {"}", "]"}, Close(c) PROVE TokensInv'
  <2>1. c \in Lexemes
    BY <1>2, Zenon DEF Lexemes, Brackets
  <2> QED BY <1>2, <2>1, CloseKeeps
<1>3. ASSUME NEW c \in Strings, Key(c) PROVE TokensInv'
  <2>1. c \in Lexemes /\ Read(c)
    BY <1>3 DEF Lexemes, Key
  <2>2. CASE ~Room
    <3>1. UNCHANGED <<toks, stack, expect>> /\ rc' = "NOMEM"
      BY <1>3, <2>2 DEF Key, Fail
    <3> QED BY <1>0, <2>1, <3>1, ReadFacts, RefusalKeeps
  <2>3. CASE Room
    BY <1>3, <2>3, KeyKeeps
  <2> QED BY <2>2, <2>3
<1>4. ASSUME NEW c \in Strings \cup Primitives, Scalar(c) PROVE TokensInv'
  <2>1. c \in Lexemes /\ Read(c)
    BY <1>4 DEF Lexemes, Scalar
  <2>2. CASE TooDeep \/ ~Room
    <3>1. UNCHANGED <<toks, stack, expect>> /\ rc' \in {"JSON", "NOMEM"}
      BY <1>4, <2>2, Zenon DEF Scalar, Fail
    <3> QED BY <1>0, <2>1, <3>1, ReadFacts, RefusalKeeps
  <2>3. CASE ~TooDeep /\ Room
    BY <1>4, <2>3, ScalarKeeps
  <2> QED BY <2>2, <2>3
<1>5. ASSUME NEW c \in Lexemes, Reject(c) PROVE TokensInv'
  <2>1. Read(c)
    BY <1>5, Zenon DEF Reject
  <2>2. UNCHANGED <<toks, stack, expect>> /\ rc' \in {"JSON", "NOMEM"}
    BY <1>0, <1>5, Zenon DEF Reject, Fail, TokensOK, WantsValue, WantsKey
  <2> QED BY <1>0, <2>1, <2>2, ReadFacts, RefusalKeeps
<1>6. ASSUME NEW c \in Lexemes, Ignore(c) PROVE TokensInv'
  <2>1. doc' = Append(doc, c) /\ UNCHANGED <<toks, stack, expect>> /\ rc' = rc /\ rc # "run"
    BY <1>6 DEF Ignore
  <2>2. rc' \in {"JSON", "NOMEM"}
    BY <1>0, <2>1 DEF TokensOK
  <2> QED BY <2>1, <2>2, RefusalKeeps
<1>7. CASE UNCHANGED tokenVars
  <2>1. doc' = doc /\ toks' = toks /\ stack' = stack /\ expect' = expect /\ rc' = rc
    BY <1>7 DEF tokenVars
  <2>2. TokensOK'
    BY <1>0, <2>1 DEF TokensOK
  <2>3. StackOK'
    BY <2>1 DEF TokensInv, StackOK, Link, Waits, Container
  <2>4. ExpectOK'
    BY <2>1 DEF TokensInv, ExpectOK, Pending, InObject, Innermost, Waits
  <2>5. ParentsOK'
    BY <2>1 DEF TokensInv, ParentsOK, IsKey, Container
  <2>6. SizesAreChildren'
    BY <2>1 DEF TokensInv, SizesAreChildren, Complete, IsKey
  <2>7. SpansNest'
    BY <2>1 DEF TokensInv, SpansNest, Ended, IsKey
  <2> QED BY <2>2, <2>3, <2>4, <2>5, <2>6, <2>7 DEF TokensInv
<1> QED BY <1>1, <1>2, <1>3, <1>4, <1>5, <1>6, <1>7, SeparatorKeeps, Zenon DEF TokensNext

\* The invariant of the tokenizer, of thalovant_json_parse: what is open is on
\* the stack, what is looked for goes with it, and the tokens made so far count
\* their children and nest.
THEOREM TokensInductive == ASSUME JsonAssumption PROVE TokensSpec => []TokensInv
<1> QED BY TokensBegin, TokensStep, PTL DEF TokensSpec

\* However a document goes on, the tokens of its beginning count their children
\* and nest as their parents say, and a document that is accepted is one value:
\* what thalovant_json_skip and object_get rely on, of thalovant_json_parse.
THEOREM TokensNestAlways ==
  ASSUME JsonAssumption
  PROVE  TokensSpec => [](TokensOK /\ SizesAreChildren /\ SpansNest /\ DocumentIsOneValue)
<1>1. ASSUME TokensInv PROVE DocumentIsOneValue
  <2>0. TokensOK /\ StackOK /\ ExpectOK /\ ParentsOK
    BY <1>1 DEF TokensInv
  <2>1. SUFFICES ASSUME rc = "run", expect = "end"
                 PROVE  /\ toks # <<>> /\ toks[1].first = 1 /\ toks[1].next = Len(doc) + 1
                        /\ \A i \in DOMAIN toks : toks[i].next # 0
    BY <2>0 DEF DocumentIsOneValue, Result, TokensOK
  <2>2. toks # <<>> /\ toks[1].next = Len(doc) + 1 /\ stack = <<>>
    BY <2>0, <2>1 DEF ExpectOK
  <2>3. 1 \in DOMAIN toks
    BY <2>0, <2>2, TokenFacts
  <2>4. toks[1].first = 1
    BY <2>0, <2>3 DEF ParentsOK
  <2>5. \A i \in DOMAIN toks : toks[i].next # 0
    BY <2>0, <2>2 DEF StackOK
  <2> QED BY <2>2, <2>4, <2>5
<1>2. TokensInv => TokensOK /\ SizesAreChildren /\ SpansNest /\ DocumentIsOneValue
  BY <1>1 DEF TokensInv
<1> QED BY <1>2, TokensInductive, PTL
=============================================================================
