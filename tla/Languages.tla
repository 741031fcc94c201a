------------------------------ MODULE Languages ------------------------------
(***************************************************************************)
(* Texts as src/intents.c, src/ask.c and src/json.c compare and take them: *)
(* language tags, the language of an event, the samples of a definition.   *)
(*                                                                         *)
(* text is a tag, character by character.  A row is an element of a JSON   *)
(* array: a sample "text" or one with a "slot", a "blank" string or an     *)
(* empty one, an "array" (no string), one that is "overlong" for its       *)
(* buffer, or "malformed".                                                 *)
(***************************************************************************)
EXTENDS Naturals, Sequences, FiniteSetsExt

Intents == INSTANCE IntentEvents

CONSTANTS MaxText, MaxRows   \* bounds of the model
LanguagesAssumption == MaxRows \in Nat

VARIABLES text, rows
vars == <<text, rows>>

Char == {" ", "a", "A", "_", "-"}
Row == {"text", "slot", "blank", "", "array", "overlong", "malformed"}
IsSpace(c) == c = " "

-----------------------------------------------------------------------------
\* trimmed, and the loops of trim_in_place: where a text begins and ends.
SkipSpaces(s) == CHOOSE start \in 1..Len(s) + 1 :
                   /\ \A i \in 1..start - 1 : IsSpace(s[i])
                   /\ start <= Len(s) => ~IsSpace(s[start])
DropSpaces(s, start) == CHOOSE end \in start - 1..Len(s) :
                          /\ \A i \in end + 1..Len(s) : IsSpace(s[i])
                          /\ end >= start => ~IsSpace(s[end])
Trimmed(s) == LET start == SkipSpaces(s) IN SubSeq(s, start, DropSpaces(s, start))
\* What is left in the buffer up to the NUL.
TrimInPlace(s) ==
  LET start == SkipSpaces(s)
      n == DropSpaces(s, start) + 1 - start
      moved == IF start > 1 /\ n > 0
               THEN [i \in 1..Len(s) |-> IF i <= n THEN s[start - 1 + i] ELSE s[i]] ELSE s
  IN SubSeq(moved, 1, n)

\* thalovant_intent_same_language
Fold(c) == CASE c = "_" -> "-" [] c = "A" -> "a" [] OTHER -> c
\* (mutant: the shorter tag decides)
SameLanguageByPrefix(a, b) ==
  LET x == Trimmed(a)  y == Trimmed(b)
  IN Len(x) <= Len(y) /\ \A i \in 1..Len(x) : Fold(x[i]) = Fold(y[i])
SameLanguage(a, b) ==
  LET x == Trimmed(a)  y == Trimmed(b)
  IN Len(x) = Len(y) /\ \A i \in 1..Len(x) : Fold(x[i]) = Fold(y[i])

\* thalovant_ask_event_language, once the event is the question's: "lang" of
\* data, of context and of the session.
\* (mutant: a text that does not fit is passed over)
EventLanguageLoose(langs) ==
  LET said == {i \in 1..Len(langs) : langs[i] \notin {"array", "", "overlong"}}
  IN IF said = {} THEN "" ELSE langs[Min(said)]
EventLanguage(langs) ==
  LET said == {i \in 1..Len(langs) : langs[i] \notin {"array", ""}}
      first == langs[Min(said)]
  IN IF said = {} THEN "" ELSE IF first = "overlong" THEN "NOMEM" ELSE first

\* thalovant_intent_samples, with a callback that asks for `wanted` of them.
\* (mutant: the index is the element's)
SampleStepByElement(r, i, row, wanted) ==
  IF r.stopped THEN r
  ELSE CASE row = "malformed" -> [r EXCEPT !.rc = "JSON", !.stopped = TRUE]
         [] row = "overlong" -> [r EXCEPT !.rc = "NOMEM", !.stopped = TRUE]
         [] row \in {"text", "slot"} ->
              [r EXCEPT !.out = Append(@, [index |-> i - 1, slot |-> row = "slot"]),
                        !.stopped = Len(r.out) + 1 = wanted]
         [] OTHER -> r
SampleStep(r, i, row, wanted) ==
  IF r.stopped THEN r
  ELSE CASE row = "malformed" -> [r EXCEPT !.rc = "JSON", !.stopped = TRUE]
         [] row = "overlong" -> [r EXCEPT !.rc = "NOMEM", !.stopped = TRUE]
         [] row \in {"text", "slot"} ->
              [r EXCEPT !.out = Append(@, [index |-> Len(@), slot |-> row = "slot"]),
                        !.stopped = Len(r.out) + 1 = wanted]
         [] OTHER -> r
Samples(samples, wanted) ==
  LET after[i \in 0..Len(samples)] ==
        IF i = 0 THEN [rc |-> "OK", out |-> <<>>, stopped |-> FALSE]
        ELSE SampleStep(after[i - 1], i, samples[i], wanted)
      end == after[Len(samples)]
  IN [rc |-> end.rc, out |-> end.out]
-----------------------------------------------------------------------------
\* Every text and every array.
Init == text = <<>> /\ rows = <<>>
GrowText == /\ rows = <<>> /\ Len(text) < MaxText
            /\ \E c \in Char : text' = Append(text, c)
            /\ UNCHANGED rows
GrowRows == /\ text = <<>> /\ Len(rows) < MaxRows
            /\ \E row \in Row : rows' = Append(rows, row)
            /\ UNCHANGED text
Next == GrowText \/ GrowRows
Spec == Init /\ [][Next]_vars
-----------------------------------------------------------------------------
\* Being the same language groups tags: it is what having one spelling is, so
\* a row is of one group, whichever of its tags the group is known by; and a
\* tag that was read from a reply is the same as the one the hub wrote.
Spelling(s) ==
  LET inner == {i \in 1..Len(s) : /\ \E j \in 1..i : ~IsSpace(s[j])
                                  /\ \E j \in i..Len(s) : ~IsSpace(s[j])}
      first == CHOOSE i \in inner : \A j \in inner : i <= j
  IN [n \in 1..Cardinality(inner) |-> Fold(s[first + n - 1])]
TagsAreGrouped ==
  /\ \A cut \in 0..Len(text) :
       LET a == SubSeq(text, 1, cut)  b == SubSeq(text, cut + 1, Len(text))
       IN SameLanguage(a, b) = (Spelling(a) = Spelling(b))
  /\ SameLanguage(TrimInPlace(text), text)

\* The language of an event is the one the readers of intents.c would take
\* (blank tags aside, which those trim away), and a tag that counts but does
\* not fit is an error, never the next place's tag.
LanguageIsFirst ==
  Len(rows) = 3 /\ (\A i \in 1..3 : rows[i] \notin {"blank", "malformed"}) =>
    LET taken == Intents!FirstOf([i \in 1..3 |-> IF rows[i] = "array" THEN "absent" ELSE rows[i]])
    IN EventLanguage(rows) = IF taken = "overlong" THEN "NOMEM" ELSE taken

\* Samples are delivered in order and without a gap in their indices, each
\* once, up to what cannot be read or was not asked for; and never more than
\* the definition announced.
SamplesAreNumbered ==
  \A wanted \in 1..(MaxRows + 1) :
    LET got == Samples(rows, wanted)
        real == {i \in 1..Len(rows) : rows[i] \in {"text", "slot"}}
        bad == {i \in 1..Len(rows) : rows[i] \in {"malformed", "overlong"}}
        before(i) == Cardinality({j \in real : j < i})
        all == Cardinality(real)
    IN /\ Len(got.out) <= wanted /\ Len(got.out) <= Len(rows)
       /\ \A n \in 1..Len(got.out) : \E i \in real :
            before(i) = n - 1 /\ got.out[n] = [index |-> n - 1, slot |-> rows[i] = "slot"]
       /\ got.rc = "OK" => Len(got.out) = IF all < wanted THEN all ELSE wanted
       /\ got.rc # "OK" => \E i \in bad : Len(got.out) = before(i)

TextsAreTaken == TagsAreGrouped /\ LanguageIsFirst /\ SamplesAreNumbered
=============================================================================
