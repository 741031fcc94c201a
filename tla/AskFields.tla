------------------------------ MODULE AskFields ------------------------------
(***************************************************************************)
(* The functions of src/ask.c that read or write one field at a time: the  *)
(* text that is collapsed in place, the clip's hexadecimal, the allowed    *)
(* list that is asked for by index, the payload with its hints.            *)
(*                                                                         *)
(* text is a string, character by character: " ", the digits of a          *)
(* hexadecimal "1" and "2", and "z", which is neither.  rows is a JSON     *)
(* array of message types or of stages, which three loops read, each with  *)
(* its own trim and its own buffer:                                        *)
(*   "type"       a name                                                   *)
(*   "blank"      nothing but spaces                                       *)
(*   "feed"       a form feed: isspace takes it off, ask.c's four do not   *)
(*   "nul"        "\u0000": one byte long, and an empty C string           *)
(*   "number"     no string                                                *)
(*   "long"       a name of 64 bytes or more: fits 512, not intents.c's 64 *)
(*   "wide"       as many spaces                                           *)
(*   "overlong"   512 bytes or more: fits nowhere                          *)
(*   "malformed"  a backslash before a NUL byte, which is no escape        *)
(***************************************************************************)
EXTENDS Naturals, Sequences, FiniteSets

Intents == INSTANCE IntentEvents

CONSTANTS ClipMax,      \* THALOVANT_AUDIO_CLIP_MAX
          ScratchCap,   \* the caller's scratch buffer
          OutCap,       \* the caller's clip buffer
          PayloadCap,   \* the caller's frame buffer, in pieces
          TokenRoom,    \* rows for which a document's tokens suffice
          MaxText, MaxRows   \* bounds of the model
FieldsAssumption == {ScratchCap, OutCap, ClipMax, PayloadCap, TokenRoom} \subseteq Nat

VARIABLES text, rows
vars == <<text, rows>>

Char == {" ", "1", "2", "z"}
Row == {"type", "blank", "feed", "nul", "number", "long", "wide", "overlong", "malformed"}
Space == " "
IsSpace(c) == c = Space

-----------------------------------------------------------------------------
\* thalovant_ask_normalize_text, one character; the text is overwritten while
\* it is read.
\* (mutant: a space is kept for every run of them, the first one too)
NormalizeCharLeading(r, i) ==
  IF IsSpace(r.text[i]) THEN [r EXCEPT !.pending = TRUE]
  ELSE LET at == IF r.pending THEN r.out + 1 ELSE r.out
           spaced == IF r.pending THEN [r.text EXCEPT ![at] = Space] ELSE r.text
       IN [text |-> [spaced EXCEPT ![at + 1] = spaced[i]], out |-> at + 1, pending |-> FALSE]
NormalizeChar(r, i) ==
  IF IsSpace(r.text[i]) THEN [r EXCEPT !.pending = @ \/ r.out > 0]
  ELSE LET at == IF r.pending THEN r.out + 1 ELSE r.out
           spaced == IF r.pending THEN [r.text EXCEPT ![at] = Space] ELSE r.text
       IN [text |-> [spaced EXCEPT ![at + 1] = spaced[i]], out |-> at + 1, pending |-> FALSE]
NormalizeText(t) ==
  LET after[i \in 0..Len(t)] ==
        IF i = 0 THEN [text |-> t, out |-> 0, pending |-> FALSE]
        ELSE NormalizeChar(after[i - 1], i)
      end == after[Len(t)]
  IN SubSeq(end.text, 1, end.out)

\* thalovant_ask_audio_decode, once the clip's string is found.  The check on
\* the escaped length refuses nothing the check on the decoded one lets pass.
Digit(c) == IF c = "1" THEN 1 ELSE 2
AudioStep(r, c) ==
  IF r.rc # "OK" THEN r
  ELSE IF IsSpace(c) THEN IF r.high # <<>> THEN [r EXCEPT !.rc = "INVALID"] ELSE r
  ELSE IF c = "z" THEN [r EXCEPT !.rc = "INVALID"]
  ELSE IF r.high = <<>> THEN [r EXCEPT !.high = <<Digit(c)>>]
  ELSE IF Len(r.out) >= OutCap THEN [r EXCEPT !.rc = "NOMEM"]
  ELSE [r EXCEPT !.out = Append(@, r.high[1] * 16 + Digit(c)), !.high = <<>>]
AudioLoop(encoded) ==
  LET after[i \in 0..Len(encoded)] ==
        IF i = 0 THEN [rc |-> "OK", high |-> <<>>, out |-> <<>>]
        ELSE AudioStep(after[i - 1], encoded[i])
  IN after[Len(encoded)]
\* (mutant: a digit left over at the end is dropped)
AudioDecodeOdd(encoded) ==
  IF Len(encoded) >= ScratchCap THEN [rc |-> "NOMEM", out |-> <<>>]
  ELSE IF encoded = <<>> THEN [rc |-> "MISSING", out |-> <<>>]
  ELSE IF Len(encoded) > 2 * ClipMax THEN [rc |-> "NOMEM", out |-> <<>>]
  ELSE LET end == AudioLoop(encoded)
       IN [rc |-> end.rc, out |-> end.out]
AudioDecode(encoded) ==
  IF Len(encoded) >= ScratchCap THEN [rc |-> "NOMEM", out |-> <<>>]
  ELSE IF encoded = <<>> THEN [rc |-> "MISSING", out |-> <<>>]
  ELSE IF Len(encoded) > 2 * ClipMax THEN [rc |-> "NOMEM", out |-> <<>>]
  ELSE LET end == AudioLoop(encoded)
       IN [rc |-> IF end.rc = "OK" /\ end.high # <<>> THEN "INVALID" ELSE end.rc,
           out |-> end.out]

\* thalovant_ask_refusal_allowed: the type at an index, from 0.  It is copied
\* out if the caller's buffer of cap holds it with its NUL; at is its row.
Typed == {"type", "feed", "long"}       \* a name once blank, tab, CR and LF are trimmed off
Unread == {"overlong", "malformed"}     \* thalovant_json_unescape refuses it
Size(row) == IF row = "long" THEN 2 ELSE 1
Answer(code) == [rc |-> code, at |-> {}]
FirstUnread(allowed) ==
  {i \in 1..Len(allowed) : allowed[i] \in Unread /\ \A j \in 1..i - 1 : allowed[j] \notin Unread}
EndOf(allowed) ==
  IF FirstUnread(allowed) = {} THEN "MISSING"
  ELSE IF \E i \in FirstUnread(allowed) : allowed[i] = "malformed" THEN "JSON" ELSE "NOMEM"
\* The rows that name a type, as far as they can be read.
NamesOf(allowed) ==
  {i \in 1..Len(allowed) : allowed[i] \in Typed /\ \A j \in FirstUnread(allowed) : i < j}
\* (mutant: rows that name nothing are counted)
RefusalAllowedByRow(allowed, index, cap) ==
  LET at == {i \in NamesOf(allowed) : i = index + 1}
  IN IF Len(allowed) > TokenRoom THEN Answer("NOMEM")
     ELSE IF at = {} THEN Answer(EndOf(allowed))
     ELSE IF \E i \in at : Size(allowed[i]) + 1 > cap THEN Answer("NOMEM")
     ELSE [rc |-> "OK", at |-> at]
RefusalAllowed(allowed, index, cap) ==
  LET names == NamesOf(allowed)
      at == {i \in names : Cardinality({j \in names : j < i}) = index}
  IN IF Len(allowed) > TokenRoom THEN Answer("NOMEM")
     ELSE IF at = {} THEN Answer(EndOf(allowed))
     ELSE IF \E i \in at : Size(allowed[i]) + 1 > cap THEN Answer("NOMEM")
     ELSE [rc |-> "OK", at |-> at]

\* append_pipeline: what it appends for each row, and where it stops.  Its
\* blanks are isspace's over the whole length.
Stopping == {"number", "overlong", "malformed"}
StopCode(row) ==
  CASE row = "number" -> "INVALID" [] row = "overlong" -> "NOMEM" [] OTHER -> "JSON"
\* (mutant: a blank stage is not skipped)
PipelineStepKeepsBlank(r, row) ==
  IF r.rc # "OK" THEN r
  ELSE IF row \in Stopping THEN [r EXCEPT !.rc = StopCode(row)]
  ELSE [r EXCEPT !.out = @ \o <<IF @ = <<>> THEN "open" ELSE "comma", "stage">>]
PipelineStep(r, row) ==
  IF r.rc # "OK" THEN r
  ELSE IF row \in Stopping THEN [r EXCEPT !.rc = StopCode(row)]
  ELSE IF row \in {"blank", "feed", "wide"} THEN r
  ELSE [r EXCEPT !.out = @ \o <<IF @ = <<>> THEN "open" ELSE "comma", "stage">>]
Pipeline(stages) ==
  LET after[i \in 0..Len(stages)] ==
        IF i = 0 THEN [rc |-> "OK", out |-> <<>>] ELSE PipelineStep(after[i - 1], stages[i])
      r == after[Len(stages)]
  IN IF r.rc = "OK" /\ r.out # <<>> THEN [r EXCEPT !.out = Append(@, "close")] ELSE r

\* validate_hint: the pipeline is read as a C string, which ends at a NUL.
HintCode(stages) ==
  IF \E i \in 1..Len(stages) : i <= TokenRoom /\ stages[i] = "malformed" THEN "JSON"
  ELSE IF Len(stages) > TokenRoom THEN "NOMEM" ELSE "OK"

\* thalovant_ask_build_payload_with_hints and the frame around it: pieces are
\* appended while they fit with a NUL behind them.
Before == <<"utterance", "lang", "request_id", "thalovant_request_id", "session_id",
            "session_lang", "session_request_id">>
After == <<"stt_lang", "location", "route">>
BuildFrame(stages) ==
  LET pipeline == Pipeline(stages)
      upTo == Before \o pipeline.out
      whole == IF pipeline.rc = "OK" THEN upTo \o After ELSE upTo
  IN IF HintCode(stages) # "OK" THEN [rc |-> HintCode(stages), out |-> <<>>]
     ELSE IF Len(whole) + 1 > PayloadCap THEN [rc |-> "NOMEM", out |-> <<>>]
     ELSE IF pipeline.rc # "OK" THEN [rc |-> pipeline.rc, out |-> <<>>]
     ELSE [rc |-> "OK", out |-> whole]
-----------------------------------------------------------------------------
\* Every text and every array, one element after the other.
Init == text = <<>> /\ rows = <<>>
GrowText == /\ rows = <<>> /\ Len(text) < MaxText
            /\ \E c \in Char : text' = Append(text, c)
            /\ UNCHANGED rows
GrowRows == /\ text = <<>> /\ Len(rows) < MaxRows
            /\ \E row \in Row : rows' = Append(rows, row)
            /\ UNCHANGED text
Next == GrowText \/ GrowRows
Spec == Init /\ [][Next]_vars
-----------------------------------------------------------------------------
\* Collapsing in place gives the words with one space between, though the text
\* is read from the buffer it is written to.
NormalizedIsWords ==
  LET kept == {i \in 1..Len(text) :
                 \/ ~IsSpace(text[i])
                 \/ /\ i > 1 /\ ~IsSpace(text[i - 1])
                    /\ \E j \in i..Len(text) : ~IsSpace(text[j])}
      nth(n) == CHOOSE i \in kept : Cardinality({j \in kept : j <= i}) = n
  IN NormalizeText(text) = [n \in 1..Cardinality(kept) |-> text[nth(n)]]

\* A clip is decoded whole or not at all: pairs of digits, spaces only between
\* pairs, as many bytes as pairs and no more than the buffer holds.
AudioIsWhole ==
  LET digits == {i \in 1..Len(text) : ~IsSpace(text[i])}
      upTo(i) == Cardinality({j \in digits : j <= i})
      nth(n) == CHOOSE i \in digits : upTo(i) = n
      paired == \A i \in 1..Len(text) : IsSpace(text[i]) => upTo(i) % 2 = 0
      all == Cardinality(digits)
      good == /\ text # <<>> /\ Len(text) < ScratchCap /\ Len(text) <= 2 * ClipMax
              /\ \A i \in digits : text[i] # "z"
              /\ paired /\ all % 2 = 0 /\ all <= 2 * OutCap
      result == AudioDecode(text)
  IN /\ (result.rc = "OK") = good
     /\ good => result.out = [k \in 1..all \div 2 |->
                                16 * Digit(text[nth(2 * k - 1)]) + Digit(text[nth(2 * k)])]
     /\ Len(result.out) <= OutCap

\* Asking for index 0, 1, 2 ... until there is none gives every type of the
\* list up to a row that cannot be read, in the list's order and none twice,
\* and then the same end for ever.  A smaller buffer turns away the types that
\* do not fit it and moves no other to another index.
IndexIsTheList ==
  LET readable(i) == \A j \in 1..i : rows[j] \notin {"overlong", "malformed"}
      types == {i \in 1..Len(rows) : readable(i) /\ rows[i] \in {"type", "feed", "long"}}
      end == IF readable(Len(rows)) THEN "MISSING"
             ELSE IF \E i \in 1..Len(rows) : readable(i - 1) /\ rows[i] = "malformed" THEN "JSON" ELSE "NOMEM"
      given(i) == [rc |-> "OK", at |-> {i}]
  IN IF Len(rows) > TokenRoom
     THEN \A index \in 0..Len(rows), cap \in 1..3 : RefusalAllowed(rows, index, cap) = Answer("NOMEM")
     ELSE /\ \A index \in Cardinality(types)..Len(rows), cap \in 1..3 :
               RefusalAllowed(rows, index, cap) = Answer(end)
          /\ \A i \in types : \E index \in 0..Cardinality(types) - 1 :
               /\ RefusalAllowed(rows, index, 3) = given(i)
               /\ \A cap \in 1..2 : RefusalAllowed(rows, index, cap) =
                    IF rows[i] = "long" \/ cap = 1 THEN Answer("NOMEM") ELSE given(i)
               /\ \A j \in types : j < i =>
                    \E before \in 0..index - 1 : RefusalAllowed(rows, before, 3) = given(j)

\* The other reader of the same denial, thalovant_intent_allowed_types, has
\* another trim, another limit and no pool of tokens.  The two find as many
\* types and end with the same code where no row and no count tells them apart.
ReadersAgree ==
  LET walk == Intents!WalkAllowed(rows, FALSE)
      apart == {"feed", "nul", "long", "wide"}
  IN Len(rows) <= TokenRoom /\ (\A i \in 1..Len(rows) : rows[i] \notin apart)
       => /\ \A index \in 0..Len(rows) :
               (RefusalAllowed(rows, index, 3).rc = "OK") = (index < walk.types)
          /\ RefusalAllowed(rows, walk.types, 3).rc = IF walk.rc = "OK" THEN "MISSING" ELSE walk.rc

\* A frame that is built has every field, a pipeline exactly if a stage is
\* named, its brackets and commas in their places, and was not cut.
FrameIsWhole ==
  LET named == Cardinality({i \in 1..Len(rows) : rows[i] \in {"type", "nul", "long"}})
      list == IF named = 0 THEN <<>>
              ELSE [i \in 1..2 * named + 1 |->
                      IF i = 1 THEN "open" ELSE IF i = 2 * named + 1 THEN "close"
                      ELSE IF i % 2 = 0 THEN "stage" ELSE "comma"]
      frame == BuildFrame(rows)
  IN /\ frame.rc = "OK" => frame.out = Before \o list \o After
     /\ (frame.rc = "OK") = (/\ \A i \in 1..Len(rows) : rows[i] \notin {"number", "overlong", "malformed"}
                             /\ Len(rows) <= TokenRoom
                             /\ Len(Before \o list \o After) < PayloadCap)

\* No field is cut, repeated or made up, read or written.
FieldsAreWhole == NormalizedIsWords /\ AudioIsWhole /\ IndexIsTheList /\ ReadersAgree /\ FrameIsWhole
=============================================================================
