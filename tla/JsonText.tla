------------------------------ MODULE JsonText ------------------------------
(***************************************************************************)
(* The strings of src/json.c and src/wire.c: where one ends, what it       *)
(* stands for in a buffer of a given size, and how one is written.  Four   *)
(* hexadecimal digits are one symbol: "high" and "low" those of the halves *)
(* of a surrogate pair, "two" those of a code point of two bytes, "zero"   *)
(* those of a control character; "nul" is the byte 0 itself.               *)
(***************************************************************************)
EXTENDS Integers, Sequences, SequencesExt

CONSTANTS MaxLength,   \* bounds of the model: symbols of a text that is meant,
          MaxScribble, \* and of any text
          Caps         \* sizes of buffers

VARIABLES text,     \* symbols after an opening quote
          meant,    \* what their author means, or Anything
          open      \* the author has not put the closing quote
vars == <<text, meant, open>>

Hex == {"high", "low", "two", "zero"}
Symbols == Hex \cup {"quote", "back", "u", "n", "newline", "nul", "x"}
Anything == <<"anything">>
\* Characters, with the bytes they take in UTF-8; four digits are four.
Bytes == [pair |-> 4, HIGH |-> 3, LOW |-> 3, TWO |-> 2, control |-> 1,
          quote |-> 1, back |-> 1, newline |-> 1, x |-> 1, n |-> 1, u |-> 1,
          high |-> 4, low |-> 4, two |-> 4, zero |-> 4]
CodePoint == [high |-> "HIGH", low |-> "LOW", two |-> "TWO", zero |-> "control"]
Letters == [quote |-> "quote", back |-> "back", n |-> "newline"]
Size(s) == FoldLeft(LAMBDA n, c : n + Bytes[c], 0, s)

-----------------------------------------------------------------------------
\* string_end of s from pos: the closing quote's place, or 0 for an error.
\* strchr finds the NUL at the end of its list of letters as well.
\* (mutant: the digits of an escape are not looked at)
EscapeEndBlind(s, pos) == IF s[pos] \in {"u", "nul"} \cup DOMAIN Letters THEN pos + 1 ELSE 0
EscapeEnd(s, pos) ==
  IF s[pos] = "u" THEN IF pos < Len(s) /\ s[pos + 1] \in Hex THEN pos + 2 ELSE 0
  ELSE IF s[pos] \in {"nul"} \cup DOMAIN Letters THEN pos + 1 ELSE 0
RECURSIVE StringEnd(_, _)
StringEnd(s, pos) ==
  IF pos > Len(s) \/ s[pos] \in {"newline", "nul"} THEN 0
  ELSE IF s[pos] = "quote" THEN pos
  ELSE IF s[pos] # "back" THEN StringEnd(s, pos + 1)
  ELSE IF pos = Len(s) \/ EscapeEnd(s, pos + 1) = 0 THEN 0
  ELSE StringEnd(s, EscapeEnd(s, pos + 1))

\* thalovant_json_unescape of the symbols before end: the character at i and
\* where the next one starts.  What is read past end is none of the string's.
Symbol(s, i, end) == IF i < end THEN s[i] ELSE "past the end"
\* (mutant: any escape after a high half is taken for a low one)
LowFollowsAny(s, i, end) == Symbol(s, i, end) = "back" /\ Symbol(s, i + 1, end) = "u"
LowFollows(s, i, end) == /\ Symbol(s, i, end) = "back" /\ Symbol(s, i + 1, end) = "u"
                         /\ Symbol(s, i + 2, end) = "low"
CharAt(s, i, end) ==
  LET c == Symbol(s, i, end)  e == Symbol(s, i + 1, end)  d == Symbol(s, i + 2, end) IN
  IF c # "back" THEN [char |-> c, next |-> i + 1]
  ELSE IF e \in DOMAIN Letters THEN [char |-> Letters[e], next |-> i + 2]
  ELSE IF e = "nul" THEN [char |-> "refused", next |-> end + 1]
  ELSE IF e # "u" \/ d \notin Hex THEN [char |-> "wrong", next |-> end + 1]
  ELSE IF d = "high" /\ LowFollows(s, i + 3, end) THEN [char |-> "pair", next |-> i + 6]
  ELSE [char |-> CodePoint[d], next |-> i + 3]
\* (mutant: no room kept for the NUL)
RoomForText(used, n, cap) == used + n <= cap
RoomFor(used, n, cap) == used + n < cap
RECURSIVE UnescapeFrom(_, _, _, _, _)
UnescapeFrom(s, i, end, cap, out) ==
  LET at == CharAt(s, i, end) IN
  IF i >= end THEN [rc |-> IF i = end THEN "OK" ELSE "WRONG", out |-> out]
  ELSE IF at.char = "refused" THEN [rc |-> "JSON", out |-> out]
  ELSE IF at.char = "wrong" THEN [rc |-> "WRONG", out |-> out]
  ELSE IF ~RoomFor(Size(out), Bytes[at.char], cap) THEN [rc |-> "NOMEM", out |-> out]
  ELSE UnescapeFrom(s, at.next, end, cap, Append(out, at.char))
Unescape(s, end, cap) == UnescapeFrom(s, 1, end, cap, <<>>)

\* append_json_string: a character's piece, and the string with its quotes.
\* (mutant: a backslash is written as it is)
PieceRaw(c) == CASE c = "quote" -> <<"back", "quote">>
                 [] c = "newline" -> <<"back", "n">> [] c = "control" -> <<"back", "u", "zero">>
                 [] OTHER -> <<c>>
Piece(c) == CASE c = "quote" -> <<"back", "quote">> [] c = "back" -> <<"back", "back">>
              [] c = "newline" -> <<"back", "n">> [] c = "control" -> <<"back", "u", "zero">>
              [] OTHER -> <<c>>
Append1(out, piece, cap) ==
  IF out.rc # "OK" \/ Size(out.text) + Size(piece) + 1 > cap
  THEN [out EXCEPT !.rc = "NOMEM"] ELSE [out EXCEPT !.text = @ \o piece]
AppendString(chars, cap) ==
  LET body == FoldLeft(LAMBDA out, c : Append1(out, Piece(c), cap),
                       Append1([rc |-> "OK", text |-> <<>>], <<"quote">>, cap), chars)
  IN Append1(body, <<"quote">>, cap)

-----------------------------------------------------------------------------
Init == text = <<>> /\ meant = <<>> /\ open = TRUE

\* An author who writes well, as hubs do: characters as they are or escaped.
Spellings == {[char |-> c, as |-> <<c>>] : c \in {"x", "n", "u", "high"}}
  \cup {[char |-> Letters[c], as |-> <<"back", c>>] : c \in DOMAIN Letters}
  \cup {[char |-> CodePoint[d], as |-> <<"back", "u", d>>] : d \in Hex}
  \cup {[char |-> "pair", as |-> <<"back", "u", "high", "back", "u", "low">>]}
Write(s) == /\ open /\ meant # Anything /\ Len(text) + Len(s.as) <= MaxLength
            /\ ~(s.char = "LOW" /\ meant # <<>> /\ Last(meant) = "HIGH")
            /\ text' = text \o s.as /\ meant' = Append(meant, s.char)
            /\ UNCHANGED open
Close == /\ open /\ open' = FALSE
         /\ text' = Append(text, "quote") /\ UNCHANGED meant
\* Text nobody vouches for.
Scribble(c) == /\ open /\ Len(text) < MaxScribble
               /\ text' = Append(text, c) /\ meant' = Anything /\ UNCHANGED open

Next == \/ \E s \in Spellings : Write(s)
        \/ Close
        \/ \E c \in Symbols : Scribble(c)
Spec == Init /\ [][Next]_vars
-----------------------------------------------------------------------------
Room == 7 * MaxLength
Vouched == ~open /\ meant # Anything
\* The tokenizer's check of a string is enough for unescape, which checks next
\* to nothing itself: of text it accepts, no escape is cut by the closing quote
\* or read past it.  What unescape refuses, room apart, is exactly the escaped
\* NUL, which the check lets pass.
CheckedIsEnough == LET end == StringEnd(text, 1) IN
  end # 0 => Unescape(text, end, Room).rc =
               IF \E i \in 1..end - 1 : text[i] = "nul" THEN "JSON" ELSE "OK"

\* What json.c says of the check: "Validates control characters and escapes
\* exactly as the tokenizer requires (so thalovant_json_unescape can trust the
\* bytes)".
EscapesAreTrusted == LET end == StringEnd(text, 1) IN
  end # 0 => Unescape(text, end, Room).rc = "OK"

\* A string ends where its author closed it, and stands for what its author
\* meant: surrogate halves are one character exactly when both are there.
ReadsAsMeant == Vouched => /\ StringEnd(text, 1) = Len(text)
                           /\ Unescape(text, Len(text), Room).out = meant

\* A buffer is too small exactly when the bytes and their NUL do not fit, and
\* what was written before that fits.
FitsOrFails == Vouched => \A cap \in Caps :
  LET got == Unescape(text, Len(text), cap) IN
  /\ (got.rc = "NOMEM") <=> (Size(meant) + 1 > cap)
  /\ Size(got.out) < cap

\* What append_json_string writes of any bytes is read back as those bytes,
\* and it is written exactly when it fits with its NUL.
WrittenIsRead ==
  LET out == AppendString(meant, Room)  body == Tail(out.text) IN
  Vouched /\ {"pair", "HIGH", "LOW", "TWO"} \cap ToSet(meant) = {} =>
    /\ StringEnd(body, 1) = Len(body) /\ Unescape(body, Len(body), Room).out = meant
    /\ \A cap \in Caps : (AppendString(meant, cap).rc = "OK") <=> (Size(out.text) + 1 <= cap)

\* A string is what its author meant, read or written.
StringsAreMeant == CheckedIsEnough /\ ReadsAsMeant /\ FitsOrFails /\ WrittenIsRead
=============================================================================
