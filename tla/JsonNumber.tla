----------------------------- MODULE JsonNumber -----------------------------
(***************************************************************************)
(* The numbers of src/json.c: what check_primitive lets through, and what  *)
(* the three readers of a value take it for.  "1" is any digit but zero.   *)
(***************************************************************************)
EXTENDS Integers, Sequences, FiniteSets

CONSTANTS MaxLength,   \* bound of the model: characters
          BoolBuf,     \* 16, the buffer of as_bool
          ValueBuf,    \* 32, that of as_int and is_truthy
          LongMax,
          MinExponent  \* an exponent so far below zero that strtod gives zero

NumberAssumption == BoolBuf <= ValueBuf /\ BoolBuf > 1

VARIABLES text
vars == <<text>>
Digit == {"0", "1"}
Init == text = <<>>
Grow(c) == Len(text) < MaxLength /\ text' = Append(text, c)
Next == \E c \in Digit \cup {"-", "+", ".", "e"} : Grow(c)
Spec == Init /\ [][Next]_vars
-----------------------------------------------------------------------------
Char(i) == IF i <= Len(text) THEN text[i] ELSE "end"
\* The first place from i on that holds no digit.
AfterDigits(i) == CHOOSE k \in i..Len(text) + 1 :
  Char(k) \notin Digit /\ \A j \in i..k - 1 : Char(j) \in Digit

\* check_primitive: a sign, an integer without leading zeros, then a fraction
\* and an exponent with a digit each.  0 is where it fails.
Integer == LET i == IF Char(1) = "-" THEN 2 ELSE 1
           IN IF Char(i) = "0" THEN i + 1 ELSE IF Char(i) = "1" THEN AfterDigits(i) ELSE 0
\* (mutant: a fraction may be empty)
FractionEmpty(i) == IF Char(i) = "." THEN AfterDigits(i + 1) ELSE i
Fraction(i) == IF Char(i) # "." THEN i
               ELSE IF Char(i + 1) \in Digit THEN AfterDigits(i + 1) ELSE 0
Exponent(i) ==
  LET start == IF Char(i + 1) \in {"+", "-"} THEN i + 2 ELSE i + 1
  IN IF Char(i) # "e" THEN i ELSE IF Char(start) \in Digit THEN AfterDigits(start) ELSE 0
CheckPrimitive == /\ Integer # 0 /\ Fraction(Integer) # 0
                  /\ Exponent(Fraction(Integer)) = Len(text) + 1

\* thalovant_json_as_string of a primitive: its characters, if they fit.
AsString(cap) == Len(text) + 1 <= cap
\* strtod and strtol, which read the whole of what check_primitive accepts,
\* strtol if it is an integer.
Mantissa == {i \in DOMAIN text : \A j \in 1..i : text[j] # "e"}
IsInteger == \A i \in DOMAIN text : text[i] \notin {".", "e"}
\* The digits the text ends with, as a number: the integer's, or the exponent's.
LastNumber == LET v[i \in 0..Len(text)] ==
                    IF i = 0 THEN 0 ELSE IF text[i] \notin Digit THEN 0
                    ELSE 10 * v[i - 1] + (IF text[i] = "1" THEN 1 ELSE 0)
              IN v[Len(text)]
Underflows == /\ Char(Cardinality(Mantissa) + 1) = "e" /\ Char(Cardinality(Mantissa) + 2) = "-"
              /\ LastNumber > MinExponent
NotZero == ~Underflows /\ \E i \in Mantissa : text[i] = "1"
Value == IF Char(1) = "-" THEN -LastNumber ELSE LastNumber

\* (mutant: a number that does not fit is read as far as it does)
AsIntCut == IF ~IsInteger THEN [rc |-> "INVALID"]
            ELSE [rc |-> "OK", value |-> IF AsString(ValueBuf) THEN Value ELSE 0]
AsInt == IF ~AsString(ValueBuf) \/ ~IsInteger \/ Value > LongMax \/ Value < -LongMax - 1
         THEN [rc |-> "INVALID"] ELSE [rc |-> "OK", value |-> Value]
AsBool(fallback) ==
  IF ~AsString(BoolBuf) THEN fallback
  ELSE IF text = <<"1">> THEN TRUE ELSE IF text = <<"0">> THEN FALSE ELSE NotZero
IsTruthy == IF AsString(ValueBuf) THEN NotZero ELSE TRUE
-----------------------------------------------------------------------------
\* RFC 8259, section 6, by where its parts end: -? (0 | [1-9][0-9]*) frac? exp?
Digits(i, j) == i <= j /\ \A k \in i..j : Char(k) \in Digit
IsNumber == \E sign \in 0..1, e \in 0..Len(text), f \in 0..Len(text) :
  /\ sign = 1 <=> Char(1) = "-"
  /\ Digits(sign + 1, e) /\ (Char(sign + 1) = "0" => e = sign + 1)
  /\ f = e \/ (Char(e + 1) = "." /\ Digits(e + 2, f))
  /\ \/ f = Len(text)
     \/ Char(f + 1) = "e" /\ \E s \in {0, 1} :
          (s = 1 => Char(f + 2) \in {"+", "-"}) /\ Digits(f + 2 + s, Len(text))
\* Exactly the numbers of the RFC are primitives, so that the length strtod
\* and strtol read is the length the tokenizer saw.
OnlyNumbers == CheckPrimitive <=> IsNumber

\* The readers of one number agree on whether it is zero as long as it fits
\* the smaller buffer; a longer one is the caller's fallback, or true, and
\* never the number its first characters would be.
ReadersAgree == CheckPrimitive =>
  /\ AsInt.rc = "OK" => (AsInt.value # 0 <=> IsTruthy)
  /\ \A fallback \in BOOLEAN :
       AsBool(fallback) = IF Len(text) < BoolBuf THEN IsTruthy ELSE fallback
=============================================================================
