-------------------------------- MODULE Codec --------------------------------
(***************************************************************************)
(* src/codec.c: bytes as hexadecimal digits and in Base64, and back.  A    *)
(* digit of either alphabet is its value; PadDigit is "=", BadDigit any    *)
(* other character.                                                        *)
(***************************************************************************)
EXTENDS Naturals, Sequences

CONSTANTS IntMax,              \* INT_MAX, of the result that is a length
          Bytes, Digits,       \* bounds of the model: bytes to encode, digits
          MaxBytes, MaxDigits, \* to decode, how many of each
          Caps                 \* sizes of the caller's buffer

CodecAssumption == /\ Bytes \subseteq 0..255 /\ Digits \subseteq 0..63
                   /\ IntMax \in Nat /\ Caps \subseteq Nat

VARIABLES text,   \* what is decoded
          rows    \* what is encoded
codecVars == <<text, rows>>

PadDigit == 64
BadDigit == 65
Power == <<1, 2, 4, 8, 16, 32, 64, 128>>
Done(out) == [rc |-> "OK", out |-> out]
Failed(code, out) == [rc |-> code, out |-> out]

-----------------------------------------------------------------------------
\* thalovant_hex_encode and thalovant_hex_decode
HexEncode(in, cap) ==
  IF Len(in) > IntMax \div 2 \/ cap = 0 \/ Len(in) > (cap - 1) \div 2 THEN Failed("NOMEM", <<>>)
  ELSE Done([i \in 1..(2 * Len(in)) |-> LET b == in[(i + 1) \div 2] IN
                                        IF i % 2 = 1 THEN b \div 16 ELSE b % 16])
HexDecode(in, cap) ==
  LET bad == {i \in 1..(Len(in) \div 2) : in[2 * i - 1] > 15 \/ in[2 * i] > 15}
      good == IF bad = {} THEN Len(in) \div 2
              ELSE (CHOOSE i \in bad : \A j \in bad : i <= j) - 1
      out == [i \in 1..good |-> 16 * in[2 * i - 1] + in[2 * i]]
  IN IF Len(in) % 2 # 0 THEN Failed("INVALID", <<>>)
     ELSE IF Len(in) \div 2 > IntMax \/ cap < Len(in) \div 2 THEN Failed("NOMEM", <<>>)
     ELSE IF bad # {} THEN Failed("INVALID", out) ELSE Done(out)

\* thalovant_base64_encode: a chunk of three bytes, or of what is left.
Chunk(in, i) ==
  LET byte(n) == IF n <= Len(in) THEN in[n] ELSE 0
      chunk == byte(i) * 65536 + byte(i + 1) * 256 + byte(i + 2)
      digit == <<chunk \div 262144, (chunk \div 4096) % 64, (chunk \div 64) % 64, chunk % 64>>
  IN [n \in 1..4 |-> IF n <= 2 \/ i + n - 2 <= Len(in) THEN digit[n] ELSE PadDigit]
Base64Encode(in, cap) ==
  LET chunks == (Len(in) + 2) \div 3
  IN IF Len(in) > 3 * (IntMax \div 4) \/ cap < 4 * chunks + 1 THEN Failed("NOMEM", <<>>)
     ELSE Done([n \in 1..4 * chunks |-> Chunk(in, 3 * ((n - 1) \div 4) + 1)[((n - 1) % 4) + 1]])

\* thalovant_base64_decode: the padding, the room, and digit by digit.
Unpadded(in) ==
  SubSeq(in, 1, CHOOSE n \in 0..Len(in) : /\ n = 0 \/ in[n] # PadDigit
                                          /\ \A i \in n + 1..Len(in) : in[i] = PadDigit)
\* (mutant: any padding of up to two is taken)
PaddingLoose(in, digits) == Len(in) - Len(digits) <= 2
PaddingFits(in, digits) ==
  LET padding == Len(in) - Len(digits)
  IN padding <= 2 /\ (padding # 0 => Len(in) % 4 = 0 /\ Len(digits) % 4 = 4 - padding)
\* acc is a uint32_t; its low 12 bits are all that is read.
\* (mutant: a byte is taken when six bits are there)
DecodeStepEarly(r, value) ==
  LET acc == (r.acc * 64 + value) % 4096  bits == r.bits + 6
  IN IF r.rc # "OK" THEN r
     ELSE IF value > 63 THEN [r EXCEPT !.rc = "INVALID"]
     ELSE IF bits < 7 THEN [r EXCEPT !.acc = acc, !.bits = bits]
     ELSE [r EXCEPT !.acc = acc, !.bits = 0, !.out = Append(@, (acc \div 16) % 256)]
DecodeStep(r, value) ==
  LET acc == (r.acc * 64 + value) % 4096  bits == r.bits + 6
  IN IF r.rc # "OK" THEN r
     ELSE IF value > 63 THEN [r EXCEPT !.rc = "INVALID"]
     ELSE IF bits < 8 THEN [r EXCEPT !.acc = acc, !.bits = bits]
     ELSE [r EXCEPT !.acc = acc, !.bits = bits - 8,
                    !.out = Append(@, (acc \div Power[bits - 7]) % 256)]
Room(digits) == 3 * (Len(digits) \div 4) + <<0, 0, 1, 2>>[(Len(digits) % 4) + 1]
Base64Decode(in, cap) ==
  LET digits == Unpadded(in)
      after[n \in 0..Len(digits)] ==
        IF n = 0 THEN [rc |-> "OK", acc |-> 0, bits |-> 0, out |-> <<>>]
        ELSE DecodeStep(after[n - 1], digits[n])
      end == after[Len(digits)]
  IN IF Len(in) \div 4 > IntMax \div 3 THEN Failed("NOMEM", <<>>)
     ELSE IF ~PaddingFits(in, digits) \/ Len(digits) % 4 = 1 THEN Failed("INVALID", <<>>)
     ELSE IF Room(digits) > IntMax \/ cap < Room(digits) THEN Failed("NOMEM", <<>>)
     ELSE [rc |-> end.rc, out |-> end.out]
-----------------------------------------------------------------------------
\* Everything there is to decode, and everything there is to encode.
CodecInit == text = <<>> /\ rows = <<>>
GrowText == /\ rows = <<>> /\ Len(text) < MaxDigits
            /\ \E d \in Digits \cup {PadDigit, BadDigit} : text' = Append(text, d)
            /\ UNCHANGED rows
GrowRows == /\ text = <<>> /\ Len(rows) < MaxBytes
            /\ \E b \in Bytes : rows' = Append(rows, b)
            /\ UNCHANGED text
CodecNext == GrowText \/ GrowRows
CodecSpec == CodecInit /\ [][CodecNext]_codecVars
-----------------------------------------------------------------------------
\* What one side encodes the other decodes to the same bytes, into a buffer
\* that just holds them; and it is encoded exactly if there is room for it and
\* for a NUL and the result can tell how long it is.
HexComesBack ==
  LET size == 2 * Len(rows)  hex == HexEncode(rows, size + 1)
  IN /\ hex.rc = "OK" => HexDecode(hex.out, Len(rows)) = Done(rows)
     /\ \A cap \in Caps : HexEncode(rows, cap) =
          IF size < cap /\ size <= IntMax THEN hex ELSE Failed("NOMEM", <<>>)

\* So in Base64, padded or not.
Base64ComesBack ==
  LET size == 4 * ((Len(rows) + 2) \div 3)  base64 == Base64Encode(rows, size + 1)
  IN /\ base64.rc = "OK" =>
          /\ Base64Decode(base64.out, Len(rows)) = Done(rows)
          /\ Base64Decode(Unpadded(base64.out), Len(rows)) = Done(rows)
     /\ \A cap \in Caps : Base64Encode(rows, cap) =
          IF size < cap /\ size <= IntMax THEN base64 ELSE Failed("NOMEM", <<>>)

\* A text is decoded to the bytes its bits spell, with no padding or the one
\* that completes the last four, and never past the buffer, whatever is wrong
\* with it.
BitsAreBytes ==
  LET digits == Unpadded(text)
      size == Room(digits)
      bit(j) == (digits[j \div 6 + 1] \div Power[6 - (j % 6)]) % 2
      good == /\ \A i \in 1..Len(digits) : digits[i] < PadDigit
              /\ Len(digits) % 4 # 1
              /\ digits = text \/ (Len(text) % 4 = 0 /\ Len(text) - Len(digits) <= 2)
              /\ Len(text) \div 4 <= IntMax \div 3 /\ size <= IntMax
  IN \A cap \in Caps : LET decoded == Base64Decode(text, cap) IN
       /\ (decoded.rc = "OK") = (good /\ size <= cap)
       /\ decoded.rc = "OK" =>
            /\ decoded.out \in [1..size -> 0..255]
            /\ \A n \in 1..size, k \in 0..7 :
                 (decoded.out[n] \div Power[8 - k]) % 2 = bit(8 * (n - 1) + k)
       /\ Len(decoded.out) <= cap /\ Len(HexDecode(text, cap).out) <= cap

BytesAreKept == HexComesBack /\ Base64ComesBack /\ BitsAreBytes
=============================================================================
