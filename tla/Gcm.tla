-------------------------------- MODULE Gcm --------------------------------
(***************************************************************************)
(* GCM mode of src/aes_gcm.c over one memory: what is sealed in place and  *)
(* opened in place, or over the frame it came in (the binary envelope of   *)
(* src/wire.c), a byte at a time.  A cell is byte m of a message under the *)
(* keystream bytes laid over it, known by counter and offset; the block    *)
(* cipher and GHASH are symbols: a tag is what GHASH was given and the     *)
(* counter of the mask.                                                    *)
(***************************************************************************)
EXTENDS Integers, Sequences, SequencesExt

CONSTANTS BlockSize,  \* 16
          Counters,   \* 2^32
          Nonce,      \* bytes before the ciphertext of a binary envelope
          MaxLength   \* bound of the model: bytes of aad and message

ASSUME GcmAssumption ==
  /\ BlockSize \in Nat \ {0} /\ Counters \in Nat \ {0} /\ Nonce \in Nat
  /\ MaxLength \in Nat /\ MaxLength < BlockSize * (Counters - 1)

VARIABLES mem,
          call,     \* the running call: [op, src, dst, len, aad, j0], or Idle
          counter, done,   \* of gcm_ctr: the block's counter, bytes so far
          sent,     \* the sealed frame: [aad, cells, tag, j0], or Idle
          before,   \* the memory as a decrypt found it
          outcome   \* "none", "sealed", "OK", "AUTH"
gcmVars == <<mem, call, counter, done, sent, before, outcome>>

Idle == [op |-> "idle"]
Addresses == 0..Nonce + MaxLength - 1
ZeroByte == [m |-> -1, pads |-> {}]
Byte(m) == [m |-> m, pads |-> {}]
Toggle(cell, pad) ==
  [cell EXCEPT !.pads = IF pad \in @ THEN @ \ {pad} ELSE @ \cup {pad}]
Cells(from, len) == [k \in 1..len |-> mem[from + k - 1]]
-----------------------------------------------------------------------------
\* ghash_update pads with zeros to whole blocks, ghash_lengths ends it.
PadLen(s) == (BlockSize - (Len(s) % BlockSize)) % BlockSize
Whole(s) == s \o [k \in 1..PadLen(s) |-> ZeroByte]
\* (mutant: no lengths)
GhashNoLengths(aad, cells) == <<Whole(aad) \o Whole(cells)>>
Ghash(aad, cells) == <<Whole(aad) \o Whole(cells), Len(aad), Len(cells)>>
\* gcm_tag.
Tag(aad, cells, j0) == [of |-> Ghash(aad, cells), mask |-> j0]

GcmInit == /\ mem = [a \in Addresses |-> ZeroByte] /\ before = mem
           /\ call = Idle /\ counter = 0 /\ done = 0
           /\ sent = Idle /\ outcome = "none"

\* thalovant_aes_gcm_encrypt in place, from derive_j0 on: any counter, a
\* nonce that is not 12 bytes is hashed.
Encrypt(len, aad, j0) ==
  /\ sent = Idle /\ call.op = "idle"
  /\ mem' = [a \in Addresses |-> IF a < len THEN Byte(a) ELSE ZeroByte]
  /\ call' = [op |-> "encrypt", src |-> 0, dst |-> 0, len |-> len,
              aad |-> [k \in 1..aad |-> Byte(100 + k)], j0 |-> j0]
  /\ counter' = j0 /\ done' = 0
  /\ UNCHANGED <<sent, before, outcome>>

\* A turn of gcm_ctr: inc32 at each block, one byte.
\* (mutant: the counter is used before it is incremented)
BlockCounterLate == IF done % BlockSize = 0 /\ done > 0 THEN (counter + 1) % Counters ELSE counter
BlockCounter == IF done % BlockSize = 0 THEN (counter + 1) % Counters ELSE counter
\* (mutant: decrypt does not wait for the tag)
MayRunUnverified == call.op \in {"encrypt", "verify", "decrypt"}
MayRun == call.op \in {"encrypt", "decrypt"}
Ctr == /\ MayRun /\ done < call.len
       /\ counter' = BlockCounter
       /\ mem' = [mem EXCEPT ![call.dst + done] =
                    Toggle(mem[call.src + done], <<counter', done % BlockSize>>)]
       /\ done' = done + 1
       /\ UNCHANGED <<call, sent, before, outcome>>

\* The tag of what was sealed; the frame goes out.
Seal == /\ call.op = "encrypt" /\ done = call.len
        /\ LET cells == Cells(call.dst, call.len) IN
           sent' = [aad |-> call.aad, cells |-> cells, j0 |-> call.j0,
                    tag |-> Tag(call.aad, cells, call.j0)]
        /\ call' = Idle /\ outcome' = "sealed"
        /\ UNCHANGED <<mem, counter, done, before>>

\* The link: a byte of another message, one less, one more, or the border
\* between aad and ciphertext elsewhere.
Arrivals ==
  LET a == sent.aad  c == sent.cells IN
  {<<a, c>>, <<a, Append(c, ZeroByte)>>}
  \cup {<<a, [c EXCEPT ![k] = Byte(99)]>> : k \in DOMAIN c}
  \cup {<<SubSeq(a \o c, 1, k), SubSeq(a \o c, k + 1, Len(a \o c))>> : k \in 0..Len(a \o c)}
  \cup (IF c = <<>> THEN {} ELSE {<<a, Front(c)>>})

\* thalovant_aes_gcm_decrypt: the tag first, and on a mismatch nothing else.
\* The plaintext goes where the ciphertext is, or Nonce bytes before it.
Decrypt(arrival, back) ==
  LET cells == arrival[2] IN
  /\ outcome = "sealed" /\ call.op = "idle" /\ Len(cells) <= MaxLength
  /\ mem' = [a \in Addresses |-> IF a >= Nonce /\ a < Nonce + Len(cells)
                                 THEN cells[a - Nonce + 1] ELSE ZeroByte]
  /\ before' = mem'
  /\ call' = [op |-> "verify", src |-> Nonce, dst |-> Nonce - back, len |-> Len(cells),
              aad |-> arrival[1], j0 |-> sent.j0]
  /\ counter' = sent.j0 /\ done' = 0
  /\ UNCHANGED <<sent, outcome>>
Verify ==
  /\ call.op = "verify"
  /\ IF sent.tag = Tag(call.aad, Cells(call.src, call.len), call.j0)
     THEN call' = [call EXCEPT !.op = "decrypt"] /\ UNCHANGED outcome
     ELSE call' = [call EXCEPT !.op = "idle"] /\ outcome' = "AUTH"
  /\ UNCHANGED <<mem, counter, done, sent, before>>
Open == /\ call.op = "decrypt" /\ done = call.len
        /\ call' = [call EXCEPT !.op = "idle"] /\ outcome' = "OK"
        /\ UNCHANGED <<mem, counter, done, sent, before>>

GcmNext == \/ \E len, aad \in 0..MaxLength, j0 \in 0..Counters - 1 : Encrypt(len, aad, j0)
           \/ Ctr \/ Seal
           \/ outcome = "sealed" /\ \E x \in Arrivals, back \in {0, Nonce} : Decrypt(x, back)
           \/ Verify \/ Open
GcmSpec == GcmInit /\ [][GcmNext]_gcmVars
-----------------------------------------------------------------------------
\* What is opened is what was sealed, byte for byte, also when it is written
\* over the frame it is read from; and nothing else is ever opened, also when
\* a byte moved between aad and message, or a zero was added.
OpensWhatWasSealed == outcome = "OK" =>
  /\ call.aad = sent.aad /\ call.len = Len(sent.cells)
  /\ Cells(call.dst, call.len) = [k \in 1..call.len |-> Byte(k - 1)]

\* A frame whose tag is wrong leaves the caller's buffer as it was: no byte of
\* what it would decrypt to is released.
RefusalReleasesNothing == outcome = "AUTH" => mem = before

\* No two bytes of a message are under the same keystream byte, none is under
\* the block that masks the tag, and none is left bare, whatever counter the
\* nonce begins at and wherever it wraps.
KeystreamOnce == sent # Idle =>
  /\ \A k \in DOMAIN sent.cells : \E pad \in sent.cells[k].pads : sent.cells[k].pads = {pad}
  /\ \A k, l \in DOMAIN sent.cells : k # l => sent.cells[k].pads # sent.cells[l].pads
  /\ \A k \in DOMAIN sent.cells : \A pad \in sent.cells[k].pads : pad[1] # sent.j0

\* The three together.
SealedAndOpened == OpensWhatWasSealed /\ RefusalReleasesNothing /\ KeystreamOnce
=============================================================================
