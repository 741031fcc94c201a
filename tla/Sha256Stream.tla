---------------------------- MODULE Sha256Stream ----------------------------
(***************************************************************************)
(* The buffer of src/sha256.c, one turn of a loop at a time.  Byte p of    *)
(* the message is the number p; what padding adds is negative.  The        *)
(* compression function only sees whole blocks in order: stream is the     *)
(* bytes it was given, and the digest is that stream.                      *)
(***************************************************************************)
EXTENDS Integers

CONSTANTS Block,       \* 64
          LengthSize,  \* 8, the bytes of the length
          MaxMessage   \* bound of the model: bytes of a message

ShaAssumption ==
  /\ Block \in Nat /\ LengthSize \in Nat \ {0} /\ LengthSize < Block
  /\ MaxMessage \in Nat

VARIABLES length,     \* ctx->length, in bytes
          buffer, buffered,
          stream,     \* what was compressed: its bytes, by position
          count,      \* and how many they are
          todo,       \* len of a running update
          phase,      \* "idle", "update", "pad", "done"
          bitLength   \* bit_length of final
vars == <<length, buffer, buffered, stream, count, todo, phase, bitLength>>

Pad == -1        \* 0x80
Zero == -2
Stale == -3      \* what the buffer held before
LengthByte(n) == -4 - n

-----------------------------------------------------------------------------
Init == /\ length = 0 /\ buffered = 0 /\ count = 0 /\ todo = 0
        /\ buffer = [j \in 0..Block - 1 |-> Stale]
        /\ stream = [p \in 0..-1 |-> Stale]
        /\ phase = "idle" /\ bitLength = 0

\* memcpy into the buffer, and sha256_block when that fills it.
Copied(take, bytes) ==
  [j \in 0..Block - 1 |-> IF buffered <= j /\ j < buffered + take
                          THEN bytes[j - buffered] ELSE buffer[j]]
Compressed(full) ==
  [p \in 0..count + Block - 1 |-> IF p < count THEN stream[p] ELSE full[p - count]]
\* (mutant: a full buffer is left for the next call)
PutLazily(take, bytes) ==
  /\ buffer' = Copied(take, bytes)
  /\ IF buffered + take > Block
     THEN /\ stream' = Compressed(buffer') /\ count' = count + Block /\ buffered' = 0
     ELSE /\ UNCHANGED <<stream, count>> /\ buffered' = buffered + take
Put(take, bytes) ==
  /\ buffer' = Copied(take, bytes)
  /\ IF buffered + take = Block
     THEN /\ stream' = Compressed(buffer') /\ count' = count + Block /\ buffered' = 0
     ELSE /\ UNCHANGED <<stream, count>> /\ buffered' = buffered + take

\* thalovant_sha256_update: the call, and a turn of its loop.
Update(n) == /\ phase = "idle" /\ length + n <= MaxMessage
             /\ length' = length + n /\ todo' = n
             /\ phase' = IF n = 0 THEN "idle" ELSE "update"
             /\ UNCHANGED <<buffer, buffered, stream, count, bitLength>>
Take == IF Block - buffered > todo THEN todo ELSE Block - buffered
UpdateTurn ==
  /\ phase = "update"
  /\ Put(Take, [k \in 0..Take - 1 |-> length - todo + k])
  /\ todo' = todo - Take
  /\ phase' = IF todo' = 0 THEN "idle" ELSE "update"
  /\ UNCHANGED <<length, bitLength>>

\* thalovant_sha256_final: 0x80, zeros up to the length, the length.
\* (mutant: the length is taken after the padding was counted)
FinalCountsPad == /\ phase = "idle"
                  /\ bitLength' = length + 1
                  /\ Put(1, [k \in {0} |-> Pad])
                  /\ phase' = "pad"
                  /\ UNCHANGED <<length, todo>>
Final == /\ phase = "idle"
         /\ bitLength' = length
         /\ Put(1, [k \in {0} |-> Pad])
         /\ phase' = "pad"
         /\ UNCHANGED <<length, todo>>
\* (mutant: no block is closed for a length that has no room left)
PadTurnInBlock == /\ phase = "pad" /\ buffered < Block - LengthSize
                  /\ Put(1, [k \in {0} |-> Zero])
                  /\ UNCHANGED <<length, todo, phase, bitLength>>
PadTurn == /\ phase = "pad" /\ buffered # Block - LengthSize
           /\ Put(1, [k \in {0} |-> Zero])
           /\ UNCHANGED <<length, todo, phase, bitLength>>
Close == /\ phase = "pad" /\ buffered = Block - LengthSize
         /\ buffer' = [j \in 0..Block - 1 |-> IF j >= Block - LengthSize
                                             THEN LengthByte(bitLength) ELSE buffer[j]]
         /\ stream' = Compressed(buffer') /\ count' = count + Block
         /\ phase' = "done"
         /\ UNCHANGED <<length, buffered, todo, bitLength>>

Next == \/ \E n \in 0..MaxMessage : Update(n)
        \/ UpdateTurn \/ Final \/ PadTurn \/ Close
Spec == Init /\ [][Next]_vars /\ WF_vars(UpdateTurn \/ PadTurn \/ Close)
-----------------------------------------------------------------------------
\* FIPS 180-4: the message, one bit, zeros, the length, to whole blocks.
Size(n) == Block * ((n + LengthSize) \div Block + 1)
Padded(n) ==
  [p \in 0..Size(n) - 1 |-> IF p < n THEN p ELSE IF p = n THEN Pad
                            ELSE IF p < Size(n) - LengthSize THEN Zero ELSE LengthByte(n)]

\* Types; the buffer is never left full between two turns.
TypeOK == /\ length \in 0..MaxMessage /\ todo \in 0..length
          /\ buffered \in 0..Block - 1
          /\ count \in Nat /\ DOMAIN stream = 0..count - 1
          /\ DOMAIN buffer = 0..Block - 1
          /\ phase \in {"idle", "update", "pad", "done"}
          /\ bitLength \in 0..length

\* However a message is cut into updates, at, across or between the block
\* boundaries, its digest is that of the message at once: no byte is skipped,
\* repeated or left over from before, and the length is the message's.
OneShot == INSTANCE OneShotHash WITH
  Digest <- [n \in 0..MaxMessage |-> Padded(n)], NoDigest <- <<>>,
  absorbed <- length, digest <- IF phase = "done" THEN stream ELSE <<>>
ImplementsOneShot == OneShot!Spec

\* Every loop ends, the padding's too when the length does not fit its block.
CallsReturn == (phase \in {"update", "pad"}) ~> (phase \in {"idle", "done"})
=============================================================================
