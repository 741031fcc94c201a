---------------------------- MODULE Blake2Stream ----------------------------
(***************************************************************************)
(* The BLAKE2b buffer of src/noise_psk.c, one turn of a loop at a time, as *)
(* Sha256Stream.  A full buffer is compressed only when more data comes,   *)
(* because the last block is compressed differently; every compression is  *)
(* given the count of bytes so far.  marks is the history of <<count, last>>*)
(* of the compressions.  Then the long hash of Argon2 made of it.          *)
(***************************************************************************)
EXTENDS Integers, Sequences

CONSTANTS Block,       \* 128
          MaxMessage,  \* bound of the model: bytes of a message or long hash
          Half         \* 32, half a digest

BlakeAssumption == /\ Block \in Nat \ {0} /\ MaxMessage \in Nat
                   /\ Half \in Nat \ {0}

VARIABLES block, used, count, stream, size, marks,
          absorbed,   \* history: bytes of the updates so far
          todo, phase
vars == <<block, used, count, stream, size, marks, absorbed, todo, phase>>

Zero == -2
-----------------------------------------------------------------------------
\* binit
Init == /\ block = [j \in 0..Block - 1 |-> Zero]
        /\ used = 0 /\ count = 0 /\ size = 0 /\ absorbed = 0 /\ todo = 0
        /\ stream = [p \in 0..-1 |-> Zero] /\ marks = <<>>
        /\ phase = "idle"

\* compress, by what it reads: the block, the count, whether it is the last.
Compress(content, counted, last) ==
  /\ stream' = [p \in 0..size + Block - 1 |->
                  IF p < size THEN stream[p] ELSE content[p - size]]
  /\ size' = size + Block
  /\ marks' = Append(marks, <<counted, last>>)

Update(n) == /\ phase = "idle" /\ absorbed + n <= MaxMessage
             /\ absorbed' = absorbed + n /\ todo' = n
             /\ phase' = IF n = 0 THEN "idle" ELSE "update"
             /\ UNCHANGED <<block, used, count, stream, size, marks>>

\* One turn of update's loop: a full block first, if there is one, then the copy.
Copy(at) ==
  LET take == IF Block - at > todo THEN todo ELSE Block - at
  IN /\ block' = [j \in 0..Block - 1 |-> IF at <= j /\ j < at + take
                                         THEN absorbed - todo + (j - at) ELSE block[j]]
     /\ used' = at + take
     /\ todo' = todo - take
     /\ phase' = IF todo' = 0 THEN "idle" ELSE "update"
\* (mutant: a block is compressed as soon as it is full)
UpdateTurnEager ==
  /\ phase = "update"
  /\ Copy(used % Block)
  /\ IF used' = Block
     THEN /\ count' = count + Block
          /\ Compress(block', count', FALSE)
     ELSE UNCHANGED <<count, stream, size, marks>>
  /\ UNCHANGED absorbed
UpdateTurn ==
  /\ phase = "update"
  /\ IF used = Block
     THEN /\ count' = count + Block
          /\ Compress(block, count', FALSE)
          /\ Copy(0)
     ELSE /\ UNCHANGED <<count, stream, size, marks>>
          /\ Copy(used)
  /\ UNCHANGED absorbed

Final == /\ phase = "idle"
         /\ count' = count + used
         /\ block' = [j \in 0..Block - 1 |-> IF j < used THEN block[j] ELSE Zero]
         /\ Compress(block', count', TRUE)
         /\ phase' = "done"
         /\ UNCHANGED <<used, absorbed, todo>>

Next == (\E n \in 0..MaxMessage : Update(n)) \/ UpdateTurn \/ Final
Spec == Init /\ [][Next]_vars
-----------------------------------------------------------------------------
\* longhash: each entry is a hash of the chain and how many of its bytes are
\* copied out; the first takes the data, the others the one before them.
Chain[left \in 0..MaxMessage] ==
  [v \in Nat |->
     IF left > 2 * Half
     THEN <<<<v, Half>>>> \o Chain[left - Half][IF left - Half > 2 * Half THEN v + 1 ELSE v]
     ELSE <<<<v + 1, left>>>>]
LongHash(output) ==
  IF output <= 2 * Half THEN <<<<1, output>>>> ELSE Chain[output][1]
-----------------------------------------------------------------------------
\* RFC 7693: the message in whole blocks, filled up with zeros, at least one;
\* each is given the bytes up to its end, only the last one is marked last.
Needed(n) == IF n = 0 THEN 1 ELSE (n - 1) \div Block + 1
Hashed(n) ==
  [bytes |-> [p \in 0..Needed(n) * Block - 1 |-> IF p < n THEN p ELSE Zero],
   marks |-> [k \in 1..Needed(n) |-> IF k = Needed(n) THEN <<n, TRUE>>
                                     ELSE <<k * Block, FALSE>>]]

\* Types; the buffer may be full between two turns, but never overfull.
TypeOK == /\ absorbed \in 0..MaxMessage /\ todo \in 0..absorbed
          /\ used \in 0..Block /\ count \in 0..absorbed /\ size \in Nat
          /\ DOMAIN block = 0..Block - 1 /\ DOMAIN stream = 0..size - 1
          /\ phase \in {"idle", "update", "done"}

\* However a message is cut into updates, the digest is that of the message at
\* once: a message of whole blocks gets no block of padding behind it, and its
\* last data block, not an empty one, is marked last.
OneShot == INSTANCE OneShotHash WITH
  Digest <- [n \in 0..MaxMessage |-> Hashed(n)], NoDigest <- <<>>,
  absorbed <- absorbed,
  digest <- IF phase = "done" THEN [bytes |-> stream, marks |-> marks] ELSE <<>>
ImplementsOneShot == OneShot!Spec

\* RFC 9106, 3.3: ceil(T/32) - 2 halves of 64-byte digests, each the hash of the
\* one before, then one digest of all that is left, never of more than 64.
LongHashIsChained ==
  LET output == absorbed   \* a length, as good as any
      r == (output + Half - 1) \div Half - 2
  IN output > 0 =>
       LongHash(output) =
         IF output <= 2 * Half THEN <<<<1, output>>>>
         ELSE [i \in 1..r + 1 |-> IF i <= r THEN <<i, Half>> ELSE <<i, output - Half * r>>]
=============================================================================
