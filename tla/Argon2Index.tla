----------------------------- MODULE Argon2Index -----------------------------
(***************************************************************************)
(* The order in which thalovant_noise_psk (src/noise_psk.c) fills its one  *)
(* lane: in every pass over four slices each block is made of the one      *)
(* before it and of a reference block that a pseudo-random word selects.   *)
(* The words are any; in the first two slices of the first pass they come  *)
(* from address blocks that are generated as the walk goes.                *)
(***************************************************************************)
EXTENDS Integers

CONSTANTS Segment,   \* 16384 blocks of a slice
          Passes,    \* 3
          Width,     \* 128 words of an address block
          Range32    \* 2^32, the values of half a word

Slices == 4
Lane == Slices * Segment
HalfWord == 0..Range32 - 1

ASSUME ArgonAssumption ==
  /\ Segment \in Nat /\ Segment > 2 /\ Passes \in Nat \ {0}
  /\ Width \in Nat /\ Width > 1 /\ Range32 \in Nat \ {0}

VARIABLES pass, slice, i,
          address,    \* input[6], the number of the address block at hand
          times,      \* history: how often each block was filled
          read        \* history: the last reference
walkVars == <<pass, slice, i, address, times, read>>

Current == slice * Segment + i
Previous == IF Current = 0 THEN Lane - 1 ELSE Current - 1
Independent == pass = 0 /\ slice < 2
Start(p, s) == IF p = 0 /\ s = 0 THEN 2 ELSE 0

\* Where a word refers to.
\* (mutant: the area of the later passes is the whole lane)
ReferenceWholeLane(random) ==
  LET area == IF pass # 0 THEN Lane + i - 1 ELSE Current - 1
      square == (random * random) \div Range32
      relative == area - 1 - (area * square) \div Range32
      offset == IF pass = 0 \/ slice = 3 THEN 0 ELSE (slice + 1) * Segment
  IN (offset + relative) % Lane
Reference(random) ==
  LET area == IF pass # 0 THEN Lane - Segment + i - 1 ELSE Current - 1
      square == (random * random) \div Range32
      relative == area - 1 - (area * square) \div Range32
      offset == IF pass = 0 \/ slice = 3 THEN 0 ELSE (slice + 1) * Segment
  IN (offset + relative) % Lane
-----------------------------------------------------------------------------
\* Two blocks come from the long hash; an address block is made before the
\* first slice, which starts behind the index that would make it.
WalkInit == /\ pass = 0 /\ slice = 0 /\ i = Start(0, 0)
            /\ address = 1
            /\ times = [b \in 0..Lane - 1 |-> IF b < 2 THEN 1 ELSE 0]
            /\ read = 0

\* input[6] when a word is needed.
\* (mutant: one block is made per slice)
AddressPerSlice == IF i = 0 THEN address + 1 ELSE address
AddressAt == IF Independent /\ i % Width = 0 THEN address + 1 ELSE address

Fill == /\ pass < Passes /\ i < Segment
        /\ \E random \in HalfWord : read' = Reference(random)
        /\ times' = [times EXCEPT ![Current] = @ + 1]
        /\ address' = AddressAt
        /\ i' = i + 1
        /\ UNCHANGED <<pass, slice>>
\* The loops around it; input starts anew in every slice.
\* (mutant: the slices of later passes start where the first one does)
NextSliceLate == /\ pass < Passes /\ i = Segment
                 /\ slice' = (slice + 1) % Slices
                 /\ pass' = IF slice' = 0 THEN pass + 1 ELSE pass
                 /\ i' = Start(0, slice')
                 /\ address' = 0
                 /\ UNCHANGED <<times, read>>
NextSlice == /\ pass < Passes /\ i = Segment
             /\ slice' = (slice + 1) % Slices
             /\ pass' = IF slice' = 0 THEN pass + 1 ELSE pass
             /\ i' = Start(pass', slice')
             /\ address' = 0
             /\ UNCHANGED <<times, read>>
WalkNext == Fill \/ NextSlice
WalkSpec == WalkInit /\ [][WalkNext]_walkVars
-----------------------------------------------------------------------------
\* Types.
WalkTypeOK == /\ pass \in 0..Passes /\ slice \in 0..3 /\ i \in 0..Segment
              /\ pass = Passes => slice = 0 /\ i = 0
              /\ pass = 0 /\ slice = 0 => i >= 2
              /\ address \in Nat /\ times \in [0..Lane - 1 -> Nat] /\ read \in Int

\* A block is filled as often as there were passes over it, and no oftener:
\* those before the walk's position one time more than those behind it.
FilledOncePerPass ==
  \A b \in 0..Lane - 1 :
    times[b] = IF b < Current THEN pass + 1 ELSE IF pass = 0 /\ b < 2 THEN 1 ELSE pass

\* Whatever the word, the reference is a block that holds something: not the
\* one being filled, not the one before it, in the current slice only blocks of
\* this pass, and never one the walk has not reached in the first pass.
ReferenceIsReady ==
  pass < Passes /\ i < Segment =>
    \A random \in HalfWord :
      LET r == Reference(random)
      IN /\ r \in 0..Lane - 1 /\ r \notin {Current, Previous}
         /\ times[r] > 0
         /\ r \div Segment = slice => times[r] = pass + 1

\* The word of index i - 1, the last one, was of address block (i - 1) div Width + 1.
AddressIsOfIndex == Independent /\ i > 0 => address = (i - 1) \div Width + 1

\* Every block is made of what it should be made of: the walk fills each block
\* once per pass, what a word refers to is there to be read, and the word is
\* the one its index names.
WalkIsSound == WalkTypeOK /\ FilledOncePerPass /\ ReferenceIsReady /\ AddressIsOfIndex
=============================================================================
