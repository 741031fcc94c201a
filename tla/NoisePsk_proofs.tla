-------------------------- MODULE NoisePsk_proofs --------------------------
(***************************************************************************)
(* The two algorithms of src/noise_psk.c around its numeric kernels.       *)
(* Argon2's walk over the lane is sound for every size of slice and number *)
(* of passes: a reference is in the lane, holds something and is neither   *)
(* the block being filled nor the one before it.  However a message is cut *)
(* into updates, what BLAKE2b compresses is that of the whole message; and *)
(* the long hash made of it is a chain of digests.                         *)
(***************************************************************************)
EXTENDS Argon2Index, Blake2Stream, SequenceTheorems, WellFoundedInduction, TLAPS

-----------------------------------------------------------------------------
(* The walk of Argon2. *)

\* A slice with address blocks starts with none.
StartsWithout == Independent /\ i = 0 => address = 0
WalkInv == WalkTypeOK /\ FilledOncePerPass /\ AddressIsOfIndex /\ StartsWithout

-----------------------------------------------------------------------------
\* Division with a positive divisor.
LEMMA DivMod == ASSUME NEW x \in Nat, NEW R \in Nat \ {0}
                PROVE  x \div R \in Nat /\ x % R \in 0..R-1 /\ x = R * (x \div R) + (x % R)
  OBVIOUS
LEMMA MulMono == ASSUME NEW a \in Nat, NEW b \in Nat, NEW c \in Nat, a <= b
                 PROVE  c * a <= c * b
  OBVIOUS
LEMMA MulNat == ASSUME NEW a \in Nat, NEW b \in Nat PROVE a * b \in Nat
  OBVIOUS
LEMMA MulComm == ASSUME NEW a \in Nat, NEW b \in Nat PROVE a * b = b * a
  OBVIOUS
LEMMA DivIs == ASSUME NEW x \in Nat, NEW q \in Nat, NEW R \in Nat \ {0}, R * q <= x, x < R * q + R
               PROVE  x \div R = q
  OBVIOUS
\* A quotient is below any number of divisors the dividend is below.
LEMMA DivLess == ASSUME NEW x \in Nat, NEW n \in Nat, NEW R \in Nat \ {0}, x < R * n
                 PROVE  x \div R \in Nat /\ x \div R < n
<1> DEFINE d == x \div R
<1>1. d \in Nat /\ R * d <= x BY DivMod
<1>2. ~(n <= d)
  <2> SUFFICES ASSUME n <= d PROVE FALSE OBVIOUS
  <2>1. R * n <= R * d BY <1>1, MulMono
  <2>2. R * n \in Nat /\ R * d \in Nat BY <1>1, MulNat
  <2> HIDE DEF d
  <2> QED BY <2>1, <2>2, <1>1
<1> QED BY <1>1, <1>2

\* A sum of two indices of the lane is brought back into it by one turn.
LEMMA Wrap == ASSUME NEW n \in Nat \ {0}, NEW x \in Nat, x < 2 * n
              PROVE  x % n = IF x < n THEN x ELSE x - n
  OBVIOUS

\* The quotient of the index before: it changes where the remainder is zero.
LEMMA DivNext ==
  ASSUME NEW x \in Nat \ {0}, NEW W \in Nat \ {0}
  PROVE  (x - 1) \div W = IF x % W = 0 THEN x \div W - 1 ELSE x \div W
<1> DEFINE q == x \div W
           r == x % W
<1>1. q \in Nat /\ r \in 0..W-1 /\ x = W * q + r BY DivMod
<1>2. CASE r # 0
  <2>1. W * q <= x - 1 /\ x - 1 < W * q + W /\ x - 1 \in Nat
    <3>1. W * q \in Nat BY <1>1, MulNat
    <3> HIDE DEF q, r
    <3> QED BY <1>1, <1>2, <3>1
  <2>2. (x - 1) \div W = q
    <3> HIDE DEF q, r
    <3> QED BY <2>1, <1>1, DivIs
  <2> QED BY <2>2, <1>2
<1>3. CASE r = 0
  <2>1. q # 0
    <3> SUFFICES ASSUME q = 0 PROVE FALSE OBVIOUS
    <3>1. x = W * 0 + 0 BY <1>1, <1>3
    <3> QED BY <3>1
  <2>2. q - 1 \in Nat BY <2>1, <1>1
  <2>3. W * q = W * (q - 1) + W
    <3> HIDE DEF q, r
    <3> QED BY <1>1
  <2>4. W * (q - 1) \in Nat BY <2>2, MulNat
  <2>5. W * (q - 1) <= x - 1 /\ x - 1 < W * (q - 1) + W /\ x - 1 \in Nat
    <3> HIDE DEF q, r
    <3> QED BY <1>1, <1>3, <2>3, <2>4
  <2>6. (x - 1) \div W = q - 1
    <3> HIDE DEF q, r
    <3> QED BY <2>5, <2>2, DivIs
  <2> QED BY <2>6, <1>3
<1> QED BY <1>2, <1>3

\* The sizes, and the walk's position, linear in Segment.
LEMMA Sizes == /\ Segment \in Nat /\ Segment > 2 /\ Lane = 4 * Segment /\ Lane \in Nat
               /\ Passes \in Nat \ {0} /\ Width \in Nat \ {0} /\ Width > 1 /\ Range32 \in Nat \ {0}
  BY ArgonAssumption DEF Lane, Slices
\* Where the walk is, one slice at a time.
LEMMA Position ==
  ASSUME WalkTypeOK
  PROVE  /\ \/ slice = 0 /\ Current = i
            \/ slice = 1 /\ Current = Segment + i
            \/ slice = 2 /\ Current = 2 * Segment + i
            \/ slice = 3 /\ Current = 3 * Segment + i
         /\ Current \in 0..Lane
         /\ i < Segment => Current < Lane
<1>1. slice \in 0..3 /\ i \in 0..Segment BY DEF WalkTypeOK
<1>2. CASE slice = 0 BY <1>1, <1>2, Sizes DEF Current
<1>3. CASE slice = 1 BY <1>1, <1>3, Sizes DEF Current
<1>4. CASE slice = 2 BY <1>1, <1>4, Sizes DEF Current
<1>5. CASE slice = 3 BY <1>1, <1>5, Sizes DEF Current
<1> QED BY <1>1, <1>2, <1>3, <1>4, <1>5

-----------------------------------------------------------------------------
\* An index above a slice is not in it.
LEMMA DivAbove == ASSUME NEW x \in Nat, NEW q \in Nat, NEW R \in Nat \ {0}, R * q + R <= x
                  PROVE  x \div R # q
<1> SUFFICES ASSUME x \div R = q PROVE FALSE OBVIOUS
<1>1. x = R * q + (x % R) /\ x % R \in 0..R-1 BY DivMod
<1>2. R * q \in Nat BY MulNat
<1> QED BY <1>1, <1>2

\* What the word's square takes off the area leaves a block of it.
LEMMA Relative ==
  ASSUME NEW random \in HalfWord, NEW area \in Nat \ {0}
  PROVE  area - 1 - (area * ((random * random) \div Range32)) \div Range32 \in 0..area - 1
<1> DEFINE square == (random * random) \div Range32
           off == (area * square) \div Range32
<1>0. Range32 \in Nat \ {0} /\ random \in Nat /\ random <= Range32 /\ random + 1 <= Range32
  BY Sizes DEF HalfWord
<1>1. square \in Nat /\ square < Range32
  <2>1. random * random <= random * Range32 /\ random * random \in Nat BY <1>0, MulMono, MulNat
  <2>2. random * Range32 < Range32 * Range32
    <3>1. Range32 * (random + 1) <= Range32 * Range32 BY <1>0, MulMono
    <3>2. Range32 * (random + 1) = Range32 * random + Range32 BY <1>0
    <3>3. random * Range32 = Range32 * random BY <1>0, MulComm
    <3>4. Range32 * random \in Nat /\ Range32 * Range32 \in Nat BY <1>0, MulNat
    <3> QED BY <3>1, <3>2, <3>3, <3>4, <1>0
  <2>3. random * Range32 \in Nat /\ Range32 * Range32 \in Nat BY <1>0, MulNat
  <2>4. random * random < Range32 * Range32 BY <2>1, <2>2, <2>3
  <2> QED BY <2>1, <2>4, <1>0, DivLess
<1> HIDE DEF square
<1>2. area * square \in Nat /\ area * square < Range32 * area
  <2>1. area * (square + 1) <= area * Range32 BY <1>0, <1>1, MulMono
  <2>2. area * (square + 1) = area * square + area BY <1>1
  <2>3. area * Range32 = Range32 * area BY <1>0, MulComm
  <2>4. area * square \in Nat /\ Range32 * area \in Nat BY <1>0, <1>1, MulNat
  <2> QED BY <2>1, <2>2, <2>3, <2>4
<1>3. off \in Nat /\ off < area BY <1>0, <1>2, DivLess
<1>4. area - 1 - off \in 0..area - 1
  <2> HIDE DEF off
  <2> QED BY <1>3
<1> QED BY <1>4 DEF square

\* In the first pass, and in the last slice of every pass, the reference is
\* among the blocks of this pass that end two before the current one.
LEMMA FirstPassReference ==
  ASSUME WalkTypeOK, pass = 0, pass < Passes, i < Segment, NEW random \in HalfWord
  PROVE  Reference(random) \in 0..Current - 2
<1> DEFINE area == Current - 1
           rel == area - 1 - (area * ((random * random) \div Range32)) \div Range32
<1>1. Current \in 2..Lane - 1 BY Position, Sizes DEF WalkTypeOK
<1>2. area \in Nat \ {0} BY <1>1, Sizes
<1>3. rel \in 0..area - 1
  <2> HIDE DEF area
  <2> QED BY <1>2, Relative
<1>4. Reference(random) = (0 + rel) % Lane BY DEF Reference
<1> HIDE DEF rel
<1>5. rel \in Nat /\ rel < Lane BY <1>1, <1>3, Sizes
<1>6. (0 + rel) % Lane = rel
  <2>1. 0 + rel = rel BY <1>5
  <2>2. Lane \in Nat \ {0} /\ rel < 2 * Lane BY <1>5, Sizes
  <2> QED BY <2>1, <2>2, <1>5, Wrap
<1> QED BY <1>1, <1>3, <1>4, <1>6

\* Later it is any block that is not in the current slice, or one of those.
LEMMA LaterReference ==
  ASSUME WalkTypeOK, pass # 0, pass < Passes, i < Segment, NEW random \in HalfWord
  PROVE  \/ Reference(random) \in 0..Current - 2
         \/ /\ Reference(random) \in Current + 1..Lane - 1
            /\ Reference(random) # Previous
            /\ Segment * slice + Segment <= Reference(random)
<1> DEFINE area == Lane - Segment + i - 1
           rel == area - 1 - (area * ((random * random) \div Range32)) \div Range32
           offset == IF slice = 3 THEN 0 ELSE (slice + 1) * Segment
           r == Reference(random)
<1>1. i \in 0..Segment - 1 BY Sizes DEF WalkTypeOK
<1>2. area \in Nat \ {0} /\ area = 3 * Segment + i - 1 BY <1>1, Sizes
<1>3. rel \in 0..area - 1
  <2> HIDE DEF area
  <2> QED BY <1>2, Relative
<1>4. r = (offset + rel) % Lane BY DEF Reference
<1>5. rel \in 0..3 * Segment + i - 2 BY <1>2, <1>3, Sizes, <1>1
<1>6. Lane \in Nat \ {0} BY Sizes
<1> HIDE DEF rel, r, area
<1>7. CASE slice = 3
  <2>1. offset + rel = rel /\ rel \in Nat /\ rel < Lane BY <1>7, <1>5, <1>1, Sizes
  <2>2. r = rel
    <3>1. rel < 2 * Lane BY <2>1, <1>6
    <3> QED BY <2>1, <3>1, <1>4, <1>6, Wrap
  <2>3. Current = 3 * Segment + i BY <1>7, Position
  <2> QED BY <2>2, <2>3, <1>5, <1>1, Sizes DEF r
<1>8. CASE slice # 3
  <2> DEFINE x == offset + rel
             above == Segment * slice + Segment
  <2>1. /\ offset = above /\ above \in Nat
        /\ above = Current - i + Segment /\ Current \in 0..Lane - 1
        /\ x \in Nat /\ x >= above /\ x <= Lane + Current - 2
    <3>1. CASE slice = 0 BY <3>1, <1>5, <1>1, Position, Sizes
    <3>2. CASE slice = 1 BY <3>2, <1>5, <1>1, Position, Sizes
    <3>3. CASE slice = 2 BY <3>3, <1>5, <1>1, Position, Sizes
    <3> QED BY <3>1, <3>2, <3>3, <1>8 DEF WalkTypeOK
  <2>2. r = x % Lane BY <1>4
  <2> HIDE DEF x, above
  <2>3. x < 2 * Lane BY <2>1, <1>6
  <2>4. CASE x < Lane
    <3>1. r = x BY <2>1, <2>2, <2>3, <2>4, <1>6, Wrap
    <3>2. r \in Current + 1..Lane - 1 BY <3>1, <2>1, <2>4, <1>1, Sizes
    <3>3. r # Previous
      <4>1. CASE Current = 0 BY <4>1, <3>1, <2>1, <1>6 DEF Previous
      <4>2. CASE Current # 0 BY <4>2, <3>2, <2>1, <1>6 DEF Previous
      <4> QED BY <4>1, <4>2
    <3>4. Segment * slice + Segment <= r BY <3>1, <2>1 DEF above
    <3> QED BY <3>2, <3>3, <3>4 DEF r
  <2>5. CASE Lane <= x
    <3>0. ~(x < Lane) BY <2>5, <2>1, <1>6
    <3>1. r = x - Lane
      <4>1. x % Lane = IF x < Lane THEN x ELSE x - Lane BY <2>1, <2>3, <1>6, Wrap
      <4> QED BY <4>1, <3>0, <2>2
    <3>2. r \in 0..Current - 2 BY <3>1, <2>1, <2>5, <1>6
    <3> QED BY <3>2 DEF r
  <2> QED BY <2>4, <2>5, <2>1, <1>6
<1> QED BY <1>7, <1>8

\* So it is ready, if every block was filled once per pass.
LEMMA Ready == WalkTypeOK /\ FilledOncePerPass => ReferenceIsReady
<1> SUFFICES ASSUME WalkTypeOK, FilledOncePerPass, pass < Passes, i < Segment,
                    NEW random \in HalfWord
             PROVE  LET r == Reference(random)
                    IN /\ r \in 0..Lane - 1 /\ r \notin {Current, Previous}
                       /\ times[r] > 0
                       /\ r \div Segment = slice => times[r] = pass + 1
  BY DEF ReferenceIsReady
<1> DEFINE r == Reference(random)
<1>1. Current \in 0..Lane - 1 /\ pass \in Nat /\ slice \in Nat
      /\ Segment \in Nat \ {0} /\ Lane \in Nat
  BY Position, Sizes DEF WalkTypeOK
<1>2. CASE r \in 0..Current - 2
  <2>1. r \in 0..Lane - 1 /\ r # Current /\ r < Current
    <3> HIDE DEF r
    <3> QED BY <1>1, <1>2
  <2>2. r # Previous
    <3> HIDE DEF r
    <3> QED BY <1>1, <1>2 DEF Previous
  <2>3. times[r] = pass + 1
    <3> HIDE DEF r
    <3> QED BY <2>1 DEF FilledOncePerPass
  <2> HIDE DEF r
  <2> QED BY <2>1, <2>2, <2>3, <1>1 DEF r
<1>3. CASE ~(r \in 0..Current - 2)
  <2>1. pass # 0 BY <1>3, FirstPassReference
  <2>2. r \in Current + 1..Lane - 1 /\ r # Previous /\ Segment * slice + Segment <= r
    BY <2>1, <1>3, LaterReference
  <2>3. times[r] = pass
    <3> HIDE DEF r
    <3> QED BY <1>1, <2>1, <2>2 DEF FilledOncePerPass
  <2>4. r \div Segment # slice
    <3> HIDE DEF r
    <3>1. r \in Nat BY <2>2, <1>1
    <3> QED BY <1>1, <2>2, <3>1, DivAbove
  <2>5. r \in 0..Lane - 1 /\ r # Current
    <3> HIDE DEF r
    <3> QED BY <1>1, <2>2
  <2> HIDE DEF r
  <2> QED BY <2>1, <2>2, <2>3, <2>4, <2>5, <1>1 DEF r
<1> QED BY <1>2, <1>3

-----------------------------------------------------------------------------
\* Before the first block.
LEMMA InitInv == WalkInit => WalkInv
<1> SUFFICES ASSUME WalkInit PROVE WalkInv
  OBVIOUS
<1>1. /\ pass = 0 /\ slice = 0 /\ i = 2 /\ address = 1 /\ read = 0
      /\ times = [b \in 0..Lane - 1 |-> IF b < 2 THEN 1 ELSE 0]
  BY DEF WalkInit, Start
<1>2. WalkTypeOK BY <1>1, Sizes DEF WalkTypeOK
<1>3. Current = 2 BY <1>1, Sizes DEF Current
<1>4. FilledOncePerPass BY <1>1, <1>3, Sizes DEF FilledOncePerPass
<1>5. AddressIsOfIndex
  <2>1. 1 \div Width = 0 BY Sizes, DivIs
  <2> QED BY <1>1, <2>1 DEF AddressIsOfIndex
<1>6. StartsWithout BY <1>1 DEF StartsWithout
<1> QED BY <1>2, <1>4, <1>5, <1>6 DEF WalkInv

\* A block is filled: the position moves by one and its count by one.
LEMMA FillInv == WalkInv /\ Fill => WalkInv'
<1> SUFFICES ASSUME WalkInv, Fill PROVE WalkInv'
  OBVIOUS
<1>0. WalkTypeOK /\ FilledOncePerPass /\ AddressIsOfIndex /\ StartsWithout BY DEF WalkInv
<1>1. /\ pass < Passes /\ i \in 0..Segment - 1 /\ i' = i + 1
      /\ pass' = pass /\ slice' = slice /\ address' = AddressAt
      /\ times' = [times EXCEPT ![Current] = @ + 1]
  BY <1>0, Sizes DEF Fill, WalkTypeOK
<1>2. PICK random \in HalfWord : read' = Reference(random) BY DEF Fill
<1>3. Current \in 0..Lane - 1 /\ Current' = Current + 1 /\ (Independent <=> Independent')
  BY <1>0, <1>1, Position, Sizes DEF Current, WalkTypeOK, Independent
<1>4. ReferenceIsReady BY <1>0, Ready
<1>5. read' \in Int BY <1>1, <1>2, <1>4, Sizes DEF ReferenceIsReady
<1>6. address' \in Nat BY <1>0, <1>1 DEF AddressAt, WalkTypeOK
<1>7. times' \in [0..Lane - 1 -> Nat] BY <1>0, <1>1, <1>3 DEF WalkTypeOK
<1>8. WalkTypeOK' BY <1>0, <1>1, <1>5, <1>6, <1>7, Sizes DEF WalkTypeOK
<1>9. FilledOncePerPass'
  <2> SUFFICES ASSUME NEW b \in 0..Lane - 1
               PROVE  times'[b] = IF b < Current + 1 THEN pass + 1
                                  ELSE IF pass = 0 /\ b < 2 THEN 1 ELSE pass
    BY <1>1, <1>3 DEF FilledOncePerPass
  <2>1. times[b] = IF b < Current THEN pass + 1 ELSE IF pass = 0 /\ b < 2 THEN 1 ELSE pass
    BY <1>0 DEF FilledOncePerPass
  <2>2. pass \in Nat BY <1>0 DEF WalkTypeOK
  <2>3. CASE b = Current
    <3>1. ~(pass = 0 /\ Current < 2)
      <4>1. CASE slice = 0 BY <4>1, <1>0, Position, Sizes DEF WalkTypeOK
      <4>2. CASE slice # 0 BY <4>2, <1>0, <1>1, Position, Sizes
      <4> QED BY <4>1, <4>2
    <3>2. times[b] = pass BY <2>1, <2>3, <3>1, <1>3
    <3>3. times'[b] = times[b] + 1 BY <1>0, <1>1, <2>3 DEF WalkTypeOK
    <3> QED BY <3>2, <3>3, <2>2, <2>3, <1>3
  <2>4. CASE b # Current
    <3>1. times'[b] = times[b] BY <1>0, <1>1, <2>4 DEF WalkTypeOK
    <3>2. b < Current + 1 <=> b < Current BY <2>4, <1>3
    <3> QED BY <3>1, <3>2, <2>1
  <2> QED BY <2>3, <2>4
<1>10. AddressIsOfIndex'
  <2> SUFFICES ASSUME Independent PROVE address' = i \div Width + 1
    <3>1. i' - 1 = i BY <1>1
    <3> QED BY <1>3, <3>1 DEF AddressIsOfIndex
  <2>0. i \in Nat BY <1>1
  <2>1. CASE i = 0
    <3>1. address = 0 BY <1>0, <2>1 DEF StartsWithout
    <3>2. 0 \div Width = 0 /\ 0 % Width = 0 BY Sizes
    <3>3. address' = address + 1 BY <1>1, <2>1, <3>2 DEF AddressAt
    <3> QED BY <2>1, <3>1, <3>2, <3>3
  <2>2. CASE i # 0
    <3>1. address = (i - 1) \div Width + 1 BY <1>0, <2>0, <2>2 DEF AddressIsOfIndex
    <3>2. (i - 1) \div Width = IF i % Width = 0 THEN i \div Width - 1 ELSE i \div Width
      BY <2>0, <2>2, Sizes, DivNext
    <3>3. i \div Width \in Nat BY <2>0, Sizes, DivMod
    <3>4. CASE i % Width = 0
      <4>1. address' = address + 1 BY <3>4, <1>1 DEF AddressAt
      <4> QED BY <3>1, <3>2, <3>3, <3>4, <4>1
    <3>5. CASE i % Width # 0
      <4>1. address' = address BY <3>5, <1>1 DEF AddressAt
      <4> QED BY <3>1, <3>2, <3>3, <3>5, <4>1
    <3> QED BY <3>4, <3>5
  <2> QED BY <2>1, <2>2
<1>11. StartsWithout' BY <1>1 DEF StartsWithout
<1> QED BY <1>8, <1>9, <1>10, <1>11 DEF WalkInv

\* The next slice begins where the last one ended, the next pass at block 0.
LEMMA NextSliceInv == WalkInv /\ NextSlice => WalkInv'
<1> SUFFICES ASSUME WalkInv, NextSlice PROVE WalkInv'
  OBVIOUS
<1>0. WalkTypeOK /\ FilledOncePerPass BY DEF WalkInv
<1>1. /\ pass \in 0..Passes - 1 /\ slice \in 0..3 /\ i = Segment
      /\ address' = 0 /\ times' = times /\ read' = read
      /\ slice' = (slice + 1) % 4
      /\ pass' = IF slice' = 0 THEN pass + 1 ELSE pass
      /\ i' = Start(pass', slice')
  BY <1>0, Sizes DEF NextSlice, WalkTypeOK, Slices
<1>2. slice' = IF slice = 3 THEN 0 ELSE slice + 1 BY <1>1
<1>3. i' = 0 /\ pass' \in 0..Passes BY <1>1, <1>2, Sizes DEF Start
<1>4. StartsWithout' /\ AddressIsOfIndex' BY <1>1, <1>3 DEF StartsWithout, AddressIsOfIndex
<1>5. WalkTypeOK'
  <2>1. slice' \in 0..3 BY <1>1, <1>2
  <2>2. pass' = Passes => slice' = 0 BY <1>1, Sizes
  <2>3. pass' = 0 => slice' # 0 BY <1>1
  <2> QED BY <1>0, <1>1, <1>3, <2>1, <2>2, <2>3, Sizes DEF WalkTypeOK
<1>6. FilledOncePerPass'
  <2> SUFFICES ASSUME NEW b \in 0..Lane - 1
               PROVE  times[b] = IF b < Current' THEN pass' + 1
                                 ELSE IF pass' = 0 /\ b < 2 THEN 1 ELSE pass'
    BY <1>1 DEF FilledOncePerPass
  <2>1. times[b] = IF b < Current THEN pass + 1 ELSE IF pass = 0 /\ b < 2 THEN 1 ELSE pass
    BY <1>0 DEF FilledOncePerPass
  <2>2. CASE slice = 3
    <3>1. Current = Lane BY <2>2, <1>0, <1>1, Position, Sizes
    <3>2. Current' = 0 BY <2>2, <1>2, <1>3, Sizes DEF Current
    <3>3. pass' = pass + 1 BY <2>2, <1>1, <1>2
    <3> QED BY <2>1, <3>1, <3>2, <3>3, <1>1, Sizes
  <2>3. CASE slice # 3
    <3>1. slice' = slice + 1 /\ pass' = pass BY <2>3, <1>1, <1>2
    <3>2. Current' = Current
      <4>1. Current' = (slice + 1) * Segment + 0 BY <3>1, <1>3 DEF Current
      <4>2. (slice + 1) * Segment + 0 = slice * Segment + Segment BY <1>1, Sizes
      <4> QED BY <4>1, <4>2, <1>1 DEF Current
    <3> QED BY <2>1, <3>1, <3>2
  <2> QED BY <2>2, <2>3
<1> QED BY <1>4, <1>5, <1>6 DEF WalkInv

\* Nothing moves.
LEMMA StutterInv == WalkInv /\ UNCHANGED walkVars => WalkInv'
  BY DEF WalkInv, walkVars, WalkTypeOK, FilledOncePerPass, AddressIsOfIndex, StartsWithout,
         Current, Independent

-----------------------------------------------------------------------------
\* In every state of the walk each block was filled once per pass that went
\* over it, any word refers to a block that is there to be read, and the
\* address block at hand is the one the index names (noise_psk.c:202-256).
THEOREM WalkSound == WalkSpec => []WalkIsSound
<1>1. WalkInit => WalkInv BY InitInv
<1>2. WalkInv /\ [WalkNext]_walkVars => WalkInv'
  BY FillInv, NextSliceInv, StutterInv DEF WalkNext
<1>3. WalkInv => WalkIsSound BY Ready DEF WalkInv, WalkIsSound
<1> QED BY <1>1, <1>2, <1>3, PTL DEF WalkSpec

-----------------------------------------------------------------------------
(* BLAKE2b. *)

\* Before the last block: what was compressed is the message's beginning in
\* whole blocks, each marked with the bytes up to its end, and the buffer goes
\* on from there; it is empty only before the first byte.
Absorbing ==
  /\ IF phase = "idle" THEN todo = 0 ELSE todo > 0
  /\ count + used = absorbed - todo /\ size = count
  /\ used = 0 => count = 0
  /\ \A p \in 0..count - 1 : stream[p] = p
  /\ \A j \in 0..used - 1 : block[j] = count + j
  /\ \E k \in Nat : count = Block * k /\ marks = [m \in 1..k |-> <<m * Block, FALSE>>]

BlakeInv ==
  TypeOK /\ IF phase = "done" THEN [bytes |-> stream, marks |-> marks] = Hashed(absorbed)
            ELSE Absorbing

-----------------------------------------------------------------------------
\* A sequence with one more at its end, by its entries.
LEMMA AppendIs ==
  ASSUME NEW S, NEW s \in Seq(S), NEW x \in S
  PROVE  Append(s, x) = [m \in 1..Len(s) + 1 |-> IF m = Len(s) + 1 THEN x ELSE s[m]]
<1> DEFINE t == [m \in 1..Len(s) + 1 |-> IF m = Len(s) + 1 THEN x ELSE s[m]]
<1>1. Len(s) \in Nat /\ \A m \in 1..Len(s) : s[m] \in S
  OBVIOUS
<1>2. t \in Seq(S) /\ Len(t) = Len(s) + 1
  BY <1>1
<1>3. /\ Append(s, x) \in Seq(S) /\ Len(Append(s, x)) = Len(s) + 1
      /\ \A m \in 1..Len(s) : Append(s, x)[m] = s[m]
      /\ Append(s, x)[Len(s) + 1] = x
  BY AppendProperties
<1>4. \A m \in 1..Len(s) + 1 : Append(s, x)[m] = t[m]
  BY <1>1, <1>3
<1> HIDE DEF t
<1>5. Append(s, x) = t
  BY <1>2, <1>3, <1>4, SeqEqual
<1> QED
  BY <1>5 DEF t

\* One more compression: its mark behind those of the whole blocks before it.
LEMMA MarkIs ==
  ASSUME Block \in Nat, NEW k \in Nat, NEW n \in Int, NEW last \in {FALSE, TRUE}
  PROVE  Append([m \in 1..k |-> <<m * Block, FALSE>>], <<n, last>>) =
           [m \in 1..k + 1 |-> IF m = k + 1 THEN <<n, last>> ELSE <<m * Block, FALSE>>]
<1> DEFINE old == [m \in 1..k |-> <<m * Block, FALSE>>]
           S == Int \X {FALSE, TRUE}
<1>1. old \in Seq(S) /\ Len(old) = k
  <2>1. ASSUME NEW m \in 1..k PROVE <<m * Block, FALSE>> \in S
    <3>1. m * Block \in Int
      OBVIOUS
    <3> QED
      BY <3>1
  <2> HIDE DEF S
  <2>2. old \in [1..k -> S]
    BY <2>1
  <2>3. Len(old) = k
    OBVIOUS
  <2> HIDE DEF old
  <2>4. old \in Seq(S)
    BY <2>2, SeqDef
  <2> QED
    BY <2>3, <2>4
<1>2. <<n, last>> \in S
  OBVIOUS
<1>3. Append(old, <<n, last>>) = [m \in 1..k + 1 |-> IF m = k + 1 THEN <<n, last>> ELSE old[m]]
  <2> HIDE DEF old, S
  <2> QED
    BY <1>1, <1>2, AppendIs
<1>4. \A m \in 1..k + 1 : (IF m = k + 1 THEN <<n, last>> ELSE old[m])
                           = IF m = k + 1 THEN <<n, last>> ELSE <<m * Block, FALSE>>
  <2>1. \A m \in 1..k + 1 : m # k + 1 => m \in 1..k
    OBVIOUS
  <2> QED
    BY <2>1
<1> QED
  BY <1>3, <1>4

\* Before the first byte.
LEMMA BInitInv == ASSUME BlakeAssumption, Init PROVE BlakeInv
<1>1. Block \in Nat \ {0} /\ MaxMessage \in Nat
  BY DEF BlakeAssumption
<1>2. DOMAIN stream = 0..size - 1 /\ DOMAIN block = 0..Block - 1
  BY DEF Init
<1>3. TypeOK
  BY <1>1, <1>2 DEF Init, TypeOK
<1>4. count = Block * 0 /\ marks = [m \in 1..0 |-> <<m * Block, FALSE>>]
  BY <1>1 DEF Init
<1>5. Absorbing
  <2>1. \E k \in Nat : count = Block * k /\ marks = [m \in 1..k |-> <<m * Block, FALSE>>]
    BY <1>4
  <2>2. /\ phase = "idle" /\ todo = 0 /\ count = 0 /\ used = 0 /\ absorbed = 0 /\ size = 0
    BY DEF Init
  <2> QED
    BY <2>1, <2>2 DEF Absorbing
<1> QED
  BY <1>3, <1>5 DEF BlakeInv, Init

\* A call of update: more of the message is known, none of it taken yet.
LEMMA BUpdateInv ==
  ASSUME BlakeAssumption, BlakeInv, NEW n \in 0..MaxMessage, Update(n) PROVE BlakeInv'
<1>1. /\ phase = "idle" /\ absorbed + n <= MaxMessage
      /\ absorbed' = absorbed + n /\ todo' = n
      /\ phase' = IF n = 0 THEN "idle" ELSE "update"
      /\ UNCHANGED <<block, used, count, stream, size, marks>>
  BY DEF Update
<1>2. TypeOK /\ Absorbing /\ MaxMessage \in Nat
  BY <1>1 DEF BlakeInv, BlakeAssumption
<1>3. /\ absorbed \in 0..MaxMessage /\ used \in 0..Block /\ count \in 0..absorbed
      /\ Block \in Nat
  BY <1>2 DEF TypeOK, BlakeAssumption
<1>4. TypeOK'
  BY <1>1, <1>2, <1>3 DEF TypeOK
<1>5. count' + used' = absorbed' - todo'
  BY <1>1, <1>2, <1>3 DEF Absorbing
<1>6. IF phase' = "idle" THEN todo' = 0 ELSE todo' > 0
  BY <1>1, <1>2
<1>7. Absorbing'
  BY <1>1, <1>2, <1>5, <1>6 DEF Absorbing
<1> QED
  BY <1>1, <1>4, <1>7 DEF BlakeInv

\* Bytes that come next are put behind those before them.
LEMMA CopyKeeps ==
  ASSUME BlakeAssumption, TypeOK, NEW at \in 0..Block - 1, NEW c \in Nat, todo > 0,
         c + at = absorbed - todo, \A j \in 0..at - 1 : block[j] = c + j, Copy(at)
  PROVE  /\ used' \in 1..Block /\ todo' \in 0..todo - 1 /\ c + used' = absorbed - todo'
         /\ \A j \in 0..used' - 1 : block'[j] = c + j
         /\ DOMAIN block' = 0..Block - 1
         /\ phase' = IF todo' = 0 THEN "idle" ELSE "update"
<1> DEFINE take == IF Block - at > todo THEN todo ELSE Block - at
<1>1. /\ block' = [j \in 0..Block - 1 |-> IF at <= j /\ j < at + take
                                          THEN absorbed - todo + (j - at) ELSE block[j]]
      /\ used' = at + take /\ todo' = todo - take
      /\ phase' = IF todo' = 0 THEN "idle" ELSE "update"
  BY DEF Copy
<1>2. /\ Block \in Nat \ {0} /\ absorbed \in Nat /\ todo \in 0..absorbed
  BY DEF BlakeAssumption, TypeOK
<1>3. take \in 1..Block - at /\ take <= todo
  BY <1>2
<1> HIDE DEF take
<1>4. used' \in 1..Block /\ todo' \in 0..todo - 1 /\ c + used' = absorbed - todo'
  BY <1>1, <1>2, <1>3
<1>5. ASSUME NEW j \in 0..used' - 1 PROVE block'[j] = c + j
  <2>1. j \in 0..Block - 1 /\ j < at + take
    BY <1>1, <1>2, <1>3
  <2>2. CASE at <= j
    <3>1. block'[j] = absorbed - todo + (j - at)
      BY <1>1, <2>1, <2>2
    <3> QED
      BY <1>2, <2>1, <3>1
  <2>3. CASE j < at
    <3>1. block'[j] = block[j]
      BY <1>1, <1>2, <2>1, <2>3
    <3> QED
      BY <2>1, <2>3, <3>1
  <2> QED
    BY <2>1, <2>2, <2>3
<1>6. DOMAIN block' = 0..Block - 1
  BY <1>1
<1> QED
  BY <1>1, <1>4, <1>5, <1>6

\* A turn of update: a full buffer is compressed, since more comes, and the next
\* bytes are copied behind it.
LEMMA BUpdateTurnInv == ASSUME BlakeAssumption, BlakeInv, UpdateTurn PROVE BlakeInv'
<1>1. phase = "update" /\ absorbed' = absorbed
  BY DEF UpdateTurn
<1>2. TypeOK /\ Absorbing
  BY <1>1 DEF BlakeInv
<1>3. /\ Block \in Nat \ {0} /\ absorbed \in 0..MaxMessage /\ MaxMessage \in Nat
      /\ todo \in 1..absorbed /\ used \in 0..Block /\ count \in 0..absorbed /\ size = count
      /\ count + used = absorbed - todo
  BY <1>1, <1>2 DEF TypeOK, BlakeAssumption, Absorbing
<1>4. PICK k \in Nat : count = Block * k /\ marks = [m \in 1..k |-> <<m * Block, FALSE>>]
  BY <1>2 DEF Absorbing
<1>5. /\ \A p \in 0..count - 1 : stream[p] = p
      /\ \A j \in 0..used - 1 : block[j] = count + j
  BY <1>2 DEF Absorbing
<1>6. CASE used = Block
  <2>1. /\ count' = count + Block /\ size' = size + Block /\ Copy(0)
        /\ stream' = [p \in 0..size + Block - 1 |-> IF p < size THEN stream[p] ELSE block[p - size]]
        /\ marks' = Append(marks, <<count', FALSE>>)
    BY <1>6 DEF UpdateTurn, Compress
  <2>2. /\ used' \in 1..Block /\ todo' \in 0..todo - 1 /\ count' + used' = absorbed - todo'
        /\ \A j \in 0..used' - 1 : block'[j] = count' + j
        /\ DOMAIN block' = 0..Block - 1
        /\ phase' = IF todo' = 0 THEN "idle" ELSE "update"
    <3>1. count + Block \in Nat /\ 0 \in 0..Block - 1 /\ count + Block + 0 = absorbed - todo
      BY <1>3, <1>6
    <3>2. \A j \in 0..0 - 1 : block[j] = count + Block + j
      OBVIOUS
    <3>3. todo > 0
      BY <1>3
    <3> DEFINE c == count + Block
    <3>4. /\ used' \in 1..Block /\ todo' \in 0..todo - 1 /\ c + used' = absorbed - todo'
          /\ \A j \in 0..used' - 1 : block'[j] = c + j
          /\ DOMAIN block' = 0..Block - 1
          /\ phase' = IF todo' = 0 THEN "idle" ELSE "update"
      <4> HIDE DEF c
      <4> QED
        BY <1>2, <2>1, <3>1, <3>2, <3>3, CopyKeeps DEF c
    <3> QED
      BY <2>1, <3>4
  <2>3. ASSUME NEW p \in 0..count' - 1 PROVE stream'[p] = p
    <3>1. p \in 0..size + Block - 1
      BY <1>3, <2>1
    <3>2. CASE p < size
      BY <1>3, <1>5, <2>1, <3>1, <3>2
    <3>3. CASE size <= p
      <4>1. stream'[p] = block[p - size] /\ p - size \in 0..used - 1
        BY <1>3, <1>6, <2>1, <3>1, <3>3
      <4> QED
        BY <1>3, <1>5, <3>1, <4>1
    <3> QED
      BY <1>3, <3>1, <3>2, <3>3
  <2>4. count' = Block * (k + 1) /\ marks' = [m \in 1..k + 1 |-> <<m * Block, FALSE>>]
    <3>1. count' = Block * (k + 1) /\ count' = (k + 1) * Block
      BY <1>3, <1>4, <2>1
    <3>2. marks' = [m \in 1..k + 1 |->
                      IF m = k + 1 THEN <<count', FALSE>> ELSE <<m * Block, FALSE>>]
      <4>1. count' \in Int
        BY <1>3, <2>1
      <4> QED
        BY <1>3, <1>4, <2>1, <4>1, MarkIs
    <3>3. \A m \in 1..k + 1 : (IF m = k + 1 THEN <<count', FALSE>> ELSE <<m * Block, FALSE>>)
                               = <<m * Block, FALSE>>
      BY <3>1
    <3> QED
      BY <3>1, <3>2, <3>3
  <2>5. DOMAIN stream' = 0..size' - 1
    <3>1. DOMAIN stream' = 0..size + Block - 1
      BY <2>1
    <3>2. size' - 1 = size + Block - 1
      BY <1>3, <2>1
    <3> QED
      BY <3>1, <3>2
  <2>6. TypeOK'
    <3>1. count' \in 0..absorbed' /\ todo' \in 0..absorbed' /\ used' \in 0..Block /\ size' \in Nat
      BY <1>1, <1>3, <1>6, <2>1, <2>2
    <3>2. phase' \in {"idle", "update", "done"}
      BY <2>2
    <3> QED
      BY <1>1, <1>3, <2>2, <2>5, <3>1, <3>2 DEF TypeOK
  <2>7. Absorbing'
    <3>1. IF phase' = "idle" THEN todo' = 0 ELSE todo' > 0
      BY <1>3, <2>2
    <3>2. used' # 0 /\ size' = count' /\ count' + used' = absorbed' - todo'
      BY <1>1, <1>3, <2>1, <2>2
    <3>3. k + 1 \in Nat
      OBVIOUS
    <3> QED
      BY <2>2, <2>3, <2>4, <3>1, <3>2, <3>3 DEF Absorbing
  <2>8. phase' # "done"
    BY <2>2
  <2> QED
    BY <2>6, <2>7, <2>8 DEF BlakeInv
<1>7. CASE used # Block
  <2>1. Copy(used) /\ UNCHANGED <<count, stream, size, marks>>
    BY <1>7 DEF UpdateTurn
  <2>2. /\ used' \in 1..Block /\ todo' \in 0..todo - 1 /\ count + used' = absorbed - todo'
        /\ \A j \in 0..used' - 1 : block'[j] = count + j
        /\ DOMAIN block' = 0..Block - 1
        /\ phase' = IF todo' = 0 THEN "idle" ELSE "update"
    <3>1. used \in 0..Block - 1 /\ count \in Nat /\ todo > 0
      BY <1>3, <1>7
    <3> QED
      BY <1>2, <1>3, <1>5, <2>1, <3>1, CopyKeeps
  <2>3. TypeOK'
    <3>1. count' \in 0..absorbed' /\ todo' \in 0..absorbed' /\ used' \in 0..Block
      BY <1>1, <1>3, <2>1, <2>2
    <3>2. phase' \in {"idle", "update", "done"}
      BY <2>2
    <3>3. size' \in Nat /\ DOMAIN stream' = 0..size' - 1
      BY <1>2, <2>1 DEF TypeOK
    <3> QED
      BY <1>1, <1>3, <2>2, <3>1, <3>2, <3>3 DEF TypeOK
  <2>4. Absorbing'
    <3>1. IF phase' = "idle" THEN todo' = 0 ELSE todo' > 0
      BY <1>3, <2>2
    <3>2. used' # 0 /\ size' = count' /\ count' + used' = absorbed' - todo'
      BY <1>1, <1>3, <2>1, <2>2
    <3>3. count' = Block * k /\ marks' = [m \in 1..k |-> <<m * Block, FALSE>>]
      BY <1>4, <2>1
    <3>4. \A p \in 0..count' - 1 : stream'[p] = p
      BY <1>5, <2>1
    <3>5. \A j \in 0..used' - 1 : block'[j] = count' + j
      BY <2>1, <2>2
    <3> QED
      BY <3>1, <3>2, <3>3, <3>4, <3>5 DEF Absorbing
  <2>5. phase' # "done"
    BY <2>2
  <2> QED
    BY <2>3, <2>4, <2>5 DEF BlakeInv
<1> QED
  BY <1>6, <1>7

\* The last block is filled up with zeros, and it is the only one that is
\* marked last; there is none behind a message of whole blocks.
LEMMA BFinalInv ==
  ASSUME BlakeAssumption, BlakeInv, Final
  PROVE  BlakeInv' /\ [bytes |-> stream', marks |-> marks'] = Hashed(absorbed)
<1>1. /\ phase = "idle" /\ count' = count + used
      /\ block' = [j \in 0..Block - 1 |-> IF j < used THEN block[j] ELSE Zero]
      /\ stream' = [p \in 0..size + Block - 1 |-> IF p < size THEN stream[p] ELSE block'[p - size]]
      /\ size' = size + Block /\ marks' = Append(marks, <<count', TRUE>>)
      /\ phase' = "done" /\ UNCHANGED <<used, absorbed, todo>>
  BY DEF Final, Compress
<1>2. TypeOK /\ Absorbing
  BY <1>1 DEF BlakeInv
<1>3. /\ Block \in Nat \ {0} /\ absorbed \in 0..MaxMessage /\ MaxMessage \in Nat
      /\ used \in 0..Block /\ count \in 0..absorbed /\ size = count /\ todo = 0
      /\ count + used = absorbed /\ (used = 0 => count = 0)
  BY <1>1, <1>2 DEF TypeOK, BlakeAssumption, Absorbing
<1>4. PICK k \in Nat : count = Block * k /\ marks = [m \in 1..k |-> <<m * Block, FALSE>>]
  BY <1>2 DEF Absorbing
<1>5. /\ \A p \in 0..count - 1 : stream[p] = p
      /\ \A j \in 0..used - 1 : block[j] = count + j
  BY <1>2 DEF Absorbing
<1>6. Needed(absorbed) = k + 1
  <2>1. CASE absorbed = 0
    <3>1. k = 0
      BY <1>3, <1>4, <2>1
    <3> QED
      BY <2>1, <3>1 DEF Needed
  <2>2. CASE absorbed # 0
    <3> DEFINE x == absorbed - 1
    <3>1. x \in Nat /\ Block * k <= x /\ x < Block * k + Block
      BY <1>3, <1>4, <2>2
    <3> HIDE DEF x
    <3>2. x \div Block = k
      BY <1>3, <3>1, DivIs
    <3> QED
      BY <2>2, <3>2 DEF Needed, x
  <2> QED
    BY <2>1, <2>2
<1>7. Needed(absorbed) * Block = size + Block
  BY <1>3, <1>4, <1>6
<1>8. stream' = Hashed(absorbed).bytes
  <2>1. Hashed(absorbed).bytes =
          [p \in 0..size + Block - 1 |-> IF p < absorbed THEN p ELSE Zero]
    <3>1. Needed(absorbed) * Block - 1 = size + Block - 1
      BY <1>3, <1>7
    <3> QED
      BY <3>1 DEF Hashed
  <2>2. ASSUME NEW p \in 0..size + Block - 1
        PROVE  (IF p < size THEN stream[p] ELSE block'[p - size]) = IF p < absorbed THEN p ELSE Zero
    <3>1. CASE p < size
      BY <1>3, <1>5, <3>1
    <3>2. CASE size <= p
      <4>1. p - size \in 0..Block - 1
        BY <1>3, <3>2
      <4>2. block'[p - size] = IF p - size < used THEN block[p - size] ELSE Zero
        BY <1>1, <4>1
      <4>3. p - size < used <=> p < absorbed
        BY <1>3, <4>1
      <4>4. p - size < used => block[p - size] = p
        BY <1>3, <1>5, <4>1
      <4> QED
        BY <1>3, <3>2, <4>2, <4>3, <4>4
    <3> QED
      BY <1>3, <3>1, <3>2
  <2> QED
    BY <1>1, <2>1, <2>2
<1>9. marks' = Hashed(absorbed).marks
  <2>1. marks' = [m \in 1..k + 1 |-> IF m = k + 1 THEN <<absorbed, TRUE>> ELSE <<m * Block, FALSE>>]
    <3>1. count' = absorbed /\ absorbed \in Int /\ Block \in Nat
      BY <1>1, <1>3
    <3> QED
      BY <1>1, <1>4, <3>1, MarkIs
  <2>2. Hashed(absorbed).marks =
          [m \in 1..k + 1 |-> IF m = k + 1 THEN <<absorbed, TRUE>> ELSE <<m * Block, FALSE>>]
    BY <1>6 DEF Hashed
  <2> QED
    BY <2>1, <2>2
<1>10. [bytes |-> stream', marks |-> marks'] = Hashed(absorbed)
  BY <1>8, <1>9 DEF Hashed
<1>11. TypeOK'
  <2>1. DOMAIN stream' = 0..size' - 1
    <3>1. DOMAIN stream' = 0..size + Block - 1
      BY <1>1
    <3>2. size' - 1 = size + Block - 1
      BY <1>1, <1>3
    <3> QED
      BY <3>1, <3>2
  <2>2. DOMAIN block' = 0..Block - 1
    BY <1>1
  <2>3. count' \in 0..absorbed' /\ size' \in Nat
    BY <1>1, <1>3
  <2> QED
    BY <1>1, <1>3, <2>1, <2>2, <2>3 DEF TypeOK
<1>12. Hashed(absorbed)' = Hashed(absorbed)
  BY <1>1 DEF Hashed, Needed
<1> QED
  BY <1>1, <1>10, <1>11, <1>12 DEF BlakeInv

\* Every step.
LEMMA BNextInv == ASSUME BlakeAssumption, BlakeInv, [Next]_vars PROVE BlakeInv'
<1>1. CASE UNCHANGED vars
  BY <1>1 DEF vars, BlakeInv, TypeOK, Absorbing, Hashed, Needed
<1>2. ASSUME NEW n \in 0..MaxMessage, Update(n) PROVE BlakeInv'
  BY <1>2, BUpdateInv
<1>3. CASE UpdateTurn
  BY <1>3, BUpdateTurnInv
<1>4. CASE Final
  BY <1>4, BFinalInv
<1> QED
  BY <1>1, <1>2, <1>3, <1>4 DEF Next

\* However a message is cut into updates of BLAKE2b, for every length and size
\* of block, what is compressed is the message in whole blocks, each with its
\* count, and only its last data block is marked last.
THEOREM BlakeRefinement == ASSUME BlakeAssumption PROVE Spec => ImplementsOneShot
<1>1. Init => OneShot!Init
  BY DEF Init, OneShot!Init
<1>2. Init => BlakeInv
  BY BInitInv
<1>3. BlakeInv /\ [Next]_vars => BlakeInv'
  BY BNextInv
<1>4. BlakeInv /\ [Next]_vars => [OneShot!Next]_OneShot!vars
  <2> SUFFICES ASSUME BlakeInv, [Next]_vars PROVE [OneShot!Next]_OneShot!vars
    OBVIOUS
  <2>1. absorbed \in Nat /\ absorbed \in 0..MaxMessage
    BY DEF BlakeInv, TypeOK, BlakeAssumption
  <2>2. CASE UNCHANGED vars
    BY <2>2 DEF vars, OneShot!vars
  <2>3. ASSUME NEW n \in 0..MaxMessage, Update(n) PROVE OneShot!Absorb
    <3>1. phase = "idle" /\ absorbed' = absorbed + n /\ phase' # "done" /\ n \in Nat
      BY <2>3 DEF Update, BlakeAssumption
    <3> QED
      BY <3>1, <2>1 DEF OneShot!Absorb
  <2>4. CASE UpdateTurn
    <3>1. absorbed' = absorbed /\ phase # "done"
      BY <2>4 DEF UpdateTurn
    <3>2. phase' # "done"
      BY <2>4 DEF UpdateTurn, Copy
    <3> QED
      BY <3>1, <3>2 DEF OneShot!vars
  <2>5. CASE Final
    <3>1. phase = "idle" /\ phase' = "done" /\ absorbed' = absorbed
      BY <2>5 DEF Final
    <3>2. [bytes |-> stream', marks |-> marks'] = Hashed(absorbed)
      BY <2>5, BFinalInv
    <3> QED
      BY <3>1, <3>2, <2>1 DEF OneShot!Finish, OneShot!Next
  <2> QED
    BY <2>2, <2>3, <2>4, <2>5 DEF Next, OneShot!Next
<1> QED
  BY <1>1, <1>2, <1>3, <1>4, PTL DEF Spec, ImplementsOneShot, OneShot!Spec

-----------------------------------------------------------------------------
(* The long hash of Argon2. *)

\* Of some numbers one is the least.
LEMMA NatMin ==
  ASSUME NEW T, T \subseteq Nat, T # {}
  PROVE  \E x \in T : \A y \in T : x <= y
<1> DEFINE R == {ss \in Nat \X Nat : ss[1] < ss[2]}
<1>1. IsWellFoundedOn(R, Nat)
  BY NatLessThanWellFounded DEF OpToRel
<1> HIDE DEF R
<1>2. PICK x \in T : \A y \in T : ~(<<y, x>> \in R)
  BY <1>1, WFMin
<1>3. ASSUME NEW y \in T PROVE x <= y
  <2>1. ~(<<y, x>> \in R) /\ x \in Nat /\ y \in Nat
    BY <1>2
  <2> QED BY <2>1 DEF R
<1> QED BY <1>3

\* How many whole halves are copied out before the last digest, the e-th entry
\* of the chain from digest v on, and the chain.
Halves(n) == IF n <= 2 * Half THEN 0 ELSE (n + Half - 1) \div Half - 2
Link(n, v, e) ==
  IF e <= Halves(n) THEN <<v + e - 1, Half>>
  ELSE <<IF Halves(n) = 0 THEN v + 1 ELSE v + Halves(n), n - Half * Halves(n)>>
Links(n, v) == [e \in 1..Halves(n) + 1 |-> Link(n, v, e)]

\* The loop of longhash, as the definition of Chain says it of f.
After(n, v) == IF n - Half > 2 * Half THEN v + 1 ELSE v
Turn(f, n, v) == IF n > 2 * Half THEN <<<<v, Half>>>> \o f[n - Half][After(n, v)]
                 ELSE <<<<v + 1, n>>>>
Unrolled(f) == f = [n \in 0..MaxMessage |-> [v \in Nat |-> Turn(f, n, v)]]

LEMMA HalvesStep ==
  ASSUME BlakeAssumption, NEW n \in Nat
  PROVE  /\ Halves(n) \in Nat
         /\ n <= 2 * Half => Halves(n) = 0
         /\ n > 2 * Half => /\ Halves(n) = Halves(n - Half) + 1
                            /\ n - Half <= 2 * Half <=> Halves(n - Half) = 0
                            /\ n - Half \in Nat
<1>1. Half \in Nat \ {0}
  BY DEF BlakeAssumption
<1>2. CASE n <= 2 * Half
  BY <1>1, <1>2 DEF Halves
<1>3. CASE n > 2 * Half
  <2> DEFINE m == n - 1
             q == m \div Half
  <2>1. m \in Nat /\ m >= 2 * Half /\ n + Half - 1 = m + Half /\ n - Half + Half - 1 = m
    BY <1>1, <1>3
  <2> HIDE DEF m
  <2>2. q \in Nat /\ m % Half \in 0..Half - 1 /\ m = Half * q + (m % Half)
    BY <1>1, <2>1, DivMod
  <2> HIDE DEF q
  <2>3. (m + Half) \div Half = q + 1
    <3>1. Half * (q + 1) = Half * q + Half /\ Half * q \in Nat
      BY <1>1, <2>2
    <3>2. Half * (q + 1) <= m + Half /\ m + Half < Half * (q + 1) + Half
      BY <1>1, <2>1, <2>2, <3>1
    <3>3. m + Half \in Nat /\ q + 1 \in Nat
      BY <1>1, <2>1, <2>2
    <3> QED BY ONLY <1>1, <3>2, <3>3, DivIs
  <2>4. q >= 2
    <3> SUFFICES ASSUME q <= 1 PROVE FALSE
      BY <2>2
    <3>1. Half * q <= Half * 1
      BY <1>1, <2>2, MulMono
    <3> QED BY <1>1, <2>1, <2>2, <3>1
  <2>5. m < 3 * Half <=> q = 2
    <3>1. q = 2 => m < 3 * Half
      BY <1>1, <2>1, <2>2
    <3>2. q >= 3 => Half * 3 <= Half * q
      BY <1>1, <2>2, MulMono
    <3>3. q >= 3 => m >= 3 * Half
      BY <1>1, <2>1, <2>2, <3>2
    <3> QED BY <1>1, <2>1, <2>2, <2>4, <3>1, <3>3
  <2>6. Halves(n) = q - 1
    BY <1>1, <1>3, <2>1, <2>2, <2>3 DEF Halves
  <2>7. n - Half <= 2 * Half <=> q = 2
    <3>1. n = m + 1
      BY DEF m
    <3> QED BY <1>1, <2>1, <2>5, <3>1
  <2>8. Halves(n - Half) = q - 2
    BY <1>1, <2>1, <2>2, <2>4, <2>7 DEF Halves, q
  <2>9. n - Half \in Nat
    BY <1>1, <1>3
  <2> QED BY <1>1, <1>3, <2>2, <2>4, <2>6, <2>7, <2>8, <2>9
<1> QED BY <1>1, <1>2, <1>3

\* An entry before a list is its first, and the others move up.
LEMMA Before ==
  ASSUME NEW x, NEW k \in Nat, NEW s, s = [e \in 1..k |-> s[e]]
  PROVE  <<x>> \o s = [e \in 1..k + 1 |-> IF e = 1 THEN x ELSE s[e - 1]]
<1> DEFINE S == {x} \cup {s[e] : e \in 1..k}
<1>1. s \in [1..k -> S] /\ x \in S
  OBVIOUS
<1> HIDE DEF S
<1>2. s \in Seq(S) /\ Len(s) = k
  BY <1>1
<1>3. <<x>> \in Seq(S) /\ Len(<<x>>) = 1 /\ <<x>>[1] = x
  BY <1>1
<1>4. /\ <<x>> \o s \in Seq(S) /\ Len(<<x>> \o s) = 1 + k
      /\ \A e \in 1..1 + k : (<<x>> \o s)[e] = IF e <= 1 THEN <<x>>[e] ELSE s[e - 1]
  BY <1>2, <1>3, ConcatProperties
<1>5. ASSUME NEW e \in 1..k + 1 PROVE (<<x>> \o s)[e] = IF e = 1 THEN x ELSE s[e - 1]
  BY <1>3, <1>4
<1>6. DOMAIN (<<x>> \o s) = 1..k + 1
  BY <1>4
<1>7. <<x>> \o s = [e \in 1..k + 1 |-> (<<x>> \o s)[e]]
  BY <1>4
<1> QED BY <1>5, <1>7

\* One turn before the chain of what is left is the chain.
LEMMA LinksTurn ==
  ASSUME BlakeAssumption, NEW n \in Nat, NEW v \in Nat
  PROVE  Links(n, v) = IF n > 2 * Half THEN <<<<v, Half>>>> \o Links(n - Half, After(n, v))
                       ELSE <<<<v + 1, n>>>>
<1>1. Half \in Nat \ {0}
  BY DEF BlakeAssumption
<1>2. CASE ~(n > 2 * Half)
  <2>1. Halves(n) = 0 /\ 1..Halves(n) + 1 = {1}
    BY <1>1, <1>2, HalvesStep
  <2>2. Links(n, v) = [e \in 1..1 |-> <<v + 1, n>>]
    <3>1. \A e \in 1..1 : Link(n, v, e) = <<v + 1, n>>
      BY <1>1, <2>1 DEF Link
    <3> QED BY <2>1, <3>1 DEF Links
  <2>3. <<<<v + 1, n>>>> = [e \in 1..1 |-> <<v + 1, n>>]
    <3> DEFINE x == <<v + 1, n>>
    <3> HIDE DEF x
    <3>1. <<x>> = [e \in 1..1 |-> x]
      OBVIOUS
    <3> QED BY <3>1 DEF x
  <2> QED BY <1>2, <2>2, <2>3
<1>3. CASE n > 2 * Half
  <2> DEFINE m == n - Half
             w == After(n, v)
             k == Halves(m)
             s == Links(m, w)
             x == <<v, Half>>
  <2>1. m \in Nat /\ Halves(n) = k + 1 /\ k \in Nat /\ (m <= 2 * Half <=> k = 0)
    BY <1>3, HalvesStep
  <2>2. w \in Nat /\ (k = 0 => w = v) /\ (k # 0 => w = v + 1)
    BY <1>1, <2>1 DEF After
  <2>3. Half * (k + 1) = Half * k + Half /\ Half * k \in Nat
    BY <1>1, <2>1
  <2>4. n = m + Half
    BY <1>1
  <2>5. s = [e \in 1..k + 1 |-> Link(m, w, e)]
    BY DEF Links
  <2> HIDE DEF s
  <2>6. s = [e \in 1..k + 1 |-> s[e]]
    BY <2>5
  <2>7. <<x>> \o s = [e \in 1..(k + 1) + 1 |-> IF e = 1 THEN x ELSE s[e - 1]]
    <3> HIDE DEF m, k, x
    <3>1. k + 1 \in Nat
      BY <2>1
    <3> QED BY <2>6, <3>1, Before
  <2>8. ASSUME NEW e \in 1..(k + 1) + 1
        PROVE  Link(n, v, e) = IF e = 1 THEN x ELSE s[e - 1]
    <3> HIDE DEF k, w, m
    <3>1. CASE e = 1
      BY <2>1, <3>1 DEF Link
    <3>2. CASE e # 1
      <4>1. e - 1 \in 1..k + 1 /\ e \in Nat
        BY <2>1, <3>2
      <4>2. s[e - 1] = Link(m, w, e - 1)
        BY <2>5, <4>1
      <4>3. CASE e <= k + 1
        <5>1. e - 1 <= k /\ k # 0 /\ w + (e - 1) - 1 = v + e - 1
          BY <2>1, <2>2, <3>2, <4>1, <4>3
        <5>2. Link(m, w, e - 1) = <<w + (e - 1) - 1, Half>>
          BY <5>1 DEF Link, k
        <5>3. Link(n, v, e) = <<v + e - 1, Half>>
          BY <2>1, <4>3 DEF Link
        <5> QED BY <3>2, <4>2, <5>1, <5>2, <5>3
      <4>4. CASE ~(e <= k + 1)
        <5>1. ~(e - 1 <= k) /\ k + 1 # 0
          BY <2>1, <4>1, <4>4
        <5>2. Link(m, w, e - 1) = <<IF k = 0 THEN w + 1 ELSE w + k, m - Half * k>>
          BY <5>1 DEF Link, k
        <5>3. Link(n, v, e) = <<v + (k + 1), n - Half * (k + 1)>>
          BY <2>1, <4>4, <5>1 DEF Link
        <5>4. (IF k = 0 THEN w + 1 ELSE w + k) = v + (k + 1) /\ m - Half * k = n - Half * (k + 1)
          BY <1>1, <2>1, <2>2, <2>3, <2>4
        <5> QED BY <3>2, <4>2, <5>2, <5>3, <5>4
      <4> QED BY <4>3, <4>4
    <3> QED BY <3>1, <3>2
  <2>9. Links(n, v) = [e \in 1..(k + 1) + 1 |-> Link(n, v, e)]
    BY <2>1 DEF Links
  <2>10. Links(n, v) = <<x>> \o s
    <3> HIDE DEF k, x
    <3> QED BY <2>7, <2>8, <2>9
  <2> QED BY <1>3, <2>10 DEF s
<1> QED BY <1>2, <1>3

\* The loop has a meaning, and it is that of its turns.
LEMMA ChainUnrolled == BlakeAssumption => Unrolled(Chain)
<1> SUFFICES ASSUME BlakeAssumption PROVE Unrolled(Chain)
  OBVIOUS
<1> DEFINE g == [n \in 0..MaxMessage |-> [v \in Nat |-> Links(n, v)]]
<1>1. Half \in Nat \ {0} /\ MaxMessage \in Nat
  BY DEF BlakeAssumption
<1>2. ASSUME NEW n \in 0..MaxMessage, NEW v \in Nat PROVE Links(n, v) = Turn(g, n, v)
  <2>1. n \in Nat /\ After(n, v) \in Nat
    BY <1>1 DEF After
  <2>2. n > 2 * Half => n - Half \in 0..MaxMessage
    BY <1>1, <2>1
  <2>3. n > 2 * Half => g[n - Half][After(n, v)] = Links(n - Half, After(n, v))
    <3> SUFFICES ASSUME n > 2 * Half PROVE g[n - Half][After(n, v)] = Links(n - Half, After(n, v))
      OBVIOUS
    <3>1. g[n - Half] = [u \in Nat |-> Links(n - Half, u)]
      BY <2>2, Zenon
    <3> QED BY <2>1, <3>1, Zenon
  <2> HIDE DEF g
  <2> QED BY <2>1, <2>3, LinksTurn, Zenon DEF Turn
<1>3. \A n \in 0..MaxMessage : [v \in Nat |-> Links(n, v)] = [v \in Nat |-> Turn(g, n, v)]
  <2> HIDE DEF g
  <2> TAKE n \in 0..MaxMessage
  <2> QED BY <1>2
<1>4. Unrolled(g)
  <2> DEFINE h(n) == [v \in Nat |-> Turn(g, n, v)]
             l(n) == [v \in Nat |-> Links(n, v)]
  <2>1. \A n \in 0..MaxMessage : l(n) = h(n)
    BY <1>3, Zenon
  <2>2. g = [n \in 0..MaxMessage |-> l(n)]
    OBVIOUS
  <2> HIDE DEF g, l, h
  <2>3. g = [n \in 0..MaxMessage |-> h(n)]
    BY <2>1, <2>2
  <2> QED BY <2>3 DEF h, Unrolled
<1>5. Chain = CHOOSE f : Unrolled(f)
  BY Zenon DEF Chain, Unrolled, Turn, After
<1> HIDE DEF g
<1> QED BY <1>4, <1>5, Zenon

\* It is the chain: there is no least length at which it is not.
LEMMA ChainIs ==
  ASSUME BlakeAssumption
  PROVE  \A n \in 0..MaxMessage, v \in Nat : Chain[n][v] = Links(n, v)
<1>1. Half \in Nat \ {0} /\ MaxMessage \in Nat
  BY DEF BlakeAssumption
<1>2. ASSUME NEW n \in 0..MaxMessage, NEW v \in Nat PROVE Chain[n][v] = Turn(Chain, n, v)
  <2>1. Chain[n] = [u \in Nat |-> Turn(Chain, n, u)]
    <3> DEFINE h(m) == [u \in Nat |-> Turn(Chain, m, u)]
    <3>1. Chain = [m \in 0..MaxMessage |-> h(m)]
      BY ChainUnrolled, Zenon DEF Unrolled
    <3> HIDE DEF h
    <3>2. Chain[n] = h(n)
      BY <3>1
    <3> QED BY <3>2, Zenon DEF h
  <2> QED BY <2>1
<1> DEFINE Wrong == {n \in 0..MaxMessage : \E v \in Nat : Chain[n][v] # Links(n, v)}
<1> SUFFICES ASSUME Wrong # {} PROVE FALSE
  BY Zenon
<1>3. Wrong \subseteq Nat /\ Wrong \subseteq 0..MaxMessage
  BY <1>1
<1>4. PICK n \in Wrong : \A m \in Wrong : n <= m
  <2> HIDE DEF Wrong
  <2> QED BY <1>3, NatMin
<1>5. PICK v \in Nat : Chain[n][v] # Links(n, v)
  BY <1>4, Zenon
<1>6. n \in Nat /\ n \in 0..MaxMessage /\ After(n, v) \in Nat
  BY <1>1, <1>3, <1>4 DEF After
<1>7. n > 2 * Half => Chain[n - Half][After(n, v)] = Links(n - Half, After(n, v))
  <2> SUFFICES ASSUME n > 2 * Half PROVE Chain[n - Half][After(n, v)] = Links(n - Half, After(n, v))
    OBVIOUS
  <2>1. n - Half \in 0..MaxMessage /\ ~(n <= n - Half)
    BY <1>1, <1>6
  <2>2. n - Half \notin Wrong
    <3> HIDE DEF Wrong
    <3> QED BY <1>4, <2>1
  <2> QED BY <1>6, <2>1, <2>2, Zenon
<1>8. Links(n, v) = Turn(Chain, n, v)
  BY <1>6, <1>7, LinksTurn, Zenon DEF Turn
<1> QED BY <1>2, <1>5, <1>6, <1>8, Zenon

\* The long hash of Argon2, for every size of digest and every length: whole
\* halves of a chain in which each digest is the hash of the one before it,
\* then one digest of all that is left.
THEOREM LongHashChained == ASSUME BlakeAssumption PROVE Spec => []LongHashIsChained
<1>1. ASSUME BlakeInv PROVE LongHashIsChained
  <2> DEFINE n == absorbed
             r == (n + Half - 1) \div Half - 2
  <2>1. Half \in Nat \ {0} /\ MaxMessage \in Nat /\ n \in 0..MaxMessage /\ n \in Nat
    BY <1>1 DEF BlakeAssumption, BlakeInv, TypeOK
  <2>2. CASE n <= 2 * Half
    BY <2>2 DEF LongHashIsChained, LongHash
  <2>3. CASE n > 2 * Half
    <3>1. Halves(n) = r /\ Halves(n) # 0 /\ Halves(n) \in Nat
      <4>1. Halves(n) = Halves(n - Half) + 1 /\ Halves(n) \in Nat
        BY <2>1, <2>3, HalvesStep
      <4>2. Halves(n - Half) \in Nat
        BY <2>1, <2>3, HalvesStep
      <4> QED BY <2>1, <2>3, <4>1, <4>2 DEF Halves
    <3>2. LongHash(n) = Links(n, 1)
      <4>1. Chain[n][1] = Links(n, 1)
        BY <2>1, ChainIs
      <4> QED BY <2>1, <2>3, <4>1 DEF LongHash
    <3> HIDE DEF r
    <3>3. ASSUME NEW e \in 1..r + 1
          PROVE  Link(n, 1, e) = IF e <= r THEN <<e, Half>> ELSE <<e, n - Half * r>>
      <4>1. e \in Nat /\ 1 + e - 1 = e /\ (~(e <= r) => e = 1 + r)
        BY <3>1
      <4> QED BY <3>1, <4>1 DEF Link
    <3>4. Links(n, 1) = [e \in 1..r + 1 |-> IF e <= r THEN <<e, Half>> ELSE <<e, n - Half * r>>]
      BY <3>1, <3>3 DEF Links
    <3> QED BY <2>1, <2>3, <3>2, <3>4 DEF LongHashIsChained, r
  <2> QED BY <2>1, <2>2, <2>3
<1>2. Init => BlakeInv
  BY BInitInv
<1>3. BlakeInv /\ [Next]_vars => BlakeInv'
  BY BNextInv
<1> QED BY <1>1, <1>2, <1>3, PTL DEF Spec
=============================================================================
