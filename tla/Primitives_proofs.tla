-------------------------- MODULE Primitives_proofs --------------------------
(***************************************************************************)
(* The parts below the protocols that turn bytes into other bytes.         *)
(* SHA-256: however a message is cut into updates, what is compressed in   *)
(* the end is the padded message of FIPS 180-4.  GCM: a frame is opened    *)
(* byte for byte or refused untouched, and no keystream byte is used twice.*)
(* The codec: what is encoded comes back, and a text is read as the bytes  *)
(* its bits spell or refused.  What a device connects with: topics,        *)
(* addresses and identities.  All for every length, and the first two for  *)
(* every size of block.                                                    *)
(***************************************************************************)
EXTENDS Sha256Stream, Gcm, Codec, SequenceTheorems, WellFoundedInduction, TLAPS

-----------------------------------------------------------------------------
(* SHA-256. *)

\* Byte p of what is hashed of n bytes, as far as it is not the length.
Body(n, p) == IF p < n THEN p ELSE IF p = n THEN Pad ELSE Zero
\* What was taken so far, compressed or in the buffer.
Taken == count + buffered
Content == /\ \A p \in 0..count - 1 : stream[p] = Body(length, p)
           /\ \A j \in 0..buffered - 1 : buffer[j] = Body(length, count + j)
InBlocks(n) == \E k \in Nat : n = Block * k

\* While data comes, what was taken is the message but for what is still to
\* do; while it is padded, the zeros have not reached the length's place in
\* the last block.
Progress ==
  CASE phase = "idle" -> todo = 0 /\ Taken = length
    [] phase = "update" -> todo > 0 /\ Taken = length - todo
    [] phase = "pad" -> /\ bitLength = length /\ length < Taken
                        /\ Taken <= Size(length) - LengthSize
    [] OTHER -> stream = Padded(length)
IInv == TypeOK /\ Progress /\ (phase # "done" => Content /\ InBlocks(count))

-----------------------------------------------------------------------------
\* Division with a positive divisor.
LEMMA DivMod == ASSUME NEW x \in Nat, NEW R \in Nat \ {0}
                PROVE  x \div R \in Nat /\ x % R \in 0..R-1 /\ x = R * (x \div R) + (x % R)
  OBVIOUS
LEMMA MulMono == ASSUME NEW a \in Nat, NEW b \in Nat, NEW c \in Nat, a <= b
                 PROVE  c * a <= c * b
  OBVIOUS
LEMMA MulNat == ASSUME NEW a \in Nat, NEW b \in Nat PROVE a * b \in Nat
  OBVIOUS

\* The padded size is whole blocks, the fewest that hold the message, the bit
\* after it and the length.
LEMMA SizeFits ==
  ASSUME ShaAssumption, NEW n \in Nat
  PROVE  /\ InBlocks(Size(n)) /\ Size(n) \in Nat
         /\ n + 1 <= Size(n) - LengthSize
         /\ \A c \in Nat : InBlocks(c) /\ n < c + Block - LengthSize => Size(n) <= c + Block
<1> DEFINE d == (n + LengthSize) \div Block
           r == (n + LengthSize) % Block
<1>0. Block \in Nat \ {0} /\ LengthSize \in Nat \ {0} /\ n + LengthSize \in Nat
  BY DEF ShaAssumption
<1>1. d \in Nat /\ r \in 0..Block - 1 /\ n + LengthSize = Block * d + r
  BY <1>0, DivMod
<1>2. Size(n) = Block * (d + 1) BY DEF Size
<1> HIDE DEF d, r
<1>3. Block * (d + 1) = Block * d + Block /\ Block * d \in Nat BY <1>0, <1>1, MulNat
<1>4. InBlocks(Size(n)) /\ Size(n) \in Nat
  <2>1. d + 1 \in Nat BY <1>1
  <2> QED BY <2>1, <1>2, <1>3, <1>0 DEF InBlocks
<1>5. n + 1 <= Size(n) - LengthSize BY <1>0, <1>1, <1>2, <1>3
<1>6. ASSUME NEW c \in Nat, InBlocks(c), n < c + Block - LengthSize PROVE Size(n) <= c + Block
  <2>1. PICK k \in Nat : c = Block * k BY <1>6 DEF InBlocks
  <2>2. ~(k + 1 <= d)
    <3> SUFFICES ASSUME k + 1 <= d PROVE FALSE OBVIOUS
    <3>1. Block * (k + 1) <= Block * d BY <1>0, <1>1, <2>1, MulMono
    <3>2. Block * (k + 1) = c + Block BY <1>0, <2>1
    <3> QED BY <3>1, <3>2, <1>0, <1>1, <1>3, <1>6
  <2>3. Block * d <= Block * k BY <2>2, <1>0, <1>1, MulMono
  <2> QED BY <2>1, <2>3, <1>0, <1>2, <1>3
<1> QED BY <1>4, <1>5, <1>6

\* Two whole numbers of blocks that differ differ by a block.
LEMMA WholeApart ==
  ASSUME Block \in Nat \ {0}, NEW a \in Nat, NEW b \in Nat, InBlocks(a), InBlocks(b), a < b
  PROVE  a + Block <= b
<1>1. PICK k \in Nat : a = Block * k BY DEF InBlocks
<1>2. PICK m \in Nat : b = Block * m BY DEF InBlocks
<1>3. ~(m <= k)
  <2> SUFFICES ASSUME m <= k PROVE FALSE OBVIOUS
  <2>1. Block * m <= Block * k BY MulMono
  <2> QED BY <2>1, <1>1, <1>2
<1>4. Block * (k + 1) <= Block * m BY <1>3, MulMono
<1>5. Block * (k + 1) = a + Block BY <1>1
<1> QED BY <1>2, <1>4, <1>5

\* Bytes that come next are put where they belong, in the buffer or through it.
LEMMA PutKeeps ==
  ASSUME ShaAssumption, TypeOK, Content, InBlocks(count),
         NEW take \in 1..Block - buffered, NEW bytes,
         \A k \in 0..take - 1 : bytes[k] = Body(length, Taken + k),
         Put(take, bytes), length' = length
  PROVE  /\ Content' /\ InBlocks(count)' /\ Taken' = Taken + take
         /\ buffered' \in 0..Block - 1 /\ count' \in Nat
         /\ DOMAIN stream' = 0..count' - 1 /\ DOMAIN buffer' = 0..Block - 1
<1>0. /\ Block \in Nat \ {0} /\ count \in Nat /\ buffered \in 0..Block - 1
      /\ take \in 1..Block
  BY DEF ShaAssumption, TypeOK
<1>1. buffer' = [j \in 0..Block - 1 |-> IF buffered <= j /\ j < buffered + take
                                        THEN bytes[j - buffered] ELSE buffer[j]]
  BY DEF Put, Copied
<1>2. length' = length OBVIOUS
<1>3. \A j \in 0..buffered + take - 1 : buffer'[j] = Body(length, count + j)
  <2> SUFFICES ASSUME NEW j \in 0..buffered + take - 1 PROVE buffer'[j] = Body(length, count + j)
    OBVIOUS
  <2>0. j \in 0..Block - 1 BY <1>0
  <2>1. CASE j < buffered
    <3>1. buffer'[j] = buffer[j] BY <1>0, <1>1, <2>0, <2>1
    <3>2. j \in 0..buffered - 1 BY <1>0, <2>0, <2>1
    <3> QED BY <3>1, <3>2 DEF Content
  <2>2. CASE buffered <= j
    <3>1. buffer'[j] = bytes[j - buffered] BY <1>0, <1>1, <2>0, <2>2
    <3>2. j - buffered \in 0..take - 1 BY <1>0, <2>0, <2>2
    <3>3. bytes[j - buffered] = Body(length, Taken + (j - buffered)) BY <3>2
    <3>4. Taken + (j - buffered) = count + j BY <1>0, <2>0 DEF Taken
    <3> QED BY <3>1, <3>3, <3>4
  <2> QED BY <2>1, <2>2, <1>0, <2>0
<1>4. CASE buffered + take = Block
  <2>1. stream' = [p \in 0..count + Block - 1 |->
                     IF p < count THEN stream[p] ELSE buffer'[p - count]]
    BY <1>4 DEF Put, Compressed
  <2>2. count' = count + Block /\ buffered' = 0 BY <1>4 DEF Put
  <2>3. DOMAIN stream' = 0..count + Block - 1 BY <2>1
  <2>4. 0..count' - 1 = 0..count + Block - 1
    <3>1. count' - 1 = count + Block - 1 BY <2>2, <1>0
    <3> QED BY <3>1
  <2>5. ASSUME NEW p \in 0..count + Block - 1 PROVE stream'[p] = Body(length, p)
    <3>1. CASE p < count
      <4>1. stream'[p] = stream[p] /\ p \in 0..count - 1 BY <3>1, <2>1, <1>0
      <4> QED BY <4>1 DEF Content
    <3>2. CASE count <= p
      <4>1. stream'[p] = buffer'[p - count] /\ p - count \in 0..buffered + take - 1
        BY <3>2, <2>1, <1>0, <1>4
      <4>2. count + (p - count) = p BY <1>0
      <4> QED BY <4>1, <4>2, <1>3
    <3> QED BY <3>1, <3>2, <1>0
  <2>6. \A p \in 0..count' - 1 : stream'[p] = Body(length', p) BY <2>4, <2>5, <1>2
  <2>7. \A j \in 0..buffered' - 1 : FALSE BY <2>2
  <2>8. Content' BY <2>6, <2>7 DEF Content
  <2>9. InBlocks(count)'
    <3>1. PICK k \in Nat : count = Block * k BY DEF InBlocks
    <3>2. Block * (k + 1) = Block * k + Block BY <1>0
    <3> QED BY <3>1, <3>2, <2>2 DEF InBlocks
  <2>10. Taken' = Taken + take BY <2>2, <1>0, <1>4 DEF Taken
  <2>11. DOMAIN stream' = 0..count' - 1 BY <2>3, <2>4
  <2>12. count' \in Nat /\ buffered' \in 0..Block - 1 BY <2>2, <1>0
  <2> QED BY <2>8, <2>9, <2>10, <2>11, <2>12, <1>1
<1>5. CASE buffered + take # Block
  <2>1. stream' = stream /\ count' = count /\ buffered' = buffered + take
    BY <1>5 DEF Put
  <2>2. \A p \in 0..count' - 1 : stream'[p] = Body(length', p) BY <2>1, <1>2 DEF Content
  <2>3. \A j \in 0..buffered' - 1 : buffer'[j] = Body(length', count' + j)
    <3>1. 0..buffered' - 1 = 0..buffered + take - 1 BY <2>1, <1>0
    <3> QED BY <3>1, <2>1, <1>2, <1>3
  <2>4. Content' BY <2>2, <2>3 DEF Content
  <2>5. InBlocks(count)' BY <2>1 DEF InBlocks
  <2>6. Taken' = Taken + take BY <2>1, <1>0 DEF Taken
  <2>7. buffered' \in 0..Block - 1 BY <2>1, <1>0, <1>5
  <2>8. DOMAIN stream' = 0..count' - 1 BY <2>1 DEF TypeOK
  <2>9. count' \in Nat BY <2>1, <1>0
  <2> QED BY <2>4, <2>5, <2>6, <2>7, <2>8, <2>9, <1>1
<1> QED BY <1>4, <1>5

-----------------------------------------------------------------------------
\* Before the first byte.
LEMMA InitInv == ASSUME ShaAssumption, Init PROVE IInv
<1>1. Block \in Nat \ {0} /\ MaxMessage \in Nat BY DEF ShaAssumption
<1>2. TypeOK
  <2>1. DOMAIN stream = 0..count - 1 BY DEF Init
  <2>2. DOMAIN buffer = 0..Block - 1 BY DEF Init
  <2> QED BY <1>1, <2>1, <2>2 DEF Init, TypeOK
<1>3. Progress BY DEF Init, Progress, Taken
<1>4. Content BY DEF Init, Content
<1>5. InBlocks(count)
  <2>1. 0 = Block * 0 BY <1>1
  <2> QED BY <2>1 DEF Init, InBlocks
<1> QED BY <1>2, <1>3, <1>4, <1>5 DEF IInv

\* A call of update: more of the message is known, none of it taken yet.
LEMMA UpdateInv ==
  ASSUME ShaAssumption, IInv, NEW n \in 0..MaxMessage, Update(n) PROVE IInv'
<1>0. /\ Block \in Nat \ {0} /\ MaxMessage \in Nat /\ length \in Nat /\ count \in Nat
      /\ buffered \in 0..Block - 1
  BY DEF ShaAssumption, IInv, TypeOK
<1>1. phase = "idle" /\ length' = length + n /\ todo' = n /\ length + n <= MaxMessage
  BY DEF Update
<1>2. UNCHANGED <<buffer, buffered, stream, count, bitLength>> BY DEF Update
<1>3. phase' = IF n = 0 THEN "idle" ELSE "update" BY DEF Update
<1>4. TypeOK'
  <2>1. length' \in 0..MaxMessage /\ todo' \in 0..length' BY <1>0, <1>1
  <2>2. bitLength' \in 0..length' BY <1>0, <1>1, <1>2 DEF IInv, TypeOK
  <2>3. phase' \in {"idle", "update", "pad", "done"} BY <1>3
  <2> QED BY <2>1, <2>2, <2>3, <1>2 DEF IInv, TypeOK
<1>5. Taken = length BY <1>1 DEF IInv, Progress
<1>6. Taken' = Taken /\ count' = count BY <1>2 DEF Taken
<1>7. Progress'
  <2>1. CASE n = 0 BY <2>1, <1>0, <1>1, <1>3, <1>5, <1>6 DEF Progress
  <2>2. CASE n # 0
    <3>1. phase' = "update" /\ todo' > 0 /\ Taken' = length' - todo'
      BY <2>2, <1>0, <1>1, <1>3, <1>5, <1>6
    <3> QED BY <3>1 DEF Progress
  <2> QED BY <2>1, <2>2
<1>8. Content /\ InBlocks(count) BY <1>1 DEF IInv
<1>9. \A p \in 0..Taken - 1 : Body(length', p) = Body(length, p)
  BY <1>0, <1>1, <1>5 DEF Body
<1>10. Content'
  <2>1. ASSUME NEW p \in 0..count - 1 PROVE stream[p] = Body(length', p)
    <3>1. p \in 0..Taken - 1 BY <1>0 DEF Taken
    <3> QED BY <3>1, <1>8, <1>9 DEF Content
  <2>2. ASSUME NEW j \in 0..buffered - 1 PROVE buffer[j] = Body(length', count + j)
    <3>1. count + j \in 0..Taken - 1 BY <1>0 DEF Taken
    <3> QED BY <3>1, <1>8, <1>9 DEF Content
  <2> QED BY <2>1, <2>2, <1>2 DEF Content
<1> QED BY <1>4, <1>7, <1>8, <1>10, <1>6 DEF IInv, InBlocks

\* A turn of update: the next bytes of the message, as many as the buffer holds.
LEMMA UpdateTurnInv == ASSUME ShaAssumption, IInv, UpdateTurn PROVE IInv'
<1> DEFINE bytes == [k \in 0..Take - 1 |-> length - todo + k]
<1>0. /\ Block \in Nat \ {0} /\ MaxMessage \in Nat /\ length \in 0..MaxMessage
      /\ count \in Nat /\ buffered \in 0..Block - 1 /\ todo \in 0..length
  BY DEF ShaAssumption, IInv, TypeOK
<1>1. phase = "update" /\ Put(Take, bytes) /\ todo' = todo - Take
  BY DEF UpdateTurn
<1>2. UNCHANGED <<length, bitLength>> /\ phase' = IF todo' = 0 THEN "idle" ELSE "update"
  BY DEF UpdateTurn
<1>3. todo > 0 /\ Taken = length - todo BY <1>1 DEF IInv, Progress
<1>4. Take \in 1..Block - buffered /\ Take <= todo BY <1>0, <1>3 DEF Take
<1>5. Content /\ InBlocks(count) /\ TypeOK BY <1>1 DEF IInv
<1>6. ASSUME NEW k \in 0..Take - 1 PROVE bytes[k] = Body(length, Taken + k)
  <2>1. bytes[k] = length - todo + k OBVIOUS
  <2>2. Taken + k < length /\ Taken + k = length - todo + k BY <1>0, <1>3, <1>4
  <2> QED BY <2>1, <2>2 DEF Body
<1> HIDE DEF bytes
<1>7. /\ Content' /\ InBlocks(count)' /\ Taken' = Taken + Take
      /\ buffered' \in 0..Block - 1 /\ count' \in Nat
      /\ DOMAIN stream' = 0..count' - 1 /\ DOMAIN buffer' = 0..Block - 1
  BY <1>1, <1>2, <1>4, <1>5, <1>6, PutKeeps
<1>8. todo' \in 0..length' BY <1>0, <1>1, <1>2, <1>4
<1>9. phase' \in {"idle", "update"} BY <1>2
<1>10. TypeOK' BY <1>2, <1>5, <1>7, <1>8, <1>9 DEF TypeOK
<1>11. Taken' = length' - todo' BY <1>0, <1>1, <1>2, <1>3, <1>4, <1>7
<1>12. Progress' 
  <2>1. CASE todo' = 0
    <3>1. phase' = "idle" /\ Taken' = length' BY <2>1, <1>0, <1>2, <1>11
    <3> QED BY <3>1, <2>1 DEF Progress
  <2>2. CASE todo' # 0
    <3>1. phase' = "update" /\ todo' > 0 BY <2>2, <1>0, <1>2, <1>8
    <3> QED BY <3>1, <1>11 DEF Progress
  <2> QED BY <2>1, <2>2
<1> QED BY <1>7, <1>10, <1>12 DEF IInv

\* One byte of padding, where there is room for it before the length.
LEMMA PadByteInv ==
  ASSUME ShaAssumption, TypeOK, Content, InBlocks(count), NEW b,
         Put(1, [k \in {0} |-> b]), b = Body(length, Taken),
         length <= Taken, Taken + 1 <= Size(length) - LengthSize,
         UNCHANGED <<length, todo>>, bitLength' = length, phase' = "pad"
  PROVE  IInv'
<1> DEFINE bytes == [k \in {0} |-> b]
<1>0. /\ Block \in Nat \ {0} /\ length \in 0..MaxMessage /\ MaxMessage \in Nat
      /\ count \in Nat /\ buffered \in 0..Block - 1
  BY DEF ShaAssumption, TypeOK
<1>1. 1 \in 1..Block - buffered BY <1>0
<1>2. ASSUME NEW k \in 0..1 - 1 PROVE bytes[k] = Body(length, Taken + k)
  <2>1. k = 0 /\ bytes[0] = b OBVIOUS
  <2>2. Taken + 0 = Taken BY <1>0 DEF Taken
  <2> QED BY <2>1, <2>2
<1>3. Put(1, bytes) OBVIOUS
<1> HIDE DEF bytes
<1>4. /\ Content' /\ InBlocks(count)' /\ Taken' = Taken + 1
      /\ buffered' \in 0..Block - 1 /\ count' \in Nat
      /\ DOMAIN stream' = 0..count' - 1 /\ DOMAIN buffer' = 0..Block - 1
  BY <1>1, <1>2, <1>3, PutKeeps
<1>5. TypeOK' BY <1>0, <1>4 DEF TypeOK
<1>6. length < Taken + 1 BY <1>0 DEF Taken
<1>7. Size(length)' = Size(length) BY DEF Size
<1>8. Progress' BY <1>4, <1>6, <1>7 DEF Progress
<1> QED BY <1>4, <1>5, <1>8 DEF IInv

\* The bit after the message.
LEMMA FinalInv == ASSUME ShaAssumption, IInv, Final PROVE IInv'
<1>0. length \in Nat /\ count \in Nat /\ buffered \in Nat
  BY DEF ShaAssumption, IInv, TypeOK
<1>1. /\ phase = "idle" /\ Put(1, [k \in {0} |-> Pad]) /\ bitLength' = length
      /\ phase' = "pad" /\ UNCHANGED <<length, todo>>
  BY DEF Final
<1>2. Taken = length /\ TypeOK /\ Content /\ InBlocks(count) BY <1>1 DEF IInv, Progress
<1>3. Pad = Body(length, Taken) BY <1>0, <1>2 DEF Body
<1>4. Taken + 1 <= Size(length) - LengthSize BY <1>0, <1>2, SizeFits
<1>5. length <= Taken BY <1>0, <1>2
<1> QED BY <1>1, <1>2, <1>3, <1>4, <1>5, PadByteInv

\* A zero never takes the length's place: a block that has no room for it is
\* filled and closed.
LEMMA PadTurnInv == ASSUME ShaAssumption, IInv, PadTurn PROVE IInv'
<1> DEFINE S == Size(length)
<1>0. /\ length \in Nat /\ count \in Nat /\ buffered \in 0..Block - 1
      /\ Block \in Nat \ {0} /\ LengthSize \in Nat \ {0} /\ LengthSize < Block
  BY DEF ShaAssumption, IInv, TypeOK
<1>1. /\ phase = "pad" /\ Put(1, [k \in {0} |-> Zero]) /\ bitLength' = bitLength
      /\ phase' = "pad" /\ UNCHANGED <<length, todo>> /\ buffered # Block - LengthSize
  BY DEF PadTurn
<1>2. TypeOK /\ Content /\ InBlocks(count) BY <1>1 DEF IInv
<1>3. bitLength = length /\ length < Taken /\ Taken <= S - LengthSize
  BY <1>1 DEF IInv, Progress
<1>4. Zero = Body(length, Taken) BY <1>0, <1>3 DEF Body, Taken
<1>5. S \in Nat /\ InBlocks(S) BY <1>0, SizeFits
<1> HIDE DEF S
<1>6. count + Block \in Nat /\ InBlocks(count + Block)
  <2>1. PICK k \in Nat : count = Block * k BY <1>2 DEF InBlocks
  <2>2. count + Block = Block * (k + 1) BY <1>0, <2>1
  <2>3. k + 1 \in Nat /\ count + Block \in Nat BY <1>0
  <2> QED BY <2>2, <2>3 DEF InBlocks
<1>7. Taken # S - LengthSize
  <2> SUFFICES ASSUME Taken = S - LengthSize PROVE FALSE OBVIOUS
  <2>1. S = count + buffered + LengthSize BY <1>0, <1>5 DEF Taken
  <2>2. count < S BY <2>1, <1>0
  <2>3. count + Block <= S BY <2>2, <1>0, <1>2, <1>5, WholeApart
  <2>4. count + Block # S BY <2>1, <1>0, <1>1
  <2>5. count + Block < S BY <2>3, <2>4, <1>0, <1>5
  <2>6. count + Block + Block <= S BY <2>5, <1>0, <1>5, <1>6, WholeApart
  <2> QED BY <2>1, <2>6, <1>0
<1>8. Taken + 1 <= S - LengthSize BY <1>3, <1>7, <1>0, <1>5 DEF Taken
<1>9. length <= Taken BY <1>3, <1>0 DEF Taken
<1>10. bitLength' = length BY <1>1, <1>3
<1> QED BY <1>1, <1>2, <1>4, <1>8, <1>9, <1>10, PadByteInv DEF S

\* The last block: what went before it and what stands in it are the padded
\* message, and the block ends where the padded message does.
LEMMA CloseInv ==
  ASSUME ShaAssumption, IInv, Close
  PROVE  IInv' /\ stream' = Padded(length)
<1>0. /\ length \in Nat /\ count \in Nat /\ buffered \in 0..Block - 1
      /\ Block \in Nat \ {0} /\ LengthSize \in Nat \ {0} /\ LengthSize < Block
  BY DEF ShaAssumption, IInv, TypeOK
<1>1. /\ phase = "pad" /\ buffered = Block - LengthSize
      /\ count' = count + Block /\ phase' = "done"
      /\ UNCHANGED <<length, buffered, todo, bitLength>>
  BY DEF Close
<1>2. buffer' = [j \in 0..Block - 1 |-> IF j >= Block - LengthSize
                                        THEN LengthByte(bitLength) ELSE buffer[j]]
  BY DEF Close
<1>3. stream' = [p \in 0..count + Block - 1 |-> IF p < count THEN stream[p] ELSE buffer'[p - count]]
  BY DEF Close, Compressed
<1>4. TypeOK /\ Content /\ InBlocks(count) BY <1>1 DEF IInv
<1>5. bitLength = length /\ length < Taken /\ Taken <= Size(length) - LengthSize
  BY <1>1 DEF IInv, Progress
<1>6. Size(length) \in Nat BY <1>0, SizeFits
<1>7. Size(length) = count + Block
  <2>1. length < count + Block - LengthSize BY <1>0, <1>1, <1>5 DEF Taken
  <2>2. Size(length) <= count + Block BY <2>1, <1>0, <1>4, SizeFits
  <2>3. count + Block <= Size(length) BY <1>0, <1>1, <1>5, <1>6 DEF Taken
  <2> QED BY <2>2, <2>3, <1>0, <1>6
<1>8. ASSUME NEW p \in 0..count + Block - 1
      PROVE  stream'[p] = IF p < length THEN p ELSE IF p = length THEN Pad
                          ELSE IF p < Size(length) - LengthSize THEN Zero ELSE LengthByte(length)
  <2>1. CASE p < count
    <3>1. stream'[p] = stream[p] /\ p \in 0..count - 1 BY <2>1, <1>0, <1>3
    <3>2. stream[p] = Body(length, p) BY <3>1, <1>4 DEF Content
    <3>3. p < Size(length) - LengthSize BY <2>1, <1>0, <1>7
    <3> QED BY <3>1, <3>2, <3>3 DEF Body
  <2>2. CASE count <= p /\ p < count + buffered
    <3>1. stream'[p] = buffer'[p - count] /\ p - count \in 0..buffered - 1
      BY <2>2, <1>0, <1>3
    <3>2. buffer'[p - count] = buffer[p - count] BY <3>1, <1>0, <1>1, <1>2
    <3>3. count + (p - count) = p BY <1>0
    <3>4. buffer[p - count] = Body(length, p) BY <3>1, <3>3, <1>4 DEF Content
    <3>5. p < Size(length) - LengthSize BY <2>2, <1>0, <1>1, <1>7
    <3> QED BY <3>1, <3>2, <3>4, <3>5 DEF Body
  <2>3. CASE count + buffered <= p
    <3>1. stream'[p] = buffer'[p - count] BY <2>3, <1>0, <1>3
    <3>2. p - count \in 0..Block - 1 /\ p - count >= Block - LengthSize
      BY <2>3, <1>0, <1>1
    <3>3. buffer'[p - count] = LengthByte(length) BY <3>2, <1>2, <1>5
    <3>4. length < p /\ ~(p < Size(length) - LengthSize)
      BY <2>3, <1>0, <1>1, <1>5, <1>7 DEF Taken
    <3> QED BY <3>1, <3>3, <3>4, <1>0
  <2> QED BY <2>1, <2>2, <2>3, <1>0
<1>9. stream' = Padded(length)
  <2>1. 0..count + Block - 1 = 0..Size(length) - 1
    <3>1. count + Block - 1 = Size(length) - 1 BY <1>7, <1>0
    <3> QED BY <3>1
  <2>2. Padded(length) =
          [p \in 0..count + Block - 1 |->
             IF p < length THEN p ELSE IF p = length THEN Pad
             ELSE IF p < Size(length) - LengthSize THEN Zero ELSE LengthByte(length)]
    BY <2>1 DEF Padded
  <2>3. \A p \in 0..count + Block - 1 : stream'[p] = Padded(length)[p] BY <2>2, <1>8
  <2>4. stream' = [p \in 0..count + Block - 1 |-> stream'[p]] BY <1>3
  <2>5. Padded(length) = [p \in 0..count + Block - 1 |-> Padded(length)[p]] BY <2>2
  <2> QED BY <2>3, <2>4, <2>5
<1>10. DOMAIN stream' = 0..count' - 1
  <2>1. DOMAIN stream' = 0..count + Block - 1 BY <1>3
  <2>2. count' - 1 = count + Block - 1 BY <1>0, <1>1
  <2> QED BY <2>1, <2>2
<1>11. DOMAIN buffer' = 0..Block - 1 BY <1>2
<1>12. count' \in Nat BY <1>0, <1>1
<1>13. TypeOK' BY <1>1, <1>4, <1>10, <1>11, <1>12 DEF TypeOK
<1>14. Padded(length)' = Padded(length)
  <2>1. length' = length BY <1>1
  <2> QED BY <2>1 DEF Padded, Size
<1>15. Progress' BY <1>1, <1>9, <1>14 DEF Progress
<1> QED BY <1>1, <1>9, <1>13, <1>15 DEF IInv

\* Every step.
LEMMA NextInv == ASSUME ShaAssumption, IInv, [Next]_vars PROVE IInv'
<1>1. CASE UNCHANGED vars
  BY <1>1 DEF vars, IInv, TypeOK, Progress, Content, InBlocks, Taken, Padded, Size
<1>2. ASSUME NEW n \in 0..MaxMessage, Update(n) PROVE IInv' BY <1>2, UpdateInv
<1>3. CASE UpdateTurn BY <1>3, UpdateTurnInv
<1>4. CASE Final BY <1>4, FinalInv
<1>5. CASE PadTurn BY <1>5, PadTurnInv
<1>6. CASE Close BY <1>6, CloseInv
<1> QED BY <1>1, <1>2, <1>3, <1>4, <1>5, <1>6 DEF Next

\* The message is taken as it comes and the digest is that of the whole: every
\* way of cutting it into updates of thalovant_sha256_update, for every length,
\* ends with the padded message of the standard in thalovant_sha256_final.
THEOREM Refinement == ASSUME ShaAssumption PROVE Spec => ImplementsOneShot
<1>1. Init => OneShot!Init BY DEF Init, OneShot!Init
<1>2. Init => IInv BY InitInv
<1>3. IInv /\ [Next]_vars => IInv' BY NextInv
<1>4. IInv /\ [Next]_vars => [OneShot!Next]_OneShot!vars
  <2> SUFFICES ASSUME IInv, [Next]_vars PROVE [OneShot!Next]_OneShot!vars OBVIOUS
  <2>1. length \in Nat /\ length \in 0..MaxMessage BY DEF IInv, TypeOK, ShaAssumption
  <2>2. CASE UNCHANGED vars BY <2>2 DEF vars, OneShot!vars
  <2>3. ASSUME NEW n \in 0..MaxMessage, Update(n) PROVE OneShot!Absorb
    <3>1. phase = "idle" /\ length' = length + n BY <2>3 DEF Update
    <3>2. phase' # "done" BY <2>3 DEF Update
    <3>3. n \in Nat BY DEF ShaAssumption
    <3> QED BY <3>1, <3>2, <3>3, <2>1 DEF OneShot!Absorb
  <2>4. CASE UpdateTurn \/ Final \/ PadTurn
    <3>1. length' = length /\ phase # "done" /\ phase' # "done"
      BY <2>4 DEF UpdateTurn, Final, PadTurn
    <3> QED BY <3>1 DEF OneShot!vars
  <2>5. CASE Close
    <3>1. phase = "pad" /\ phase' = "done" /\ length' = length BY <2>5 DEF Close
    <3>2. stream' = Padded(length) BY <2>5, CloseInv
    <3> QED BY <3>1, <3>2, <2>1 DEF OneShot!Finish, OneShot!Next
  <2> QED BY <2>2, <2>3, <2>4, <2>5 DEF Next, OneShot!Next
<1> QED BY <1>1, <1>2, <1>3, <1>4, PTL DEF Spec, ImplementsOneShot, OneShot!Spec

-----------------------------------------------------------------------------
(* GCM. *)

\* The keystream byte that belongs over byte k, and the counter after k bytes.
PadOf(j0, k) == <<(j0 + k \div BlockSize + 1) % Counters, k % BlockSize>>
CounterAfter(j0, k) == IF k = 0 THEN j0 ELSE PadOf(j0, k - 1)[1]
Under(j0, k) == [m |-> k, pads |-> {PadOf(j0, k)}]

Cell == [m : Int, pads : SUBSET (Int \X Int)]
Lengths == 0..MaxLength

\* A call that runs: how far it is and where the counter is.
Running == /\ call.len \in Lengths /\ done \in 0..call.len /\ call.j0 \in 0..Counters - 1
           /\ counter = CounterAfter(call.j0, done)

\* What goes out is each byte under its own keystream byte, and the tag of it.
SentOK ==
  /\ sent.aad \in Seq(Cell) /\ sent.cells \in Seq(Cell) /\ Len(sent.cells) \in Lengths
  /\ sent.j0 \in 0..Counters - 1
  /\ \A k \in 1..Len(sent.cells) : sent.cells[k] = Under(sent.j0, k - 1)
  /\ sent.tag = Tag(sent.aad, sent.cells, sent.j0)

\* Sealing in place: the bytes done are under their keystream, the rest bare.
Encrypting ==
  /\ outcome = "none" /\ Running /\ call.src = 0 /\ call.dst = 0 /\ call.aad \in Seq(Cell)
  /\ \A k \in 0..call.len - 1 :
       mem[k] = IF k < done THEN Under(call.j0, k) ELSE Byte(k)

\* Before the tag is verified the memory is as the call found it.
Verifying ==
  /\ outcome = "sealed" /\ Running /\ done = 0 /\ mem = before
  /\ call.src = Nonce /\ call.dst \in {0, Nonce} /\ call.aad \in Seq(Cell) /\ call.j0 = sent.j0

\* Opening what was sealed, in place or further down: the bytes done are bare
\* where they belong, and nothing was written over the rest.
IsSent == call.aad = sent.aad /\ call.len = Len(sent.cells)
Decrypting ==
  /\ outcome = "sealed" /\ Running /\ IsSent
  /\ call.src = Nonce /\ call.dst \in {0, Nonce} /\ call.j0 = sent.j0
  /\ \A k \in 0..done - 1 : mem[call.dst + k] = Byte(k)
  /\ \A k \in done..call.len - 1 : mem[Nonce + k] = sent.cells[k + 1]

Opened == IsSent /\ \A k \in 0..call.len - 1 : mem[call.dst + k] = Byte(k)

SealingInv ==
  /\ mem \in [Addresses -> Cell]
  /\ call.op \in {"idle", "encrypt", "verify", "decrypt"}
  /\ outcome \in {"none", "sealed", "OK", "AUTH"}
  /\ IF outcome = "none" THEN sent = Idle ELSE sent # Idle /\ SentOK
  /\ call.op = "encrypt" => Encrypting
  /\ call.op = "verify" => Verifying
  /\ call.op = "decrypt" => Decrypting
  /\ outcome = "OK" => Opened
  /\ RefusalReleasesNothing

-----------------------------------------------------------------------------
LEMMA DivIs == ASSUME NEW x \in Nat, NEW q \in Nat, NEW R \in Nat \ {0}, R * q <= x, x < R * q + R
               PROVE  x \div R = q
  OBVIOUS

\* A counter that wraps does so once within a message.
LEMMA Wrap ==
  ASSUME NEW C \in Nat \ {0}, NEW j \in 0..C - 1, NEW x \in 0..C - 1
  PROVE  (j + x) % C = IF j + x < C THEN j + x ELSE j + x - C
<1>1. CASE j + x < C
  BY <1>1
<1>2. CASE j + x >= C
  BY <1>2
<1> QED
  BY <1>1, <1>2

\* A byte of a message lies in one of the blocks the counters can tell apart.
LEMMA Quotient ==
  ASSUME GcmAssumption, NEW k \in Nat, k < MaxLength
  PROVE  k \div BlockSize \in 0..Counters - 2
<1> DEFINE q == k \div BlockSize
<1>1. BlockSize \in Nat \ {0} /\ Counters \in Nat \ {0} /\ MaxLength < BlockSize * (Counters - 1)
  BY DEF GcmAssumption
<1>2. q \in Nat /\ BlockSize * q <= k
  <2> DEFINE r == k % BlockSize
  <2>1. q \in Nat /\ r \in 0..BlockSize - 1 /\ k = BlockSize * q + r
    BY <1>1, DivMod
  <2> HIDE DEF q, r
  <2>2. BlockSize * q \in Int
    BY <1>1, <2>1
  <2> QED
    BY <1>1, <2>1, <2>2
<1> HIDE DEF q
<1>3. MaxLength \in Nat
  BY DEF GcmAssumption
<1>4. ~(Counters - 1 <= q)
  <2> SUFFICES ASSUME Counters - 1 <= q PROVE FALSE
    OBVIOUS
  <2>1. Counters - 1 \in Nat
    BY <1>1
  <2>2. BlockSize * (Counters - 1) <= BlockSize * q
    BY <1>1, <1>2, <2>1, MulMono
  <2>3. BlockSize * (Counters - 1) \in Int /\ BlockSize * q \in Int
    BY <1>1, <1>2
  <2> QED
    BY <1>1, <1>2, <1>3, <2>2, <2>3
<1>5. q \in 0..Counters - 2
  BY <1>1, <1>2, <1>4
<1> QED
  BY <1>5 DEF q

\* The pad of a byte, with the counter written out: it wraps once at most.
LEMMA PadWrap ==
  ASSUME GcmAssumption, NEW j0 \in 0..Counters - 1, NEW k \in Nat, k < MaxLength
  PROVE  LET q == k \div BlockSize
         IN /\ PadOf(j0, k)[1] = IF j0 + q + 1 < Counters THEN j0 + q + 1 ELSE j0 + q + 1 - Counters
            /\ PadOf(j0, k)[2] = k % BlockSize
            /\ q \in 0..Counters - 2
            /\ k = BlockSize * q + (k % BlockSize) /\ k % BlockSize \in 0..BlockSize - 1
<1> DEFINE q == k \div BlockSize
<1>1. BlockSize \in Nat \ {0} /\ Counters \in Nat \ {0}
  BY DEF GcmAssumption
<1>2. q \in 0..Counters - 2
  BY Quotient
<1>3. q + 1 \in 0..Counters - 1 /\ j0 + q + 1 = j0 + (q + 1)
  BY <1>1, <1>2
<1>4. (j0 + (q + 1)) % Counters =
        IF j0 + (q + 1) < Counters THEN j0 + (q + 1) ELSE j0 + (q + 1) - Counters
  <2> HIDE DEF q
  <2> QED
    BY <1>1, <1>3, Wrap
<1>5. PadOf(j0, k) = <<(j0 + q + 1) % Counters, k % BlockSize>>
  BY DEF PadOf
<1>6. k = BlockSize * q + (k % BlockSize) /\ k % BlockSize \in 0..BlockSize - 1
  BY <1>1, DivMod
<1> HIDE DEF q
<1>7. /\ PadOf(j0, k)[1] = IF j0 + q + 1 < Counters THEN j0 + q + 1 ELSE j0 + q + 1 - Counters
      /\ PadOf(j0, k)[2] = k % BlockSize
  <2>1. PadOf(j0, k)[1] = (j0 + q + 1) % Counters /\ PadOf(j0, k)[2] = k % BlockSize
    BY <1>5
  <2>2. (j0 + q + 1) % Counters = (j0 + (q + 1)) % Counters
    BY <1>3
  <2>3. (j0 + q + 1) % Counters =
          IF j0 + (q + 1) < Counters THEN j0 + (q + 1) ELSE j0 + (q + 1) - Counters
    BY <1>4, <2>2
  <2>4. j0 \in Int /\ q \in Int /\ Counters \in Int
    BY <1>1, <1>2
  <2>5. (IF j0 + (q + 1) < Counters THEN j0 + (q + 1) ELSE j0 + (q + 1) - Counters)
          = IF j0 + q + 1 < Counters THEN j0 + q + 1 ELSE j0 + q + 1 - Counters
    BY <2>4
  <2> QED
    BY <2>1, <2>3, <2>5
<1> QED
  BY <1>2, <1>6, <1>7 DEF q

\* No keystream byte of a message is another's or of the block that masks the tag.
LEMMA PadsApart ==
  ASSUME GcmAssumption, NEW j0 \in 0..Counters - 1
  PROVE  /\ \A k, l \in 0..MaxLength - 1 : k # l => PadOf(j0, k) # PadOf(j0, l)
         /\ \A k \in 0..MaxLength - 1 : PadOf(j0, k)[1] # j0
<1>1. BlockSize \in Nat \ {0} /\ Counters \in Nat \ {0} /\ MaxLength \in Nat
  BY DEF GcmAssumption
<1>2. ASSUME NEW k \in 0..MaxLength - 1, NEW l \in 0..MaxLength - 1, PadOf(j0, k) = PadOf(j0, l)
      PROVE  k = l
  <2> DEFINE q == k \div BlockSize
             p == l \div BlockSize
             r == k % BlockSize
             t == l % BlockSize
  <2>0. /\ k \in Nat /\ k < MaxLength /\ l \in Nat /\ l < MaxLength
    BY <1>1
  <2>1. /\ PadOf(j0, k)[1] = IF j0 + q + 1 < Counters THEN j0 + q + 1 ELSE j0 + q + 1 - Counters
        /\ PadOf(j0, k)[2] = r /\ q \in 0..Counters - 2 /\ k = BlockSize * q + r
    BY <2>0, PadWrap
  <2>2. /\ PadOf(j0, l)[1] = IF j0 + p + 1 < Counters THEN j0 + p + 1 ELSE j0 + p + 1 - Counters
        /\ PadOf(j0, l)[2] = t /\ p \in 0..Counters - 2 /\ l = BlockSize * p + t
    BY <2>0, PadWrap
  <2> HIDE DEF q, p, r, t
  <2>3. q = p
    BY <1>1, <1>2, <2>1, <2>2
  <2> QED
    BY <1>2, <2>1, <2>2, <2>3
<1>3. ASSUME NEW k \in 0..MaxLength - 1 PROVE PadOf(j0, k)[1] # j0
  <2> DEFINE q == k \div BlockSize
  <2>0. k \in Nat /\ k < MaxLength
    BY <1>1
  <2>1. /\ PadOf(j0, k)[1] = IF j0 + q + 1 < Counters THEN j0 + q + 1 ELSE j0 + q + 1 - Counters
        /\ q \in 0..Counters - 2
    BY <2>0, PadWrap
  <2> HIDE DEF q
  <2> QED
    BY <1>1, <2>1
<1> QED
  BY <1>2, <1>3

\* The counter of a turn is that of its byte's keystream.
LEMMA TurnCounter ==
  ASSUME GcmAssumption, Running, done < call.len
  PROVE  /\ BlockCounter = PadOf(call.j0, done)[1]
         /\ PadOf(call.j0, done) = <<BlockCounter, done % BlockSize>>
         /\ BlockCounter \in 0..Counters - 1 /\ done % BlockSize \in Nat
<1> DEFINE j == call.j0
           q == done \div BlockSize
           r == done % BlockSize
<1>1. BlockSize \in Nat \ {0} /\ Counters \in Nat \ {0} /\ MaxLength \in Nat
  BY DEF GcmAssumption
<1>2. done \in Nat /\ done < MaxLength /\ j \in 0..Counters - 1
  BY <1>1 DEF Running, Lengths
<1>3. /\ PadOf(j, done)[1] = IF j + q + 1 < Counters THEN j + q + 1 ELSE j + q + 1 - Counters
      /\ q \in 0..Counters - 2 /\ done = BlockSize * q + r /\ r \in 0..BlockSize - 1
  BY <1>2, PadWrap
<1>4. counter = CounterAfter(j, done)
  BY DEF Running
<1>5. BlockCounter = IF r = 0 THEN (counter + 1) % Counters ELSE counter
  BY DEF BlockCounter
<1>6. PadOf(j, done) = <<PadOf(j, done)[1], r>>
  BY DEF PadOf
<1>7. ASSUME done = 0 PROVE BlockCounter = PadOf(j, done)[1]
  <2>1. counter = j
    BY <1>4, <1>7 DEF CounterAfter
  <2>2. r = 0
    BY <1>1, <1>7
  <2>3. PadOf(j, done)[1] = (j + 0 \div BlockSize + 1) % Counters
    BY <1>7 DEF PadOf
  <2>4. 0 \div BlockSize = 0
    BY <1>1
  <2>5. j + 0 + 1 = j + 1
    BY <1>2
  <2> QED
    BY <1>5, <2>1, <2>2, <2>3, <2>4, <2>5
<1>8. ASSUME done > 0 PROVE BlockCounter = PadOf(j, done)[1]
  <2> DEFINE k == done - 1
             p == k \div BlockSize
  <2>1. k \in Nat /\ k < MaxLength /\ counter = PadOf(j, k)[1]
    BY <1>1, <1>2, <1>4, <1>8 DEF CounterAfter
  <2>2. /\ PadOf(j, k)[1] = IF j + p + 1 < Counters THEN j + p + 1 ELSE j + p + 1 - Counters
        /\ p \in 0..Counters - 2
    BY <1>2, <2>1, PadWrap
  <2>3. CASE r = 0
    <3>1. q > 0
      <4> HIDE DEF q, r
      <4>1. q # 0
        BY <1>1, <1>3, <1>8, <2>3
      <4> QED
        BY <1>1, <1>3, <4>1
    <3>2. BlockSize * (q - 1) = BlockSize * q - BlockSize
      <4> HIDE DEF q, r
      <4> QED
        BY <1>1, <1>3
    <3>3. q - 1 \in Nat /\ BlockSize * (q - 1) <= k /\ k < BlockSize * (q - 1) + BlockSize
      <4> HIDE DEF q, r
      <4>1. BlockSize * q \in Int
        BY <1>1, <1>3
      <4> QED
        BY <1>1, <1>2, <1>3, <2>3, <3>1, <3>2, <4>1
    <3>4. p = q - 1
      <4> HIDE DEF q, r, k
      <4> QED
        BY <1>1, <2>1, <3>3, DivIs
    <3> HIDE DEF k, p, q, r
    <3>5. counter = IF j + q < Counters THEN j + q ELSE j + q - Counters
      BY <1>1, <1>2, <1>3, <2>1, <2>2, <3>4
    <3>6. counter \in 0..Counters - 1 /\ 1 \in 0..Counters - 1
      BY <1>1, <1>2, <1>3, <3>1, <3>5
    <3>7. (counter + 1) % Counters = IF counter + 1 < Counters THEN counter + 1
                                     ELSE counter + 1 - Counters
      BY <1>1, <3>6, Wrap
    <3> QED
      BY <1>1, <1>2, <1>3, <1>5, <2>3, <3>5, <3>7
  <2>4. CASE r # 0
    <3>1. q \in Nat /\ BlockSize * q <= k /\ k < BlockSize * q + BlockSize
      <4> HIDE DEF q, r
      <4>1. BlockSize * q \in Int
        BY <1>1, <1>3
      <4> QED
        BY <1>1, <1>2, <1>3, <2>4, <4>1
    <3>2. p = q
      <4> HIDE DEF q, r, k
      <4> QED
        BY <1>1, <2>1, <3>1, DivIs
    <3> HIDE DEF k, p, q, r
    <3> QED
      BY <1>3, <1>5, <2>1, <2>2, <2>4, <3>2
  <2> QED
    BY <1>3, <2>3, <2>4
<1>9. BlockCounter = PadOf(j, done)[1]
  BY <1>2, <1>7, <1>8
<1>10. PadOf(j, done)[1] \in 0..Counters - 1
  <2> HIDE DEF q, r
  <2> QED
    BY <1>1, <1>2, <1>3
<1> QED
  BY <1>3, <1>6, <1>9, <1>10

-----------------------------------------------------------------------------
(* What a tag is of. *)

\* The padding of GHASH's input, a number of bytes.
LEMMA PadLenNat == ASSUME GcmAssumption, NEW s \in Seq(Cell) PROVE PadLen(s) \in Nat
<1>1. BlockSize \in Nat \ {0} /\ Len(s) \in Nat
  BY DEF GcmAssumption
<1>2. Len(s) % BlockSize \in 0..BlockSize - 1
  BY <1>1, DivMod
<1>3. BlockSize - (Len(s) % BlockSize) \in Nat
  BY <1>1, <1>2
<1>4. (BlockSize - (Len(s) % BlockSize)) % BlockSize \in 0..BlockSize - 1
  <2> DEFINE x == BlockSize - (Len(s) % BlockSize)
  <2>1. x \in Nat
    BY <1>3
  <2> HIDE DEF x
  <2>2. x % BlockSize \in 0..BlockSize - 1
    BY <1>1, <2>1, DivMod
  <2> QED
    BY <2>2 DEF x
<1> QED
  BY <1>1, <1>4 DEF PadLen

\* Padded, what was there is still there, in its place.
LEMMA WholeIs ==
  ASSUME GcmAssumption, NEW s \in Seq(Cell)
  PROVE  /\ Whole(s) \in Seq(Cell) /\ Len(Whole(s)) = Len(s) + PadLen(s)
         /\ \A i \in 1..Len(s) : Whole(s)[i] = s[i]
<1> DEFINE zeros == [k \in 1..PadLen(s) |-> ZeroByte]
<1>1. PadLen(s) \in Nat
  BY PadLenNat
<1>2. ZeroByte \in Cell
  BY DEF ZeroByte, Cell
<1>3. zeros \in Seq(Cell) /\ Len(zeros) = PadLen(s)
  BY <1>1, <1>2
<1> HIDE DEF zeros
<1>4. Whole(s) = s \o zeros
  BY DEF Whole, zeros
<1>5. Whole(s) \in Seq(Cell)
  BY <1>3, <1>4
<1>6. Len(Whole(s)) = Len(s) + PadLen(s)
  <2>1. Len(s \o zeros) = Len(s) + Len(zeros)
    BY <1>3
  <2> QED
    BY <1>3, <1>4, <2>1
<1>7. \A i \in 1..Len(s) : Whole(s)[i] = s[i]
  BY <1>3, <1>4
<1> QED
  BY <1>5, <1>6, <1>7

\* Neither a byte moved over the border of aad and message nor a zero added
\* makes the same GHASH: the lengths are in it.
LEMMA GhashInjective ==
  ASSUME GcmAssumption, NEW a \in Seq(Cell), NEW b \in Seq(Cell),
         NEW c \in Seq(Cell), NEW d \in Seq(Cell),
         Ghash(a, c) = Ghash(b, d)
  PROVE  a = b /\ c = d
<1>1. Whole(a) \o Whole(c) = Whole(b) \o Whole(d) /\ Len(a) = Len(b) /\ Len(c) = Len(d)
  BY DEF Ghash
<1>2. PadLen(a) = PadLen(b)
  BY <1>1 DEF PadLen
<1> DEFINE A == Whole(a)  B == Whole(b)  C == Whole(c)  D == Whole(d)
<1>3. /\ A \in Seq(Cell) /\ Len(A) = Len(a) + PadLen(a) /\ \A i \in 1..Len(a) : A[i] = a[i]
      /\ B \in Seq(Cell) /\ Len(B) = Len(b) + PadLen(b) /\ \A i \in 1..Len(b) : B[i] = b[i]
  BY WholeIs
<1>4. /\ C \in Seq(Cell) /\ Len(C) = Len(c) + PadLen(c) /\ \A i \in 1..Len(c) : C[i] = c[i]
      /\ D \in Seq(Cell) /\ Len(D) = Len(d) + PadLen(d) /\ \A i \in 1..Len(d) : D[i] = d[i]
  BY WholeIs
<1>5. PadLen(a) \in Nat /\ PadLen(c) \in Nat /\ PadLen(d) \in Nat
  BY PadLenNat
<1>6. A \o C = B \o D
  BY <1>1
<1> HIDE DEF A, B, C, D
<1>7. Len(A) = Len(B)
  BY <1>1, <1>2, <1>3
<1>8. \A i \in 1..Len(a) : a[i] = b[i]
  <2> SUFFICES ASSUME NEW i \in 1..Len(a) PROVE a[i] = b[i]
    OBVIOUS
  <2>1. i \in 1..Len(A) /\ i \in 1..Len(b)
    BY <1>1, <1>3, <1>5
  <2>2. (A \o C)[i] = A[i] /\ (B \o D)[i] = B[i]
    BY <1>3, <1>4, <1>7, <2>1
  <2> QED
    BY <1>3, <1>6, <2>1, <2>2
<1>9. \A i \in 1..Len(c) : c[i] = d[i]
  <2> SUFFICES ASSUME NEW i \in 1..Len(c) PROVE c[i] = d[i]
    OBVIOUS
  <2>1. i \in 1..Len(C) /\ i \in 1..Len(D) /\ i \in 1..Len(d)
    BY <1>1, <1>4, <1>5
  <2>2. (A \o C)[Len(A) + i] = C[i] /\ (B \o D)[Len(A) + i] = D[i]
    BY <1>3, <1>4, <1>7, <2>1
  <2> QED
    BY <1>4, <1>6, <2>1, <2>2
<1>10. a = b
  BY <1>1, <1>8, SeqEqual
<1>11. c = d
  BY <1>1, <1>9, SeqEqual
<1> QED
  BY <1>10, <1>11

\* Whatever arrives is a string of bytes beside another.
LEMMA ArrivalsAreBytes ==
  ASSUME SentOK, NEW x \in Arrivals
  PROVE  x[1] \in Seq(Cell) /\ x[2] \in Seq(Cell)
<1> DEFINE a == sent.aad  c == sent.cells
<1>1. a \in Seq(Cell) /\ c \in Seq(Cell)
  BY DEF SentOK
<1>2. ZeroByte \in Cell /\ Byte(99) \in Cell
  BY DEF ZeroByte, Byte, Cell
<1>3. CASE x \in {<<a, c>>, <<a, Append(c, ZeroByte)>>}
  <2>1. Append(c, ZeroByte) \in Seq(Cell)
    BY <1>1, <1>2
  <2>2. CASE x = <<a, c>>
    BY <1>1, <2>2
  <2>3. CASE x = <<a, Append(c, ZeroByte)>>
    BY <1>1, <2>1, <2>3
  <2> QED
    BY <1>3, <2>2, <2>3
<1>4. CASE \E k \in DOMAIN c : x = <<a, [c EXCEPT ![k] = Byte(99)]>>
  <2>1. PICK k \in DOMAIN c : x = <<a, [c EXCEPT ![k] = Byte(99)]>>
    BY <1>4
  <2>2. [c EXCEPT ![k] = Byte(99)] \in Seq(Cell)
    BY <1>1, <1>2
  <2> QED
    BY <1>1, <2>1, <2>2
<1>5. CASE \E k \in 0..Len(a \o c) :
             x = <<SubSeq(a \o c, 1, k), SubSeq(a \o c, k + 1, Len(a \o c))>>
  <2> DEFINE all == a \o c
  <2>1. all \in Seq(Cell)
    BY <1>1
  <2>2. PICK k \in 0..Len(all) : x = <<SubSeq(all, 1, k), SubSeq(all, k + 1, Len(all))>>
    BY <1>5
  <2> HIDE DEF all
  <2>3. SubSeq(all, 1, k) \in Seq(Cell) /\ SubSeq(all, k + 1, Len(all)) \in Seq(Cell)
    BY <2>1
  <2> QED
    BY <2>2, <2>3
<1>6. CASE c # <<>> /\ x = <<a, Front(c)>>
  <2>1. Front(c) \in Seq(Cell)
    BY <1>1, <1>6 DEF Front
  <2> QED
    BY <1>1, <1>6, <2>1
<1> QED
  BY <1>3, <1>4, <1>5, <1>6 DEF Arrivals

-----------------------------------------------------------------------------
(* The steps. *)

\* A keystream byte over a bare byte, and the same one again.
LEMMA Toggled ==
  ASSUME NEW j0, NEW k \in Int
  PROVE  /\ Toggle(Byte(k), PadOf(j0, k)) = Under(j0, k)
         /\ Toggle(Under(j0, k), PadOf(j0, k)) = Byte(k)
<1> DEFINE pad == PadOf(j0, k)
<1>1. Toggle(Byte(k), pad) = [m |-> k, pads |-> {} \cup {pad}]
  BY DEF Toggle, Byte
<1>2. Toggle(Under(j0, k), pad) = [m |-> k, pads |-> {pad} \ {pad}]
  BY DEF Toggle, Under
<1>3. {} \cup {pad} = {pad} /\ {pad} \ {pad} = {}
  OBVIOUS
<1> QED
  BY <1>1, <1>2, <1>3 DEF Under, Byte

\* A keystream byte over a byte is a byte.
LEMMA ToggleCell ==
  ASSUME NEW cell \in Cell, NEW pad \in Int \X Int PROVE Toggle(cell, pad) \in Cell
  BY DEF Toggle, Cell

\* A sealed frame is not the absence of one.
LEMMA SentIsNotIdle ==
  ASSUME NEW a, NEW c, NEW j, NEW t
  PROVE  [aad |-> a, cells |-> c, j0 |-> j, tag |-> t] # Idle
<1>1. "aad" \in DOMAIN [aad |-> a, cells |-> c, j0 |-> j, tag |-> t]
  OBVIOUS
<1>2. DOMAIN Idle = {"op"}
  BY DEF Idle
<1> QED
  BY <1>1, <1>2

LEMMA IdleCall == Idle.op = "idle"
  BY DEF Idle

\* Before the first call.
LEMMA SealingInit == ASSUME GcmAssumption, GcmInit PROVE SealingInv
<1>1. ZeroByte \in Cell
  BY DEF ZeroByte, Cell
<1>2. mem \in [Addresses -> Cell]
  BY <1>1 DEF GcmInit
<1> QED
  BY <1>2, IdleCall DEF GcmInit, SealingInv, RefusalReleasesNothing

\* The plaintext is in place, bare.
LEMMA EncryptInv ==
  ASSUME GcmAssumption, SealingInv, NEW len \in Lengths, NEW aad \in Lengths,
         NEW j0 \in 0..Counters - 1, Encrypt(len, aad, j0)
  PROVE  SealingInv'
<1>1. /\ sent = Idle /\ outcome = "none"
      /\ mem' = [a \in Addresses |-> IF a < len THEN Byte(a) ELSE ZeroByte]
      /\ call' = [op |-> "encrypt", src |-> 0, dst |-> 0, len |-> len,
                  aad |-> [k \in 1..aad |-> Byte(100 + k)], j0 |-> j0]
      /\ counter' = j0 /\ done' = 0
      /\ UNCHANGED <<sent, before, outcome>>
  BY DEF Encrypt, SealingInv
<1>2. /\ call'.op = "encrypt" /\ call'.src = 0 /\ call'.dst = 0 /\ call'.len = len /\ call'.j0 = j0
      /\ call'.aad = [k \in 1..aad |-> Byte(100 + k)]
  BY <1>1
<1>3. MaxLength \in Nat /\ Nonce \in Nat
  BY DEF GcmAssumption
<1>4. \A a \in Int : Byte(a) \in Cell
  BY DEF Byte, Cell
<1>5. ZeroByte \in Cell
  BY DEF ZeroByte, Cell
<1>6. mem' \in [Addresses -> Cell]
  <2>1. \A a \in Addresses : a \in Int
    BY <1>3 DEF Addresses
  <2> QED
    BY <1>1, <1>4, <1>5, <2>1
<1>7. call'.aad \in Seq(Cell)
  <2>1. aad \in Nat
    BY <1>3 DEF Lengths
  <2>2. \A k \in 1..aad : Byte(100 + k) \in Cell
    BY <1>4, <2>1
  <2> QED
    BY <1>2, <2>1, <2>2
<1>8. \A k \in 0..len - 1 : mem'[k] = Byte(k)
  <2>1. \A k \in 0..len - 1 : k \in Addresses /\ k < len
    BY <1>3 DEF Addresses, Lengths
  <2> QED
    BY <1>1, <2>1
<1>9. Running'
  BY <1>1, <1>2, <1>3 DEF Running, CounterAfter, Lengths
<1>10. Encrypting'
  <2>1. \A k \in 0..call'.len - 1 :
          mem'[k] = IF k < done' THEN Under(call'.j0, k) ELSE Byte(k)
    BY <1>1, <1>2, <1>3, <1>8 DEF Lengths
  <2> QED
    BY <1>1, <1>2, <1>7, <1>9, <2>1 DEF Encrypting
<1> QED
  BY <1>1, <1>2, <1>6, <1>10 DEF SealingInv, RefusalReleasesNothing

\* One turn of gcm_ctr.
LEMMA CtrInv == ASSUME GcmAssumption, SealingInv, Ctr PROVE SealingInv'
<1> DEFINE pad == <<BlockCounter, done % BlockSize>>
           from == call.src + done
           to == call.dst + done
<1>1. /\ call.op \in {"encrypt", "decrypt"} /\ done < call.len
      /\ counter' = BlockCounter /\ done' = done + 1
      /\ mem' = [mem EXCEPT ![to] = Toggle(mem[from], pad)]
      /\ UNCHANGED <<call, sent, before, outcome>>
  BY DEF Ctr, MayRun
<1>2. Running
  BY <1>1 DEF SealingInv, Encrypting, Decrypting
<1>3. /\ MaxLength \in Nat /\ Nonce \in Nat /\ Counters \in Nat \ {0}
      /\ call.len \in 0..MaxLength /\ done \in 0..call.len - 1 /\ done < MaxLength
      /\ call.j0 \in 0..Counters - 1
  BY <1>1, <1>2 DEF GcmAssumption, Running, Lengths
<1>4. pad = PadOf(call.j0, done) /\ pad \in Int \X Int /\ BlockCounter = PadOf(call.j0, done)[1]
  <2>1. /\ PadOf(call.j0, done) = <<BlockCounter, done % BlockSize>>
        /\ BlockCounter \in 0..Counters - 1 /\ done % BlockSize \in Nat
        /\ BlockCounter = PadOf(call.j0, done)[1]
    BY <1>1, <1>2, TurnCounter
  <2> QED
    BY <1>3, <2>1
<1>5. Running'
  <2>1. CounterAfter(call.j0, done + 1) = PadOf(call.j0, done)[1]
    <3> DEFINE n == done + 1
    <3>1. n # 0 /\ n - 1 = done
      BY <1>3
    <3> HIDE DEF n
    <3>2. CounterAfter(call.j0, n) = PadOf(call.j0, n - 1)[1]
      BY <3>1, Zenon DEF CounterAfter
    <3>3. CounterAfter(call.j0, n) = PadOf(call.j0, done)[1]
      BY <3>1, <3>2, Zenon
    <3> QED
      BY <3>3 DEF n
  <2>2. done' \in 0..call'.len
    BY <1>1, <1>3
  <2> QED
    BY <1>1, <1>2, <1>4, <2>1, <2>2 DEF Running
<1>6. /\ from \in Addresses /\ to \in Addresses
      /\ call.op = "encrypt" => from = done /\ to = done
      /\ call.op = "decrypt" => from = Nonce + done /\ to \in {done, Nonce + done}
  <2>1. CASE call.op = "encrypt"
    BY <1>3, <2>1 DEF SealingInv, Encrypting, Addresses
  <2>2. CASE call.op = "decrypt"
    BY <1>3, <2>2 DEF SealingInv, Decrypting, Addresses
  <2> QED
    BY <1>1, <2>1, <2>2
<1> HIDE DEF from, to, pad
<1>7. mem' \in [Addresses -> Cell]
  <2>1. mem \in [Addresses -> Cell]
    BY DEF SealingInv
  <2>2. Toggle(mem[from], pad) \in Cell
    BY <1>4, <1>6, <2>1, ToggleCell
  <2> QED
    BY <1>1, <2>1, <2>2
<1>8. /\ mem'[to] = Toggle(mem[from], pad)
      /\ \A a \in Addresses : a # to => mem'[a] = mem[a]
  BY <1>1, <1>6 DEF SealingInv
<1>9. CASE call.op = "encrypt"
  <2>1. mem'[done] = Under(call.j0, done)
    <3>1. mem[done] = Byte(done)
      BY <1>3, <1>9 DEF SealingInv, Encrypting
    <3> QED
      BY <1>3, <1>4, <1>6, <1>8, <1>9, <3>1, Toggled
  <2>2. ASSUME NEW k \in 0..call.len - 1
        PROVE  mem'[k] = IF k < done + 1 THEN Under(call.j0, k) ELSE Byte(k)
    <3>1. CASE k = done
      BY <1>3, <2>1, <3>1
    <3>2. CASE k # done
      <4>1. k \in Addresses
        BY <1>3 DEF Addresses
      <4>2. mem'[k] = mem[k]
        BY <1>6, <1>8, <1>9, <3>2, <4>1
      <4>3. mem[k] = IF k < done THEN Under(call.j0, k) ELSE Byte(k)
        BY <1>9 DEF SealingInv, Encrypting
      <4> QED
        BY <1>3, <3>2, <4>2, <4>3
    <3> QED
      BY <3>1, <3>2
  <2>3. Encrypting'
    BY <1>1, <1>5, <1>9, <2>2 DEF SealingInv, Encrypting
  <2> QED
    BY <1>1, <1>7, <1>9, <2>3 DEF SealingInv, RefusalReleasesNothing, Encrypting
<1>10. CASE call.op = "decrypt"
  <2>0. Decrypting /\ SentOK
    BY <1>10 DEF SealingInv, Decrypting
  <2>1. mem'[to] = Byte(done) /\ to = call.dst + done
    <3>1. mem[from] = sent.cells[done + 1]
      BY <1>3, <1>6, <1>10, <2>0 DEF Decrypting
    <3> DEFINE n == done + 1
    <3>2. n \in 1..Len(sent.cells) /\ n - 1 = done
      BY <1>3, <2>0 DEF Decrypting, IsSent
    <3> HIDE DEF n
    <3>3. sent.cells[done + 1] = Under(call.j0, done)
      <4>1. sent.cells[n] = Under(sent.j0, n - 1) /\ call.j0 = sent.j0
        BY <2>0, <3>2, Zenon DEF SentOK, Decrypting
      <4>2. sent.cells[n] = Under(call.j0, done)
        BY <3>2, <4>1, Zenon
      <4> QED
        BY <4>2 DEF n
    <3> QED
      BY <1>3, <1>4, <1>8, <3>1, <3>3, Toggled DEF to
  <2>2. ASSUME NEW k \in 0..done PROVE mem'[call.dst + k] = Byte(k)
    <3>1. CASE k = done
      BY <2>1, <3>1
    <3>2. CASE k # done
      <4>1. k \in 0..done - 1
        BY <1>3, <3>2
      <4>2. call.dst + k \in Addresses /\ call.dst + k # to
        BY <1>3, <2>0, <2>1, <4>1 DEF Decrypting, Addresses
      <4>3. mem[call.dst + k] = Byte(k)
        BY <2>0, <4>1 DEF Decrypting
      <4> QED
        BY <1>8, <4>2, <4>3
    <3> QED
      BY <3>1, <3>2
  <2>3. ASSUME NEW k \in done + 1..call.len - 1 PROVE mem'[Nonce + k] = sent.cells[k + 1]
    <3>1. Nonce + k \in Addresses /\ Nonce + k # to
      BY <1>3, <2>0, <2>1 DEF Decrypting, Addresses
    <3>2. mem[Nonce + k] = sent.cells[k + 1]
      BY <1>3, <2>0 DEF Decrypting
    <3> QED
      BY <1>8, <3>1, <3>2
  <2>4. \A k \in 0..done' - 1 : mem'[call'.dst + k] = Byte(k)
    BY <1>1, <1>3, <2>2
  <2>5. \A k \in done'..call'.len - 1 : mem'[Nonce + k] = sent'.cells[k + 1]
    BY <1>1, <2>3
  <2>6. Decrypting'
    BY <1>1, <1>5, <2>0, <2>4, <2>5 DEF Decrypting, IsSent
  <2> QED
    BY <1>1, <1>7, <1>10, <2>0, <2>6 DEF SealingInv, RefusalReleasesNothing, Decrypting, SentOK
<1> QED
  BY <1>1, <1>9, <1>10

\* The cells of a stretch of the memory.
LEMMA CellsAre ==
  ASSUME NEW from \in Int, NEW len \in Nat, mem \in [Addresses -> Cell],
         \A k \in 0..len - 1 : from + k \in Addresses
  PROVE  /\ Cells(from, len) \in Seq(Cell) /\ Len(Cells(from, len)) = len
         /\ \A k \in 1..len : Cells(from, len)[k] = mem[from + (k - 1)]
<1>1. \A k \in 1..len : from + k - 1 = from + (k - 1) /\ k - 1 \in 0..len - 1
  OBVIOUS
<1>2. \A k \in 1..len : mem[from + k - 1] = mem[from + (k - 1)] /\ mem[from + k - 1] \in Cell
  BY <1>1
<1>3. Cells(from, len) = [k \in 1..len |-> mem[from + k - 1]]
  BY DEF Cells
<1> QED
  BY <1>2, <1>3

\* The tag is of what went out.
LEMMA SealInv == ASSUME GcmAssumption, SealingInv, Seal PROVE SealingInv'
<1> DEFINE cells == Cells(call.dst, call.len)
<1>1. /\ call.op = "encrypt" /\ done = call.len
      /\ sent' = [aad |-> call.aad, cells |-> cells, j0 |-> call.j0,
                  tag |-> Tag(call.aad, cells, call.j0)]
      /\ call' = Idle /\ outcome' = "sealed"
      /\ UNCHANGED <<mem, counter, done, before>>
  BY DEF Seal
<1>2. Encrypting /\ mem \in [Addresses -> Cell]
  BY <1>1 DEF SealingInv
<1>3. /\ MaxLength \in Nat /\ Nonce \in Nat /\ call.len \in 0..MaxLength /\ call.dst = 0
      /\ call.j0 \in 0..Counters - 1 /\ call.aad \in Seq(Cell)
  BY <1>2 DEF GcmAssumption, Encrypting, Running, Lengths
<1>4. \A k \in 0..call.len - 1 : 0 + k \in Addresses
  BY <1>3 DEF Addresses
<1>5. /\ cells \in Seq(Cell) /\ Len(cells) = call.len
      /\ \A k \in 1..call.len : cells[k] = mem[0 + (k - 1)]
  BY <1>2, <1>3, <1>4, CellsAre
<1> HIDE DEF cells
<1>6. \A k \in 1..call.len : cells[k] = Under(call.j0, k - 1)
  <2> SUFFICES ASSUME NEW k \in 1..call.len PROVE cells[k] = Under(call.j0, k - 1)
    OBVIOUS
  <2> DEFINE l == k - 1
  <2>1. l \in 0..call.len - 1 /\ l < done /\ 0 + l = l
    BY <1>1, <1>3
  <2>2. cells[k] = mem[0 + l]
    BY <1>5
  <2> HIDE DEF l
  <2>3. mem[l] = Under(call.j0, l)
    BY <1>2, <2>1 DEF Encrypting
  <2>4. cells[k] = Under(call.j0, l)
    BY <2>1, <2>2, <2>3
  <2> QED
    BY <2>4 DEF l
<1>7. /\ sent'.aad = call.aad /\ sent'.cells = cells /\ sent'.j0 = call.j0
      /\ sent'.tag = Tag(call.aad, cells, call.j0)
  BY <1>1
<1>8. Tag(sent.aad, sent.cells, sent.j0)' = Tag(call.aad, cells, call.j0)
  BY <1>7 DEF Tag, Ghash, Whole, PadLen
<1>9. SentOK'
  <2>1. \A k \in 1..Len(sent'.cells) : sent'.cells[k] = Under(sent'.j0, k - 1)
    BY <1>5, <1>6, <1>7
  <2>2. Len(sent'.cells) \in Lengths
    BY <1>3, <1>5, <1>7 DEF Lengths
  <2> QED
    BY <1>3, <1>5, <1>7, <1>8, <2>1, <2>2 DEF SentOK
<1>10. sent' # Idle
  BY <1>1, SentIsNotIdle
<1> QED
  BY <1>1, <1>2, <1>9, <1>10, IdleCall DEF SealingInv, RefusalReleasesNothing

\* A frame arrives: whatever it is, the memory is remembered as it is.
LEMMA DecryptInv ==
  ASSUME GcmAssumption, SealingInv, outcome = "sealed", NEW x \in Arrivals,
         NEW back \in {0, Nonce}, Decrypt(x, back)
  PROVE  SealingInv'
<1> DEFINE cells == x[2]
<1>1. /\ call.op = "idle" /\ Len(cells) <= MaxLength
      /\ mem' = [a \in Addresses |-> IF a >= Nonce /\ a < Nonce + Len(cells)
                                     THEN cells[a - Nonce + 1] ELSE ZeroByte]
      /\ before' = mem'
      /\ call' = [op |-> "verify", src |-> Nonce, dst |-> Nonce - back, len |-> Len(cells),
                  aad |-> x[1], j0 |-> sent.j0]
      /\ counter' = sent.j0 /\ done' = 0
      /\ UNCHANGED <<sent, outcome>>
  BY DEF Decrypt
<1>2. sent # Idle /\ SentOK
  BY DEF SealingInv
<1>3. cells \in Seq(Cell) /\ x[1] \in Seq(Cell)
  BY <1>2, ArrivalsAreBytes
<1>4. MaxLength \in Nat /\ Nonce \in Nat /\ Len(cells) \in Nat
  BY <1>3 DEF GcmAssumption
<1>5. /\ call'.op = "verify" /\ call'.src = Nonce /\ call'.dst = Nonce - back
      /\ call'.len = Len(cells) /\ call'.aad = x[1] /\ call'.j0 = sent.j0
  BY <1>1
<1> HIDE DEF cells
<1>6. mem' \in [Addresses -> Cell]
  <2>1. ZeroByte \in Cell
    BY DEF ZeroByte, Cell
  <2>2. \A a \in Addresses : a >= Nonce /\ a < Nonce + Len(cells) => cells[a - Nonce + 1] \in Cell
    <3> SUFFICES ASSUME NEW a \in Addresses, a >= Nonce, a < Nonce + Len(cells)
                 PROVE  cells[a - Nonce + 1] \in Cell
      OBVIOUS
    <3>1. a - Nonce + 1 \in 1..Len(cells)
      BY <1>4 DEF Addresses
    <3> QED
      BY <1>3, <3>1
  <2> QED
    BY <1>1, <2>1, <2>2
<1>7. Nonce - back \in {0, Nonce}
  BY <1>4
<1>8. Running'
  <2>1. sent.j0 \in 0..Counters - 1
    BY <1>2 DEF SentOK
  <2>2. call'.len \in Lengths /\ done' \in 0..call'.len
    BY <1>1, <1>4, <1>5 DEF Lengths
  <2> QED
    BY <1>1, <1>5, <2>1, <2>2 DEF Running, CounterAfter
<1>9. Verifying'
  BY <1>1, <1>3, <1>5, <1>7, <1>8 DEF Verifying
<1>10. SentOK'
  <2>1. sent' = sent
    BY <1>1
  <2> QED
    BY <1>2, <2>1 DEF SentOK, Tag, Ghash, Whole, PadLen
<1> QED
  BY <1>1, <1>2, <1>5, <1>6, <1>9, <1>10 DEF SealingInv, RefusalReleasesNothing

\* The tag is of the sealed frame only if what came is the sealed frame.
LEMMA VerifyInv == ASSUME GcmAssumption, SealingInv, Verify PROVE SealingInv'
<1> DEFINE cells == Cells(call.src, call.len)
<1>1. /\ call.op = "verify" /\ UNCHANGED <<mem, counter, done, sent, before>>
      /\ IF sent.tag = Tag(call.aad, cells, call.j0)
         THEN call' = [call EXCEPT !.op = "decrypt"] /\ UNCHANGED outcome
         ELSE call' = [call EXCEPT !.op = "idle"] /\ outcome' = "AUTH"
  BY DEF Verify
<1>2. Verifying /\ mem \in [Addresses -> Cell] /\ SentOK /\ sent # Idle
  BY <1>1 DEF SealingInv, Verifying
<1>3. /\ MaxLength \in Nat /\ Nonce \in Nat /\ call.len \in 0..MaxLength /\ call.src = Nonce
      /\ call.aad \in Seq(Cell)
  BY <1>2 DEF GcmAssumption, Verifying, Running, Lengths
<1>4. \A k \in 0..call.len - 1 : Nonce + k \in Addresses
  BY <1>3 DEF Addresses
<1>5. /\ cells \in Seq(Cell) /\ Len(cells) = call.len
      /\ \A k \in 1..call.len : cells[k] = mem[Nonce + (k - 1)]
  <2>1. cells = Cells(Nonce, call.len)
    BY <1>3
  <2>2. Nonce \in Int /\ call.len \in Nat /\ mem \in [Addresses -> Cell]
    BY <1>2, <1>3
  <2> DEFINE them == Cells(Nonce, call.len)
  <2>3. /\ them \in Seq(Cell) /\ Len(them) = call.len
        /\ \A k \in 1..call.len : them[k] = mem[Nonce + (k - 1)]
    BY ONLY <1>4, <2>2, CellsAre
  <2> HIDE DEF them, cells
  <2>4. cells = them
    BY <2>1 DEF them
  <2> QED
    BY ONLY <2>3, <2>4
<1> HIDE DEF cells
<1>6. CASE sent.tag = Tag(call.aad, cells, call.j0)
  <2>1. call' = [call EXCEPT !.op = "decrypt"] /\ outcome' = outcome
    BY <1>1, <1>6
  <2>2. Ghash(sent.aad, sent.cells) = Ghash(call.aad, cells)
    <3>1. Tag(sent.aad, sent.cells, sent.j0) = Tag(call.aad, cells, call.j0)
      BY <1>2, <1>6 DEF SentOK
    <3>2. Tag(sent.aad, sent.cells, sent.j0).of = Tag(call.aad, cells, call.j0).of
      BY <3>1
    <3> QED
      BY <3>2 DEF Tag
  <2>3. sent.aad = call.aad /\ sent.cells = cells
    <3>1. sent.aad \in Seq(Cell) /\ sent.cells \in Seq(Cell)
      BY <1>2 DEF SentOK
    <3> QED
      BY <1>3, <1>5, <2>2, <3>1, GhashInjective
  <2>4. /\ call'.op = "decrypt" /\ call'.src = call.src /\ call'.dst = call.dst
        /\ call'.len = call.len /\ call'.aad = call.aad /\ call'.j0 = call.j0
    BY <2>1
  <2>5. IsSent'
    BY <1>1, <1>5, <2>3, <2>4 DEF IsSent
  <2>6. \A k \in 0..call.len - 1 : mem[Nonce + k] = sent.cells[k + 1]
    <3> SUFFICES ASSUME NEW k \in 0..call.len - 1 PROVE mem[Nonce + k] = sent.cells[k + 1]
      OBVIOUS
    <3> DEFINE n == k + 1
    <3>1. n \in 1..call.len /\ n - 1 = k
      BY <1>3
    <3> HIDE DEF n
    <3>2. cells[n] = mem[Nonce + (n - 1)]
      BY <1>5, <3>1
    <3>3. sent.cells[n] = mem[Nonce + k]
      BY <2>3, <3>1, <3>2
    <3> QED
      BY <3>3 DEF n
  <2>7. Running'
    BY <1>1, <1>2, <2>4 DEF Verifying, Running
  <2>8. Decrypting'
    <3>1. done' = 0 /\ call'.len = call.len /\ mem' = mem /\ sent' = sent /\ outcome' = "sealed"
      BY <1>1, <1>2, <2>1, <2>4 DEF Verifying
    <3>2. \A k \in done'..call'.len - 1 : mem'[Nonce + k] = sent'.cells[k + 1]
      BY <2>6, <3>1
    <3>3. \A k \in 0..done' - 1 : mem'[call'.dst + k] = Byte(k)
      BY <3>1
    <3> QED
      BY <1>1, <1>2, <2>4, <2>5, <2>7, <3>1, <3>2, <3>3 DEF Verifying, Decrypting
  <2>9. SentOK'
    <3>1. sent' = sent
      BY <1>1
    <3> QED
      BY <1>2, <3>1 DEF SentOK, Tag, Ghash, Whole, PadLen
  <2> QED
    BY <1>1, <1>2, <2>1, <2>4, <2>8, <2>9 DEF SealingInv, RefusalReleasesNothing, Verifying
<1>7. CASE sent.tag # Tag(call.aad, cells, call.j0)
  <2>1. call' = [call EXCEPT !.op = "idle"] /\ outcome' = "AUTH"
    BY <1>1, <1>7
  <2>2. call'.op = "idle"
    BY <2>1
  <2>3. SentOK'
    <3>1. sent' = sent
      BY <1>1
    <3> QED
      BY <1>2, <3>1 DEF SentOK, Tag, Ghash, Whole, PadLen
  <2> QED
    BY <1>1, <1>2, <2>1, <2>2, <2>3 DEF SealingInv, RefusalReleasesNothing, Verifying
<1> QED
  BY <1>6, <1>7

\* The last byte of the plaintext is in its place.
LEMMA OpenInv == ASSUME GcmAssumption, SealingInv, Open PROVE SealingInv'
<1>1. /\ call.op = "decrypt" /\ done = call.len /\ call' = [call EXCEPT !.op = "idle"]
      /\ outcome' = "OK" /\ UNCHANGED <<mem, counter, done, sent, before>>
  BY DEF Open
<1>2. /\ call'.op = "idle" /\ call'.dst = call.dst /\ call'.len = call.len
      /\ call'.aad = call.aad
  BY <1>1
<1>3. Decrypting /\ SentOK /\ sent # Idle
  BY <1>1 DEF SealingInv, Decrypting
<1>4. Opened'
  <2>1. \A k \in 0..call.len - 1 : mem[call.dst + k] = Byte(k)
    BY <1>1, <1>3 DEF Decrypting
  <2> QED
    BY <1>1, <1>2, <1>3, <2>1 DEF Opened, IsSent, Decrypting
<1>5. SentOK'
  <2>1. sent' = sent
    BY <1>1
  <2> QED
    BY <1>3, <2>1 DEF SentOK, Tag, Ghash, Whole, PadLen
<1> QED
  BY <1>1, <1>2, <1>3, <1>4, <1>5 DEF SealingInv, RefusalReleasesNothing

\* Every step.
LEMMA SealingNext == ASSUME GcmAssumption, SealingInv, [GcmNext]_gcmVars PROVE SealingInv'
<1>1. CASE UNCHANGED gcmVars
  BY <1>1 DEF gcmVars, SealingInv, SentOK, Encrypting, Verifying, Decrypting, Opened,
              IsSent, Running, RefusalReleasesNothing, Tag, Ghash, Whole, PadLen
<1>2. ASSUME NEW len \in 0..MaxLength, NEW aad \in 0..MaxLength, NEW j0 \in 0..Counters - 1,
             Encrypt(len, aad, j0)
      PROVE  SealingInv'
  BY <1>2, EncryptInv DEF Lengths
<1>3. CASE Ctr
  BY <1>3, CtrInv
<1>4. CASE Seal
  BY <1>4, SealInv
<1>5. ASSUME outcome = "sealed", NEW x \in Arrivals, NEW back \in {0, Nonce}, Decrypt(x, back)
      PROVE  SealingInv'
  BY <1>5, DecryptInv
<1>6. CASE Verify
  BY <1>6, VerifyInv
<1>7. CASE Open
  BY <1>7, OpenInv
<1> QED
  BY <1>1, <1>2, <1>3, <1>4, <1>5, <1>6, <1>7 DEF GcmNext

\* The three promises follow from it.
LEMMA InvSafe == ASSUME GcmAssumption, SealingInv PROVE SealedAndOpened
<1>1. MaxLength \in Nat /\ Nonce \in Nat
  BY DEF GcmAssumption
<1>2. OpensWhatWasSealed
  <2> SUFFICES ASSUME outcome = "OK"
               PROVE  /\ call.aad = sent.aad /\ call.len = Len(sent.cells)
                      /\ Cells(call.dst, call.len) = [k \in 1..call.len |-> Byte(k - 1)]
    BY DEF OpensWhatWasSealed
  <2>1. Opened /\ SentOK
    BY DEF SealingInv
  <2>2. call.len \in Nat
    BY <1>1, <2>1 DEF Opened, IsSent, SentOK, Lengths
  <2>3. \A k \in 1..call.len : mem[call.dst + k - 1] = Byte(k - 1)
    <3> SUFFICES ASSUME NEW k \in 1..call.len PROVE mem[call.dst + k - 1] = Byte(k - 1)
      OBVIOUS
    <3>1. k - 1 \in 0..call.len - 1
      BY <2>2
    <3>2. mem[call.dst + (k - 1)] = Byte(k - 1)
      BY <2>1, <3>1 DEF Opened
    <3> QED
      BY <3>2
  <2>4. Cells(call.dst, call.len) = [k \in 1..call.len |-> Byte(k - 1)]
    BY <2>3 DEF Cells
  <2> QED
    BY <2>1, <2>4 DEF Opened, IsSent
<1>3. KeystreamOnce
  <2> SUFFICES ASSUME sent # Idle
               PROVE  /\ \A k \in DOMAIN sent.cells :
                        \E pad \in sent.cells[k].pads : sent.cells[k].pads = {pad}
                      /\ \A k, l \in DOMAIN sent.cells :
                           k # l => sent.cells[k].pads # sent.cells[l].pads
                      /\ \A k \in DOMAIN sent.cells :
                           \A pad \in sent.cells[k].pads : pad[1] # sent.j0
    BY DEF KeystreamOnce
  <2>1. SentOK
    BY DEF SealingInv
  <2> DEFINE j == sent.j0
  <2>2. j \in 0..Counters - 1
    BY <2>1 DEF SentOK
  <2>3. \A k \in DOMAIN sent.cells :
          sent.cells[k].pads = {PadOf(j, k - 1)} /\ k - 1 \in 0..MaxLength - 1 /\ k \in Int
    <3> SUFFICES ASSUME NEW k \in DOMAIN sent.cells
                 PROVE  /\ sent.cells[k].pads = {PadOf(j, k - 1)}
                         /\ k - 1 \in 0..MaxLength - 1 /\ k \in Int
      OBVIOUS
    <3>1. k \in 1..Len(sent.cells) /\ Len(sent.cells) \in 0..MaxLength
      BY <2>1 DEF SentOK, Lengths
    <3>2. sent.cells[k] = Under(j, k - 1)
      BY <2>1, <3>1 DEF SentOK
    <3> QED
      BY <1>1, <3>1, <3>2 DEF Under
  <2> HIDE DEF j
  <2>4. \A k \in DOMAIN sent.cells : \E pad \in sent.cells[k].pads : sent.cells[k].pads = {pad}
    BY <2>3
  <2>5. ASSUME NEW k \in DOMAIN sent.cells, NEW l \in DOMAIN sent.cells, k # l
        PROVE  sent.cells[k].pads # sent.cells[l].pads
    <3>1. k - 1 # l - 1 /\ k - 1 \in 0..MaxLength - 1 /\ l - 1 \in 0..MaxLength - 1
      BY <2>3, <2>5
    <3>2. PadOf(j, k - 1) # PadOf(j, l - 1)
      BY <2>2, <3>1, PadsApart
    <3>3. {PadOf(j, k - 1)} # {PadOf(j, l - 1)}
      BY <3>2
    <3> QED
      BY <2>3, <3>3
  <2>6. ASSUME NEW k \in DOMAIN sent.cells, NEW pad \in sent.cells[k].pads PROVE pad[1] # j
    <3>1. pad = PadOf(j, k - 1) /\ k - 1 \in 0..MaxLength - 1
      BY <2>3
    <3> QED
      BY <2>2, <3>1, PadsApart
  <2> QED
    BY <2>4, <2>5, <2>6 DEF j
<1> QED
  BY <1>2, <1>3 DEF SealedAndOpened, SealingInv

\* Whatever arrives and wherever the counter begins: thalovant_aes_gcm_decrypt
\* gives back what thalovant_aes_gcm_encrypt sealed, also when it writes over
\* the frame it reads, or refuses and leaves the buffer alone; and every byte
\* of a message is under one keystream byte of its own, none of the tag's mask.
THEOREM SealingHolds == GcmSpec => []SealedAndOpened
<1>1. GcmInit => SealingInv
  BY GcmAssumption, SealingInit
<1>2. SealingInv /\ [GcmNext]_gcmVars => SealingInv'
  BY GcmAssumption, SealingNext
<1>3. SealingInv => SealedAndOpened
  BY GcmAssumption, InvSafe
<1> QED
  BY <1>1, <1>2, <1>3, PTL DEF GcmSpec

-----------------------------------------------------------------------------
(* The codec. *)
ByteValue == 0..255

\* A sequence that is given element by element.
LEMMA Listed ==
  ASSUME NEW n \in Nat, NEW S, NEW f \in [1..n -> S]
  PROVE  f \in Seq(S) /\ Len(f) = n /\ DOMAIN f = 1..n
OBVIOUS

\* Of some numbers one is the least.
LEMMA NatMin ==
  ASSUME NEW T, T \subseteq Nat, T # {}
  PROVE  \E x \in T : \A y \in T : x <= y
<1> DEFINE R == {ss \in Nat \X Nat : ss[1] < ss[2]}
<1>1. IsWellFoundedOn(R, Nat)
  BY NatLessThanWellFounded DEF OpToRel
<1> HIDE DEF R
<1>2. PICK x \in T : \A y \in T : ~(<<y, x>> \in R)
  BY <1>1, WFMin
<1>3. ASSUME NEW y \in T PROVE x <= y
  <2>1. ~(<<y, x>> \in R) /\ x \in Nat /\ y \in Nat
    BY <1>2
  <2> QED BY <2>1 DEF R
<1> QED BY <1>3

\* Two digits are a byte, and a byte is two digits.
LEMMA Nibbles ==
  ASSUME NEW b \in ByteValue
  PROVE  b \div 16 \in 0..15 /\ b % 16 \in 0..15 /\ 16 * (b \div 16) + (b % 16) = b
BY DEF ByteValue

\* Bytes written as digits are read from them.
LEMMA HexRound ==
  ASSUME NEW in \in Seq(ByteValue), NEW cap \in Nat, IntMax \in Nat, HexEncode(in, cap).rc = "OK"
  PROVE  HexDecode(HexEncode(in, cap).out, Len(in)) = Done(in)
<1> DEFINE hex == [i \in 1..2 * Len(in) |-> IF i % 2 = 1 THEN in[(i + 1) \div 2] \div 16
                                            ELSE in[(i + 1) \div 2] % 16]
<1>1. HexEncode(in, cap).out = hex /\ Len(in) <= IntMax \div 2 /\ Len(in) \in Nat
  BY DEF HexEncode, Failed, Done
<1>2. \A i \in 1..2 * Len(in) : hex[i] \in 0..15
  <2> TAKE i \in 1..2 * Len(in)
  <2>1. (i + 1) \div 2 \in 1..Len(in)
    OBVIOUS
  <2>2. in[(i + 1) \div 2] \in ByteValue
    BY <2>1
  <2> QED BY <2>2, Nibbles
<1>3. Len(hex) = 2 * Len(in)
  BY <1>1, <1>2, Listed
<1>4. \A i \in 1..Len(in) : 16 * hex[2 * i - 1] + hex[2 * i] = in[i]
  <2> TAKE i \in 1..Len(in)
  <2>1. /\ 2 * i - 1 \in 1..2 * Len(in) /\ 2 * i \in 1..2 * Len(in)
        /\ (2 * i - 1) % 2 = 1 /\ (2 * i) % 2 = 0
        /\ (2 * i) \div 2 = i /\ (2 * i + 1) \div 2 = i /\ 2 * i - 1 + 1 = 2 * i
    BY <1>1
  <2>2. hex[2 * i - 1] = in[i] \div 16 /\ hex[2 * i] = in[i] % 16
    BY <2>1
  <2>3. in[i] \in ByteValue
    OBVIOUS
  <2>4. 16 * (in[i] \div 16) + (in[i] % 16) = in[i]
    BY <2>3, Nibbles
  <2> HIDE DEF hex
  <2> QED BY <2>2, <2>4
<1> HIDE DEF hex
<1>5. Len(hex) % 2 = 0 /\ Len(hex) \div 2 = Len(in) /\ ~(Len(in) > IntMax)
  BY <1>1, <1>3
<1>6. {i \in 1..(Len(hex) \div 2) : hex[2 * i - 1] > 15 \/ hex[2 * i] > 15} = {}
  <2> SUFFICES ASSUME NEW i \in 1..Len(in) PROVE ~(hex[2 * i - 1] > 15) /\ ~(hex[2 * i] > 15)
    BY <1>5
  <2>1. 2 * i - 1 \in 1..2 * Len(in) /\ 2 * i \in 1..2 * Len(in)
    BY <1>1
  <2>2. hex[2 * i - 1] \in 0..15 /\ hex[2 * i] \in 0..15
    BY <1>2, <2>1
  <2>3. \A d \in 0..15 : ~(d > 15)
    OBVIOUS
  <2> QED BY <2>2, <2>3
<1>7. [i \in 1..Len(in) |-> 16 * hex[2 * i - 1] + hex[2 * i]] = in
  BY <1>4
<1>8. HexDecode(hex, Len(in)) = Done([i \in 1..Len(in) |-> 16 * hex[2 * i - 1] + hex[2 * i]])
  <2> DEFINE h == Len(hex) \div 2
             bad == {i \in 1..h : hex[2 * i - 1] > 15 \/ hex[2 * i] > 15}
             good == IF bad = {} THEN h ELSE (CHOOSE i \in bad : \A j \in bad : i <= j) - 1
             out == [i \in 1..good |-> 16 * hex[2 * i - 1] + hex[2 * i]]
  <2>1. HexDecode(hex, Len(in)) =
          IF Len(hex) % 2 # 0 THEN Failed("INVALID", <<>>)
          ELSE IF h > IntMax \/ Len(in) < h THEN Failed("NOMEM", <<>>)
          ELSE IF bad # {} THEN Failed("INVALID", out) ELSE Done(out)
    BY DEF HexDecode
  <2>2. h = Len(in) /\ bad = {}
    BY <1>5, <1>6
  <2>3. good = Len(in)
    BY <2>2
  <2> HIDE DEF h, bad, good
  <2>4. out = [i \in 1..Len(in) |-> 16 * hex[2 * i - 1] + hex[2 * i]]
    BY <2>3
  <2> HIDE DEF out
  <2>5. ~(Len(in) > IntMax) /\ ~(Len(in) < Len(in)) /\ Len(hex) % 2 = 0
    BY <1>1, <1>5
  <2> QED BY <2>1, <2>2, <2>4, <2>5
<1> QED BY <1>1, <1>7, <1>8

\* What is decoded is in the buffer, whatever is wrong with the digits.
LEMMA HexFits ==
  ASSUME NEW in \in Seq(0..65), NEW cap \in Nat
  PROVE  Len(HexDecode(in, cap).out) <= cap
<1> DEFINE half == Len(in) \div 2
           bad == {i \in 1..half : in[2 * i - 1] > 15 \/ in[2 * i] > 15}
           good == IF bad = {} THEN half ELSE (CHOOSE i \in bad : \A j \in bad : i <= j) - 1
           out == [i \in 1..good |-> 16 * in[2 * i - 1] + in[2 * i]]
<1>1. half \in Nat /\ Len(in) = 2 * half + (Len(in) % 2) /\ Len(in) % 2 \in 0..1
  OBVIOUS
<1>4. \/ HexDecode(in, cap).out = <<>>
      \/ HexDecode(in, cap).out = out /\ ~(cap < half)
  BY DEF HexDecode, Failed, Done
<1>b. bad \subseteq 1..half
  OBVIOUS
<1> HIDE DEF half, bad
<1>2. good \in 0..half
  <2>1. CASE bad = {}
    BY <1>1, <2>1
  <2>2. CASE bad # {}
    <3>0. bad \subseteq Nat
      BY <1>1, <1>b
    <3>1. \E k \in bad : \A j \in bad : k <= j
      BY ONLY <2>2, <3>0, NatMin
    <3> DEFINE k == CHOOSE i \in bad : \A j \in bad : i <= j
    <3>2. k \in bad
      BY <3>1
    <3>3. good = k - 1
      BY <2>2
    <3> HIDE DEF k, good
    <3> QED BY <1>1, <1>b, <3>2, <3>3
  <2> QED BY <2>1, <2>2
<1> HIDE DEF good
<1>3. Len(out) = good
  <2>1. \A i \in 1..good : 16 * in[2 * i - 1] + in[2 * i] \in Nat
    <3> TAKE i \in 1..good
    <3>1. 2 * i - 1 \in 1..Len(in) /\ 2 * i \in 1..Len(in)
      BY <1>1, <1>2
    <3>2. in[2 * i - 1] \in 0..65 /\ in[2 * i] \in 0..65
      BY <3>1, ElementOfSeq
    <3>3. \A x, y \in 0..65 : 16 * x + y \in Nat
      OBVIOUS
    <3> QED BY ONLY <3>2, <3>3
  <2> QED BY <1>1, <1>2, <2>1, Listed
<1> HIDE DEF out
<1>5. Len(<<>>) = 0
  OBVIOUS
<1> QED BY <1>1, <1>2, <1>3, <1>4, <1>5

-----------------------------------------------------------------------------
(* Base64. *)
Value == 0..63
Symbol == 0..65

\* What the decoder holds after n good digits: the last two of them, the bits
\* that were not taken yet, and the bytes that are complete.
Octets(n) == 3 * (n \div 4) + <<0, 0, 1, 2>>[(n % 4) + 1]
Spelled(d, k) ==
  LET q == 4 * ((k - 1) \div 3)
  IN IF (k - 1) % 3 = 0 THEN d[q + 1] * 4 + (d[q + 2] \div 16)
     ELSE IF (k - 1) % 3 = 1 THEN (d[q + 2] % 16) * 16 + (d[q + 3] \div 4)
     ELSE (d[q + 3] % 4) * 64 + d[q + 4]
Acc(d, n) == IF n = 0 THEN 0 ELSE IF n = 1 THEN d[1] ELSE d[n - 1] * 64 + d[n]
Held(d, n) == [rc |-> "OK", acc |-> Acc(d, n), bits |-> <<0, 6, 4, 2>>[(n % 4) + 1],
               out |-> [k \in 1..Octets(n) |-> Spelled(d, k)]]

LEMMA Sizes ==
  ASSUME NEW q \in Nat
  PROVE  /\ Octets(4 * q) = 3 * q /\ Octets(4 * q + 1) = 3 * q
         /\ Octets(4 * q + 2) = 3 * q + 1 /\ Octets(4 * q + 3) = 3 * q + 2
<1>1. /\ (4 * q) \div 4 = q /\ (4 * q + 1) \div 4 = q /\ (4 * q + 2) \div 4 = q /\ (4 * q + 3) \div 4 = q
      /\ (4 * q) % 4 = 0 /\ (4 * q + 1) % 4 = 1 /\ (4 * q + 2) % 4 = 2 /\ (4 * q + 3) % 4 = 3
  OBVIOUS
<1> QED BY <1>1 DEF Octets

\* Which byte of three a digit completes, of its bits and the ones before.
LEMMA Quarters ==
  ASSUME NEW n \in Nat
  PROVE  \E q \in Nat : n \in {4 * q, 4 * q + 1, 4 * q + 2, 4 * q + 3}
<1>1. n \div 4 \in Nat /\ n = 4 * (n \div 4) + (n % 4) /\ n % 4 \in 0..3
  OBVIOUS
<1>2. n \in {4 * (n \div 4), 4 * (n \div 4) + 1, 4 * (n \div 4) + 2, 4 * (n \div 4) + 3}
  BY <1>1
<1> QED BY <1>1, <1>2

LEMMA Shifts ==
  ASSUME NEW x \in Value, NEW y \in Value, NEW z \in Value
  PROVE  /\ ((x * 64 + y) * 64 + z) % 4096 = y * 64 + z
         /\ (y * 64 + z) % 4096 = y * 64 + z
         /\ z % 4096 = z
         /\ ((y * 64 + z) \div 16) % 256 = y * 4 + (z \div 16)
         /\ ((y * 64 + z) \div 4) % 256 = (y % 16) * 16 + (z \div 4)
         /\ ((y * 64 + z) \div 1) % 256 = (y % 4) * 64 + z
<1> USE DEF Value
<1>1. ((x * 64 + y) * 64 + z) % 4096 = y * 64 + z
  OBVIOUS
<1>2. (y * 64 + z) % 4096 = y * 64 + z /\ z % 4096 = z
  OBVIOUS
<1>3. ((y * 64 + z) \div 16) % 256 = y * 4 + (z \div 16)
  OBVIOUS
<1>4. ((y * 64 + z) \div 4) % 256 = (y % 16) * 16 + (z \div 4)
  OBVIOUS
<1>5. ((y * 64 + z) \div 1) % 256 = (y % 4) * 64 + z
  OBVIOUS
<1> QED BY <1>1, <1>2, <1>3, <1>4, <1>5

\* Listing one element more is appending it.
LEMMA OneMore ==
  ASSUME NEW n \in Nat, NEW S, NEW f \in [1..n -> S], NEW g \in [1..n + 1 -> S],
         \A k \in 1..n : g[k] = f[k]
  PROVE  g = Append(f, g[n + 1])
<1>1. f \in Seq(S) /\ Len(f) = n
  OBVIOUS
<1> QED BY <1>1

\* The bits of a byte are those of its two digits: of the first of three,
LEMMA FirstByte ==
  ASSUME NEW x \in Value, NEW y \in Value, NEW v, v = x * 4 + (y \div 16)
  PROVE  /\ v \in 0..255
         /\ \A t \in 0..5 : (v \div Power[8 - t]) % 2 = (x \div Power[6 - t]) % 2
         /\ \A t \in 6..7 : (v \div Power[8 - t]) % 2 = (y \div Power[12 - t]) % 2
<1>1. v \in 0..255
  BY DEF Value
<1>2. (v \div 128) % 2 = (x \div 32) % 2
  BY DEF Value
<1>3. (v \div 64) % 2 = (x \div 16) % 2
  BY DEF Value
<1>4. (v \div 32) % 2 = (x \div 8) % 2
  BY DEF Value
<1>5. (v \div 16) % 2 = (x \div 4) % 2
  BY DEF Value
<1>6. (v \div 8) % 2 = (x \div 2) % 2
  BY DEF Value
<1>7. (v \div 4) % 2 = (x \div 1) % 2
  BY DEF Value
<1>8. (v \div 2) % 2 = (y \div 32) % 2
  BY DEF Value
<1>9. (v \div 1) % 2 = (y \div 16) % 2
  BY DEF Value
<1>10. ASSUME NEW t \in 0..5 PROVE (v \div Power[8 - t]) % 2 = (x \div Power[6 - t]) % 2
  <2>1. CASE t = 0
    BY <1>2, <2>1 DEF Power
  <2>2. CASE t = 1
    BY <1>3, <2>2 DEF Power
  <2>3. CASE t = 2
    BY <1>4, <2>3 DEF Power
  <2>4. CASE t = 3
    BY <1>5, <2>4 DEF Power
  <2>5. CASE t = 4
    BY <1>6, <2>5 DEF Power
  <2>6. CASE t = 5
    BY <1>7, <2>6 DEF Power
  <2> QED BY <2>1, <2>2, <2>3, <2>4, <2>5, <2>6
<1>11. ASSUME NEW t \in 6..7 PROVE (v \div Power[8 - t]) % 2 = (y \div Power[12 - t]) % 2
  <2>1. CASE t = 6
    BY <1>8, <2>1 DEF Power
  <2>2. CASE t = 7
    BY <1>9, <2>2 DEF Power
  <2> QED BY <2>1, <2>2
<1> QED BY <1>1, <1>10, <1>11

\* of the second,
LEMMA SecondByte ==
  ASSUME NEW x \in Value, NEW y \in Value, NEW v, v = (x % 16) * 16 + (y \div 4)
  PROVE  /\ v \in 0..255
         /\ \A t \in 0..3 : (v \div Power[8 - t]) % 2 = (x \div Power[4 - t]) % 2
         /\ \A t \in 4..7 : (v \div Power[8 - t]) % 2 = (y \div Power[10 - t]) % 2
<1>1. v \in 0..255
  BY DEF Value
<1>2. (v \div 128) % 2 = (x \div 8) % 2
  BY DEF Value
<1>3. (v \div 64) % 2 = (x \div 4) % 2
  BY DEF Value
<1>4. (v \div 32) % 2 = (x \div 2) % 2
  BY DEF Value
<1>5. (v \div 16) % 2 = (x \div 1) % 2
  BY DEF Value
<1>6. (v \div 8) % 2 = (y \div 32) % 2
  BY DEF Value
<1>7. (v \div 4) % 2 = (y \div 16) % 2
  BY DEF Value
<1>8. (v \div 2) % 2 = (y \div 8) % 2
  BY DEF Value
<1>9. (v \div 1) % 2 = (y \div 4) % 2
  BY DEF Value
<1>10. ASSUME NEW t \in 0..3 PROVE (v \div Power[8 - t]) % 2 = (x \div Power[4 - t]) % 2
  <2>1. CASE t = 0
    BY <1>2, <2>1 DEF Power
  <2>2. CASE t = 1
    BY <1>3, <2>2 DEF Power
  <2>3. CASE t = 2
    BY <1>4, <2>3 DEF Power
  <2>4. CASE t = 3
    BY <1>5, <2>4 DEF Power
  <2> QED BY <2>1, <2>2, <2>3, <2>4
<1>11. ASSUME NEW t \in 4..7 PROVE (v \div Power[8 - t]) % 2 = (y \div Power[10 - t]) % 2
  <2>1. CASE t = 4
    BY <1>6, <2>1 DEF Power
  <2>2. CASE t = 5
    BY <1>7, <2>2 DEF Power
  <2>3. CASE t = 6
    BY <1>8, <2>3 DEF Power
  <2>4. CASE t = 7
    BY <1>9, <2>4 DEF Power
  <2> QED BY <2>1, <2>2, <2>3, <2>4
<1> QED BY <1>1, <1>10, <1>11

\* and of the third.
LEMMA ThirdByte ==
  ASSUME NEW x \in Value, NEW y \in Value, NEW v, v = (x % 4) * 64 + y
  PROVE  /\ v \in 0..255
         /\ \A t \in 0..1 : (v \div Power[8 - t]) % 2 = (x \div Power[2 - t]) % 2
         /\ \A t \in 2..7 : (v \div Power[8 - t]) % 2 = (y \div Power[8 - t]) % 2
<1>1. v \in 0..255
  BY DEF Value
<1>2. (v \div 128) % 2 = (x \div 2) % 2
  BY DEF Value
<1>3. (v \div 64) % 2 = (x \div 1) % 2
  BY DEF Value
<1>4. (v \div 32) % 2 = (y \div 32) % 2
  BY DEF Value
<1>5. (v \div 16) % 2 = (y \div 16) % 2
  BY DEF Value
<1>6. (v \div 8) % 2 = (y \div 8) % 2
  BY DEF Value
<1>7. (v \div 4) % 2 = (y \div 4) % 2
  BY DEF Value
<1>8. (v \div 2) % 2 = (y \div 2) % 2
  BY DEF Value
<1>9. (v \div 1) % 2 = (y \div 1) % 2
  BY DEF Value
<1>10. ASSUME NEW t \in 0..1 PROVE (v \div Power[8 - t]) % 2 = (x \div Power[2 - t]) % 2
  <2>1. CASE t = 0
    BY <1>2, <2>1 DEF Power
  <2>2. CASE t = 1
    BY <1>3, <2>2 DEF Power
  <2> QED BY <2>1, <2>2
<1>11. ASSUME NEW t \in 2..7 PROVE (v \div Power[8 - t]) % 2 = (y \div Power[8 - t]) % 2
  <2>1. CASE t = 2
    BY <1>4, <2>1 DEF Power
  <2>2. CASE t = 3
    BY <1>5, <2>2 DEF Power
  <2>3. CASE t = 4
    BY <1>6, <2>3 DEF Power
  <2>4. CASE t = 5
    BY <1>7, <2>4 DEF Power
  <2>5. CASE t = 6
    BY <1>8, <2>5 DEF Power
  <2>6. CASE t = 7
    BY <1>9, <2>6 DEF Power
  <2> QED BY <2>1, <2>2, <2>3, <2>4, <2>5, <2>6
<1> QED BY <1>1, <1>10, <1>11

\* Which digits a byte is spelled with; they are there when it is complete.
LEMMA Places ==
  ASSUME NEW d, NEW n \in Nat, NEW k \in 1..Octets(n)
  PROVE  \E p \in Nat :
           \/ k = 3 * p + 1 /\ 4 * p + 2 <= n /\ Spelled(d, k) = d[4 * p + 1] * 4 + (d[4 * p + 2] \div 16)
           \/ k = 3 * p + 2 /\ 4 * p + 3 <= n /\ Spelled(d, k) = (d[4 * p + 2] % 16) * 16 + (d[4 * p + 3] \div 4)
           \/ k = 3 * p + 3 /\ 4 * p + 4 <= n /\ Spelled(d, k) = (d[4 * p + 3] % 4) * 64 + d[4 * p + 4]
<1> DEFINE p == (k - 1) \div 3
<1>0. PICK q \in Nat : n \in {4 * q, 4 * q + 1, 4 * q + 2, 4 * q + 3}
  BY Quarters
<1>1. Octets(n) \in Nat /\ Octets(n) <= 3 * q + 2 /\ (Octets(n) > 3 * q => 4 * q + 2 <= n)
      /\ (Octets(n) > 3 * q + 1 => 4 * q + 3 <= n) /\ 4 * q <= n
  <2>1. CASE n = 4 * q
    BY <2>1, Sizes
  <2>2. CASE n = 4 * q + 1
    BY <2>2, Sizes
  <2>3. CASE n = 4 * q + 2
    BY <2>3, Sizes
  <2>4. CASE n = 4 * q + 3
    BY <2>4, Sizes
  <2> QED BY <1>0, <2>1, <2>2, <2>3, <2>4
<1>2. p \in Nat /\ k - 1 = 3 * p + ((k - 1) % 3) /\ (k - 1) % 3 \in 0..2 /\ k \in Nat
  BY <1>1
<1>3. p <= q
  BY <1>1, <1>2
<1>4. /\ (k - 1) % 3 = 0 => 4 * p + 2 <= n
      /\ (k - 1) % 3 = 1 => 4 * p + 3 <= n
      /\ (k - 1) % 3 = 2 => 4 * p + 4 <= n
  BY <1>1, <1>2, <1>3
<1>5. Spelled(d, k) = IF (k - 1) % 3 = 0 THEN d[4 * p + 1] * 4 + (d[4 * p + 2] \div 16)
                      ELSE IF (k - 1) % 3 = 1 THEN (d[4 * p + 2] % 16) * 16 + (d[4 * p + 3] \div 4)
                      ELSE (d[4 * p + 3] % 4) * 64 + d[4 * p + 4]
  BY DEF Spelled
<1> HIDE DEF p
<1>6. /\ (k - 1) % 3 = 0 => k = 3 * p + 1
      /\ (k - 1) % 3 = 1 => k = 3 * p + 2
      /\ (k - 1) % 3 = 2 => k = 3 * p + 3
  BY <1>2
<1>7. (k - 1) % 3 = 0 \/ (k - 1) % 3 = 1 \/ (k - 1) % 3 = 2
  BY <1>2
<1> QED BY <1>2, <1>4, <1>5, <1>6, <1>7

LEMMA SpelledByte ==
  ASSUME NEW d, NEW n \in Nat, \A i \in 1..n : d[i] \in Value, NEW k \in 1..Octets(n)
  PROVE  Spelled(d, k) \in 0..255
<1>1. PICK p \in Nat :
        \/ k = 3 * p + 1 /\ 4 * p + 2 <= n /\ Spelled(d, k) = d[4 * p + 1] * 4 + (d[4 * p + 2] \div 16)
        \/ k = 3 * p + 2 /\ 4 * p + 3 <= n /\ Spelled(d, k) = (d[4 * p + 2] % 16) * 16 + (d[4 * p + 3] \div 4)
        \/ k = 3 * p + 3 /\ 4 * p + 4 <= n /\ Spelled(d, k) = (d[4 * p + 3] % 4) * 64 + d[4 * p + 4]
  BY Places
<1>2. CASE k = 3 * p + 1
  <2>1. 4 * p + 1 \in 1..n /\ 4 * p + 2 \in 1..n /\ k # 3 * p + 2 /\ k # 3 * p + 3
    BY <1>1, <1>2
  <2> QED BY <1>1, <2>1, FirstByte
<1>3. CASE k = 3 * p + 2
  <2>1. 4 * p + 2 \in 1..n /\ 4 * p + 3 \in 1..n /\ k # 3 * p + 1 /\ k # 3 * p + 3
    BY <1>1, <1>3
  <2> QED BY <1>1, <2>1, SecondByte
<1>4. CASE k = 3 * p + 3
  <2>1. 4 * p + 3 \in 1..n /\ 4 * p + 4 \in 1..n /\ k # 3 * p + 1 /\ k # 3 * p + 2
    BY <1>1, <1>4
  <2> QED BY <1>1, <2>1, ThirdByte
<1> QED BY <1>1, <1>2, <1>3, <1>4

\* A byte has the bits of the text, in their order.
LEMMA SpelledBits ==
  ASSUME NEW d, NEW n \in Nat, \A i \in 1..n : d[i] \in Value, NEW k \in 1..Octets(n), NEW t \in 0..7
  PROVE  (Spelled(d, k) \div Power[8 - t]) % 2 =
           (d[((8 * (k - 1) + t) \div 6) + 1] \div Power[6 - ((8 * (k - 1) + t) % 6)]) % 2
<1> DEFINE j == 8 * (k - 1) + t
<1>1. PICK p \in Nat :
        \/ k = 3 * p + 1 /\ 4 * p + 2 <= n /\ Spelled(d, k) = d[4 * p + 1] * 4 + (d[4 * p + 2] \div 16)
        \/ k = 3 * p + 2 /\ 4 * p + 3 <= n /\ Spelled(d, k) = (d[4 * p + 2] % 16) * 16 + (d[4 * p + 3] \div 4)
        \/ k = 3 * p + 3 /\ 4 * p + 4 <= n /\ Spelled(d, k) = (d[4 * p + 3] % 4) * 64 + d[4 * p + 4]
  BY Places
<1> SUFFICES (Spelled(d, k) \div Power[8 - t]) % 2 = (d[(j \div 6) + 1] \div Power[6 - (j % 6)]) % 2
  OBVIOUS
<1>2. ASSUME NEW m \in 1..4, NEW o \in Nat, o - t \in 1..6, j = 6 * (4 * p + m - 1) + 6 - (o - t)
      PROVE  (j \div 6) + 1 = 4 * p + m /\ 6 - (j % 6) = o - t
  BY <1>2
<1> HIDE DEF j
<1>3. CASE k = 3 * p + 1
  <2>1. 4 * p + 1 \in 1..n /\ 4 * p + 2 \in 1..n /\ k # 3 * p + 2 /\ k # 3 * p + 3 /\ j = 24 * p + t
    BY <1>1, <1>3 DEF j
  <2>2. CASE t \in 0..5
    <3>1. (j \div 6) + 1 = 4 * p + 1 /\ 6 - (j % 6) = 6 - t
      BY <1>2, <2>1, <2>2
    <3> QED BY <1>1, <2>1, <2>2, <3>1, FirstByte
  <2>3. CASE t \in 6..7
    <3>1. (j \div 6) + 1 = 4 * p + 2 /\ 6 - (j % 6) = 12 - t
      BY <1>2, <2>1, <2>3
    <3> QED BY <1>1, <2>1, <2>3, <3>1, FirstByte
  <2> QED BY <2>2, <2>3
<1>4. CASE k = 3 * p + 2
  <2>1. 4 * p + 2 \in 1..n /\ 4 * p + 3 \in 1..n /\ k # 3 * p + 1 /\ k # 3 * p + 3 /\ j = 24 * p + 8 + t
    BY <1>1, <1>4 DEF j
  <2>2. CASE t \in 0..3
    <3>1. (j \div 6) + 1 = 4 * p + 2 /\ 6 - (j % 6) = 4 - t
      BY <1>2, <2>1, <2>2
    <3> QED BY <1>1, <2>1, <2>2, <3>1, SecondByte
  <2>3. CASE t \in 4..7
    <3>1. (j \div 6) + 1 = 4 * p + 3 /\ 6 - (j % 6) = 10 - t
      BY <1>2, <2>1, <2>3
    <3> QED BY <1>1, <2>1, <2>3, <3>1, SecondByte
  <2> QED BY <2>2, <2>3
<1>5. CASE k = 3 * p + 3
  <2>1. 4 * p + 3 \in 1..n /\ 4 * p + 4 \in 1..n /\ k # 3 * p + 1 /\ k # 3 * p + 2 /\ j = 24 * p + 16 + t
    BY <1>1, <1>5 DEF j
  <2>2. CASE t \in 0..1
    <3>1. (j \div 6) + 1 = 4 * p + 3 /\ 6 - (j % 6) = 2 - t
      BY <1>2, <2>1, <2>2
    <3> QED BY <1>1, <2>1, <2>2, <3>1, ThirdByte
  <2>3. CASE t \in 2..7
    <3>1. (j \div 6) + 1 = 4 * p + 4 /\ 6 - (j % 6) = 8 - t
      BY <1>2, <2>1, <2>3
    <3>2. (Spelled(d, k) \div Power[8 - t]) % 2 = (d[4 * p + 4] \div Power[8 - t]) % 2
      <4>1. Spelled(d, k) = (d[4 * p + 3] % 4) * 64 + d[4 * p + 4]
        BY <1>1, <2>1
      <4>2. d[4 * p + 3] \in Value /\ d[4 * p + 4] \in Value
        BY <2>1
      <4> QED BY ONLY <2>3, <4>1, <4>2, ThirdByte
    <3> QED BY <3>1, <3>2
  <2> QED BY <2>2, <2>3
<1> QED BY <1>1, <1>3, <1>4, <1>5

\* A digit more, as the loop takes it.
LEMMA StepHolds ==
  ASSUME NEW d \in Seq(Symbol), NEW n \in 1..Len(d), \A i \in 1..n : d[i] \in Value
  PROVE  DecodeStep(Held(d, n - 1), d[n]) = Held(d, n)
<1> DEFINE out(m) == [k \in 1..Octets(m) |-> Spelled(d, k)]
           r == Held(d, n - 1)
           acc == (r.acc * 64 + d[n]) % 4096
           bits == r.bits + 6
<1>0. n \in Nat /\ n - 1 \in Nat /\ Len(d) \in Nat
  OBVIOUS
<1>1. r.rc = "OK" /\ r.acc = Acc(d, n - 1) /\ r.bits = <<0, 6, 4, 2>>[((n - 1) % 4) + 1] /\ r.out = out(n - 1)
  BY DEF Held
<1>2. DecodeStep(r, d[n]) =
        IF r.rc # "OK" THEN r
        ELSE IF d[n] > 63 THEN [r EXCEPT !.rc = "INVALID"]
        ELSE IF bits < 8 THEN [r EXCEPT !.acc = acc, !.bits = bits]
        ELSE [r EXCEPT !.acc = acc, !.bits = bits - 8,
                       !.out = Append(r.out, (acc \div Power[bits - 7]) % 256)]
  BY DEF DecodeStep
<1>3. d[n] \in Value /\ (n > 1 => d[n - 1] \in Value) /\ (n > 2 => d[n - 2] \in Value)
  <2>1. n > 1 => n - 1 \in 1..n
    BY <1>0
  <2>2. n > 2 => n - 2 \in 1..n
    BY <1>0
  <2> QED BY <1>0, <2>1, <2>2
<1>4. acc = Acc(d, n)
  <2>1. CASE n = 1
    <3>0. \A v \in Value : 0 * 64 + v = v
      BY DEF Value
    <3>1. r.acc = 0 /\ 0 * 64 + d[n] = d[n]
      BY <1>1, <1>3, <2>1, <3>0 DEF Acc
    <3> QED BY <1>3, <2>1, <3>1, Shifts DEF Acc
  <2>2. CASE n = 2
    <3>1. r.acc = d[n - 1]
      BY <1>1, <2>2 DEF Acc
    <3> QED BY <1>3, <2>2, <3>1, Shifts DEF Acc
  <2>3. CASE n > 2
    <3>1. r.acc = d[n - 2] * 64 + d[n - 1]
      <4>1. n - 1 # 0 /\ n - 1 # 1 /\ n - 1 - 1 = n - 2
        BY <1>0, <2>3
      <4> QED BY <1>1, <4>1 DEF Acc
    <3>2. acc = d[n - 1] * 64 + d[n]
      BY <1>3, <2>3, <3>1, Shifts
    <3> QED BY <1>0, <2>3, <3>2 DEF Acc
  <2> QED BY <1>0, <2>1, <2>2, <2>3
<1>5. ~(d[n] > 63)
  <2>1. \A v \in Value : ~(v > 63)
    BY DEF Value
  <2> QED BY <1>3, <2>1
<1>6. Held(d, n) = [rc |-> "OK", acc |-> Acc(d, n), bits |-> <<0, 6, 4, 2>>[(n % 4) + 1], out |-> out(n)]
  BY DEF Held
<1>7. PICK q \in Nat : n \in {4 * q, 4 * q + 1, 4 * q + 2, 4 * q + 3}
  BY <1>0, Quarters
<1>8. r = [rc |-> "OK", acc |-> r.acc, bits |-> r.bits, out |-> r.out]
  BY DEF Held
<1>9. ASSUME NEW m \in Nat, Octets(n - 1) = m, Octets(n) = m + 1, Spelled(d, m + 1) \in Nat,
             \A k \in 1..m : Spelled(d, k) \in Nat
      PROVE  Append(out(n - 1), Spelled(d, m + 1)) = out(n)
  <2>1. out(n - 1) \in [1..m -> Nat] /\ out(n) \in [1..m + 1 -> Nat]
    BY <1>9
  <2>2. \A k \in 1..m : out(n)[k] = out(n - 1)[k]
    BY <1>9
  <2>3. out(n)[m + 1] = Spelled(d, m + 1)
    BY <1>9
  <2> HIDE DEF out
  <2> QED BY <2>1, <2>2, <2>3, OneMore
<1>a. \A k \in 1..Octets(n) : Spelled(d, k) \in Nat
  <2>1. \A i \in 1..n : d[i] \in Value
    OBVIOUS
  <2>2. \A k \in 1..Octets(n) : Spelled(d, k) \in 0..255
    BY <1>0, <2>1, SpelledByte
  <2>3. \A v \in 0..255 : v \in Nat
    OBVIOUS
  <2> QED BY <2>2, <2>3
<1> HIDE DEF r, acc, bits, out
<1>b. CASE n = 4 * q + 1
  <2>1. n % 4 = 1 /\ (n - 1) % 4 = 0 /\ Octets(n) = Octets(n - 1)
    BY <1>b, Sizes
  <2>2. bits = 6 /\ r.out = out(n)
    BY <1>1, <2>1 DEF bits, out
  <2>3. <<0, 6, 4, 2>>[(n % 4) + 1] = bits /\ bits < 8
    BY <2>1, <2>2
  <2>4. DecodeStep(r, d[n]) = [r EXCEPT !.acc = acc, !.bits = bits]
    BY <1>1, <1>2, <1>5, <2>3
  <2> DEFINE kept == [r EXCEPT !.acc = acc, !.bits = bits]
  <2>5. DOMAIN kept = {"rc", "acc", "bits", "out"} /\ kept = [x \in DOMAIN kept |-> kept[x]]
    BY <1>8
  <2>6. kept.rc = "OK" /\ kept.acc = acc /\ kept.bits = bits /\ kept.out = r.out
    BY <1>1, <1>8
  <2> HIDE DEF kept
  <2>7. kept = [rc |-> "OK", acc |-> acc, bits |-> bits, out |-> r.out]
    BY <2>5, <2>6
  <2> QED BY <1>4, <1>6, <2>2, <2>3, <2>4, <2>7 DEF r, kept
<1>c. ASSUME NEW m \in Nat, NEW w \in Nat, Octets(n - 1) = m, Octets(n) = m + 1,
             (acc \div Power[w + 1]) % 256 = Spelled(d, m + 1), bits = w + 8,
             <<0, 6, 4, 2>>[(n % 4) + 1] = w
      PROVE  DecodeStep(Held(d, n - 1), d[n]) = Held(d, n)
  <2>1. Append(r.out, (acc \div Power[bits - 7]) % 256) = out(n)
    <3>1. bits - 7 = w + 1
      BY <1>c
    <3>2. (\A k \in 1..m : Spelled(d, k) \in Nat) /\ Spelled(d, m + 1) \in Nat
      BY <1>a, <1>c
    <3> QED BY <1>1, <1>9, <1>c, <3>1, <3>2
  <2>2. ~(bits < 8) /\ bits - 8 = w
    BY <1>c
  <2> QED BY <1>1, <1>2, <1>4, <1>5, <1>6, <1>8, <1>c, <2>1, <2>2 DEF r
<1>d. CASE n = 4 * q + 2
  <2>1. n % 4 = 2 /\ (n - 1) % 4 = 1 /\ Octets(n - 1) = 3 * q /\ Octets(n) = 3 * q + 1 /\ n - 1 = 4 * q + 1
        /\ n # 1 /\ n # 0
    BY <1>d, Sizes
  <2>2. Acc(d, n) = d[n - 1] * 64 + d[n]
    BY <2>1 DEF Acc
  <2>3. Spelled(d, 3 * q + 1) = d[n - 1] * 4 + (d[n] \div 16)
    <3>1. (3 * q + 1 - 1) \div 3 = q /\ (3 * q + 1 - 1) % 3 = 0
      OBVIOUS
    <3> QED BY <1>d, <2>1, <3>1 DEF Spelled
  <2>4. (acc \div Power[4 + 1]) % 256 = Spelled(d, 3 * q + 1)
    BY <1>0, <1>3, <1>4, <2>1, <2>2, <2>3, Shifts DEF Power
  <2>5. bits = 4 + 8
    BY <1>1, <2>1 DEF bits
  <2> QED BY <1>c, <2>1, <2>4, <2>5
<1>e. CASE n = 4 * q + 3
  <2>1. n % 4 = 3 /\ (n - 1) % 4 = 2 /\ Octets(n - 1) = 3 * q + 1 /\ Octets(n) = 3 * q + 1 + 1 /\ n - 1 = 4 * q + 2
        /\ n # 1 /\ n # 0
    BY <1>e, Sizes
  <2>2. Acc(d, n) = d[n - 1] * 64 + d[n]
    BY <2>1 DEF Acc
  <2>3. Spelled(d, 3 * q + 1 + 1) = (d[n - 1] % 16) * 16 + (d[n] \div 4)
    <3>1. (3 * q + 1 + 1 - 1) \div 3 = q /\ (3 * q + 1 + 1 - 1) % 3 = 1
      OBVIOUS
    <3> QED BY <1>e, <2>1, <3>1 DEF Spelled
  <2>4. (acc \div Power[2 + 1]) % 256 = Spelled(d, 3 * q + 1 + 1)
    BY <1>0, <1>3, <1>4, <2>1, <2>2, <2>3, Shifts DEF Power
  <2>5. bits = 2 + 8 /\ 3 * q + 1 \in Nat
    BY <1>1, <2>1 DEF bits
  <2> QED BY <1>c, <2>1, <2>4, <2>5
<1>f. CASE n = 4 * q
  <2> DEFINE p == q - 1
  <2>0. p \in Nat /\ q = p + 1
    BY <1>0, <1>f
  <2>1. n % 4 = 0 /\ (n - 1) % 4 = 3 /\ Octets(n - 1) = 3 * p + 2 /\ Octets(n) = 3 * p + 2 + 1 /\ n - 1 = 4 * p + 3
        /\ n # 1 /\ n # 0 /\ n = 4 * p + 4
    <3>1. Octets(4 * p + 3) = 3 * p + 2 /\ Octets(4 * (p + 1)) = 3 * (p + 1)
      BY <2>0, Sizes
    <3>2. n - 1 = 4 * p + 3 /\ n = 4 * (p + 1)
      BY <1>f, <2>0
    <3> QED BY <2>0, <3>1, <3>2
  <2>2. Acc(d, n) = d[n - 1] * 64 + d[n]
    BY <2>1 DEF Acc
  <2>3. Spelled(d, 3 * p + 2 + 1) = (d[n - 1] % 4) * 64 + d[n]
    <3>1. (3 * p + 2 + 1 - 1) \div 3 = p /\ (3 * p + 2 + 1 - 1) % 3 = 2
      BY <2>0
    <3> QED BY <2>1, <3>1 DEF Spelled
  <2>4. (acc \div Power[0 + 1]) % 256 = Spelled(d, 3 * p + 2 + 1)
    BY <1>0, <1>3, <1>4, <2>1, <2>2, <2>3, Shifts DEF Power
  <2>5. bits = 0 + 8 /\ 3 * p + 2 \in Nat
    BY <1>1, <2>0, <2>1 DEF bits
  <2> QED BY <1>c, <2>1, <2>4, <2>5
<1> QED BY <1>7, <1>b, <1>d, <1>e, <1>f DEF r

\* The loop, digit by digit, and what it has when it ends.
Unfolds(d, f) ==
  f = [n \in 0..Len(d) |-> IF n = 0 THEN [rc |-> "OK", acc |-> 0, bits |-> 0, out |-> <<>>]
                           ELSE DecodeStep(f[n - 1], d[n])]
Loop(d) == (CHOOSE f : Unfolds(d, f))[Len(d)]

LEMMA DecodeIs ==
  ASSUME NEW in, NEW cap
  PROVE  LET d == Unpadded(in)
         IN Base64Decode(in, cap) =
              IF Len(in) \div 4 > IntMax \div 3 THEN Failed("NOMEM", <<>>)
              ELSE IF ~PaddingFits(in, d) \/ Len(d) % 4 = 1 THEN Failed("INVALID", <<>>)
              ELSE IF Room(d) > IntMax \/ cap < Room(d) THEN Failed("NOMEM", <<>>)
              ELSE [rc |-> Loop(d).rc, out |-> Loop(d).out]
BY DEF Base64Decode, Loop, Unfolds

\* It ends with the bytes its digits spell, up to the first that is none.
LEMMA LoopIs ==
  ASSUME NEW d \in Seq(Symbol), NEW b \in 1..Len(d) + 1, \A i \in 1..b - 1 : d[i] \in Value,
         b <= Len(d) => d[b] > 63
  PROVE  Loop(d) = IF b = Len(d) + 1 THEN Held(d, Len(d)) ELSE [Held(d, b - 1) EXCEPT !.rc = "INVALID"]
<1> DEFINE start == [rc |-> "OK", acc |-> 0, bits |-> 0, out |-> <<>>]
           stopped == [Held(d, b - 1) EXCEPT !.rc = "INVALID"]
           known == [n \in 0..Len(d) |-> IF n < b THEN Held(d, n) ELSE stopped]
           value == CHOOSE f : Unfolds(d, f)
<1>0. Len(d) \in Nat /\ b \in Nat
  OBVIOUS
<1>1. known[0] = start
  <2>1. Octets(0) = 0 /\ 0 % 4 = 0
    BY Sizes
  <2>2. Held(d, 0) = start
    BY <2>1 DEF Held, Acc
  <2> QED BY <1>0, <2>2
<1>2. ASSUME NEW n \in 1..Len(d) PROVE known[n] = DecodeStep(known[n - 1], d[n])
  <2>0. n - 1 \in 0..Len(d) /\ n \in 0..Len(d)
    BY <1>0
  <2>1. CASE n < b
    <3>1. \A i \in 1..n : d[i] \in Value
      BY <1>0, <2>1
    <3>2. known[n] = Held(d, n) /\ known[n - 1] = Held(d, n - 1)
      BY <1>0, <2>0, <2>1
    <3> QED BY <3>1, <3>2, StepHolds
  <2>2. CASE n = b
    <3>1. known[n] = stopped /\ known[n - 1] = Held(d, b - 1)
      BY <1>0, <2>0, <2>2
    <3>2. Held(d, b - 1).rc = "OK" /\ d[n] > 63
      BY <1>0, <2>2 DEF Held
    <3> QED BY <3>1, <3>2 DEF DecodeStep
  <2>3. CASE n > b
    <3>1. known[n] = stopped /\ known[n - 1] = stopped
      BY <1>0, <2>0, <2>3
    <3>2. stopped.rc = "INVALID"
      BY DEF Held
    <3> HIDE DEF known, stopped
    <3> QED BY <3>1, <3>2 DEF DecodeStep
  <2> QED BY <1>0, <2>1, <2>2, <2>3
<1>3. Unfolds(d, known)
  <2> DEFINE unfolded == [n \in 0..Len(d) |-> IF n = 0 THEN start ELSE DecodeStep(known[n - 1], d[n])]
  <2>1. ASSUME NEW n \in 0..Len(d) PROVE known[n] = unfolded[n]
    <3>1. unfolded[n] = IF n = 0 THEN start ELSE DecodeStep(known[n - 1], d[n])
      OBVIOUS
    <3> HIDE DEF known, unfolded, start
    <3> QED BY <1>1, <1>2, <3>1
  <2> QED BY <2>1 DEF Unfolds
<1>4. Unfolds(d, value)
  <2> HIDE DEF known
  <2> QED BY <1>3
<1>5. \A n \in 0..Len(d) : value[n] = IF n = 0 THEN start ELSE DecodeStep(value[n - 1], d[n])
  <2> HIDE DEF value
  <2>1. value = [n \in 0..Len(d) |-> IF n = 0 THEN start ELSE DecodeStep(value[n - 1], d[n])]
    BY <1>4 DEF Unfolds
  <2> QED BY <2>1
<1>k. known[Len(d)] = IF b = Len(d) + 1 THEN Held(d, Len(d)) ELSE stopped
  BY <1>0
<1>v. Loop(d) = value[Len(d)]
  BY DEF Loop
<1> HIDE DEF value, known, start, stopped
<1>6. \A n \in 0..Len(d) : value[n] = known[n]
  <2> DEFINE T == {n \in 0..Len(d) : value[n] # known[n]}
  <2> SUFFICES ASSUME T # {} PROVE FALSE
    OBVIOUS
  <2>1. T \subseteq Nat
    OBVIOUS
  <2>2. PICK n \in T : \A j \in T : n <= j
    <3> HIDE DEF T
    <3> QED BY <2>1, NatMin
  <2>3. n # 0
    BY <1>1, <1>5, <2>2
  <2>4. n - 1 \in 0..Len(d) /\ n - 1 \notin T /\ n \in 1..Len(d)
    BY <2>2, <2>3
  <2>5. value[n] = DecodeStep(value[n - 1], d[n]) /\ value[n - 1] = known[n - 1]
    BY <1>5, <2>2, <2>3, <2>4
  <2> QED BY <1>2, <2>2, <2>4, <2>5
<1> QED BY <1>0, <1>6, <1>k, <1>v DEF stopped
\* Digits without the padding.
LEMMA UnpaddedIs ==
  ASSUME NEW in \in Seq(Symbol)
  PROVE  \E n \in 0..Len(in) :
           /\ Unpadded(in) = SubSeq(in, 1, n) /\ Unpadded(in) \in Seq(Symbol) /\ Len(Unpadded(in)) = n
           /\ \A i \in 1..n : Unpadded(in)[i] = in[i]
           /\ n = 0 \/ in[n] # PadDigit
           /\ \A i \in n + 1..Len(in) : in[i] = PadDigit
<1> DEFINE P(n) == (n = 0 \/ in[n] # PadDigit) /\ \A i \in n + 1..Len(in) : in[i] = PadDigit
           T == {n \in 0..Len(in) : \A i \in n + 1..Len(in) : in[i] = PadDigit}
           n == CHOOSE m \in 0..Len(in) : P(m)
<1>0. Len(in) \in Nat
  OBVIOUS
<1>1. \E m \in 0..Len(in) : P(m)
  <2>1. Len(in) \in T /\ T \subseteq Nat
    BY <1>0
  <2>2. PICK m \in T : \A j \in T : m <= j
    <3> HIDE DEF T
    <3> QED BY <2>1, NatMin
  <2>3. ASSUME m # 0, in[m] = PadDigit PROVE FALSE
    <3>1. m - 1 \in 0..Len(in) /\ m \in 0..Len(in)
      BY <1>0, <2>2, <2>3
    <3>2. \A i \in m - 1 + 1..Len(in) : in[i] = PadDigit
      BY <2>2, <2>3, <3>1
    <3>3. m - 1 \in T /\ ~(m <= m - 1)
      BY <3>1, <3>2
    <3> QED BY <2>2, <3>3
  <2> QED BY <2>2, <2>3
<1>2. n \in 0..Len(in) /\ P(n)
  <2> HIDE DEF P
  <2> QED BY <1>1
<1>3. Unpadded(in) = SubSeq(in, 1, n)
  BY DEF Unpadded
<1> HIDE DEF n
<1>4. SubSeq(in, 1, n) \in Seq(Symbol) /\ Len(SubSeq(in, 1, n)) = n /\ \A i \in 1..n : SubSeq(in, 1, n)[i] = in[i]
  BY <1>0, <1>2
<1> QED BY <1>2, <1>3, <1>4

LEMMA UnpaddedOf ==
  ASSUME NEW in \in Seq(Symbol), NEW n \in 0..Len(in), n = 0 \/ in[n] # PadDigit,
         \A i \in n + 1..Len(in) : in[i] = PadDigit
  PROVE  Unpadded(in) = SubSeq(in, 1, n)
<1>1. PICK m \in 0..Len(in) : /\ Unpadded(in) = SubSeq(in, 1, m)
                              /\ m = 0 \/ in[m] # PadDigit
                              /\ \A i \in m + 1..Len(in) : in[i] = PadDigit
  BY UnpaddedIs
<1>2. Len(in) \in Nat
  OBVIOUS
<1>3. ~(m < n)
  BY <1>1, <1>2
<1>4. ~(n < m)
  BY <1>1, <1>2
<1> QED BY <1>1, <1>2, <1>3, <1>4

\* The decoder of digits that may end before their last, and what is in the
\* caller's buffer then.
Ends(d, b) == /\ b \in 1..Len(d) + 1 /\ \A i \in 1..b - 1 : d[i] \in Value
              /\ b <= Len(d) => d[b] > 63

LEMMA SomeEnd ==
  ASSUME NEW d \in Seq(Symbol)
  PROVE  \E b : Ends(d, b)
<1> DEFINE T == {i \in 1..Len(d) : d[i] > 63}
<1>1. T \subseteq Nat /\ Len(d) \in Nat
  OBVIOUS
<1>2. \A v \in Symbol : v > 63 \/ v \in Value
  BY DEF Symbol, Value
<1>3. \A i \in 1..Len(d) : d[i] > 63 \/ d[i] \in Value
  BY <1>2
<1>4. CASE T = {}
  <2>1. Ends(d, Len(d) + 1)
    BY <1>1, <1>3, <1>4 DEF Ends
  <2> QED BY <2>1
<1>5. CASE T # {}
  <2>1. PICK b \in T : \A i \in T : b <= i
    <3> HIDE DEF T
    <3> QED BY <1>1, <1>5, NatMin
  <2>2. \A i \in 1..b - 1 : i \in 1..Len(d) /\ ~(b <= i)
    BY <1>1
  <2>3. \A i \in 1..b - 1 : d[i] \in Value
    BY <1>3, <2>1, <2>2
  <2>4. Ends(d, b)
    BY <1>1, <2>1, <2>3 DEF Ends
  <2> QED BY <2>4
<1> QED BY <1>4, <1>5

\* More digits are no fewer bytes.
LEMMA OctetsGrow ==
  ASSUME NEW m \in Nat, NEW n \in Nat, m <= n
  PROVE  Octets(m) \in Nat /\ Octets(n) \in Nat /\ Octets(m) <= Octets(n)
<1>1. PICK p \in Nat : m \in {4 * p, 4 * p + 1, 4 * p + 2, 4 * p + 3}
  BY Quarters
<1>2. PICK q \in Nat : n \in {4 * q, 4 * q + 1, 4 * q + 2, 4 * q + 3}
  BY Quarters
<1>3. /\ Octets(4 * p) = 3 * p /\ Octets(4 * p + 1) = 3 * p
      /\ Octets(4 * p + 2) = 3 * p + 1 /\ Octets(4 * p + 3) = 3 * p + 2
  BY Sizes
<1>4. /\ Octets(4 * q) = 3 * q /\ Octets(4 * q + 1) = 3 * q
      /\ Octets(4 * q + 2) = 3 * q + 1 /\ Octets(4 * q + 3) = 3 * q + 2
  BY Sizes
<1>5. \/ m = 4 * p /\ Octets(m) = 3 * p
      \/ m = 4 * p + 1 /\ Octets(m) = 3 * p
      \/ m = 4 * p + 2 /\ Octets(m) = 3 * p + 1
      \/ m = 4 * p + 3 /\ Octets(m) = 3 * p + 2
  BY <1>1, <1>3
<1>6. \/ n = 4 * q /\ Octets(n) = 3 * q
      \/ n = 4 * q + 1 /\ Octets(n) = 3 * q
      \/ n = 4 * q + 2 /\ Octets(n) = 3 * q + 1
      \/ n = 4 * q + 3 /\ Octets(n) = 3 * q + 2
  BY <1>2, <1>4
<1> QED BY <1>5, <1>6

LEMMA LoopEnds ==
  ASSUME NEW d \in Seq(Symbol), NEW b, Ends(d, b)
  PROVE  /\ Loop(d).rc = "OK" <=> b = Len(d) + 1
         /\ Loop(d).out \in [1..Octets(b - 1) -> 0..255]
         /\ \A k \in 1..Octets(b - 1) : Loop(d).out[k] = Spelled(d, k)
         /\ Len(Loop(d).out) = Octets(b - 1) /\ Octets(b - 1) <= Octets(Len(d))
<1>1. b \in 1..Len(d) + 1 /\ Len(d) \in Nat /\ b - 1 \in Nat /\ b - 1 <= Len(d)
  BY DEF Ends
<1>2. Loop(d) = IF b = Len(d) + 1 THEN Held(d, Len(d)) ELSE [Held(d, b - 1) EXCEPT !.rc = "INVALID"]
  BY LoopIs DEF Ends
<1>3. b = Len(d) + 1 => Len(d) = b - 1
  BY <1>1
<1>4. (Loop(d).rc = "OK" <=> b = Len(d) + 1) /\ Loop(d).out = [k \in 1..Octets(b - 1) |-> Spelled(d, k)]
  <2>1. \A n : Held(d, n).rc = "OK" /\ Held(d, n).out = [k \in 1..Octets(n) |-> Spelled(d, k)]
    BY DEF Held
  <2>2. \A n : /\ [Held(d, n) EXCEPT !.rc = "INVALID"].rc = "INVALID"
               /\ [Held(d, n) EXCEPT !.rc = "INVALID"].out = Held(d, n).out
    BY DEF Held
  <2>3. CASE b = Len(d) + 1
    BY <1>2, <1>3, <2>1, <2>3
  <2>4. CASE b # Len(d) + 1
    BY <1>2, <2>1, <2>2, <2>4
  <2> QED BY <2>3, <2>4
<1>5. \A k \in 1..Octets(b - 1) : Spelled(d, k) \in 0..255
  BY <1>1, SpelledByte DEF Ends
<1>6. Loop(d).out \in [1..Octets(b - 1) -> 0..255]
  BY <1>4, <1>5
<1>7. Octets(b - 1) \in Nat /\ Octets(b - 1) <= Octets(Len(d))
  BY <1>1, OctetsGrow
<1>8. Len(Loop(d).out) = Octets(b - 1)
  BY <1>6, <1>7, Listed
<1> QED BY <1>4, <1>6, <1>7, <1>8

\* BitsAreBytes, of the text at hand.
LEMMA TextsAreBytes ==
  ASSUME text \in Seq(Symbol), Caps \subseteq Nat, IntMax \in Nat
  PROVE  BitsAreBytes
<1> DEFINE d == Unpadded(text)
           size == Room(d)
           bit(j) == (d[(j \div 6) + 1] \div Power[6 - (j % 6)]) % 2
           L == Len(text)
           good == /\ \A i \in 1..Len(d) : d[i] < PadDigit
                   /\ Len(d) % 4 # 1
                   /\ d = text \/ (L % 4 = 0 /\ L - Len(d) <= 2)
                   /\ L \div 4 <= IntMax \div 3 /\ size <= IntMax
<1> SUFFICES ASSUME NEW cap \in Caps
    PROVE  LET decoded == Base64Decode(text, cap) IN
           /\ (decoded.rc = "OK") = (good /\ size <= cap)
           /\ decoded.rc = "OK" =>
                /\ decoded.out \in [1..size -> 0..255]
                /\ \A n \in 1..size, k \in 0..7 :
                     (decoded.out[n] \div Power[8 - k]) % 2 = bit(8 * (n - 1) + k)
           /\ Len(decoded.out) <= cap /\ Len(HexDecode(text, cap).out) <= cap
  BY DEF BitsAreBytes
<1>1. cap \in Nat /\ Len(HexDecode(text, cap).out) <= cap
  BY HexFits DEF Symbol
<1>2. PICK n \in 0..L :
        /\ d = SubSeq(text, 1, n) /\ d \in Seq(Symbol) /\ Len(d) = n
        /\ \A i \in 1..n : d[i] = text[i]
        /\ n = 0 \/ text[n] # PadDigit
        /\ \A i \in n + 1..L : text[i] = PadDigit
  BY UnpaddedIs
<1>3. L \in Nat /\ n \in Nat /\ Len(d) \in Nat
  BY <1>2
<1>4. PICK b : Ends(d, b)
  BY <1>2, SomeEnd
<1>5. size = Octets(n) /\ size \in Nat
  <2>1. size = Octets(Len(d))
    BY DEF Room, Octets
  <2> QED BY <1>2, <1>3, <2>1, OctetsGrow
<1>6. d = text <=> n = L
  <2>1. SubSeq(text, 1, L) = text
    BY <1>3
  <2> QED BY <1>2, <2>1
<1> DEFINE decoded == Base64Decode(text, cap)
<1>7. decoded =
        IF L \div 4 > IntMax \div 3 THEN Failed("NOMEM", <<>>)
        ELSE IF ~PaddingFits(text, d) \/ Len(d) % 4 = 1 THEN Failed("INVALID", <<>>)
        ELSE IF size > IntMax \/ cap < size THEN Failed("NOMEM", <<>>)
        ELSE [rc |-> Loop(d).rc, out |-> Loop(d).out]
  BY DecodeIs
<1>8. PaddingFits(text, d) = (L - n <= 2 /\ (L - n # 0 => L % 4 = 0 /\ n % 4 = 4 - (L - n)))
  BY <1>2 DEF PaddingFits
<1>9. (\A i \in 1..n : d[i] < PadDigit) <=> b = n + 1
  <2>1. \A v \in Value : v < PadDigit
    BY DEF Value, PadDigit
  <2>2. ASSUME b = n + 1 PROVE \A i \in 1..n : d[i] < PadDigit
    <3>1. n + 1 - 1 = n
      BY <1>3
    <3> QED BY <1>4, <2>1, <2>2, <3>1 DEF Ends
  <2>3. ASSUME b # n + 1 PROVE ~(\A i \in 1..n : d[i] < PadDigit)
    <3>1. b \in 1..n /\ d[b] > 63
      BY <1>2, <1>3, <1>4, <2>3 DEF Ends
    <3>2. d[b] \in Symbol
      BY <1>2, <3>1
    <3>3. \A v \in Symbol : v > 63 => ~(v < PadDigit)
      BY DEF Symbol, PadDigit
    <3> QED BY <3>1, <3>2, <3>3
  <2> QED BY <2>2, <2>3
<1>a. Len(d) = n /\ d \in Seq(Symbol)
  BY <1>2
<1>b. /\ Loop(d).rc = "OK" <=> b = n + 1
      /\ Loop(d).out \in [1..Octets(b - 1) -> 0..255]
      /\ \A k \in 1..Octets(b - 1) : Loop(d).out[k] = Spelled(d, k)
      /\ Len(Loop(d).out) = Octets(b - 1) /\ Octets(b - 1) <= size
  BY <1>4, <1>5, <1>a, LoopEnds
<1>c. ASSUME b = n + 1, NEW k \in 1..size, NEW t \in 0..7
      PROVE  (Loop(d).out[k] \div Power[8 - t]) % 2 = bit(8 * (k - 1) + t)
  <2>1. n + 1 - 1 = n /\ k \in 1..Octets(n)
    BY <1>3, <1>5
  <2>2. \A i \in 1..n : d[i] \in Value
    BY <1>4, <1>c, <2>1 DEF Ends
  <2>3. Loop(d).out[k] = Spelled(d, k)
    BY <1>b, <1>c, <2>1
  <2> HIDE DEF d
  <2>4. (Spelled(d, k) \div Power[8 - t]) % 2 =
          (d[((8 * (k - 1) + t) \div 6) + 1] \div Power[6 - ((8 * (k - 1) + t) % 6)]) % 2
    BY ONLY <1>3, <2>1, <2>2, t \in 0..7, SpelledBits
  <2> QED BY <2>3, <2>4
<1>d. b = n + 1 => Octets(b - 1) = size
  <2>1. n + 1 - 1 = n
    BY <1>3
  <2> QED BY <1>5, <2>1
<1>e. n % 4 \in 0..3 /\ (L % 4 = 0 /\ L - n <= 2 /\ n <= L => (L - n # 0 => n % 4 = 4 - (L - n)))
  BY <1>3
<1>f. n <= L
  BY <1>2, <1>3
<1> HIDE DEF d, size, L, decoded, bit
<1>g. (d = text \/ (L % 4 = 0 /\ L - n <= 2)) <=> PaddingFits(text, d)
  <2>1. CASE n = L
    <3>1. L - n = 0
      BY <1>3, <2>1
    <3>2. L - n <= 2 /\ ~(L - n # 0)
      BY <3>1
    <3>3. PaddingFits(text, d)
      BY <1>8, <3>2
    <3> QED BY <1>6, <2>1, <3>3
  <2>2. CASE n # L
    <3>1. L - n # 0
      BY <1>3, <2>2
    <3> QED BY <1>6, <1>8, <1>e, <1>f, <2>2, <3>1
  <2> QED BY <2>1, <2>2
<1>h. good <=> b = n + 1 /\ n % 4 # 1 /\ PaddingFits(text, d) /\ L \div 4 <= IntMax \div 3 /\ size <= IntMax
  BY <1>9, <1>a, <1>g
<1>i. /\ ~(L \div 4 > IntMax \div 3) <=> L \div 4 <= IntMax \div 3
      /\ ~(size > IntMax) <=> size <= IntMax
      /\ ~(cap < size) <=> size <= cap
  BY <1>1, <1>3, <1>5
<1>j. Failed("NOMEM", <<>>).rc # "OK" /\ Failed("INVALID", <<>>).rc # "OK"
      /\ Len(Failed("NOMEM", <<>>).out) = 0 /\ Len(Failed("INVALID", <<>>).out) = 0
  BY DEF Failed
<1>k. (decoded.rc = "OK") = (good /\ size <= cap)
  <2>1. decoded.rc = "OK" <=> (good /\ size <= cap)
    <3> HIDE DEF good
    <3> QED BY <1>7, <1>a, <1>b, <1>h, <1>i, <1>j
  <2>2. (decoded.rc = "OK") \in BOOLEAN /\ (good /\ size <= cap) \in BOOLEAN
    OBVIOUS
  <2> QED BY <2>1, <2>2
<1>l. ASSUME decoded.rc = "OK"
      PROVE  /\ decoded.out \in [1..size -> 0..255]
             /\ \A m \in 1..size, k \in 0..7 : (decoded.out[m] \div Power[8 - k]) % 2 = bit(8 * (m - 1) + k)
  <2>1. b = n + 1
    BY <1>h, <1>k, <1>l
  <2>2. decoded.out = Loop(d).out
    BY <1>7, <1>j, <1>l
  <2>3. decoded.out \in [1..size -> 0..255]
    BY <1>b, <1>d, <2>1, <2>2
  <2> QED BY <1>c, <2>1, <2>2, <2>3
<1>m. Len(decoded.out) <= cap
  <2>1. Octets(b - 1) \in Nat
    BY <1>4, <1>a, <1>3, OctetsGrow DEF Ends
  <2>2. CASE decoded.out = Loop(d).out /\ size <= cap
    BY <1>1, <1>5, <1>b, <2>1, <2>2
  <2>3. CASE Len(decoded.out) = 0
    BY <1>1, <2>3
  <2> QED BY <1>7, <1>i, <1>j, <2>2, <2>3
<1> QED BY <1>1, <1>k, <1>l, <1>m DEF decoded

\* Three bytes are four digits.
LEMMA FourDigits ==
  ASSUME NEW x \in ByteValue, NEW y \in ByteValue, NEW z \in ByteValue,
         NEW chunk, chunk = x * 65536 + y * 256 + z
  PROVE  /\ chunk \div 262144 = x \div 4 /\ (chunk \div 4096) % 64 = (x % 4) * 16 + (y \div 16)
         /\ (chunk \div 64) % 64 = (y % 16) * 4 + (z \div 64) /\ chunk % 64 = z % 64
<1> USE DEF ByteValue
<1>1. chunk \div 262144 = x \div 4
  OBVIOUS
<1>2. (chunk \div 4096) % 64 = (x % 4) * 16 + (y \div 16)
  <2>1. chunk \div 4096 = x * 16 + (y \div 16)
    OBVIOUS
  <2>2. (x * 16 + (y \div 16)) % 64 = (x % 4) * 16 + (y \div 16)
    OBVIOUS
  <2> QED BY ONLY <2>1, <2>2
<1>3. (chunk \div 64) % 64 = (y % 16) * 4 + (z \div 64)
  OBVIOUS
<1>4. chunk % 64 = z % 64
  OBVIOUS
<1> QED BY <1>1, <1>2, <1>3, <1>4

LEMMA ThreeBytes ==
  ASSUME NEW x \in ByteValue, NEW y \in ByteValue, NEW z \in ByteValue
  PROVE  LET a == x \div 4
             b == (x % 4) * 16 + (y \div 16)
             c == (y % 16) * 4 + (z \div 64)
             e == z % 64
         IN /\ a \in Value /\ b \in Value /\ c \in Value /\ e \in Value
            /\ a * 4 + (b \div 16) = x /\ (b % 16) * 16 + (c \div 4) = y /\ (c % 4) * 64 + e = z
<1> USE DEF ByteValue, Value
<1> DEFINE a == x \div 4
           b == (x % 4) * 16 + (y \div 16)
           c == (y % 16) * 4 + (z \div 64)
           e == z % 64
<1>1. a \in Value /\ b \in Value /\ c \in Value /\ e \in Value
  OBVIOUS
<1>2. a * 4 + (b \div 16) = x
  OBVIOUS
<1>3. (b % 16) * 16 + (c \div 4) = y
  OBVIOUS
<1>4. (c % 4) * 64 + e = z
  OBVIOUS
<1> QED BY <1>1, <1>2, <1>3, <1>4

LEMMA ChunkIs ==
  ASSUME NEW in \in Seq(ByteValue), NEW i \in 1..Len(in)
  PROVE  LET x == in[i]
             y == IF i + 1 <= Len(in) THEN in[i + 1] ELSE 0
             z == IF i + 2 <= Len(in) THEN in[i + 2] ELSE 0
             chunk == Chunk(in, i)
         IN /\ x \in ByteValue /\ y \in ByteValue /\ z \in ByteValue
            /\ chunk[1] = x \div 4 /\ chunk[2] = (x % 4) * 16 + (y \div 16)
            /\ chunk[3] = IF i + 1 <= Len(in) THEN (y % 16) * 4 + (z \div 64) ELSE PadDigit
            /\ chunk[4] = IF i + 2 <= Len(in) THEN z % 64 ELSE PadDigit
<1> DEFINE x == in[i]
           y == IF i + 1 <= Len(in) THEN in[i + 1] ELSE 0
           z == IF i + 2 <= Len(in) THEN in[i + 2] ELSE 0
           number == x * 65536 + y * 256 + z
           digit == <<number \div 262144, (number \div 4096) % 64, (number \div 64) % 64, number % 64>>
<1>2. i <= Len(in) /\ i \in Nat /\ Len(in) \in Nat
  OBVIOUS
<1>1. x \in ByteValue /\ y \in ByteValue /\ z \in ByteValue
  <2>1. 0 \in ByteValue /\ \A j \in 1..Len(in) : in[j] \in ByteValue
    <3>1. 0 \in ByteValue
      BY DEF ByteValue
    <3>2. \A j \in 1..Len(in) : in[j] \in ByteValue
      BY ElementOfSeq
    <3> QED BY <3>1, <3>2
  <2>2. /\ i + 1 <= Len(in) => i + 1 \in 1..Len(in)
        /\ i + 2 <= Len(in) => i + 2 \in 1..Len(in)
    BY <1>2
  <2> QED BY <2>1, <2>2
<1>3. Chunk(in, i) = [n \in 1..4 |-> IF n <= 2 \/ i + n - 2 <= Len(in) THEN digit[n] ELSE PadDigit]
  <2>1. i <= Len(in)
    BY <1>2
  <2> QED BY <2>1 DEF Chunk
<1>4. /\ digit[1] = x \div 4 /\ digit[2] = (x % 4) * 16 + (y \div 16)
      /\ digit[3] = (y % 16) * 4 + (z \div 64) /\ digit[4] = z % 64
  <2> HIDE DEF x, y, z
  <2>1. /\ number \div 262144 = x \div 4 /\ (number \div 4096) % 64 = (x % 4) * 16 + (y \div 16)
        /\ (number \div 64) % 64 = (y % 16) * 4 + (z \div 64) /\ number % 64 = z % 64
    BY <1>1, FourDigits
  <2> HIDE DEF number
  <2> QED BY <2>1
<1> HIDE DEF x, y, z, digit
<1>5. i + 3 - 2 = i + 1 /\ i + 4 - 2 = i + 2
  BY <1>2
<1> QED BY <1>1, <1>3, <1>4, <1>5 DEF x, y, z

\* What is encoded, and how much of it is no padding.
Coded(in) ==
  [n \in 1..4 * ((Len(in) + 2) \div 3) |-> Chunk(in, 3 * ((n - 1) \div 4) + 1)[((n - 1) % 4) + 1]]
Bare(n) == 4 * (n \div 3) + <<0, 2, 3>>[(n % 3) + 1]

LEMMA Bares ==
  ASSUME NEW n \in Nat
  PROVE  LET c == (n + 2) \div 3 IN
         /\ Bare(n) \in Nat /\ c \in Nat /\ Bare(n) <= 4 * c /\ 4 * c - Bare(n) <= 2 /\ Bare(n) % 4 # 1
         /\ 4 * c # Bare(n) => Bare(n) % 4 = 4 - (4 * c - Bare(n))
         /\ Octets(Bare(n)) = n
         /\ \A p \in Nat : 4 * p + 1 <= 4 * c => 3 * p + 1 <= n /\ 4 * p + 2 <= Bare(n)
         /\ \A p \in Nat : 3 * p + 2 <= n <=> 4 * p + 3 <= Bare(n)
         /\ \A p \in Nat : 3 * p + 3 <= n <=> 4 * p + 4 <= Bare(n)
<1> DEFINE q == n \div 3
           c == (n + 2) \div 3
<1>1. q \in Nat /\ (n = 3 * q \/ n = 3 * q + 1 \/ n = 3 * q + 2)
  OBVIOUS
<1> HIDE DEF q
<1>2. CASE n = 3 * q
  <2>1. n % 3 = 0 /\ n \div 3 = q /\ c = q
    BY <1>1, <1>2
  <2>2. Bare(n) = 4 * q /\ Octets(4 * q) = n
    BY <1>1, <1>2, <2>1, Sizes DEF Bare
  <2> HIDE DEF c
  <2> QED BY <1>1, <1>2, <2>1, <2>2 DEF c
<1>3. CASE n = 3 * q + 1
  <2>1. n % 3 = 1 /\ n \div 3 = q /\ c = q + 1
    BY <1>1, <1>3
  <2>2. Bare(n) = 4 * q + 2 /\ Octets(4 * q + 2) = n
    BY <1>1, <1>3, <2>1, Sizes DEF Bare
  <2> HIDE DEF c
  <2> QED BY <1>1, <1>3, <2>1, <2>2 DEF c
<1>4. CASE n = 3 * q + 2
  <2>1. n % 3 = 2 /\ n \div 3 = q /\ c = q + 1
    BY <1>1, <1>4
  <2>2. Bare(n) = 4 * q + 3 /\ Octets(4 * q + 3) = n
    BY <1>1, <1>4, <2>1, Sizes DEF Bare
  <2> HIDE DEF c
  <2> QED BY <1>1, <1>4, <2>1, <2>2 DEF c
<1> QED BY <1>1, <1>2, <1>3, <1>4

LEMMA CodedIs ==
  ASSUME NEW in \in Seq(ByteValue)
  PROVE  /\ Coded(in) \in Seq(Symbol) /\ Len(Coded(in)) = 4 * ((Len(in) + 2) \div 3)
         /\ \A i \in 1..Bare(Len(in)) : Coded(in)[i] \in Value
         /\ \A i \in Bare(Len(in)) + 1..Len(Coded(in)) : Coded(in)[i] = PadDigit
         /\ \A k \in 1..Len(in) : Spelled(Coded(in), k) = in[k]
<1> DEFINE n == Len(in)
           c == (n + 2) \div 3
           e == Coded(in)
           x(p) == in[3 * p + 1]
           y(p) == IF 3 * p + 2 <= n THEN in[3 * p + 2] ELSE 0
           z(p) == IF 3 * p + 3 <= n THEN in[3 * p + 3] ELSE 0
<1>1. n \in Nat /\ c \in Nat
  OBVIOUS
<1>2. /\ Bare(n) \in Nat /\ Bare(n) <= 4 * c
      /\ \A p \in Nat : 4 * p + 1 <= 4 * c => 3 * p + 1 <= n /\ 4 * p + 2 <= Bare(n)
      /\ \A p \in Nat : 3 * p + 2 <= n <=> 4 * p + 3 <= Bare(n)
      /\ \A p \in Nat : 3 * p + 3 <= n <=> 4 * p + 4 <= Bare(n)
      /\ Octets(Bare(n)) = n
  BY <1>1, Bares
<1>e. e = [i \in 1..4 * c |-> Chunk(in, 3 * ((i - 1) \div 4) + 1)[((i - 1) % 4) + 1]]
  BY DEF Coded
<1> HIDE DEF n, c, e
<1>3. ASSUME NEW p \in Nat, 4 * p + 1 <= 4 * c
      PROVE  /\ x(p) \in ByteValue /\ y(p) \in ByteValue /\ z(p) \in ByteValue
             /\ e[4 * p + 1] = x(p) \div 4 /\ e[4 * p + 2] = (x(p) % 4) * 16 + (y(p) \div 16)
             /\ e[4 * p + 3] = IF 3 * p + 2 <= n THEN (y(p) % 16) * 4 + (z(p) \div 64) ELSE PadDigit
             /\ e[4 * p + 4] = IF 3 * p + 3 <= n THEN z(p) % 64 ELSE PadDigit
  <2> DEFINE i == 3 * p + 1
             chunk == Chunk(in, i)
  <2>1. i \in 1..n /\ i + 1 = 3 * p + 2 /\ i + 2 = 3 * p + 3
    BY <1>1, <1>2, <1>3
  <2>2. /\ x(p) \in ByteValue /\ y(p) \in ByteValue /\ z(p) \in ByteValue
        /\ chunk[1] = x(p) \div 4 /\ chunk[2] = (x(p) % 4) * 16 + (y(p) \div 16)
        /\ chunk[3] = IF 3 * p + 2 <= n THEN (y(p) % 16) * 4 + (z(p) \div 64) ELSE PadDigit
        /\ chunk[4] = IF 3 * p + 3 <= n THEN z(p) % 64 ELSE PadDigit
    <3> HIDE DEF i
    <3>1. LET xx == in[i]
              yy == IF i + 1 <= n THEN in[i + 1] ELSE 0
              zz == IF i + 2 <= n THEN in[i + 2] ELSE 0
          IN /\ xx \in ByteValue /\ yy \in ByteValue /\ zz \in ByteValue
             /\ chunk[1] = xx \div 4 /\ chunk[2] = (xx % 4) * 16 + (yy \div 16)
             /\ chunk[3] = IF i + 1 <= n THEN (yy % 16) * 4 + (zz \div 64) ELSE PadDigit
             /\ chunk[4] = IF i + 2 <= n THEN zz % 64 ELSE PadDigit
      BY <2>1, ChunkIs DEF n
    <3> HIDE DEF chunk
    <3>2. in[3 * p + 1] = in[i]
      BY DEF i
    <3> QED BY <2>1, <3>1, <3>2
  <2>3. ASSUME NEW m \in 1..4 PROVE e[4 * p + m] = chunk[m]
    <3>1. 4 * p + m \in 1..4 * c /\ (4 * p + m - 1) \div 4 = p /\ ((4 * p + m - 1) % 4) + 1 = m
      BY <1>1, <1>3
    <3> QED BY <1>e, <3>1
  <2> HIDE DEF chunk
  <2>4. e[4 * p + 1] = chunk[1] /\ e[4 * p + 2] = chunk[2] /\ e[4 * p + 3] = chunk[3] /\ e[4 * p + 4] = chunk[4]
    BY <2>3
  <2> HIDE DEF x, y, z, i
  <2> QED BY <2>2, <2>4
<1> HIDE DEF x, y, z
<1>4. ASSUME NEW p \in Nat, 4 * p + 1 <= 4 * c
      PROVE  /\ e[4 * p + 1] \in Value /\ e[4 * p + 2] \in Value
             /\ IF 3 * p + 2 <= n THEN e[4 * p + 3] \in Value ELSE e[4 * p + 3] = PadDigit
             /\ IF 3 * p + 3 <= n THEN e[4 * p + 4] \in Value ELSE e[4 * p + 4] = PadDigit
             /\ e[4 * p + 1] * 4 + (e[4 * p + 2] \div 16) = x(p)
             /\ 3 * p + 2 <= n => (e[4 * p + 2] % 16) * 16 + (e[4 * p + 3] \div 4) = y(p)
             /\ 3 * p + 3 <= n => (e[4 * p + 3] % 4) * 64 + e[4 * p + 4] = z(p)
  <2>1. /\ x(p) \in ByteValue /\ y(p) \in ByteValue /\ z(p) \in ByteValue
        /\ e[4 * p + 1] = x(p) \div 4 /\ e[4 * p + 2] = (x(p) % 4) * 16 + (y(p) \div 16)
        /\ e[4 * p + 3] = IF 3 * p + 2 <= n THEN (y(p) % 16) * 4 + (z(p) \div 64) ELSE PadDigit
        /\ e[4 * p + 4] = IF 3 * p + 3 <= n THEN z(p) % 64 ELSE PadDigit
    BY <1>3, <1>4
  <2>2. 3 * p + 3 <= n => 3 * p + 2 <= n
    BY <1>1
  <2>3. LET a == x(p) \div 4
            b == (x(p) % 4) * 16 + (y(p) \div 16)
            f == (y(p) % 16) * 4 + (z(p) \div 64)
            g == z(p) % 64
        IN /\ a \in Value /\ b \in Value /\ f \in Value /\ g \in Value
           /\ a * 4 + (b \div 16) = x(p) /\ (b % 16) * 16 + (f \div 4) = y(p) /\ (f % 4) * 64 + g = z(p)
    BY ONLY <2>1, ThreeBytes
  <2> QED BY <2>1, <2>2, <2>3
<1>5. ASSUME NEW i \in 1..4 * c
      PROVE  IF i <= Bare(n) THEN e[i] \in Value ELSE e[i] = PadDigit
  <2> DEFINE p == (i - 1) \div 4
  <2>1. p \in Nat /\ i \in {4 * p + 1, 4 * p + 2, 4 * p + 3, 4 * p + 4} /\ 4 * p + 1 <= 4 * c /\ i \in Nat
    BY <1>1
  <2> HIDE DEF p
  <2>2. /\ 4 * p + 2 <= Bare(n) /\ (3 * p + 2 <= n <=> 4 * p + 3 <= Bare(n))
        /\ (3 * p + 3 <= n <=> 4 * p + 4 <= Bare(n))
    BY <1>2, <2>1
  <2>3. CASE i = 4 * p + 1
    <3>1. i <= Bare(n)
      BY <1>2, <2>1, <2>2, <2>3
    <3> QED BY <1>4, <2>1, <2>3, <3>1
  <2>4. CASE i = 4 * p + 2
    BY <1>4, <2>1, <2>2, <2>4
  <2>5. CASE i = 4 * p + 3
    BY <1>4, <2>1, <2>2, <2>5
  <2>6. CASE i = 4 * p + 4
    BY <1>4, <2>1, <2>2, <2>6
  <2> QED BY <2>1, <2>3, <2>4, <2>5, <2>6
<1>6. e \in Seq(Symbol) /\ Len(e) = 4 * c
  <2>1. PadDigit \in Symbol /\ \A v \in Value : v \in Symbol
    BY DEF Symbol, Value, PadDigit
  <2>2. \A i \in 1..4 * c : e[i] \in Symbol
    BY <1>5, <2>1
  <2>3. e \in [1..4 * c -> Symbol] /\ 4 * c \in Nat
    BY <1>1, <1>e, <2>2
  <2> QED BY <2>3, Listed
<1>7. ASSUME NEW k \in 1..n PROVE Spelled(e, k) = in[k]
  <2>1. k \in 1..Octets(Bare(n))
    BY <1>2
  <2>2. PICK p \in Nat :
          \/ k = 3 * p + 1 /\ 4 * p + 2 <= Bare(n) /\ Spelled(e, k) = e[4 * p + 1] * 4 + (e[4 * p + 2] \div 16)
          \/ k = 3 * p + 2 /\ 4 * p + 3 <= Bare(n) /\ Spelled(e, k) = (e[4 * p + 2] % 16) * 16 + (e[4 * p + 3] \div 4)
          \/ k = 3 * p + 3 /\ 4 * p + 4 <= Bare(n) /\ Spelled(e, k) = (e[4 * p + 3] % 4) * 64 + e[4 * p + 4]
    BY <1>2, <2>1, Places
  <2>3. 4 * p + 1 <= 4 * c /\ k \in Nat /\ k <= n
    BY <1>1, <1>2, <2>2
  <2>4. /\ e[4 * p + 1] * 4 + (e[4 * p + 2] \div 16) = x(p)
        /\ 3 * p + 2 <= n => (e[4 * p + 2] % 16) * 16 + (e[4 * p + 3] \div 4) = y(p)
        /\ 3 * p + 3 <= n => (e[4 * p + 3] % 4) * 64 + e[4 * p + 4] = z(p)
    BY <1>4, <2>3
  <2>5. x(p) = in[3 * p + 1] /\ (3 * p + 2 <= n => y(p) = in[3 * p + 2]) /\ (3 * p + 3 <= n => z(p) = in[3 * p + 3])
    BY DEF x, y, z
  <2> QED BY <2>2, <2>3, <2>4, <2>5
<1>8. \A i \in 1..Bare(n) : e[i] \in Value
  <2> TAKE i \in 1..Bare(n)
  <2>1. i \in 1..4 * c /\ i <= Bare(n)
    BY <1>1, <1>2
  <2> QED BY <1>5, <2>1
<1>9. \A i \in Bare(n) + 1..Len(e) : e[i] = PadDigit
  <2> TAKE i \in Bare(n) + 1..Len(e)
  <2>1. i \in 1..4 * c /\ ~(i <= Bare(n))
    BY <1>1, <1>2, <1>6
  <2> QED BY <1>5, <2>1
<1> QED BY <1>6, <1>7, <1>8, <1>9 DEF n, c, e

LEMMA SpelledSame ==
  ASSUME NEW d, NEW e, NEW n \in Nat, \A i \in 1..n : d[i] = e[i], NEW k \in 1..Octets(n)
  PROVE  Spelled(d, k) = Spelled(e, k)
<1>1. PICK p \in Nat :
        \/ k = 3 * p + 1 /\ 4 * p + 2 <= n /\ Spelled(d, k) = d[4 * p + 1] * 4 + (d[4 * p + 2] \div 16)
        \/ k = 3 * p + 2 /\ 4 * p + 3 <= n /\ Spelled(d, k) = (d[4 * p + 2] % 16) * 16 + (d[4 * p + 3] \div 4)
        \/ k = 3 * p + 3 /\ 4 * p + 4 <= n /\ Spelled(d, k) = (d[4 * p + 3] % 4) * 64 + d[4 * p + 4]
  BY Places
<1>2. PICK q \in Nat :
        \/ k = 3 * q + 1 /\ 4 * q + 2 <= n /\ Spelled(e, k) = e[4 * q + 1] * 4 + (e[4 * q + 2] \div 16)
        \/ k = 3 * q + 2 /\ 4 * q + 3 <= n /\ Spelled(e, k) = (e[4 * q + 2] % 16) * 16 + (e[4 * q + 3] \div 4)
        \/ k = 3 * q + 3 /\ 4 * q + 4 <= n /\ Spelled(e, k) = (e[4 * q + 3] % 4) * 64 + e[4 * q + 4]
  BY Places
<1>3. p = q
  BY <1>1, <1>2
<1>4. CASE k = 3 * p + 1
  <2>1. 4 * p + 1 \in 1..n /\ 4 * p + 2 \in 1..n /\ k # 3 * p + 2 /\ k # 3 * p + 3
    BY <1>1, <1>4
  <2> QED BY <1>1, <1>2, <1>3, <2>1
<1>5. CASE k = 3 * p + 2
  <2>1. 4 * p + 2 \in 1..n /\ 4 * p + 3 \in 1..n /\ k # 3 * p + 1 /\ k # 3 * p + 3
    BY <1>1, <1>5
  <2> QED BY <1>1, <1>2, <1>3, <2>1
<1>6. CASE k = 3 * p + 3
  <2>1. 4 * p + 3 \in 1..n /\ 4 * p + 4 \in 1..n /\ k # 3 * p + 1 /\ k # 3 * p + 2
    BY <1>1, <1>6
  <2> QED BY <1>1, <1>2, <1>3, <2>1
<1> QED BY <1>1, <1>4, <1>5, <1>6

\* What was encoded is decoded to the bytes, with its padding or without.
LEMMA CodedDecodes ==
  ASSUME NEW in \in Seq(ByteValue), IntMax \in Nat, Len(in) <= 3 * (IntMax \div 4)
  PROVE  /\ Base64Decode(Coded(in), Len(in)) = Done(in)
         /\ Base64Decode(Unpadded(Coded(in)), Len(in)) = Done(in)
<1> DEFINE n == Len(in)
           c == (n + 2) \div 3
           m == Bare(n)
           e == Coded(in)
           d == SubSeq(e, 1, m)
<1>1. n \in Nat /\ c \in Nat
  OBVIOUS
<1>2. /\ m \in Nat /\ m <= 4 * c /\ 4 * c - m <= 2 /\ m % 4 # 1
      /\ 4 * c # m => m % 4 = 4 - (4 * c - m)
      /\ Octets(m) = n
  BY <1>1, Bares
<1>3. /\ e \in Seq(Symbol) /\ Len(e) = 4 * c
      /\ \A i \in 1..m : e[i] \in Value
      /\ \A i \in m + 1..Len(e) : e[i] = PadDigit
      /\ \A k \in 1..n : Spelled(e, k) = in[k]
  BY CodedIs
<1>4. c <= IntMax \div 4 /\ c <= IntMax \div 3 /\ n <= IntMax
  BY <1>1
<1> HIDE DEF n, c, m, e
<1>5. d \in Seq(Symbol) /\ Len(d) = m /\ \A i \in 1..m : d[i] = e[i]
  BY <1>1, <1>2, <1>3
<1>6. Unpadded(e) = d
  <2>1. m = 0 \/ e[m] # PadDigit
    <3>1. m # 0 => m \in 1..m
      BY <1>2
    <3>2. \A v \in Value : v # PadDigit
      BY DEF Value, PadDigit
    <3> QED BY <1>3, <3>1, <3>2
  <2>2. m \in 0..Len(e)
    BY <1>1, <1>2, <1>3
  <2> HIDE DEF d
  <2> QED BY <1>3, <2>1, <2>2, UnpaddedOf DEF d
<1> HIDE DEF d
<1>7. Unpadded(d) = d
  <2>1. m = 0 \/ d[m] # PadDigit
    <3>1. m # 0 => m \in 1..m
      BY <1>2
    <3>2. \A v \in Value : v # PadDigit
      BY DEF Value, PadDigit
    <3> QED BY <1>3, <1>5, <3>1, <3>2
  <2>2. m \in 0..Len(d) /\ \A i \in m + 1..Len(d) : d[i] = PadDigit
    BY <1>2, <1>5
  <2>3. Unpadded(d) = SubSeq(d, 1, m)
    BY <1>5, <2>1, <2>2, UnpaddedOf
  <2>4. SubSeq(d, 1, m) = d
    BY <1>5
  <2> QED BY <2>3, <2>4
<1>8. Ends(d, m + 1)
  <2>1. m + 1 \in 1..Len(d) + 1 /\ ~(m + 1 <= Len(d)) /\ m + 1 - 1 = m
    BY <1>2, <1>5
  <2> QED BY <1>3, <1>5, <2>1 DEF Ends
<1>9. Loop(d).rc = "OK" /\ Loop(d).out = in
  <2> DEFINE b == m + 1
             f == Loop(d).out
  <2>1. b - 1 = m /\ b = Len(d) + 1
    BY <1>2, <1>5
  <2>2. Ends(d, b)
    BY <1>8
  <2>3. /\ Loop(d).rc = "OK" <=> b = Len(d) + 1
        /\ f \in [1..Octets(b - 1) -> 0..255]
        /\ \A k \in 1..Octets(b - 1) : f[k] = Spelled(d, k)
    <3> HIDE DEF b
    <3> QED BY <1>5, <2>2, LoopEnds
  <2>4. \A k \in 1..n : Spelled(d, k) = Spelled(e, k)
    BY <1>2, <1>5, SpelledSame
  <2>5. in \in [1..n -> ByteValue]
    BY DEF n
  <2>6. Octets(b - 1) = n
    BY <1>2, <2>1
  <2> HIDE DEF b, f
  <2>7. f = in
    <3>1. f \in [1..n -> 0..255]
      BY <2>3, <2>6
    <3>2. \A k \in 1..n : f[k] = in[k]
      BY <1>3, <2>3, <2>4, <2>6
    <3>3. f = [k \in 1..n |-> f[k]]
      BY <3>1, Zenon
    <3>4. in = [k \in 1..n |-> in[k]]
      BY <2>5, Zenon
    <3>5. [k \in 1..n |-> f[k]] = [k \in 1..n |-> in[k]]
      BY <3>2, Zenon
    <3> QED BY <3>3, <3>4, <3>5, Zenon
  <2> QED BY <2>1, <2>3, <2>7 DEF f
<1>a. ASSUME NEW t, Unpadded(t) = d, Len(t) = 4 * c \/ Len(t) = m
      PROVE  Base64Decode(t, n) = Done(in)
  <2>1. Base64Decode(t, n) =
          IF Len(t) \div 4 > IntMax \div 3 THEN Failed("NOMEM", <<>>)
          ELSE IF ~PaddingFits(t, d) \/ Len(d) % 4 = 1 THEN Failed("INVALID", <<>>)
          ELSE IF Room(d) > IntMax \/ n < Room(d) THEN Failed("NOMEM", <<>>)
          ELSE [rc |-> Loop(d).rc, out |-> Loop(d).out]
    BY <1>a, DecodeIs
  <2>2. ~(Len(t) \div 4 > IntMax \div 3)
    <3> DEFINE q == Len(t) \div 4
               third == IntMax \div 3
    <3>1. q <= c /\ q \in Nat /\ third \in Nat
      BY <1>1, <1>2, <1>a
    <3> HIDE DEF q
    <3>2. c <= third
      BY <1>4
    <3> HIDE DEF third
    <3> QED BY <1>1, <3>1, <3>2 DEF q, third
  <2>3. PaddingFits(t, d)
    <3>1. Len(t) - Len(d) = 4 * c - m \/ Len(t) - Len(d) = 0
      BY <1>1, <1>2, <1>5, <1>a
    <3>2. Len(t) - Len(d) # 0 => Len(t) = 4 * c /\ (4 * c) % 4 = 0 /\ 4 * c # m /\ Len(t) - Len(d) = 4 * c - m
      BY <1>1, <1>2, <1>5, <1>a
    <3>3. Len(t) - Len(d) <= 2
      BY <1>1, <1>2, <3>1
    <3> QED BY <1>2, <1>5, <3>2, <3>3 DEF PaddingFits
  <2>4. Room(d) = n
    BY <1>2, <1>5 DEF Room, Octets
  <2>5. ~(n > IntMax) /\ ~(n < n)
    BY <1>1, <1>4
  <2> QED BY <1>2, <1>5, <1>9, <2>1, <2>2, <2>3, <2>4, <2>5 DEF Done
<1> QED BY <1>3, <1>5, <1>6, <1>7, <1>a DEF n, e

\* Base64ComesBack and HexComesBack, of the bytes at hand.
LEMMA Base64Round ==
  ASSUME rows \in Seq(ByteValue), Caps \subseteq Nat, IntMax \in Nat
  PROVE  Base64ComesBack
<1> DEFINE n == Len(rows)
           size == 4 * ((n + 2) \div 3)
<1>1. n \in Nat /\ size \in Nat
  OBVIOUS
<1>2. \A cap : Base64Encode(rows, cap) =
                 IF n > 3 * (IntMax \div 4) \/ cap < size + 1 THEN Failed("NOMEM", <<>>) ELSE Done(Coded(rows))
  BY DEF Base64Encode, Coded
<1>3. ~(n > 3 * (IntMax \div 4)) <=> n <= 3 * (IntMax \div 4)
  BY <1>1
<1>4. ~(n > 3 * (IntMax \div 4)) <=> size <= IntMax
  <2> DEFINE c == (n + 2) \div 3
             h == IntMax \div 4
  <2>1. c \in Nat /\ h \in Nat /\ n <= 3 * c /\ 3 * c <= n + 2 /\ 4 * h <= IntMax /\ IntMax < 4 * h + 4
    BY <1>1
  <2> HIDE DEF c, h
  <2>2. ~(n > 3 * h) <=> 4 * c <= IntMax
    BY <1>1, <2>1
  <2> QED BY <2>2 DEF c, h
<1> HIDE DEF size, n
<1>5. ~(size + 1 < size + 1) /\ \A cap \in Nat : cap < size + 1 <=> ~(size < cap)
  BY <1>1
<1>6. Base64Encode(rows, size + 1).rc = "OK" => Base64Encode(rows, size + 1) = Done(Coded(rows)) /\ n <= 3 * (IntMax \div 4)
  BY <1>2, <1>3, <1>5 DEF Failed
<1>7. Base64Encode(rows, size + 1).rc = "OK" =>
        /\ Base64Decode(Base64Encode(rows, size + 1).out, n) = Done(rows)
        /\ Base64Decode(Unpadded(Base64Encode(rows, size + 1).out), n) = Done(rows)
  <2>1. Done(Coded(rows)).out = Coded(rows)
    BY DEF Done
  <2>2. n <= 3 * (IntMax \div 4) => /\ Base64Decode(Coded(rows), n) = Done(rows)
                                   /\ Base64Decode(Unpadded(Coded(rows)), n) = Done(rows)
    BY CodedDecodes DEF n
  <2> QED BY <1>6, <2>1, <2>2
<1>8. \A cap \in Caps : Base64Encode(rows, cap) =
        IF size < cap /\ size <= IntMax THEN Base64Encode(rows, size + 1) ELSE Failed("NOMEM", <<>>)
  <2> TAKE cap \in Caps
  <2>1. cap < size + 1 <=> ~(size < cap)
    BY <1>5
  <2> QED BY <1>2, <1>4, <1>5, <2>1
<1> QED BY <1>7, <1>8 DEF Base64ComesBack, size, n

LEMMA HexComesBackHolds ==
  ASSUME rows \in Seq(ByteValue), Caps \subseteq Nat, IntMax \in Nat
  PROVE  HexComesBack
<1> DEFINE n == Len(rows)
           size == 2 * n
           hex == [i \in 1..(2 * Len(rows)) |-> LET b == rows[(i + 1) \div 2] IN
                                               IF i % 2 = 1 THEN b \div 16 ELSE b % 16]
<1>1. n \in Nat /\ size \in Nat /\ size + 1 \in Nat
  OBVIOUS
<1>2. \A cap : HexEncode(rows, cap) =
        IF n > IntMax \div 2 \/ cap = 0 \/ n > (cap - 1) \div 2 THEN Failed("NOMEM", <<>>) ELSE Done(hex)
  BY DEF HexEncode
<1>3. ~(n > IntMax \div 2) <=> size <= IntMax
  BY <1>1
<1>4. \A cap \in Nat : (cap = 0 \/ n > (cap - 1) \div 2) <=> ~(size < cap)
  BY <1>1
<1> HIDE DEF hex, n
<1>5. size < size + 1
  BY <1>1
<1> HIDE DEF size
<1>6. HexEncode(rows, size + 1).rc = "OK" => HexDecode(HexEncode(rows, size + 1).out, n) = Done(rows)
  BY <1>1, HexRound DEF n
<1>7. HexEncode(rows, size + 1) = IF n > IntMax \div 2 THEN Failed("NOMEM", <<>>) ELSE Done(hex)
  <2> DEFINE big == size + 1
  <2>1. big \in Nat /\ size < big
    BY <1>1, <1>5
  <2> HIDE DEF big
  <2>2. ~(big = 0 \/ n > (big - 1) \div 2)
    BY <1>4, <2>1
  <2>3. HexEncode(rows, big) = IF n > IntMax \div 2 THEN Failed("NOMEM", <<>>) ELSE Done(hex)
    BY <1>2, <2>2
  <2> QED BY <2>3 DEF big
<1>8. \A cap \in Caps : HexEncode(rows, cap) =
        IF size < cap /\ size <= IntMax THEN HexEncode(rows, size + 1) ELSE Failed("NOMEM", <<>>)
  <2> TAKE cap \in Caps
  <2>1. cap \in Nat
    OBVIOUS
  <2>2. (cap = 0 \/ n > (cap - 1) \div 2) <=> ~(size < cap)
    BY <1>4, <2>1
  <2>3. CASE size < cap /\ size <= IntMax
    <3>1. HexEncode(rows, cap) = Done(hex)
      BY <1>2, <1>3, <2>2, <2>3
    <3> QED BY <1>3, <1>7, <2>3, <3>1
  <2>4. CASE ~(size < cap /\ size <= IntMax)
    BY <1>2, <1>3, <2>2, <2>4
  <2> QED BY <2>3, <2>4
<1> QED BY <1>6, <1>8 DEF HexComesBack, size, n

-----------------------------------------------------------------------------
CodecTypes == text \in Seq(Symbol) /\ rows \in Seq(ByteValue)

\* What is encoded comes back, and a text is read as the bytes its bits spell
\* or refused, within every buffer: of src/codec.c, for texts and bytes of any
\* length.
THEOREM BytesAreKeptHolds ==
  ASSUME CodecAssumption
  PROVE  CodecSpec => []BytesAreKept
<1>1. CodecInit => CodecTypes
  BY DEF CodecInit, CodecTypes
<1>2. CodecTypes /\ [CodecNext]_codecVars => CodecTypes'
  <2> SUFFICES ASSUME CodecTypes, [CodecNext]_codecVars PROVE CodecTypes'
    OBVIOUS
  <2> USE DEF CodecTypes
  <2>1. CASE GrowText
    <3>1. Digits \cup {PadDigit, BadDigit} \subseteq Symbol
      BY DEF CodecAssumption, PadDigit, BadDigit, Symbol
    <3> QED BY <2>1, <3>1 DEF GrowText
  <2>2. CASE GrowRows
    <3>1. Bytes \subseteq ByteValue
      BY DEF CodecAssumption, ByteValue
    <3> QED BY <2>2, <3>1 DEF GrowRows
  <2>3. CASE UNCHANGED codecVars
    BY <2>3 DEF codecVars
  <2> QED BY <2>1, <2>2, <2>3 DEF CodecNext
<1>3. CodecTypes => BytesAreKept
  BY HexComesBackHolds, Base64Round, TextsAreBytes DEF CodecTypes, CodecAssumption, BytesAreKept
<1> QED BY <1>1, <1>2, <1>3, PTL DEF CodecSpec
-----------------------------------------------------------------------------
(* What a device connects with (Connection). *)
CONSTANTS PortMax, DefaultPort, SchemeCap, HostCap, PathCap, PrefixCap, TopicCap,
          Pieces, MaxPieces, MaxOdd
Conn == INSTANCE Connection

\* What holds of the first number and of each after one it holds of, holds of all.
LEMMA Climb ==
  ASSUME NEW m \in Nat, NEW n \in Nat, NEW S, m \in S,
         \A k \in m + 1..n : k - 1 \in S => k \in S
  PROVE  m..n \subseteq S
<1> DEFINE T == {k \in m..n : k \notin S}
<1> SUFFICES ASSUME T # {} PROVE FALSE
  OBVIOUS
<1>1. T \subseteq Nat
  OBVIOUS
<1>2. PICK k \in T : \A j \in T : k <= j
  <2> HIDE DEF T
  <2> QED BY <1>1, NatMin
<1>3. k # m /\ k \in m..n /\ k \notin S
  BY <1>2
<1>4. k \in m + 1..n /\ k - 1 \in m..n /\ ~(k <= k - 1)
  BY <1>3
<1>5. k - 1 \notin T
  <2> HIDE DEF T
  <2> QED BY <1>2, <1>4
<1>6. k - 1 \in S
  BY <1>4, <1>5
<1> QED BY <1>3, <1>4, <1>6

\* A loop of n turns has a meaning: F is what a turn makes of a value.
Runs(F, a, m, g) == g[0] = a /\ \A k \in 1..m : g[k] = F[<<g[k - 1], k>>]
LEMMA LoopRuns ==
  ASSUME NEW V, NEW a \in V, NEW n \in Nat, NEW F \in [V \X (1..n) -> V]
  PROVE  \E g \in [0..n -> V] : Runs(F, a, n, g)
<1> DEFINE S == {m \in 0..n : \E g \in [0..m -> V] : Runs(F, a, m, g)}
<1>1. 0 \in S
  <2> DEFINE g == [k \in 0..0 |-> a]
  <2>1. g \in [0..0 -> V] /\ Runs(F, a, 0, g) /\ 0 \in 0..n
    BY DEF Runs
  <2> HIDE DEF g
  <2> QED BY <2>1
<1>2. ASSUME NEW m \in 0 + 1..n, m - 1 \in S PROVE m \in S
  <2>1. PICK g \in [0..m - 1 -> V] : Runs(F, a, m - 1, g)
    BY <1>2
  <2> DEFINE h == [k \in 0..m |-> IF k = m THEN F[<<g[m - 1], m>>] ELSE g[k]]
  <2>2. g[m - 1] \in V /\ m \in 1..n /\ m - 1 \in 0..m - 1
    BY <1>2
  <2>3. F[<<g[m - 1], m>>] \in V
    BY <2>2
  <2>4. h \in [0..m -> V]
    BY <1>2, <2>3
  <2>5. ASSUME NEW k \in 1..m PROVE h[k] = F[<<h[k - 1], k>>]
    <3>1. k - 1 \in 0..m /\ k - 1 # m /\ k \in 0..m
      BY <1>2
    <3>2. h[k - 1] = g[k - 1]
      BY <3>1
    <3>3. CASE k = m
      BY <3>1, <3>2, <3>3
    <3>4. CASE k # m
      <4>1. k \in 1..m - 1
        BY <1>2, <3>4
      <4> QED BY <2>1, <3>1, <3>2, <3>4, <4>1 DEF Runs
    <3> QED BY <3>3, <3>4
  <2>6. h[0] = a
    BY <1>2, <2>1 DEF Runs
  <2>7. Runs(F, a, m, h) /\ m \in 0..n
    <3> HIDE DEF h
    <3> QED BY <1>2, <2>5, <2>6 DEF Runs
  <2> HIDE DEF h
  <2> QED BY <2>4, <2>7
<1>3. 0..n \subseteq S
  <2> HIDE DEF S
  <2> QED BY <1>1, <1>2, Climb
<1>4. n \in S
  BY <1>3
<1> QED BY <1>4

\* Text put together of texts is a text.
LEMMA AddressIs ==
  ASSUME NEW S0, NEW t \in Seq(Seq(S0))
  PROVE  Conn!FlattenSeq(t) \in Seq(S0)
<1> DEFINE V == Seq(S0)
           n == Len(t)
           Turn(f, k) == IF k = 1 THEN t[k] ELSE f[k - 1] \o t[k]
           Is(f) == f = [k \in 1..n |-> Turn(f, k)]
           flat == CHOOSE f : Is(f)
           F == [x \in V \X (1..n) |-> x[1] \o t[x[2]]]
<1>1. CASE n = 0
  <2>1. Conn!FlattenSeq(t) = t /\ t = <<>>
    BY <1>1 DEF Conn!FlattenSeq
  <2> QED BY <2>1
<1>2. CASE n # 0
  <2>1. n \in Nat /\ 1 \in 1..n /\ \A k \in 1..n : t[k] \in V
    BY <1>2
  <2>2. F \in [V \X (1..n) -> V]
    <3>1. \A x \in V \X (1..n) : x[1] \o t[x[2]] \in V
      BY <2>1
    <3> QED BY <3>1
  <2>3. PICK g \in [0..n -> V] : g[0] = <<>> /\ \A k \in 1..n : g[k] = F[<<g[k - 1], k>>]
    <3>1. <<>> \in V
      OBVIOUS
    <3> HIDE DEF V, F, n
    <3>2. \E g \in [0..n -> V] : Runs(F, <<>>, n, g)
      BY <2>1, <2>2, <3>1, LoopRuns, Zenon
    <3> QED BY <3>2, Zenon DEF Runs
  <2>4. ASSUME NEW k \in 1..n PROVE g[k] = g[k - 1] \o t[k] /\ g[k - 1] \in V
    <3>0. k - 1 \in 0..n
      <4> HIDE DEF n, V
      <4> QED BY <2>1
    <3>1. k - 1 \in 0..n /\ <<g[k - 1], k>> \in V \X (1..n)
      <4> HIDE DEF n, V
      <4> QED BY <2>3, <3>0
    <3>2. F[<<g[k - 1], k>>] = g[k - 1] \o t[k]
      <4> HIDE DEF V, n
      <4> QED BY <3>1
    <3> HIDE DEF F
    <3> QED BY <2>3, <3>1, <3>2
  <2>5. g[1] = t[1]
    <3>1. g[1] = <<>> \o t[1] /\ t[1] \in V
      <4>1. g[1] = g[1 - 1] \o t[1]
        BY <2>1, <2>4
      <4>2. 1 - 1 = 0
        OBVIOUS
      <4> HIDE DEF V, n
      <4> QED BY <2>1, <2>3, <4>1, <4>2
    <3> QED BY <3>1
  <2> DEFINE h == [k \in 1..n |-> g[k]]
  <2>6. Is(h)
    <3>1. ASSUME NEW k \in 1..n PROVE h[k] = Turn(h, k)
      <4>1. k # 1 => k - 1 \in 1..n
        BY <2>1
      <4>2. k # 1 => h[k - 1] = g[k - 1]
        BY <4>1
      <4> HIDE DEF V, n
      <4> QED BY <2>4, <2>5, <4>2
    <3> DEFINE q == [k \in 1..n |-> Turn(h, k)]
    <3>2. h = q
      <4>1. \A k \in 1..n : g[k] = Turn(h, k)
        BY <3>1
      <4> QED BY <4>1
    <3> HIDE DEF h
    <3> QED BY <3>2
  <2>7. Is(flat)
    <3> HIDE DEF h, Is
    <3> QED BY <2>6
  <2>8. \A k \in 1..n : flat[k] = Turn(flat, k)
    <3> HIDE DEF flat
    <3>1. flat = [k \in 1..n |-> Turn(flat, k)]
      BY <2>7
    <3> QED BY <3>1
  <2>9. Conn!FlattenSeq(t) = flat[n]
    BY <1>2 DEF Conn!FlattenSeq
  <2> DEFINE S == {k \in 1..n : flat[k] \in V}
  <2> HIDE DEF flat, V
  <2>10. 1 \in S
    BY <2>1, <2>8
  <2>11. ASSUME NEW k \in 1 + 1..n, k - 1 \in S PROVE k \in S
    <3>0. k \in 1..n /\ k # 1
      <4> HIDE DEF n
      <4> QED BY <2>1
    <3>1. k \in 1..n /\ flat[k] = flat[k - 1] \o t[k] /\ flat[k - 1] \in V /\ t[k] \in V
      <4> HIDE DEF n
      <4> QED BY <2>1, <2>8, <2>11, <3>0
    <3>2. flat[k] \in V
      BY <3>1 DEF V
    <3> QED BY <3>1, <3>2
  <2>12. 1..n \subseteq S
    <3> HIDE DEF S
    <3> QED BY <2>1, <2>10, <2>11, Climb
  <2>13. flat[n] \in V
    BY <2>1, <2>12
  <2> QED BY <2>9, <2>13 DEF V
<1> QED BY <1>1, <1>2

\* A part of a text.
LEMMA PartIs ==
  ASSUME NEW S, NEW s \in Seq(S), NEW a \in Nat \ {0}, NEW b \in Nat, a <= b + 1, b <= Len(s)
  PROVE  /\ SubSeq(s, a, b) \in Seq(S) /\ Len(SubSeq(s, a, b)) = b - a + 1
         /\ \A i \in 1..b - a + 1 : SubSeq(s, a, b)[i] = s[a + i - 1]
<1>1. \A i \in a..b : s[i] \in S
  OBVIOUS
<1> QED BY <1>1, SubSeqProperties

\* Texts with the same symbols are the same.
LEMMA SameText ==
  ASSUME NEW S, NEW s \in Seq(S), NEW t \in Seq(S), Len(s) = Len(t), \A i \in 1..Len(s) : s[i] = t[i]
  PROVE  s = t
BY SeqEqual

LEMMA MinIs ==
  ASSUME NEW T, T \subseteq Nat, T # {}
  PROVE  Conn!Min(T) \in T /\ \A y \in T : Conn!Min(T) <= y
BY NatMin DEF Conn!Min

LEMMA MaxIs ==
  ASSUME NEW n \in Nat, NEW T, T \subseteq 1..n, T # {}
  PROVE  Conn!Max(T) \in T /\ \A y \in T : Conn!Max(T) >= y
<1> DEFINE U == {n - x : x \in T}
<1>1. U \subseteq Nat /\ U # {} /\ \A x \in T : n - x \in U /\ x \in Nat
  <2>1. \A x \in T : x \in 1..n
    OBVIOUS
  <2>2. \A x \in T : n - x \in Nat /\ x \in Nat
    BY <2>1
  <2> QED BY <2>2
<1>2. PICK u \in U : \A y \in U : u <= y
  <2> HIDE DEF U
  <2> QED BY <1>1, NatMin
<1>3. PICK x \in T : u = n - x
  BY <1>2
<1>4. ASSUME NEW y \in T PROVE x >= y
  <2>1. n - x <= n - y /\ x \in Nat /\ y \in Nat
    <3> HIDE DEF U
    <3> QED BY <1>1, <1>2, <1>3
  <2> QED BY <2>1
<1> QED BY <1>3, <1>4 DEF Conn!Max

\* What is trimmed at both ends.
Trims(s, c, a, b) ==
  /\ a \in 1..Len(s) /\ b \in 1..Len(s) /\ a <= b
  /\ Conn!Trim(s, c) = SubSeq(s, a, b) /\ s[a] # c /\ s[b] # c
  /\ \A i \in 1..Len(s) : i < a \/ i > b => s[i] = c
LEMMA TrimIs ==
  ASSUME NEW S, NEW s \in Seq(S), NEW c, Conn!Trim(s, c) # <<>>
  PROVE  \E a, b \in 1..Len(s) : Trims(s, c, a, b)
<1> DEFINE kept == {i \in 1..Len(s) : s[i] # c}
           a == Conn!Min(kept)
           b == Conn!Max(kept)
<1>1. kept # {} /\ Conn!Trim(s, c) = SubSeq(s, a, b)
  BY DEF Conn!Trim
<1>2. kept \subseteq Nat /\ kept \subseteq 1..Len(s) /\ Len(s) \in Nat
  OBVIOUS
<1>3. a \in kept /\ \A y \in kept : a <= y
  <2> HIDE DEF kept
  <2> QED BY <1>1, <1>2, MinIs
<1>4. b \in kept /\ \A y \in kept : b >= y
  <2> HIDE DEF kept
  <2> QED BY <1>1, <1>2, MaxIs
<1>5. a \in 1..Len(s) /\ b \in 1..Len(s) /\ s[a] # c /\ s[b] # c /\ a <= b
  <2> HIDE DEF a, b
  <2> QED BY <1>3, <1>4
<1>6. ASSUME NEW i \in 1..Len(s), i < a \/ i > b PROVE s[i] = c
  <2>1. i \notin kept
    <3> HIDE DEF a, b, kept
    <3> QED BY <1>2, <1>3, <1>4, <1>6
  <2> QED BY <2>1
<1> HIDE DEF a, b, kept
<1> QED BY <1>1, <1>5, <1>6 DEF Trims

\* What is left of a text is a part of it, and how far in.
Left(s, c, t, a) ==
  /\ Len(t) \in Nat \ {0} /\ a + Len(t) <= Len(s)
  /\ \A i \in 1..Len(t) : t[i] = s[a + i]
  /\ t[1] # c /\ t[Len(t)] # c
  /\ \A i \in 1..Len(s) : i <= a \/ i > a + Len(t) => s[i] = c
LEMMA TrimmedIs ==
  ASSUME NEW S, NEW s \in Seq(S), NEW c, Conn!Trim(s, c) # <<>>
  PROVE  Conn!Trim(s, c) \in Seq(S) /\ \E a \in Nat : Left(s, c, Conn!Trim(s, c), a)
<1> DEFINE t == Conn!Trim(s, c)
<1> HIDE DEF t
<1>1. PICK a, b \in 1..Len(s) : Trims(s, c, a, b)
  BY TrimIs DEF t
<1>2. /\ a \in Nat \ {0} /\ b \in Nat /\ a <= b /\ b <= Len(s) /\ t = SubSeq(s, a, b)
      /\ s[a] # c /\ s[b] # c
      /\ \A i \in 1..Len(s) : i < a \/ i > b => s[i] = c
  BY <1>1 DEF Trims, t
<1>3. /\ t \in Seq(S) /\ Len(t) = b - a + 1 /\ \A i \in 1..b - a + 1 : t[i] = s[a + i - 1]
  <2>1. a <= b + 1
    BY <1>2
  <2> QED BY <1>2, <2>1, PartIs
<1>4. a - 1 \in Nat /\ a - 1 + Len(t) = b /\ Len(t) \in Nat \ {0}
  BY <1>2, <1>3
<1>5. \A i \in 1..Len(t) : t[i] = s[a - 1 + i]
  <2> TAKE i \in 1..Len(t)
  <2>1. i \in 1..b - a + 1 /\ a + i - 1 = a - 1 + i
    BY <1>2, <1>3
  <2> QED BY <1>3, <2>1
<1>6. t[1] # c /\ t[Len(t)] # c
  <2>1. 1 \in 1..Len(t) /\ Len(t) \in 1..Len(t) /\ a - 1 + 1 = a
    BY <1>2, <1>4
  <2>2. t[1] = s[a] /\ t[Len(t)] = s[b]
    BY <1>4, <1>5, <2>1
  <2> QED BY <1>2, <2>2
<1>7. \A i \in 1..Len(s) : i <= a - 1 \/ i > a - 1 + Len(t) => s[i] = c
  <2> TAKE i \in 1..Len(s)
  <2>1. (i <= a - 1 => i < a) /\ (i > a - 1 + Len(t) => i > b)
    BY <1>2, <1>4
  <2> QED BY <1>2, <2>1
<1>8. a - 1 + Len(t) <= Len(s)
  BY <1>2, <1>4
<1>9. Left(s, c, t, a - 1)
  BY <1>4, <1>5, <1>6, <1>7, <1>8 DEF Left
<1> QED BY <1>3, <1>4, <1>9 DEF t

\* A text before another.
LEMMA JoinedIs ==
  ASSUME NEW S, NEW s \in Seq(S), NEW t \in Seq(S)
  PROVE  /\ s \o t \in Seq(S) /\ Len(s \o t) = Len(s) + Len(t)
         /\ \A i \in 1..Len(s) : (s \o t)[i] = s[i]
         /\ \A i \in 1..Len(t) : (s \o t)[Len(s) + i] = t[i]
         /\ SubSeq(s \o t, 1, Len(s)) = s
<1> DEFINE w == s \o t
           part == SubSeq(w, 1, Len(s))
<1>1. /\ w \in Seq(S) /\ Len(w) = Len(s) + Len(t) /\ Len(s) \in Nat /\ Len(t) \in Nat
      /\ \A i \in 1..Len(s) : w[i] = s[i]
      /\ \A i \in 1..Len(t) : w[Len(s) + i] = t[i]
  OBVIOUS
<1> HIDE DEF w
<1>2. /\ part \in Seq(S) /\ Len(part) = Len(s) - 1 + 1
      /\ \A i \in 1..Len(s) - 1 + 1 : part[i] = w[1 + i - 1]
  <2>1. 1 \in Nat \ {0} /\ 1 <= Len(s) + 1 /\ Len(s) <= Len(w)
    BY <1>1
  <2> QED BY <1>1, <2>1, PartIs
<1>3. Len(part) = Len(s) /\ \A i \in 1..Len(s) : part[i] = s[i]
  <2>1. Len(s) - 1 + 1 = Len(s) /\ \A i \in 1..Len(s) : 1 + i - 1 = i
    BY <1>1
  <2> HIDE DEF part
  <2> QED BY <1>1, <1>2, <2>1
<1>4. part = s
  <2> HIDE DEF part
  <2> QED BY <1>2, <1>3, SameText
<1> QED BY <1>1, <1>4 DEF w

\* thalovant_mqtt_topics_derive: slashes go, then spaces.
LEMMA BaseIs ==
  ASSUME NEW S, NEW url \in Seq(S), NEW p, p = Conn!Trim(url, "/"),
         NEW base, base = Conn!Trim(p, Conn!Space), base # <<>>
  PROVE  /\ base \in Seq(S)
         /\ \E i \in {j \in 0..(Len(url) - Len(base)) : SubSeq(url, j + 1, j + Len(base)) = base} :
              \A j \in (1..i) \cup ((i + Len(base) + 1)..Len(url)) : Conn!Is(url, j, {"/", Conn!Space})
         /\ ~Conn!Is(base, 1, {Conn!Space}) /\ ~Conn!Is(base, Len(base), {Conn!Space})
         /\ Conn!Is(base, 1, {"/"}) => Conn!Is(p, 1, {Conn!Space})
<1>1. p # <<>>
  <2> SUFFICES ASSUME p = <<>> PROVE FALSE
    OBVIOUS
  <2>1. {i \in 1..Len(<<>>) : <<>>[i] # Conn!Space} = {}
    OBVIOUS
  <2> QED BY <2>1, Zenon DEF Conn!Trim
<1>2. p \in Seq(S) /\ \E a \in Nat : Left(url, "/", p, a)
  BY <1>1, TrimmedIs, Zenon
<1>3. base \in Seq(S) /\ \E a \in Nat : Left(p, Conn!Space, base, a)
  BY <1>2, TrimmedIs, Zenon
<1>21. PICK a \in Nat : Left(url, "/", p, a)
  BY <1>2
<1>31. PICK c \in Nat : Left(p, Conn!Space, base, c)
  BY <1>3
<1>22. /\ p \in Seq(S) /\ Len(p) \in Nat \ {0} /\ a + Len(p) <= Len(url)
       /\ \A i \in 1..Len(p) : p[i] = url[a + i]
       /\ p[1] # "/" /\ p[Len(p)] # "/"
       /\ \A i \in 1..Len(url) : i <= a \/ i > a + Len(p) => url[i] = "/"
  BY <1>2, <1>21 DEF Left
<1>32. /\ base \in Seq(S) /\ Len(base) \in Nat \ {0} /\ c + Len(base) <= Len(p)
       /\ \A i \in 1..Len(base) : base[i] = p[c + i]
       /\ base[1] # Conn!Space /\ base[Len(base)] # Conn!Space
       /\ \A i \in 1..Len(p) : i <= c \/ i > c + Len(base) => p[i] = Conn!Space
  BY <1>3, <1>31 DEF Left
<1>4. ASSUME NEW i \in 1..Len(base) PROVE base[i] = url[a + c + i]
  <2>1. c + i \in 1..Len(p) /\ a + (c + i) = a + c + i
    BY <1>22, <1>32
  <2> QED BY <1>22, <1>32, <2>1
<1> DEFINE at == a + c
           part == SubSeq(url, at + 1, at + Len(base))
<1>5. at \in Nat /\ at + Len(base) <= Len(url) /\ at \in 0..(Len(url) - Len(base)) /\ Len(url) \in Nat
  BY <1>22, <1>32
<1>6. part = base
  <2> HIDE DEF at
  <2>1. /\ part \in Seq(S) /\ Len(part) = at + Len(base) - (at + 1) + 1
        /\ \A i \in 1..at + Len(base) - (at + 1) + 1 : part[i] = url[at + 1 + i - 1]
    <3>1. at + 1 \in Nat \ {0} /\ at + Len(base) \in Nat /\ at + 1 <= at + Len(base) + 1
      BY <1>32, <1>5
    <3> QED BY <1>5, <3>1, PartIs
  <2>2. at + Len(base) - (at + 1) + 1 = Len(base) /\ \A i \in 1..Len(base) : at + 1 + i - 1 = at + i
    BY <1>32, <1>5
  <2>3. Len(part) = Len(base) /\ \A i \in 1..Len(part) : part[i] = base[i]
    <3>1. \A i \in 1..Len(base) : base[i] = url[at + i]
      BY <1>4 DEF at
    <3> HIDE DEF part
    <3> QED BY <2>1, <2>2, <3>1
  <2> HIDE DEF part
  <2> QED BY <1>32, <2>1, <2>3, SameText
<1>7. ASSUME NEW j \in (1..at) \cup ((at + Len(base) + 1)..Len(url)) PROVE Conn!Is(url, j, {"/", Conn!Space})
  <2>1. j \in 1..Len(url) /\ (j <= at \/ j > at + Len(base))
    <3> HIDE DEF at
    <3> QED BY <1>32, <1>5
  <2>2. CASE j <= a \/ j > a + Len(p)
    <3>1. url[j] = "/"
      BY <1>22, <2>1, <2>2
    <3> QED BY <2>1, <3>1 DEF Conn!Is
  <2>3. CASE ~(j <= a \/ j > a + Len(p))
    <3>1. j - a \in 1..Len(p) /\ (j - a <= c \/ j - a > c + Len(base)) /\ a + (j - a) = j
      BY <1>22, <1>32, <2>1, <2>3
    <3>2. p[j - a] = url[j]
      BY <1>22, <3>1
    <3>3. p[j - a] = Conn!Space
      BY <1>32, <3>1
    <3> QED BY <2>1, <3>2, <3>3 DEF Conn!Is
  <2> QED BY <2>2, <2>3
<1>8. Conn!Is(base, 1, {"/"}) => Conn!Is(p, 1, {Conn!Space})
  <2> SUFFICES ASSUME base[1] = "/" PROVE p[1] = Conn!Space /\ 1 \in 1..Len(p)
    BY DEF Conn!Is
  <2>1. 1 \in 1..Len(base) /\ 1 \in 1..Len(p)
    BY <1>22, <1>32
  <2>2. base[1] = p[c + 1]
    BY <1>32, <2>1
  <2>3. c # 0
    <3> SUFFICES ASSUME c = 0 PROVE FALSE
      OBVIOUS
    <3>1. c + 1 = 1
      OBVIOUS
    <3> QED BY <1>22, <2>2, <3>1
  <2>4. 1 <= c
    BY <2>3
  <2> QED BY <1>32, <2>1, <2>4
<1>9. ~Conn!Is(base, 1, {Conn!Space}) /\ ~Conn!Is(base, Len(base), {Conn!Space})
  BY <1>32 DEF Conn!Is
<1> HIDE DEF at
<1>10. at \in {j \in 0..(Len(url) - Len(base)) : SubSeq(url, j + 1, j + Len(base)) = base}
  BY <1>5, <1>6
<1> QED BY <1>32, <1>7, <1>8, <1>9, <1>10, Zenon

LEMMA TopicsConcrete ==
  ASSUME NEW S, NEW url \in Seq(S), url = Conn!Address, TopicCap \in Nat
  PROVE  Conn!TopicsAreConcrete
<1> DEFINE p == Conn!Trim(url, "/")
           base == Conn!Trim(p, Conn!Space)
           topics == [n \in 1..3 |-> base \o <<"/", Conn!Channels[n]>>]
<1> SUFFICES ASSUME Conn!Derive(url).rc = "OK" PROVE Conn!TopicsAreConcrete
  BY DEF Conn!TopicsAreConcrete
<1>1. /\ base # <<>> /\ \A i \in 1..Len(base) : ~Conn!Is(base, i, {"#", "+", "ctl"})
      /\ ~(Len(base) + 2 >= TopicCap)
      /\ Conn!Derive(url) = [rc |-> "OK", topics |-> topics]
  BY DEF Conn!Derive, Conn!Normalized, Conn!Failed
<1>2. /\ base \in Seq(S)
      /\ \E i \in {j \in 0..(Len(url) - Len(base)) : SubSeq(url, j + 1, j + Len(base)) = base} :
           \A j \in (1..i) \cup ((i + Len(base) + 1)..Len(url)) : Conn!Is(url, j, {"/", Conn!Space})
      /\ ~Conn!Is(base, 1, {Conn!Space}) /\ ~Conn!Is(base, Len(base), {Conn!Space})
      /\ Conn!Is(base, 1, {"/"}) => Conn!Is(p, 1, {Conn!Space})
  <2> HIDE DEF topics, base, p
  <2>1. p = Conn!Trim(url, "/") /\ base = Conn!Trim(p, Conn!Space)
    BY DEF base, p
  <2> QED BY <1>1, <2>1, BaseIs, Zenon
<1>3. Conn!Derive(url).topics = topics
  <2> HIDE DEF topics
  <2> QED BY <1>1
<1> HIDE DEF base
<1>4. ASSUME NEW n \in 1..3
      PROVE  /\ topics[n] = base \o <<"/", Conn!Channels[n]>> /\ Len(topics[n]) = Len(base) + 2
             /\ Len(topics[n]) < TopicCap /\ SubSeq(topics[n], 1, Len(base)) = base
  <2> DEFINE tail == <<"/", Conn!Channels[n]>>
             S1 == S \cup {"/", Conn!Channels[n]}
  <2>1. topics[n] = base \o tail
    OBVIOUS
  <2>2. tail \in Seq(S1) /\ Len(tail) = 2
    OBVIOUS
  <2>b. base \in Seq(S1)
    <3>1. S \subseteq S1
      OBVIOUS
    <3> HIDE DEF S1
    <3> QED BY <1>2, <3>1
  <2> HIDE DEF tail, topics, S1
  <2>3. Len(topics[n]) = Len(base) + 2 /\ SubSeq(topics[n], 1, Len(base)) = base
    <3>1. Len(base \o tail) = Len(base) + Len(tail) /\ SubSeq(base \o tail, 1, Len(base)) = base
      BY <2>b, <2>2, JoinedIs, Zenon
    <3> QED BY <2>1, <2>2, <3>1
  <2>4. Len(base) \in Nat
    BY <1>2
  <2>5. Len(topics[n]) < TopicCap
    BY <1>1, <2>3, <2>4
  <2> QED BY <2>1, <2>3, <2>5 DEF tail
<1>5. SubSeq(topics[1], 1, Len(topics[1]) - 2) = base
  <2> HIDE DEF topics
  <2>1. Len(topics[1]) - 2 = Len(base)
    BY <1>2, <1>4
  <2> QED BY <1>4, <2>1
<1>6. \A n \in 1..3 : /\ topics[n] = base \o <<"/", Conn!Channels[n]>> /\ Len(topics[n]) < TopicCap
                      /\ \A i \in 1..Len(base) : ~Conn!Is(base, i, {"#", "+", "ctl"})
  BY <1>1, <1>4
<1> HIDE DEF topics
<1>7. Conn!Is(base, 1, {"/"}) => Conn!Is(Conn!Trim(url, "/"), 1, {Conn!Space})
  BY <1>2 DEF p
<1> HIDE DEF p
<1> QED BY <1>1, <1>2, <1>3, <1>5, <1>6, <1>7, Zenon DEF Conn!TopicsAreConcrete

\* Where one of set is first, or the end; and where the digits end.
FirstAt(s, from, set, e) ==
  /\ e \in from..(Len(s) + 1) /\ (e > Len(s) \/ Conn!Is(s, e, set))
  /\ \A j \in from..(e - 1) : ~Conn!Is(s, j, set)
DigitsTo(s, from, e) ==
  /\ e \in from..(Len(s) + 1) /\ ~Conn!IsDigit(s, e)
  /\ \A j \in from..(e - 1) : Conn!IsDigit(s, j)

LEMMA FirstIs ==
  ASSUME NEW S, NEW s \in Seq(S), NEW from \in 1..Len(s) + 1, NEW set
  PROVE  /\ FirstAt(s, from, set, Conn!First(s, from, set))
         /\ \A e : FirstAt(s, from, set, e) => e = Conn!First(s, from, set)
<1> DEFINE T == {e \in from..(Len(s) + 1) : e > Len(s) \/ Conn!Is(s, e, set)}
<1>1. T \subseteq Nat /\ Len(s) + 1 \in T
  OBVIOUS
<1>2. PICK e \in T : \A j \in T : e <= j
  <2> HIDE DEF T
  <2> QED BY <1>1, NatMin
<1>3. FirstAt(s, from, set, e)
  <2>1. ASSUME NEW j \in from..(e - 1) PROVE ~Conn!Is(s, j, set)
    <3>1. j \in from..(Len(s) + 1) /\ ~(e <= j)
      BY <1>2
    <3>2. j \notin T
      <4> HIDE DEF T
      <4> QED BY <1>2, <3>1
    <3> QED BY <3>1, <3>2
  <2> QED BY <1>2, <2>1 DEF FirstAt
<1>4. FirstAt(s, from, set, Conn!First(s, from, set))
  <2>1. \E i \in from..(Len(s) + 1) : /\ i > Len(s) \/ Conn!Is(s, i, set)
                                      /\ \A j \in from..(i - 1) : ~Conn!Is(s, j, set)
    BY <1>3 DEF FirstAt
  <2> QED BY <2>1, Zenon DEF FirstAt, Conn!First
<1>5. ASSUME NEW f, NEW g, FirstAt(s, from, set, f), FirstAt(s, from, set, g) PROVE f = g
  <2>1. f < g => f \in from..(g - 1) /\ f \in 1..Len(s)
    BY <1>5 DEF FirstAt
  <2>2. g < f => g \in from..(f - 1) /\ g \in 1..Len(s)
    BY <1>5 DEF FirstAt
  <2> QED BY <1>5, <2>1, <2>2 DEF FirstAt
<1> QED BY <1>4, <1>5

LEMMA DigitsEnd ==
  ASSUME NEW S, NEW s \in Seq(S), NEW from \in 1..Len(s) + 1
  PROVE  /\ \E e : DigitsTo(s, from, e)
         /\ \A e, f : DigitsTo(s, from, e) /\ DigitsTo(s, from, f) => e = f
<1> DEFINE T == {e \in from..(Len(s) + 1) : ~Conn!IsDigit(s, e)}
<1>1. T \subseteq Nat /\ Len(s) + 1 \in T
  BY DEF Conn!IsDigit, Conn!Is
<1>2. PICK e \in T : \A j \in T : e <= j
  <2> HIDE DEF T
  <2> QED BY <1>1, NatMin
<1>3. DigitsTo(s, from, e)
  <2>1. ASSUME NEW j \in from..(e - 1) PROVE Conn!IsDigit(s, j)
    <3>1. j \in from..(Len(s) + 1) /\ ~(e <= j)
      BY <1>2
    <3>2. j \notin T
      <4> HIDE DEF T
      <4> QED BY <1>2, <3>1
    <3> QED BY <3>1, <3>2
  <2> QED BY <1>2, <2>1 DEF DigitsTo
<1>4. ASSUME NEW f, NEW g, DigitsTo(s, from, f), DigitsTo(s, from, g) PROVE f = g
  <2>1. f < g => f \in from..(g - 1)
    BY <1>4 DEF DigitsTo
  <2>2. g < f => g \in from..(f - 1)
    BY <1>4 DEF DigitsTo
  <2> QED BY <1>4, <2>1, <2>2 DEF DigitsTo
<1> QED BY <1>3, <1>4

\* The sum of a port's digits, as the parse adds them and without a bound.
SumOf(f, d) == f = [n \in 0..Len(d) |-> IF n = 0 THEN 0 ELSE Conn!PortStep(f[n - 1], d[n])]
TotalOf(f, d) == f = [n \in 0..Len(d) |-> IF n = 0 THEN 0 ELSE f[n - 1] * 10 + Conn!Number(d[n])]
Total(d) == (CHOOSE f : TotalOf(f, d))[Len(d)]

LEMMA NumberIs == ASSUME NEW c PROVE Conn!Number(c) \in Nat
BY DEF Conn!Number

LEMMA SumsRun ==
  ASSUME NEW S, NEW d \in Seq(S), PortMax \in Nat
  PROVE  (\E f : SumOf(f, d)) /\ (\E f : TotalOf(f, d))
<1> DEFINE n == Len(d)
           P == [x \in Nat \X (1..n) |-> Conn!PortStep(x[1], d[x[2]])]
           N == [x \in Nat \X (1..n) |-> x[1] * 10 + Conn!Number(d[x[2]])]
<1>1. n \in Nat /\ 0 \in Nat
  OBVIOUS
<1>2. P \in [Nat \X (1..n) -> Nat] /\ N \in [Nat \X (1..n) -> Nat]
  <2>1. \A x \in Nat \X (1..n) : x[1] * 10 + Conn!Number(d[x[2]]) \in Nat
    BY NumberIs
  <2>2. \A x \in Nat \X (1..n) : Conn!PortStep(x[1], d[x[2]]) \in Nat
    BY NumberIs DEF Conn!PortStep
  <2> HIDE DEF n
  <2> QED BY <2>1, <2>2
<1>3. PICK p \in [0..n -> Nat] : Runs(P, 0, n, p)
  <2> HIDE DEF P, n, N
  <2> QED BY <1>1, <1>2, LoopRuns, Zenon
<1>4. PICK t \in [0..n -> Nat] : Runs(N, 0, n, t)
  <2> HIDE DEF P, n, N
  <2> QED BY <1>1, <1>2, LoopRuns, Zenon
<1>5. ASSUME NEW k \in 1..n
      PROVE  p[k] = Conn!PortStep(p[k - 1], d[k]) /\ t[k] = t[k - 1] * 10 + Conn!Number(d[k])
  <2>1. k - 1 \in 0..n
    BY <1>1
  <2> HIDE DEF n
  <2>2. <<p[k - 1], k>> \in Nat \X (1..n) /\ <<t[k - 1], k>> \in Nat \X (1..n)
    BY <2>1
  <2>3. P[<<p[k - 1], k>>] = Conn!PortStep(p[k - 1], d[k]) /\ N[<<t[k - 1], k>>] = t[k - 1] * 10 + Conn!Number(d[k])
    BY <2>2
  <2> HIDE DEF P, N
  <2> QED BY <1>3, <1>4, <2>3 DEF Runs
<1>6. p[0] = 0 /\ t[0] = 0
  BY <1>3, <1>4 DEF Runs
<1>7. SumOf(p, d)
  <2> DEFINE q == [k \in 0..n |-> IF k = 0 THEN 0 ELSE Conn!PortStep(p[k - 1], d[k])]
  <2>1. ASSUME NEW k \in 0..n PROVE p[k] = q[k]
    <3>1. k # 0 => k \in 1..n
      BY <1>1
    <3> HIDE DEF n
    <3> QED BY <1>5, <1>6, <3>1
  <2>2. p = q
    <3> HIDE DEF n
    <3> QED BY <2>1
  <2> QED BY <2>2 DEF SumOf
<1>8. TotalOf(t, d)
  <2> DEFINE q == [k \in 0..n |-> IF k = 0 THEN 0 ELSE t[k - 1] * 10 + Conn!Number(d[k])]
  <2>1. ASSUME NEW k \in 0..n PROVE t[k] = q[k]
    <3>1. k # 0 => k \in 1..n
      BY <1>1
    <3> HIDE DEF n
    <3> QED BY <1>5, <1>6, <3>1
  <2>2. t = q
    <3> HIDE DEF n
    <3> QED BY <2>1
  <2> QED BY <2>2 DEF TotalOf
<1> QED BY <1>7, <1>8

\* A port that is not beyond the largest is the number its digits write.
LEMMA SumIsTotal ==
  ASSUME NEW S, NEW d \in Seq(S), PortMax \in Nat
  PROVE  Conn!PortSum(d) \in Nat /\ (Conn!PortSum(d) <= PortMax => Conn!PortSum(d) = Total(d))
<1> DEFINE p == CHOOSE f : SumOf(f, d)
           t == CHOOSE f : TotalOf(f, d)
           n == Len(d)
<1>1. SumOf(p, d) /\ TotalOf(t, d) /\ n \in Nat
  BY SumsRun
<1>2. Conn!PortSum(d) = p[n] /\ Total(d) = t[n]
  BY Zenon DEF Conn!PortSum, SumOf, Total
<1> HIDE DEF p, t
<1>3. \A k \in 0..n : p[k] = IF k = 0 THEN 0 ELSE Conn!PortStep(p[k - 1], d[k])
  <2>1. p = [k \in 0..Len(d) |-> IF k = 0 THEN 0 ELSE Conn!PortStep(p[k - 1], d[k])]
    BY <1>1 DEF SumOf
  <2> QED BY <2>1
<1>4. \A k \in 0..n : t[k] = IF k = 0 THEN 0 ELSE t[k - 1] * 10 + Conn!Number(d[k])
  <2>1. t = [k \in 0..Len(d) |-> IF k = 0 THEN 0 ELSE t[k - 1] * 10 + Conn!Number(d[k])]
    BY <1>1 DEF TotalOf
  <2> QED BY <2>1
<1> DEFINE G == {k \in 0..n : p[k] \in Nat /\ t[k] \in Nat /\ (p[k] <= PortMax => p[k] = t[k])}
<1>5. 0 \in G
  BY <1>1, <1>3, <1>4
<1>6. ASSUME NEW k \in 0 + 1..n, k - 1 \in G PROVE k \in G
  <2> HIDE DEF n
  <2>1. k \in 0..n /\ k # 0
    BY <1>1
  <2>2. p[k] = Conn!PortStep(p[k - 1], d[k]) /\ t[k] = t[k - 1] * 10 + Conn!Number(d[k])
    BY <1>3, <1>4, <2>1
  <2>3. /\ p[k - 1] \in Nat /\ t[k - 1] \in Nat /\ (p[k - 1] <= PortMax => p[k - 1] = t[k - 1])
        /\ Conn!Number(d[k]) \in Nat
    BY <1>6, NumberIs
  <2>4. p[k] \in Nat /\ t[k] \in Nat /\ (p[k] <= PortMax => p[k] = t[k])
    BY <2>2, <2>3 DEF Conn!PortStep
  <2> QED BY <2>1, <2>4
<1>7. 0..n \subseteq G
  <2> HIDE DEF G, n
  <2> QED BY <1>1, <1>5, <1>6, Climb
<1>8. n \in G
  BY <1>1, <1>7
<1> QED BY <1>2, <1>8

\* thalovant_endpoint_parse: where an address that is parsed is taken apart.
SepOf(url) == CHOOSE i \in Conn!Separators(url) : \A j \in Conn!Separators(url) : i <= j
SchemeAt(url) == Conn!Lowered(SubSeq(url, 1, SepOf(url) - 1))
HostAt(url) == Conn!HostOf(url, SepOf(url) + 3)
PortAt(url) == Conn!PortOf(url, HostAt(url).next)
PathAt(url) == Conn!From(url, PortAt(url).next)
PortMeant(scheme, port) ==
  IF port = 0 /\ scheme \in DOMAIN DefaultPort THEN DefaultPort[scheme] ELSE port
ReadAs(url) == [rc |-> "OK", scheme |-> SchemeAt(url), host |-> HostAt(url).host, path |-> PathAt(url),
               tls |-> SchemeAt(url) \in Conn!Secure, port |-> PortMeant(SchemeAt(url), PortAt(url).port)]
Parses(url) ==
  /\ Conn!Separators(url) # {} /\ SepOf(url) # 1 /\ HostAt(url).host # <<>>
  /\ PortAt(url).given => Conn!IsDigit(url, HostAt(url).next + 1)
  /\ ~(PortAt(url).port > PortMax)
  /\ Conn!EndpointParse(url) = ReadAs(url)
LEMMA ParsedIs == ASSUME NEW url, Conn!EndpointParse(url).rc = "OK" PROVE Parses(url)
<1> DEFINE sep == SepOf(url)
           scheme == SchemeAt(url)
           host == HostAt(url)
           port == PortAt(url)
           path == PathAt(url)
<1>1. Conn!EndpointParse(url) =
        IF Conn!Separators(url) = {} \/ sep = 1 THEN Conn!Failed("INVALID")
        ELSE IF Len(scheme) + 1 > SchemeCap THEN Conn!Failed("NOMEM")
        ELSE IF host.host = <<>> THEN Conn!Failed("INVALID")
        ELSE IF Len(host.host) + 1 > HostCap THEN Conn!Failed("NOMEM")
        ELSE IF port.given /\ ~Conn!IsDigit(url, host.next + 1) THEN Conn!Failed("INVALID")
        ELSE IF port.port > PortMax THEN Conn!Failed("INVALID")
        ELSE IF path # <<>> /\ ~Conn!Is(path, 1, {"/", "?"}) THEN Conn!Failed("INVALID")
        ELSE IF Len(path) + 1 > PathCap THEN Conn!Failed("NOMEM")
        ELSE ReadAs(url)
  BY Zenon DEF Conn!EndpointParse, SepOf, SchemeAt, HostAt, PortAt, PathAt, PortMeant, ReadAs
<1>2. Conn!Failed("INVALID").rc # "OK" /\ Conn!Failed("NOMEM").rc # "OK"
  BY DEF Conn!Failed
<1> QED BY <1>1, <1>2, Zenon DEF Parses

LEMMA SeparatorIs ==
  ASSUME NEW S, NEW url \in Seq(S), {":", "/"} \subseteq S, NEW i
  PROVE  i \in Conn!Separators(url) <=>
           i \in 1..(Len(url) - 2) /\ url[i] = ":" /\ url[i + 1] = "/" /\ url[i + 2] = "/"
<1> DEFINE mark == <<":", "/", "/">>
           part == SubSeq(url, i, i + 2)
<1> SUFFICES ASSUME i \in 1..(Len(url) - 2)
             PROVE  part = mark <=> url[i] = ":" /\ url[i + 1] = "/" /\ url[i + 2] = "/"
  BY DEF Conn!Separators
<1>1. mark \in Seq(S) /\ Len(mark) = 3 /\ mark[1] = ":" /\ mark[2] = "/" /\ mark[3] = "/"
  OBVIOUS
<1>2. /\ part \in Seq(S) /\ Len(part) = i + 2 - i + 1
      /\ \A k \in 1..i + 2 - i + 1 : part[k] = url[i + k - 1]
  <2>1. i \in Nat \ {0} /\ i + 2 \in Nat /\ i <= i + 2 + 1 /\ i + 2 <= Len(url)
    OBVIOUS
  <2> HIDE DEF mark
  <2> QED BY <2>1, PartIs
<1>3. Len(part) = 3 /\ part[1] = url[i] /\ part[2] = url[i + 1] /\ part[3] = url[i + 2]
  <2>1. i + 2 - i + 1 = 3 /\ i + 1 - 1 = i /\ i + 2 - 1 = i + 1 /\ i + 3 - 1 = i + 2
    OBVIOUS
  <2>2. 1 \in 1..3 /\ 2 \in 1..3 /\ 3 \in 1..3
    OBVIOUS
  <2> HIDE DEF part, mark
  <2> QED BY <1>2, <2>1, <2>2
<1> HIDE DEF part, mark
<1>4. ASSUME part[1] = ":", part[2] = "/", part[3] = "/" PROVE part = mark
  <2>1. \A k \in 1..Len(part) : part[k] = mark[k]
    <3> TAKE k \in 1..Len(part)
    <3>1. k = 1 \/ k = 2 \/ k = 3
      BY <1>3
    <3> QED BY <1>1, <1>4, <3>1
  <2> QED BY <1>1, <1>2, <1>3, <2>1, SameText
<1> QED BY <1>1, <1>3, <1>4

LEMMA SepIs ==
  ASSUME NEW S, NEW url \in Seq(S), {":", "/"} \subseteq S, Conn!Separators(url) # {}
  PROVE  /\ SepOf(url) \in Conn!Separators(url) /\ \A j \in Conn!Separators(url) : SepOf(url) <= j
         /\ SepOf(url) \in 1..(Len(url) - 2) /\ url[SepOf(url)] = ":"
         /\ url[SepOf(url) + 1] = "/" /\ url[SepOf(url) + 2] = "/"
<1>1. Conn!Separators(url) \subseteq Nat
  BY DEF Conn!Separators
<1>2. SepOf(url) \in Conn!Separators(url) /\ \A j \in Conn!Separators(url) : SepOf(url) <= j
  BY <1>1, NatMin DEF SepOf
<1>3. /\ SepOf(url) \in 1..(Len(url) - 2) /\ url[SepOf(url)] = ":"
      /\ url[SepOf(url) + 1] = "/" /\ url[SepOf(url) + 2] = "/"
  BY <1>2, SeparatorIs
<1> QED BY <1>2, <1>3

\* A text between two symbols.
Between(S, inner, l, r, w) ==
  /\ w \in Seq(S) /\ Len(w) = Len(inner) + 2 /\ w[1] = l /\ w[Len(inner) + 2] = r
  /\ \A k \in 1..Len(inner) : w[1 + k] = inner[k]
LEMMA BetweenIs ==
  ASSUME NEW S, NEW inner \in Seq(S), NEW l \in S, NEW r \in S
  PROVE  Between(S, inner, l, r, <<l>> \o inner \o <<r>>)
<1> DEFINE left == <<l>> \o inner
           both == left \o <<r>>
<1>1. /\ left \in Seq(S) /\ Len(left) = Len(inner) + 1 /\ left[1] = l
      /\ \A k \in 1..Len(inner) : left[1 + k] = inner[k]
  OBVIOUS
<1> HIDE DEF left
<1>2. /\ both \in Seq(S) /\ Len(both) = Len(left) + 1 /\ both[Len(left) + 1] = r
      /\ \A k \in 1..Len(left) : both[k] = left[k]
  BY <1>1
<1>3. both = <<l>> \o inner \o <<r>>
  BY DEF left
<1> HIDE DEF both
<1>4. Len(inner) \in Nat /\ Len(inner) + 1 + 1 = Len(inner) + 2 /\ 1 \in 1..Len(left)
      /\ \A k \in 1..Len(inner) : 1 + k \in 1..Len(left)
  BY <1>1
<1> QED BY <1>1, <1>2, <1>3, <1>4 DEF Between

\* A host is what the address has there, brackets aside.
LEMMA HostIs ==
  ASSUME NEW S, NEW url \in Seq(S), {"[", "]"} \subseteq S, NEW i \in 1..Len(url) + 1,
         Conn!HostOf(url, i).host # <<>>
  PROVE  /\ Conn!HostOf(url, i).next \in i..Len(url) + 1
         /\ SubSeq(url, i, Conn!HostOf(url, i).next - 1)
              \in {Conn!HostOf(url, i).host, <<"[">> \o Conn!HostOf(url, i).host \o <<"]">>}
<1>1. CASE Conn!Is(url, i, {"["})
  <2> DEFINE close == Conn!First(url, i + 1, {"]"})
             inner == SubSeq(url, i + 1, close - 1)
             outer == SubSeq(url, i, close)
             both == <<"[">> \o inner \o <<"]">>
  <2>1. i \in 1..Len(url) /\ url[i] = "[" /\ i + 1 \in 1..Len(url) + 1
    BY <1>1 DEF Conn!Is
  <2>2. FirstAt(url, i + 1, {"]"}, close)
    BY <2>1, FirstIs
  <2>3. Conn!HostOf(url, i) = IF close > Len(url) THEN [host |-> <<>>, next |-> close]
                              ELSE [host |-> inner, next |-> close + 1]
    BY <1>1, Zenon DEF Conn!HostOf
  <2> HIDE DEF inner, close
  <2>4. ~(close > Len(url))
    <3>1. [host |-> <<>>, next |-> close].host = <<>>
      OBVIOUS
    <3> QED BY <2>3, <3>1
  <2>5. Conn!HostOf(url, i).host = inner /\ Conn!HostOf(url, i).next = close + 1
    BY <2>3, <2>4
  <2>6. close \in i + 1..Len(url) /\ url[close] = "]"
    BY <2>2, <2>4 DEF FirstAt, Conn!Is
  <2>7. /\ inner \in Seq(S) /\ Len(inner) = close - 1 - (i + 1) + 1
        /\ \A k \in 1..close - 1 - (i + 1) + 1 : inner[k] = url[i + 1 + k - 1]
    <3>1. i + 1 \in Nat \ {0} /\ close - 1 \in Nat /\ i + 1 <= close - 1 + 1 /\ close - 1 <= Len(url)
      BY <2>6
    <3> QED BY <3>1, PartIs DEF inner
  <2>8. /\ outer \in Seq(S) /\ Len(outer) = close - i + 1
        /\ \A k \in 1..close - i + 1 : outer[k] = url[i + k - 1]
    <3>1. i \in Nat \ {0} /\ close \in Nat /\ i <= close + 1 /\ close <= Len(url)
      BY <2>6
    <3> QED BY <3>1, PartIs
  <2>9. "[" \in S /\ "]" \in S
    OBVIOUS
  <2>10. both = <<"[">> \o inner \o <<"]">>
    OBVIOUS
  <2> HIDE DEF both, outer
  <2>11. /\ both \in Seq(S) /\ Len(both) = Len(inner) + 2 /\ both[1] = "[" /\ both[Len(inner) + 2] = "]"
         /\ \A k \in 1..Len(inner) : both[1 + k] = inner[k]
    <3>1. Between(S, inner, "[", "]", both)
      BY <2>7, <2>9, <2>10, BetweenIs, Zenon
    <3> QED BY <3>1, Zenon DEF Between
  <2>13. Len(inner) = close - i - 1 /\ Len(both) = close - i + 1
    BY <2>6, <2>7, <2>11
  <2>14. ASSUME NEW k \in 1..Len(outer) PROVE outer[k] = both[k]
    <3>1. k \in 1..close - i + 1 /\ outer[k] = url[i + k - 1]
      BY <2>8
    <3>2. CASE k = 1
      <4>1. i + k - 1 = i
        BY <2>6, <3>2
      <4> QED BY <2>1, <2>11, <3>1, <3>2, <4>1
    <3>3. CASE k = close - i + 1
      <4>1. i + k - 1 = close /\ k = Len(inner) + 2
        BY <2>6, <2>13, <3>3
      <4> QED BY <2>6, <2>11, <3>1, <4>1
    <3>4. CASE k # 1 /\ k # close - i + 1
      <4>0. close \in Nat /\ i \in Nat /\ k \in Nat /\ 1 < k /\ k < close - i + 1
        BY <2>6, <3>1, <3>4
      <4>a. k - 1 \in 1..close - i - 1
        BY <4>0
      <4>1. k - 1 \in 1..Len(inner) /\ i + 1 + (k - 1) - 1 = i + k - 1 /\ 1 + (k - 1) = k
        <5>1. i + 1 + (k - 1) - 1 = i + k - 1 /\ 1 + (k - 1) = k
          BY <4>0
        <5>2. k - 1 \in 1..Len(inner)
          BY <2>13, <4>a
        <5> QED BY <5>1, <5>2
      <4>2. inner[k - 1] = url[i + k - 1]
        <5>1. k - 1 \in 1..close - 1 - (i + 1) + 1
          BY <2>7, <4>1
        <5> QED BY <2>7, <4>1, <5>1
      <4> QED BY <2>11, <3>1, <4>1, <4>2
    <3> QED BY <3>2, <3>3, <3>4
  <2>15. outer = both
    <3>1. outer \in Seq(S) /\ both \in Seq(S)
      BY <2>8, <2>11
    <3>2. Len(outer) = Len(both)
      BY <2>8, <2>13
    <3> QED BY <2>14, <3>1, <3>2, SameText, Zenon
  <2>16. close + 1 - 1 = close /\ close + 1 \in i..Len(url) + 1
    BY <2>6
  <2>17. SubSeq(url, i, Conn!HostOf(url, i).next - 1) = <<"[">> \o Conn!HostOf(url, i).host \o <<"]">>
    <3>1. Conn!HostOf(url, i).next - 1 = close
      BY <2>5, <2>6
    <3>2. SubSeq(url, i, close) = <<"[">> \o inner \o <<"]">>
      BY <2>10, <2>15, Zenon DEF outer
    <3> QED BY <2>5, <3>1, <3>2, Zenon
  <2> QED BY <2>5, <2>16, <2>17
<1>2. CASE ~Conn!Is(url, i, {"["})
  <2> DEFINE end == Conn!First(url, i, {":", "/", "?"})
  <2>1. Conn!HostOf(url, i) = [host |-> SubSeq(url, i, end - 1), next |-> end]
    BY <1>2, Zenon DEF Conn!HostOf
  <2>2. FirstAt(url, i, {":", "/", "?"}, end)
    BY FirstIs
  <2> HIDE DEF end
  <2>3. end \in i..Len(url) + 1
    BY <2>2 DEF FirstAt
  <2> QED BY <2>1, <2>3
<1> QED BY <1>1, <1>2

\* A port is the digits after a colon.
LEMMA PortIs ==
  ASSUME NEW S, NEW url \in Seq(S), NEW i \in 1..Len(url) + 1
  PROVE  \/ /\ ~Conn!Is(url, i, {":"}) /\ Conn!PortOf(url, i) = [given |-> FALSE, port |-> 0, next |-> i]
         \/ /\ Conn!Is(url, i, {":"}) /\ Conn!PortOf(url, i).given = TRUE
            /\ DigitsTo(url, i + 1, Conn!PortOf(url, i).next)
            /\ Conn!PortOf(url, i).port = Conn!PortSum(SubSeq(url, i + 1, Conn!PortOf(url, i).next - 1))
<1>1. CASE ~Conn!Is(url, i, {":"})
  BY <1>1, Zenon DEF Conn!PortOf
<1>2. CASE Conn!Is(url, i, {":"})
  <2> DEFINE end == CHOOSE e \in (i + 1)..(Len(url) + 1) :
                      ~Conn!IsDigit(url, e) /\ \A j \in (i + 1)..(e - 1) : Conn!IsDigit(url, j)
             port == [given |-> TRUE, port |-> Conn!PortSum(SubSeq(url, i + 1, end - 1)), next |-> end]
  <2>1. Conn!PortOf(url, i) = port
    BY <1>2, Zenon DEF Conn!PortOf
  <2>2. DigitsTo(url, i + 1, end)
    <3>1. i + 1 \in 1..Len(url) + 1
      BY <1>2 DEF Conn!Is
    <3>2. PICK e : DigitsTo(url, i + 1, e)
      BY <3>1, DigitsEnd
    <3> QED BY <3>2, Zenon DEF DigitsTo
  <2> HIDE DEF end
  <2>3. port.given = TRUE /\ port.next = end /\ port.port = Conn!PortSum(SubSeq(url, i + 1, end - 1))
    OBVIOUS
  <2> HIDE DEF port
  <2> QED BY <1>2, <2>1, <2>2, <2>3
<1> QED BY <1>1, <1>2

LEMMA LoweredIs ==
  ASSUME NEW S, NEW s \in Seq(S), "mqtt" \in S
  PROVE  /\ Conn!Lowered(s) \in Seq(S) /\ Len(Conn!Lowered(s)) = Len(s)
         /\ \A i \in 1..Len(s) : Conn!Lowered(s)[i] = IF s[i] = "MQTT" THEN "mqtt" ELSE s[i]
<1> DEFINE low == [i \in 1..Len(s) |-> IF s[i] = "MQTT" THEN "mqtt" ELSE s[i]]
<1>1. Conn!Lowered(s) = low
  BY DEF Conn!Lowered, Conn!Is
<1>2. Len(s) \in Nat /\ low \in [1..Len(s) -> S]
  OBVIOUS
<1>3. low \in Seq(S) /\ Len(low) = Len(s)
  <2> HIDE DEF low
  <2> QED BY <1>2, Listed
<1> QED BY <1>1, <1>3

\* The places an address that is parsed is taken apart at.
Apart(url) ==
  /\ SepOf(url) \in 2..(Len(url) - 2)
  /\ url[SepOf(url)] = ":" /\ url[SepOf(url) + 1] = "/" /\ url[SepOf(url) + 2] = "/"
  /\ HostAt(url).next \in SepOf(url) + 3..Len(url) + 1
  /\ SubSeq(url, SepOf(url) + 3, HostAt(url).next - 1)
       \in {HostAt(url).host, <<"[">> \o HostAt(url).host \o <<"]">>}
  /\ PortAt(url).next \in HostAt(url).next..Len(url) + 1
  /\ \/ /\ ~Conn!Is(url, HostAt(url).next, {":"})
        /\ PortAt(url).next = HostAt(url).next /\ PortAt(url).port = 0
     \/ /\ Conn!Is(url, HostAt(url).next, {":"}) /\ PortAt(url).next > HostAt(url).next + 1
        /\ DigitsTo(url, HostAt(url).next + 1, PortAt(url).next)
        /\ PortAt(url).port = Total(SubSeq(url, HostAt(url).next + 1, PortAt(url).next - 1))
LEMMA ApartIs ==
  ASSUME NEW S, NEW url \in Seq(S), {":", "/", "[", "]"} \subseteq S, PortMax \in Nat, Parses(url)
  PROVE  Apart(url)
<1> DEFINE sep == SepOf(url)
           next == HostAt(url).next
           port == PortAt(url)
<1>1. /\ sep \in 1..(Len(url) - 2) /\ sep # 1
      /\ url[sep] = ":" /\ url[sep + 1] = "/" /\ url[sep + 2] = "/"
  <2>1. Conn!Separators(url) # {} /\ sep # 1 /\ {":", "/"} \subseteq S
    BY DEF Parses
  <2> QED BY <2>1, SepIs
<1>2. sep \in 2..(Len(url) - 2) /\ sep + 3 \in 1..Len(url) + 1
  BY <1>1
<1>3. /\ next \in sep + 3..Len(url) + 1
      /\ SubSeq(url, sep + 3, next - 1) \in {HostAt(url).host, <<"[">> \o HostAt(url).host \o <<"]">>}
  <2>1. Conn!HostOf(url, sep + 3).host # <<>> /\ {"[", "]"} \subseteq S
    BY DEF Parses, HostAt
  <2>2. /\ Conn!HostOf(url, sep + 3).next \in sep + 3..Len(url) + 1
        /\ SubSeq(url, sep + 3, Conn!HostOf(url, sep + 3).next - 1)
             \in {Conn!HostOf(url, sep + 3).host, <<"[">> \o Conn!HostOf(url, sep + 3).host \o <<"]">>}
    <3> HIDE DEF sep
    <3> QED BY <1>2, <2>1, HostIs
  <2> QED BY <2>2, Zenon DEF HostAt
<1> HIDE DEF sep, next
<1>4. next \in 1..Len(url) + 1
  BY <1>2, <1>3
<1>5. \/ /\ ~Conn!Is(url, next, {":"}) /\ port = [given |-> FALSE, port |-> 0, next |-> next]
      \/ /\ Conn!Is(url, next, {":"}) /\ port.given = TRUE
         /\ DigitsTo(url, next + 1, port.next)
         /\ port.port = Conn!PortSum(SubSeq(url, next + 1, port.next - 1))
  <2>1. port = Conn!PortOf(url, next)
    BY DEF PortAt, next
  <2> HIDE DEF port
  <2> QED BY <1>4, <2>1, PortIs
<1>6. (port.given => Conn!IsDigit(url, next + 1)) /\ ~(port.port > PortMax)
  BY DEF Parses, next
<1> HIDE DEF port
<1>7. CASE ~Conn!Is(url, next, {":"})
  <2>1. port.next = next /\ port.port = 0 /\ next \in next..Len(url) + 1
    <3>1. port = [given |-> FALSE, port |-> 0, next |-> next]
      BY <1>5, <1>7
    <3> QED BY <1>4, <3>1
  <2> QED BY <1>1, <1>2, <1>3, <1>7, <2>1, Zenon DEF Apart, sep, next, port
<1>8. CASE Conn!Is(url, next, {":"})
  <2> DEFINE d == SubSeq(url, next + 1, port.next - 1)
  <2>1. /\ port.given = TRUE /\ DigitsTo(url, next + 1, port.next)
        /\ port.port = Conn!PortSum(SubSeq(url, next + 1, port.next - 1))
    BY <1>5, <1>8
  <2>2. port.next \in next + 1..Len(url) + 1 /\ port.next # next + 1
    BY <1>6, <2>1 DEF DigitsTo
  <2>3. port.next > next + 1 /\ port.next \in next..Len(url) + 1
    BY <1>4, <2>2
  <2>4. d \in Seq(S)
    <3>1. /\ next + 1 \in Nat \ {0} /\ port.next - 1 \in Nat
          /\ next + 1 <= port.next - 1 + 1 /\ port.next - 1 <= Len(url)
      BY <1>4, <2>2
    <3> QED BY <3>1, PartIs
  <2> HIDE DEF d
  <2>5. Conn!PortSum(d) \in Nat /\ (Conn!PortSum(d) <= PortMax => Conn!PortSum(d) = Total(d))
    BY <2>4, SumIsTotal
  <2>6. port.port = Conn!PortSum(d)
    BY <2>1 DEF d
  <2>7. port.port = Total(d)
    BY <1>6, <2>5, <2>6
  <2> QED BY <1>1, <1>2, <1>3, <1>8, <2>1, <2>3, <2>7, Zenon DEF Apart, sep, next, port, d
<1> QED BY <1>7, <1>8

\* Two texts, one after the other.
Together(S, s, t, w) ==
  /\ w \in Seq(S) /\ Len(w) = Len(s) + Len(t)
  /\ \A k \in 1..Len(s) : w[k] = s[k]
  /\ \A k \in 1..Len(t) : w[Len(s) + k] = t[k]
LEMMA TogetherIs ==
  ASSUME NEW S, NEW s \in Seq(S), NEW t \in Seq(S)
  PROVE  Together(S, s, t, s \o t)
BY DEF Together

\* What stands before the host is the scheme, whatever the case it is written in.
LEMMA SchemeIs ==
  ASSUME NEW S, NEW url \in Seq(S), {"mqtt", ":", "/"} \subseteq S, NEW sep \in 2..(Len(url) - 2),
         url[sep] = ":", url[sep + 1] = "/", url[sep + 2] = "/",
         NEW scheme, scheme = Conn!Lowered(SubSeq(url, 1, sep - 1))
  PROVE  /\ scheme \in Seq(S) /\ Len(scheme) = sep - 1
         /\ Conn!IsPrefix(scheme \o <<":", "/", "/">>, Conn!Lowered(url))
<1> DEFINE mark == <<":", "/", "/">>
           front == SubSeq(url, 1, sep - 1)
           low == Conn!Lowered(url)
           pre == scheme \o mark
           here == SubSeq(low, 1, sep + 2)
           there == SubSeq(pre, 1, sep + 2)
<1>1. "mqtt" \in S /\ ":" \in S /\ "/" \in S
  OBVIOUS
<1>2. front \in Seq(S) /\ Len(front) = sep - 1 /\ \A k \in 1..sep - 1 : front[k] = url[k]
  <2>1. /\ SubSeq(url, 1, sep - 1) \in Seq(S) /\ Len(SubSeq(url, 1, sep - 1)) = sep - 1 - 1 + 1
        /\ \A k \in 1..sep - 1 - 1 + 1 : SubSeq(url, 1, sep - 1)[k] = url[1 + k - 1]
    <3>1. 1 \in Nat \ {0} /\ sep - 1 \in Nat /\ 1 <= sep - 1 + 1 /\ sep - 1 <= Len(url)
      OBVIOUS
    <3> QED BY <3>1, PartIs
  <2>2. sep - 1 - 1 + 1 = sep - 1 /\ \A k \in 1..sep - 1 : 1 + k - 1 = k
    OBVIOUS
  <2> HIDE DEF mark, low, pre, here, there
  <2> QED BY <2>1, <2>2
<1> HIDE DEF front
<1>3. /\ scheme \in Seq(S) /\ Len(scheme) = sep - 1
      /\ \A k \in 1..sep - 1 : scheme[k] = IF url[k] = "MQTT" THEN "mqtt" ELSE url[k]
  <2>1. /\ Conn!Lowered(front) \in Seq(S) /\ Len(Conn!Lowered(front)) = Len(front)
        /\ \A k \in 1..Len(front) : Conn!Lowered(front)[k] = IF front[k] = "MQTT" THEN "mqtt" ELSE front[k]
    BY <1>1, <1>2, LoweredIs
  <2>2. scheme = Conn!Lowered(front)
    BY DEF front
  <2> HIDE DEF mark, low, pre, here, there
  <2> QED BY <1>2, <2>1, <2>2
<1>4. /\ low \in Seq(S) /\ Len(low) = Len(url)
      /\ \A k \in 1..Len(url) : low[k] = IF url[k] = "MQTT" THEN "mqtt" ELSE url[k]
  BY <1>1, LoweredIs
<1>5. mark \in Seq(S) /\ Len(mark) = 3 /\ mark[1] = ":" /\ mark[2] = "/" /\ mark[3] = "/"
  OBVIOUS
<1> HIDE DEF mark
<1>6. /\ pre \in Seq(S) /\ Len(pre) = sep + 2
      /\ \A k \in 1..sep - 1 : pre[k] = scheme[k]
      /\ pre[sep] = ":" /\ pre[sep + 1] = "/" /\ pre[sep + 2] = "/"
  <2>1. /\ pre \in Seq(S) /\ Len(pre) = Len(scheme) + Len(mark)
        /\ \A k \in 1..Len(scheme) : pre[k] = scheme[k]
        /\ \A k \in 1..Len(mark) : pre[Len(scheme) + k] = mark[k]
    <3>1. Together(S, scheme, mark, pre)
      BY <1>3, <1>5, TogetherIs, Zenon
    <3> HIDE DEF pre
    <3> QED BY <3>1, Zenon DEF Together
  <2> HIDE DEF pre
  <2>2. sep - 1 + 1 = sep /\ sep - 1 + 2 = sep + 1 /\ sep - 1 + 3 = sep + 2 /\ 1 \in 1..3 /\ 2 \in 1..3 /\ 3 \in 1..3
    OBVIOUS
  <2>3. /\ pre[Len(scheme) + 1] = mark[1] /\ pre[Len(scheme) + 2] = mark[2] /\ pre[Len(scheme) + 3] = mark[3]
    BY <1>5, <2>1, <2>2
  <2> QED BY <1>3, <1>5, <2>1, <2>2, <2>3
<1> HIDE DEF pre, low
<1>7. ASSUME NEW k \in 1..sep + 2 PROVE pre[k] = low[k]
  <2>1. k \in 1..Len(url)
    OBVIOUS
  <2>2. k \in 1..sep - 1 \/ k = sep \/ k = sep + 1 \/ k = sep + 2
    OBVIOUS
  <2> QED BY <1>3, <1>4, <1>6, <2>1, <2>2
<1>8. /\ here \in Seq(S) /\ Len(here) = sep + 2 /\ \A k \in 1..sep + 2 : here[k] = low[k]
      /\ there \in Seq(S) /\ Len(there) = sep + 2 /\ \A k \in 1..sep + 2 : there[k] = pre[k]
  <2>1. 1 \in Nat \ {0} /\ sep + 2 \in Nat /\ 1 <= sep + 2 + 1 /\ sep + 2 <= Len(low) /\ sep + 2 <= Len(pre)
    BY <1>4, <1>6
  <2>2. sep + 2 - 1 + 1 = sep + 2 /\ \A k \in 1..sep + 2 : 1 + k - 1 = k
    OBVIOUS
  <2>3. /\ here \in Seq(S) /\ Len(here) = sep + 2 - 1 + 1
        /\ \A k \in 1..sep + 2 - 1 + 1 : here[k] = low[1 + k - 1]
    BY <1>4, <2>1, PartIs
  <2>4. /\ there \in Seq(S) /\ Len(there) = sep + 2 - 1 + 1
        /\ \A k \in 1..sep + 2 - 1 + 1 : there[k] = pre[1 + k - 1]
    BY <1>6, <2>1, PartIs
  <2> HIDE DEF here, there
  <2> QED BY <2>2, <2>3, <2>4
<1>9. here = there
  <2>1. Len(here) = Len(there) /\ \A k \in 1..Len(here) : here[k] = there[k]
    <3> HIDE DEF here, there
    <3> QED BY <1>7, <1>8
  <2> HIDE DEF here, there
  <2> QED BY <1>8, <2>1, SameText
<1>10. Len(pre) <= Len(low)
  BY <1>4, <1>6
<1>11. Conn!IsPrefix(pre, low)
  BY <1>6, <1>9, <1>10 DEF Conn!IsPrefix
<1> QED BY <1>3, <1>11 DEF pre, mark, low

LEMMA AddressRead ==
  ASSUME NEW S, Conn!Address \in Seq(S), PortMax \in Nat,
         {"mqtt", ":", "/", "[", "]"} \subseteq S
  PROVE  Conn!UrlIsRead
<1> SUFFICES ASSUME Conn!EndpointParse(Conn!Address).rc = "OK" PROVE Conn!UrlIsRead
  BY Zenon DEF Conn!UrlIsRead
<1> DEFINE url == Conn!Address
<1>0. url \in Seq(S) /\ Conn!EndpointParse(url).rc = "OK"
  OBVIOUS
<1> HIDE DEF url
<1> USE <1>0
<1> DEFINE u == Conn!EndpointParse(url)
           sep == SepOf(url)
           pos == HostAt(url).next
           next == PortAt(url).next
           path == Conn!From(url, next)
           end == Len(url) - Len(path)
           digits == SubSeq(url, pos + 1, end)
<1>1. Parses(url)
  BY ParsedIs
<1>2. Apart(url)
  BY <1>1, ApartIs
<1>3. u = ReadAs(url)
  BY <1>1, Zenon DEF Parses
<1>4. /\ u.scheme = SchemeAt(url) /\ u.host = HostAt(url).host /\ u.path = path
      /\ u.port = PortMeant(SchemeAt(url), PortAt(url).port)
  <2> HIDE DEF u
  <2> QED BY <1>3 DEF ReadAs, PathAt
<1>5. /\ sep \in 2..(Len(url) - 2) /\ url[sep] = ":" /\ url[sep + 1] = "/" /\ url[sep + 2] = "/"
      /\ pos \in sep + 3..Len(url) + 1
      /\ SubSeq(url, sep + 3, pos - 1) \in {u.host, <<"[">> \o u.host \o <<"]">>}
      /\ next \in pos..Len(url) + 1
      /\ \/ ~Conn!Is(url, pos, {":"}) /\ next = pos /\ PortAt(url).port = 0
         \/ /\ Conn!Is(url, pos, {":"}) /\ next > pos + 1 /\ DigitsTo(url, pos + 1, next)
            /\ PortAt(url).port = Total(SubSeq(url, pos + 1, next - 1))
  <2> HIDE DEF u
  <2> QED BY <1>2, <1>4, Zenon DEF Apart
<1>6. u.scheme \in Seq(S) /\ Len(u.scheme) = sep - 1 /\ Conn!IsPrefix(u.scheme \o <<":", "/", "/">>, Conn!Lowered(url))
  <2>1. u.scheme = Conn!Lowered(SubSeq(url, 1, sep - 1)) /\ {"mqtt", ":", "/"} \subseteq S
    BY <1>4 DEF SchemeAt
  <2> HIDE DEF u, sep
  <2> QED BY <1>5, <2>1, SchemeIs
<1>7. u.port = PortAt(url).port \/ (PortAt(url).port = 0 /\ u.port = DefaultPort[u.scheme])
  <2> HIDE DEF u
  <2> QED BY <1>4 DEF PortMeant
<1>8. Conn!Lowered(SubSeq(url, 1, Len(u.scheme))) = u.scheme
  <2>1. Len(u.scheme) = sep - 1
    BY <1>6
  <2> HIDE DEF u
  <2> QED BY <1>4, <2>1, Zenon DEF SchemeAt
<1> HIDE DEF u, sep, pos, next
<1>9. Len(path) = Len(url) - next + 1 /\ end = next - 1 /\ end + 1 = next
  <2>1. next \in Nat \ {0} /\ Len(url) \in Nat /\ next <= Len(url) + 1
    BY <1>5
  <2>2. path = SubSeq(url, next, Len(url))
    BY DEF Conn!From
  <2>3. Len(SubSeq(url, next, Len(url))) = Len(url) - next + 1
    <3>1. Len(url) <= Len(url)
      BY <2>1
    <3> QED BY <2>1, <3>1, PartIs
  <2>4. Len(path) = Len(url) - next + 1
    BY <2>2, <2>3
  <2> HIDE DEF path
  <2> QED BY <2>1, <2>4
<1>10. Conn!From(url, end + 1) = u.path
  <2> HIDE DEF end
  <2> QED BY <1>4, <1>9
<1>11. digits = SubSeq(url, pos + 1, next - 1)
  BY <1>9
<1>12. pos \in Len(u.scheme) + 4..Len(url) + 1 /\ Len(u.scheme) + 4 = sep + 3
  BY <1>5, <1>6
<1>13. SubSeq(url, Len(u.scheme) + 4, pos - 1) \in {u.host, <<"[">> \o u.host \o <<"]">>}
  BY <1>5, <1>12
<1>14. Len(u.path) = Len(path)
  BY <1>4
<1> HIDE DEF path
<1> DEFINE sum == (CHOOSE total : total = [n \in 0..Len(digits) |->
                     IF n = 0 THEN 0 ELSE total[n - 1] * 10 + Conn!Number(digits[n])])[Len(digits)]
<1>15. \/ pos = end + 1 /\ (u.port = 0 \/ u.port = DefaultPort[u.scheme])
       \/ /\ Conn!Is(url, pos, {":"}) /\ pos < end
          /\ \A i \in 1..Len(digits) : Conn!IsDigit(digits, i)
          /\ sum = u.port \/ (sum = 0 /\ u.port = DefaultPort[u.scheme])
  <2>1. CASE next = pos /\ PortAt(url).port = 0
    <3>1. pos = end + 1
      <4> HIDE DEF end
      <4> QED BY <1>9, <2>1
    <3> HIDE DEF end, sum
    <3> QED BY <1>7, <2>1, <3>1
  <2>2. CASE /\ Conn!Is(url, pos, {":"}) /\ next > pos + 1 /\ DigitsTo(url, pos + 1, next)
             /\ PortAt(url).port = Total(SubSeq(url, pos + 1, next - 1))
    <3>1. sum = Total(digits)
      <4> HIDE DEF digits
      <4> QED BY Zenon DEF Total, TotalOf
    <3> HIDE DEF sum
    <3>2. PortAt(url).port = sum
      BY <1>11, <2>2, <3>1
    <3>3. pos < end
      <4> HIDE DEF end
      <4> QED BY <1>5, <1>9, <2>2
    <3>4. ASSUME NEW i \in 1..Len(digits) PROVE Conn!IsDigit(digits, i)
      <4>1. pos + 1 \in Nat \ {0} /\ next - 1 \in Nat /\ pos + 1 <= next - 1 + 1 /\ next - 1 <= Len(url)
        BY <1>5, <2>2
      <4>2. /\ Len(digits) = next - 1 - (pos + 1) + 1
            /\ \A k \in 1..next - 1 - (pos + 1) + 1 : digits[k] = url[pos + 1 + k - 1]
        <5> DEFINE part == SubSeq(url, pos + 1, next - 1)
        <5>1. /\ Len(part) = next - 1 - (pos + 1) + 1
              /\ \A k \in 1..next - 1 - (pos + 1) + 1 : part[k] = url[pos + 1 + k - 1]
          BY <4>1, PartIs
        <5>2. digits = part
          BY <1>11
        <5> HIDE DEF digits, part
        <5> QED BY <5>1, <5>2
      <4> HIDE DEF digits
      <4>3. pos + 1 + i - 1 \in pos + 1..next - 1
        BY <1>5, <2>2, <4>2
      <4>4. Conn!IsDigit(url, pos + 1 + i - 1) /\ digits[i] = url[pos + 1 + i - 1]
        BY <2>2, <4>2, <4>3 DEF DigitsTo
      <4> QED BY <4>4 DEF Conn!IsDigit, Conn!Is
    <3> HIDE DEF digits, end
    <3> QED BY <1>7, <2>2, <3>2, <3>3, <3>4
  <2> HIDE DEF digits, end, sum
  <2> QED BY <1>5, <2>1, <2>2
<1> HIDE DEF sum
<1>16. /\ Conn!Lowered(SubSeq(url, 1, Len(u.scheme))) = u.scheme
       /\ Conn!IsPrefix(u.scheme \o <<":", "/", "/">>, Conn!Lowered(url))
       /\ SubSeq(url, Len(u.scheme) + 4, pos - 1) \in {u.host, <<"[">> \o u.host \o <<"]">>}
       /\ Conn!From(url, end + 1) = u.path
  BY <1>6, <1>8, <1>10, <1>13
<1>17. end = Len(url) - Len(u.path) /\ digits = SubSeq(url, pos + 1, end)
  BY <1>14
<1> DEFINE Reads(p) ==
  LET host == SubSeq(url, Len(u.scheme) + 4, p - 1)
      e == Len(url) - Len(u.path)
      d == SubSeq(url, p + 1, e)
      total[n \in 0..Len(d)] == IF n = 0 THEN 0 ELSE total[n - 1] * 10 + Conn!Number(d[n])
      s == total[Len(d)]
  IN /\ Conn!Lowered(SubSeq(url, 1, Len(u.scheme))) = u.scheme
     /\ Conn!IsPrefix(u.scheme \o <<":", "/", "/">>, Conn!Lowered(url))
     /\ host \in {u.host, <<"[">> \o u.host \o <<"]">>}
     /\ Conn!From(url, e + 1) = u.path
     /\ \/ p = e + 1 /\ (u.port = 0 \/ u.port = DefaultPort[u.scheme])
        \/ /\ Conn!Is(url, p, {":"}) /\ p < e
           /\ \A i \in 1..Len(d) : Conn!IsDigit(d, i)
           /\ s = u.port \/ (s = 0 /\ u.port = DefaultPort[u.scheme])
<1> HIDE DEF end, digits
<1>18. Reads(pos)
  <2>1. /\ Conn!From(url, end + 1) = u.path /\ end = Len(url) - Len(u.path)
        /\ digits = SubSeq(url, pos + 1, Len(url) - Len(u.path))
    BY <1>16, <1>17
  <2>2. sum = (CHOOSE total : total = [n \in 0..Len(digits) |->
                 IF n = 0 THEN 0 ELSE total[n - 1] * 10 + Conn!Number(digits[n])])[Len(digits)]
    BY DEF sum
  <2> QED BY <1>15, <1>16, <2>1, <2>2, Zenon
<1> HIDE DEF Reads
<1>19. \E p \in Len(u.scheme) + 4 .. Len(url) + 1 : Reads(p)
  BY <1>12, <1>18
<1> QED BY <1>19, Zenon DEF Conn!UrlIsRead, u, url, Reads

\* thalovant_mqtt_endpoint: the broker's address may lose a slash, and gets a scheme.
Follows(a, b) ==
  /\ Len(b) \in {Len(a), Len(a) - 1} /\ Len(b) \in Nat \ {0}
  /\ \A k \in 2..Len(b) : b[k] = a[k]
  /\ Len(b) # Len(a) => a[Len(a)] = "/"

LEMMA SameThere ==
  ASSUME NEW S, NEW a \in Seq(S), NEW b \in Seq(S), Follows(a, b),
         NEW i \in 2..Len(b) + 1, NEW set, "/" \notin set
  PROVE  Conn!Is(a, i, set) <=> Conn!Is(b, i, set)
<1>1. CASE i \in 1..Len(b)
  <2>1. b[i] = a[i] /\ i \in 1..Len(a)
    BY <1>1 DEF Follows
  <2> QED BY <1>1, <2>1 DEF Conn!Is
<1>2. CASE i = Len(b) + 1
  <2>1. i \notin 1..Len(b) /\ (i \in 1..Len(a) => i = Len(a) /\ a[i] = "/")
    BY <1>2 DEF Follows
  <2> QED BY <2>1 DEF Conn!Is
<1> QED BY <1>1, <1>2

LEMMA SamePart ==
  ASSUME NEW S, NEW a \in Seq(S), NEW b \in Seq(S), Follows(a, b),
         NEW i \in 2..Len(b) + 1, NEW k \in i..Len(b) + 1
  PROVE  SubSeq(a, i, k - 1) = SubSeq(b, i, k - 1)
<1> DEFINE p == SubSeq(a, i, k - 1)
           q == SubSeq(b, i, k - 1)
<1>1. /\ i \in Nat \ {0} /\ k - 1 \in Nat /\ i <= k - 1 + 1 /\ k - 1 <= Len(b) /\ k - 1 <= Len(a)
  BY DEF Follows
<1>2. /\ p \in Seq(S) /\ Len(p) = k - 1 - i + 1
      /\ \A j \in 1..k - 1 - i + 1 : p[j] = a[i + j - 1]
  BY <1>1, PartIs
<1>3. /\ q \in Seq(S) /\ Len(q) = k - 1 - i + 1
      /\ \A j \in 1..k - 1 - i + 1 : q[j] = b[i + j - 1]
  BY <1>1, PartIs
<1> HIDE DEF p, q
<1>4. ASSUME NEW j \in 1..k - 1 - i + 1 PROVE p[j] = q[j]
  <2>1. i + j - 1 \in 2..Len(b)
    OBVIOUS
  <2> QED BY <1>2, <1>3, <2>1 DEF Follows
<1>5. Len(p) = Len(q) /\ \A j \in 1..Len(p) : p[j] = q[j]
  BY <1>2, <1>3, <1>4
<1>6. p = q
  BY <1>2, <1>3, <1>5, SameText
<1> QED BY <1>6 DEF p, q

\* Both have the host and the port in the same place.
LEMMA SameHost ==
  ASSUME NEW S, NEW a \in Seq(S), NEW b \in Seq(S), Follows(a, b), NEW i \in 2..Len(b) + 1,
         Conn!HostOf(a, i).host # <<>>
  PROVE  Conn!HostOf(a, i) = Conn!HostOf(b, i)
<1>0. Conn!Is(a, i, {"["}) <=> Conn!Is(b, i, {"["})
  <2>1. "/" \notin {"["}
    OBVIOUS
  <2> QED BY <2>1, SameThere
<1>i. i \in 1..Len(b) + 1 /\ i \in 1..Len(a) + 1 /\ Len(a) \in Nat /\ Len(b) \in Nat
  BY DEF Follows
<1>1. CASE Conn!Is(a, i, {"["})
  <2> DEFINE close == Conn!First(a, i + 1, {"]"})
             other == Conn!First(b, i + 1, {"]"})
  <2>1. i + 1 \in 1..Len(a) + 1 /\ i + 1 \in 1..Len(b) + 1
    BY <1>0, <1>1, <1>i DEF Conn!Is
  <2>2. FirstAt(a, i + 1, {"]"}, close)
    BY <2>1, FirstIs
  <2>3. /\ Conn!HostOf(a, i) = IF close > Len(a) THEN [host |-> <<>>, next |-> close]
                               ELSE [host |-> SubSeq(a, i + 1, close - 1), next |-> close + 1]
        /\ Conn!HostOf(b, i) = IF other > Len(b) THEN [host |-> <<>>, next |-> other]
                               ELSE [host |-> SubSeq(b, i + 1, other - 1), next |-> other + 1]
    BY <1>0, <1>1, Zenon DEF Conn!HostOf
  <2> HIDE DEF close
  <2>4. ~(close > Len(a))
    <3>1. [host |-> <<>>, next |-> close].host = <<>>
      OBVIOUS
    <3> QED BY <2>3, <3>1
  <2>5. close \in i + 1..Len(a) /\ a[close] = "]" /\ Conn!Is(a, close, {"]"})
    BY <2>2, <2>4 DEF FirstAt, Conn!Is
  <2>6. close \in i + 1..Len(b)
    BY <2>5 DEF Follows
  <2>7. FirstAt(b, i + 1, {"]"}, close)
    <3>1. "/" \notin {"]"}
      OBVIOUS
    <3>2. ASSUME NEW j \in i + 1..close PROVE Conn!Is(a, j, {"]"}) <=> Conn!Is(b, j, {"]"})
      <4>1. j \in 2..Len(b) + 1
        BY <2>6
      <4> QED BY <3>1, <4>1, SameThere
    <3>3. \A j \in i + 1..close - 1 : j \in i + 1..close /\ ~Conn!Is(b, j, {"]"})
      BY <2>2, <2>6, <3>2 DEF FirstAt
    <3>4. close \in i + 1..close /\ close \in i + 1..Len(b) + 1
      BY <2>6
    <3> QED BY <2>5, <3>2, <3>3, <3>4 DEF FirstAt
  <2>8. other = close
    BY <2>1, <2>7, FirstIs
  <2>9. ~(other > Len(b))
    <3> HIDE DEF other
    <3> QED BY <2>6, <2>8
  <2>10. SubSeq(a, i + 1, close - 1) = SubSeq(b, i + 1, close - 1)
    <3>1. i + 1 \in 2..Len(b) + 1 /\ close \in i + 1..Len(b) + 1
      BY <2>6
    <3> QED BY <3>1, SamePart
  <2> HIDE DEF other
  <2> QED BY <2>3, <2>4, <2>8, <2>9, <2>10
<1>2. CASE ~Conn!Is(a, i, {"["})
  <2> DEFINE set == {":", "/", "?"}
             end == Conn!First(a, i, set)
             other == Conn!First(b, i, set)
  <2>1. /\ Conn!HostOf(a, i) = [host |-> SubSeq(a, i, end - 1), next |-> end]
        /\ Conn!HostOf(b, i) = [host |-> SubSeq(b, i, other - 1), next |-> other]
    BY <1>0, <1>2, Zenon DEF Conn!HostOf
  <2>2. FirstAt(a, i, set, end)
    <3> HIDE DEF set
    <3> QED BY <1>i, FirstIs
  <2>3. "/" \in set
    OBVIOUS
  <2> HIDE DEF set, end
  <2>4. end \in i..Len(a) + 1 /\ (end > Len(a) \/ Conn!Is(a, end, set)) /\ \A j \in i..end - 1 : ~Conn!Is(a, j, set)
    BY <2>2 DEF FirstAt
  <2>5. end \in i..Len(b) + 1
    <3> SUFFICES ASSUME end > Len(b) + 1 PROVE FALSE
      BY <1>i, <2>4
    <3>1. Len(a) = Len(b) + 1 /\ a[Len(a)] = "/" /\ Len(a) \in i..end - 1 /\ Len(a) \in 1..Len(a)
      BY <1>i, <2>4 DEF Follows
    <3>2. Conn!Is(a, Len(a), set)
      BY <2>3, <3>1 DEF Conn!Is
    <3> QED BY <2>4, <3>1, <3>2
  <2>6. ASSUME NEW j \in i..Len(b) PROVE Conn!Is(a, j, set) <=> Conn!Is(b, j, set)
    <3>1. j \in 1..Len(b) /\ j \in 1..Len(a) /\ b[j] = a[j]
      BY DEF Follows
    <3> QED BY <3>1 DEF Conn!Is
  <2>7. FirstAt(b, i, set, end)
    <3>1. \A j \in i..end - 1 : j \in i..Len(b)
      BY <2>5
    <3>2. end > Len(b) \/ (end \in i..Len(b) /\ ~(end > Len(a)))
      BY <2>5 DEF Follows
    <3> QED BY <2>4, <2>5, <2>6, <3>1, <3>2 DEF FirstAt
  <2>8. other = end
    BY <1>i, <2>7, FirstIs
  <2>9. SubSeq(a, i, end - 1) = SubSeq(b, i, end - 1)
    BY <2>5, SamePart
  <2> HIDE DEF other
  <2> QED BY <2>1, <2>8, <2>9
<1> QED BY <1>1, <1>2

LEMMA SamePort ==
  ASSUME NEW S, NEW a \in Seq(S), NEW b \in Seq(S), Follows(a, b), NEW i \in 2..Len(b) + 1
  PROVE  Conn!PortOf(a, i).port = Conn!PortOf(b, i).port
<1>0. Conn!Is(a, i, {":"}) <=> Conn!Is(b, i, {":"})
  <2>1. "/" \notin {":"}
    OBVIOUS
  <2> QED BY <2>1, SameThere
<1>i. i \in 1..Len(b) + 1 /\ i \in 1..Len(a) + 1 /\ Len(a) \in Nat /\ Len(b) \in Nat
  BY DEF Follows
<1>1. CASE ~Conn!Is(a, i, {":"})
  <2>1. Conn!PortOf(a, i) = [given |-> FALSE, port |-> 0, next |-> i]
    BY <1>1, Zenon DEF Conn!PortOf
  <2>2. Conn!PortOf(b, i) = [given |-> FALSE, port |-> 0, next |-> i]
    BY <1>0, <1>1, Zenon DEF Conn!PortOf
  <2> QED BY <2>1, <2>2
<1>2. CASE Conn!Is(a, i, {":"})
  <2> DEFINE e == Conn!PortOf(a, i).next
             f == Conn!PortOf(b, i).next
  <2>1. DigitsTo(a, i + 1, e) /\ Conn!PortOf(a, i).port = Conn!PortSum(SubSeq(a, i + 1, e - 1))
    BY <1>2, <1>i, PortIs
  <2>2. DigitsTo(b, i + 1, f) /\ Conn!PortOf(b, i).port = Conn!PortSum(SubSeq(b, i + 1, f - 1))
    BY <1>0, <1>2, <1>i, PortIs
  <2> HIDE DEF e, f
  <2>3. i \in 2..Len(b) /\ i + 1 \in 1..Len(b) + 1 /\ i + 1 \in 2..Len(b) + 1
    BY <1>0, <1>2, <1>i DEF Conn!Is
  <2>4. e \in i + 1..Len(a) + 1 /\ ~Conn!IsDigit(a, e) /\ \A j \in i + 1..e - 1 : Conn!IsDigit(a, j)
    BY <2>1 DEF DigitsTo
  <2>5. e \in i + 1..Len(b) + 1
    <3> SUFFICES ASSUME e > Len(b) + 1 PROVE FALSE
      BY <1>i, <2>4
    <3>1. Len(a) = Len(b) + 1 /\ a[Len(a)] = "/" /\ Len(a) \in i + 1..e - 1
      BY <1>i, <2>3, <2>4 DEF Follows
    <3>2. Conn!IsDigit(a, Len(a))
      BY <2>4, <3>1
    <3> QED BY <3>1, <3>2 DEF Conn!IsDigit, Conn!Is, Conn!Digit
  <2>6. ASSUME NEW j \in i + 1..Len(b) + 1 PROVE Conn!IsDigit(a, j) <=> Conn!IsDigit(b, j)
    <3>1. "/" \notin Conn!Digit /\ j \in 2..Len(b) + 1
      BY DEF Conn!Digit
    <3> QED BY <3>1, SameThere DEF Conn!IsDigit
  <2>7. DigitsTo(b, i + 1, e)
    <3>1. \A j \in i + 1..e - 1 : j \in i + 1..Len(b) + 1
      BY <2>5
    <3> QED BY <2>4, <2>5, <2>6, <3>1 DEF DigitsTo
  <2>8. e = f
    BY <2>2, <2>3, <2>7, DigitsEnd
  <2>9. SubSeq(a, i + 1, e - 1) = SubSeq(b, i + 1, e - 1)
    BY <2>3, <2>5, SamePart
  <2> QED BY <2>1, <2>2, <2>8, <2>9
<1> QED BY <1>1, <1>2

LEMMA SameSep ==
  ASSUME NEW S, NEW a \in Seq(S), NEW b \in Seq(S), Follows(a, b), {":", "/"} \subseteq S,
         Conn!Separators(a) # {}, SepOf(a) # 1, Conn!Separators(b) # {}, SepOf(b) # 1
  PROVE  SepOf(a) = SepOf(b)
<1> DEFINE x == SepOf(a)
           y == SepOf(b)
<1>1. /\ x \in Conn!Separators(a) /\ \A j \in Conn!Separators(a) : x <= j
      /\ x \in 1..(Len(a) - 2) /\ a[x] = ":" /\ a[x + 1] = "/" /\ a[x + 2] = "/"
  BY SepIs
<1>2. /\ y \in Conn!Separators(b) /\ \A j \in Conn!Separators(b) : y <= j
      /\ y \in 1..(Len(b) - 2) /\ b[y] = ":" /\ b[y + 1] = "/" /\ b[y + 2] = "/"
  BY SepIs
<1>3. x # 1 /\ y # 1
  OBVIOUS
<1> HIDE DEF x, y
<1>4. Len(b) \in {Len(a), Len(a) - 1} /\ Len(a) \in Nat /\ Len(b) \in Nat /\ \A k \in 2..Len(b) : b[k] = a[k]
  BY DEF Follows
<1>5. x <= y
  <2>1. y \in 1..(Len(a) - 2) /\ y \in 2..Len(b) /\ y + 1 \in 2..Len(b) /\ y + 2 \in 2..Len(b)
    BY <1>2, <1>3, <1>4
  <2>2. a[y] = ":" /\ a[y + 1] = "/" /\ a[y + 2] = "/"
    BY <1>2, <1>4, <2>1
  <2>3. y \in Conn!Separators(a)
    BY <2>1, <2>2, SeparatorIs
  <2> QED BY <1>1, <2>3
<1>6. x \in 1..(Len(b) - 2)
  BY <1>1, <1>2, <1>4, <1>5
<1>7. y <= x
  <2>1. x \in 2..Len(b) /\ x + 1 \in 2..Len(b) /\ x + 2 \in 2..Len(b)
    BY <1>3, <1>4, <1>6
  <2>2. b[x] = ":" /\ b[x + 1] = "/" /\ b[x + 2] = "/"
    BY <1>1, <1>4, <2>1
  <2>3. x \in Conn!Separators(b)
    BY <1>6, <2>2, SeparatorIs
  <2> QED BY <1>2, <2>3
<1>8. x = y
  BY <1>1, <1>2, <1>5, <1>7
<1> QED BY <1>8 DEF x, y

LEMMA ReplacedIs ==
  ASSUME NEW S, NEW a \in Seq(S), a # <<>>, NEW x \in S
  PROVE  /\ <<x>> \o Tail(a) \in Seq(S) /\ Len(<<x>> \o Tail(a)) = Len(a)
         /\ (<<x>> \o Tail(a))[1] = x
         /\ \A k \in 2..Len(a) : (<<x>> \o Tail(a))[k] = a[k]
<1> DEFINE t == Tail(a)
           w == <<x>> \o t
<1>1. Len(a) \in Nat \ {0} /\ t \in Seq(S) /\ Len(t) = Len(a) - 1 /\ \A k \in 1..Len(t) : t[k] = a[k + 1]
  OBVIOUS
<1> HIDE DEF t
<1>2. /\ w \in Seq(S) /\ Len(w) = Len(t) + 1 /\ w[1] = x /\ \A k \in 1..Len(t) : w[1 + k] = t[k]
  BY <1>1
<1> HIDE DEF w
<1>3. ASSUME NEW k \in 2..Len(a) PROVE w[k] = a[k]
  <2>1. k - 1 \in 1..Len(t) /\ 1 + (k - 1) = k /\ k - 1 + 1 = k
    BY <1>1
  <2> QED BY <1>1, <1>2, <2>1
<1>4. w \in Seq(S) /\ Len(w) = Len(a) /\ w[1] = x /\ \A k \in 2..Len(a) : w[k] = a[k]
  BY <1>1, <1>2, <1>3
<1> QED BY <1>4 DEF w, t

LEMMA EndpointFollows ==
  ASSUME NEW S, NEW a \in Seq(S), Len(a) > 1, "mqtts" \in S, NEW tls
  PROVE  /\ Conn!MqttEndpoint(a, tls) \in Seq(S) /\ Follows(a, Conn!MqttEndpoint(a, tls))
         /\ Conn!MqttEndpoint(a, tls)[1] = IF Conn!Upgrades(a, tls) THEN "mqtts" ELSE a[1]
<1> DEFINE ups == Conn!Upgrades(a, tls)
           out == IF ups THEN <<"mqtts">> \o Tail(a) ELSE a
           b == Conn!MqttEndpoint(a, tls)
           less == SubSeq(out, 1, Len(out) - 1)
<1>0. b = IF Conn!Is(out, Len(out), {"/"}) THEN less ELSE out
  BY Zenon DEF Conn!MqttEndpoint, Conn!Front
<1>1. /\ out \in Seq(S) /\ Len(out) = Len(a) /\ out[1] = IF ups THEN "mqtts" ELSE a[1]
      /\ \A k \in 2..Len(a) : out[k] = a[k]
  <2>1. a # <<>>
    OBVIOUS
  <2>2. CASE ups
    <3>1. out = <<"mqtts">> \o Tail(a)
      BY <2>2
    <3> HIDE DEF out, ups
    <3>2. /\ out \in Seq(S) /\ Len(out) = Len(a) /\ out[1] = "mqtts"
          /\ \A k \in 2..Len(a) : out[k] = a[k]
      BY <2>1, <3>1, ReplacedIs
    <3> QED BY <2>2, <3>2
  <2>3. CASE ~ups
    <3>1. out = a
      BY <2>3
    <3> HIDE DEF out, ups
    <3> QED BY <2>3, <3>1
  <2> QED BY <2>2, <2>3
<1> HIDE DEF out, ups, b
<1>2. Len(a) \in Nat /\ Len(a) > 1
  OBVIOUS
<1>3. CASE Conn!Is(out, Len(out), {"/"})
  <2>1. /\ less \in Seq(S) /\ Len(less) = Len(out) - 1 - 1 + 1
        /\ \A k \in 1..Len(out) - 1 - 1 + 1 : less[k] = out[1 + k - 1]
    <3>1. 1 \in Nat \ {0} /\ Len(out) - 1 \in Nat /\ 1 <= Len(out) - 1 + 1 /\ Len(out) - 1 <= Len(out)
      BY <1>1, <1>2
    <3> QED BY <1>1, <3>1, PartIs
  <2>2. Len(out) - 1 - 1 + 1 = Len(a) - 1 /\ \A k \in 1..Len(a) - 1 : 1 + k - 1 = k
    BY <1>1, <1>2
  <2>3. b = less
    BY <1>0, <1>3
  <2> HIDE DEF less
  <2>4. b \in Seq(S) /\ Len(b) = Len(a) - 1 /\ \A k \in 1..Len(a) - 1 : b[k] = out[k]
    BY <2>1, <2>2, <2>3
  <2>5. b[1] = out[1] /\ \A k \in 2..Len(b) : b[k] = a[k]
    BY <1>1, <1>2, <2>4
  <2>6. a[Len(a)] = "/"
    <3>1. out[Len(out)] = "/"
      BY <1>3 DEF Conn!Is
    <3> QED BY <1>1, <1>2, <3>1
  <2>7. Follows(a, b)
    BY <1>2, <2>4, <2>5, <2>6 DEF Follows
  <2> QED BY <1>1, <2>4, <2>5, <2>7 DEF b, ups
<1>4. CASE ~Conn!Is(out, Len(out), {"/"})
  <2>1. b = out
    BY <1>0, <1>4
  <2>2. Follows(a, b)
    BY <1>1, <1>2, <2>1 DEF Follows
  <2> QED BY <1>1, <2>1, <2>2 DEF b, ups
<1> QED BY <1>3, <1>4

LEMMA UpgradesIs ==
  ASSUME NEW S, NEW a \in Seq(S), {"mqtt", ":", "/"} \subseteq S, Len(a) > 3
  PROVE  Conn!IsPrefix(<<"mqtt", ":", "/", "/">>, a)
           <=> a[1] = "mqtt" /\ a[2] = ":" /\ a[3] = "/" /\ a[4] = "/"
<1> DEFINE m == <<"mqtt", ":", "/", "/">>
           p == SubSeq(m, 1, 4)
           q == SubSeq(a, 1, 4)
<1>1. /\ m \in Seq(S) /\ Len(m) = 4 /\ m[1] = "mqtt" /\ m[2] = ":" /\ m[3] = "/" /\ m[4] = "/"
  OBVIOUS
<1>2. Conn!IsPrefix(m, a) <=> p = q
  <2>1. Len(m) <= Len(a)
    BY <1>1
  <2> HIDE DEF m
  <2> QED BY <1>1, <2>1 DEF Conn!IsPrefix
<1>3. /\ q \in Seq(S) /\ Len(q) = 4 - 1 + 1 /\ \A k \in 1..4 - 1 + 1 : q[k] = a[1 + k - 1]
  <2>1. 1 \in Nat \ {0} /\ 4 \in Nat /\ 1 <= 4 + 1 /\ 4 <= Len(a)
    OBVIOUS
  <2> HIDE DEF m
  <2> QED BY <2>1, PartIs
<1>4. /\ p \in Seq(S) /\ Len(p) = 4 - 1 + 1 /\ \A k \in 1..4 - 1 + 1 : p[k] = m[1 + k - 1]
  <2>1. 1 \in Nat \ {0} /\ 4 \in Nat /\ 1 <= 4 + 1 /\ 4 <= Len(m)
    BY <1>1
  <2> HIDE DEF m
  <2> QED BY <1>1, <2>1, PartIs
<1> HIDE DEF m, p, q
<1>5. /\ Len(p) = 4 /\ p[1] = "mqtt" /\ p[2] = ":" /\ p[3] = "/" /\ p[4] = "/"
      /\ Len(q) = 4 /\ q[1] = a[1] /\ q[2] = a[2] /\ q[3] = a[3] /\ q[4] = a[4]
  <2>1. /\ 4 - 1 + 1 = 4 /\ 1 + 1 - 1 = 1 /\ 1 + 2 - 1 = 2 /\ 1 + 3 - 1 = 3 /\ 1 + 4 - 1 = 4
        /\ 1 \in 1..4 /\ 2 \in 1..4 /\ 3 \in 1..4 /\ 4 \in 1..4
    OBVIOUS
  <2> QED BY <1>1, <1>3, <1>4, <2>1
<1>6. ASSUME a[1] = "mqtt", a[2] = ":", a[3] = "/", a[4] = "/" PROVE p = q
  <2>1. \A k \in 1..Len(p) : p[k] = q[k]
    <3> TAKE k \in 1..Len(p)
    <3>1. k = 1 \/ k = 2 \/ k = 3 \/ k = 4
      BY <1>5
    <3> QED BY <1>5, <1>6, <3>1
  <2> QED BY <1>3, <1>4, <1>5, <2>1, SameText
<1>7. p = q <=> a[1] = "mqtt" /\ a[2] = ":" /\ a[3] = "/" /\ a[4] = "/"
  BY <1>5, <1>6
<1> QED BY <1>2, <1>7 DEF m

LEMMA TlsKept ==
  ASSUME NEW S, Conn!Address \in Seq(S), {"mqtt", "mqtts", ":", "/", "[", "]"} \subseteq S,
         <<"mqtt">> \in DOMAIN DefaultPort, <<"mqtts">> \in DOMAIN DefaultPort, PortMax \in Nat
  PROVE  Conn!TlsIsKept
<1> DEFINE a == Conn!Address
<1>0. a \in Seq(S)
  OBVIOUS
<1> HIDE DEF a
<1> USE <1>0
<1>1. SUFFICES ASSUME NEW tls \in BOOLEAN,
                      Conn!EndpointParse(a).rc = "OK", Conn!EndpointParse(Conn!MqttEndpoint(a, tls)).rc = "OK"
      PROVE  LET asked == Conn!EndpointParse(a)
                 connects == Conn!EndpointParse(Conn!MqttEndpoint(a, tls))
             IN /\ connects.host = asked.host
                /\ connects.port = asked.port
                     \/ (Conn!Upgrades(a, tls) /\ asked.port = DefaultPort[<<"mqtt">>]
                         /\ connects.port = DefaultPort[<<"mqtts">>])
                /\ connects.tls = (asked.tls \/ (tls /\ Conn!Is(a, 1, {"mqtt"}) /\ asked.scheme = <<"mqtt">>))
  BY Zenon DEF Conn!TlsIsKept, a
<1> DEFINE b == Conn!MqttEndpoint(a, tls)
           ups == Conn!Upgrades(a, tls)
           n == SepOf(a)
           asked == Conn!EndpointParse(a)
           connects == Conn!EndpointParse(b)
           p == PortAt(a).port
<1>2. Parses(a) /\ Parses(b)
  BY <1>1, ParsedIs
<1>s. {":", "/"} \subseteq S /\ {"mqtt", ":", "/"} \subseteq S /\ {":", "/", "[", "]"} \subseteq S /\ "mqtts" \in S
  OBVIOUS
<1>3. Apart(a)
  BY <1>2, <1>s, ApartIs
<1>4. Len(a) \in Nat /\ Len(a) > 3
  BY <1>3 DEF Apart
<1>5. b \in Seq(S) /\ Follows(a, b) /\ b[1] = IF ups THEN "mqtts" ELSE a[1]
  <2>1. Len(a) > 1
    BY <1>4
  <2> QED BY <1>s, <2>1, EndpointFollows
<1> HIDE DEF b, ups
<1>6. Apart(b)
  BY <1>2, <1>5, <1>s, ApartIs
<1>7. SepOf(b) = n
  <2>1. Conn!Separators(a) # {} /\ SepOf(a) # 1 /\ Conn!Separators(b) # {} /\ SepOf(b) # 1
    BY <1>2 DEF Parses
  <2> QED BY <1>5, <1>s, <2>1, SameSep
<1>8. n \in 2..(Len(a) - 2) /\ n \in 2..(Len(b) - 2) /\ n + 3 \in 2..Len(b) + 1
      /\ a[n] = ":" /\ a[n + 1] = "/" /\ a[n + 2] = "/"
  <2>1. n \in 2..(Len(a) - 2) /\ a[n] = ":" /\ a[n + 1] = "/" /\ a[n + 2] = "/"
    BY <1>3 DEF Apart
  <2>2. SepOf(b) \in 2..(Len(b) - 2)
    BY <1>6 DEF Apart
  <2>3. n \in 2..(Len(b) - 2)
    <3> HIDE DEF n
    <3> QED BY <1>7, <2>2
  <2>4. n + 3 \in 2..Len(b) + 1
    <3> HIDE DEF n
    <3> QED BY <2>3
  <2> QED BY <2>1, <2>3, <2>4
<1>9. HostAt(a) = HostAt(b)
  <2>1. Conn!HostOf(a, n + 3).host # <<>>
    BY <1>2, Zenon DEF Parses, HostAt
  <2> HIDE DEF n
  <2>2. Conn!HostOf(a, n + 3) = Conn!HostOf(b, n + 3)
    BY <1>5, <1>8, <2>1, SameHost
  <2> QED BY <1>7, <2>2, Zenon DEF HostAt, n
<1>10. PortAt(b).port = p
  <2>1. HostAt(b).next \in 2..Len(b) + 1
    <3>1. HostAt(b).next \in SepOf(b) + 3..Len(b) + 1 /\ SepOf(b) \in 2..(Len(b) - 2)
      BY <1>6 DEF Apart
    <3> QED BY <3>1
  <2>2. Conn!PortOf(a, HostAt(b).next).port = Conn!PortOf(b, HostAt(b).next).port
    BY <1>5, <2>1, SamePort
  <2> QED BY <1>9, <2>2, Zenon DEF PortAt
<1>11. /\ asked.scheme = SchemeAt(a) /\ asked.host = HostAt(a).host
       /\ asked.tls = (SchemeAt(a) \in Conn!Secure) /\ asked.port = PortMeant(SchemeAt(a), p)
  <2>1. asked = ReadAs(a)
    BY <1>2, Zenon DEF Parses
  <2> HIDE DEF asked
  <2> QED BY <2>1 DEF ReadAs
<1>12. /\ connects.host = HostAt(b).host
       /\ connects.tls = (SchemeAt(b) \in Conn!Secure) /\ connects.port = PortMeant(SchemeAt(b), PortAt(b).port)
  <2>1. connects = ReadAs(b)
    BY <1>2, Zenon DEF Parses
  <2> HIDE DEF connects
  <2> QED BY <2>1 DEF ReadAs
<1> DEFINE front == SubSeq(a, 1, n - 1)
           head == SubSeq(b, 1, n - 1)
<1>13. SchemeAt(a) = Conn!Lowered(front) /\ SchemeAt(b) = Conn!Lowered(head)
  BY <1>7, Zenon DEF SchemeAt
<1> HIDE DEF n, asked, connects, p
<1>14. /\ front \in Seq(S) /\ Len(front) = n - 1 /\ \A k \in 1..n - 1 : front[k] = a[k]
       /\ head \in Seq(S) /\ Len(head) = n - 1 /\ \A k \in 1..n - 1 : head[k] = b[k]
  <2>1. 1 \in Nat \ {0} /\ n - 1 \in Nat /\ 1 <= n - 1 + 1 /\ n - 1 <= Len(a) /\ n - 1 <= Len(b)
    BY <1>5, <1>8
  <2>2. /\ front \in Seq(S) /\ Len(front) = n - 1 - 1 + 1 /\ \A k \in 1..n - 1 - 1 + 1 : front[k] = a[1 + k - 1]
    BY <2>1, PartIs
  <2>3. /\ head \in Seq(S) /\ Len(head) = n - 1 - 1 + 1 /\ \A k \in 1..n - 1 - 1 + 1 : head[k] = b[1 + k - 1]
    BY <1>5, <2>1, PartIs
  <2>4. n - 1 - 1 + 1 = n - 1 /\ \A k \in 1..n - 1 : 1 + k - 1 = k
    BY <1>8
  <2> HIDE DEF front, head
  <2> QED BY <2>2, <2>3, <2>4
<1> HIDE DEF front, head
<1>15. ups = (tls /\ Conn!IsPrefix(<<"mqtt", ":", "/", "/">>, a))
  BY Zenon DEF ups, Conn!Upgrades
<1>16. Conn!IsPrefix(<<"mqtt", ":", "/", "/">>, a) <=> a[1] = "mqtt" /\ a[2] = ":" /\ a[3] = "/" /\ a[4] = "/"
  BY <1>4, <1>s, UpgradesIs
<1>17. CASE ups
  <2>1. tls /\ a[1] = "mqtt" /\ a[2] = ":" /\ a[3] = "/" /\ a[4] = "/" /\ b[1] = "mqtts"
    BY <1>5, <1>15, <1>16, <1>17
  <2>2. n = 2
    <3>1. Conn!Separators(a) # {}
      BY <1>2 DEF Parses
    <3>2. 2 \in Conn!Separators(a)
      <4>1. 2 \in 1..(Len(a) - 2) /\ 2 + 1 = 3 /\ 2 + 2 = 4
        BY <1>4
      <4> QED BY <1>s, <2>1, <4>1, SeparatorIs
    <3>3. n <= 2
      BY <1>s, <3>1, <3>2, SepIs DEF n
    <3> QED BY <1>8, <3>3
  <2>3. Len(front) = 1 /\ front[1] = "mqtt" /\ Len(head) = 1 /\ head[1] = "mqtts"
    BY <1>14, <2>1, <2>2
  <2>4. SchemeAt(a) = <<"mqtt">> /\ SchemeAt(b) = <<"mqtts">>
    <3>1. /\ SchemeAt(a) \in Seq(S) /\ Len(SchemeAt(a)) = 1 /\ SchemeAt(a)[1] = "mqtt"
      <4>1. /\ Conn!Lowered(front) \in Seq(S) /\ Len(Conn!Lowered(front)) = Len(front)
            /\ \A i \in 1..Len(front) : Conn!Lowered(front)[i] = IF front[i] = "MQTT" THEN "mqtt" ELSE front[i]
        BY <1>14, <1>s, LoweredIs
      <4> QED BY <1>13, <2>3, <4>1
    <3>2. /\ SchemeAt(b) \in Seq(S) /\ Len(SchemeAt(b)) = 1 /\ SchemeAt(b)[1] = "mqtts"
      <4>1. /\ Conn!Lowered(head) \in Seq(S) /\ Len(Conn!Lowered(head)) = Len(head)
            /\ \A i \in 1..Len(head) : Conn!Lowered(head)[i] = IF head[i] = "MQTT" THEN "mqtt" ELSE head[i]
        BY <1>14, <1>s, LoweredIs
      <4> QED BY <1>13, <2>3, <4>1
    <3> QED BY <3>1, <3>2
  <2>5. SchemeAt(b) \in Conn!Secure
    BY <2>4 DEF Conn!Secure
  <2>6. Conn!Is(a, 1, {"mqtt"})
    BY <1>4, <2>1 DEF Conn!Is
  <2>7. connects.port = asked.port \/ (asked.port = DefaultPort[<<"mqtt">>] /\ connects.port = DefaultPort[<<"mqtts">>])
    BY <1>10, <1>11, <1>12, <2>4, Zenon DEF PortMeant
  <2>8. connects.tls = TRUE /\ tls = TRUE /\ asked.scheme = <<"mqtt">>
    BY <1>11, <1>12, <2>1, <2>4, <2>5
  <2>9. connects.host = asked.host
    BY <1>9, <1>11, <1>12
  <2>10. connects.tls = (asked.tls \/ (tls /\ Conn!Is(a, 1, {"mqtt"}) /\ asked.scheme = <<"mqtt">>))
    BY <2>6, <2>8
  <2> QED BY <1>17, <2>7, <2>9, <2>10, Zenon DEF asked, connects, b, ups
<1>18. CASE ~ups
  <2>1. head = front
    <3>1. \A k \in 1..n - 1 : b[k] = a[k]
      <4> TAKE k \in 1..n - 1
      <4>1. k = 1 \/ k \in 2..Len(b)
        BY <1>8
      <4> QED BY <1>5, <1>18, <4>1 DEF Follows
    <3>2. Len(head) = Len(front) /\ \A k \in 1..Len(head) : head[k] = front[k]
      BY <1>14, <3>1
    <3> QED BY <1>14, <3>2, SameText
  <2>2. SchemeAt(b) = SchemeAt(a)
    BY <1>13, <2>1
  <2>3. connects.host = asked.host /\ connects.port = asked.port /\ connects.tls = asked.tls
    BY <1>9, <1>10, <1>11, <1>12, <2>2
  <2>4. ~(tls /\ Conn!Is(a, 1, {"mqtt"}) /\ asked.scheme = <<"mqtt">>)
    <3> SUFFICES ASSUME tls, Conn!Is(a, 1, {"mqtt"}), asked.scheme = <<"mqtt">> PROVE FALSE
      OBVIOUS
    <3>1. a[1] = "mqtt"
      BY DEF Conn!Is
    <3>2. Len(SchemeAt(a)) = n - 1
      <4>1. Len(Conn!Lowered(front)) = Len(front)
        BY <1>14, <1>s, LoweredIs
      <4> QED BY <1>13, <1>14, <4>1
    <3>3. n = 2
      <4>1. Len(SchemeAt(a)) = 1
        <5>1. SchemeAt(a) = <<"mqtt">>
          BY <1>11
        <5> QED BY <5>1
      <4>2. n \in Nat
        BY <1>8
      <4>3. n - 1 = 1
        BY <3>2, <4>1, Zenon
      <4> QED BY <4>2, <4>3
    <3>4. a[2] = ":" /\ a[3] = "/" /\ a[4] = "/"
      BY <1>8, <3>3
    <3> QED BY <1>15, <1>16, <1>18, <3>1, <3>4
  <2>5. connects.tls = (asked.tls \/ (tls /\ Conn!Is(a, 1, {"mqtt"}) /\ asked.scheme = <<"mqtt">>))
    <3>1. asked.tls \in BOOLEAN
      BY <1>11
    <3> QED BY <2>3, <2>4, <3>1
  <2> QED BY <2>3, <2>5, Zenon DEF asked, connects, b, ups
<1> QED BY <1>17, <1>18

\* get_string: a value is the first alias that is not null.
HasText(v) == \E n \in 1..Len(v) : v[n] \notin {"null", Conn!Empty} /\ \A k \in 1..(n - 1) : v[k] = "null"
LEMMA AliasIs ==
  ASSUME NEW S, NEW v \in Seq(S)
  PROVE  /\ Conn!Alias(v) # Conn!Empty <=> HasText(v)
         /\ Conn!Alias(v) # Conn!Empty => \E n \in 1..Len(v) : v[n] = Conn!Alias(v)
<1> DEFINE some == {n \in 1..Len(v) : v[n] # "null"}
           low == Conn!Min(some)
<1>0. Len(v) \in Nat
  OBVIOUS
<1>1. Conn!Alias(v) = IF some = {} THEN Conn!Empty ELSE v[low]
  BY Zenon DEF Conn!Alias
<1>2. some \subseteq Nat /\ \A n : n \in some <=> n \in 1..Len(v) /\ v[n] # "null"
  OBVIOUS
<1>3. some # {} => low \in some /\ \A n \in some : low <= n
  <2> HIDE DEF some
  <2> QED BY <1>2, MinIs
<1> HIDE DEF some, low
<1>4. ASSUME Conn!Alias(v) # Conn!Empty
      PROVE  low \in 1..Len(v) /\ v[low] = Conn!Alias(v) /\ HasText(v)
  <2>1. some # {} /\ v[low] = Conn!Alias(v)
    BY <1>1, <1>4
  <2>2. low \in 1..Len(v) /\ v[low] # "null" /\ \A n \in some : low <= n
    BY <1>2, <1>3, <2>1
  <2>3. \A k \in 1..(low - 1) : k \in 1..Len(v) /\ ~(low <= k)
    BY <1>0, <2>2
  <2>4. \A k \in 1..(low - 1) : v[k] = "null"
    BY <1>2, <2>2, <2>3
  <2> QED BY <1>4, <2>1, <2>2, <2>4 DEF HasText
<1>5. ASSUME HasText(v) PROVE Conn!Alias(v) # Conn!Empty
  <2>1. PICK n \in 1..Len(v) : v[n] \notin {"null", Conn!Empty} /\ \A k \in 1..(n - 1) : v[k] = "null"
    BY <1>5 DEF HasText
  <2>2. n \in some /\ some # {}
    BY <1>2, <2>1
  <2>3. low \in 1..Len(v) /\ v[low] # "null" /\ low <= n
    BY <1>2, <1>3, <2>2
  <2>4. ~(low < n)
    <3>1. low < n => low \in 1..(n - 1)
      BY <2>3
    <3> QED BY <2>1, <2>3, <3>1
  <2>5. low = n
    BY <2>3, <2>4
  <2> QED BY <1>1, <2>1, <2>2, <2>5
<1> QED BY <1>4, <1>5

\* What a field of an identity holds.
FieldValue == Conn!Odd \cup {<<"text">>}
Word == {"null", "text", "slashes", "full", "overlong", "wrong", Conn!Empty}
LEMMA HeldIs ==
  ASSUME NEW v \in FieldValue
  PROVE  v \in Seq(Word) /\ (Conn!Alias(v) = "slashes" <=> v = <<"slashes">>)
<1>1. v \in Seq(Word)
  <2>1. Conn!Empty \in Word
    BY DEF Word
  <2>2. "null" \in Word /\ "text" \in Word /\ "slashes" \in Word /\ "full" \in Word /\ "overlong" \in Word /\ "wrong" \in Word
    BY DEF Word
  <2>3. /\ <<>> \in Seq(Word) /\ <<"null">> \in Seq(Word) /\ <<"null", "text">> \in Seq(Word)
        /\ <<"slashes">> \in Seq(Word) /\ <<"full">> \in Seq(Word) /\ <<"overlong">> \in Seq(Word)
        /\ <<"wrong">> \in Seq(Word) /\ <<"text">> \in Seq(Word)
    BY <2>2
  <2>4. <<Conn!Empty>> \in Seq(Word) /\ <<Conn!Empty, "text">> \in Seq(Word)
    BY <2>1, <2>2
  <2> QED BY <2>3, <2>4, Zenon DEF FieldValue, Conn!Odd
<1>e. Conn!Empty # "slashes"
  BY Zenon DEF Conn!Empty
<1>2. ASSUME Conn!Alias(v) = "slashes" PROVE v = <<"slashes">>
  <2>1. PICK n \in 1..Len(v) : v[n] = "slashes"
    BY <1>1, <1>2, <1>e, AliasIs
  <2>2. ~(\E k \in 1..Len(v) : v[k] = "slashes") \/ v = <<"slashes">>
    <3>1. CASE v \in {<<>>, <<"null">>, <<"null", "text">>, <<"full">>, <<"overlong">>, <<"wrong">>, <<"text">>}
      BY <3>1
    <3>2. CASE v \in {<<Conn!Empty>>, <<Conn!Empty, "text">>}
      BY <1>e, <3>2
    <3> QED BY <3>1, <3>2, Zenon DEF FieldValue, Conn!Odd
  <2> QED BY <2>1, <2>2
<1>3. ASSUME v = <<"slashes">> PROVE Conn!Alias(v) = "slashes"
  <2>1. HasText(v)
    <3>1. 1 \in 1..Len(v) /\ v[1] = "slashes" /\ \A k \in 1..(1 - 1) : v[k] = "null"
      BY <1>3
    <3>2. v[1] \notin {"null", Conn!Empty}
      BY <1>e, <3>1
    <3> QED BY <3>1, <3>2 DEF HasText
  <2>2. PICK n \in 1..Len(v) : v[n] = Conn!Alias(v)
    BY <1>1, <2>1, AliasIs
  <2>3. n = 1 /\ v[n] = "slashes"
    BY <1>3
  <2> QED BY <2>2, <2>3
<1> QED BY <1>1, <1>2, <1>3

Row == [field : Conn!ToSet(Conn!Fields), values : Conn!Odd]
LEMMA DocIs ==
  ASSUME rows \in Seq(Row), NEW field \in Conn!ToSet(Conn!Fields)
  PROVE  Conn!Doc[field] \in FieldValue
<1> DEFINE said == {i \in 1..Len(rows) : rows[i].field = field}
           at == CHOOSE i \in said : TRUE
<1>1. Conn!Doc[field] = IF said = {} THEN <<"text">> ELSE rows[at].values
  BY Zenon DEF Conn!Doc
<1>2. said # {} => at \in said
  <2> HIDE DEF said
  <2> QED BY Zenon
<1>3. said # {} => rows[at].values \in Conn!Odd
  <2> HIDE DEF at
  <2>1. said # {} => at \in 1..Len(rows)
    BY <1>2
  <2>2. \A i \in 1..Len(rows) : rows[i] \in Row
    <3> HIDE DEF said
    <3> QED OBVIOUS
  <2>3. \A r \in Row : r.values \in Conn!Odd
    BY DEF Row
  <2> HIDE DEF said
  <2> QED BY <2>1, <2>2, <2>3
<1> HIDE DEF said, at
<1> QED BY <1>1, <1>3 DEF FieldValue

LEMMA NamesAre == Conn!Required \subseteq Conn!ToSet(Conn!Fields) /\ Conn!Broker \subseteq Conn!ToSet(Conn!Fields)
<1>1. \A i \in 1..13 : Conn!Fields[i] \in Conn!ToSet(Conn!Fields)
  <2>1. DOMAIN Conn!Fields = 1..13
    BY DEF Conn!Fields
  <2> QED BY <2>1 DEF Conn!ToSet
<1>2. /\ Conn!Fields[1] = "access_key" /\ Conn!Fields[2] = "password" /\ Conn!Fields[4] = "site_id"
      /\ Conn!Fields[5] = "default_master" /\ Conn!Fields[10] = "endpoint" /\ Conn!Fields[11] = "username"
      /\ Conn!Fields[12] = "mqtt_password"
  BY DEF Conn!Fields
<1>3. /\ 1 \in 1..13 /\ 2 \in 1..13 /\ 4 \in 1..13 /\ 5 \in 1..13 /\ 10 \in 1..13 /\ 11 \in 1..13 /\ 12 \in 1..13
  OBVIOUS
<1>4. /\ {"access_key", "password", "site_id", "default_master"} \subseteq Conn!ToSet(Conn!Fields)
      /\ {"endpoint", "username", "mqtt_password"} \subseteq Conn!ToSet(Conn!Fields)
  BY <1>1, <1>2, <1>3
<1> QED BY <1>4, Zenon DEF Conn!Required, Conn!Broker

LEMMA ErrorsAre ==
  ASSUME NEW doc, NEW from \in Nat, NEW to \in Nat
  PROVE  /\ Conn!FirstError(doc, from, to) = "OK" <=> \A i \in from..to : Conn!FieldError(doc, Conn!Fields[i]) = "OK"
         /\ Conn!FirstError(doc, from, to) \in {"OK", "INVALID", "NOMEM"}
         /\ \A field : Conn!FieldError(doc, field) \in {"OK", "INVALID", "NOMEM"}
<1> DEFINE bad == {i \in from..to : Conn!FieldError(doc, Conn!Fields[i]) # "OK"}
<1>1. \A field : Conn!FieldError(doc, field) \in {"OK", "INVALID", "NOMEM"}
  BY DEF Conn!FieldError
<1>2. Conn!FirstError(doc, from, to) = IF bad = {} THEN "OK" ELSE Conn!FieldError(doc, Conn!Fields[Conn!Min(bad)])
  BY Zenon DEF Conn!FirstError
<1>3. bad # {} => Conn!Min(bad) \in bad
  <2>1. bad \subseteq Nat
    OBVIOUS
  <2> HIDE DEF bad
  <2> QED BY <2>1, MinIs
<1>4. bad = {} <=> \A i \in from..to : Conn!FieldError(doc, Conn!Fields[i]) = "OK"
  OBVIOUS
<1>5. bad # {} => Conn!FieldError(doc, Conn!Fields[Conn!Min(bad)]) # "OK"
  <2> DEFINE m == Conn!Min(bad)
  <2> HIDE DEF m
  <2>1. bad # {} => m \in bad
    BY <1>3 DEF m
  <2>2. bad # {} => Conn!FieldError(doc, Conn!Fields[m]) # "OK"
    BY <2>1
  <2> QED BY <2>2 DEF m
<1> HIDE DEF bad
<1> QED BY <1>1, <1>2, <1>4, <1>5, Zenon

LEMMA IdentityWhole ==
  ASSUME rows \in Seq(Row) PROVE Conn!IdentityIsWhole
<1> DEFINE doc == Conn!Doc
           own == Conn!FirstError(doc, 1, 8)
           broker == Conn!FirstError(doc, 10, 12)
           prefix == Conn!FieldError(doc, "topic_prefix")
           usable == \A field \in Conn!Broker : Conn!Value(doc, field) # Conn!Empty
           missing == \E field \in Conn!Required : Conn!Value(doc, field) = Conn!Empty
           identity == Conn!IdentityParse(doc)
           sound == \A i \in 1..8 : Conn!FieldError(doc, Conn!Fields[i]) = "OK"
           needed == \A field \in Conn!Required :
                       HasText(doc[field]) /\ (field = "default_master" => doc[field] # <<"slashes">>)
<1>1. identity = IF own # "OK" THEN Conn!Failed(own)
                 ELSE IF missing THEN Conn!Failed("MISSING")
                 ELSE IF doc["mqtt"] # <<"text">> THEN [rc |-> "OK", present |-> FALSE]
                 ELSE IF broker # "OK" THEN Conn!Failed(broker)
                 ELSE IF ~usable THEN [rc |-> "OK", present |-> FALSE]
                 ELSE IF prefix # "OK" THEN Conn!Failed(prefix)
                 ELSE [rc |-> "OK", present |-> TRUE]
  BY Zenon DEF Conn!IdentityParse
<1>2. /\ own = "OK" <=> sound
      /\ own \in {"OK", "INVALID", "NOMEM"} /\ broker \in {"OK", "INVALID", "NOMEM"}
      /\ prefix \in {"OK", "INVALID", "NOMEM"}
  <2>1. 1 \in Nat /\ 8 \in Nat /\ 10 \in Nat /\ 12 \in Nat
    OBVIOUS
  <2> HIDE DEF doc
  <2> QED BY <2>1, ErrorsAre
<1>3. ASSUME NEW field \in Conn!Required \cup Conn!Broker
      PROVE  /\ doc[field] \in FieldValue
             /\ Conn!Alias(doc[field]) # Conn!Empty <=> HasText(doc[field])
             /\ Conn!Alias(doc[field]) = "slashes" <=> doc[field] = <<"slashes">>
  <2>1. doc[field] \in FieldValue
    <3>1. field \in Conn!ToSet(Conn!Fields)
      BY NamesAre
    <3> QED BY <3>1, DocIs
  <2> HIDE DEF doc
  <2> QED BY <2>1, HeldIs, AliasIs
<1>4. \A field : Conn!Value(doc, field) =
        IF field \in {"default_master", "default_path"} /\ Conn!Alias(doc[field]) = "slashes"
        THEN Conn!Empty ELSE Conn!Alias(doc[field])
  BY Zenon DEF Conn!Value
<1> HIDE DEF doc
<1>5. ASSUME NEW field \in Conn!Required \cup Conn!Broker, Conn!Value(doc, field) # Conn!Empty
      PROVE  HasText(doc[field])
  BY <1>3, <1>4, <1>5, Zenon
<1>6. missing <=> ~needed
  <2>1. ASSUME NEW field \in Conn!Required
        PROVE  Conn!Value(doc, field) = Conn!Empty
                 <=> ~(HasText(doc[field]) /\ (field = "default_master" => doc[field] # <<"slashes">>))
    <3>1. field # "default_path"
      BY DEF Conn!Required
    <3>2. CASE field = "default_master" /\ doc[field] = <<"slashes">>
      BY <1>3, <1>4, <3>2, Zenon
    <3>3. CASE ~(field = "default_master" /\ doc[field] = <<"slashes">>)
      <4>1. Conn!Value(doc, field) = Conn!Alias(doc[field])
        BY <1>3, <1>4, <3>1, <3>3, Zenon
      <4> QED BY <1>3, <3>3, <4>1, Zenon
    <3> QED BY <3>2, <3>3
  <2> QED BY <2>1, Zenon
<1> HIDE DEF own, broker, prefix, usable, missing, identity, sound, needed
<1>f. \A code : Conn!Failed(code).rc = code
  BY DEF Conn!Failed
<1>7. identity.rc = "OK" => ~missing
  BY <1>1, <1>2, <1>f
<1>8. identity.rc = "OK" /\ identity.present => usable
  BY <1>1, <1>2, <1>f
<1>9. (identity.rc = "MISSING") = (sound /\ missing)
  <2>1. identity.rc \in {"OK", "INVALID", "NOMEM", "MISSING"}
    BY <1>1, <1>2, <1>f
  <2>2. sound \in BOOLEAN /\ missing \in BOOLEAN
    BY DEF sound, missing
  <2>3. identity.rc = "MISSING" <=> (sound /\ missing)
    BY <1>1, <1>2, <1>f
  <2> QED BY <2>2, <2>3
<1>10. doc["mqtt"] # <<"text">> /\ sound /\ identity.rc # "MISSING" => identity = [rc |-> "OK", present |-> FALSE]
  BY <1>1, <1>2, <1>f
<1>11. identity.rc = "OK" => \A field \in Conn!Required : HasText(doc[field])
  BY <1>5, <1>7, Zenon DEF missing
<1>12. identity.rc = "OK" /\ identity.present => \A field \in Conn!Broker : HasText(doc[field])
  BY <1>5, <1>8, Zenon DEF usable
<1>13. (identity.rc = "MISSING") = (sound /\ ~needed)
  <2>1. needed \in BOOLEAN /\ missing \in BOOLEAN
    BY DEF needed, missing
  <2> QED BY <1>6, <1>9, <2>1
<1> QED BY <1>10, <1>11, <1>12, <1>13, Zenon DEF Conn!IdentityIsWhole, identity, sound, needed, doc, HasText

\* The texts and the identities that are read are of the symbols and the values
\* they can have; of those every address, every prefix and every identity does.
ConnTypes == text \in Seq(Pieces) /\ rows \in Seq(Row)

\* ConnectsAsAsked (Connection): topics are concrete and of one place, an
\* address that is parsed is its parts put together, the upgrade to TLS keeps
\* host and port, and an identity is taken whole (topics.c, identity.c).
THEOREM ConnectsAsAskedHolds ==
  ASSUME Conn!ConnectionAssumption
  PROVE  Conn!Spec => []Conn!ConnectsAsAsked
<1>a. Pieces \subseteq Seq(Conn!Char)
  BY DEF Conn!ConnectionAssumption
<1>1. Conn!Init => ConnTypes
  BY DEF Conn!Init, ConnTypes
<1>2. ConnTypes /\ [Conn!Next]_Conn!vars => ConnTypes'
  <2> SUFFICES ASSUME ConnTypes, [Conn!Next]_Conn!vars PROVE ConnTypes'
    OBVIOUS
  <2> USE DEF ConnTypes
  <2>1. CASE Conn!GrowText
    BY <2>1 DEF Conn!GrowText
  <2>2. CASE Conn!GrowRows
    <3>1. PICK i \in 1..Len(Conn!Fields), v \in Conn!Odd :
            rows' = Append(rows, [field |-> Conn!Fields[i], values |-> v])
      BY <2>2 DEF Conn!GrowRows
    <3>2. Conn!Fields[i] \in Conn!ToSet(Conn!Fields)
      <4>1. DOMAIN Conn!Fields = 1..13 /\ Len(Conn!Fields) = 13
        BY DEF Conn!Fields
      <4> QED BY <4>1 DEF Conn!ToSet
    <3>3. [field |-> Conn!Fields[i], values |-> v] \in Row
      BY <3>2 DEF Row
    <3> DEFINE r == [field |-> Conn!Fields[i], values |-> v]
    <3> HIDE DEF r
    <3>4. r \in Row /\ rows' = Append(rows, r)
      BY <3>1, <3>3 DEF r
    <3>5. rows' \in Seq(Row)
      BY <3>4
    <3> QED BY <2>2, <3>5 DEF Conn!GrowRows
  <2>3. CASE UNCHANGED Conn!vars
    BY <2>3 DEF Conn!vars
  <2> QED BY <2>1, <2>2, <2>3 DEF Conn!Next
<1>3. ConnTypes => Conn!ConnectsAsAsked
  <2> SUFFICES ASSUME ConnTypes PROVE Conn!ConnectsAsAsked
    OBVIOUS
  <2>1. Conn!Address \in Seq(Conn!Char)
    <3>1. text \in Seq(Seq(Conn!Char))
      BY <1>a DEF ConnTypes
    <3> QED BY <3>1, AddressIs DEF Conn!Address
  <2>2. {"mqtt", "mqtts", ":", "/", "[", "]"} \subseteq Conn!Char
    BY DEF Conn!Char
  <2>3. /\ PortMax \in Nat /\ TopicCap \in Nat
        /\ <<"mqtt">> \in DOMAIN DefaultPort /\ <<"mqtts">> \in DOMAIN DefaultPort
    BY DEF Conn!ConnectionAssumption
  <2>4. Conn!TopicsAreConcrete
    <3> DEFINE url == Conn!Address
    <3>1. url \in Seq(Conn!Char) /\ url = Conn!Address
      BY <2>1
    <3> HIDE DEF url
    <3> QED BY <2>3, <3>1, TopicsConcrete
  <2>5. Conn!UrlIsRead
    <3>1. {"mqtt", ":", "/", "[", "]"} \subseteq Conn!Char
      BY <2>2
    <3> QED BY <2>1, <2>3, <3>1, AddressRead
  <2>6. Conn!TlsIsKept
    BY <2>1, <2>2, <2>3, TlsKept
  <2>7. Conn!IdentityIsWhole
    BY IdentityWhole DEF ConnTypes
  <2> QED BY <2>4, <2>5, <2>6, <2>7 DEF Conn!ConnectsAsAsked
<1> QED BY <1>1, <1>2, <1>3, PTL DEF Conn!Spec
=============================================================================
