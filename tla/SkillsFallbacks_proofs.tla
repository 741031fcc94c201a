----------------------- MODULE SkillsFallbacks_proofs -----------------------
(***************************************************************************)
(* The walk of SkillsFallbacks is right for every list and every set of    *)
(* ids.  The inductive invariant says what one pass has established so far *)
(* (FoundIsSmallest, ReadIsSound) and what the finished passes left behind *)
(* (LastIsLast, DeliveredIsSound).                                         *)
(***************************************************************************)
EXTENDS SkillsFallbacks, TLAPS

\* last is where the deliveries have got to.
LastIsLast ==
  /\ delivered = <<>> => last = None
  /\ delivered # <<>> => last = delivered[Len(delivered)]

\* found is the smallest id above last among the rows read in this pass.
FoundIsSmallest ==
  /\ found # None => found > last /\ \E i \in 1..cursor : found = FallbackId(event.rows[i])
  /\ result = "running" =>
       \A i \in 1..cursor :
         FallbackId(event.rows[i]) > last => found # None /\ found <= FallbackId(event.rows[i])

ReadIsSound == \A i \in 1..cursor : ~Fails(event.rows[i])

DeliveredIsSound ==
  delivered # <<>> => Sound(event.rows) /\ result \in {"running", "delivered"}

IInv == /\ TypeOK
        /\ SortedAndComplete
        /\ LastIsLast
        /\ FoundIsSmallest
        /\ ReadIsSound
        /\ DeliveredIsSound

-----------------------------------------------------------------------------
\* What fallback_skill makes of a row is an id or none.
LEMMA FallbackIdType == ASSUME NEW row \in Row PROVE FallbackId(row) \in Id \cup {None}
  BY DEF FallbackId, Row

\* Every row of the walked event is a row, and its id is None or a positive
\* number.
LEMMA EventRows ==
  ASSUME TypeOK
  PROVE  /\ event.rows \in Seq(Row)
         /\ Len(event.rows) \in Nat
         /\ \A i \in 1..Len(event.rows) :
              /\ FallbackId(event.rows[i]) \in Id \cup {None}
              /\ FallbackId(event.rows[i]) \in Nat
<1>1. event.rows \in Seq(Row)
  BY DEF TypeOK, Reply
<1>2. \A i \in 1..Len(event.rows) : event.rows[i] \in Row
  BY <1>1
<1>3. Id \cup {None} \subseteq Nat
  BY FallbacksAssumption DEF FallbacksAssumption, None
<1> QED
  BY <1>1, <1>2, <1>3, FallbackIdType

\* The ids in hand are numbers.
LEMMA Numbers ==
  ASSUME TypeOK
  PROVE  /\ found \in Nat /\ last \in Nat /\ cursor \in Nat
         /\ delivered \in Seq(Id) /\ Len(delivered) \in Nat
         /\ \A i \in 1..Len(delivered) : delivered[i] \in Nat
<1>1. Id \subseteq Nat
  BY FallbacksAssumption DEF FallbacksAssumption
<1>2. delivered \in Seq(Id) /\ found \in Id \cup {0} /\ last \in Id \cup {0}
  BY DEF TypeOK, None
<1>3. \A i \in 1..Len(delivered) : delivered[i] \in Id
  BY <1>2
<1>4. cursor \in Nat
  BY EventRows DEF TypeOK
<1>5. Len(delivered) \in Nat
  BY <1>2
<1>6. found \in Nat /\ last \in Nat
  BY <1>1, <1>2
<1>7. \A i \in 1..Len(delivered) : delivered[i] \in Nat
  BY <1>1, <1>3
<1> QED
  BY <1>2, <1>4, <1>5, <1>6, <1>7

LEMMA InitInv == Init => IInv
<1> SUFFICES ASSUME Init PROVE IInv
  OBVIOUS
<1> USE DEF Init
<1>1. TypeOK
  <2>1. event \in Reply
    BY FallbacksAssumption DEF FallbacksAssumption
  <2>2. result \in Results
    BY <2>1 DEF Entry, Results, Reply
  <2>3. Len(event.rows) \in Nat
    BY <2>1 DEF Reply
  <2> QED
    BY <2>1, <2>2, <2>3 DEF TypeOK
<1>2. SortedAndComplete
  BY <1>1, EventRows DEF SortedAndComplete, Listed, Delivered, None
<1> QED
  BY <1>1, <1>2 DEF IInv, LastIsLast, FoundIsSmallest, ReadIsSound, DeliveredIsSound

\* A turn of the inner loop keeps the invariant.
LEMMA ReadRowInv == IInv /\ ReadRow => IInv'
<1> SUFFICES ASSUME IInv, ReadRow PROVE IInv'
  OBVIOUS
<1> DEFINE row == event.rows[cursor + 1]
<1> USE DEF IInv
<1>1. /\ result = "running" /\ cursor < Len(event.rows)
      /\ UNCHANGED <<event, last, delivered>>
  BY DEF ReadRow
<1>2. /\ cursor \in Nat /\ cursor + 1 \in 1..Len(event.rows)
      /\ FallbackId(row) \in Id \cup {None} /\ FallbackId(row) \in Nat
      /\ last \in Nat /\ found \in Nat /\ found \in Id \cup {None}
  BY <1>1, EventRows, FallbacksAssumption DEF TypeOK, FallbacksAssumption, None
<1>3. CASE Fails(row)
  <2>1. result' = "ERROR" /\ UNCHANGED <<cursor, found>>
    BY <1>3 DEF ReadRow
  <2>2. ~Sound(event.rows)
    BY <1>2, <1>3 DEF Sound
  <2>3. delivered = <<>>
    BY <2>2 DEF DeliveredIsSound
  <2>4. TypeOK'
    BY <1>1, <2>1 DEF TypeOK, Results
  <2>5. SortedAndComplete'
    BY <1>1 DEF SortedAndComplete, Delivered, Listed
  <2>6. FoundIsSmallest'
    BY <1>1, <2>1 DEF FoundIsSmallest
  <2> QED
    BY <1>1, <2>1, <2>3, <2>4, <2>5, <2>6
    DEF LastIsLast, ReadIsSound, DeliveredIsSound
<1>4. CASE ~Fails(row)
  <2>1. /\ cursor' = cursor + 1
        /\ found' = IF Better(FallbackId(row)) THEN FallbackId(row) ELSE found
        /\ UNCHANGED result
    BY <1>4 DEF ReadRow
  <2>2. TypeOK'
    BY <1>1, <1>2, <2>1 DEF TypeOK
  <2>3. SortedAndComplete'
    BY <1>1 DEF SortedAndComplete, Delivered, Listed
  <2>4. ReadIsSound'
    BY <1>1, <1>2, <1>4, <2>1 DEF ReadIsSound
  <2>5. FoundIsSmallest'
    <3>1. found' # None =>
            found' > last /\ \E i \in 1..cursor + 1 : found' = FallbackId(event.rows[i])
      BY <1>2, <2>1 DEF FoundIsSmallest, Better
    <3>2. ASSUME NEW i \in 1..cursor + 1, FallbackId(event.rows[i]) > last
          PROVE  found' # None /\ found' <= FallbackId(event.rows[i])
      <4>0. FallbackId(event.rows[i]) \in Nat
        BY <1>2, EventRows
      <4>1. CASE i = cursor + 1
        BY <1>2, <2>1, <3>2, <4>1 DEF Better, None
      <4>2. CASE i \in 1..cursor
        <5>1. found # None /\ found <= FallbackId(event.rows[i])
          BY <1>1, <3>2, <4>2 DEF FoundIsSmallest
        <5> QED
          BY <1>2, <2>1, <4>0, <5>1 DEF Better
      <4> QED
        BY <1>2, <4>1, <4>2
    <3> QED
      BY <1>1, <2>1, <3>1, <3>2 DEF FoundIsSmallest
  <2> QED
    BY <1>1, <2>1, <2>2, <2>3, <2>4, <2>5 DEF LastIsLast, DeliveredIsSound
<1> QED
  BY <1>3, <1>4

\* What holds when a pass has found an id: it is the smallest of those left.
LEMMA NextSmallest ==
  ASSUME IInv, result = "running", cursor = Len(event.rows), found # None
  PROVE  /\ found \in Id /\ found > last
         /\ found \in Listed(event.rows) \ Delivered
         /\ \A other \in Listed(event.rows) \ Delivered : found <= other
         /\ \A i \in 1..Len(delivered) : delivered[i] <= last
<1> USE DEF IInv
<1>1. /\ found \in Id /\ found \in Nat /\ last \in Nat /\ found > last
      /\ found \in Listed(event.rows)
  BY EventRows, FallbacksAssumption
  DEF TypeOK, FoundIsSmallest, Listed, FallbacksAssumption, None
<1>2. \A i \in 1..Len(delivered) : delivered[i] <= last
  <2> SUFFICES ASSUME NEW i \in 1..Len(delivered) PROVE delivered[i] <= last
    OBVIOUS
  <2>1. /\ Len(delivered) \in Nat /\ delivered # <<>>
        /\ \A j \in 1..Len(delivered) : delivered[j] \in Nat
    BY Numbers
  <2>2. last = delivered[Len(delivered)]
    BY <2>1 DEF LastIsLast
  <2>3. CASE i = Len(delivered)
    BY <2>1, <2>2, <2>3
  <2>4. CASE i < Len(delivered)
    BY <2>1, <2>2, <2>4 DEF SortedAndComplete
  <2> QED
    BY <2>1, <2>3, <2>4
<1>3. found \notin Delivered
  BY <1>1, <1>2 DEF Delivered
<1>4. ASSUME NEW other \in Listed(event.rows) \ Delivered
      PROVE  found <= other
  <2>1. PICK i \in 1..Len(event.rows) : other = FallbackId(event.rows[i])
    BY DEF Listed
  <2>2. other \in Nat
    BY <2>1, EventRows
  <2>3. other > last
    BY <1>1, <1>4, <2>2 DEF SortedAndComplete
  <2> QED
    BY <2>1, <2>3 DEF FoundIsSmallest
<1> QED
  BY <1>1, <1>2, <1>3, <1>4

\* Handing the id to the callback adds it to the deliveries.
LEMMA DeliveredGrows ==
  ASSUME TypeOK, found \in Id, delivered' = Append(delivered, found)
  PROVE  /\ Len(delivered') = Len(delivered) + 1
         /\ delivered'[Len(delivered) + 1] = found
         /\ \A i \in 1..Len(delivered) : delivered'[i] = delivered[i]
         /\ delivered' \in Seq(Id)
         /\ Delivered' = Delivered \cup {found}
<1>1. /\ delivered \in Seq(Id) /\ Len(delivered) \in Nat
      /\ Len(delivered') = Len(delivered) + 1
      /\ delivered'[Len(delivered) + 1] = found
      /\ \A i \in 1..Len(delivered) : delivered'[i] = delivered[i]
      /\ delivered' \in Seq(Id)
  BY DEF TypeOK
<1>2. 1..Len(delivered') = 1..Len(delivered) \cup {Len(delivered) + 1}
  BY <1>1
<1> QED
  BY <1>1, <1>2 DEF Delivered

LEMMA DeliverInv == ASSUME NEW goOn \in BOOLEAN, IInv, Deliver(goOn) PROVE IInv'
<1> USE DEF IInv
<1>1. /\ result = "running" /\ cursor = Len(event.rows) /\ found # None
      /\ delivered' = Append(delivered, found)
      /\ last' = found /\ found' = None /\ cursor' = 0 /\ event' = event
      /\ result' \in {"running", "delivered"}
  BY DEF Deliver
<1>2. /\ found \in Id /\ found > last
      /\ found \in Listed(event.rows) \ Delivered
      /\ \A other \in Listed(event.rows) \ Delivered : found <= other
      /\ \A i \in 1..Len(delivered) : delivered[i] <= last
  BY <1>1, NextSmallest
<1>3. /\ Len(delivered') = Len(delivered) + 1
      /\ delivered'[Len(delivered) + 1] = found
      /\ \A i \in 1..Len(delivered) : delivered'[i] = delivered[i]
      /\ delivered' \in Seq(Id)
      /\ Delivered' = Delivered \cup {found}
  BY <1>1, <1>2, DeliveredGrows
<1>4. /\ Len(delivered) \in Nat /\ last \in Nat /\ found \in Nat
      /\ \A i \in 1..Len(delivered) : delivered[i] \in Nat
      /\ Len(event.rows) \in Nat
  BY EventRows, Numbers
<1>5. TypeOK'
  BY <1>1, <1>2, <1>3, <1>4 DEF TypeOK, Results
<1>6. SortedAndComplete'
  <2>1. ASSUME NEW i \in 1..Len(delivered'), NEW j \in 1..Len(delivered'), i < j
        PROVE  delivered'[i] < delivered'[j]
    <3>1. CASE j = Len(delivered) + 1
      BY <1>2, <1>3, <1>4, <2>1, <3>1
    <3>2. CASE j \in 1..Len(delivered)
      BY <1>3, <1>4, <2>1, <3>2 DEF SortedAndComplete
    <3> QED
      BY <1>3, <1>4, <3>1, <3>2
  <2>2. ASSUME NEW id \in Listed(event.rows), id <= found
        PROVE  id \in Delivered'
    <3>1. PICK i \in 1..Len(event.rows) : id = FallbackId(event.rows[i])
      BY DEF Listed
    <3>2. id \in Nat
      BY <3>1, EventRows
    <3> QED
      BY <1>2, <1>3, <1>4, <2>2, <3>2
  <2>3. Delivered' \subseteq Listed(event.rows)
    BY <1>2, <1>3 DEF SortedAndComplete
  <2> QED
    BY <1>1, <2>1, <2>2, <2>3 DEF SortedAndComplete
<1>7. LastIsLast'
  BY <1>1, <1>3, <1>4 DEF LastIsLast
<1>8. FoundIsSmallest' /\ ReadIsSound'
  BY <1>1 DEF FoundIsSmallest, ReadIsSound
<1>9. DeliveredIsSound'
  BY <1>1 DEF DeliveredIsSound, ReadIsSound, Sound
<1> QED
  BY <1>5, <1>6, <1>7, <1>8, <1>9

LEMMA FinishInv == IInv /\ Finish => IInv'
<1> SUFFICES ASSUME IInv, Finish PROVE IInv'
  OBVIOUS
<1> USE DEF IInv
<1>1. result' = "delivered" /\ UNCHANGED <<event, cursor, found, last, delivered>>
  BY DEF Finish
<1>2. TypeOK'
  BY <1>1 DEF TypeOK, Results
<1>3. SortedAndComplete'
  BY <1>1 DEF SortedAndComplete, Delivered, Listed
<1>4. FoundIsSmallest'
  BY <1>1 DEF FoundIsSmallest
<1> QED
  BY <1>1, <1>2, <1>3, <1>4 DEF LastIsLast, ReadIsSound, DeliveredIsSound

LEMMA StutterInv == IInv /\ UNCHANGED vars => IInv'
  BY DEF IInv, vars, TypeOK, SortedAndComplete, Delivered, Listed, LastIsLast,
         FoundIsSmallest, ReadIsSound, DeliveredIsSound

LEMMA Invariance == Spec => []IInv
<1>1. IInv /\ [Next]_vars => IInv'
  BY ReadRowInv, DeliverInv, FinishInv, StutterInv DEF Next
<1> QED
  BY InitInv, <1>1, PTL DEF Spec

-----------------------------------------------------------------------------
\* Every variable keeps its type, for every set of ids and replies.
THEOREM TypeCorrect == Spec => []TypeOK
  BY Invariance, PTL DEF IInv

\* thalovant_skills_fallbacks delivers each fallback skill once, in byte order,
\* and none of those up to the last one delivered is missing.
THEOREM SortedDelivery == Spec => []SortedAndComplete
  BY Invariance, PTL DEF IInv

\* A walk that ends in an error, or over a list that will, has not called
\* back.
THEOREM AllOrNothing == Spec => []UnknownReportsNothing
<1>1. IInv => UnknownReportsNothing
  BY DEF IInv, UnknownReportsNothing, DeliveredIsSound
<1> QED
  BY Invariance, <1>1, PTL

-----------------------------------------------------------------------------
LEMMA ListingInit == Init => Listing!ListInit
<1> SUFFICES ASSUME Init PROVE Listing!ListInit
  OBVIOUS
<1>1. TypeOK
  BY InitInv DEF IInv
<1>2. Listed(event.rows) \ Delivered \in SUBSET Id
  BY <1>1, EventRows DEF Listed
<1> QED
  BY <1>2 DEF Init, Listing!ListInit

LEMMA ListingStep ==
  IInv /\ [Next]_vars => [Listing!ListNext]_(Listing!listVars)
<1> SUFFICES ASSUME IInv, [Next]_vars PROVE [Listing!ListNext]_(Listing!listVars)
  OBVIOUS
<1> USE DEF Listing!listVars
<1>1. CASE ReadRow
  <2>1. UNCHANGED <<event, delivered>> /\ result = "running"
    BY <1>1 DEF ReadRow
  <2>2. (Listed(event.rows) \ Delivered)' = Listed(event.rows) \ Delivered
    BY <2>1 DEF Listed, Delivered
  <2>3. CASE Fails(event.rows[cursor + 1])
    <3>1. result' = "ERROR"
      BY <1>1, <2>3 DEF ReadRow
    <3>2. ~Sound(event.rows)
      BY <1>1, <2>3, EventRows DEF ReadRow, Sound, IInv, TypeOK
    <3>3. delivered = <<>>
      BY <3>2 DEF IInv, DeliveredIsSound
    <3>4. Listing!Unknown
      BY <2>1, <2>2, <3>1, <3>3 DEF Listing!Unknown
    <3> QED
      BY <3>4 DEF Listing!ListNext
  <2>4. CASE ~Fails(event.rows[cursor + 1])
    <3>1. result' = result
      BY <1>1, <2>4 DEF ReadRow
    <3> QED
      BY <2>1, <2>2, <3>1
  <2> QED
    BY <2>3, <2>4
<1>2. ASSUME NEW goOn \in BOOLEAN, Deliver(goOn)
      PROVE  [Listing!ListNext]_(Listing!listVars)
  <2>1. /\ result = "running" /\ cursor = Len(event.rows) /\ found # None
        /\ delivered' = Append(delivered, found) /\ event' = event
    BY <1>2 DEF Deliver
  <2>2. /\ found \in Id
        /\ found \in Listed(event.rows) \ Delivered
        /\ \A other \in Listed(event.rows) \ Delivered : found <= other
    BY <2>1, NextSmallest
  <2>3. Delivered' = Delivered \cup {found}
    BY <2>1, <2>2, DeliveredGrows DEF IInv
  <2>4. (Listed(event.rows) \ Delivered)' = (Listed(event.rows) \ Delivered) \ {found}
    BY <2>1, <2>3 DEF Listed
  <2>5. Listing!Report(found)
    BY <2>1, <2>2, <2>4 DEF Listing!Report
  <2> QED
    BY <2>2, <2>5 DEF Listing!ListNext
<1>3. CASE Finish
  <2>1. /\ result = "running" /\ result' = "delivered" /\ cursor = Len(event.rows)
        /\ found = None /\ UNCHANGED <<event, delivered>>
    BY <1>3 DEF Finish
  <2>2. Listed(event.rows) \ Delivered = {}
    <3> SUFFICES ASSUME NEW id \in Listed(event.rows) \ Delivered PROVE FALSE
      OBVIOUS
    <3>1. PICK i \in 1..Len(event.rows) : id = FallbackId(event.rows[i])
      BY DEF Listed
    <3>2. id \in Nat /\ last \in Nat
      BY <3>1, EventRows, FallbacksAssumption DEF IInv, TypeOK, FallbacksAssumption, None
    <3>3. id > last
      BY <3>2 DEF IInv, SortedAndComplete
    <3> QED
      BY <2>1, <3>1, <3>3 DEF IInv, FoundIsSmallest
  <2>3. (Listed(event.rows) \ Delivered)' = Listed(event.rows) \ Delivered
    BY <2>1 DEF Listed, Delivered
  <2>4. Listing!Complete
    BY <2>1, <2>2, <2>3 DEF Listing!Complete
  <2> QED
    BY <2>4 DEF Listing!ListNext
<1>4. CASE UNCHANGED vars
  BY <1>4 DEF vars, Listed, Delivered
<1> QED
  BY <1>1, <1>2, <1>3, <1>4 DEF Next

\* The rescanning walk implements the abstract listing: unknown and silent, or
\* the sorted list in full until the caller stops it.
THEOREM Refinement == Spec => ImplementsListing
<1>1. Spec => Listing!ListInit /\ [][Listing!ListNext]_(Listing!listVars)
  BY ListingInit, ListingStep, Invariance, PTL DEF Spec
<1> QED
  BY <1>1 DEF ImplementsListing, Listing!ListSpec
=============================================================================
