----------------------- MODULE NoiseTransport_proofs -----------------------
(***************************************************************************)
(* Proofs about NoiseTransport for every Body and every MaxNonce.          *)
(***************************************************************************)
EXTENDS NoiseTransport, SequenceTheorems, TLAPS

\* Every ciphertext is the frame its sender's history holds at its counter.
NetworkIsHistory ==
  \A c \in network : /\ c.nonce < Len(sent[c.from])
                     /\ c.frame = sent[c.from][c.nonce + 1]

\* While a session lives its counters are the lengths of its histories.
CountersAreLengths ==
  \A p \in Party :
    /\ Len(sent[p]) <= MaxNonce
    /\ ~failed[p] => /\ sendNonce[p] = Len(sent[p])
                     /\ receiveNonce[p] = Len(received[p])

\* While a session lives its chunk states are what its histories say.
ChunkStates ==
  \A p \in Party :
    /\ WellChunked(sent[p])
    /\ ~failed[p] => /\ sendChunked[p] = Open(sent[p], Len(sent[p]))
                     /\ receiveChunked[p] = Open(received[p], Len(received[p]))

IInv ==
  /\ TypeOK
  /\ NetworkIsHistory
  /\ CountersAreLengths
  /\ ReceivedIsPrefix
  /\ ChunkStates

-----------------------------------------------------------------------------
\* Whether a stream is open after n frames depends on those n frames only.
LEMMA OpenPrefix ==
  ASSUME NEW r, NEW s, NEW n \in Nat,
         \A i \in 1..n : r[i] = s[i]
  PROVE  Open(r, n) = Open(s, n)
<1>1. \A i \in 1..n : \A j \in i+1..n : j \in 1..n
  OBVIOUS
<1>2. QED
  BY <1>1, Zenon DEF Open

\* The chunk state marker() computes is the one the history defines.
LEMMA OpenAppend ==
  ASSUME NEW s \in Seq(Frame), NEW f \in Frame,
         MarkerOk(Open(s, Len(s)), f.marker)
  PROVE  Open(Append(s, f), Len(s) + 1) = MarkerNext(Open(s, Len(s)), f.marker)
<1> DEFINE n == Len(s)
           t == Append(s, f)
<1>0. n \in Nat /\ t \in Seq(Frame) /\ Len(t) = n + 1 /\ t[n + 1] = f
  BY AppendProperties
<1>1. \A i \in 1..n : t[i] = s[i]
  BY AppendProperties
<1>2. Open(t, n) = Open(s, n)
  BY <1>0, <1>1, OpenPrefix
<1>7. /\ Open(s, n) \in BOOLEAN
      /\ Open(t, n + 1) \in BOOLEAN
      /\ MarkerNext(Open(s, n), f.marker) \in BOOLEAN
  BY DEF Open, MarkerNext
<1>3. CASE f.marker \in FirstChunk
  <2>1. n + 1 \in 1..n + 1 /\ \A j \in (n + 1) + 1..n + 1 : FALSE
    BY <1>0
  <2>2. Open(t, n + 1)
    BY <1>0, <1>3, <2>1 DEF Open
  <2>3. MarkerNext(Open(s, n), f.marker) = TRUE
    BY <1>3 DEF MarkerNext
  <2>4. QED
    BY <1>7, <2>2, <2>3
<1>4. CASE f.marker = MiddleChunk
  <2>1. Open(s, n)
    BY <1>4 DEF MarkerOk, WholeFrame, FirstChunk, MiddleChunk, LastChunk
  <2>2. PICK i \in 1..n : /\ t[i].marker \in FirstChunk
                          /\ \A j \in i+1..n : t[j].marker = MiddleChunk
    BY <1>2, <2>1 DEF Open
  <2>3. \A j \in i+1..n + 1 : t[j].marker = MiddleChunk
    BY <1>0, <1>4, <2>2
  <2>4. i \in 1..n + 1
    BY <1>0
  <2>5. Open(t, n + 1)
    BY <2>2, <2>3, <2>4 DEF Open
  <2>6. MarkerNext(Open(s, n), f.marker) = Open(s, n)
    BY <1>4 DEF MarkerNext, FirstChunk, MiddleChunk, LastChunk
  <2>7. QED
    BY <1>7, <2>1, <2>5, <2>6
<1>5. CASE f.marker \in WholeFrame \cup {LastChunk}
  <2>1. ~Open(t, n + 1)
    <3> SUFFICES ASSUME NEW i \in 1..n + 1,
                        t[i].marker \in FirstChunk,
                        \A j \in i+1..n + 1 : t[j].marker = MiddleChunk
                 PROVE  FALSE
      BY DEF Open
    <3>1. i # n + 1
      BY <1>0, <1>5 DEF WholeFrame, FirstChunk, LastChunk
    <3>2. n + 1 \in i+1..n + 1
      BY <1>0, <3>1
    <3>3. f.marker = MiddleChunk
      BY <1>0, <3>2
    <3>4. QED
      BY <1>5, <3>3 DEF WholeFrame, MiddleChunk, LastChunk
  <2>2. ~MarkerNext(Open(s, n), f.marker)
    BY <1>5 DEF MarkerNext, MarkerOk, WholeFrame, FirstChunk, MiddleChunk, LastChunk
  <2>3. QED
    BY <1>7, <2>1, <2>2
<1>6. QED
  BY <1>3, <1>4, <1>5 DEF MarkerOk

\* Appending a frame marker() admits keeps a stream reassemblable.
LEMMA WellChunkedAppend ==
  ASSUME NEW s \in Seq(Frame), NEW f \in Frame,
         WellChunked(s), MarkerOk(Open(s, Len(s)), f.marker)
  PROVE  WellChunked(Append(s, f))
<1> DEFINE t == Append(s, f)
<1>0. Len(s) \in Nat /\ Len(t) = Len(s) + 1 /\ t[Len(s) + 1] = f
  BY AppendProperties
<1>1. \A i \in 1..Len(s) : t[i] = s[i]
  BY AppendProperties
<1> SUFFICES ASSUME NEW n \in 1..Len(t)
             PROVE  MarkerOk(Open(t, n - 1), t[n].marker)
  BY DEF WellChunked
<1>2. Open(t, n - 1) = Open(s, n - 1)
  <2>1. n - 1 \in Nat /\ \A i \in 1..n - 1 : t[i] = s[i]
    BY <1>0, <1>1
  <2>2. QED
    BY <2>1, OpenPrefix
<1>3. CASE n = Len(s) + 1
  BY <1>0, <1>2, <1>3
<1>4. CASE n \in 1..Len(s)
  <2>1. t[n] = s[n]
    BY <1>1, <1>4
  <2>2. QED
    BY <1>2, <1>4, <2>1 DEF WellChunked
<1>5. QED
  BY <1>0, <1>3, <1>4

-----------------------------------------------------------------------------
\* The invariant holds of two fresh sessions.
LEMMA InitInv == Init => IInv
<1> SUFFICES ASSUME Init PROVE IInv
  OBVIOUS
<1>1. TypeOK
  BY TransportAssumption, EmptySeq DEF Init, TypeOK, Party
<1>2. \A p \in Party : sent[p] = <<>> /\ received[p] = <<>>
  BY DEF Init
<1>3. NetworkIsHistory
  BY DEF Init, NetworkIsHistory
<1>4. CountersAreLengths
  BY <1>2, TransportAssumption DEF Init, CountersAreLengths
<1>5. ReceivedIsPrefix
  BY <1>2 DEF ReceivedIsPrefix, Peer, Party
<1>6. ChunkStates
  <2>1. ~Open(<<>>, 0) /\ Len(<<>>) = 0
    BY DEF Open
  <2>2. WellChunked(<<>>)
    BY <2>1 DEF WellChunked
  <2>3. Open(<<>>, Len(<<>>)) = FALSE
    BY <2>1 DEF Open
  <2>4. QED
    BY <1>2, <2>2, <2>3 DEF Init, ChunkStates
<1>7. QED
  BY <1>1, <1>3, <1>4, <1>5, <1>6 DEF IInv

\* fail() at either end leaves the invariant alone: the histories stay.
LEMMA FailStep ==
  ASSUME IInv, NEW p \in Party, Fail(p)
  PROVE  IInv'
<1> USE DEF IInv
<1>0. failed'[p] = TRUE /\ \A q \in Party : ~failed'[q] => q # p
  BY DEF Fail, TypeOK
<1>1. TypeOK'
  BY TransportAssumption DEF Fail, TypeOK
<1>2. NetworkIsHistory'
  BY DEF Fail, NetworkIsHistory
<1>3. CountersAreLengths'
  BY <1>0 DEF Fail, CountersAreLengths, TypeOK
<1>4. ReceivedIsPrefix'
  BY DEF Fail, ReceivedIsPrefix
<1>5. ChunkStates'
  <2> SUFFICES ASSUME NEW q \in Party
               PROVE  /\ WellChunked(sent'[q])
                      /\ ~failed'[q] =>
                           /\ sendChunked'[q] = Open(sent'[q], Len(sent'[q]))
                           /\ receiveChunked'[q] = Open(received'[q], Len(received'[q]))
    BY Zenon DEF ChunkStates
  <2>0. sent' = sent /\ received' = received
    BY DEF Fail
  <2>1. WellChunked(sent[q])
    BY DEF ChunkStates
  <2>2. ASSUME ~failed'[q]
        PROVE  /\ ~failed[q]
               /\ sendChunked'[q] = sendChunked[q]
               /\ receiveChunked'[q] = receiveChunked[q]
    BY <1>0, <2>2 DEF Fail, TypeOK
  <2>3. QED
    BY <2>0, <2>1, <2>2 DEF ChunkStates
<1>6. QED
  BY <1>1, <1>2, <1>3, <1>4, <1>5

\* The accepting branch of thalovant_noise_encrypt preserves the invariant.
LEMMA EncryptStep ==
  ASSUME IInv, NEW p \in Party, NEW f \in Frame, NEW fits \in BOOLEAN,
         EncryptOk(p, f, fits), Encrypt(p, f, fits)
  PROVE  IInv'
<1> USE DEF IInv
<1>0. /\ ~failed[p]
      /\ MarkerOk(sendChunked[p], f.marker)
      /\ sendNonce[p] < MaxNonce
      /\ network' = network \cup {Sealed(p, sendNonce[p], f)}
      /\ sendNonce' = [sendNonce EXCEPT ![p] = Increment(@)]
      /\ sendChunked' = [sendChunked EXCEPT ![p] = MarkerNext(@, f.marker)]
      /\ sent' = [sent EXCEPT ![p] = Append(@, f)]
      /\ UNCHANGED <<failed, receiveNonce, receiveChunked, received>>
  BY DEF Encrypt, EncryptOk, CounterUsable
<1>1. /\ sendNonce[p] \in Nat
      /\ sendNonce[p] = Len(sent[p])
      /\ Increment(sendNonce[p]) = sendNonce[p] + 1
      /\ sent[p] \in Seq(Frame)
  BY <1>0, TransportAssumption DEF TypeOK, CountersAreLengths, Increment
<1>2. /\ sent'[p] = Append(sent[p], f)
      /\ Len(sent'[p]) = Len(sent[p]) + 1
      /\ sent'[p][Len(sent[p]) + 1] = f
      /\ \A i \in 1..Len(sent[p]) : sent'[p][i] = sent[p][i]
      /\ \A q \in Party : q # p => sent'[q] = sent[q]
  BY <1>0, <1>1, AppendProperties DEF TypeOK
<1>3. TypeOK'
  <2>1. sendNonce' \in [Party -> 0..MaxNonce]
    BY <1>0, <1>1, TransportAssumption DEF TypeOK
  <2>2. sendChunked' \in [Party -> BOOLEAN]
    BY <1>0 DEF TypeOK, MarkerNext
  <2>3. Sealed(p, sendNonce[p], f) \in Ciphertext
    BY <1>1 DEF Sealed, Ciphertext
  <2>4. sent' \in [Party -> Seq(Frame)]
    BY <1>0, <1>1, AppendProperties DEF TypeOK
  <2>5. QED
    BY <1>0, <2>1, <2>2, <2>3, <2>4 DEF TypeOK
<1>4. NetworkIsHistory'
  <2> SUFFICES ASSUME NEW c \in network'
               PROVE  /\ c.nonce < Len(sent'[c.from])
                      /\ c.frame = sent'[c.from][c.nonce + 1]
    BY DEF NetworkIsHistory
  <2>1. CASE c \in network
    <3>1. /\ c.from \in Party /\ c.nonce \in Nat
          /\ sent[c.from] \in Seq(Frame)
          /\ c.nonce < Len(sent[c.from])
          /\ c.frame = sent[c.from][c.nonce + 1]
      BY <2>1 DEF NetworkIsHistory, TypeOK, Ciphertext
    <3>2. Len(sent[c.from]) \in Nat /\ c.nonce + 1 \in 1..Len(sent[c.from])
      BY <3>1, LenProperties
    <3>3. CASE c.from = p
      BY <1>2, <3>1, <3>2, <3>3
    <3>4. CASE c.from # p
      BY <1>2, <3>1, <3>4
    <3>5. QED
      BY <3>3, <3>4
  <2>2. CASE c = Sealed(p, sendNonce[p], f)
    BY <1>1, <1>2, <2>2, LenProperties DEF Sealed
  <2>3. QED
    BY <1>0, <2>1, <2>2
<1>5. CountersAreLengths'
  <2> SUFFICES ASSUME NEW q \in Party
               PROVE  /\ Len(sent'[q]) <= MaxNonce
                      /\ ~failed'[q] => /\ sendNonce'[q] = Len(sent'[q])
                                        /\ receiveNonce'[q] = Len(received'[q])
    BY DEF CountersAreLengths
  <2>1. CASE q = p
    BY <1>0, <1>1, <1>2, <2>1, TransportAssumption DEF CountersAreLengths, TypeOK
  <2>2. CASE q # p
    BY <1>0, <1>2, <2>2 DEF CountersAreLengths, TypeOK
  <2>3. QED
    BY <2>1, <2>2
<1>6. ReceivedIsPrefix'
  <2> SUFFICES ASSUME NEW q \in Party
               PROVE  /\ Len(received[q]) <= Len(sent'[Peer(q)])
                      /\ \A i \in 1..Len(received[q]) :
                           received[q][i] = sent'[Peer(q)][i]
    BY <1>0 DEF ReceivedIsPrefix
  <2>1. /\ Peer(q) \in Party
        /\ Len(received[q]) \in Nat
        /\ Len(sent[Peer(q)]) \in Nat
        /\ Len(received[q]) <= Len(sent[Peer(q)])
        /\ \A i \in 1..Len(received[q]) : received[q][i] = sent[Peer(q)][i]
    BY LenProperties DEF ReceivedIsPrefix, TypeOK, Peer, Party
  <2>2. CASE Peer(q) = p
    BY <1>2, <2>1, <2>2
  <2>3. CASE Peer(q) # p
    BY <1>2, <2>1, <2>3
  <2>4. QED
    BY <2>2, <2>3
<1>7. ChunkStates'
  <2> SUFFICES ASSUME NEW q \in Party
               PROVE  /\ WellChunked(sent'[q])
                      /\ ~failed'[q] =>
                           /\ sendChunked'[q] = Open(sent'[q], Len(sent'[q]))
                           /\ receiveChunked'[q] = Open(received'[q], Len(received'[q]))
    BY Zenon DEF ChunkStates
  <2>1. CASE q = p
    <3>1. /\ WellChunked(sent[p])
          /\ sendChunked[p] = Open(sent[p], Len(sent[p]))
          /\ receiveChunked[p] = Open(received[p], Len(received[p]))
      BY <1>0 DEF ChunkStates
    <3>2. MarkerOk(Open(sent[p], Len(sent[p])), f.marker)
      BY <1>0, <3>1
    <3>3. WellChunked(Append(sent[p], f))
      BY <1>1, <3>1, <3>2, WellChunkedAppend
    <3>4. Open(Append(sent[p], f), Len(sent[p]) + 1)
            = MarkerNext(Open(sent[p], Len(sent[p])), f.marker)
      BY <1>1, <3>2, OpenAppend
    <3>5. sendChunked'[p] = MarkerNext(sendChunked[p], f.marker)
      BY <1>0 DEF TypeOK
    <3>6. QED
      BY <1>0, <1>2, <2>1, <3>1, <3>3, <3>4, <3>5
  <2>2. CASE q # p
    <3>1. sent'[q] = sent[q] /\ sendChunked'[q] = sendChunked[q]
      BY <1>0, <1>2, <2>2 DEF TypeOK
    <3>2. QED
      BY <1>0, <3>1 DEF ChunkStates
  <2>3. QED
    BY <2>1, <2>2
<1>8. QED
  BY <1>3, <1>4, <1>5, <1>6, <1>7

\* The accepting branch of thalovant_noise_decrypt preserves the invariant:
\* what opens is the peer's next frame.
LEMMA OpensNext ==
  ASSUME IInv, NEW p \in Party, NEW c \in network, ~failed[p], Opens(p, c)
  PROVE  /\ c.frame \in Frame
         /\ Len(received[p]) < Len(sent[Peer(p)])
         /\ c.frame = sent[Peer(p)][Len(received[p]) + 1]
<1>1. PICK f \in Frame : c = Sealed(Peer(p), receiveNonce[p], f)
  BY DEF Opens
<1>2. c.from = Peer(p) /\ c.nonce = Len(received[p]) /\ c.frame = f
  BY <1>1 DEF Sealed, IInv, CountersAreLengths
<1>3. QED
  BY <1>2 DEF IInv, NetworkIsHistory

\* The chunk state of a live receiver is its peer's stream's at the same point,
\* so it admits whatever opens.
LEMMA OpensAdmitted ==
  ASSUME IInv, NEW p \in Party, NEW c \in network, ~failed[p], Opens(p, c)
  PROVE  MarkerOk(receiveChunked[p], c.frame.marker)
<1> DEFINE q == Peer(p)
           n == Len(received[p])
<1>1. /\ q \in Party /\ n \in Nat /\ Len(sent[q]) \in Nat
      /\ n < Len(sent[q]) /\ c.frame = sent[q][n + 1]
  BY OpensNext, LenProperties DEF IInv, TypeOK, Peer, Party
<1>2. MarkerOk(Open(sent[q], n), c.frame.marker)
  <2>1. n + 1 \in 1..Len(sent[q]) /\ (n + 1) - 1 = n
    BY <1>1
  <2>2. WellChunked(sent[q])
    BY <1>1 DEF IInv, ChunkStates
  <2>3. QED
    BY <1>1, <2>1, <2>2 DEF WellChunked
<1>3. Open(received[p], n) = Open(sent[q], n)
  <2>1. \A i \in 1..n : received[p][i] = sent[q][i]
    BY DEF IInv, ReceivedIsPrefix
  <2>2. QED
    BY <1>1, <2>1, OpenPrefix
<1>4. receiveChunked[p] = Open(received[p], n)
  BY DEF IInv, ChunkStates
<1>5. QED
  BY <1>2, <1>3, <1>4

LEMMA DecryptStep ==
  ASSUME IInv, NEW p \in Party, NEW c \in network, NEW fits \in BOOLEAN,
         DecryptOk(p, c, fits), Decrypt(p, c, fits)
  PROVE  IInv'
<1> USE DEF IInv
<1>0. /\ ~failed[p]
      /\ Opens(p, c)
      /\ MarkerOk(receiveChunked[p], c.frame.marker)
      /\ receiveNonce[p] < MaxNonce
      /\ receiveNonce' = [receiveNonce EXCEPT ![p] = Increment(@)]
      /\ receiveChunked' = [receiveChunked EXCEPT ![p] = MarkerNext(@, c.frame.marker)]
      /\ received' = [received EXCEPT ![p] = Append(@, c.frame)]
      /\ UNCHANGED <<failed, sendNonce, sendChunked, network, sent>>
  BY DEF Decrypt, DecryptOk, Opens, CounterUsable
<1>1. /\ c.frame \in Frame
      /\ Len(received[p]) < Len(sent[Peer(p)])
      /\ c.frame = sent[Peer(p)][Len(received[p]) + 1]
  BY <1>0, OpensNext
<1>2. /\ receiveNonce[p] = Len(received[p])
      /\ Increment(receiveNonce[p]) = receiveNonce[p] + 1
      /\ received[p] \in Seq(Frame)
      /\ receiveNonce[p] \in Nat
      /\ Peer(p) \in Party
      /\ sent[Peer(p)] \in Seq(Frame)
  BY <1>0, TransportAssumption
     DEF TypeOK, CountersAreLengths, Increment, Peer, Party
<1>3. /\ received'[p] = Append(received[p], c.frame)
      /\ Len(received'[p]) = Len(received[p]) + 1
      /\ received'[p][Len(received[p]) + 1] = c.frame
      /\ \A i \in 1..Len(received[p]) : received'[p][i] = received[p][i]
      /\ \A q \in Party : q # p => received'[q] = received[q]
  BY <1>0, <1>1, <1>2, AppendProperties DEF TypeOK
<1>4. TypeOK'
  <2>1. receiveNonce' \in [Party -> 0..MaxNonce]
    BY <1>0, <1>2, TransportAssumption DEF TypeOK
  <2>2. receiveChunked' \in [Party -> BOOLEAN]
    BY <1>0 DEF TypeOK, MarkerNext
  <2>3. received' \in [Party -> Seq(Frame)]
    BY <1>0, <1>1, <1>2, AppendProperties DEF TypeOK
  <2>4. QED
    BY <1>0, <2>1, <2>2, <2>3 DEF TypeOK
<1>5. NetworkIsHistory'
  BY <1>0 DEF NetworkIsHistory
<1>6. CountersAreLengths'
  <2> SUFFICES ASSUME NEW q \in Party
               PROVE  /\ Len(sent[q]) <= MaxNonce
                      /\ ~failed[q] => /\ sendNonce[q] = Len(sent[q])
                                       /\ receiveNonce'[q] = Len(received'[q])
    BY <1>0 DEF CountersAreLengths
  <2>1. CASE q = p
    BY <1>0, <1>2, <1>3, <2>1 DEF CountersAreLengths, TypeOK
  <2>2. CASE q # p
    BY <1>0, <1>3, <2>2 DEF CountersAreLengths, TypeOK
  <2>3. QED
    BY <2>1, <2>2
<1>7. ReceivedIsPrefix'
  <2> SUFFICES ASSUME NEW q \in Party
               PROVE  /\ Len(received'[q]) <= Len(sent[Peer(q)])
                      /\ \A i \in 1..Len(received'[q]) :
                           received'[q][i] = sent[Peer(q)][i]
    BY <1>0 DEF ReceivedIsPrefix
  <2>1. CASE q = p
    <3>1. Len(received[p]) \in Nat /\ Len(sent[Peer(p)]) \in Nat
      BY <1>2, LenProperties
    <3>2. \A i \in 1..Len(received[p]) : received[p][i] = sent[Peer(p)][i]
      BY DEF ReceivedIsPrefix
    <3>3. ASSUME NEW i \in 1..Len(received'[p])
          PROVE  received'[p][i] = sent[Peer(p)][i]
      <4>1. CASE i = Len(received[p]) + 1
        BY <1>1, <1>3, <4>1
      <4>2. CASE i # Len(received[p]) + 1
        <5>1. i \in 1..Len(received[p])
          BY <1>3, <3>1, <4>2
        <5>2. QED
          BY <1>3, <3>2, <5>1
      <4>3. QED
        BY <4>1, <4>2
    <3>4. Len(received'[p]) <= Len(sent[Peer(p)])
      BY <1>1, <1>3, <3>1
    <3>5. QED
      BY <2>1, <3>3, <3>4
  <2>2. CASE q # p
    BY <1>3, <2>2 DEF ReceivedIsPrefix
  <2>3. QED
    BY <2>1, <2>2
<1>8. ChunkStates'
  <2> SUFFICES ASSUME NEW q \in Party
               PROVE  /\ WellChunked(sent'[q])
                      /\ ~failed'[q] =>
                           /\ sendChunked'[q] = Open(sent'[q], Len(sent'[q]))
                           /\ receiveChunked'[q] = Open(received'[q], Len(received'[q]))
    BY Zenon DEF ChunkStates
  <2>0. sent' = sent /\ sendChunked' = sendChunked /\ failed' = failed
    BY <1>0
  <2>1. CASE q = p
    <3>1. /\ WellChunked(sent[p])
          /\ sendChunked[p] = Open(sent[p], Len(sent[p]))
          /\ receiveChunked[p] = Open(received[p], Len(received[p]))
      BY <1>0 DEF ChunkStates
    <3>2. Open(Append(received[p], c.frame), Len(received[p]) + 1)
            = MarkerNext(Open(received[p], Len(received[p])), c.frame.marker)
      BY <1>0, <1>1, <1>2, <3>1, OpenAppend
    <3>3. receiveChunked'[p] = MarkerNext(receiveChunked[p], c.frame.marker)
      BY <1>0 DEF TypeOK
    <3>4. QED
      BY <1>3, <2>0, <2>1, <3>1, <3>2, <3>3
  <2>2. CASE q # p
    <3>1. received'[q] = received[q] /\ receiveChunked'[q] = receiveChunked[q]
      BY <1>0, <1>3, <2>2 DEF TypeOK
    <3>2. QED
      BY <2>0, <3>1 DEF ChunkStates
  <2>3. QED
    BY <2>1, <2>2
<1>9. QED
  BY <1>4, <1>5, <1>6, <1>7, <1>8

\* Bytes neither end sealed open under no counter.
LEMMA TamperedFails ==
  ASSUME TypeOK, NEW p \in Party, NEW fits \in BOOLEAN, Decrypt(p, Tampered, fits)
  PROVE  Fail(p)
<1>1. ~Opens(p, Tampered)
  <2> SUFFICES ASSUME NEW f \in Frame,
                      Tampered = Sealed(Peer(p), receiveNonce[p], f)
               PROVE  FALSE
    BY DEF Opens
  <2>1. Sealed(Peer(p), receiveNonce[p], f) \in Ciphertext
    BY TransportAssumption DEF Sealed, Ciphertext, TypeOK, Peer, Party
  <2>2. QED
    BY <2>1, TransportAssumption
<1>2. QED
  BY <1>1 DEF Decrypt, DecryptOk

LEMMA NextInv == IInv /\ [Next]_vars => IInv'
<1> SUFFICES ASSUME IInv, [Next]_vars
             PROVE  IInv'
  OBVIOUS
<1>1. ASSUME NEW p \in Party, NEW fits \in BOOLEAN, NEW f \in Frame,
             Encrypt(p, f, fits)
      PROVE  IInv'
  <2>1. CASE EncryptOk(p, f, fits)
    BY <1>1, <2>1, EncryptStep
  <2>2. CASE ~EncryptOk(p, f, fits)
    <3>1. Fail(p)
      BY <1>1, <2>2 DEF Encrypt
    <3>2. QED
      BY <3>1, FailStep
  <2>3. QED
    BY <2>1, <2>2
<1>2. ASSUME NEW p \in Party, NEW fits \in BOOLEAN, NEW c \in network,
             Decrypt(p, c, fits)
      PROVE  IInv'
  <2>1. CASE DecryptOk(p, c, fits)
    BY <1>2, <2>1, DecryptStep
  <2>2. CASE ~DecryptOk(p, c, fits)
    <3>1. Fail(p)
      BY <1>2, <2>2 DEF Decrypt
    <3>2. QED
      BY <3>1, FailStep
  <2>3. QED
    BY <2>1, <2>2
<1>3. ASSUME NEW p \in Party, NEW fits \in BOOLEAN, Decrypt(p, Tampered, fits)
      PROVE  IInv'
  <2>1. Fail(p)
    BY <1>3, TamperedFails DEF IInv
  <2>2. QED
    BY <2>1, FailStep
<1>4. CASE UNCHANGED vars
  <2>1. TypeOK' /\ NetworkIsHistory' /\ CountersAreLengths'
    BY <1>4 DEF vars, IInv, TypeOK, NetworkIsHistory, CountersAreLengths
  <2>2. ReceivedIsPrefix'
    BY <1>4 DEF vars, IInv, ReceivedIsPrefix
  <2>3. ChunkStates'
    BY <1>4 DEF vars, IInv, ChunkStates
  <2>4. QED
    BY <2>1, <2>2, <2>3 DEF IInv
<1>5. QED
  BY <1>1, <1>2, <1>3, <1>4 DEF Next

LEMMA Invariance == Spec => []IInv
<1>1. QED
  BY InitInv, NextInv, PTL DEF Spec

-----------------------------------------------------------------------------
\* The fields of a session keep their types, the counters their width.
THEOREM TypeCorrect == Spec => []TypeOK
<1>1. IInv => TypeOK
  BY DEF IInv
<1>2. QED
  BY <1>1, Invariance, PTL

\* For any number of frames and any counter width, decrypt returns the frames
\* encrypt accepted, in order, without gap or repetition.
THEOREM PrefixDelivery == Spec => []ReceivedIsPrefix
<1>1. IInv => ReceivedIsPrefix
  BY DEF IInv
<1>2. QED
  BY <1>1, Invariance, PTL

\* No counter of a send key ever seals two frames, up to UINT64_MAX and after
\* a failure.
THEOREM NonceUniqueness == Spec => []OneFramePerNonce
<1>1. IInv => OneFramePerNonce
  <2> SUFFICES ASSUME IInv, NEW c \in network, NEW d \in network,
                      c.from = d.from, c.nonce = d.nonce
               PROVE  c = d
    BY DEF OneFramePerNonce
  <2>1. c.frame = d.frame
    BY DEF IInv, NetworkIsHistory
  <2>2. c \in Ciphertext /\ d \in Ciphertext
    BY DEF IInv, TypeOK
  <2>3. QED
    BY <2>1, <2>2 DEF Ciphertext
<1>2. QED
  BY <1>1, Invariance, PTL

\* The receiver's marker check never fails an authentic frame.
THEOREM AdmissionAgreement == Spec => []AuthenticIsAdmitted
<1>1. IInv => AuthenticIsAdmitted
  BY OpensAdmitted DEF AuthenticIsAdmitted
<1>2. QED
  BY <1>1, Invariance, PTL

\* What decrypt returns can always be reassembled into messages.
THEOREM Reassembly == Spec => []StreamsWellChunked
<1>1. IInv => StreamsWellChunked
  <2> SUFFICES ASSUME IInv, NEW p \in Party, NEW n \in 1..Len(received[p])
               PROVE  MarkerOk(Open(received[p], n - 1), received[p][n].marker)
    BY DEF StreamsWellChunked, WellChunked
  <2> DEFINE q == Peer(p)
  <2>1. /\ q \in Party /\ Len(received[p]) \in Nat /\ Len(sent[q]) \in Nat
        /\ Len(received[p]) <= Len(sent[q])
        /\ \A i \in 1..Len(received[p]) : received[p][i] = sent[q][i]
    BY LenProperties DEF IInv, TypeOK, ReceivedIsPrefix, Peer, Party
  <2>2. n \in 1..Len(sent[q]) /\ n - 1 \in Nat
    BY <2>1
  <2>3. MarkerOk(Open(sent[q], n - 1), sent[q][n].marker)
    BY <2>1, <2>2 DEF IInv, ChunkStates, WellChunked
  <2>4. Open(received[p], n - 1) = Open(sent[q], n - 1)
    <3>1. \A i \in 1..n - 1 : received[p][i] = sent[q][i]
      BY <2>1
    <3>2. QED
      BY <2>2, <3>1, OpenPrefix
  <2>5. QED
    BY <2>1, <2>3, <2>4
<1>2. QED
  BY <1>1, Invariance, PTL

\* Every error is terminal.
THEOREM FailureFinality == Spec => FailureIsFinal
<1>1. TypeOK /\ [Next]_vars =>
        [\A p \in Party : failed[p] => /\ failed'[p]
                                      /\ sent'[p] = sent[p]
                                      /\ received'[p] = received[p]]_vars
  <2> SUFFICES ASSUME TypeOK, Next, NEW p \in Party, failed[p]
               PROVE  failed'[p] /\ sent'[p] = sent[p] /\ received'[p] = received[p]
    OBVIOUS
  <2>1. ASSUME NEW q \in Party, Fail(q)
        PROVE  failed'[p] /\ sent'[p] = sent[p] /\ received'[p] = received[p]
    BY <2>1 DEF Fail, TypeOK
  <2>2. ASSUME NEW q \in Party, NEW f \in Frame, NEW fits \in BOOLEAN,
               EncryptOk(q, f, fits), Encrypt(q, f, fits)
        PROVE  failed'[p] /\ sent'[p] = sent[p] /\ received'[p] = received[p]
    BY <2>2 DEF Encrypt, EncryptOk, TypeOK
  <2>3. ASSUME NEW q \in Party, NEW c, NEW fits \in BOOLEAN,
               DecryptOk(q, c, fits), Decrypt(q, c, fits)
        PROVE  failed'[p] /\ sent'[p] = sent[p] /\ received'[p] = received[p]
    BY <2>3 DEF Decrypt, DecryptOk, TypeOK
  <2>4. PICK q \in Party, fits \in BOOLEAN :
          \/ \E f \in Frame : Encrypt(q, f, fits)
          \/ \E c \in network \cup {Tampered} : Decrypt(q, c, fits)
    BY DEF Next
  <2>5. QED
    BY <2>1, <2>2, <2>3, <2>4 DEF Encrypt, Decrypt
<1>2. QED
  BY <1>1, TypeCorrect, PTL DEF Spec, FailureIsFinal

-----------------------------------------------------------------------------
\* The transport phase implements SecureChannel: an accepted encrypt is a Send,
\* an accepted decrypt a Deliver, and every refusal of either a Break.
THEOREM Refinement == Spec => ImplementsChannel
<1>1. Init => Channel!ChanInit
  BY DEF Init, Channel!ChanInit
<1>2. IInv /\ [Next]_vars => [Channel!ChanNext]_(Channel!chanVars)
  <2> SUFFICES ASSUME IInv, [Next]_vars
               PROVE  Channel!ChanNext \/ UNCHANGED Channel!chanVars
    OBVIOUS
  <2>0. \A p \in Party : [q \in Party |-> Peer(q)][p] = Peer(p)
    OBVIOUS
  <2>1. ASSUME NEW p \in Party, Fail(p)
        PROVE  Channel!ChanNext
    <3>1. Channel!Break(p)
      BY <2>1 DEF Fail, Channel!Break
    <3>2. QED
      BY <3>1 DEF Channel!ChanNext
  <2>2. ASSUME NEW p \in Party, NEW f \in Frame, NEW fits \in BOOLEAN,
               EncryptOk(p, f, fits), Encrypt(p, f, fits)
        PROVE  Channel!ChanNext
    <3>1. Channel!Send(p, f)
      BY <2>2 DEF Encrypt, EncryptOk, Channel!Send
    <3>2. QED
      BY <3>1 DEF Channel!ChanNext
  <2>3. ASSUME NEW p \in Party, NEW c \in network, NEW fits \in BOOLEAN,
               DecryptOk(p, c, fits), Decrypt(p, c, fits)
        PROVE  Channel!ChanNext
    <3>1. ~failed[p] /\ received' = [received EXCEPT ![p] = Append(@, c.frame)]
          /\ UNCHANGED <<sent, failed>>
      BY <2>3 DEF Decrypt, DecryptOk
    <3>2. /\ Len(received[p]) < Len(sent[Peer(p)])
          /\ c.frame = sent[Peer(p)][Len(received[p]) + 1]
      BY <2>3, OpensNext DEF DecryptOk
    <3>3. Channel!Deliver(p)
      BY <2>0, <3>1, <3>2 DEF Channel!Deliver
    <3>4. QED
      BY <3>3 DEF Channel!ChanNext
  <2>4. ASSUME NEW p \in Party, NEW fits \in BOOLEAN, Decrypt(p, Tampered, fits)
        PROVE  Channel!ChanNext
    BY <2>1, <2>4, TamperedFails DEF IInv
  <2>5. CASE UNCHANGED vars
    BY <2>5 DEF vars, Channel!chanVars
  <2>6. CASE Next
    <3>1. PICK p \in Party, fits \in BOOLEAN :
            \/ \E f \in Frame : Encrypt(p, f, fits)
            \/ \E c \in network \cup {Tampered} : Decrypt(p, c, fits)
      BY <2>6 DEF Next
    <3>2. CASE \E f \in Frame : Encrypt(p, f, fits)
      BY <2>1, <2>2, <3>2 DEF Encrypt
    <3>3. CASE \E c \in network : Decrypt(p, c, fits)
      BY <2>1, <2>3, <3>3 DEF Decrypt
    <3>4. QED
      BY <2>4, <3>1, <3>2, <3>3
  <2>7. QED
    BY <2>5, <2>6
<1>3. QED
  BY <1>1, <1>2, Invariance, PTL DEF Spec, ImplementsChannel, Channel!ChanSpec
=============================================================================
