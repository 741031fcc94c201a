--------------------------- MODULE NoiseTransport ---------------------------
(***************************************************************************)
(* The transport phase of a Noise session (src/noise.c, everything from    *)
(* marker to thalovant_noise_decrypt): two ends that have completed one    *)
(* handshake, each with a sealing counter, an unsealing counter and the    *)
(* chunk state of either direction.  The ciphertexts travel over a         *)
(* transport the library does not own: here a set that never shrinks, so a *)
(* ciphertext may be lost, repeated, delayed, reordered or reflected, and  *)
(* Tampered stands for bytes neither end sealed.                           *)
(*                                                                         *)
(* AEAD is symbolic: a ciphertext is the triple (sealing end, counter,     *)
(* frame); each end's send key is the other's receive key and differs from *)
(* its own receive key (NoiseSession, KeysAgree).                        *)
(***************************************************************************)
EXTENDS Naturals, Sequences

CONSTANTS Initiator, Responder,  \* the two ends
          Body,                  \* what follows the marker byte
          MaxNonce,              \* UINT64_MAX
          Tampered               \* bytes that open under no key

Party == {Initiator, Responder}
Peer(p) == IF p = Initiator THEN Responder ELSE Initiator

\* The first byte of a frame; BadMarker: a byte above 5, or no byte at all.
BadMarker == 6
Markers == 0..BadMarker
WholeFrame == {0, 1}
FirstChunk == {2, 3}
MiddleChunk == 4
LastChunk == 5

Frame == [marker : Markers, body : Body]
Sealed(p, n, f) == [from |-> p, nonce |-> n, frame |-> f]
Ciphertext == [from : Party, nonce : Nat, frame : Frame]

ASSUME TransportAssumption ==
  /\ Initiator # Responder
  /\ MaxNonce \in Nat
  /\ Tampered \notin Ciphertext

VARIABLES failed,          \* the session was wiped by fail()
          sendNonce,       \* send_nonce
          receiveNonce,    \* receive_nonce
          sendChunked,     \* send_chunked
          receiveChunked,  \* receive_chunked
          network,         \* every ciphertext either end produced
          sent,            \* history: the frames encrypt accepted
          received         \* history: the frames decrypt returned

session == <<failed, sendNonce, receiveNonce, sendChunked, receiveChunked>>
vars == <<failed, sendNonce, receiveNonce, sendChunked, receiveChunked,
          network, sent, received>>

Init ==
  /\ failed = [p \in Party |-> FALSE]
  /\ sendNonce = [p \in Party |-> 0]
  /\ receiveNonce = [p \in Party |-> 0]
  /\ sendChunked = [p \in Party |-> FALSE]
  /\ receiveChunked = [p \in Party |-> FALSE]
  /\ network = {}
  /\ sent = [p \in Party |-> <<>>]
  /\ received = [p \in Party |-> <<>>]

-----------------------------------------------------------------------------
\* marker(): which markers the chunk state admits, and the state after one.
MarkerOk(chunked, m) ==
  \/ m \in WholeFrame \cup FirstChunk /\ ~chunked
  \/ m \in {MiddleChunk, LastChunk} /\ chunked
\* (mutant: the last chunk does not end the run)
MarkerNextNeverEnds(chunked, m) == m \in FirstChunk \/ chunked
MarkerNext(chunked, m) ==
  IF m \in FirstChunk THEN TRUE ELSE IF m = LastChunk THEN FALSE ELSE chunked

\* seal(), unseal(): a counter at UINT64_MAX is refused.
\* (mutant: the guard is missing)
CounterUsableAlways(n) == TRUE
CounterUsable(n) == n < MaxNonce
\* (*counter)++ on a uint64_t.
Increment(n) == IF n = MaxNonce THEN 0 ELSE n + 1

\* unseal() succeeds on p's side: the peer sealed c under the counter p is at.
\* (mutants: any counter opens; a later counter opens)
OpensAnyCounter(p, c) ==
  \E f \in Frame, n \in 0..MaxNonce : c = Sealed(Peer(p), n, f)
OpensLaterCounter(p, c) ==
  \E f \in Frame, n \in receiveNonce[p]..MaxNonce : c = Sealed(Peer(p), n, f)
Opens(p, c) ==
  /\ CounterUsable(receiveNonce[p])
  /\ \E f \in Frame : c = Sealed(Peer(p), receiveNonce[p], f)

\* fail(): the whole state is zeroed, failed is set; nothing is sent.
Fail(p) ==
  /\ failed' = [failed EXCEPT ![p] = TRUE]
  /\ sendNonce' = [sendNonce EXCEPT ![p] = 0]
  /\ receiveNonce' = [receiveNonce EXCEPT ![p] = 0]
  /\ sendChunked' = [sendChunked EXCEPT ![p] = FALSE]
  /\ receiveChunked' = [receiveChunked EXCEPT ![p] = FALSE]
  /\ UNCHANGED <<network, sent, received>>

\* thalovant_noise_encrypt.  fits: the frame is at most CHUNK_SIZE + 1 bytes,
\* the output has room for the tag and no pointer is NULL.
\* (mutant: the failed flag is not looked at)
EncryptOkAfterFailure(p, f, fits) ==
  fits /\ MarkerOk(sendChunked[p], f.marker) /\ CounterUsable(sendNonce[p])
EncryptOk(p, f, fits) ==
  /\ ~failed[p]
  /\ fits
  /\ MarkerOk(sendChunked[p], f.marker)
  /\ CounterUsable(sendNonce[p])

\* (mutant: the counter is advanced before it is used)
EncryptPreIncrements(p, f, fits) ==
  /\ EncryptOk(p, f, fits)
  /\ network' = network \cup {Sealed(p, Increment(sendNonce[p]), f)}
  /\ sendNonce' = [sendNonce EXCEPT ![p] = Increment(@)]
  /\ sendChunked' = [sendChunked EXCEPT ![p] = MarkerNext(@, f.marker)]
  /\ sent' = [sent EXCEPT ![p] = Append(@, f)]
  /\ UNCHANGED <<failed, receiveNonce, receiveChunked, received>>
Encrypt(p, f, fits) ==
  \/ /\ EncryptOk(p, f, fits)
     /\ network' = network \cup {Sealed(p, sendNonce[p], f)}
     /\ sendNonce' = [sendNonce EXCEPT ![p] = Increment(@)]
     /\ sendChunked' = [sendChunked EXCEPT ![p] = MarkerNext(@, f.marker)]
     /\ sent' = [sent EXCEPT ![p] = Append(@, f)]
     /\ UNCHANGED <<failed, receiveNonce, receiveChunked, received>>
  \/ /\ ~EncryptOk(p, f, fits)
     /\ Fail(p)

\* thalovant_noise_decrypt.  fits: the length is 17..65535, the output has
\* room and no pointer is NULL.  A frame whose marker is refused is wiped
\* from the output before fail().
DecryptOk(p, c, fits) ==
  /\ ~failed[p]
  /\ fits
  /\ Opens(p, c)
  /\ MarkerOk(receiveChunked[p], c.frame.marker)

\* (mutant: receive_chunked is checked but not updated)
DecryptForgetsChunk(p, c, fits) ==
  /\ DecryptOk(p, c, fits)
  /\ receiveNonce' = [receiveNonce EXCEPT ![p] = Increment(@)]
  /\ received' = [received EXCEPT ![p] = Append(@, c.frame)]
  /\ UNCHANGED <<failed, sendNonce, sendChunked, receiveChunked, network, sent>>
Decrypt(p, c, fits) ==
  \/ /\ DecryptOk(p, c, fits)
     /\ receiveNonce' = [receiveNonce EXCEPT ![p] = Increment(@)]
     /\ receiveChunked' = [receiveChunked EXCEPT ![p] = MarkerNext(@, c.frame.marker)]
     /\ received' = [received EXCEPT ![p] = Append(@, c.frame)]
     /\ UNCHANGED <<failed, sendNonce, sendChunked, network, sent>>
  \/ /\ ~DecryptOk(p, c, fits)
     /\ Fail(p)

Next ==
  \E p \in Party, fits \in BOOLEAN :
    \/ \E f \in Frame : Encrypt(p, f, fits)
    \/ \E c \in network \cup {Tampered} : Decrypt(p, c, fits)

Spec == Init /\ [][Next]_vars

-----------------------------------------------------------------------------
TypeOK ==
  /\ failed \in [Party -> BOOLEAN]
  /\ sendNonce \in [Party -> 0..MaxNonce]
  /\ receiveNonce \in [Party -> 0..MaxNonce]
  /\ sendChunked \in [Party -> BOOLEAN]
  /\ receiveChunked \in [Party -> BOOLEAN]
  /\ network \subseteq Ciphertext
  /\ sent \in [Party -> Seq(Frame)]
  /\ received \in [Party -> Seq(Frame)]

\* What either end has received is, in order and without a gap, a repetition
\* or a foreign frame, the beginning of what its peer's encrypt accepted: the
\* counters of seal and unseal against replay, loss and reordering.
ReceivedIsPrefix ==
  \A p \in Party :
    /\ Len(received[p]) <= Len(sent[Peer(p)])
    /\ \A i \in 1..Len(received[p]) : received[p][i] = sent[Peer(p)][i]

\* One send key never seals two frames under one counter, not even after a
\* failure has zeroed the counters or at the counter's end: seal's guard, its
\* increment, and the sticky failed flag of thalovant_noise_encrypt.
OneFramePerNonce ==
  \A c, d \in network : c.from = d.from /\ c.nonce = d.nonce => c = d

\* A stream is open after its first n frames when a first chunk among them has
\* been followed by middle chunks only.
Open(frames, n) ==
  \E i \in 1..n : /\ frames[i].marker \in FirstChunk
                 /\ \A j \in i+1..n : frames[j].marker = MiddleChunk

WellChunked(frames) ==
  \A n \in 1..Len(frames) : MarkerOk(Open(frames, n - 1), frames[n].marker)

\* What an application gets from decrypt can always be reassembled: chunked
\* frames are never interleaved with others, continued without a first chunk
\* or started twice (marker(), on both sides).
StreamsWellChunked == \A p \in Party : WellChunked(received[p])

\* The receiver's marker check never costs a session with an honest peer: a
\* ciphertext that authenticates is always admitted by the receiver's chunk
\* state, so the two ends' independent chunk states stay in step.
AuthenticIsAdmitted ==
  \A p \in Party, c \in network :
    ~failed[p] /\ Opens(p, c) => MarkerOk(receiveChunked[p], c.frame.marker)

\* "Every error is terminal": a failed session stays failed, and neither
\* accepts nor returns another frame.
FailureIsFinal ==
  [][\A p \in Party : failed[p] => /\ failed'[p]
                                  /\ sent'[p] = sent[p]
                                  /\ received'[p] = received[p]]_vars

\* The session implements the channel the application above it relies on.
Channel == INSTANCE SecureChannel WITH
             PeerOf <- [p \in Party |-> Peer(p)], broken <- failed
ImplementsChannel == Channel!ChanSpec

-----------------------------------------------------------------------------
\* A transport that keeps offering what was sent, to ends that keep reading.
DecryptNext(p) == \E c \in network : DecryptOk(p, c, TRUE) /\ Decrypt(p, c, TRUE)
FairSpec == Spec /\ \A p \in Party : WF_vars(DecryptNext(p))

\* Whatever one end's encrypt accepted the other end returns, unless that end
\* fails: the counters and chunk states of the two ends cannot drift apart.
SentIsReceived ==
  \A p \in Party, n \in 1..MaxNonce :
    (Len(sent[Peer(p)]) >= n) ~> (Len(received[p]) >= n \/ failed[p])
=============================================================================
