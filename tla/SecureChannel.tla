--------------------------- MODULE SecureChannel ---------------------------
(***************************************************************************)
(* What an established Noise session promises the application above it: a  *)
(* pair of FIFO streams of frames.  Each end either receives exactly the   *)
(* next frame its peer sent, or breaks and receives nothing more.          *)
(***************************************************************************)
EXTENDS Naturals, Sequences

CONSTANTS Party,        \* the two ends
          PeerOf,       \* PeerOf[p]: the other end
          Frame         \* the frames an application may send

VARIABLES sent,         \* sent[p]: every frame p's session accepted
          received,     \* received[p]: every frame p's session returned
          broken        \* broken[p]: p's session is over

chanVars == <<sent, received, broken>>

ChanInit ==
  /\ sent = [p \in Party |-> <<>>]
  /\ received = [p \in Party |-> <<>>]
  /\ broken = [p \in Party |-> FALSE]

Send(p, f) ==
  /\ ~broken[p]
  /\ sent' = [sent EXCEPT ![p] = Append(@, f)]
  /\ UNCHANGED <<received, broken>>

Deliver(p) ==
  /\ ~broken[p]
  /\ Len(received[p]) < Len(sent[PeerOf[p]])
  /\ received' = [received EXCEPT ![p] = Append(@, sent[PeerOf[p]][Len(@) + 1])]
  /\ UNCHANGED <<sent, broken>>

Break(p) ==
  /\ broken' = [broken EXCEPT ![p] = TRUE]
  /\ UNCHANGED <<sent, received>>

ChanNext ==
  \E p \in Party : \/ \E f \in Frame : Send(p, f)
                   \/ Deliver(p)
                   \/ Break(p)

ChanSpec == ChanInit /\ [][ChanNext]_chanVars
============================================================================
