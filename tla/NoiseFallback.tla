--------------------------- MODULE NoiseFallback ---------------------------
(***************************************************************************)
(* NoiseSession driven as docs/noise-v3.md tells an application to drive   *)
(* it: each end makes the call that is due, on a transport that delivers   *)
(* in order; a failed KK attempt is retried once, at once, as XX with the  *)
(* same pin; the client's first frame is its hello.                        *)
(***************************************************************************)
EXTENDS NoiseSession

VARIABLES dialled,   \* the pattern the client's connection was opened with
          inFlight   \* what each end has sent and the other not yet read

fallbackVars == <<vars, dialled, inFlight>>

FallbackInit == Init /\ dialled = "none" /\ inFlight = [p \in Party |-> <<>>]

Ample == PayloadLen + Overhead

\* The drive never runs into a buffer: what it does with one, any session may do.
ASSUME FallbackAssumption == Ample \in Capacities

Quiet == inFlight' = [p \in Party |-> <<>>]
Sends(p, m) == inFlight' = [inFlight EXCEPT ![p] = IF m = <<>> THEN @ ELSE Append(@, m)]
Pops(p) == inFlight' = [inFlight EXCEPT ![Peer(p)] = Tail(@)]

DialOnce(hasPin) ==
  /\ Dial(hasPin)
  /\ dialled' = NoiseSelect(offer, hasPin).pattern
  /\ Quiet

\* The hub closes on failure; its close, or an answer that does not
\* authenticate, ends the client's attempt.
AttemptFailed ==
  \/ state[Client].failed
  \/ conn[Hub] = conn[Client] /\ state[Hub].failed
\* p's end of the client's present connection is open.
Joined(p) == conn[p] = conn[Client] /\ conn[p] > 0 /\ ~AttemptFailed

\* What is due, by the calls' own conditions.
Choice == NoiseSelect(offer, PinOf(Client) # NoPin)
DialIsDue == conn[Client] = 0 /\ Choice.rc = "OK"
RetryIsDue == conn[Client] = 1 /\ dialled = KK /\ AttemptFailed /\ XX \in offer
AcceptIsDue == conn[Hub] < conn[Client] /\ inFlight[Client] # <<>>
WriteIsDue(p) == Joined(p) /\ InHandshake(state[p]) /\ TurnToWrite(state[p])
ReadIsDue(p) == Joined(p) /\ InHandshake(state[p]) /\ ~TurnToWrite(state[p])
                  /\ inFlight[Peer(p)] # <<>>
HelloIsDue == Joined(Client) /\ state[Client].ready /\ state[Client].sendNonce = 0
HelloIsHere == Joined(Hub) /\ state[Hub].ready /\ inFlight[Client] # <<>>

Due == \/ DialIsDue \/ RetryIsDue \/ AcceptIsDue
       \/ \E p \in Party : WriteIsDue(p) \/ ReadIsDue(p)
       \/ HelloIsDue \/ HelloIsHere

DialFirst == DialIsDue /\ DialOnce(PinOf(Client) # NoPin)

RetryAsXX == RetryIsDue /\ DialOnce(FALSE)

\* The client's first message names the pattern the hub initialises with.
AcceptDialled ==
  /\ AcceptIsDue
  /\ Connect(Hub, dialled)
  /\ UNCHANGED <<dialled, inFlight>>

WriteDue(p) ==
  /\ WriteIsDue(p)
  /\ Write(p, Ample)
  /\ Sends(p, NoiseWrite(state[p], "payload", PayloadLen, Ample).out)
  /\ UNCHANGED dialled

ReadDue(p) ==
  /\ ReadIsDue(p)
  /\ Read(p, Head(inFlight[Peer(p)]), Ample)
  /\ Pops(p)
  /\ UNCHANGED dialled

SendHello ==
  /\ HelloIsDue
  /\ Encrypt(Client, Ample)
  /\ inFlight' = [inFlight EXCEPT ![Client] =
       Append(@, CHOOSE m \in wire' : m \notin wire)]
  /\ UNCHANGED dialled

ReadHello ==
  /\ HelloIsHere
  /\ Decrypt(Hub, Head(inFlight[Client]), Ample)
  /\ Pops(Hub)
  /\ UNCHANGED dialled

\* Both applications are done.
Rest == ~Due /\ UNCHANGED fallbackVars

FallbackNext ==
  \/ DialFirst
  \/ RetryAsXX
  \/ AcceptDialled
  \/ \E p \in Party : WriteDue(p) \/ ReadDue(p)
  \/ SendHello
  \/ ReadHello
  \/ Rest

\* Both applications make the call that is due, and the transport delivers:
\* weak fairness of FallbackNext, with Due written out for ENABLED.
FallbackSpec ==
  /\ FallbackInit /\ [][FallbackNext]_fallbackVars
  /\ <>[]Due => []<><<FallbackNext>>_fallbackVars

-----------------------------------------------------------------------------
Greeted == received[Hub] # <<>>
Compatible ==
  /\ psk[Client] = psk[Hub] /\ prologue[Client] = prologue[Hub]
  /\ XX \in offer /\ "other" \notin {pin[Client], pin[Hub]}

\* With one password, one offer, the right keys and XX on offer, the client's
\* hello always reaches the hub, also when the hub has no pin for a client
\* that dials KK first (init refuses KK without a pin).
CompatibleEndsConnect == Compatible ~> Greeted

\* No two ends wait for each other for ever: the hub gets the hello, or an end
\* has failed and so closed, or select found no pattern to dial.
AttemptsSettle ==
  <>[](Greeted \/ AttemptFailed \/ Choice.rc # "OK")

\* Whatever the fallback does, an incompatible pin is never connected past:
\* the XX retry still compares the pin select was told to ignore.
PinOutlivesFallback == Greeted => "other" \notin {pin[Client], pin[Hub]}
=============================================================================
