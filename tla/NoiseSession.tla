---------------------------- MODULE NoiseSession ----------------------------
(***************************************************************************)
(* Two applications, each driving a thalovant_noise state through the      *)
(* calls of noise.h: the client initiates, the hub responds, both may      *)
(* close and connect again at any moment.  The library owns no transport,  *)
(* so messages live in a set that never shrinks (lost, late, repeated,     *)
(* reflected, or of an earlier connection) and bytes may change or be cut  *)
(* on the way.  Each end's application may also call at the wrong time.    *)
(***************************************************************************)
EXTENDS Noise, FiniteSets

CONSTANTS Client, Hub,
          MaxConnections,  \* bound: connections either end opens
          MaxFrames,       \* bound: frames one session sends
          PayloadLen,      \* bytes of a handshake payload or frame
          Capacities,      \* sizes of the callers' buffers
          Pins,            \* what an application may pass as a pin
          Secrets,         \* the passwords in use
          Prologues        \* the hello and offer as an end has seen them

ASSUME SessionAssumption ==
  /\ Client # Hub
  /\ MaxConnections \in Nat /\ MaxFrames \in Nat /\ PayloadLen \in Nat
  /\ Capacities \subseteq Nat /\ Pins \subseteq {"none", "peer", "other"}
  /\ "stranger" \notin {Client, Hub}

Party == {Client, Hub}
Peer(p) == IF p = Client THEN Hub ELSE Client
Static(p) == KeyPair(p, 0)
Ephemeral(p, conn) == KeyPair(p, conn)

VARIABLES psk, prologue, pin,  \* what each application was configured with
          offer,        \* the patterns the hub advertises
          conn,         \* connections each end has opened
          state,        \* each end's thalovant_noise
          wire,         \* every message either end produced
          wrote,        \* history: each end's hash after each write
          completed,    \* history: the sessions that became ready
          received      \* history: the frames of each end's present session

config == <<psk, prologue, pin, offer>>
vars == <<psk, prologue, pin, offer, conn, state, wire, wrote, completed, received>>

Init ==
  /\ psk \in [Party -> Secrets]
  /\ prologue \in [Party -> Prologues]
  /\ pin \in [Party -> Pins]
  /\ offer \in SUBSET {XX, KK}
  /\ conn = [p \in Party |-> 0]
  /\ state = [p \in Party |-> Zeroed]
  /\ wire = {}
  /\ wrote = {}
  /\ completed = {}
  /\ received = [p \in Party |-> <<>>]

\* A pin names the peer's static key or another one.
PinOf(p) == CASE pin[p] = "none" -> NoPin
              [] pin[p] = "peer" -> Static(Peer(p))
              [] pin[p] = "other" -> KeyPair("stranger", 0)

Session(p, s) == [party |-> p, conn |-> conn[p], hash |-> s.hash,
                  send |-> s.sendKey, receive |-> s.receiveKey]

\* A call at p has left r.s; m is what it put on the wire.
Leaves(p, r, m) ==
  /\ state' = [state EXCEPT ![p] = r.s]
  /\ wire' = IF m = <<>> THEN wire ELSE wire \cup {m}
  /\ wrote' = IF m # <<>> /\ ~state[p].ready
              THEN wrote \cup {[by |-> p, hash |-> r.s.hash]} ELSE wrote
  /\ completed' = IF r.s.ready /\ ~state[p].ready
                  THEN completed \cup {Session(p, r.s)} ELSE completed
  /\ UNCHANGED <<config, conn>>

\* A fresh ephemeral for every connection, the same static key, PSK and pin.
\* (mutant: the first connection's ephemeral is used again)
ConnectStaleEphemeral(p, pattern) ==
  /\ conn[p] < MaxConnections
  /\ conn' = [conn EXCEPT ![p] = @ + 1]
  /\ state' = [state EXCEPT ![p] =
       NoiseInit(pattern, p = Client, psk[p], prologue[p], Static(p), Ephemeral(p, 1),
                 PinOf(p)).s]
  /\ received' = [received EXCEPT ![p] = <<>>]
  /\ UNCHANGED <<config, wire, wrote, completed>>
Connect(p, pattern) ==
  /\ conn[p] < MaxConnections
  /\ conn' = [conn EXCEPT ![p] = @ + 1]
  /\ state' = [state EXCEPT ![p] =
       NoiseInit(pattern, p = Client, psk[p], prologue[p], Static(p),
                 Ephemeral(p, conn[p] + 1), PinOf(p)).s]
  /\ received' = [received EXCEPT ![p] = <<>>]
  /\ UNCHANGED <<config, wire, wrote, completed>>

\* The client connects with the pattern select chooses, without its pin for
\* the retry after a failed KK; the hub with the pattern it is asked for.
Dial(hasPin) ==
  LET choice == NoiseSelect(offer, hasPin)
  IN choice.rc = "OK" /\ Connect(Client, choice.pattern)
Accept == \E pattern \in offer : Connect(Hub, pattern)

Write(p, capacity) ==
  LET r == NoiseWrite(state[p], "payload", PayloadLen, capacity)
  IN Leaves(p, r, r.out) /\ UNCHANGED received

Read(p, m, capacity) ==
  LET r == NoiseRead(state[p], m, capacity)
  IN Leaves(p, r, <<>>) /\ UNCHANGED received

Encrypt(p, capacity) ==
  LET frame == [from |-> p, conn |-> conn[p], seq |-> state[p].sendNonce + 1]
      r == NoiseEncrypt(state[p], frame, PayloadLen, capacity)
  IN /\ state[p].sendNonce < MaxFrames
     /\ Leaves(p, r, r.out)
     /\ UNCHANGED received

Decrypt(p, m, capacity) ==
  LET r == NoiseDecrypt(state[p], m, capacity)
  IN /\ Leaves(p, r, <<>>)
     /\ received' = IF r.rc = "OK" THEN [received EXCEPT ![p] = Append(@, r.out)]
                                   ELSE received

\* What may arrive instead of m: one piece changed to other bytes of the same
\* length, or the end of m cut off.
Altered(m) ==
  {[m EXCEPT ![i].item = [key |-> k]] : i \in 1..Len(m), k \in {GarbageKey, ZeroKey}}
    \cup {Front(m), Append(Front(m), Piece(Last(m).size - 1, [key |-> GarbageKey]))}
Arriving == wire \cup UNION {Altered(m) : m \in wire}

Next ==
  \/ \E hasPin \in {PinOf(Client) # NoPin, FALSE} : Dial(hasPin)
  \/ Accept
  \/ \E p \in Party, capacity \in Capacities :
       \/ Write(p, capacity)
       \/ Encrypt(p, capacity)
       \/ \E m \in Arriving : Read(p, m, capacity) \/ Decrypt(p, m, capacity)

Spec == Init /\ [][Next]_vars

-----------------------------------------------------------------------------
TypeOK ==
  /\ conn \in [Party -> 0..MaxConnections]
  /\ \A p \in Party :
       /\ state[p].step \in 0..3
       /\ {state[p].ready, state[p].failed, state[p].hasKey} \subseteq BOOLEAN
       /\ state[p].ready => ~state[p].failed /\ state[p].step = Len(Tokens[state[p].pattern])
       /\ state[p].sendNonce \in 0..MaxFrames /\ state[p].receiveNonce \in 0..MaxFrames
  /\ \A c \in completed : c.party \in Party /\ c.conn \in 1..MaxConnections

\* The steps alternate, so an end whose turn it is to write has read last.
HasReadLast(p) == /\ state[p].step > 0 /\ ~state[p].failed
                  /\ (state[p].step % 2 = 0) = state[p].initiator

\* Whatever handshake message an end accepts, the peer wrote it in exactly the
\* conversation this end is in: same prologue, keys and messages before it
\* (mix_hash and decrypt_hash, the payload sealed in every message).
MatchingConversations ==
  \A p \in Party : HasReadLast(p) =>
    [by |-> Peer(p), hash |-> state[p].hash] \in wrote

\* Two ends that completed one conversation hold crossed transport keys, and
\* no transport key serves two connections or both directions (split).
KeysAgree ==
  \A c, d \in completed :
    /\ c.send # c.receive
    /\ c.party # d.party /\ c.hash = d.hash => c.send = d.receive /\ c.receive = d.send
    /\ c.party = d.party /\ c.conn # d.conn =>
         {c.send, c.receive} \cap {d.send, d.receive} = {}

\* A ready session is with a peer that has the same password, saw the same
\* offer, and owns the pinned static key when there is a pin, in KK and in XX.
ReadyIsAuthenticated ==
  \A p \in Party : state[p].ready =>
    /\ psk[p] = psk[Peer(p)] /\ prologue[p] = prologue[Peer(p)]
    /\ state[p].remoteStatic = Static(Peer(p))
    /\ pin[p] \in {"none", "peer"}

\* A session that must have heard the peer's last word (an XX responder, a KK
\* initiator, any that decrypted a frame) has a peer that is ready too, even
\* when messages of earlier connections are replayed.
PeerCompleted ==
  \A p \in Party :
    state[p].ready /\ (HasReadLast(p) \/ state[p].receiveNonce > 0) =>
      \E c \in completed : c.party = Peer(p) /\ c.hash = state[p].hash

\* Frames returned by a session were sent, in that order, on the connection
\* its handshake was made with.
FramesFromPartner ==
  \A p \in Party : \A i \in 1..Len(received[p]) :
    received[p][i] = [from |-> Peer(p), conn |-> state[p].remoteEphemeral.conn, seq |-> i]
      \/ state[p].failed

SealedOnWire ==
  UNION {{m[i].item.sealed : i \in {j \in 1..Len(m) : "sealed" \in DOMAIN m[j].item}} : m \in wire}

\* No key of a handshake or a transport ever seals two plaintexts, or under two
\* associated data, with one counter (mix_key resets it, seal increments it).
OneSealPerNonce ==
  \A x, y \in SealedOnWire : x.k = y.k /\ x.n = y.n => x = y

\* Only ephemeral public keys cross the wire in clear: the first e already
\* keys the cipher, as PSK handshakes must (mix_key in the E case).
NothingElseInClear ==
  \A m \in wire : \A i \in 1..Len(m) :
    "sealed" \in DOMAIN m[i].item
      \/ \E p \in Party, k \in 1..MaxConnections : m[i].item = [key |-> Ephemeral(p, k)]

\* "Maximum possible overhead is ephemeral+encrypted static+payload tag": no
\* write goes past the buffer its capacity check admitted.
WritesFitBuffer == \A m \in wire : Size(m) <= PayloadLen + Overhead

\* Every step count, flag and counter stays in its range, and every write in
\* its buffer, whatever is called when and read in which order.
StaysInBounds == TypeOK /\ WritesFitBuffer

\* docs/noise-v3.md, on the fallback to XX: "only XX tells a changed password
\* (a refusal) from a changed hub key (a pin mismatch)".  So where a pinned
\* client reads an XX answer it would accept, a changed password and a changed
\* hub key must not leave it with the same code (and the same, wiped, state).
XXTellsPasswordFromHubKey ==
  LET s == state[Client]
      after(t, m) == NoiseRead(t, m, PayloadLen + Overhead)
  IN \A m \in wire :
       s.pattern = XX /\ s.pin # NoPin /\ after(s, m).rc = "OK" =>
         after([s EXCEPT !.psk = "changed"], m)
           # after([s EXCEPT !.pin = KeyPair("stranger", 0)], m)
=============================================================================
