------------------------- MODULE NoiseSession_proofs -------------------------
(* The handshake agrees: whoever is ready is ready with the pinned peer of   *)
(* the same password and offer, in the peer's conversation and with crossed  *)
(* keys, for any number of connections and frames, any configuration of the  *)
(* two ends and any buffers.  The documented drive of NoiseFallback is a     *)
(* session of this kind, so all of it holds there too.                       *)
EXTENDS NoiseFallback, SequenceTheorems, TLAPS

\* A sequence, of whatever.
IsSeq(q) == Len(q) \in Nat /\ q = [i \in 1..Len(q) |-> q[i]]
\* A state has all the fields of thalovant_noise.
IsState(s) == DOMAIN s = DOMAIN Zeroed

Steps(pattern) == IF pattern = XX THEN 3 ELSE 2
\* How much was mixed into the hash and the chaining key before each step.
HashLen(pattern, step) ==
  CASE step = 0 -> IF pattern = XX THEN 2 ELSE 4
    [] step = 1 -> IF pattern = XX THEN 4 ELSE 7
    [] step = 2 -> IF pattern = XX THEN 8 ELSE 9
    [] OTHER -> 10
CkLen(pattern, step) ==
  CASE step = 0 -> 1
    [] step = 1 -> IF pattern = XX THEN 2 ELSE 5
    [] step = 2 -> IF pattern = XX THEN 6 ELSE 8
    [] OTHER -> 7
\* Where the ephemeral key of an end stands in the chaining key, and after
\* which step.
EphAt(pattern, initiator) ==
  IF pattern = XX THEN IF initiator THEN 2 ELSE 3
                  ELSE IF initiator THEN 3 ELSE 6
EphBy(initiator) == IF initiator THEN 1 ELSE 2

\* What an end is configured with.
MeOf(p, c) == [initiator |-> p = Client, static |-> Static(p), ephemeral |-> Ephemeral(p, c),
               psk |-> psk[p], prologue |-> prologue[p], pin |-> PinOf(p)]
Me(p) == MeOf(p, conn[p])
\* The premessages of KK, as an end has them.
InitiatorStatic(me) == IF me.initiator THEN me.static ELSE me.pin
ResponderStatic(me) == IF me.initiator THEN me.pin ELSE me.static
\* What a transcript of an end begins with.
Begins(hash, pattern, me) ==
  /\ hash[1] = [name |-> pattern] /\ hash[2] = [prologue |-> me.prologue]
  /\ pattern = KK => /\ hash[3] = [key |-> InitiatorStatic(me)]
                     /\ hash[4] = [key |-> ResponderStatic(me)]
  /\ pattern = KK /\ Len(hash) >= 5 => hash[5].derived[2] = [psk |-> me.psk]
  /\ pattern = XX /\ Len(hash) >= 7 => hash[7].derived[6] = [psk |-> me.psk]
\* The chaining key and what it holds.
Chains(ck, pattern, step, me, remote) ==
  /\ IsSeq(ck) /\ Len(ck) = CkLen(pattern, step) /\ ck[1] = [name |-> pattern]
  /\ step >= EphBy(me.initiator) => ck[EphAt(pattern, me.initiator)] = [key |-> me.ephemeral]
  /\ step >= EphBy(~me.initiator) => ck[EphAt(pattern, ~me.initiator)] = [key |-> remote]
\* The last thing hashed is the payload sealed under all that went before.
LastSeal(hash) == hash[Len(hash)].sealed
EndsSealed(hash) == hash = Append(LastSeal(hash).ad, [sealed |-> LastSeal(hash)])

\* The state of an end that has not failed, after any number of steps: who it
\* is, its transcript, and its keys before and after it is ready.
Identity(s, me) ==
  /\ IsState(s) /\ s.failed = FALSE /\ s.pattern \in {XX, KK} /\ s.step \in 0..Steps(s.pattern)
  /\ s.ready \in BOOLEAN /\ (s.ready = TRUE <=> s.step = Steps(s.pattern))
  /\ s.initiator = me.initiator /\ s.localPublic = me.static /\ s.pin = me.pin
  /\ s.pattern = KK => me.pin # NoPin /\ s.remoteStatic = me.pin
Transcript(s, me) ==
  /\ IsSeq(s.hash) /\ Len(s.hash) = HashLen(s.pattern, s.step)
  /\ Begins(s.hash, s.pattern, me)
  /\ s.step > 0 => EndsSealed(s.hash) /\ IsSeq(LastSeal(s.hash).ad)
Running(s, me) ==
  /\ s.ephemeral = me.ephemeral /\ s.psk = me.psk /\ s.nonce \in Nat
  /\ s.sendNonce = 0 /\ s.receiveNonce = 0
  /\ Chains(s.ck, s.pattern, s.step, me, s.remoteEphemeral)
  /\ s.step = 0 => s.hasKey = FALSE
  /\ s.step > 0 =>
       /\ s.hasKey = TRUE /\ s.nonce = 1
       /\ s.key = [of |-> s.ck, out |-> IF s.pattern = XX /\ s.step = 2 THEN 3 ELSE 2]
Established(s, me) ==
  /\ s.sendNonce \in Nat /\ s.receiveNonce \in Nat /\ s.hasKey = TRUE
  /\ Chains(s.sendKey.of, s.pattern, s.step, me, s.remoteEphemeral)
  /\ s.sendKey = [of |-> s.sendKey.of, split |-> IF me.initiator THEN 1 ELSE 2]
  /\ s.receiveKey = [of |-> s.sendKey.of, split |-> IF me.initiator THEN 2 ELSE 1]
  /\ LastSeal(s.hash).k = [of |-> s.sendKey.of, out |-> 2] /\ LastSeal(s.hash).n = 0
Shape(s, me) == /\ Identity(s, me) /\ Transcript(s, me)
                /\ s.ready = FALSE => Running(s, me)
                /\ s.ready = TRUE => Established(s, me)

\* What a handshake seals: at which length of the hash, by whom, in which step,
\* under a chaining key of which length, with which counter.
Row(pattern, len, initiator, step, ck, out, n, payload) ==
  [pattern |-> pattern, len |-> len, initiator |-> initiator, step |-> step,
   ck |-> ck, out |-> out, n |-> n, payload |-> payload]
Rows == {Row(XX, 3, TRUE, 0, 2, 2, 0, TRUE),
         Row(XX, 5, FALSE, 1, 4, 2, 0, FALSE), Row(XX, 7, FALSE, 1, 6, 3, 0, TRUE),
         Row(XX, 8, TRUE, 2, 6, 3, 1, FALSE), Row(XX, 9, TRUE, 2, 7, 2, 0, TRUE),
         Row(KK, 6, TRUE, 0, 5, 2, 0, TRUE), Row(KK, 8, FALSE, 1, 8, 2, 0, TRUE)}

\* x was sealed as that row says by an end that is configured as me.
SealedBy(x, row, me) ==
  /\ x = [k |-> x.k, n |-> x.n, ad |-> x.ad, pt |-> x.pt]
  /\ row.initiator = me.initiator
  /\ IsSeq(x.ad) /\ Len(x.ad) = row.len /\ Begins(x.ad, row.pattern, me)
  /\ x.n = row.n /\ x.k = [of |-> x.k.of, out |-> row.out]
  /\ IsSeq(x.k.of) /\ Len(x.k.of) = row.ck /\ x.k.of[1] = [name |-> row.pattern]
  /\ x.k.of[EphAt(row.pattern, row.initiator)] = [key |-> me.ephemeral]
  /\ ~row.payload => x.pt = [key |-> me.static]
  /\ row.pattern = KK => me.pin # NoPin

-----------------------------------------------------------------------------
\* Everything sealed on the wire was sealed by an end, in a step it has behind
\* it, and what it has to do with the histories.
Sealer(row) == IF row.initiator THEN Client ELSE Hub
HandshakeSeal(x, row, c) ==
  LET w == Sealer(row)
      after == Append(x.ad, [sealed |-> x])
  IN /\ SealedBy(x, row, MeOf(w, c)) /\ c <= conn[w]
     /\ c = conn[w] /\ ~state[w].failed => state[w].step > row.step
     /\ row.payload => [by |-> w, hash |-> after] \in wrote
     /\ row.payload /\ row.step + 1 = Steps(row.pattern) =>
          \E d \in completed : d.party = w /\ d.hash = after
FromHandshake(x) == \E row \in Rows, c \in 1..MaxConnections : HandshakeSeal(x, row, c)
SessionSeal(x, d) ==
  /\ x = [k |-> d.send, n |-> x.n, ad |-> <<>>,
          pt |-> [from |-> d.party, conn |-> d.conn, seq |-> x.n + 1]]
  /\ x.n \in 0..MaxFrames - 1
  /\ d.conn = conn[d.party] /\ ~state[d.party].failed =>
       state[d.party].ready /\ x.n < state[d.party].sendNonce
FromSession(x) == \E d \in completed : SessionSeal(x, d)

\* An item that may be on the wire; what may be read instead has the form of a
\* public key.
OnWire(x) == \E m \in wire : \E i \in 1..Len(m) : m[i].item = [sealed |-> x]
ItemOK(item) ==
  \/ /\ "sealed" \in DOMAIN item /\ item = [sealed |-> item.sealed]
     /\ FromHandshake(item.sealed) \/ FromSession(item.sealed)
  \/ \E p \in Party, c \in 1..MaxConnections : item = [key |-> Ephemeral(p, c)]
MessageOK(m) == /\ IsSeq(m) /\ Len(m) \in 1..3 /\ Size(m) <= PayloadLen + Overhead
                /\ \A i \in 1..Len(m) : /\ m[i] = Piece(m[i].size, m[i].item)
                                       /\ m[i].size \in Nat /\ ItemOK(m[i].item)
WireOK == \A m \in wire : MessageOK(m)

\* A session that became ready: its keys and the conversation they are of.
CompletedForm(d) ==
  LET K == d.send.of
      q == K[1].name
      first == d.party = Client
      x == LastSeal(d.hash)
  IN /\ d.party \in Party /\ d.conn \in 1..MaxConnections
     /\ d = [party |-> d.party, conn |-> d.conn, hash |-> d.hash,
             send |-> d.send, receive |-> d.receive]
     /\ d.send = [of |-> K, split |-> IF first THEN 1 ELSE 2]
     /\ d.receive = [of |-> K, split |-> IF first THEN 2 ELSE 1]
     /\ q \in {XX, KK} /\ K[1] = [name |-> q] /\ IsSeq(K) /\ Len(K) = CkLen(q, Steps(q))
     /\ K[EphAt(q, first)] = [key |-> Ephemeral(d.party, d.conn)]
     /\ EndsSealed(d.hash) /\ x.k = [of |-> K, out |-> 2] /\ x.n = 0
CompletedOK(d) == CompletedForm(d) /\ d.conn <= conn[d.party] /\ OnWire(LastSeal(d.hash))

\* A state is zeroed, failed or of the shape above, and what the ends know.
Dead == [Zeroed EXCEPT !.failed = TRUE]
SessionOK(p) == \/ state[p] \in {Zeroed, Dead}
                \/ Shape(state[p], Me(p)) /\ conn[p] > 0
\* An end has read a payload the peer's password is in.
HasHeardPsk(p) ==
  LET s == state[p] IN
  IF s.pattern = XX THEN s.step >= IF p = Client THEN 2 ELSE 3
  ELSE s.pattern = KK /\ s.step >= IF p = Client THEN 2 ELSE 1
KnowsPeer(p) ==
  HasHeardPsk(p) => /\ psk[p] = psk[Peer(p)] /\ prologue[p] = prologue[Peer(p)]
                    /\ state[p].remoteStatic = Static(Peer(p))
                    /\ PinOf(p) \in {NoPin, Static(Peer(p))}
HasPeersWord(p) ==
  HasReadLast(p) =>
    /\ [by |-> Peer(p), hash |-> state[p].hash] \in wrote
    /\ state[p].ready => \E d \in completed : d.party = Peer(p) /\ d.hash = state[p].hash
SealIsOnWire(p) == state[p].ready => OnWire(LastSeal(state[p].hash))
HasCompleted(p) == state[p].ready => Session(p, state[p]) \in completed
HasReceived(p) ==
  LET s == state[p] IN
  /\ IsSeq(received[p])
  /\ s.failed \/ Len(received[p]) = s.receiveNonce
  /\ s.ready /\ s.receiveNonce > 0 =>
       \E d \in completed : d.party = Peer(p) /\ d.send = s.receiveKey
  /\ s.ready => s.sendNonce <= MaxFrames /\ s.receiveNonce <= MaxFrames

\* FramesFromPartner at one end.
FramesOf(p) ==
  \A i \in 1..Len(received[p]) :
    received[p][i] = [from |-> Peer(p), conn |-> state[p].remoteEphemeral.conn, seq |-> i]
      \/ state[p].failed
EndOK(p) == /\ SessionOK(p) /\ KnowsPeer(p) /\ HasPeersWord(p) /\ SealIsOnWire(p)
            /\ HasCompleted(p) /\ HasReceived(p) /\ FramesOf(p)

ConfigOK == /\ conn \in [Party -> 0..MaxConnections] /\ pin \in [Party -> Pins]
            /\ DOMAIN state = Party /\ DOMAIN received = Party
HistoryOK == WireOK /\ \A d \in completed : CompletedOK(d)
IInv == /\ ConfigOK /\ HistoryOK /\ \A p \in Party : EndOK(p)
        /\ OneSealPerNonce

-----------------------------------------------------------------------------
(* Sequences. *)

\* r is q with x behind it.
Grows(q, r, x) == /\ IsSeq(r) /\ Len(r) = Len(q) + 1 /\ r[Len(q) + 1] = x
                  /\ \A i \in 1..Len(q) : r[i] = q[i]

\* Appending to a sequence makes it one longer and leaves what it had.
LEMMA AppendGrows ==
  ASSUME NEW q, IsSeq(q), NEW x
  PROVE  Grows(q, Append(q, x), x)
<1> DEFINE S == {q[i] : i \in 1..Len(q)} \cup {x}
<1>1. q \in Seq(S) /\ x \in S
  BY DEF IsSeq
<1>2. Append(q, x) \in Seq(S) /\ Len(Append(q, x)) = Len(q) + 1
  BY <1>1
<1>3. Append(q, x)[Len(q) + 1] = x
  BY <1>1
<1>4. \A i \in 1..Len(q) : Append(q, x)[i] = q[i]
  BY <1>1
<1>5. IsSeq(Append(q, x))
  <2> DEFINE t == Append(q, x)
  <2>1. t \in Seq(S)
    BY <1>2
  <2> HIDE DEF t
  <2>2. IsSeq(t)
    BY <2>1 DEF IsSeq
  <2> QED BY <2>2 DEF t
<1> QED BY <1>2, <1>3, <1>4, <1>5 DEF Grows

\* Two sequences of the same items are the same sequence.
LEMMA SameSeq ==
  ASSUME NEW p, NEW q, IsSeq(p), IsSeq(q), Len(p) = Len(q), \A i \in 1..Len(p) : p[i] = q[i]
  PROVE  p = q
<1>1. p = [i \in 1..Len(p) |-> p[i]] /\ q = [i \in 1..Len(p) |-> q[i]]
  BY DEF IsSeq
<1> QED BY <1>1

\* Append takes nothing apart in two ways.
LEMMA GrowsFromOne ==
  ASSUME NEW p, NEW q, IsSeq(p), IsSeq(q), NEW x, NEW y, Append(p, x) = Append(q, y)
  PROVE  p = q /\ x = y
<1> DEFINE r == Append(p, x)
<1>1. Grows(p, r, x) /\ Grows(q, r, y)
  BY AppendGrows
<1> HIDE DEF r
<1>2. Len(p) \in Nat /\ Len(q) \in Nat
  BY DEF IsSeq
<1>3. Len(p) = Len(q)
  BY <1>1, <1>2 DEF Grows
<1>4. \A i \in 1..Len(p) : p[i] = q[i]
  BY <1>1, <1>3 DEF Grows
<1>5. p = q
  BY <1>3, <1>4, SameSeq
<1> QED BY <1>1, <1>3, <1>5 DEF Grows

-----------------------------------------------------------------------------
(* The symmetric state. *)

\* What no token touches, and what only reading a key does.
Keeps(s, t) ==
  /\ IsState(t) /\ t.pattern = s.pattern /\ t.initiator = s.initiator /\ t.step = s.step
  /\ t.psk = s.psk /\ t.localPublic = s.localPublic /\ t.ephemeral = s.ephemeral
  /\ t.pin = s.pin /\ t.ready = s.ready /\ t.failed = s.failed
  /\ t.sendNonce = s.sendNonce /\ t.receiveNonce = s.receiveNonce
Remotes(s, t) == t.remoteStatic = s.remoteStatic /\ t.remoteEphemeral = s.remoteEphemeral
\* t is s with item mixed into the hash, and the counter moved on by so much.
Hashes(s, t, item, count) ==
  /\ Keeps(s, t) /\ Grows(s.hash, t.hash, item)
  /\ t.ck = s.ck /\ t.key = s.key /\ t.hasKey = s.hasKey /\ t.nonce = s.nonce + count
\* t is s with input mixed into the key.
Keys(s, t, input) ==
  /\ Keeps(s, t) /\ Remotes(s, t) /\ Grows(s.ck, t.ck, input)
  /\ t.hash = s.hash
  /\ t.key = [of |-> t.ck, out |-> 2] /\ t.nonce = 0 /\ t.hasKey = TRUE
\* t is s with input mixed into the key and the hash.
KeysAndHashes(s, t, input) ==
  /\ Keeps(s, t) /\ Remotes(s, t) /\ Grows(s.ck, t.ck, input)
  /\ Grows(s.hash, t.hash, [derived |-> t.ck])
  /\ t.key = [of |-> t.ck, out |-> 3] /\ t.nonce = 0 /\ t.hasKey = TRUE
\* A state that tokens are processed in.
Sound(s) == IsState(s) /\ IsSeq(s.hash) /\ IsSeq(s.ck)

\* mix_hash() appends the item to the transcript and touches neither keys nor
\* counters.
LEMMA MixHashHashes ==
  ASSUME NEW s, Sound(s), NEW item, s.nonce \in Nat
  PROVE  LET t == MixHash(s, item) IN Hashes(s, t, item, 0) /\ Remotes(s, t) /\ Sound(t)
<1> DEFINE t == MixHash(s, item)
<1>1. Grows(s.hash, Append(s.hash, item), item)
  BY AppendGrows DEF Sound
<1>2. IsState(t) /\ t.hash = Append(s.hash, item) /\ Keeps(s, t)
  BY DEF Sound, IsState, Keeps, MixHash, Zeroed
<1>3. Remotes(s, t) /\ t.ck = s.ck /\ t.key = s.key /\ t.hasKey = s.hasKey /\ t.nonce = s.nonce
  BY DEF Sound, IsState, Remotes, MixHash, Zeroed
<1>4. IsSeq(t.hash) /\ IsSeq(t.ck)
  BY <1>1, <1>2, <1>3 DEF Grows, Sound
<1> QED BY <1>1, <1>2, <1>3, <1>4 DEF Hashes, Sound

\* mix_key() appends the input to the chaining key and starts a new cipher key
\* at nonce 0.
LEMMA MixKeyKeys ==
  ASSUME NEW s, Sound(s), NEW input
  PROVE  LET t == MixKey(s, input) IN Keys(s, t, input) /\ Sound(t)
<1> DEFINE t == MixKey(s, input)
<1>1. Grows(s.ck, Append(s.ck, input), input)
  BY AppendGrows DEF Sound
<1>2. IsState(t) /\ t.ck = Append(s.ck, input) /\ Keeps(s, t)
  BY DEF Sound, IsState, Keeps, MixKey, Zeroed
<1>3. /\ Remotes(s, t) /\ t.hash = s.hash
      /\ t.key = [of |-> t.ck, out |-> 2] /\ t.nonce = 0 /\ t.hasKey = TRUE
  BY DEF Sound, IsState, Remotes, MixKey, Zeroed
<1>4. IsSeq(t.hash) /\ IsSeq(t.ck)
  BY <1>1, <1>2, <1>3 DEF Grows, Sound
<1> QED BY <1>1, <1>2, <1>3, <1>4 DEF Keys, Sound

\* mix_key_and_hash() does both: the chaining key and the transcript grow by
\* one.
LEMMA MixKeyAndHashKeys ==
  ASSUME NEW s, Sound(s), NEW input
  PROVE  LET t == MixKeyAndHash(s, input) IN KeysAndHashes(s, t, input) /\ Sound(t)
<1> DEFINE t == MixKeyAndHash(s, input)
<1>1. Grows(s.ck, Append(s.ck, input), input)
  BY AppendGrows DEF Sound
<1>2. IsState(t) /\ t.ck = Append(s.ck, input) /\ Keeps(s, t)
  BY DEF Sound, IsState, Keeps, MixKeyAndHash, MixHash, Zeroed
<1>3. /\ Remotes(s, t) /\ t.hash = Append(s.hash, [derived |-> t.ck])
      /\ t.key = [of |-> t.ck, out |-> 3] /\ t.nonce = 0 /\ t.hasKey = TRUE
  BY DEF Sound, IsState, Remotes, MixKeyAndHash, MixHash, Zeroed
<1>4. Grows(s.hash, t.hash, [derived |-> t.ck])
  BY <1>3, AppendGrows DEF Sound
<1>5. IsSeq(t.hash) /\ IsSeq(t.ck)
  BY <1>1, <1>2, <1>4 DEF Grows
<1> QED BY <1>1, <1>2, <1>3, <1>4, <1>5 DEF KeysAndHashes, Sound

\* Under a key, the item is sealed with the transcript and the counter.
SealOf(s, pt) == [k |-> s.key, n |-> s.nonce, ad |-> s.hash, pt |-> pt]
\* encrypt_hash() under a key seals with the transcript so far, hashes the
\* ciphertext and counts it.
LEMMA EncryptHashSeals ==
  ASSUME NEW s, Sound(s), NEW pt, s.hasKey = TRUE, s.nonce \in Nat
  PROVE  LET r == EncryptHash(s, pt)
             x == SealOf(s, pt)
         IN /\ r.item = [sealed |-> x]
            /\ Hashes(s, r.s, [sealed |-> x], 1) /\ Remotes(s, r.s) /\ Sound(r.s)
            /\ r.s.hash = Append(s.hash, [sealed |-> x])
<1> DEFINE x == SealOf(s, pt)
<1> DEFINE u == [s EXCEPT !.nonce = @ + 1]
<1>1. EncryptHash(s, pt) = [item |-> [sealed |-> x], s |-> MixHash(u, [sealed |-> x])]
  BY DEF EncryptHash, Seal, SealOf
<1>2. Sound(u) /\ u.nonce = s.nonce + 1 /\ u.nonce \in Nat
  BY DEF Sound, IsState, Zeroed
<1>3. Keeps(s, u) /\ Remotes(s, u)
  BY DEF Sound, IsState, Zeroed, Keeps, Remotes
<1>4. u.hash = s.hash /\ u.ck = s.ck /\ u.key = s.key /\ u.hasKey = s.hasKey
  BY DEF Sound, IsState, Zeroed
<1> DEFINE t == MixHash(u, [sealed |-> x])
<1>5. Hashes(u, t, [sealed |-> x], 0) /\ Remotes(u, t) /\ Sound(t)
  BY <1>2, MixHashHashes
<1>6. t.hash = Append(s.hash, [sealed |-> x])
  BY <1>4, <1>2 DEF MixHash, Sound, IsState, Zeroed
<1> HIDE DEF u, t
<1>7. Hashes(s, t, [sealed |-> x], 1)
  BY <1>2, <1>3, <1>4, <1>5 DEF Hashes, Keeps
<1>8. Remotes(s, t)
  BY <1>3, <1>5 DEF Remotes
<1> QED BY <1>1, <1>5, <1>6, <1>7, <1>8 DEF t

\* A ciphertext is nothing but a ciphertext.
IsSealed(item) == item = [sealed |-> item.sealed]
IsPure(item) == "sealed" \in DOMAIN item => IsSealed(item)

\* Only what was sealed under the key, counter and transcript opens.
LEMMA DecryptHashOpens ==
  ASSUME NEW s, Sound(s), NEW item, s.hasKey = TRUE, s.nonce \in Nat,
         IsPure(item), DecryptHash(s, item).rc = "OK"
  PROVE  LET r == DecryptHash(s, item)
             x == item.sealed
         IN /\ IsSealed(item) /\ x.k = s.key /\ x.n = s.nonce /\ x.ad = s.hash
            /\ r.pt = x.pt
            /\ Hashes(s, r.s, item, 1) /\ Remotes(s, r.s) /\ Sound(r.s)
            /\ r.s.hash = Append(s.hash, item)
<1> DEFINE u == [s EXCEPT !.nonce = @ + 1]
<1> DEFINE x == item.sealed
<1>1. Opens(item, s.key, s.nonce, s.hash)
  BY DEF DecryptHash
<1>2. IsSealed(item) /\ x.k = s.key /\ x.n = s.nonce /\ x.ad = s.hash
  BY <1>1 DEF Opens, IsPure
<1>3. DecryptHash(s, item) = [rc |-> "OK", pt |-> x.pt, s |-> MixHash(u, item)]
  BY <1>1 DEF DecryptHash
<1>4. Sound(u) /\ u.nonce = s.nonce + 1 /\ u.nonce \in Nat
  BY DEF Sound, IsState, Zeroed
<1>5. Keeps(s, u) /\ Remotes(s, u)
  BY DEF Sound, IsState, Zeroed, Keeps, Remotes
<1>6. u.hash = s.hash /\ u.ck = s.ck /\ u.key = s.key /\ u.hasKey = s.hasKey
  BY DEF Sound, IsState, Zeroed
<1> DEFINE t == MixHash(u, item)
<1>7. Hashes(u, t, item, 0) /\ Remotes(u, t) /\ Sound(t)
  BY <1>4, MixHashHashes
<1>8. t.hash = Append(s.hash, item)
  BY <1>4, <1>6 DEF MixHash, Sound, IsState, Zeroed
<1> HIDE DEF u, t, x
<1>9. Hashes(s, t, item, 1)
  BY <1>4, <1>5, <1>6, <1>7 DEF Hashes, Keeps
<1>10. Remotes(s, t)
  BY <1>5, <1>7 DEF Remotes
<1> QED BY <1>2, <1>3, <1>7, <1>8, <1>9, <1>10 DEF t, x

\* A DH token that succeeds mixes one input into the chaining key and nothing
\* else.
LEMMA DHKeys ==
  ASSUME NEW s, Sound(s), NEW token, DH(s, token).rc = "OK"
  PROVE  \E input : Keys(s, DH(s, token).s, input) /\ Sound(DH(s, token).s)
<1> DEFINE local == IF token \in {"ee", IF s.initiator THEN "es" ELSE "se"}
                    THEN s.ephemeral ELSE s.localStatic
<1> DEFINE remote == IF token \in {"ee", IF s.initiator THEN "se" ELSE "es"}
                     THEN s.remoteEphemeral ELSE s.remoteStatic
<1>1. DH(s, token) = IF remote = ZeroKey
                     THEN [rc |-> "AUTH", s |-> s]
                     ELSE [rc |-> "OK", s |-> MixKey(s, [shared |-> {local, remote}])]
  BY DEF DH
<1> HIDE DEF local, remote
<1>2. DH(s, token).s = MixKey(s, [shared |-> {local, remote}])
  BY <1>1
<1> QED BY <1>2, MixKeyKeys

-----------------------------------------------------------------------------
(* Tokens. *)

\* The tokens of each step, for the two patterns.
LEMMA TokensAre ==
  ASSUME NEW s, s.pattern \in {XX, KK}, s.step \in 0..Steps(s.pattern) - 1
  PROVE  /\ s.pattern = XX /\ s.step = 0 =>
              /\ TokenAt(s, 1) = "e" /\ TokenAt(s, 2) = "end" /\ TokenAt(s, 3) = "end"
              /\ TokenAt(s, 4) = "end" /\ TokenAt(s, 5) = "end"
         /\ s.pattern = XX /\ s.step = 1 =>
              /\ TokenAt(s, 1) = "e" /\ TokenAt(s, 2) = "ee" /\ TokenAt(s, 3) = "s"
              /\ TokenAt(s, 4) = "es" /\ TokenAt(s, 5) = "psk"
         /\ s.pattern = XX /\ s.step = 2 =>
              /\ TokenAt(s, 1) = "s" /\ TokenAt(s, 2) = "se" /\ TokenAt(s, 3) = "end"
              /\ TokenAt(s, 4) = "end" /\ TokenAt(s, 5) = "end"
         /\ s.pattern = KK /\ s.step = 0 =>
              /\ TokenAt(s, 1) = "psk" /\ TokenAt(s, 2) = "e" /\ TokenAt(s, 3) = "es"
              /\ TokenAt(s, 4) = "ss" /\ TokenAt(s, 5) = "end"
         /\ s.pattern = KK /\ s.step = 1 =>
              /\ TokenAt(s, 1) = "e" /\ TokenAt(s, 2) = "ee" /\ TokenAt(s, 3) = "se"
              /\ TokenAt(s, 4) = "end" /\ TokenAt(s, 5) = "end"
         /\ Len(Tokens[s.pattern]) = Steps(s.pattern)
<1> DEFINE tokens == Tokens[s.pattern][s.step + 1]
<1>1. CASE s.pattern = XX
  <2>1. Tokens[XX] = <<<<"e">>, <<"e", "ee", "s", "es", "psk">>, <<"s", "se">>>>
    BY DEF Tokens, XX, KK
  <2>2. CASE s.step = 0
    <3>1. tokens = <<"e">> BY <1>1, <2>1, <2>2
    <3> QED BY <3>1, <1>1, <2>1, <2>2 DEF TokenAt, Steps, XX, KK
  <2>3. CASE s.step = 1
    <3>1. tokens = <<"e", "ee", "s", "es", "psk">> BY <1>1, <2>1, <2>3
    <3> QED BY <3>1, <1>1, <2>1, <2>3 DEF TokenAt, Steps, XX, KK
  <2>4. CASE s.step = 2
    <3>1. tokens = <<"s", "se">> BY <1>1, <2>1, <2>4
    <3> QED BY <3>1, <1>1, <2>1, <2>4 DEF TokenAt, Steps, XX, KK
  <2> QED BY <1>1, <2>2, <2>3, <2>4 DEF Steps
<1>2. CASE s.pattern = KK
  <2>1. Tokens[KK] = <<<<"psk", "e", "es", "ss">>, <<"e", "ee", "se">>>>
    BY DEF Tokens, XX, KK
  <2>2. CASE s.step = 0
    <3>1. tokens = <<"psk", "e", "es", "ss">> BY <1>2, <2>1, <2>2
    <3> QED BY <3>1, <1>2, <2>1, <2>2 DEF TokenAt, Steps, XX, KK
  <2>3. CASE s.step = 1
    <3>1. tokens = <<"e", "ee", "se">> BY <1>2, <2>1, <2>3
    <3> QED BY <3>1, <1>2, <2>1, <2>3 DEF TokenAt, Steps, XX, KK
  <2> QED BY <1>2, <2>2, <2>3 DEF Steps, XX, KK
<1> QED BY <1>1, <1>2

\* t is s with an ephemeral key mixed into the hash and the key.
Ephemerals(s, t, item) ==
  /\ Keeps(s, t) /\ Grows(s.hash, t.hash, item) /\ Grows(s.ck, t.ck, item)
  /\ t.key = [of |-> t.ck, out |-> 2] /\ t.nonce = 0 /\ t.hasKey = TRUE

\* An "e" token, with a preshared key: the key is hashed and mixed into the
\* chaining key.
LEMMA MixingE ==
  ASSUME NEW s, Sound(s), NEW item, s.nonce \in Nat
  PROVE  LET t == MixKey(MixHash(s, item), item)
         IN Ephemerals(s, t, item) /\ Remotes(s, t) /\ Sound(t)
<1> DEFINE u == MixHash(s, item)
<1> DEFINE t == MixKey(u, item)
<1>1. Hashes(s, u, item, 0) /\ Remotes(s, u) /\ Sound(u)
  BY MixHashHashes
<1> HIDE DEF u
<1>2. Keys(u, t, item) /\ Sound(t)
  BY <1>1, MixKeyKeys
<1> HIDE DEF t
<1>3. Keeps(s, t) /\ Remotes(s, t)
  BY <1>1, <1>2 DEF Hashes, Keys, Keeps, Remotes
<1>4. Grows(s.hash, t.hash, item) /\ Grows(s.ck, t.ck, item)
  BY <1>1, <1>2 DEF Hashes, Keys
<1>5. t.key = [of |-> t.ck, out |-> 2] /\ t.nonce = 0 /\ t.hasKey = TRUE
  BY <1>2 DEF Keys
<1>6. Ephemerals(s, t, item) /\ Remotes(s, t) /\ Sound(t)
  BY <1>2, <1>3, <1>4, <1>5 DEF Ephemerals
<1> QED BY <1>6 DEF t, u

\* After the last token, or after a failure, writing goes no further.
LEMMA WriteTokenEnds ==
  ASSUME NEW acc, NEW token, acc.rc # "OK" \/ token = "end"
  PROVE  WriteToken(acc, token) = acc
BY DEF WriteToken

\* Which branch of noise_write_tokens() a token takes.
LEMMA WriteTokenIs ==
  ASSUME NEW s, NEW q, NEW token
  PROVE  /\ WriteToken([rc |-> "OK", s |-> s, out |-> q], "e") = WriteE(s, q)
         /\ WriteToken([rc |-> "OK", s |-> s, out |-> q], "s") = WriteS(s, q)
         /\ WriteToken([rc |-> "OK", s |-> s, out |-> q], "psk") = WritePsk(s, q)
         /\ token \in {"ee", "es", "se", "ss"} =>
              WriteToken([rc |-> "OK", s |-> s, out |-> q], token) = WriteDH(s, q, token)
<1>1. WriteToken([rc |-> "OK", s |-> s, out |-> q], "e") = WriteE(s, q)
  BY DEF WriteToken
<1>2. WriteToken([rc |-> "OK", s |-> s, out |-> q], "s") = WriteS(s, q)
  BY DEF WriteToken
<1>3. WriteToken([rc |-> "OK", s |-> s, out |-> q], "psk") = WritePsk(s, q)
  BY DEF WriteToken
<1>4. token \in {"ee", "es", "se", "ss"} =>
        WriteToken([rc |-> "OK", s |-> s, out |-> q], token) = WriteDH(s, q, token)
  BY DEF WriteToken
<1> QED BY <1>1, <1>2, <1>3, <1>4

\* A DH token that is written puts nothing into the message.
LEMMA WriteTokenDH ==
  ASSUME NEW s, Sound(s), NEW q, NEW token \in {"ee", "es", "se", "ss"},
         WriteToken([rc |-> "OK", s |-> s, out |-> q], token).rc = "OK"
  PROVE  \E t, input : /\ Keys(s, t, input) /\ Sound(t)
                       /\ WriteToken([rc |-> "OK", s |-> s, out |-> q], token)
                            = [rc |-> "OK", s |-> t, out |-> q]
<1> DEFINE secret == DH(s, token)
<1>1. WriteToken([rc |-> "OK", s |-> s, out |-> q], token)
        = [rc |-> secret.rc, s |-> secret.s, out |-> q]
  BY WriteTokenIs DEF WriteDH
<1> HIDE DEF secret
<1>2. secret.rc = "OK"
  BY <1>1
<1>3. \E input : Keys(s, secret.s, input) /\ Sound(secret.s)
  BY <1>2, DHKeys DEF secret
<1> QED BY <1>1, <1>2, <1>3

\* The five tokens of a step, one after the other.
LEMMA WriteTokensOK ==
  ASSUME NEW s, WriteTokens(s).rc = "OK"
  PROVE  \E a1, a2, a3, a4, a5 :
           /\ a1 = WriteToken([rc |-> "OK", s |-> s, out |-> <<>>], TokenAt(s, 1))
           /\ a2 = WriteToken(a1, TokenAt(s, 2)) /\ a3 = WriteToken(a2, TokenAt(s, 3))
           /\ a4 = WriteToken(a3, TokenAt(s, 4)) /\ a5 = WriteToken(a4, TokenAt(s, 5))
           /\ a1.rc = "OK" /\ a2.rc = "OK" /\ a3.rc = "OK" /\ a4.rc = "OK" /\ a5.rc = "OK"
           /\ WriteTokens(s) = a5
<1> DEFINE a1 == WriteToken([rc |-> "OK", s |-> s, out |-> <<>>], TokenAt(s, 1))
<1> DEFINE a2 == WriteToken(a1, TokenAt(s, 2))
<1> DEFINE a3 == WriteToken(a2, TokenAt(s, 3))
<1> DEFINE a4 == WriteToken(a3, TokenAt(s, 4))
<1> DEFINE a5 == WriteToken(a4, TokenAt(s, 5))
<1>1. WriteTokens(s) = a5
  <2> DEFINE first == [rc |-> "OK", s |-> s, out |-> <<>>]
  <2> DEFINE Unfolds(f) == f = [i \in 0..5 |-> IF i = 0 THEN first
                                               ELSE WriteToken(f[i - 1], TokenAt(s, i))]
  <2> DEFINE known == [i \in 0..5 |-> IF i = 0 THEN first ELSE IF i = 1 THEN a1
                                     ELSE IF i = 2 THEN a2 ELSE IF i = 3 THEN a3
                                     ELSE IF i = 4 THEN a4 ELSE a5]
  <2> DEFINE behind == CHOOSE f : Unfolds(f)
  <2>1. WriteTokens(s) = behind[5]
    BY DEF WriteTokens
  <2>2. /\ a1 = WriteToken(first, TokenAt(s, 1)) /\ a2 = WriteToken(a1, TokenAt(s, 2))
        /\ a3 = WriteToken(a2, TokenAt(s, 3)) /\ a4 = WriteToken(a3, TokenAt(s, 4))
        /\ a5 = WriteToken(a4, TokenAt(s, 5))
    OBVIOUS
  <2> HIDE DEF first, a1, a2, a3, a4, a5
  <2>3. Unfolds(known)
    <3> DEFINE unfolded == [i \in 0..5 |-> IF i = 0 THEN first
                                           ELSE WriteToken(known[i - 1], TokenAt(s, i))]
    <3>1. ASSUME NEW i \in 0..5 PROVE known[i] = unfolded[i]
      <4>1. /\ known[0] = first /\ known[1] = a1 /\ known[2] = a2
            /\ known[3] = a3 /\ known[4] = a4 /\ known[5] = a5
        OBVIOUS
      <4>2. unfolded[i] = IF i = 0 THEN first ELSE WriteToken(known[i - 1], TokenAt(s, i))
        OBVIOUS
      <4>3. i \in {0, 1, 2, 3, 4, 5}
        OBVIOUS
      <4> HIDE DEF known, unfolded
      <4> QED BY <4>1, <4>2, <4>3, <2>2
    <3> QED BY <3>1
  <2>4. Unfolds(behind)
    <3> HIDE DEF Unfolds, known
    <3> QED BY <2>3
  <2>5. /\ behind[0] = first
        /\ \A i \in 1..5 : behind[i] = WriteToken(behind[i - 1], TokenAt(s, i))
    <3> HIDE DEF behind
    <3> QED BY <2>4
  <2> HIDE DEF behind
  <2>6. /\ behind[1] = a1 /\ behind[2] = a2 /\ behind[3] = a3
        /\ behind[4] = a4 /\ behind[5] = a5
    BY <2>2, <2>5
  <2> QED BY <2>1, <2>6
<1> HIDE DEF a5
<1>2. a4.rc = "OK"
  BY <1>1, WriteTokenEnds DEF a5
<1> HIDE DEF a4
<1>3. a3.rc = "OK"
  BY <1>2, WriteTokenEnds DEF a4
<1> HIDE DEF a3
<1>4. a2.rc = "OK"
  BY <1>3, WriteTokenEnds DEF a3
<1> HIDE DEF a2
<1>5. a1.rc = "OK"
  BY <1>4, WriteTokenEnds DEF a2
<1> HIDE DEF a1
<1> QED BY <1>1, <1>2, <1>3, <1>4, <1>5 DEF a1, a2, a3, a4, a5

-----------------------------------------------------------------------------
(* What the tokens of each step write. *)

\* A state that only the payload of that row is still to be processed in.
BeforePayload(t, row, me) ==
  /\ Sound(t) /\ Len(t.hash) = row.len /\ Begins(t.hash, row.pattern, me)
  /\ Chains(t.ck, row.pattern, row.step + 1, me, t.remoteEphemeral)
  /\ t.key = [of |-> t.ck, out |-> row.out] /\ t.nonce = row.n /\ t.hasKey = TRUE
Clear(me) == Piece(32, [key |-> me.ephemeral])
Covered(x) == Piece(48, [sealed |-> x])

\* The first three pieces of a message.
LEMMA AppendToFew ==
  ASSUME NEW a, NEW b, NEW c
  PROVE  /\ Append(<<>>, a) = <<a>> /\ Append(<<a>>, b) = <<a, b>>
         /\ Append(<<a, b>>, c) = <<a, b, c>>
<1>1. Append(<<>>, a) = <<a>>
  OBVIOUS
<1>2. Append(<<a>>, b) = <<a, b>>
  <2> DEFINE q == <<a>>
  <2> DEFINE r == Append(q, b)
  <2> DEFINE t == <<a, b>>
  <2>1. IsSeq(q) /\ Len(q) = 1 /\ q[1] = a
    BY DEF IsSeq
  <2>2. IsSeq(t) /\ Len(t) = 2 /\ t[1] = a /\ t[2] = b
    BY DEF IsSeq
  <2> HIDE DEF q, t
  <2>3. Grows(q, r, b)
    BY <2>1, AppendGrows
  <2> HIDE DEF r
  <2>4. IsSeq(r) /\ Len(r) = 2 /\ r[1] = a /\ r[2] = b
    BY <2>1, <2>3 DEF Grows
  <2>5. \A i \in 1..2 : r[i] = t[i]
    BY <2>2, <2>4
  <2>6. r = t
    BY <2>2, <2>4, <2>5, SameSeq
  <2> QED BY <2>6 DEF q, r, t
<1>3. Append(<<a, b>>, c) = <<a, b, c>>
  <2> DEFINE q == <<a, b>>
  <2> DEFINE r == Append(q, c)
  <2> DEFINE t == <<a, b, c>>
  <2>1. IsSeq(q) /\ Len(q) = 2 /\ q[1] = a /\ q[2] = b
    BY DEF IsSeq
  <2>2. IsSeq(t) /\ Len(t) = 3 /\ t[1] = a /\ t[2] = b /\ t[3] = c
    BY DEF IsSeq
  <2> HIDE DEF q, t
  <2>3. Grows(q, r, c)
    BY <2>1, AppendGrows
  <2> HIDE DEF r
  <2>4. IsSeq(r) /\ Len(r) = 3 /\ r[1] = a /\ r[2] = b /\ r[3] = c
    BY <2>1, <2>3 DEF Grows
  <2>5. \A i \in 1..3 : r[i] = t[i]
    BY <2>2, <2>4
  <2>6. r = t
    BY <2>2, <2>4, <2>5, SameSeq
  <2> QED BY <2>6 DEF q, r, t
<1> QED BY <1>1, <1>2, <1>3

\* Writing "e" puts the ephemeral key into the message in the clear.
LEMMA WritingE ==
  ASSUME NEW s, Sound(s), s.nonce \in Nat, NEW q
  PROVE  \E t : /\ WriteToken([rc |-> "OK", s |-> s, out |-> q], "e")
                     = [rc |-> "OK", s |-> t, out |-> Append(q, Piece(32, [key |-> s.ephemeral]))]
                /\ Ephemerals(s, t, [key |-> s.ephemeral]) /\ Remotes(s, t) /\ Sound(t)
<1> DEFINE e == [key |-> s.ephemeral]
<1> DEFINE t == MixKey(MixHash(s, e), e)
<1>1. WriteToken([rc |-> "OK", s |-> s, out |-> q], "e")
        = [rc |-> "OK", s |-> t, out |-> Append(q, Piece(32, e))]
  BY WriteTokenIs DEF WriteE
<1>2. Ephemerals(s, t, e) /\ Remotes(s, t) /\ Sound(t)
  BY MixingE
<1> QED BY <1>1, <1>2

\* What a write of the static key seals.
StaticSeal(s) == SealOf(s, [key |-> s.localPublic])
\* Writing "s" under a key puts the static key into the message, sealed.
LEMMA WritingS ==
  ASSUME NEW s, Sound(s), s.hasKey = TRUE, s.nonce \in Nat, NEW q
  PROVE  LET x == StaticSeal(s) IN
         \E t : /\ WriteToken([rc |-> "OK", s |-> s, out |-> q], "s")
                     = [rc |-> "OK", s |-> t, out |-> Append(q, Covered(x))]
                /\ Hashes(s, t, [sealed |-> x], 1) /\ Remotes(s, t) /\ Sound(t)
<1> DEFINE x == StaticSeal(s)
<1> DEFINE r == EncryptHash(s, [key |-> s.localPublic])
<1>1. /\ r.item = [sealed |-> x]
      /\ Hashes(s, r.s, [sealed |-> x], 1) /\ Remotes(s, r.s) /\ Sound(r.s)
  BY EncryptHashSeals DEF StaticSeal
<1> HIDE DEF x
<1>2. 32 + TagSize(s) = 48
  BY DEF TagSize
<1>3. WriteToken([rc |-> "OK", s |-> s, out |-> q], "s")
        = [rc |-> "OK", s |-> r.s, out |-> Append(q, Piece(48, r.item))]
  BY <1>2, WriteTokenIs DEF WriteS
<1> QED BY <1>1, <1>3 DEF Covered, x

\* First message of XX, as its initiator writes it: the ephemeral key.
LEMMA WritesXX0 ==
  ASSUME NEW s, NEW me, Shape(s, me), s.ready = FALSE, s.pattern = XX, s.step = 0,
         me.initiator = TRUE, WriteTokens(s).rc = "OK"
  PROVE  \E t : /\ WriteTokens(s) = [rc |-> "OK", s |-> t, out |-> <<Clear(me)>>]
                /\ Keeps(s, t) /\ Remotes(s, t)
                /\ BeforePayload(t, Row(XX, 3, TRUE, 0, 2, 2, 0, TRUE), me)
<1>0. /\ Sound(s) /\ s.nonce \in Nat /\ s.ephemeral = me.ephemeral
      /\ Len(s.hash) = 2 /\ Len(s.ck) = 1 /\ s.ck[1] = [name |-> XX] /\ Begins(s.hash, XX, me)
  BY DEF Shape, Identity, Transcript, Running, Sound, Chains, HashLen, CkLen, EphBy
<1>1. PICK a1, a2, a3, a4, a5 :
         /\ a1 = WriteToken([rc |-> "OK", s |-> s, out |-> <<>>], "e")
         /\ a2 = WriteToken(a1, "end") /\ a3 = WriteToken(a2, "end")
         /\ a4 = WriteToken(a3, "end") /\ a5 = WriteToken(a4, "end")
         /\ WriteTokens(s) = a5
  BY WriteTokensOK, TokensAre DEF Steps
<1>2. WriteTokens(s) = a1
  BY <1>1, WriteTokenEnds
<1> DEFINE e == [key |-> me.ephemeral]
<1>3. PICK t : /\ a1 = [rc |-> "OK", s |-> t, out |-> Append(<<>>, Clear(me))]
               /\ Ephemerals(s, t, e) /\ Remotes(s, t) /\ Sound(t)
  BY <1>0, <1>1, WritingE DEF Clear
<1>4. a1 = [rc |-> "OK", s |-> t, out |-> <<Clear(me)>>]
  BY <1>3, AppendToFew
<1>5. Len(t.hash) = 3 /\ t.hash[1] = s.hash[1] /\ t.hash[2] = s.hash[2]
  BY <1>0, <1>3 DEF Ephemerals, Grows
<1>6. Len(t.ck) = 2 /\ t.ck[1] = [name |-> XX] /\ t.ck[2] = e
  BY <1>0, <1>3 DEF Ephemerals, Grows
<1>7. Begins(t.hash, XX, me)
  BY <1>0, <1>5 DEF Begins, XX, KK
<1>8. Chains(t.ck, XX, 1, me, t.remoteEphemeral)
  BY <1>3, <1>6 DEF Chains, CkLen, EphBy, EphAt, Sound, XX, KK
<1>9. BeforePayload(t, Row(XX, 3, TRUE, 0, 2, 2, 0, TRUE), me)
  BY <1>3, <1>5, <1>7, <1>8 DEF BeforePayload, Row, Ephemerals
<1>10. Keeps(s, t)
  BY <1>3 DEF Ephemerals
<1> QED BY <1>2, <1>3, <1>4, <1>9, <1>10

\* Second message of XX, as its responder writes it: ephemeral key, sealed
\* static key.
LEMMA WritesXX1 ==
  ASSUME NEW s, NEW me, Shape(s, me), s.ready = FALSE, s.pattern = XX, s.step = 1,
         me.initiator = FALSE, WriteTokens(s).rc = "OK"
  PROVE  \E t, x :
           /\ WriteTokens(s) = [rc |-> "OK", s |-> t, out |-> <<Clear(me), Covered(x)>>]
           /\ Keeps(s, t) /\ Remotes(s, t)
           /\ BeforePayload(t, Row(XX, 7, FALSE, 1, 6, 3, 0, TRUE), me)
           /\ SealedBy(x, Row(XX, 5, FALSE, 1, 4, 2, 0, FALSE), me)
<1>0. /\ Sound(s) /\ s.nonce \in Nat /\ s.ephemeral = me.ephemeral /\ s.psk = me.psk
      /\ s.localPublic = me.static
      /\ Len(s.hash) = 4 /\ Len(s.ck) = 2 /\ s.ck[1] = [name |-> XX] /\ Begins(s.hash, XX, me)
      /\ s.ck[2] = [key |-> s.remoteEphemeral]
  BY DEF Shape, Identity, Transcript, Running, Sound, Chains, HashLen, CkLen, EphBy, EphAt
<1>1. PICK a1, a2, a3, a4, a5 :
         /\ a1 = WriteToken([rc |-> "OK", s |-> s, out |-> <<>>], "e")
         /\ a2 = WriteToken(a1, "ee") /\ a3 = WriteToken(a2, "s")
         /\ a4 = WriteToken(a3, "es") /\ a5 = WriteToken(a4, "psk")
         /\ a1.rc = "OK" /\ a2.rc = "OK" /\ a3.rc = "OK" /\ a4.rc = "OK" /\ a5.rc = "OK"
         /\ WriteTokens(s) = a5
  BY WriteTokensOK, TokensAre DEF Steps
<1> DEFINE e == [key |-> me.ephemeral]
<1>2. PICK t1 : /\ a1 = [rc |-> "OK", s |-> t1, out |-> <<Clear(me)>>]
                /\ Ephemerals(s, t1, e) /\ Remotes(s, t1) /\ Sound(t1)
  <2>1. PICK t : /\ a1 = [rc |-> "OK", s |-> t, out |-> Append(<<>>, Clear(me))]
                 /\ Ephemerals(s, t, e) /\ Remotes(s, t) /\ Sound(t)
    BY <1>0, <1>1, WritingE DEF Clear
  <2> QED BY <2>1, AppendToFew
<1>3. PICK t2, v2 : /\ a2 = [rc |-> "OK", s |-> t2, out |-> <<Clear(me)>>]
                    /\ Keys(t1, t2, v2) /\ Sound(t2)
  BY <1>1, <1>2, WriteTokenDH
<1> DEFINE x == StaticSeal(t2)
<1>4. PICK t3 : /\ a3 = [rc |-> "OK", s |-> t3, out |-> <<Clear(me), Covered(x)>>]
                /\ Hashes(t2, t3, [sealed |-> x], 1) /\ Remotes(t2, t3) /\ Sound(t3)
  <2>1. t2.hasKey = TRUE /\ t2.nonce \in Nat
    BY <1>3 DEF Keys
  <2>2. PICK t : /\ a3 = [rc |-> "OK", s |-> t, out |-> Append(<<Clear(me)>>, Covered(x))]
                 /\ Hashes(t2, t, [sealed |-> x], 1) /\ Remotes(t2, t) /\ Sound(t)
    BY <1>1, <1>3, <2>1, WritingS
  <2> HIDE DEF x
  <2> QED BY <2>2, AppendToFew
<1> HIDE DEF x
<1>5. PICK t4, v4 : /\ a4 = [rc |-> "OK", s |-> t4, out |-> <<Clear(me), Covered(x)>>]
                    /\ Keys(t3, t4, v4) /\ Sound(t4)
  BY <1>1, <1>4, WriteTokenDH
<1>6. PICK t5 : /\ a5 = [rc |-> "OK", s |-> t5, out |-> <<Clear(me), Covered(x)>>]
                /\ KeysAndHashes(t4, t5, [psk |-> t4.psk]) /\ Sound(t5)
  BY <1>1, <1>5, WriteTokenIs, MixKeyAndHashKeys DEF WritePsk
<1>7. Keeps(s, t1) /\ Keeps(s, t2) /\ Keeps(s, t3) /\ Keeps(s, t4) /\ Keeps(s, t5)
  BY <1>2, <1>3, <1>4, <1>5, <1>6 DEF Ephemerals, Keys, KeysAndHashes, Hashes, Keeps
<1>8. Remotes(s, t2) /\ Remotes(s, t5)
  BY <1>2, <1>3, <1>4, <1>5, <1>6 DEF Remotes, Keys, KeysAndHashes
<1>9. Len(t2.hash) = 5 /\ t2.hash[1] = s.hash[1] /\ t2.hash[2] = s.hash[2]
  BY <1>0, <1>2, <1>3 DEF Ephemerals, Keys, Grows
<1>10. Len(t2.ck) = 4 /\ t2.ck[1] = s.ck[1] /\ t2.ck[2] = s.ck[2] /\ t2.ck[3] = e
  BY <1>0, <1>2, <1>3 DEF Ephemerals, Keys, Grows
<1>11. SealedBy(x, Row(XX, 5, FALSE, 1, 4, 2, 0, FALSE), me)
  <2>1. /\ x = [k |-> x.k, n |-> x.n, ad |-> x.ad, pt |-> x.pt]
        /\ x.n = 0 /\ x.k = [of |-> t2.ck, out |-> 2] /\ x.ad = t2.hash /\ x.pt = [key |-> me.static]
    <3>1. t2.localPublic = me.static
      BY <1>0, <1>7 DEF Keeps
    <3>2. t2.nonce = 0 /\ t2.key = [of |-> t2.ck, out |-> 2]
      BY <1>3 DEF Keys
    <3> QED BY <3>1, <3>2 DEF StaticSeal, SealOf, x
  <2>2. Begins(t2.hash, XX, me)
    BY <1>0, <1>9 DEF Begins, XX, KK
  <2>3. /\ IsSeq(t2.hash) /\ IsSeq(t2.ck) /\ x.k.of = t2.ck
    BY <1>3, <2>1 DEF Sound
  <2> HIDE DEF x
  <2>4. x.k.of[1] = [name |-> XX] /\ x.k.of[EphAt(XX, FALSE)] = e
    BY <1>0, <1>10, <2>3 DEF EphAt
  <2> QED BY <1>9, <1>10, <2>1, <2>2, <2>3, <2>4 DEF SealedBy, Row, XX, KK
<1>12. Len(t4.hash) = 6 /\ t4.hash[1] = s.hash[1] /\ t4.hash[2] = s.hash[2]
  BY <1>4, <1>5, <1>9 DEF Hashes, Keys, Grows
<1>13. Len(t4.ck) = 5 /\ t4.ck[1] = s.ck[1] /\ t4.ck[2] = s.ck[2] /\ t4.ck[3] = e
  BY <1>4, <1>5, <1>10 DEF Hashes, Keys, Grows
<1>14. /\ Len(t5.hash) = 7 /\ t5.hash[1] = s.hash[1] /\ t5.hash[2] = s.hash[2]
       /\ t5.hash[7] = [derived |-> t5.ck]
  BY <1>6, <1>12 DEF KeysAndHashes, Grows
<1>15. /\ Len(t5.ck) = 6 /\ t5.ck[1] = s.ck[1] /\ t5.ck[2] = s.ck[2] /\ t5.ck[3] = e
       /\ t5.ck[6] = [psk |-> me.psk]
  BY <1>0, <1>6, <1>7, <1>13 DEF KeysAndHashes, Grows, Keeps
<1>16. Begins(t5.hash, XX, me)
  BY <1>0, <1>14, <1>15 DEF Begins, XX, KK
<1>17. Chains(t5.ck, XX, 2, me, t5.remoteEphemeral)
  BY <1>0, <1>6, <1>8, <1>15 DEF Chains, CkLen, EphBy, EphAt, Sound, Remotes, XX, KK
<1>18. BeforePayload(t5, Row(XX, 7, FALSE, 1, 6, 3, 0, TRUE), me)
  BY <1>6, <1>14, <1>16, <1>17 DEF BeforePayload, Row, KeysAndHashes
<1> QED BY <1>1, <1>6, <1>7, <1>8, <1>11, <1>18

\* Third message of XX, as its initiator writes it: the sealed static key.
LEMMA WritesXX2 ==
  ASSUME NEW s, NEW me, Shape(s, me), s.ready = FALSE, s.pattern = XX, s.step = 2,
         me.initiator = TRUE, WriteTokens(s).rc = "OK"
  PROVE  \E t, x :
           /\ WriteTokens(s) = [rc |-> "OK", s |-> t, out |-> <<Covered(x)>>]
           /\ Keeps(s, t) /\ Remotes(s, t)
           /\ BeforePayload(t, Row(XX, 9, TRUE, 2, 7, 2, 0, TRUE), me)
           /\ SealedBy(x, Row(XX, 8, TRUE, 2, 6, 3, 1, FALSE), me)
<1>0. /\ Sound(s) /\ s.localPublic = me.static
      /\ Len(s.hash) = 8 /\ Len(s.ck) = 6 /\ s.ck[1] = [name |-> XX] /\ Begins(s.hash, XX, me)
      /\ s.ck[2] = [key |-> me.ephemeral] /\ s.ck[3] = [key |-> s.remoteEphemeral]
      /\ s.hasKey = TRUE /\ s.nonce = 1 /\ s.key = [of |-> s.ck, out |-> 3] /\ s.nonce \in Nat
  <2>1. Chains(s.ck, XX, 2, me, s.remoteEphemeral) /\ Len(s.hash) = HashLen(XX, 2)
    BY DEF Shape, Identity, Transcript, Running
  <2>2. s.hasKey = TRUE /\ s.nonce = 1 /\ s.key = [of |-> s.ck, out |-> 3]
    <3>1. s.hasKey = TRUE
      BY DEF Shape, Identity, Transcript, Running
    <3> QED BY <3>1 DEF Shape, Identity, Transcript, Running
  <2>3. Sound(s) /\ s.localPublic = me.static /\ Begins(s.hash, XX, me)
    BY <2>1 DEF Shape, Identity, Transcript, Running, Sound, Chains
  <2> QED BY <2>1, <2>2, <2>3 DEF Chains, HashLen, CkLen, EphBy, EphAt
<1>1. PICK a1, a2, a3, a4, a5 :
         /\ a1 = WriteToken([rc |-> "OK", s |-> s, out |-> <<>>], "s")
         /\ a2 = WriteToken(a1, "se") /\ a3 = WriteToken(a2, "end")
         /\ a4 = WriteToken(a3, "end") /\ a5 = WriteToken(a4, "end")
         /\ a1.rc = "OK" /\ a2.rc = "OK"
         /\ WriteTokens(s) = a5
  BY WriteTokensOK, TokensAre DEF Steps
<1>2. WriteTokens(s) = a2
  BY <1>1, WriteTokenEnds
<1> DEFINE x == StaticSeal(s)
<1>3. PICK t1 : /\ a1 = [rc |-> "OK", s |-> t1, out |-> <<Covered(x)>>]
                /\ Hashes(s, t1, [sealed |-> x], 1) /\ Remotes(s, t1) /\ Sound(t1)
  <2>2. PICK t : /\ a1 = [rc |-> "OK", s |-> t, out |-> Append(<<>>, Covered(x))]
                 /\ Hashes(s, t, [sealed |-> x], 1) /\ Remotes(s, t) /\ Sound(t)
    BY <1>0, <1>1, WritingS
  <2> HIDE DEF x
  <2> QED BY <2>2, AppendToFew
<1>4. PICK t2, v2 : /\ a2 = [rc |-> "OK", s |-> t2, out |-> <<Covered(x)>>]
                    /\ Keys(t1, t2, v2) /\ Sound(t2)
  <2> HIDE DEF x
  <2> QED BY <1>1, <1>3, WriteTokenDH
<1>5. SealedBy(x, Row(XX, 8, TRUE, 2, 6, 3, 1, FALSE), me)
  <2>1. /\ x = [k |-> x.k, n |-> x.n, ad |-> x.ad, pt |-> x.pt]
        /\ x.n = 1 /\ x.k = [of |-> s.ck, out |-> 3] /\ x.ad = s.hash /\ x.pt = [key |-> me.static]
    BY <1>0 DEF StaticSeal, SealOf
  <2>2. IsSeq(s.hash) /\ IsSeq(s.ck) /\ x.k.of = s.ck
    BY <1>0, <2>1 DEF Sound
  <2> HIDE DEF x
  <2> QED BY <1>0, <2>1, <2>2 DEF SealedBy, Row, EphAt, XX, KK
<1> HIDE DEF x
<1>6. Keeps(s, t2) /\ Remotes(s, t2)
  BY <1>3, <1>4 DEF Keys, Hashes, Keeps, Remotes
<1>7. Len(t2.hash) = 9 /\ \A i \in 1..8 : t2.hash[i] = s.hash[i]
  BY <1>0, <1>3, <1>4 DEF Hashes, Keys, Grows
<1>8. /\ Len(t2.ck) = 7 /\ \A i \in 1..6 : t2.ck[i] = s.ck[i]
  BY <1>0, <1>3, <1>4 DEF Hashes, Keys, Grows
<1>9. Begins(t2.hash, XX, me)
  BY <1>0, <1>7 DEF Begins, XX, KK
<1>10. Chains(t2.ck, XX, 3, me, t2.remoteEphemeral)
  BY <1>0, <1>4, <1>6, <1>8 DEF Chains, CkLen, EphBy, EphAt, Sound, Remotes, XX, KK
<1>11. BeforePayload(t2, Row(XX, 9, TRUE, 2, 7, 2, 0, TRUE), me)
  BY <1>4, <1>7, <1>9, <1>10 DEF BeforePayload, Row, Keys
<1> QED BY <1>2, <1>4, <1>5, <1>6, <1>11

\* First message of KK, as its initiator writes it: the ephemeral key.
LEMMA WritesKK0 ==
  ASSUME NEW s, NEW me, Shape(s, me), s.ready = FALSE, s.pattern = KK, s.step = 0,
         me.initiator = TRUE, WriteTokens(s).rc = "OK"
  PROVE  \E t : /\ WriteTokens(s) = [rc |-> "OK", s |-> t, out |-> <<Clear(me)>>]
                /\ Keeps(s, t) /\ Remotes(s, t)
                /\ BeforePayload(t, Row(KK, 6, TRUE, 0, 5, 2, 0, TRUE), me)
<1>0. /\ Sound(s) /\ s.nonce \in Nat /\ s.ephemeral = me.ephemeral /\ s.psk = me.psk
      /\ Len(s.hash) = 4 /\ Len(s.ck) = 1 /\ s.ck[1] = [name |-> KK] /\ Begins(s.hash, KK, me)
  BY DEF Shape, Identity, Transcript, Running, Sound, Chains, HashLen, CkLen, EphBy, XX, KK
<1>1. PICK a1, a2, a3, a4, a5 :
         /\ a1 = WriteToken([rc |-> "OK", s |-> s, out |-> <<>>], "psk")
         /\ a2 = WriteToken(a1, "e") /\ a3 = WriteToken(a2, "es")
         /\ a4 = WriteToken(a3, "ss") /\ a5 = WriteToken(a4, "end")
         /\ a1.rc = "OK" /\ a2.rc = "OK" /\ a3.rc = "OK" /\ a4.rc = "OK"
         /\ WriteTokens(s) = a5
  BY WriteTokensOK, TokensAre DEF Steps, XX, KK
<1>2. WriteTokens(s) = a4
  BY <1>1, WriteTokenEnds
<1> DEFINE e == [key |-> me.ephemeral]
<1>3. PICK t1 : /\ a1 = [rc |-> "OK", s |-> t1, out |-> <<>>]
                /\ KeysAndHashes(s, t1, [psk |-> me.psk]) /\ Sound(t1)
  <2> DEFINE t == MixKeyAndHash(s, [psk |-> me.psk])
  <2>1. a1 = [rc |-> "OK", s |-> t, out |-> <<>>]
    BY <1>0, <1>1, WriteTokenIs DEF WritePsk
  <2>2. KeysAndHashes(s, t, [psk |-> me.psk]) /\ Sound(t)
    BY <1>0, MixKeyAndHashKeys
  <2> QED BY <2>1, <2>2
<1>4. PICK t2 : /\ a2 = [rc |-> "OK", s |-> t2, out |-> <<Clear(me)>>]
                /\ Ephemerals(t1, t2, e) /\ Remotes(t1, t2) /\ Sound(t2)
  <2>1. t1.nonce \in Nat /\ t1.ephemeral = me.ephemeral
    BY <1>0, <1>3 DEF KeysAndHashes, Keeps
  <2>2. PICK t : /\ a2 = [rc |-> "OK", s |-> t, out |-> Append(<<>>, Clear(me))]
                 /\ Ephemerals(t1, t, e) /\ Remotes(t1, t) /\ Sound(t)
    BY <1>1, <1>3, <2>1, WritingE DEF Clear
  <2> QED BY <2>2, AppendToFew
<1>5. PICK t3, v3 : /\ a3 = [rc |-> "OK", s |-> t3, out |-> <<Clear(me)>>]
                    /\ Keys(t2, t3, v3) /\ Sound(t3)
  BY <1>1, <1>4, WriteTokenDH
<1>6. PICK t4, v4 : /\ a4 = [rc |-> "OK", s |-> t4, out |-> <<Clear(me)>>]
                    /\ Keys(t3, t4, v4) /\ Sound(t4)
  BY <1>1, <1>5, WriteTokenDH
<1>7. Keeps(s, t4) /\ Remotes(s, t4)
  BY <1>3, <1>4, <1>5, <1>6 DEF KeysAndHashes, Ephemerals, Keys, Keeps, Remotes
<1>8. /\ Len(t1.hash) = 5 /\ t1.hash[5] = [derived |-> t1.ck]
      /\ \A i \in 1..4 : t1.hash[i] = s.hash[i]
  BY <1>0, <1>3 DEF KeysAndHashes, Grows
<1>9. Len(t1.ck) = 2 /\ t1.ck[1] = s.ck[1] /\ t1.ck[2] = [psk |-> me.psk]
  BY <1>0, <1>3 DEF KeysAndHashes, Grows
<1>10. Len(t2.ck) = 3 /\ t2.ck[1] = s.ck[1] /\ t2.ck[3] = e
  BY <1>4, <1>9 DEF Ephemerals, Grows
<1>11. Len(t3.ck) = 4 /\ t3.ck[1] = s.ck[1] /\ t3.ck[3] = e
  BY <1>5, <1>10 DEF Keys, Grows
<1>12. Len(t4.ck) = 5 /\ t4.ck[1] = s.ck[1] /\ t4.ck[3] = e
  BY <1>6, <1>11 DEF Keys, Grows
<1>13. /\ Len(t4.hash) = 6 /\ t4.hash[5] = [derived |-> t1.ck]
       /\ \A i \in 1..4 : t4.hash[i] = s.hash[i]
  BY <1>4, <1>5, <1>6, <1>8 DEF Ephemerals, Keys, Grows
<1>14. Begins(t4.hash, KK, me)
  BY <1>0, <1>9, <1>13 DEF Begins, XX, KK
<1>15. Chains(t4.ck, KK, 1, me, t4.remoteEphemeral)
  BY <1>0, <1>6, <1>12 DEF Chains, CkLen, EphBy, EphAt, Sound, XX, KK
<1>16. BeforePayload(t4, Row(KK, 6, TRUE, 0, 5, 2, 0, TRUE), me)
  BY <1>6, <1>13, <1>14, <1>15 DEF BeforePayload, Row, Keys
<1> QED BY <1>2, <1>6, <1>7, <1>16

\* Second message of KK, as its responder writes it: the ephemeral key.
LEMMA WritesKK1 ==
  ASSUME NEW s, NEW me, Shape(s, me), s.ready = FALSE, s.pattern = KK, s.step = 1,
         me.initiator = FALSE, WriteTokens(s).rc = "OK"
  PROVE  \E t : /\ WriteTokens(s) = [rc |-> "OK", s |-> t, out |-> <<Clear(me)>>]
                /\ Keeps(s, t) /\ Remotes(s, t)
                /\ BeforePayload(t, Row(KK, 8, FALSE, 1, 8, 2, 0, TRUE), me)
<1>0. /\ Sound(s) /\ s.nonce \in Nat /\ s.ephemeral = me.ephemeral
      /\ Len(s.hash) = 7 /\ Len(s.ck) = 5 /\ s.ck[1] = [name |-> KK] /\ Begins(s.hash, KK, me)
      /\ s.ck[3] = [key |-> s.remoteEphemeral]
  BY DEF Shape, Identity, Transcript, Running, Sound, Chains, HashLen, CkLen, EphBy, EphAt, XX, KK
<1>1. PICK a1, a2, a3, a4, a5 :
         /\ a1 = WriteToken([rc |-> "OK", s |-> s, out |-> <<>>], "e")
         /\ a2 = WriteToken(a1, "ee") /\ a3 = WriteToken(a2, "se")
         /\ a4 = WriteToken(a3, "end") /\ a5 = WriteToken(a4, "end")
         /\ a1.rc = "OK" /\ a2.rc = "OK" /\ a3.rc = "OK"
         /\ WriteTokens(s) = a5
  BY WriteTokensOK, TokensAre DEF Steps, XX, KK
<1>2. WriteTokens(s) = a3
  BY <1>1, WriteTokenEnds
<1> DEFINE e == [key |-> me.ephemeral]
<1>3. PICK t1 : /\ a1 = [rc |-> "OK", s |-> t1, out |-> <<Clear(me)>>]
                /\ Ephemerals(s, t1, e) /\ Remotes(s, t1) /\ Sound(t1)
  <2>1. PICK t : /\ a1 = [rc |-> "OK", s |-> t, out |-> Append(<<>>, Clear(me))]
                 /\ Ephemerals(s, t, e) /\ Remotes(s, t) /\ Sound(t)
    BY <1>0, <1>1, WritingE DEF Clear
  <2> QED BY <2>1, AppendToFew
<1>4. PICK t2, v2 : /\ a2 = [rc |-> "OK", s |-> t2, out |-> <<Clear(me)>>]
                    /\ Keys(t1, t2, v2) /\ Sound(t2)
  BY <1>1, <1>3, WriteTokenDH
<1>5. PICK t3, v3 : /\ a3 = [rc |-> "OK", s |-> t3, out |-> <<Clear(me)>>]
                    /\ Keys(t2, t3, v3) /\ Sound(t3)
  BY <1>1, <1>4, WriteTokenDH
<1>6. Keeps(s, t3) /\ Remotes(s, t3)
  BY <1>3, <1>4, <1>5 DEF Ephemerals, Keys, Keeps, Remotes
<1>7. Len(t3.hash) = 8 /\ \A i \in 1..7 : t3.hash[i] = s.hash[i]
  BY <1>0, <1>3, <1>4, <1>5 DEF Ephemerals, Keys, Grows
<1>8. Len(t1.ck) = 6 /\ t1.ck[1] = s.ck[1] /\ t1.ck[3] = s.ck[3] /\ t1.ck[6] = e
  BY <1>0, <1>3 DEF Ephemerals, Grows
<1>9. Len(t2.ck) = 7 /\ t2.ck[1] = s.ck[1] /\ t2.ck[3] = s.ck[3] /\ t2.ck[6] = e
  BY <1>4, <1>8 DEF Keys, Grows
<1>10. Len(t3.ck) = 8 /\ t3.ck[1] = s.ck[1] /\ t3.ck[3] = s.ck[3] /\ t3.ck[6] = e
  BY <1>5, <1>9 DEF Keys, Grows
<1>11. Begins(t3.hash, KK, me)
  BY <1>0, <1>7 DEF Begins, XX, KK
<1>12. Chains(t3.ck, KK, 2, me, t3.remoteEphemeral)
  BY <1>0, <1>5, <1>6, <1>10 DEF Chains, CkLen, EphBy, EphAt, Sound, Remotes, XX, KK
<1>13. BeforePayload(t3, Row(KK, 8, FALSE, 1, 8, 2, 0, TRUE), me)
  BY <1>5, <1>7, <1>11, <1>12 DEF BeforePayload, Row, Keys
<1> QED BY <1>2, <1>5, <1>6, <1>13

-----------------------------------------------------------------------------
(* The payload of each step. *)

\* Where each payload is sealed: how long the transcript and the chaining key
\* are then.
LEMMA PayloadRows ==
  ASSUME NEW row \in Rows, row.payload = TRUE
  PROVE  /\ row.pattern \in {XX, KK} /\ row.step \in 0..Steps(row.pattern) - 1 /\ row.n = 0
         /\ HashLen(row.pattern, row.step + 1) = row.len + 1
         /\ row.len \in Nat /\ row.len >= 3
         /\ row.pattern = XX => row.len = 3 \/ row.len >= 7
         /\ row.pattern = KK => row.len >= 5
         /\ row.out = IF row.pattern = XX /\ row.step = 1 THEN 3 ELSE 2
         /\ row.initiator = IF row.step = 1 THEN FALSE ELSE TRUE
         /\ CkLen(row.pattern, row.step + 1) = row.ck
         /\ row.step + 1 >= EphBy(row.initiator)
<1>1. CASE row = Row(XX, 3, TRUE, 0, 2, 2, 0, TRUE)
  BY <1>1 DEF Row, HashLen, CkLen, EphBy, Steps, XX, KK
<1>2. CASE row = Row(XX, 7, FALSE, 1, 6, 3, 0, TRUE)
  BY <1>2 DEF Row, HashLen, CkLen, EphBy, Steps, XX, KK
<1>3. CASE row = Row(XX, 9, TRUE, 2, 7, 2, 0, TRUE)
  BY <1>3 DEF Row, HashLen, CkLen, EphBy, Steps, XX, KK
<1>4. CASE row = Row(KK, 6, TRUE, 0, 5, 2, 0, TRUE)
  BY <1>4 DEF Row, HashLen, CkLen, EphBy, Steps, XX, KK
<1>5. CASE row = Row(KK, 8, FALSE, 1, 8, 2, 0, TRUE)
  BY <1>5 DEF Row, HashLen, CkLen, EphBy, Steps, XX, KK
<1>6. row # Row(XX, 5, FALSE, 1, 4, 2, 0, FALSE) /\ row # Row(XX, 8, TRUE, 2, 6, 3, 1, FALSE)
  BY DEF Row
<1> QED BY <1>1, <1>2, <1>3, <1>4, <1>5, <1>6 DEF Rows

\* Once the payload is hashed, split leaves a state of the known shape.
LEMMA SplitShapes ==
  ASSUME NEW s, NEW me, Shape(s, me), s.ready = FALSE, NEW t, Keeps(s, t),
         NEW row \in Rows, row.payload = TRUE, row.pattern = s.pattern, row.step = s.step,
         BeforePayload(t, row, me), s.pattern = KK => t.remoteStatic = me.pin,
         NEW x, x.k = t.key, x.n = t.nonce, x.ad = t.hash,
         NEW u, Hashes(t, u, [sealed |-> x], 1), Remotes(t, u), Sound(u),
         u.hash = Append(t.hash, [sealed |-> x])
  PROVE  LET r == Split(u)
         IN /\ Shape(r, me) /\ r.step = s.step + 1 /\ r.pattern = s.pattern
            /\ Remotes(t, r) /\ r.hash = u.hash /\ LastSeal(r.hash) = x
            /\ r.sendNonce = 0 /\ r.receiveNonce = 0
            /\ r.ready <=> s.step + 1 = Steps(s.pattern)
<1> DEFINE r == Split(u)
<1>0. /\ s.pattern \in {XX, KK} /\ s.step \in 0..Steps(s.pattern) - 1
      /\ row.n = 0 /\ HashLen(s.pattern, s.step + 1) = row.len + 1
      /\ row.len \in Nat /\ row.len >= 3
      /\ s.pattern = XX => row.len = 3 \/ row.len >= 7
      /\ s.pattern = KK => row.len >= 5
      /\ row.out = IF s.pattern = XX /\ s.step = 1 THEN 3 ELSE 2
  BY PayloadRows
<1>1. Keeps(s, u)
  BY DEF Hashes, Keeps
<1>2. Len(Tokens[u.pattern]) = Steps(s.pattern) /\ u.step = s.step /\ u.step + 1 \in 0..Steps(s.pattern)
  <2>1. Len(Tokens[s.pattern]) = Steps(s.pattern)
    BY <1>0, TokensAre
  <2>2. Steps(s.pattern) \in {2, 3}
    BY DEF Steps
  <2> QED BY <1>0, <1>1, <2>1, <2>2 DEF Keeps
<1>3. /\ IsSeq(u.hash) /\ Len(u.hash) = row.len + 1
      /\ \A i \in 1..row.len : u.hash[i] = t.hash[i]
      /\ u.hash[row.len + 1] = [sealed |-> x]
  BY DEF Hashes, Grows, BeforePayload
<1>4. LastSeal(u.hash) = x
  BY <1>3 DEF LastSeal
<1>5. EndsSealed(u.hash) /\ IsSeq(LastSeal(u.hash).ad)
  BY <1>4 DEF EndsSealed, BeforePayload, Sound
<1>6. Begins(u.hash, s.pattern, me)
  <2>1. Begins(t.hash, s.pattern, me) /\ Len(t.hash) = row.len
    BY DEF BeforePayload
  <2> QED BY <1>0, <1>3, <2>1 DEF Begins, XX, KK
<1>7. Chains(u.ck, s.pattern, s.step + 1, me, u.remoteEphemeral)
  BY DEF BeforePayload, Hashes, Remotes
<1>8. u.key = [of |-> u.ck, out |-> row.out] /\ u.nonce = 1 /\ u.hasKey = TRUE
  BY <1>0 DEF BeforePayload, Hashes
<1>9. s.pattern = KK => me.pin # NoPin /\ u.remoteStatic = me.pin
  BY DEF Shape, Identity, Remotes
<1>10. /\ IsState(u) /\ u.failed = FALSE /\ u.pattern = s.pattern /\ u.ready = FALSE
       /\ u.initiator = me.initiator /\ u.localPublic = me.static /\ u.pin = me.pin
       /\ u.ephemeral = me.ephemeral /\ u.psk = me.psk
       /\ u.sendNonce = 0 /\ u.receiveNonce = 0
  BY <1>1 DEF Keeps, Shape, Identity, Transcript, Running
<1>11. CASE s.step + 1 # Steps(s.pattern)
  <2>1. r = [u EXCEPT !.step = @ + 1]
    BY <1>2, <1>11 DEF Split
  <2>2. /\ IsState(r) /\ r.step = s.step + 1 /\ r.pattern = s.pattern /\ r.ready = FALSE
        /\ r.failed = FALSE /\ r.hash = u.hash /\ r.ck = u.ck /\ r.key = u.key /\ r.nonce = u.nonce
        /\ r.hasKey = u.hasKey /\ r.remoteStatic = u.remoteStatic
        /\ r.remoteEphemeral = u.remoteEphemeral
    BY <1>2, <1>10, <2>1 DEF IsState, Zeroed
  <2>3. /\ r.initiator = me.initiator /\ r.localPublic = me.static /\ r.pin = me.pin
        /\ r.ephemeral = me.ephemeral /\ r.psk = me.psk
        /\ r.sendNonce = 0 /\ r.receiveNonce = 0
    BY <1>10, <2>1 DEF IsState, Zeroed
  <2> HIDE DEF r
  <2>4. r.key = [of |-> r.ck, out |-> IF r.pattern = XX /\ r.step = 2 THEN 3 ELSE 2]
    BY <1>0, <1>8, <2>2
  <2>5. Shape(r, me)
    <3>1. Identity(r, me)
      BY <1>0, <1>2, <1>9, <1>10, <1>11, <2>2, <2>3 DEF Identity
    <3>2. Transcript(r, me)
      BY <1>0, <1>3, <1>5, <1>6, <2>2 DEF Transcript
    <3>3. Running(r, me)
      BY <1>0, <1>7, <1>8, <2>2, <2>3, <2>4 DEF Running
    <3> QED BY <2>2, <3>1, <3>2, <3>3 DEF Shape
  <2>6. Remotes(t, r)
    BY <2>2 DEF Remotes
  <2> QED BY <1>4, <1>11, <2>2, <2>3, <2>5, <2>6 DEF r
<1>12. CASE s.step + 1 = Steps(s.pattern)
  <2>1. r = [u EXCEPT !.step = @ + 1,
                 !.sendKey = [of |-> u.ck, split |-> IF u.initiator THEN 1 ELSE 2],
                 !.receiveKey = [of |-> u.ck, split |-> IF u.initiator THEN 2 ELSE 1],
                 !.localStatic = ZeroKey, !.ephemeral = ZeroKey,
                 !.ck = <<>>, !.key = NoKey, !.psk = "none", !.ready = TRUE]
    BY <1>2, <1>12 DEF Split
  <2>2. /\ IsState(r) /\ r.step = s.step + 1 /\ r.pattern = s.pattern /\ r.ready = TRUE
        /\ r.failed = FALSE /\ r.hash = u.hash
        /\ r.hasKey = u.hasKey /\ r.remoteStatic = u.remoteStatic
        /\ r.remoteEphemeral = u.remoteEphemeral
    <3>1. IsState(r)
      BY <1>10, <2>1 DEF IsState, Zeroed
    <3>2. r.step = s.step + 1 /\ r.ready = TRUE
      BY <1>2, <1>10, <2>1 DEF IsState, Zeroed
    <3>3. r.pattern = s.pattern /\ r.failed = FALSE /\ r.hash = u.hash
      BY <1>10, <2>1 DEF IsState, Zeroed
    <3>4. /\ r.hasKey = u.hasKey /\ r.remoteStatic = u.remoteStatic
          /\ r.remoteEphemeral = u.remoteEphemeral
      BY <1>10, <2>1 DEF IsState, Zeroed
    <3> QED BY <3>1, <3>2, <3>3, <3>4
  <2>3. /\ r.initiator = me.initiator /\ r.localPublic = me.static /\ r.pin = me.pin
        /\ r.sendNonce = 0 /\ r.receiveNonce = 0
    BY <1>10, <2>1 DEF IsState, Zeroed
  <2>4. /\ r.sendKey = [of |-> u.ck, split |-> IF me.initiator THEN 1 ELSE 2]
        /\ r.receiveKey = [of |-> u.ck, split |-> IF me.initiator THEN 2 ELSE 1]
    BY <1>10, <2>1 DEF IsState, Zeroed
  <2> HIDE DEF r
  <2>5. row.out = 2
    BY <1>0, <1>12 DEF Steps, XX, KK
  <2>6. x.k = [of |-> r.sendKey.of, out |-> 2] /\ x.n = 0 /\ r.sendKey.of = u.ck
    BY <1>0, <2>4, <2>5 DEF BeforePayload, Hashes
  <2>7. Shape(r, me)
    <3>1. Identity(r, me)
      BY <1>0, <1>2, <1>9, <1>10, <1>12, <2>2, <2>3 DEF Identity
    <3>2. Transcript(r, me)
      BY <1>0, <1>3, <1>5, <1>6, <2>2 DEF Transcript
    <3>3. Established(r, me)
      BY <1>0, <1>4, <1>7, <1>8, <2>2, <2>3, <2>4, <2>6 DEF Established
    <3> QED BY <2>2, <3>1, <3>2, <3>3 DEF Shape
  <2>8. Remotes(t, r)
    BY <2>2 DEF Remotes
  <2> QED BY <1>4, <1>12, <2>2, <2>3, <2>7, <2>8 DEF r
<1> QED BY <1>11, <1>12

\* The words in front of the payload: an ephemeral key, a covered static key,
\* or the one and then the other.
Words(out, y, s, me) ==
  \/ out = <<Clear(me)>>
  \/ /\ out \in {<<Covered(y)>>, <<Clear(me), Covered(y)>>}
     /\ \E row \in Rows : /\ row.payload = FALSE /\ row.pattern = s.pattern /\ row.step = s.step
                          /\ SealedBy(y, row, me)

\* Whose turn it is, from the step and the role, and which steps there are.
LEMMA Turns ==
  ASSUME NEW s, NEW me, Shape(s, me), me.initiator \in BOOLEAN, InHandshake(s)
  PROVE  /\ s.ready = FALSE /\ s.step \in 0..Steps(s.pattern) - 1
         /\ \/ s.pattern = XX /\ s.step \in 0..2
            \/ s.pattern = KK /\ s.step \in 0..1
         /\ (s.step = 1 <=> TurnToWrite(s)) => me.initiator = FALSE
         /\ (s.step # 1 <=> TurnToWrite(s)) => me.initiator = TRUE
<1>1. /\ s.ready = FALSE /\ s.pattern \in {XX, KK} /\ s.step \in 0..Steps(s.pattern)
      /\ s.step # Steps(s.pattern) /\ s.initiator = me.initiator
  BY DEF Shape, Identity, InHandshake
<1>2. s.step \in 0..Steps(s.pattern) - 1
  BY <1>1 DEF Steps
<1>3. \/ s.pattern = XX /\ s.step \in 0..2
      \/ s.pattern = KK /\ s.step \in 0..1
  BY <1>1, <1>2 DEF Steps, XX, KK
<1>4. s.step \in 0..2
  BY <1>3
<1>5. TurnToWrite(s) <=> ((s.step # 1) = me.initiator)
  <2>1. (s.step % 2 = 0) <=> (s.step # 1)
    BY <1>4
  <2> QED BY <1>1, <2>1 DEF TurnToWrite
<1> QED BY <1>1, <1>2, <1>3, <1>4, <1>5

\* The tokens of any step that is written: the five cases above in one
\* statement.
LEMMA WritesWords ==
  ASSUME NEW s, NEW me, Shape(s, me), me.initiator \in BOOLEAN, InHandshake(s), TurnToWrite(s),
         WriteTokens(s).rc = "OK"
  PROVE  \E t, y, out : \E row \in Rows :
           /\ WriteTokens(s) = [rc |-> "OK", s |-> t, out |-> out]
           /\ Keeps(s, t) /\ Remotes(s, t) /\ BeforePayload(t, row, me) /\ Words(out, y, s, me)
           /\ row.payload = TRUE /\ row.pattern = s.pattern /\ row.step = s.step
           /\ row.initiator = me.initiator
<1> DEFINE Written(t, y, out, row) ==
      /\ WriteTokens(s) = [rc |-> "OK", s |-> t, out |-> out]
      /\ Keeps(s, t) /\ Remotes(s, t) /\ BeforePayload(t, row, me) /\ Words(out, y, s, me)
      /\ row.payload = TRUE /\ row.pattern = s.pattern /\ row.step = s.step
      /\ row.initiator = me.initiator
<1> DEFINE Goal == \E t, y, out : \E row \in Rows : Written(t, y, out, row)
<1> SUFFICES Goal
  OBVIOUS
<1>0. /\ s.ready = FALSE
      /\ \/ s.pattern = XX /\ s.step \in 0..2
         \/ s.pattern = KK /\ s.step \in 0..1
      /\ s.step = 1 => me.initiator = FALSE
      /\ s.step # 1 => me.initiator = TRUE
  BY Turns
<1>1. ASSUME s.pattern = XX, s.step = 0 PROVE Goal
  <2> DEFINE row == Row(XX, 3, TRUE, 0, 2, 2, 0, TRUE)
  <2>1. row \in Rows /\ row.payload = TRUE /\ row.pattern = XX /\ row.step = 0 /\ row.initiator = TRUE
    BY DEF Rows, Row
  <2>2. me.initiator = TRUE
    BY <1>0, <1>1
  <2>3. PICK t : /\ WriteTokens(s) = [rc |-> "OK", s |-> t, out |-> <<Clear(me)>>]
                 /\ Keeps(s, t) /\ Remotes(s, t) /\ BeforePayload(t, row, me)
    BY <1>0, <1>1, <2>2, WritesXX0
  <2> HIDE DEF row
  <2>4. Words(<<Clear(me)>>, 0, s, me)
    BY DEF Words
  <2>5. Written(t, 0, <<Clear(me)>>, row)
    BY <1>1, <2>1, <2>2, <2>3, <2>4
  <2> QED BY <2>1, <2>5
<1>2. ASSUME s.pattern = XX, s.step = 1 PROVE Goal
  <2> DEFINE row == Row(XX, 7, FALSE, 1, 6, 3, 0, TRUE)
  <2>1. row \in Rows /\ row.payload = TRUE /\ row.pattern = XX /\ row.step = 1 /\ row.initiator = FALSE
    BY DEF Rows, Row
  <2>2. me.initiator = FALSE
    BY <1>0, <1>2
  <2> DEFINE other == Row(XX, 5, FALSE, 1, 4, 2, 0, FALSE)
  <2>3. other \in Rows /\ other.payload = FALSE /\ other.pattern = XX /\ other.step = 1
    BY DEF Rows, Row
  <2>4. PICK t, y : /\ WriteTokens(s) = [rc |-> "OK", s |-> t, out |-> <<Clear(me), Covered(y)>>]
                    /\ Keeps(s, t) /\ Remotes(s, t) /\ BeforePayload(t, row, me)
                    /\ SealedBy(y, other, me)
    BY <1>0, <1>2, <2>2, WritesXX1
  <2> HIDE DEF row, other
  <2>5. Words(<<Clear(me), Covered(y)>>, y, s, me)
    BY <1>2, <2>3, <2>4 DEF Words
  <2>6. Written(t, y, <<Clear(me), Covered(y)>>, row)
    BY <1>2, <2>1, <2>2, <2>4, <2>5
  <2> QED BY <2>1, <2>6
<1>3. ASSUME s.pattern = XX, s.step = 2 PROVE Goal
  <2> DEFINE row == Row(XX, 9, TRUE, 2, 7, 2, 0, TRUE)
  <2>1. row \in Rows /\ row.payload = TRUE /\ row.pattern = XX /\ row.step = 2 /\ row.initiator = TRUE
    BY DEF Rows, Row
  <2>2. me.initiator = TRUE
    BY <1>0, <1>3
  <2> DEFINE other == Row(XX, 8, TRUE, 2, 6, 3, 1, FALSE)
  <2>3. other \in Rows /\ other.payload = FALSE /\ other.pattern = XX /\ other.step = 2
    BY DEF Rows, Row
  <2>4. PICK t, y : /\ WriteTokens(s) = [rc |-> "OK", s |-> t, out |-> <<Covered(y)>>]
                    /\ Keeps(s, t) /\ Remotes(s, t) /\ BeforePayload(t, row, me)
                    /\ SealedBy(y, other, me)
    BY <1>0, <1>3, <2>2, WritesXX2
  <2> HIDE DEF row, other
  <2>5. Words(<<Covered(y)>>, y, s, me)
    BY <1>3, <2>3, <2>4 DEF Words
  <2>6. Written(t, y, <<Covered(y)>>, row)
    BY <1>3, <2>1, <2>2, <2>4, <2>5
  <2> QED BY <2>1, <2>6
<1>4. ASSUME s.pattern = KK, s.step = 0 PROVE Goal
  <2> DEFINE row == Row(KK, 6, TRUE, 0, 5, 2, 0, TRUE)
  <2>1. row \in Rows /\ row.payload = TRUE /\ row.pattern = KK /\ row.step = 0 /\ row.initiator = TRUE
    BY DEF Rows, Row
  <2>2. me.initiator = TRUE
    BY <1>0, <1>4
  <2>3. PICK t : /\ WriteTokens(s) = [rc |-> "OK", s |-> t, out |-> <<Clear(me)>>]
                 /\ Keeps(s, t) /\ Remotes(s, t) /\ BeforePayload(t, row, me)
    BY <1>0, <1>4, <2>2, WritesKK0
  <2> HIDE DEF row
  <2>4. Words(<<Clear(me)>>, 0, s, me)
    BY DEF Words
  <2>5. Written(t, 0, <<Clear(me)>>, row)
    BY <1>4, <2>1, <2>2, <2>3, <2>4
  <2> QED BY <2>1, <2>5
<1>5. ASSUME s.pattern = KK, s.step = 1 PROVE Goal
  <2> DEFINE row == Row(KK, 8, FALSE, 1, 8, 2, 0, TRUE)
  <2>1. row \in Rows /\ row.payload = TRUE /\ row.pattern = KK /\ row.step = 1 /\ row.initiator = FALSE
    BY DEF Rows, Row
  <2>2. me.initiator = FALSE
    BY <1>0, <1>5
  <2>3. PICK t : /\ WriteTokens(s) = [rc |-> "OK", s |-> t, out |-> <<Clear(me)>>]
                 /\ Keeps(s, t) /\ Remotes(s, t) /\ BeforePayload(t, row, me)
    BY <1>0, <1>5, <2>2, WritesKK1
  <2> HIDE DEF row
  <2>4. Words(<<Clear(me)>>, 0, s, me)
    BY DEF Words
  <2>5. Written(t, 0, <<Clear(me)>>, row)
    BY <1>5, <2>1, <2>2, <2>3, <2>4
  <2> QED BY <2>1, <2>5
<1> HIDE DEF Goal
<1>6. s.pattern = XX => s.step \in {0, 1, 2}
  BY <1>0 DEF XX, KK
<1>7. s.pattern = KK => s.step \in {0, 1}
  BY <1>0 DEF XX, KK
<1> QED BY <1>0, <1>1, <1>2, <1>3, <1>4, <1>5, <1>6, <1>7

\* A write sealed the payload x, in that row, behind those words.
WriteStep(s, r, x, y, words, row, me) ==
  /\ row \in Rows /\ row.payload = TRUE /\ row.pattern = s.pattern /\ row.step = s.step
  /\ row.initiator = me.initiator /\ s.ready = FALSE
  /\ SealedBy(x, row, me) /\ Words(words, y, s, me)
  /\ Shape(r, me) /\ r.step = s.step + 1 /\ r.pattern = s.pattern /\ Remotes(s, r)
  /\ r.sendNonce = 0 /\ r.receiveNonce = 0
  /\ r.hash = Append(x.ad, [sealed |-> x]) /\ LastSeal(r.hash) = x
  /\ r.ready <=> s.step + 1 = Steps(s.pattern)

\* What a write may come to.
Writes(s, r, me, len) ==
  \/ r.s = Dead /\ r.out = <<>>
  \/ \E x, y, words, row : /\ WriteStep(s, r.s, x, y, words, row, me)
                          /\ r.out = Append(words, Piece(len + 16, [sealed |-> x]))

\* thalovant_noise_write_message(): it refuses and changes nothing, it fails
\* the session, or it writes the message of its step and moves to the next.
LEMMA NoiseWriteDoes ==
  ASSUME NEW s, NEW me, Shape(s, me), me.initiator \in BOOLEAN,
         NEW payload, NEW len \in Nat, NEW capacity
  PROVE  Writes(s, NoiseWrite(s, payload, len, capacity), me, len)
<1> DEFINE r == NoiseWrite(s, payload, len, capacity)
<1> DEFINE Good == InHandshake(s) /\ TurnToWrite(s) /\ ~(capacity < len + Overhead)
                     /\ WriteTokens(s).rc = "OK"
<1>1. ASSUME ~Good PROVE r.s = Dead /\ r.out = <<>>
  BY <1>1 DEF NoiseWrite, Failure, Dead
<1>2. ASSUME Good
      PROVE  \E x, y, words, row :
               /\ WriteStep(s, r.s, x, y, words, row, me)
               /\ r.out = Append(words, Piece(len + 16, [sealed |-> x]))
  <2>1. s.ready = FALSE
    BY <1>2, Turns
  <2>2. PICK t, y, out : \E row \in Rows :
           /\ WriteTokens(s) = [rc |-> "OK", s |-> t, out |-> out]
           /\ Keeps(s, t) /\ Remotes(s, t) /\ BeforePayload(t, row, me) /\ Words(out, y, s, me)
           /\ row.payload = TRUE /\ row.pattern = s.pattern /\ row.step = s.step
           /\ row.initiator = me.initiator
    BY <1>2, WritesWords
  <2>3. PICK row \in Rows :
           /\ WriteTokens(s) = [rc |-> "OK", s |-> t, out |-> out]
           /\ Keeps(s, t) /\ Remotes(s, t) /\ BeforePayload(t, row, me) /\ Words(out, y, s, me)
           /\ row.payload = TRUE /\ row.pattern = s.pattern /\ row.step = s.step
           /\ row.initiator = me.initiator
    BY <2>2
  <2> DEFINE pt == [payload |-> payload]
  <2> DEFINE x == SealOf(t, pt)
  <2> DEFINE e == EncryptHash(t, pt)
  <2>4. t.hasKey = TRUE /\ t.nonce \in Nat /\ Sound(t)
    <3>1. row.n = 0
      BY <2>3, PayloadRows
    <3> QED BY <2>3, <3>1 DEF BeforePayload
  <2>5. /\ e.item = [sealed |-> x]
        /\ Hashes(t, e.s, [sealed |-> x], 1) /\ Remotes(t, e.s) /\ Sound(e.s)
        /\ e.s.hash = Append(t.hash, [sealed |-> x])
    <3> HIDE DEF pt
    <3> QED BY <2>4, EncryptHashSeals
  <2>6. TagSize(t) = 16
    BY <2>4 DEF TagSize
  <2>7. r.s = Split(e.s) /\ r.out = Append(out, Piece(len + 16, e.item))
    BY <1>2, <2>3, <2>6 DEF NoiseWrite
  <2>8. /\ x = [k |-> x.k, n |-> x.n, ad |-> x.ad, pt |-> x.pt]
        /\ x.k = t.key /\ x.n = t.nonce /\ x.ad = t.hash
    BY DEF SealOf
  <2> HIDE DEF x, e, r
  <2>9. s.pattern = KK => t.remoteStatic = me.pin
    BY <2>3 DEF Remotes, Shape, Identity
  <2>10. /\ Shape(r.s, me) /\ r.s.step = s.step + 1 /\ r.s.pattern = s.pattern
         /\ Remotes(t, r.s) /\ r.s.hash = e.s.hash /\ LastSeal(r.s.hash) = x
         /\ r.s.sendNonce = 0 /\ r.s.receiveNonce = 0
         /\ r.s.ready <=> s.step + 1 = Steps(s.pattern)
    <3>1. /\ Keeps(s, t) /\ row.payload = TRUE /\ row.pattern = s.pattern /\ row.step = s.step
          /\ BeforePayload(t, row, me)
      BY <2>3
    <3>2. /\ x.k = t.key /\ x.n = t.nonce /\ x.ad = t.hash
          /\ Hashes(t, e.s, [sealed |-> x], 1) /\ Remotes(t, e.s) /\ Sound(e.s)
          /\ e.s.hash = Append(t.hash, [sealed |-> x])
      BY <2>5, <2>8
    <3>3. LET w == Split(e.s)
          IN /\ Shape(w, me) /\ w.step = s.step + 1 /\ w.pattern = s.pattern
             /\ Remotes(t, w) /\ w.hash = e.s.hash /\ LastSeal(w.hash) = x
             /\ w.sendNonce = 0 /\ w.receiveNonce = 0
             /\ w.ready <=> s.step + 1 = Steps(s.pattern)
      BY <2>1, <2>9, <3>1, <3>2, SplitShapes
    <3> QED BY <2>7, <3>3
  <2>11. SealedBy(x, row, me)
    <3>1. /\ CkLen(row.pattern, row.step + 1) = row.ck /\ row.step + 1 >= EphBy(row.initiator)
          /\ row.n = 0
      BY <2>3, PayloadRows
    <3>2. Chains(t.ck, row.pattern, row.step + 1, me, t.remoteEphemeral)
      BY <2>3 DEF BeforePayload
    <3>3. /\ IsSeq(t.ck) /\ Len(t.ck) = row.ck /\ t.ck[1] = [name |-> row.pattern]
          /\ t.ck[EphAt(row.pattern, row.initiator)] = [key |-> me.ephemeral]
      BY <2>3, <3>1, <3>2 DEF Chains
    <3>4. /\ IsSeq(x.ad) /\ Len(x.ad) = row.len /\ Begins(x.ad, row.pattern, me)
          /\ x.n = row.n /\ x.k = [of |-> t.ck, out |-> row.out]
      BY <2>3, <2>8 DEF BeforePayload, Sound
    <3>5. x.k.of = t.ck
      BY <3>4
    <3>6. row.pattern = KK => me.pin # NoPin
      BY <2>3 DEF Shape, Identity
    <3> QED BY <2>3, <2>8, <3>3, <3>4, <3>5, <3>6 DEF SealedBy
  <2>12. Remotes(s, r.s) /\ r.s.hash = Append(x.ad, [sealed |-> x])
    BY <2>3, <2>5, <2>8, <2>10 DEF Remotes
  <2>13. WriteStep(s, r.s, x, y, out, row, me)
    BY <2>1, <2>3, <2>10, <2>11, <2>12 DEF WriteStep
  <2>14. r.out = Append(out, Piece(len + 16, [sealed |-> x]))
    BY <2>5, <2>7
  <2> QED BY <2>13, <2>14
<1> HIDE DEF r, Good
<1>3. Writes(s, r, me, len)
  BY <1>1, <1>2 DEF Writes
<1> QED BY <1>3 DEF r

-----------------------------------------------------------------------------
(* What the tokens of each step read. *)

\* What is left of a message holds its items, or bytes that straddle them.
ItemsOf(m) == {m[i].item : i \in 1..Len(m)} \cup {[key |-> GarbageKey]}
From(rest, m) == IsSeq(rest) /\ \A i \in 1..Len(rest) : rest[i].item \in ItemsOf(m)
Holds(m, x) == \E i \in 1..Len(m) : m[i].item = [sealed |-> x]
\* A message whose ciphertexts are nothing but ciphertexts.
WellFormed(m) == IsSeq(m) /\ \A i \in 1..Len(m) : IsPure(m[i].item)

\* The first piece of a sequence and the rest of it.
LEMMA HeadTail ==
  ASSUME NEW q, IsSeq(q), Len(q) >= 1
  PROVE  /\ Head(q) = q[1] /\ IsSeq(Tail(q)) /\ Len(Tail(q)) = Len(q) - 1
         /\ \A i \in 1..Len(q) - 1 : Tail(q)[i] = q[i + 1]
<1> DEFINE S == {q[i] : i \in 1..Len(q)}
<1>1. q \in Seq(S) /\ Len(q) \in Nat
  BY DEF IsSeq
<1>2. q # <<>>
  BY <1>1
<1>3. Head(q) = q[1]
  BY <1>1, <1>2
<1>4. Tail(q) \in Seq(S) /\ Len(Tail(q)) = Len(q) - 1
  BY <1>1, <1>2
<1>5. \A i \in 1..Len(q) - 1 : Tail(q)[i] = q[i + 1]
  BY <1>1, <1>2
<1>6. IsSeq(Tail(q))
  <2> DEFINE t == Tail(q)
  <2>1. t \in Seq(S)
    BY <1>4
  <2> HIDE DEF t
  <2>2. IsSeq(t)
    BY <2>1 DEF IsSeq
  <2> QED BY <2>2 DEF t
<1> QED BY <1>3, <1>4, <1>5, <1>6

\* What is taken from a message is one of its pieces, and what is left comes
\* from it too.
LEMMA TakeFrom ==
  ASSUME NEW m, NEW rest, From(rest, m), NEW size \in Nat, size > 0, ~(Size(rest) < size)
  PROVE  Take(rest, size).item \in ItemsOf(m) /\ From(Take(rest, size).rest, m)
<1>1. Len(rest) \in Nat /\ IsSeq(rest)
  BY DEF From, IsSeq
<1>2. Len(rest) >= 1
  <2>1. Len(rest) = 0 => Size(rest) = 0
    BY DEF Size, SizeAt
  <2> QED BY <1>1, <2>1
<1>3. /\ Head(rest) = rest[1] /\ IsSeq(Tail(rest)) /\ Len(Tail(rest)) = Len(rest) - 1
      /\ \A i \in 1..Len(rest) - 1 : Tail(rest)[i] = rest[i + 1]
  BY <1>1, <1>2, HeadTail
<1>4. CASE Head(rest).size = size
  <2>1. Take(rest, size) = [item |-> Head(rest).item, rest |-> Tail(rest)]
    BY <1>4 DEF Take
  <2>2. rest[1].item \in ItemsOf(m)
    BY <1>1, <1>2 DEF From
  <2>3. \A i \in 1..Len(rest) - 1 : rest[i + 1].item \in ItemsOf(m)
    BY <1>1 DEF From
  <2>4. From(Tail(rest), m)
    BY <1>3, <2>3 DEF From
  <2> QED BY <1>3, <2>1, <2>2, <2>4
<1>5. CASE Head(rest).size # size
  <2> DEFINE p == Piece(Size(rest) - size, [key |-> GarbageKey])
  <2>1. Take(rest, size) = [item |-> [key |-> GarbageKey], rest |-> <<p>>]
    BY <1>5 DEF Take
  <2>2. p.item \in ItemsOf(m)
    BY DEF ItemsOf, Piece
  <2> HIDE DEF p
  <2>3. IsSeq(<<p>>) /\ Len(<<p>>) = 1 /\ <<p>>[1] = p
    BY DEF IsSeq
  <2>4. From(<<p>>, m)
    BY <2>2, <2>3 DEF From
  <2>5. [key |-> GarbageKey] \in ItemsOf(m)
    BY DEF ItemsOf
  <2> QED BY <2>1, <2>4, <2>5
<1> QED BY <1>4, <1>5

\* After the last token, or after a failure, reading goes no further.
LEMMA ReadTokenEnds ==
  ASSUME NEW acc, NEW token, acc.rc # "OK" \/ token = "end"
  PROVE  ReadToken(acc, token) = acc
BY DEF ReadToken

\* Which branch of noise_read_tokens() a token takes.
LEMMA ReadTokenIs ==
  ASSUME NEW s, NEW q, NEW token
  PROVE  /\ ReadToken([rc |-> "OK", s |-> s, rest |-> q], "e") = ReadE(s, q)
         /\ ReadToken([rc |-> "OK", s |-> s, rest |-> q], "s") = ReadS(s, q)
         /\ ReadToken([rc |-> "OK", s |-> s, rest |-> q], "psk") = ReadPsk(s, q)
         /\ token \in {"ee", "es", "se", "ss"} =>
              ReadToken([rc |-> "OK", s |-> s, rest |-> q], token) = ReadDH(s, q, token)
<1>1. ReadToken([rc |-> "OK", s |-> s, rest |-> q], "e") = ReadE(s, q)
  BY DEF ReadToken
<1>2. ReadToken([rc |-> "OK", s |-> s, rest |-> q], "s") = ReadS(s, q)
  BY DEF ReadToken
<1>3. ReadToken([rc |-> "OK", s |-> s, rest |-> q], "psk") = ReadPsk(s, q)
  BY DEF ReadToken
<1>4. token \in {"ee", "es", "se", "ss"} =>
        ReadToken([rc |-> "OK", s |-> s, rest |-> q], token) = ReadDH(s, q, token)
  BY DEF ReadToken
<1> QED BY <1>1, <1>2, <1>3, <1>4

\* A DH token that is read takes nothing from the message.
LEMMA ReadTokenDH ==
  ASSUME NEW s, Sound(s), NEW q, NEW token \in {"ee", "es", "se", "ss"},
         ReadToken([rc |-> "OK", s |-> s, rest |-> q], token).rc = "OK"
  PROVE  \E t, input : /\ Keys(s, t, input) /\ Sound(t)
                       /\ ReadToken([rc |-> "OK", s |-> s, rest |-> q], token)
                            = [rc |-> "OK", s |-> t, rest |-> q]
<1> DEFINE secret == DH(s, token)
<1>1. ReadToken([rc |-> "OK", s |-> s, rest |-> q], token)
        = [rc |-> secret.rc, s |-> secret.s, rest |-> q]
  BY ReadTokenIs DEF ReadDH
<1> HIDE DEF secret
<1>2. secret.rc = "OK"
  BY <1>1
<1>3. \E input : Keys(s, secret.s, input) /\ Sound(secret.s)
  BY <1>2, DHKeys DEF secret
<1> QED BY <1>1, <1>2, <1>3

\* A whole step is read only when each of its tokens is.
LEMMA ReadTokensOK ==
  ASSUME NEW s, NEW m, ReadTokens(s, m).rc = "OK"
  PROVE  \E a1, a2, a3, a4, a5 :
           /\ a1 = ReadToken([rc |-> "OK", s |-> s, rest |-> m], TokenAt(s, 1))
           /\ a2 = ReadToken(a1, TokenAt(s, 2)) /\ a3 = ReadToken(a2, TokenAt(s, 3))
           /\ a4 = ReadToken(a3, TokenAt(s, 4)) /\ a5 = ReadToken(a4, TokenAt(s, 5))
           /\ a1.rc = "OK" /\ a2.rc = "OK" /\ a3.rc = "OK" /\ a4.rc = "OK" /\ a5.rc = "OK"
           /\ ReadTokens(s, m) = a5
<1> DEFINE a1 == ReadToken([rc |-> "OK", s |-> s, rest |-> m], TokenAt(s, 1))
<1> DEFINE a2 == ReadToken(a1, TokenAt(s, 2))
<1> DEFINE a3 == ReadToken(a2, TokenAt(s, 3))
<1> DEFINE a4 == ReadToken(a3, TokenAt(s, 4))
<1> DEFINE a5 == ReadToken(a4, TokenAt(s, 5))
<1>1. ReadTokens(s, m) = a5
  <2> DEFINE first == [rc |-> "OK", s |-> s, rest |-> m]
  <2> DEFINE Unfolds(f) == f = [i \in 0..5 |-> IF i = 0 THEN first
                                               ELSE ReadToken(f[i - 1], TokenAt(s, i))]
  <2> DEFINE known == [i \in 0..5 |-> IF i = 0 THEN first ELSE IF i = 1 THEN a1
                                     ELSE IF i = 2 THEN a2 ELSE IF i = 3 THEN a3
                                     ELSE IF i = 4 THEN a4 ELSE a5]
  <2> DEFINE behind == CHOOSE f : Unfolds(f)
  <2>1. ReadTokens(s, m) = behind[5]
    BY DEF ReadTokens
  <2>2. /\ a1 = ReadToken(first, TokenAt(s, 1)) /\ a2 = ReadToken(a1, TokenAt(s, 2))
        /\ a3 = ReadToken(a2, TokenAt(s, 3)) /\ a4 = ReadToken(a3, TokenAt(s, 4))
        /\ a5 = ReadToken(a4, TokenAt(s, 5))
    OBVIOUS
  <2> HIDE DEF first, a1, a2, a3, a4, a5
  <2>3. Unfolds(known)
    <3> DEFINE unfolded == [i \in 0..5 |-> IF i = 0 THEN first
                                           ELSE ReadToken(known[i - 1], TokenAt(s, i))]
    <3>1. ASSUME NEW i \in 0..5 PROVE known[i] = unfolded[i]
      <4>1. /\ known[0] = first /\ known[1] = a1 /\ known[2] = a2
            /\ known[3] = a3 /\ known[4] = a4 /\ known[5] = a5
        OBVIOUS
      <4>2. unfolded[i] = IF i = 0 THEN first ELSE ReadToken(known[i - 1], TokenAt(s, i))
        OBVIOUS
      <4>3. i \in {0, 1, 2, 3, 4, 5}
        OBVIOUS
      <4> HIDE DEF known, unfolded
      <4> QED BY <4>1, <4>2, <4>3, <2>2
    <3> QED BY <3>1
  <2>4. Unfolds(behind)
    <3> HIDE DEF Unfolds, known
    <3> QED BY <2>3
  <2>5. /\ behind[0] = first
        /\ \A i \in 1..5 : behind[i] = ReadToken(behind[i - 1], TokenAt(s, i))
    <3> HIDE DEF behind
    <3> QED BY <2>4
  <2> HIDE DEF behind
  <2>6. /\ behind[1] = a1 /\ behind[2] = a2 /\ behind[3] = a3
        /\ behind[4] = a4 /\ behind[5] = a5
    BY <2>2, <2>5
  <2> QED BY <2>1, <2>6
<1> HIDE DEF a5
<1>2. a4.rc = "OK"
  BY <1>1, ReadTokenEnds DEF a5
<1> HIDE DEF a4
<1>3. a3.rc = "OK"
  BY <1>2, ReadTokenEnds DEF a4
<1> HIDE DEF a3
<1>4. a2.rc = "OK"
  BY <1>3, ReadTokenEnds DEF a3
<1> HIDE DEF a2
<1>5. a1.rc = "OK"
  BY <1>4, ReadTokenEnds DEF a2
<1> HIDE DEF a1
<1> QED BY <1>1, <1>2, <1>3, <1>4, <1>5 DEF a1, a2, a3, a4, a5

\* s became t, with rest left of m, when the peer's ephemeral key was read.
ReadsEphemeral(s, q, t, rest, m) ==
  /\ ReadToken([rc |-> "OK", s |-> s, rest |-> q], "e") = [rc |-> "OK", s |-> t, rest |-> rest]
  /\ From(rest, m) /\ Ephemerals(s, t, [key |-> t.remoteEphemeral]) /\ Sound(t)
  /\ t.remoteStatic = s.remoteStatic
\* Reading "e" takes a piece of the message for the remote ephemeral key.
LEMMA ReadingE ==
  ASSUME NEW s, Sound(s), s.nonce \in Nat, NEW m, NEW q, From(q, m),
         ReadToken([rc |-> "OK", s |-> s, rest |-> q], "e").rc = "OK"
  PROVE  \E t, rest : ReadsEphemeral(s, q, t, rest, m)
<1> DEFINE taken == Take(q, 32)
<1> DEFINE theirs == [key |-> AsKey(taken.item)]
<1> DEFINE u == [s EXCEPT !.remoteEphemeral = theirs.key]
<1> DEFINE t == MixKey(MixHash(u, theirs), theirs)
<1>1. ReadToken([rc |-> "OK", s |-> s, rest |-> q], "e") = ReadE(s, q)
  BY ReadTokenIs
<1>2. ~(Size(q) < 32)
  BY <1>1 DEF ReadE
<1>3. ReadToken([rc |-> "OK", s |-> s, rest |-> q], "e")
        = [rc |-> "OK", s |-> t, rest |-> taken.rest]
  BY <1>1, <1>2 DEF ReadE
<1>4. From(taken.rest, m)
  BY <1>2, TakeFrom
<1>5. Keeps(s, u) /\ u.remoteEphemeral = theirs.key /\ u.remoteStatic = s.remoteStatic
  BY DEF Sound, IsState, Zeroed, Keeps
<1>6. u.hash = s.hash /\ u.ck = s.ck /\ u.nonce = s.nonce /\ Sound(u)
  BY DEF Sound, IsState, Zeroed
<1> HIDE DEF u
<1>7. Ephemerals(u, t, theirs) /\ Remotes(u, t) /\ Sound(t)
  <2> HIDE DEF theirs
  <2> QED BY <1>6, MixingE
<1> HIDE DEF t
<1>8. t.remoteEphemeral = theirs.key /\ t.remoteStatic = s.remoteStatic
  BY <1>5, <1>7 DEF Remotes
<1>9. theirs = [key |-> t.remoteEphemeral]
  BY <1>8
<1> HIDE DEF theirs
<1>10. Ephemerals(s, t, theirs)
  BY <1>5, <1>6, <1>7 DEF Ephemerals, Keeps
<1> QED BY <1>3, <1>4, <1>7, <1>8, <1>9, <1>10 DEF ReadsEphemeral

\* y was read as the peer's static key, in that state.
ReadAs(y, s, m) == Holds(m, y) /\ y.k = s.key /\ y.n = s.nonce /\ y.ad = s.hash

\* s became t, with rest left of m, when it was read.
ReadsStatic(s, q, t, rest, y, m) ==
  /\ ReadToken([rc |-> "OK", s |-> s, rest |-> q], "s") = [rc |-> "OK", s |-> t, rest |-> rest]
  /\ From(rest, m) /\ ReadAs(y, s, m) /\ Hashes(s, t, [sealed |-> y], 1) /\ Sound(t)
  /\ t.remoteStatic = AsKey(y.pt) /\ t.remoteEphemeral = s.remoteEphemeral
  /\ s.pin \in {NoPin, AsKey(y.pt)}
\* Reading "s" under a key opens a piece of the message, sealed with this very
\* transcript, for the remote static key.
LEMMA ReadingS ==
  ASSUME NEW s, Sound(s), s.hasKey = TRUE, s.nonce \in Nat,
         NEW m, WellFormed(m), NEW q, From(q, m),
         ReadToken([rc |-> "OK", s |-> s, rest |-> q], "s").rc = "OK"
  PROVE  \E t, rest, y : ReadsStatic(s, q, t, rest, y, m)
<1> DEFINE taken == Take(q, 48)
<1> DEFINE item == taken.item
<1> DEFINE opened == DecryptHash(s, item)
<1> DEFINE t == [opened.s EXCEPT !.remoteStatic = AsKey(opened.pt)]
<1>1. ReadToken([rc |-> "OK", s |-> s, rest |-> q], "s") = ReadS(s, q)
  BY ReadTokenIs
<1>2. 32 + TagSize(s) = 48
  BY DEF TagSize
<1>3. ~(Size(q) < 48)
  BY <1>1, <1>2 DEF ReadS
<1>4. opened.rc = "OK" /\ ~PinRefuses(t)
  BY <1>1, <1>2, <1>3 DEF ReadS
<1>5. ReadToken([rc |-> "OK", s |-> s, rest |-> q], "s")
        = [rc |-> "OK", s |-> t, rest |-> taken.rest]
  BY <1>1, <1>2, <1>3, <1>4 DEF ReadS
<1>6. item \in ItemsOf(m) /\ From(taken.rest, m)
  BY <1>3, TakeFrom
<1> HIDE DEF item
<1>7. "sealed" \in DOMAIN item => IsSealed(item) /\ Holds(m, item.sealed)
  BY <1>6 DEF ItemsOf, WellFormed, Holds, IsPure, IsSealed
<1> DEFINE y == item.sealed
<1>8. /\ item = [sealed |-> y] /\ y.k = s.key /\ y.n = s.nonce /\ y.ad = s.hash
      /\ opened.pt = y.pt
      /\ Hashes(s, opened.s, item, 1) /\ Remotes(s, opened.s) /\ Sound(opened.s)
  <2>1. IsPure(item)
    BY <1>7 DEF IsPure
  <2>2. DecryptHash(s, item).rc = "OK"
    BY <1>4
  <2>3. /\ IsSealed(item) /\ y.k = s.key /\ y.n = s.nonce /\ y.ad = s.hash
        /\ opened.pt = y.pt
        /\ Hashes(s, opened.s, item, 1) /\ Remotes(s, opened.s) /\ Sound(opened.s)
    <3>1. IsSealed(item) /\ y.k = s.key /\ y.n = s.nonce /\ y.ad = s.hash
      BY <2>1, <2>2, DecryptHashOpens
    <3>2. opened.pt = y.pt
      <4>1. Sound(s) /\ s.hasKey = TRUE /\ s.nonce \in Nat
        OBVIOUS
      <4> QED BY ONLY <2>1, <2>2, <4>1, DecryptHashOpens
    <3>3. Hashes(s, opened.s, item, 1)
      BY <2>1, <2>2, DecryptHashOpens
    <3>4. Remotes(s, opened.s) /\ Sound(opened.s)
      BY <2>1, <2>2, DecryptHashOpens
    <3> QED BY <3>1, <3>2, <3>3, <3>4
  <2> QED BY <2>3 DEF IsSealed
<1>9. Holds(m, y)
  <2>1. "sealed" \in DOMAIN item
    BY <1>8 DEF IsSealed
  <2> QED BY <1>7, <2>1
<1> HIDE DEF y, opened
<1>10. Keeps(opened.s, t) /\ t.remoteStatic = AsKey(y.pt)
  BY <1>8 DEF Sound, IsState, Zeroed, Keeps
<1>11. /\ t.hash = opened.s.hash /\ t.ck = opened.s.ck /\ t.key = opened.s.key
       /\ t.hasKey = opened.s.hasKey /\ t.nonce = opened.s.nonce
       /\ t.remoteEphemeral = opened.s.remoteEphemeral
  BY <1>8 DEF Sound, IsState, Zeroed
<1> HIDE DEF t
<1>12. Hashes(s, t, [sealed |-> y], 1) /\ t.remoteEphemeral = s.remoteEphemeral
  BY <1>8, <1>10, <1>11 DEF Hashes, Keeps, Remotes
<1>13. Sound(t)
  BY <1>8, <1>10, <1>11 DEF Sound, Keeps
<1>14. s.pin \in {NoPin, AsKey(y.pt)}
  BY <1>4, <1>10, <1>12 DEF PinRefuses, Hashes, Keeps
<1> QED BY <1>5, <1>6, <1>8, <1>9, <1>10, <1>12, <1>13, <1>14 DEF ReadAs, ReadsStatic

\* y named the peer's static key, sealed under that much of the transcript.
Names(y, len, t, m, me) ==
  /\ Holds(m, y) /\ IsSeq(y.ad) /\ Len(y.ad) = len /\ Begins(y.ad, XX, me)
  /\ t.remoteStatic = AsKey(y.pt) /\ me.pin \in {NoPin, AsKey(y.pt)}

\* First message of XX, as its responder reads it.
LEMMA ReadsXX0 ==
  ASSUME NEW s, NEW me, Shape(s, me), s.ready = FALSE, s.pattern = XX, s.step = 0,
         me.initiator = FALSE, NEW m, WellFormed(m), ReadTokens(s, m).rc = "OK"
  PROVE  \E t, rest :
           /\ ReadTokens(s, m) = [rc |-> "OK", s |-> t, rest |-> rest]
           /\ From(rest, m) /\ Keeps(s, t)
           /\ BeforePayload(t, Row(XX, 3, TRUE, 0, 2, 2, 0, TRUE), me)
<1>0. /\ Sound(s) /\ s.nonce \in Nat
      /\ Len(s.hash) = 2 /\ Len(s.ck) = 1 /\ s.ck[1] = [name |-> XX] /\ Begins(s.hash, XX, me)
  BY DEF Shape, Identity, Transcript, Running, Sound, Chains, HashLen, CkLen, EphBy
<1>1. PICK a1, a2, a3, a4, a5 :
         /\ a1 = ReadToken([rc |-> "OK", s |-> s, rest |-> m], "e")
         /\ a2 = ReadToken(a1, "end") /\ a3 = ReadToken(a2, "end")
         /\ a4 = ReadToken(a3, "end") /\ a5 = ReadToken(a4, "end")
         /\ a1.rc = "OK" /\ ReadTokens(s, m) = a5
  BY ReadTokensOK, TokensAre DEF Steps
<1>2. ReadTokens(s, m) = a1
  BY <1>1, ReadTokenEnds
<1>3. From(m, m)
  BY DEF From, ItemsOf, WellFormed
<1>4. PICK t, rest : /\ a1 = [rc |-> "OK", s |-> t, rest |-> rest] /\ From(rest, m)
                     /\ Ephemerals(s, t, [key |-> t.remoteEphemeral]) /\ Sound(t)
  <2>1. ReadToken([rc |-> "OK", s |-> s, rest |-> m], "e").rc = "OK"
    BY <1>1
  <2>2. PICK t, rest : ReadsEphemeral(s, m, t, rest, m)
    BY ONLY <1>0, <1>3, <2>1, ReadingE
  <2> QED BY <1>1, <2>2 DEF ReadsEphemeral
<1> DEFINE e == [key |-> t.remoteEphemeral]
<1>5. Len(t.hash) = 3 /\ t.hash[1] = s.hash[1] /\ t.hash[2] = s.hash[2]
  BY <1>0, <1>4 DEF Ephemerals, Grows
<1>6. Len(t.ck) = 2 /\ t.ck[1] = [name |-> XX] /\ t.ck[2] = e
  BY <1>0, <1>4 DEF Ephemerals, Grows
<1>7. Begins(t.hash, XX, me)
  BY <1>0, <1>5 DEF Begins, XX, KK
<1>8. Chains(t.ck, XX, 1, me, t.remoteEphemeral)
  BY <1>4, <1>6 DEF Chains, CkLen, EphBy, EphAt, Sound, XX, KK
<1>9. BeforePayload(t, Row(XX, 3, TRUE, 0, 2, 2, 0, TRUE), me)
  BY <1>4, <1>5, <1>7, <1>8 DEF BeforePayload, Row, Ephemerals
<1>10. Keeps(s, t)
  BY <1>4 DEF Ephemerals
<1> QED BY <1>2, <1>4, <1>9, <1>10

\* Second message of XX, as its initiator reads it.
LEMMA ReadsXX1 ==
  ASSUME NEW s, NEW me, Shape(s, me), s.ready = FALSE, s.pattern = XX, s.step = 1,
         me.initiator = TRUE, NEW m, WellFormed(m), ReadTokens(s, m).rc = "OK"
  PROVE  \E t, rest, y :
           /\ ReadTokens(s, m) = [rc |-> "OK", s |-> t, rest |-> rest]
           /\ From(rest, m) /\ Keeps(s, t) /\ Names(y, 5, t, m, me)
           /\ BeforePayload(t, Row(XX, 7, FALSE, 1, 6, 3, 0, TRUE), me)
<1>0. /\ Sound(s) /\ s.nonce \in Nat /\ s.psk = me.psk /\ s.pin = me.pin
      /\ Len(s.hash) = 4 /\ Len(s.ck) = 2 /\ s.ck[1] = [name |-> XX] /\ Begins(s.hash, XX, me)
      /\ s.ck[2] = [key |-> me.ephemeral]
  BY DEF Shape, Identity, Transcript, Running, Sound, Chains, HashLen, CkLen, EphBy, EphAt
<1>1. PICK a1, a2, a3, a4, a5 :
         /\ a1 = ReadToken([rc |-> "OK", s |-> s, rest |-> m], "e")
         /\ a2 = ReadToken(a1, "ee") /\ a3 = ReadToken(a2, "s")
         /\ a4 = ReadToken(a3, "es") /\ a5 = ReadToken(a4, "psk")
         /\ a1.rc = "OK" /\ a2.rc = "OK" /\ a3.rc = "OK" /\ a4.rc = "OK" /\ a5.rc = "OK"
         /\ ReadTokens(s, m) = a5
  BY ReadTokensOK, TokensAre DEF Steps
<1>2. From(m, m)
  BY DEF From, ItemsOf, WellFormed
<1>3. PICK t1, q1 : /\ a1 = [rc |-> "OK", s |-> t1, rest |-> q1] /\ From(q1, m)
                    /\ Ephemerals(s, t1, [key |-> t1.remoteEphemeral]) /\ Sound(t1)
  <2>1. ReadToken([rc |-> "OK", s |-> s, rest |-> m], "e").rc = "OK"
    BY <1>1
  <2>2. PICK t, rest : ReadsEphemeral(s, m, t, rest, m)
    BY ONLY <1>0, <1>2, <2>1, ReadingE
  <2> QED BY <1>1, <2>2 DEF ReadsEphemeral
<1>4. PICK t2, v2 : /\ a2 = [rc |-> "OK", s |-> t2, rest |-> q1]
                    /\ Keys(t1, t2, v2) /\ Sound(t2)
  BY <1>1, <1>3, ReadTokenDH
<1>5. PICK t3, q3, y : /\ a3 = [rc |-> "OK", s |-> t3, rest |-> q3] /\ From(q3, m)
                       /\ ReadAs(y, t2, m) /\ Hashes(t2, t3, [sealed |-> y], 1) /\ Sound(t3)
                       /\ t3.remoteStatic = AsKey(y.pt) /\ t3.remoteEphemeral = t2.remoteEphemeral
                       /\ t2.pin \in {NoPin, AsKey(y.pt)}
  <2>1. t2.hasKey = TRUE /\ t2.nonce \in Nat
    BY <1>4 DEF Keys
  <2>2. WellFormed(m)
    OBVIOUS
  <2>3. ReadToken([rc |-> "OK", s |-> t2, rest |-> q1], "s").rc = "OK"
    BY <1>1, <1>4
  <2>4. PICK t, rest, y : ReadsStatic(t2, q1, t, rest, y, m)
    BY ONLY <1>3, <1>4, <2>1, <2>2, <2>3, ReadingS
  <2> QED BY <1>1, <1>4, <2>4 DEF ReadsStatic
<1>6. PICK t4, v4 : /\ a4 = [rc |-> "OK", s |-> t4, rest |-> q3]
                    /\ Keys(t3, t4, v4) /\ Sound(t4)
  BY <1>1, <1>5, ReadTokenDH
<1>7. PICK t5 : /\ a5 = [rc |-> "OK", s |-> t5, rest |-> q3]
                /\ KeysAndHashes(t4, t5, [psk |-> t4.psk]) /\ Sound(t5)
  <2>1. a5 = [rc |-> "OK", s |-> MixKeyAndHash(t4, [psk |-> t4.psk]), rest |-> q3]
    BY <1>1, <1>6, ReadTokenIs DEF ReadPsk
  <2> QED BY <1>6, <2>1, MixKeyAndHashKeys
<1>8. Keeps(s, t1) /\ Keeps(s, t2) /\ Keeps(s, t3) /\ Keeps(s, t4) /\ Keeps(s, t5)
  BY <1>3, <1>4, <1>5, <1>6, <1>7 DEF Ephemerals, Keys, KeysAndHashes, Hashes, Keeps
<1>9. t5.remoteEphemeral = t1.remoteEphemeral /\ t5.remoteStatic = AsKey(y.pt)
  BY <1>4, <1>5, <1>6, <1>7 DEF Remotes, Keys, KeysAndHashes
<1>10. Len(t2.hash) = 5 /\ t2.hash[1] = s.hash[1] /\ t2.hash[2] = s.hash[2]
  BY <1>0, <1>3, <1>4 DEF Ephemerals, Keys, Grows
<1>11. /\ Len(t2.ck) = 4 /\ t2.ck[1] = s.ck[1] /\ t2.ck[2] = s.ck[2]
       /\ t2.ck[3] = [key |-> t1.remoteEphemeral]
  BY <1>0, <1>3, <1>4 DEF Ephemerals, Keys, Grows
<1>12. Names(y, 5, t5, m, me)
  <2>1. Begins(t2.hash, XX, me)
    BY <1>0, <1>10 DEF Begins, XX, KK
  <2>2. t2.pin = me.pin
    BY <1>0, <1>8 DEF Keeps
  <2> QED BY <1>4, <1>5, <1>9, <1>10, <2>1, <2>2 DEF Names, ReadAs, Sound
<1>13. Len(t4.hash) = 6 /\ t4.hash[1] = s.hash[1] /\ t4.hash[2] = s.hash[2]
  BY <1>5, <1>6, <1>10 DEF Hashes, Keys, Grows
<1>14. /\ Len(t4.ck) = 5 /\ t4.ck[1] = s.ck[1] /\ t4.ck[2] = s.ck[2]
       /\ t4.ck[3] = [key |-> t1.remoteEphemeral]
  BY <1>5, <1>6, <1>11 DEF Hashes, Keys, Grows
<1>15. /\ Len(t5.hash) = 7 /\ t5.hash[1] = s.hash[1] /\ t5.hash[2] = s.hash[2]
       /\ t5.hash[7] = [derived |-> t5.ck]
  BY <1>7, <1>13 DEF KeysAndHashes, Grows
<1>16. /\ Len(t5.ck) = 6 /\ t5.ck[1] = s.ck[1] /\ t5.ck[2] = s.ck[2]
       /\ t5.ck[3] = [key |-> t1.remoteEphemeral] /\ t5.ck[6] = [psk |-> me.psk]
  BY <1>0, <1>7, <1>8, <1>14 DEF KeysAndHashes, Grows, Keeps
<1>17. Begins(t5.hash, XX, me)
  BY <1>0, <1>15, <1>16 DEF Begins, XX, KK
<1>18. Chains(t5.ck, XX, 2, me, t5.remoteEphemeral)
  BY <1>0, <1>7, <1>9, <1>16 DEF Chains, CkLen, EphBy, EphAt, Sound, XX, KK
<1>19. BeforePayload(t5, Row(XX, 7, FALSE, 1, 6, 3, 0, TRUE), me)
  BY <1>7, <1>15, <1>17, <1>18 DEF BeforePayload, Row, KeysAndHashes
<1> QED BY <1>1, <1>5, <1>7, <1>8, <1>12, <1>19

\* Third message of XX, as its responder reads it.
LEMMA ReadsXX2 ==
  ASSUME NEW s, NEW me, Shape(s, me), s.ready = FALSE, s.pattern = XX, s.step = 2,
         me.initiator = FALSE, NEW m, WellFormed(m), ReadTokens(s, m).rc = "OK"
  PROVE  \E t, rest, y :
           /\ ReadTokens(s, m) = [rc |-> "OK", s |-> t, rest |-> rest]
           /\ From(rest, m) /\ Keeps(s, t) /\ Names(y, 8, t, m, me)
           /\ BeforePayload(t, Row(XX, 9, TRUE, 2, 7, 2, 0, TRUE), me)
<1>0. /\ Sound(s) /\ s.pin = me.pin
      /\ Len(s.hash) = 8 /\ Len(s.ck) = 6 /\ s.ck[1] = [name |-> XX] /\ Begins(s.hash, XX, me)
      /\ s.ck[3] = [key |-> me.ephemeral] /\ s.ck[2] = [key |-> s.remoteEphemeral]
      /\ s.hasKey = TRUE /\ s.nonce \in Nat
  <2>1. Chains(s.ck, XX, 2, me, s.remoteEphemeral) /\ Len(s.hash) = HashLen(XX, 2)
    BY DEF Shape, Transcript, Running
  <2>2. s.hasKey = TRUE /\ s.nonce \in Nat
    BY DEF Shape, Running
  <2>3. Sound(s) /\ s.pin = me.pin /\ Begins(s.hash, XX, me)
    BY <2>1 DEF Shape, Identity, Transcript, Sound, Chains
  <2> QED BY <2>1, <2>2, <2>3 DEF Chains, HashLen, CkLen, EphBy, EphAt
<1>1. PICK a1, a2, a3, a4, a5 :
         /\ a1 = ReadToken([rc |-> "OK", s |-> s, rest |-> m], "s")
         /\ a2 = ReadToken(a1, "se") /\ a3 = ReadToken(a2, "end")
         /\ a4 = ReadToken(a3, "end") /\ a5 = ReadToken(a4, "end")
         /\ a1.rc = "OK" /\ a2.rc = "OK" /\ ReadTokens(s, m) = a5
  BY ReadTokensOK, TokensAre DEF Steps
<1>2. ReadTokens(s, m) = a2
  BY <1>1, ReadTokenEnds
<1>3. From(m, m)
  BY DEF From, ItemsOf, WellFormed
<1>4. PICK t1, q1, y : /\ a1 = [rc |-> "OK", s |-> t1, rest |-> q1] /\ From(q1, m)
                       /\ ReadAs(y, s, m) /\ Hashes(s, t1, [sealed |-> y], 1) /\ Sound(t1)
                       /\ t1.remoteStatic = AsKey(y.pt) /\ t1.remoteEphemeral = s.remoteEphemeral
                       /\ s.pin \in {NoPin, AsKey(y.pt)}
  <2>1. WellFormed(m)
    OBVIOUS
  <2>2. ReadToken([rc |-> "OK", s |-> s, rest |-> m], "s").rc = "OK"
    BY <1>1
  <2>3. PICK t, rest, y : ReadsStatic(s, m, t, rest, y, m)
    BY ONLY <1>0, <1>3, <2>1, <2>2, ReadingS
  <2> QED BY <1>1, <2>3 DEF ReadsStatic
<1>5. PICK t2, v2 : /\ a2 = [rc |-> "OK", s |-> t2, rest |-> q1]
                    /\ Keys(t1, t2, v2) /\ Sound(t2)
  BY <1>1, <1>4, ReadTokenDH
<1>6. Keeps(s, t2)
  BY <1>4, <1>5 DEF Keys, Hashes, Keeps
<1>7. t2.remoteEphemeral = s.remoteEphemeral /\ t2.remoteStatic = AsKey(y.pt)
  BY <1>4, <1>5 DEF Keys, Remotes
<1>8. Len(t2.hash) = 9 /\ \A i \in 1..8 : t2.hash[i] = s.hash[i]
  BY <1>0, <1>4, <1>5 DEF Hashes, Keys, Grows
<1>9. Len(t2.ck) = 7 /\ \A i \in 1..6 : t2.ck[i] = s.ck[i]
  BY <1>0, <1>4, <1>5 DEF Hashes, Keys, Grows
<1>10. Names(y, 8, t2, m, me)
  BY <1>0, <1>4, <1>7 DEF Names, ReadAs, Sound
<1>11. Begins(t2.hash, XX, me)
  BY <1>0, <1>8 DEF Begins, XX, KK
<1>12. Chains(t2.ck, XX, 3, me, t2.remoteEphemeral)
  BY <1>0, <1>5, <1>7, <1>9 DEF Chains, CkLen, EphBy, EphAt, Sound, XX, KK
<1>13. BeforePayload(t2, Row(XX, 9, TRUE, 2, 7, 2, 0, TRUE), me)
  BY <1>5, <1>8, <1>11, <1>12 DEF BeforePayload, Row, Keys
<1> QED BY <1>2, <1>4, <1>5, <1>6, <1>10, <1>13

\* First message of KK, as its responder reads it.
LEMMA ReadsKK0 ==
  ASSUME NEW s, NEW me, Shape(s, me), s.ready = FALSE, s.pattern = KK, s.step = 0,
         me.initiator = FALSE, NEW m, WellFormed(m), ReadTokens(s, m).rc = "OK"
  PROVE  \E t, rest :
           /\ ReadTokens(s, m) = [rc |-> "OK", s |-> t, rest |-> rest]
           /\ From(rest, m) /\ Keeps(s, t) /\ t.remoteStatic = s.remoteStatic
           /\ BeforePayload(t, Row(KK, 6, TRUE, 0, 5, 2, 0, TRUE), me)
<1>0. /\ Sound(s) /\ s.nonce \in Nat /\ s.psk = me.psk
      /\ Len(s.hash) = 4 /\ Len(s.ck) = 1 /\ s.ck[1] = [name |-> KK] /\ Begins(s.hash, KK, me)
  BY DEF Shape, Identity, Transcript, Running, Sound, Chains, HashLen, CkLen, EphBy, XX, KK
<1>1. PICK a1, a2, a3, a4, a5 :
         /\ a1 = ReadToken([rc |-> "OK", s |-> s, rest |-> m], "psk")
         /\ a2 = ReadToken(a1, "e") /\ a3 = ReadToken(a2, "es")
         /\ a4 = ReadToken(a3, "ss") /\ a5 = ReadToken(a4, "end")
         /\ a1.rc = "OK" /\ a2.rc = "OK" /\ a3.rc = "OK" /\ a4.rc = "OK"
         /\ ReadTokens(s, m) = a5
  BY ReadTokensOK, TokensAre DEF Steps, XX, KK
<1>2. ReadTokens(s, m) = a4
  BY <1>1, ReadTokenEnds
<1>3. From(m, m)
  BY DEF From, ItemsOf, WellFormed
<1>4. PICK t1 : /\ a1 = [rc |-> "OK", s |-> t1, rest |-> m]
                /\ KeysAndHashes(s, t1, [psk |-> me.psk]) /\ Sound(t1)
  <2>1. a1 = [rc |-> "OK", s |-> MixKeyAndHash(s, [psk |-> me.psk]), rest |-> m]
    BY <1>0, <1>1, ReadTokenIs DEF ReadPsk
  <2> QED BY <1>0, <2>1, MixKeyAndHashKeys
<1>5. PICK t2, q2 : /\ a2 = [rc |-> "OK", s |-> t2, rest |-> q2] /\ From(q2, m)
                    /\ Ephemerals(t1, t2, [key |-> t2.remoteEphemeral]) /\ Sound(t2)
                    /\ t2.remoteStatic = t1.remoteStatic
  <2>1. t1.nonce \in Nat
    BY <1>4 DEF KeysAndHashes
  <2>2. ReadToken([rc |-> "OK", s |-> t1, rest |-> m], "e").rc = "OK"
    BY <1>1, <1>4
  <2>3. PICK t, rest : ReadsEphemeral(t1, m, t, rest, m)
    BY ONLY <1>3, <1>4, <2>1, <2>2, ReadingE
  <2> QED BY <1>1, <1>4, <2>3 DEF ReadsEphemeral
<1> DEFINE e == [key |-> t2.remoteEphemeral]
<1>6. PICK t3, v3 : /\ a3 = [rc |-> "OK", s |-> t3, rest |-> q2]
                    /\ Keys(t2, t3, v3) /\ Sound(t3)
  BY <1>1, <1>5, ReadTokenDH
<1>7. PICK t4, v4 : /\ a4 = [rc |-> "OK", s |-> t4, rest |-> q2]
                    /\ Keys(t3, t4, v4) /\ Sound(t4)
  BY <1>1, <1>6, ReadTokenDH
<1>8. Keeps(s, t4)
  BY <1>4, <1>5, <1>6, <1>7 DEF KeysAndHashes, Ephemerals, Keys, Keeps
<1>9. t4.remoteStatic = s.remoteStatic /\ t4.remoteEphemeral = t2.remoteEphemeral
  BY <1>4, <1>5, <1>6, <1>7 DEF KeysAndHashes, Keys, Remotes
<1>10. /\ Len(t1.hash) = 5 /\ t1.hash[5] = [derived |-> t1.ck]
       /\ \A i \in 1..4 : t1.hash[i] = s.hash[i]
  BY <1>0, <1>4 DEF KeysAndHashes, Grows
<1>11. Len(t1.ck) = 2 /\ t1.ck[1] = s.ck[1] /\ t1.ck[2] = [psk |-> me.psk]
  BY <1>0, <1>4 DEF KeysAndHashes, Grows
<1>12. Len(t2.ck) = 3 /\ t2.ck[1] = s.ck[1] /\ t2.ck[3] = e
  BY <1>5, <1>11 DEF Ephemerals, Grows
<1>13. Len(t3.ck) = 4 /\ t3.ck[1] = s.ck[1] /\ t3.ck[3] = e
  BY <1>6, <1>12 DEF Keys, Grows
<1>14. Len(t4.ck) = 5 /\ t4.ck[1] = s.ck[1] /\ t4.ck[3] = e
  BY <1>7, <1>13 DEF Keys, Grows
<1>15. /\ Len(t4.hash) = 6 /\ t4.hash[5] = [derived |-> t1.ck]
       /\ \A i \in 1..4 : t4.hash[i] = s.hash[i]
  BY <1>5, <1>6, <1>7, <1>10 DEF Ephemerals, Keys, Grows
<1>16. Begins(t4.hash, KK, me)
  BY <1>0, <1>11, <1>15 DEF Begins, XX, KK
<1>17. Chains(t4.ck, KK, 1, me, t4.remoteEphemeral)
  BY <1>0, <1>7, <1>9, <1>14 DEF Chains, CkLen, EphBy, EphAt, Sound, XX, KK
<1>18. BeforePayload(t4, Row(KK, 6, TRUE, 0, 5, 2, 0, TRUE), me)
  BY <1>7, <1>15, <1>16, <1>17 DEF BeforePayload, Row, Keys
<1> QED BY <1>2, <1>5, <1>7, <1>8, <1>9, <1>18

\* Second message of KK, as its initiator reads it.
LEMMA ReadsKK1 ==
  ASSUME NEW s, NEW me, Shape(s, me), s.ready = FALSE, s.pattern = KK, s.step = 1,
         me.initiator = TRUE, NEW m, WellFormed(m), ReadTokens(s, m).rc = "OK"
  PROVE  \E t, rest :
           /\ ReadTokens(s, m) = [rc |-> "OK", s |-> t, rest |-> rest]
           /\ From(rest, m) /\ Keeps(s, t) /\ t.remoteStatic = s.remoteStatic
           /\ BeforePayload(t, Row(KK, 8, FALSE, 1, 8, 2, 0, TRUE), me)
<1>0. /\ Sound(s) /\ s.nonce \in Nat
      /\ Len(s.hash) = 7 /\ Len(s.ck) = 5 /\ s.ck[1] = [name |-> KK] /\ Begins(s.hash, KK, me)
      /\ s.ck[3] = [key |-> me.ephemeral]
  BY DEF Shape, Identity, Transcript, Running, Sound, Chains, HashLen, CkLen, EphBy, EphAt, XX, KK
<1>1. PICK a1, a2, a3, a4, a5 :
         /\ a1 = ReadToken([rc |-> "OK", s |-> s, rest |-> m], "e")
         /\ a2 = ReadToken(a1, "ee") /\ a3 = ReadToken(a2, "se")
         /\ a4 = ReadToken(a3, "end") /\ a5 = ReadToken(a4, "end")
         /\ a1.rc = "OK" /\ a2.rc = "OK" /\ a3.rc = "OK"
         /\ ReadTokens(s, m) = a5
  BY ReadTokensOK, TokensAre DEF Steps, XX, KK
<1>2. ReadTokens(s, m) = a3
  BY <1>1, ReadTokenEnds
<1>3. From(m, m)
  BY DEF From, ItemsOf, WellFormed
<1>4. PICK t1, q1 : /\ a1 = [rc |-> "OK", s |-> t1, rest |-> q1] /\ From(q1, m)
                    /\ Ephemerals(s, t1, [key |-> t1.remoteEphemeral]) /\ Sound(t1)
                    /\ t1.remoteStatic = s.remoteStatic
  <2>1. ReadToken([rc |-> "OK", s |-> s, rest |-> m], "e").rc = "OK"
    BY <1>1
  <2>2. PICK t, rest : ReadsEphemeral(s, m, t, rest, m)
    BY ONLY <1>0, <1>3, <2>1, ReadingE
  <2> QED BY <1>1, <2>2 DEF ReadsEphemeral
<1> DEFINE e == [key |-> t1.remoteEphemeral]
<1>5. PICK t2, v2 : /\ a2 = [rc |-> "OK", s |-> t2, rest |-> q1]
                    /\ Keys(t1, t2, v2) /\ Sound(t2)
  BY <1>1, <1>4, ReadTokenDH
<1>6. PICK t3, v3 : /\ a3 = [rc |-> "OK", s |-> t3, rest |-> q1]
                    /\ Keys(t2, t3, v3) /\ Sound(t3)
  BY <1>1, <1>5, ReadTokenDH
<1>7. Keeps(s, t3)
  BY <1>4, <1>5, <1>6 DEF Ephemerals, Keys, Keeps
<1>8. t3.remoteStatic = s.remoteStatic /\ t3.remoteEphemeral = t1.remoteEphemeral
  BY <1>4, <1>5, <1>6 DEF Keys, Remotes
<1>9. Len(t3.hash) = 8 /\ \A i \in 1..7 : t3.hash[i] = s.hash[i]
  BY <1>0, <1>4, <1>5, <1>6 DEF Ephemerals, Keys, Grows
<1>10. Len(t1.ck) = 6 /\ t1.ck[1] = s.ck[1] /\ t1.ck[3] = s.ck[3] /\ t1.ck[6] = e
  BY <1>0, <1>4 DEF Ephemerals, Grows
<1>11. Len(t2.ck) = 7 /\ t2.ck[1] = s.ck[1] /\ t2.ck[3] = s.ck[3] /\ t2.ck[6] = e
  BY <1>5, <1>10 DEF Keys, Grows
<1>12. Len(t3.ck) = 8 /\ t3.ck[1] = s.ck[1] /\ t3.ck[3] = s.ck[3] /\ t3.ck[6] = e
  BY <1>6, <1>11 DEF Keys, Grows
<1>13. Begins(t3.hash, KK, me)
  BY <1>0, <1>9 DEF Begins, XX, KK
<1>14. Chains(t3.ck, KK, 2, me, t3.remoteEphemeral)
  BY <1>0, <1>6, <1>8, <1>12 DEF Chains, CkLen, EphBy, EphAt, Sound, XX, KK
<1>15. BeforePayload(t3, Row(KK, 8, FALSE, 1, 8, 2, 0, TRUE), me)
  BY <1>6, <1>9, <1>13, <1>14 DEF BeforePayload, Row, Keys
<1> QED BY <1>2, <1>4, <1>6, <1>7, <1>8, <1>15

\* What a reader has learnt of its peer's static key in that step.
Heard(s, t, y, m, me) ==
  /\ s.pattern = XX /\ s.step = 1 => Names(y, 5, t, m, me)
  /\ s.pattern = XX /\ s.step = 2 => Names(y, 8, t, m, me)
  /\ s.pattern = KK => t.remoteStatic = s.remoteStatic
\* The payload in that row comes next, and the reader is not its writer.
Expects(s, row, me) ==
  /\ row \in Rows /\ row.payload = TRUE /\ row.pattern = s.pattern /\ row.step = s.step
  /\ row.initiator # me.initiator
ReadsUpTo(s, t, rest, y, row, m, me) ==
  /\ ReadTokens(s, m) = [rc |-> "OK", s |-> t, rest |-> rest]
  /\ From(rest, m) /\ Keeps(s, t) /\ BeforePayload(t, row, me) /\ Heard(s, t, y, m, me)
  /\ Expects(s, row, me)

\* The tokens of any step that is read: the five cases above in one statement.
LEMMA ReadsWords ==
  ASSUME NEW s, NEW me, Shape(s, me), me.initiator \in BOOLEAN, InHandshake(s), ~TurnToWrite(s),
         NEW m, WellFormed(m), ReadTokens(s, m).rc = "OK"
  PROVE  \E t, rest, y, row : ReadsUpTo(s, t, rest, y, row, m, me)
<1> DEFINE Goal == \E t, rest, y, row : ReadsUpTo(s, t, rest, y, row, m, me)
<1> SUFFICES Goal
  OBVIOUS
<1>0. /\ s.ready = FALSE
      /\ \/ s.pattern = XX /\ s.step \in 0..2
         \/ s.pattern = KK /\ s.step \in 0..1
      /\ s.step = 1 => me.initiator = TRUE
      /\ s.step # 1 => me.initiator = FALSE
  BY Turns
<1>1. ASSUME s.pattern = XX, s.step = 0 PROVE Goal
  <2> DEFINE row == Row(XX, 3, TRUE, 0, 2, 2, 0, TRUE)
  <2>1. row \in Rows /\ row.payload = TRUE /\ row.pattern = XX /\ row.step = 0 /\ row.initiator = TRUE
    BY DEF Rows, Row
  <2>2. me.initiator = FALSE
    BY <1>0, <1>1
  <2>3. PICK t, rest : /\ ReadTokens(s, m) = [rc |-> "OK", s |-> t, rest |-> rest]
                       /\ From(rest, m) /\ Keeps(s, t) /\ BeforePayload(t, row, me)
    BY <1>0, <1>1, <2>2, ReadsXX0
  <2> HIDE DEF row
  <2>4. Heard(s, t, 0, m, me)
    BY <1>1 DEF Heard, XX, KK
  <2>5. Expects(s, row, me)
    BY <1>1, <2>1, <2>2 DEF Expects
  <2>6. ReadsUpTo(s, t, rest, 0, row, m, me)
    BY <2>3, <2>4, <2>5 DEF ReadsUpTo
  <2> QED BY <2>6
<1>2. ASSUME s.pattern = XX, s.step = 1 PROVE Goal
  <2> DEFINE row == Row(XX, 7, FALSE, 1, 6, 3, 0, TRUE)
  <2>1. row \in Rows /\ row.payload = TRUE /\ row.pattern = XX /\ row.step = 1 /\ row.initiator = FALSE
    BY DEF Rows, Row
  <2>2. me.initiator = TRUE
    BY <1>0, <1>2
  <2>3. PICK t, rest, y : /\ ReadTokens(s, m) = [rc |-> "OK", s |-> t, rest |-> rest]
                          /\ From(rest, m) /\ Keeps(s, t) /\ Names(y, 5, t, m, me)
                          /\ BeforePayload(t, row, me)
    BY <1>0, <1>2, <2>2, ReadsXX1
  <2> HIDE DEF row
  <2>4. Heard(s, t, y, m, me)
    BY <1>2, <2>3 DEF Heard, XX, KK
  <2>5. Expects(s, row, me)
    BY <1>2, <2>1, <2>2 DEF Expects
  <2>6. ReadsUpTo(s, t, rest, y, row, m, me)
    BY <2>3, <2>4, <2>5 DEF ReadsUpTo
  <2> QED BY <2>6
<1>3. ASSUME s.pattern = XX, s.step = 2 PROVE Goal
  <2> DEFINE row == Row(XX, 9, TRUE, 2, 7, 2, 0, TRUE)
  <2>1. row \in Rows /\ row.payload = TRUE /\ row.pattern = XX /\ row.step = 2 /\ row.initiator = TRUE
    BY DEF Rows, Row
  <2>2. me.initiator = FALSE
    BY <1>0, <1>3
  <2>3. PICK t, rest, y : /\ ReadTokens(s, m) = [rc |-> "OK", s |-> t, rest |-> rest]
                          /\ From(rest, m) /\ Keeps(s, t) /\ Names(y, 8, t, m, me)
                          /\ BeforePayload(t, row, me)
    BY <1>0, <1>3, <2>2, ReadsXX2
  <2> HIDE DEF row
  <2>4. Heard(s, t, y, m, me)
    BY <1>3, <2>3 DEF Heard, XX, KK
  <2>5. Expects(s, row, me)
    BY <1>3, <2>1, <2>2 DEF Expects
  <2>6. ReadsUpTo(s, t, rest, y, row, m, me)
    BY <2>3, <2>4, <2>5 DEF ReadsUpTo
  <2> QED BY <2>6
<1>4. ASSUME s.pattern = KK, s.step = 0 PROVE Goal
  <2> DEFINE row == Row(KK, 6, TRUE, 0, 5, 2, 0, TRUE)
  <2>1. row \in Rows /\ row.payload = TRUE /\ row.pattern = KK /\ row.step = 0 /\ row.initiator = TRUE
    BY DEF Rows, Row
  <2>2. me.initiator = FALSE
    BY <1>0, <1>4
  <2>3. PICK t, rest : /\ ReadTokens(s, m) = [rc |-> "OK", s |-> t, rest |-> rest]
                       /\ From(rest, m) /\ Keeps(s, t) /\ t.remoteStatic = s.remoteStatic
                       /\ BeforePayload(t, row, me)
    BY <1>0, <1>4, <2>2, ReadsKK0
  <2> HIDE DEF row
  <2>4. Heard(s, t, 0, m, me)
    BY <1>4, <2>3 DEF Heard, XX, KK
  <2>5. Expects(s, row, me)
    BY <1>4, <2>1, <2>2 DEF Expects
  <2>6. ReadsUpTo(s, t, rest, 0, row, m, me)
    BY <2>3, <2>4, <2>5 DEF ReadsUpTo
  <2> QED BY <2>6
<1>5. ASSUME s.pattern = KK, s.step = 1 PROVE Goal
  <2> DEFINE row == Row(KK, 8, FALSE, 1, 8, 2, 0, TRUE)
  <2>1. row \in Rows /\ row.payload = TRUE /\ row.pattern = KK /\ row.step = 1 /\ row.initiator = FALSE
    BY DEF Rows, Row
  <2>2. me.initiator = TRUE
    BY <1>0, <1>5
  <2>3. PICK t, rest : /\ ReadTokens(s, m) = [rc |-> "OK", s |-> t, rest |-> rest]
                       /\ From(rest, m) /\ Keeps(s, t) /\ t.remoteStatic = s.remoteStatic
                       /\ BeforePayload(t, row, me)
    BY <1>0, <1>5, <2>2, ReadsKK1
  <2> HIDE DEF row
  <2>4. Heard(s, t, 0, m, me)
    BY <1>5, <2>3 DEF Heard, XX, KK
  <2>5. Expects(s, row, me)
    BY <1>5, <2>1, <2>2 DEF Expects
  <2>6. ReadsUpTo(s, t, rest, 0, row, m, me)
    BY <2>3, <2>4, <2>5 DEF ReadsUpTo
  <2> QED BY <2>6
<1> HIDE DEF Goal
<1>6. s.pattern = XX => s.step \in {0, 1, 2}
  BY <1>0 DEF XX, KK
<1>7. s.pattern = KK => s.step \in {0, 1}
  BY <1>0 DEF XX, KK
<1> QED BY <1>0, <1>1, <1>2, <1>3, <1>4, <1>5, <1>6, <1>7

\* A read took the payload x, sealed under the reader's own transcript, out of m.
ReadStep(s, r, x, y, row, m, me) ==
  /\ Expects(s, row, me) /\ s.ready = FALSE
  /\ Holds(m, x) /\ IsSeq(x.ad) /\ Len(x.ad) = row.len /\ Begins(x.ad, row.pattern, me)
  /\ x.n = 0
  /\ Shape(r, me) /\ r.step = s.step + 1 /\ r.pattern = s.pattern
  /\ r.sendNonce = 0 /\ r.receiveNonce = 0
  /\ r.hash = Append(x.ad, [sealed |-> x]) /\ LastSeal(r.hash) = x
  /\ Heard(s, r, y, m, me)
  /\ r.ready <=> s.step + 1 = Steps(s.pattern)

\* What a read may come to.
Reads(s, r, m, me) == \/ r.s = Dead /\ r.rc # "OK"
                      \/ \E x, y, row : ReadStep(s, r.s, x, y, row, m, me)

\* thalovant_noise_read_message(): it refuses and changes nothing, it fails the
\* session, or the message holds the ciphertexts of this very step and it moves
\* to the next.
LEMMA NoiseReadDoes ==
  ASSUME NEW s, NEW me, Shape(s, me), me.initiator \in BOOLEAN,
         NEW m, WellFormed(m), NEW capacity
  PROVE  Reads(s, NoiseRead(s, m, capacity), m, me)
<1> DEFINE r == NoiseRead(s, m, capacity)
<1> DEFINE read == ReadTokens(s, m)
<1> DEFINE item == IF Len(read.rest) = 1 THEN Head(read.rest).item ELSE [key |-> GarbageKey]
<1> DEFINE opened == DecryptHash(read.s, item)
<1> DEFINE Good == /\ InHandshake(s) /\ ~TurnToWrite(s) /\ read.rc = "OK"
                   /\ ~(Size(read.rest) < TagSize(read.s))
                   /\ ~(capacity < Size(read.rest) - TagSize(read.s)) /\ opened.rc = "OK"
<1>1. ASSUME ~Good PROVE r.s = Dead /\ r.rc # "OK"
  <2> HIDE DEF read
  <2>1. \E rc : r = Failure(rc) /\ rc # "OK"
    <3>1. CASE ~InHandshake(s) \/ TurnToWrite(s)
      BY <3>1 DEF NoiseRead
    <3>2. CASE InHandshake(s) /\ ~TurnToWrite(s)
      <4>1. r = IF read.rc # "OK" THEN Failure(read.rc)
                ELSE IF Size(read.rest) < TagSize(read.s) THEN Failure("AUTH")
                ELSE IF capacity < Size(read.rest) - TagSize(read.s) THEN Failure("NOMEM")
                ELSE IF opened.rc # "OK" THEN Failure(opened.rc)
                ELSE [rc |-> "OK", s |-> Split(opened.s), out |-> opened.pt]
        BY <3>2 DEF NoiseRead, read
      <4> HIDE DEF r, opened
      <4> QED BY <1>1, <3>2, <4>1
    <3> QED BY <3>1, <3>2
  <2> HIDE DEF r
  <2> QED BY <2>1 DEF Failure, Dead
<1>2. ASSUME Good PROVE \E x, y, row : ReadStep(s, r.s, x, y, row, m, me)
  <2>1. s.ready = FALSE
    BY <1>2, Turns
  <2>2. r.s = Split(opened.s)
    BY <1>2 DEF NoiseRead
  <2>3. PICK t, rest, y, row : ReadsUpTo(s, t, rest, y, row, m, me)
    BY <1>2, ReadsWords
  <2>4. read.s = t /\ read.rest = rest
    BY <2>3 DEF ReadsUpTo
  <2>5. item \in ItemsOf(m)
    <3>1. CASE Len(rest) = 1
      <4>1. IsSeq(rest) /\ rest[1].item \in ItemsOf(m)
        BY <2>3, <3>1 DEF ReadsUpTo, From
      <4>2. Head(rest) = rest[1]
        BY <3>1, <4>1, HeadTail
      <4> QED BY <2>4, <3>1, <4>1, <4>2
    <3>2. CASE Len(rest) # 1
      BY <2>4, <3>2 DEF ItemsOf
    <3> QED BY <3>1, <3>2
  <2> HIDE DEF item, read
  <2>6. "sealed" \in DOMAIN item => IsSealed(item) /\ Holds(m, item.sealed)
    BY <2>5 DEF ItemsOf, WellFormed, Holds, IsPure, IsSealed
  <2> DEFINE x == item.sealed
  <2>7. t.hasKey = TRUE /\ t.nonce \in Nat /\ Sound(t) /\ row.n = 0
    <3>1. row.n = 0
      BY <2>3, PayloadRows DEF ReadsUpTo, Expects
    <3> QED BY <2>3, <3>1 DEF ReadsUpTo, BeforePayload
  <2>8. IsPure(item)
    BY <2>6 DEF IsPure
  <2> DEFINE u == DecryptHash(t, item).s
  <2>9. DecryptHash(t, item).rc = "OK" /\ r.s = Split(u)
    BY <1>2, <2>2, <2>4
  <2>10. /\ IsSealed(item) /\ x.k = t.key /\ x.n = t.nonce /\ x.ad = t.hash
         /\ Hashes(t, u, item, 1) /\ Remotes(t, u) /\ Sound(u)
         /\ u.hash = Append(t.hash, item)
    BY ONLY <2>7, <2>8, <2>9, DecryptHashOpens
  <2>11. Holds(m, x) /\ item = [sealed |-> x]
    <3>1. item = [sealed |-> x]
      BY <2>10 DEF IsSealed
    <3>2. "sealed" \in DOMAIN item
      BY <3>1
    <3> QED BY <2>6, <3>1, <3>2
  <2> HIDE DEF x, u, r, opened
  <2>12. s.pattern = KK => t.remoteStatic = me.pin
    BY <2>3 DEF ReadsUpTo, Heard, Shape, Identity
  <2>13. LET w == Split(u)
         IN /\ Shape(w, me) /\ w.step = s.step + 1 /\ w.pattern = s.pattern
            /\ Remotes(t, w) /\ w.hash = u.hash /\ LastSeal(w.hash) = x
            /\ w.sendNonce = 0 /\ w.receiveNonce = 0
            /\ w.ready <=> s.step + 1 = Steps(s.pattern)
    <3>1. /\ Keeps(s, t) /\ row \in Rows /\ row.payload = TRUE /\ row.pattern = s.pattern
          /\ row.step = s.step /\ BeforePayload(t, row, me)
      BY <2>3 DEF ReadsUpTo, Expects
    <3>2. /\ x.k = t.key /\ x.n = t.nonce /\ x.ad = t.hash
          /\ Hashes(t, u, [sealed |-> x], 1) /\ Remotes(t, u) /\ Sound(u)
          /\ u.hash = Append(t.hash, [sealed |-> x])
      BY <2>10, <2>11
    <3>3. Shape(s, me)
      OBVIOUS
    <3> QED BY ONLY <2>1, <2>12, <3>1, <3>2, <3>3, SplitShapes
  <2>14. Heard(s, r.s, y, m, me)
    <3>1. r.s.remoteStatic = t.remoteStatic
      BY <2>9, <2>13 DEF Remotes
    <3> QED BY <2>3, <3>1 DEF ReadsUpTo, Heard, Names
  <2>15. IsSeq(x.ad) /\ Len(x.ad) = row.len /\ Begins(x.ad, row.pattern, me) /\ x.n = 0
    BY <2>3, <2>7, <2>10 DEF ReadsUpTo, BeforePayload, Sound
  <2>16. r.s.hash = Append(x.ad, [sealed |-> x])
    BY <2>9, <2>10, <2>11, <2>13
  <2>17. Expects(s, row, me)
    BY <2>3 DEF ReadsUpTo
  <2>18. ReadStep(s, r.s, x, y, row, m, me)
    BY <2>1, <2>9, <2>11, <2>13, <2>14, <2>15, <2>16, <2>17 DEF ReadStep
  <2> QED BY <2>18
<1> HIDE DEF r, Good
<1>3. Reads(s, r, m, me)
  BY <1>1, <1>2 DEF Reads
<1> QED BY <1>3 DEF r

-----------------------------------------------------------------------------
(* The other calls. *)

\* No call revives a session that failed or was never opened.
LEMMA DeadStays ==
  ASSUME NEW s \in {Zeroed, Dead}, NEW x, NEW y, NEW z
  PROVE  /\ NoiseWrite(s, x, y, z) = Failure("INVALID")
         /\ NoiseRead(s, x, y) = Failure("INVALID")
         /\ NoiseEncrypt(s, x, y, z) = Failure("INVALID")
         /\ NoiseDecrypt(s, x, y) = Failure("INVALID")
         /\ Failure("INVALID").s = Dead /\ Failure("INVALID").out = <<>>
         /\ Failure("INVALID").rc = "INVALID"
<1>1. s.pattern = "none" /\ s.ready = FALSE
  BY DEF Zeroed, Dead
<1>2. ~InHandshake(s)
  BY <1>1 DEF InHandshake, XX, KK
<1>3. NoiseWrite(s, x, y, z) = Failure("INVALID") /\ NoiseRead(s, x, y) = Failure("INVALID")
  BY <1>2 DEF NoiseWrite, NoiseRead
<1>4. NoiseEncrypt(s, x, y, z) = Failure("INVALID") /\ NoiseDecrypt(s, x, y) = Failure("INVALID")
  BY <1>1 DEF NoiseEncrypt, NoiseDecrypt
<1>5. /\ Failure("INVALID").s = Dead /\ Failure("INVALID").out = <<>>
      /\ Failure("INVALID").rc = "INVALID"
  BY DEF Failure, Dead
<1> QED BY <1>3, <1>4, <1>5

\* Two pieces after two pieces.
LEMMA TwoAndTwo ==
  ASSUME NEW a, NEW b, NEW c, NEW d
  PROVE  LET q == <<a, b>> \o <<c, d>>
         IN IsSeq(q) /\ Len(q) = 4 /\ q[1] = a /\ q[2] = b /\ q[3] = c /\ q[4] = d
<1> DEFINE S == {a, b, c, d}
<1> DEFINE q == <<a, b>> \o <<c, d>>
<1>1. <<a, b>> \in Seq(S) /\ <<c, d>> \in Seq(S)
  OBVIOUS
<1>2. q \in Seq(S)
  BY <1>1
<1>3. Len(q) = 4 /\ q[1] = a /\ q[2] = b /\ q[3] = c /\ q[4] = d
  OBVIOUS
<1> HIDE DEF q
<1>4. IsSeq(q)
  BY <1>2 DEF IsSeq
<1> QED BY <1>3, <1>4 DEF q

\* A session just opened, or refused for want of a pin.
LEMMA NoiseInitShapes ==
  ASSUME NEW pattern \in {XX, KK}, NEW me
  PROVE  LET r == NoiseInit(pattern, me.initiator, me.psk, me.prologue, me.static,
                            me.ephemeral, me.pin)
         IN \/ r.s = Dead
            \/ Shape(r.s, me) /\ r.s.step = 0 /\ r.s.ready = FALSE /\ r.s.pattern = pattern
<1> DEFINE r == NoiseInit(pattern, me.initiator, me.psk, me.prologue, me.static,
                          me.ephemeral, me.pin)
<1> DEFINE two == <<[name |-> pattern], [prologue |-> me.prologue]>>
<1> DEFINE more == IF me.initiator THEN <<[key |-> me.static], [key |-> me.pin]>>
                                   ELSE <<[key |-> me.pin], [key |-> me.static]>>
<1> DEFINE one == <<[name |-> pattern]>>
<1> DEFINE s == [Zeroed EXCEPT
              !.pattern = pattern, !.initiator = me.initiator, !.psk = me.psk,
              !.localStatic = me.static, !.localPublic = me.static, !.ephemeral = me.ephemeral,
              !.pin = me.pin,
              !.remoteStatic = IF pattern = KK THEN me.pin ELSE ZeroKey,
              !.hash = two, !.ck = one]
<1> DEFINE t == [s EXCEPT !.hash = two \o more]
<1>1. r = IF pattern = KK /\ me.pin = NoPin THEN Failure("INVALID")
          ELSE [rc |-> "OK", out |-> <<>>, s |-> IF pattern = KK THEN t ELSE s]
  BY DEF NoiseInit
<1> DEFINE hash == IF pattern = KK THEN two \o more ELSE two
<1>2. IsSeq(one) /\ Len(one) = 1 /\ one[1] = [name |-> pattern]
  BY DEF IsSeq
<1>3. /\ IsSeq(two) /\ Len(two) = 2
      /\ two[1] = [name |-> pattern] /\ two[2] = [prologue |-> me.prologue]
  BY DEF IsSeq
<1>4. /\ IsSeq(two \o more) /\ Len(two \o more) = 4
      /\ (two \o more)[1] = [name |-> pattern] /\ (two \o more)[2] = [prologue |-> me.prologue]
      /\ (two \o more)[3] = [key |-> InitiatorStatic(me)]
      /\ (two \o more)[4] = [key |-> ResponderStatic(me)]
  <2>1. \/ more = <<[key |-> InitiatorStatic(me)], [key |-> ResponderStatic(me)]>>
    BY DEF InitiatorStatic, ResponderStatic
  <2> QED BY <2>1, TwoAndTwo
<1>5. IsSeq(hash) /\ Len(hash) = HashLen(pattern, 0) /\ Begins(hash, pattern, me)
  BY <1>3, <1>4 DEF HashLen, Begins, XX, KK
<1> HIDE DEF one, hash
<1>6. CASE pattern = KK /\ me.pin = NoPin
  BY <1>1, <1>6 DEF Failure, Dead
<1>7. CASE ~(pattern = KK /\ me.pin = NoPin)
  <2> DEFINE u == r.s
  <2>1. \/ pattern = KK /\ u = [s EXCEPT !.hash = hash]
        \/ pattern # KK /\ u = s /\ hash = two
    <3>1. CASE pattern = KK
      <4>1. u = t /\ hash = two \o more
        BY <1>1, <1>7, <3>1 DEF hash
      <4> HIDE DEF s, two, more, u
      <4> QED BY <3>1, <4>1
    <3>2. CASE pattern # KK
      <4>1. u = s /\ hash = two
        BY <1>1, <1>7, <3>2 DEF hash
      <4> QED BY <3>2, <4>1
    <3> QED BY <3>1, <3>2
  <2> HIDE DEF u, r, t, two, more
  <2>2. /\ IsState(u) /\ u.failed = FALSE /\ u.pattern = pattern /\ u.step = 0 /\ u.ready = FALSE
        /\ u.initiator = me.initiator /\ u.localPublic = me.static /\ u.pin = me.pin
        /\ u.ephemeral = me.ephemeral /\ u.psk = me.psk /\ u.nonce = 0 /\ u.hasKey = FALSE
    <3>1. /\ IsState(s) /\ s.failed = FALSE /\ s.pattern = pattern /\ s.step = 0 /\ s.ready = FALSE
          /\ s.initiator = me.initiator /\ s.localPublic = me.static /\ s.pin = me.pin
          /\ s.ephemeral = me.ephemeral /\ s.psk = me.psk /\ s.nonce = 0 /\ s.hasKey = FALSE
      BY DEF IsState, Zeroed
    <3> HIDE DEF s
    <3> QED BY <2>1, <3>1 DEF IsState, Zeroed
  <2>3. /\ u.sendNonce = 0 /\ u.receiveNonce = 0 /\ u.hash = hash /\ u.ck = one
        /\ pattern = KK => u.remoteStatic = me.pin
    <3>1. /\ IsState(s) /\ s.sendNonce = 0 /\ s.receiveNonce = 0 /\ s.hash = two /\ s.ck = one
          /\ pattern = KK => s.remoteStatic = me.pin
      BY DEF IsState, Zeroed
    <3> HIDE DEF s
    <3> QED BY <2>1, <3>1 DEF IsState, Zeroed
  <2>4. Identity(u, me)
    <3>1. Steps(pattern) \in {2, 3}
      BY DEF Steps
    <3>2. pattern = KK => me.pin # NoPin /\ u.remoteStatic = me.pin
      BY <1>7, <2>3
    <3>3. u.step \in 0..Steps(u.pattern) /\ u.step # Steps(u.pattern)
      BY <2>2, <3>1
    <3> QED BY <2>2, <3>2, <3>3 DEF Identity
  <2>5. Transcript(u, me)
    BY <1>5, <2>2, <2>3 DEF Transcript
  <2>6. Running(u, me)
    BY <1>2, <2>2, <2>3 DEF Running, Chains, CkLen, EphBy
  <2>7. Shape(u, me) /\ u.step = 0 /\ u.ready = FALSE /\ u.pattern = pattern
    BY <2>2, <2>4, <2>5, <2>6 DEF Shape
  <2> QED BY <2>7 DEF u, r
<1> QED BY <1>6, <1>7

\* t is the ready s but for the transport counters.
Counts(s, t, sent, got) ==
  /\ s.ready = TRUE /\ t.ready = TRUE /\ t.failed = FALSE
  /\ t.pattern = s.pattern /\ t.step = s.step /\ t.initiator = s.initiator
  /\ t.hash = s.hash /\ Remotes(s, t) /\ t.sendKey = s.sendKey /\ t.receiveKey = s.receiveKey
  /\ t.sendNonce = s.sendNonce + sent /\ t.receiveNonce = s.receiveNonce + got

\* Counting a frame keeps everything else of a session.
LEMMA CountingKeepsShape ==
  ASSUME NEW s, NEW me, Shape(s, me), s.ready = TRUE
  PROVE  /\ LET t == [s EXCEPT !.sendNonce = @ + 1] IN Shape(t, me) /\ Counts(s, t, 1, 0)
         /\ LET t == [s EXCEPT !.receiveNonce = @ + 1] IN Shape(t, me) /\ Counts(s, t, 0, 1)
<1>1. ASSUME NEW t, t = [s EXCEPT !.sendNonce = @ + 1] \/ t = [s EXCEPT !.receiveNonce = @ + 1]
      PROVE  /\ Shape(t, me)
             /\ s.ready = TRUE /\ t.ready = TRUE /\ t.failed = FALSE
             /\ t.pattern = s.pattern /\ t.step = s.step /\ t.initiator = s.initiator
             /\ t.hash = s.hash /\ Remotes(s, t) /\ t.sendKey = s.sendKey
             /\ t.receiveKey = s.receiveKey
  <2>1. /\ IsState(t) /\ t.ready = TRUE /\ t.failed = FALSE
        /\ t.pattern = s.pattern /\ t.step = s.step /\ t.initiator = s.initiator
        /\ t.localPublic = s.localPublic /\ t.pin = s.pin
    BY <1>1 DEF Shape, Identity, IsState, Zeroed
  <2>2. /\ t.hash = s.hash /\ t.remoteStatic = s.remoteStatic
        /\ t.remoteEphemeral = s.remoteEphemeral /\ t.hasKey = s.hasKey
        /\ t.sendKey = s.sendKey /\ t.receiveKey = s.receiveKey
    BY <1>1 DEF Shape, Identity, IsState, Zeroed
  <2>3. t.sendNonce \in Nat /\ t.receiveNonce \in Nat
    BY <1>1 DEF Shape, Identity, Established, IsState, Zeroed
  <2>4. Identity(t, me)
    BY <2>1, <2>2 DEF Shape, Identity
  <2>5. Transcript(t, me)
    BY <2>1, <2>2 DEF Shape, Transcript
  <2>6. Established(t, me)
    BY <2>1, <2>2, <2>3 DEF Shape, Established
  <2>7. Shape(t, me) /\ Remotes(s, t)
    BY <2>1, <2>2, <2>4, <2>5, <2>6 DEF Shape, Remotes
  <2> QED BY <2>1, <2>2, <2>7
<1>2. IsState(s) /\ s.sendNonce \in Nat /\ s.receiveNonce \in Nat
  BY DEF Shape, Identity, Established
<1> DEFINE t1 == [s EXCEPT !.sendNonce = @ + 1]
<1> DEFINE t2 == [s EXCEPT !.receiveNonce = @ + 1]
<1>3. t1.sendNonce = s.sendNonce + 1 /\ t1.receiveNonce = s.receiveNonce + 0
  BY <1>2 DEF IsState, Zeroed
<1>4. t2.sendNonce = s.sendNonce + 0 /\ t2.receiveNonce = s.receiveNonce + 1
  BY <1>2 DEF IsState, Zeroed
<1> HIDE DEF t1, t2
<1>5. Shape(t1, me) /\ Counts(s, t1, 1, 0)
  <2>1. t1 = [s EXCEPT !.sendNonce = @ + 1]
    BY DEF t1
  <2> QED BY <1>1, <1>3, <2>1 DEF Counts
<1>6. Shape(t2, me) /\ Counts(s, t2, 0, 1)
  <2>1. t2 = [s EXCEPT !.receiveNonce = @ + 1]
    BY DEF t2
  <2> QED BY <1>1, <1>4, <2>1 DEF Counts
<1> QED BY <1>5, <1>6 DEF t1, t2

FrameSeal(s, frame) == [k |-> s.sendKey, n |-> s.sendNonce, ad |-> <<>>, pt |-> frame]
\* What sealing a frame, and opening one, may come to.
Encrypts(s, r, frame, len, me) ==
  \/ r.s = Dead /\ r.out = <<>>
  \/ /\ Shape(r.s, me) /\ Counts(s, r.s, 1, 0)
     /\ r.out = <<Piece(len + 16, [sealed |-> FrameSeal(s, frame)])>>
Decrypts(s, r, m, me) ==
  \/ r.s = Dead /\ r.rc # "OK"
  \/ \E x : /\ Shape(r.s, me) /\ Counts(s, r.s, 0, 1) /\ r.rc = "OK" /\ r.out = x.pt
            /\ Holds(m, x) /\ x.k = s.receiveKey /\ x.n = s.receiveNonce /\ x.ad = <<>>

\* thalovant_noise_encrypt(): a frame is sealed under the next send nonce,
\* which is then spent, or nothing changes.
LEMMA NoiseEncryptDoes ==
  ASSUME NEW s, NEW me, Shape(s, me), NEW frame, NEW len, NEW capacity
  PROVE  Encrypts(s, NoiseEncrypt(s, frame, len, capacity), frame, len, me)
<1> DEFINE r == NoiseEncrypt(s, frame, len, capacity)
<1>1. s.ready \in BOOLEAN
  BY DEF Shape, Identity
<1>2. CASE ~s.ready \/ s.failed \/ capacity < len + 16
  <2>1. r.s = Dead /\ r.out = <<>>
    BY <1>2 DEF NoiseEncrypt, Failure, Dead
  <2> QED BY <2>1 DEF Encrypts
<1>3. CASE s.ready /\ ~s.failed /\ ~(capacity < len + 16)
  <2>1. /\ r.s = [s EXCEPT !.sendNonce = @ + 1]
        /\ r.out = <<Piece(len + 16, [sealed |-> FrameSeal(s, frame)])>>
    BY <1>3 DEF NoiseEncrypt, Seal, FrameSeal
  <2>2. s.ready = TRUE
    BY <1>1, <1>3
  <2>3. Shape(r.s, me) /\ Counts(s, r.s, 1, 0)
    BY <2>1, <2>2, CountingKeepsShape
  <2> HIDE DEF r
  <2>4. Encrypts(s, r, frame, len, me)
    BY <2>1, <2>3 DEF Encrypts
  <2> QED BY <2>4 DEF r
<1> QED BY <1>2, <1>3

\* thalovant_noise_decrypt(): a frame is opened only if it was sealed under the
\* next receive nonce, which is then spent; otherwise the session counts
\* nothing.
LEMMA NoiseDecryptDoes ==
  ASSUME NEW s, NEW me, Shape(s, me), NEW m, WellFormed(m), NEW capacity
  PROVE  Decrypts(s, NoiseDecrypt(s, m, capacity), m, me)
<1> DEFINE r == NoiseDecrypt(s, m, capacity)
<1>1. s.ready \in BOOLEAN
  BY DEF Shape, Identity
<1> DEFINE Refused == \/ ~s.ready \/ s.failed \/ Size(m) < 17 \/ capacity < Size(m) - 16
                      \/ Len(m) # 1 \/ ~Opens(m[1].item, s.receiveKey, s.receiveNonce, <<>>)
<1>2. CASE Refused
  <2>1. r.s = Dead /\ r.rc # "OK"
    BY <1>2 DEF NoiseDecrypt, Failure, Dead
  <2> QED BY <2>1 DEF Decrypts
<1>3. CASE ~Refused
  <2> DEFINE x == m[1].item.sealed
  <2>1. r = [rc |-> "OK", s |-> [s EXCEPT !.receiveNonce = @ + 1], out |-> x.pt]
    BY <1>3 DEF NoiseDecrypt
  <2>2. s.ready = TRUE /\ Len(m) = 1 /\ Opens(m[1].item, s.receiveKey, s.receiveNonce, <<>>)
    BY <1>1, <1>3
  <2>3. x.k = s.receiveKey /\ x.n = s.receiveNonce /\ x.ad = <<>>
    BY <2>2 DEF Opens
  <2>4. Holds(m, x)
    BY <2>2 DEF Opens, Holds, WellFormed, IsPure, IsSealed
  <2> HIDE DEF x
  <2>5. r.s = [s EXCEPT !.receiveNonce = @ + 1] /\ r.rc = "OK" /\ r.out = x.pt
    BY <2>1
  <2>6. Shape(r.s, me) /\ Counts(s, r.s, 0, 1)
    BY <2>2, <2>5, CountingKeepsShape
  <2> HIDE DEF r
  <2>7. Decrypts(s, r, m, me)
    BY <2>3, <2>4, <2>5, <2>6 DEF Decrypts
  <2> QED BY <2>7 DEF r
<1> QED BY <1>2, <1>3

-----------------------------------------------------------------------------
(* What is on the wire, and what may arrive instead. *)

\* What the ends put on the wire is one field each: a key or a ciphertext.
LEMMA ItemIsPure ==
  ASSUME NEW item, ItemOK(item)
  PROVE  IsPure(item)
<1>1. CASE "sealed" \in DOMAIN item /\ item = [sealed |-> item.sealed]
  BY <1>1 DEF IsPure, IsSealed
<1>2. CASE \E p \in Party, c \in 1..MaxConnections : item = [key |-> Ephemeral(p, c)]
  BY <1>2 DEF IsPure
<1> QED BY <1>1, <1>2 DEF ItemOK

\* m's items are items of the wire's or look like public keys.
Mixed(m) ==
  /\ IsSeq(m)
  /\ \A i \in 1..Len(m) :
       \/ \E k : m[i].item = [key |-> k]
       \/ \E w \in wire : \E j \in 1..Len(w) : m[i].item = w[j].item

\* A message mixed from pieces of the wire holds no ciphertext that was never
\* sent.
LEMMA MixedOK ==
  ASSUME WireOK, NEW m, Mixed(m)
  PROVE  WellFormed(m) /\ \A x : Holds(m, x) => OnWire(x)
<1>1. ASSUME NEW i \in 1..Len(m) PROVE IsPure(m[i].item)
  <2>1. CASE \E k : m[i].item = [key |-> k]
    BY <2>1 DEF IsPure
  <2>2. CASE \E w \in wire : \E j \in 1..Len(w) : m[i].item = w[j].item
    BY <2>2, ItemIsPure DEF WireOK, MessageOK
  <2> QED BY <2>1, <2>2 DEF Mixed
<1>2. ASSUME NEW x, NEW i \in 1..Len(m), m[i].item = [sealed |-> x] PROVE OnWire(x)
  <2>1. \A k : [key |-> k] # [sealed |-> x]
    OBVIOUS
  <2>2. PICK w \in wire : \E j \in 1..Len(w) : m[i].item = w[j].item
    BY <1>2, <2>1 DEF Mixed
  <2> QED BY <1>2, <2>2 DEF OnWire
<1> QED BY <1>1, <1>2 DEF WellFormed, Holds, Mixed

\* A sequence without its last item.
LEMMA FrontOf ==
  ASSUME NEW q, IsSeq(q), Len(q) >= 1
  PROVE  /\ IsSeq(Front(q)) /\ Len(Front(q)) = Len(q) - 1
         /\ \A i \in 1..Len(q) - 1 : Front(q)[i] = q[i]
<1> DEFINE S == {q[i] : i \in 1..Len(q)}
<1>1. q \in Seq(S) /\ Len(q) \in Nat
  BY DEF IsSeq
<1> DEFINE t == SubSeq(q, 1, Len(q) - 1)
<1>2. \A i \in 1..Len(q) - 1 : q[i] \in S
  BY <1>1
<1>3. /\ t \in Seq(S) /\ Len(t) = Len(q) - 1
      /\ \A i \in 1..Len(q) - 1 : t[i] = q[i]
  <2>1. Len(q) - 1 \in Int
    BY <1>1
  <2>2. /\ t \in Seq(S)
        /\ Len(t) = IF 1 <= Len(q) - 1 THEN Len(q) - 1 - 1 + 1 ELSE 0
        /\ \A i \in 1..Len(q) - 1 - 1 + 1 : t[i] = q[1 + i - 1]
    BY ONLY <1>2, <2>1, SubSeqProperties
  <2> HIDE DEF t
  <2>3. Len(q) - 1 - 1 + 1 = Len(q) - 1
    BY <1>1
  <2>4. Len(t) = Len(q) - 1
    <3>1. PICK n \in Nat : n = Len(q) /\ n >= 1
      BY <1>1
    <3>2. Len(t) = IF 1 <= n - 1 THEN n - 1 - 1 + 1 ELSE 0
      BY ONLY <2>2, <3>1
    <3> QED BY ONLY <3>1, <3>2
  <2>5. \A i \in 1..Len(q) - 1 : t[i] = q[i]
    <3>1. PICK n \in Nat : n = Len(q)
      BY <1>1
    <3>2. \A i \in 1..n - 1 - 1 + 1 : t[i] = q[1 + i - 1]
      BY ONLY <2>2, <3>1
    <3>3. \A i \in 1..n - 1 : i \in 1..n - 1 - 1 + 1 /\ 1 + i - 1 = i
      OBVIOUS
    <3> QED BY ONLY <3>1, <3>2, <3>3
  <2> QED BY <2>2, <2>4, <2>5
<1>4. Front(q) = t
  BY DEF Front
<1> HIDE DEF t
<1>5. IsSeq(t)
  BY <1>3 DEF IsSeq
<1> QED BY <1>3, <1>4, <1>5

\* Whatever arrives, on time or not, altered or cut, holds no ciphertext that was
\* never sent.
LEMMA ArrivingFromWire ==
  ASSUME WireOK, NEW m \in Arriving
  PROVE  WellFormed(m) /\ \A x : Holds(m, x) => OnWire(x)
<1>1. CASE m \in wire
  BY <1>1, MixedOK DEF Mixed, WireOK, MessageOK
<1>2. CASE m \notin wire
  <2>1. PICK w \in wire : m \in Altered(w)
    BY <1>2 DEF Arriving
  <2>2. IsSeq(w) /\ Len(w) \in 1..3 /\ \A i \in 1..Len(w) : w[i] = Piece(w[i].size, w[i].item)
    BY DEF WireOK, MessageOK
  <2>3. /\ IsSeq(Front(w)) /\ Len(Front(w)) = Len(w) - 1
        /\ \A i \in 1..Len(w) - 1 : Front(w)[i] = w[i]
    <3>1. Len(w) >= 1
      BY <2>2
    <3> QED BY <2>2, <3>1, FrontOf
  <2>4. CASE m = Front(w)
    <3>1. \A i \in 1..Len(m) : i \in 1..Len(w) /\ m[i].item = w[i].item
      BY <2>2, <2>3, <2>4
    <3> QED BY <2>3, <2>4, <3>1, MixedOK DEF Mixed
  <2>5. CASE m = Append(Front(w), Piece(Last(w).size - 1, [key |-> GarbageKey]))
    <3> DEFINE piece == Piece(Last(w).size - 1, [key |-> GarbageKey])
    <3>1. Grows(Front(w), m, piece)
      BY <2>3, <2>5, AppendGrows
    <3>2. piece.item = [key |-> GarbageKey]
      BY DEF Piece
    <3> HIDE DEF piece
    <3>3. ASSUME NEW i \in 1..Len(m)
          PROVE  \/ \E k : m[i].item = [key |-> k]
                 \/ \E j \in 1..Len(w) : m[i].item = w[j].item
      <4>1. CASE i = Len(w)
        <5>1. Len(Front(w)) + 1 = i
          BY <2>2, <2>3, <4>1
        <5>2. m[i].item = [key |-> GarbageKey]
          BY <3>1, <3>2, <5>1 DEF Grows
        <5> QED BY <5>2
      <4>2. CASE i # Len(w)
        <5>1. i \in 1..Len(w) - 1
          BY <2>2, <2>3, <3>1, <3>3, <4>2 DEF Grows
        <5> QED BY <2>2, <2>3, <3>1, <5>1 DEF Grows
      <4> QED BY <4>1, <4>2
    <3>4. Mixed(m)
      BY <3>1, <3>3 DEF Mixed, Grows
    <3> QED BY <3>4, MixedOK
  <2>6. CASE \E i \in 1..Len(w) : \E k : m = [w EXCEPT ![i].item = [key |-> k]]
    <3>0. PICK i \in 1..Len(w) : \E k : m = [w EXCEPT ![i].item = [key |-> k]]
      BY <2>6
    <3>1. PICK k : m = [w EXCEPT ![i].item = [key |-> k]]
      BY <3>0
    <3> DEFINE f == [w[i] EXCEPT !.item = [key |-> k]]
    <3>2. f.item = [key |-> k] /\ m = [w EXCEPT ![i] = f]
      <4>1. w[i] = [size |-> w[i].size, item |-> w[i].item]
        BY <2>2 DEF Piece
      <4>2. f.item = [key |-> k]
        BY <4>1
      <4> QED BY <3>1, <4>2
    <3> HIDE DEF f
    <3>3. /\ Len(m) = Len(w) /\ IsSeq(m)
          /\ \A j \in 1..Len(w) : m[j] = IF j = i THEN f ELSE w[j]
      <4> DEFINE S == {w[j] : j \in 1..Len(w)} \cup {f}
      <4>1. w \in Seq(S) /\ f \in S
        BY <2>2 DEF IsSeq
      <4> HIDE DEF S
      <4>2. m \in Seq(S) /\ Len(m) = Len(w)
        BY <3>2, <4>1
      <4>3. \A j \in 1..Len(w) : m[j] = IF j = i THEN f ELSE w[j]
        BY <3>2, <4>1
      <4> QED BY <4>2, <4>3 DEF IsSeq
    <3>4. \A j \in 1..Len(m) : m[j].item = [key |-> k] \/ m[j].item = w[j].item
      BY <3>2, <3>3
    <3>5. Mixed(m)
      BY <3>3, <3>4 DEF Mixed
    <3> QED BY <3>5, MixedOK
  <2>7. \/ m = Front(w)
        \/ m = Append(Front(w), Piece(Last(w).size - 1, [key |-> GarbageKey]))
        \/ \E i \in 1..Len(w) : \E k : m = [w EXCEPT ![i].item = [key |-> k]]
    <3> DEFINE A == {[w EXCEPT ![i].item = [key |-> k]] : i \in 1..Len(w), k \in {GarbageKey, ZeroKey}}
    <3> DEFINE cut == Append(Front(w), Piece(Last(w).size - 1, [key |-> GarbageKey]))
    <3>1. m \in A \cup {Front(w), cut}
      <4>1. Altered(w) = A \cup {Front(w), cut}
        BY DEF Altered
      <4> HIDE DEF A, cut
      <4> QED BY <2>1, <4>1
    <3>2. m \in A => \E i \in 1..Len(w) : \E k : m = [w EXCEPT ![i].item = [key |-> k]]
      OBVIOUS
    <3> HIDE DEF A, cut
    <3>3. m \in A \/ m = Front(w) \/ m = cut
      BY <3>1
    <3> QED BY <3>2, <3>3 DEF cut
  <2> QED BY <2>4, <2>5, <2>6, <2>7
<1> QED BY <1>1, <1>2

-----------------------------------------------------------------------------
(* The rows tell one another apart. *)

\* Every ciphertext of a handshake, by the pattern, the step and the end that
\* makes it.
LEMMA RowsAre ==
  ASSUME NEW row \in Rows
  PROVE  /\ row.pattern \in {XX, KK} /\ row.initiator \in BOOLEAN /\ row.step \in 0..2
         /\ row.payload \in BOOLEAN /\ row.len \in 3..9
         /\ row.len = IF row.pattern = KK THEN IF row.ck = 5 THEN 6 ELSE 8
                      ELSE IF row.ck = 2 THEN 3 ELSE IF row.ck = 4 THEN 5
                      ELSE IF row.ck = 7 THEN 9 ELSE IF row.n = 0 THEN 7 ELSE 8
         /\ row = IF row.pattern = XX
                  THEN IF row.len = 3 THEN Row(XX, 3, TRUE, 0, 2, 2, 0, TRUE)
                  ELSE IF row.len = 5 THEN Row(XX, 5, FALSE, 1, 4, 2, 0, FALSE)
                  ELSE IF row.len = 7 THEN Row(XX, 7, FALSE, 1, 6, 3, 0, TRUE)
                  ELSE IF row.len = 8 THEN Row(XX, 8, TRUE, 2, 6, 3, 1, FALSE)
                  ELSE Row(XX, 9, TRUE, 2, 7, 2, 0, TRUE)
                  ELSE IF row.len = 6 THEN Row(KK, 6, TRUE, 0, 5, 2, 0, TRUE)
                  ELSE Row(KK, 8, FALSE, 1, 8, 2, 0, TRUE)
<1>1. CASE row = Row(XX, 3, TRUE, 0, 2, 2, 0, TRUE)
  BY <1>1 DEF Row, XX, KK
<1>2. CASE row = Row(XX, 5, FALSE, 1, 4, 2, 0, FALSE)
  BY <1>2 DEF Row, XX, KK
<1>3. CASE row = Row(XX, 7, FALSE, 1, 6, 3, 0, TRUE)
  BY <1>3 DEF Row, XX, KK
<1>4. CASE row = Row(XX, 8, TRUE, 2, 6, 3, 1, FALSE)
  BY <1>4 DEF Row, XX, KK
<1>5. CASE row = Row(XX, 9, TRUE, 2, 7, 2, 0, TRUE)
  BY <1>5 DEF Row, XX, KK
<1>6. CASE row = Row(KK, 6, TRUE, 0, 5, 2, 0, TRUE)
  BY <1>6 DEF Row, XX, KK
<1>7. CASE row = Row(KK, 8, FALSE, 1, 8, 2, 0, TRUE)
  BY <1>7 DEF Row, XX, KK
<1> QED BY <1>1, <1>2, <1>3, <1>4, <1>5, <1>6, <1>7 DEF Rows

\* The length of the transcript tells which ciphertext of its pattern it is.
LEMMA RowByLength ==
  ASSUME NEW row \in Rows, NEW other \in Rows, row.pattern = other.pattern, row.len = other.len
  PROVE  row = other
<1> DEFINE At(pattern, len) ==
      IF pattern = XX
      THEN IF len = 3 THEN Row(XX, 3, TRUE, 0, 2, 2, 0, TRUE)
      ELSE IF len = 5 THEN Row(XX, 5, FALSE, 1, 4, 2, 0, FALSE)
      ELSE IF len = 7 THEN Row(XX, 7, FALSE, 1, 6, 3, 0, TRUE)
      ELSE IF len = 8 THEN Row(XX, 8, TRUE, 2, 6, 3, 1, FALSE)
      ELSE Row(XX, 9, TRUE, 2, 7, 2, 0, TRUE)
      ELSE IF len = 6 THEN Row(KK, 6, TRUE, 0, 5, 2, 0, TRUE)
      ELSE Row(KK, 8, FALSE, 1, 8, 2, 0, TRUE)
<1>1. row = At(row.pattern, row.len) /\ other = At(other.pattern, other.len)
  BY RowsAre
<1> HIDE DEF At
<1> QED BY <1>1

\* So do the length of the chaining key and the nonce: no two ciphertexts of a
\* handshake share both.
LEMMA RowByKey ==
  ASSUME NEW row \in Rows, NEW other \in Rows, row.pattern = other.pattern,
         row.ck = other.ck, row.n = other.n
  PROVE  row = other
<1>1. row.len = other.len
  BY RowsAre
<1> QED BY <1>1, RowByLength

-----------------------------------------------------------------------------
(* What every step keeps. *)

\* No step takes anything back: an end goes on, fails, or connects anew.
Advances ==
  /\ UNCHANGED <<psk, prologue, pin>>
  /\ wire \subseteq wire' /\ wrote \subseteq wrote' /\ completed \subseteq completed'
  /\ \A q \in Party :
       /\ conn[q] \in Nat /\ conn'[q] \in Nat /\ conn'[q] >= conn[q]
       /\ conn'[q] = conn[q] /\ ~state'[q].failed =>
            /\ ~state[q].failed
            /\ state[q].step \in Nat /\ state'[q].step \in Nat /\ state'[q].step >= state[q].step
            /\ state[q].sendNonce \in Nat /\ state'[q].sendNonce \in Nat
            /\ state'[q].sendNonce >= state[q].sendNonce
            /\ state[q].ready => state'[q].ready

\* Where a handshake ciphertext came from does not change.
LEMMA HandshakeSealStays ==
  ASSUME Advances, NEW x, FromHandshake(x)
  PROVE  FromHandshake(x)'
<1>1. PICK row \in Rows, c \in 1..MaxConnections : HandshakeSeal(x, row, c)
  BY DEF FromHandshake
<1> DEFINE w == Sealer(row)
<1> DEFINE after == Append(x.ad, [sealed |-> x])
<1>2. w \in Party /\ row.step \in 0..2 /\ c \in Nat
  <2>1. row.step \in 0..2
    BY RowsAre
  <2>2. c \in Nat
    BY SessionAssumption
  <2> QED BY <2>1, <2>2 DEF Sealer, Party
<1>3. MeOf(w, c)' = MeOf(w, c)
  BY DEF Advances, MeOf, PinOf
<1>4. SealedBy(x, row, MeOf(w, c))
  BY <1>1 DEF HandshakeSeal
<1>5. SealedBy(x, row, MeOf(w, c)')
  BY <1>3, <1>4
<1> HIDE DEF w, after
<1>6. c <= conn'[w]
  BY <1>1, <1>2 DEF HandshakeSeal, Advances, w
<1>7. c = conn'[w] /\ ~state'[w].failed => state'[w].step > row.step
  <2>1. SUFFICES ASSUME c = conn'[w], ~state'[w].failed PROVE state'[w].step > row.step
    OBVIOUS
  <2>2. c <= conn[w] /\ conn[w] \in Nat /\ conn'[w] >= conn[w] /\ conn'[w] \in Nat
    BY <1>1, <1>2 DEF HandshakeSeal, Advances, w
  <2>3. c = conn[w] /\ conn'[w] = conn[w]
    BY <1>2, <2>1, <2>2
  <2>4. ~state[w].failed /\ state[w].step \in Nat /\ state'[w].step \in Nat
        /\ state'[w].step >= state[w].step
    BY <1>2, <2>1, <2>3 DEF Advances
  <2>5. state[w].step > row.step
    BY <1>1, <2>3, <2>4 DEF HandshakeSeal, w
  <2> QED BY <1>2, <2>4, <2>5
<1>8. row.payload => [by |-> w, hash |-> after] \in wrote'
  BY <1>1 DEF HandshakeSeal, Advances, w, after
<1>9. row.payload /\ row.step + 1 = Steps(row.pattern) =>
        \E d \in completed' : d.party = w /\ d.hash = after
  BY <1>1 DEF HandshakeSeal, Advances, w, after
<1>10. HandshakeSeal(x, row, c)'
  BY <1>5, <1>6, <1>7, <1>8, <1>9 DEF HandshakeSeal, w, after
<1> QED BY <1>10 DEF FromHandshake

\* Nor where a frame came from.
LEMMA SessionSealStays ==
  ASSUME Advances, HistoryOK, NEW x, FromSession(x)
  PROVE  FromSession(x)'
<1>1. PICK d \in completed : SessionSeal(x, d)
  BY DEF FromSession
<1>2. d \in completed' /\ d.party \in Party /\ d.conn \in Nat /\ d.conn <= conn[d.party]
  <2>1. CompletedOK(d)
    BY DEF HistoryOK
  <2>2. d.party \in Party /\ d.conn \in 1..MaxConnections /\ d.conn <= conn[d.party]
    BY <2>1 DEF CompletedOK, CompletedForm
  <2> QED BY <2>2, SessionAssumption DEF Advances
<1>3. x.n \in 0..MaxFrames - 1
  BY <1>1 DEF SessionSeal
<1>4. ASSUME d.conn = conn'[d.party], ~state'[d.party].failed
      PROVE  state'[d.party].ready /\ x.n < state'[d.party].sendNonce
  <2>1. conn[d.party] \in Nat /\ conn'[d.party] >= conn[d.party] /\ conn'[d.party] \in Nat
    BY <1>2 DEF Advances
  <2>2. d.conn = conn[d.party] /\ conn'[d.party] = conn[d.party]
    BY <1>2, <1>4, <2>1
  <2>3. /\ ~state[d.party].failed
        /\ state[d.party].sendNonce \in Nat /\ state'[d.party].sendNonce \in Nat
        /\ state'[d.party].sendNonce >= state[d.party].sendNonce
        /\ state[d.party].ready => state'[d.party].ready
    BY <1>2, <1>4, <2>2 DEF Advances
  <2>4. state[d.party].ready /\ x.n < state[d.party].sendNonce
    BY <1>1, <2>2, <2>3 DEF SessionSeal
  <2> QED BY <1>3, <2>3, <2>4
<1>5. SessionSeal(x, d)'
  BY <1>1, <1>4 DEF SessionSeal
<1> QED BY <1>2, <1>5 DEF FromSession

\* Nor what a piece of a message is.
LEMMA ItemStays ==
  ASSUME Advances, HistoryOK, NEW item, ItemOK(item)
  PROVE  ItemOK(item)'
<1>1. CASE /\ "sealed" \in DOMAIN item /\ item = [sealed |-> item.sealed]
           /\ FromHandshake(item.sealed) \/ FromSession(item.sealed)
  <2> DEFINE x == item.sealed
  <2>1. FromHandshake(x) \/ FromSession(x)
    BY <1>1
  <2> HIDE DEF x
  <2>2. FromHandshake(x)' \/ FromSession(x)'
    BY <2>1, HandshakeSealStays, SessionSealStays
  <2> QED BY <1>1, <2>2 DEF ItemOK, x
<1>2. CASE \E p \in Party, c \in 1..MaxConnections : item = [key |-> Ephemeral(p, c)]
  BY <1>2 DEF ItemOK
<1> QED BY <1>1, <1>2 DEF ItemOK

\* So the messages of the wire stay well formed.
LEMMA MessageStays ==
  ASSUME Advances, HistoryOK, NEW m \in wire
  PROVE  MessageOK(m)'
<1>1. MessageOK(m)
  BY DEF HistoryOK, WireOK
<1>2. ASSUME NEW i \in 1..Len(m) PROVE ItemOK(m[i].item)'
  <2>1. PICK item : item = m[i].item
    OBVIOUS
  <2>2. ItemOK(item)
    BY <1>1, <2>1 DEF MessageOK
  <2>3. ItemOK(item)'
    BY <2>2, ItemStays
  <2> QED BY <2>1, <2>3
<1> QED BY <1>1, <1>2 DEF MessageOK

\* And a completed handshake stays accounted for.
LEMMA CompletedStays ==
  ASSUME Advances, HistoryOK, NEW d \in completed
  PROVE  CompletedOK(d)'
<1>1. CompletedOK(d)
  BY DEF HistoryOK
<1>2. OnWire(LastSeal(d.hash))'
  BY <1>1 DEF CompletedOK, OnWire, Advances
<1>3. d.conn <= conn'[d.party]
  <2>1. d.party \in Party /\ d.conn \in Nat /\ d.conn <= conn[d.party]
    BY <1>1, SessionAssumption DEF CompletedOK, CompletedForm
  <2>2. conn[d.party] \in Nat /\ conn'[d.party] \in Nat /\ conn'[d.party] >= conn[d.party]
    BY <2>1 DEF Advances
  <2> QED BY <2>1, <2>2
<1> QED BY <1>1, <1>2, <1>3 DEF CompletedOK

\* The types of the fields of an end.
LEMMA StateTypes ==
  ASSUME NEW q, SessionOK(q)
  PROVE  LET s == state[q] IN
         /\ s.step \in 0..3 /\ s.ready \in BOOLEAN /\ s.failed \in BOOLEAN /\ s.hasKey \in BOOLEAN
         /\ s.sendNonce \in Nat /\ s.receiveNonce \in Nat
         /\ s.failed \/ s.step = 0 \/ Shape(s, Me(q))
         /\ s.ready => /\ Shape(s, Me(q)) /\ ~s.failed /\ s.step = Steps(s.pattern)
                       /\ s.pattern \in {XX, KK}
<1>1. CASE state[q] \in {Zeroed, Dead}
  <2> DEFINE s == state[q]
  <2>1. /\ s.step = 0 /\ s.ready = FALSE /\ s.failed \in BOOLEAN /\ s.hasKey = FALSE
        /\ s.sendNonce = 0 /\ s.receiveNonce = 0
    <3>1. CASE s = Zeroed
      BY <3>1 DEF Zeroed
    <3>2. CASE s = Dead
      BY <3>2 DEF Zeroed, Dead
    <3> QED BY <1>1, <3>1, <3>2
  <2> HIDE DEF s
  <2>2. s.step \in 0..3 /\ s.sendNonce \in Nat /\ s.receiveNonce \in Nat
    BY <2>1
  <2>3. s.ready \in BOOLEAN
    BY <2>1
  <2>4. s.hasKey \in BOOLEAN
    BY <2>1
  <2> QED BY <2>1, <2>2, <2>3, <2>4 DEF s
<1>2. CASE Shape(state[q], Me(q))
  <2> DEFINE s == state[q]
  <2>1. Identity(s, Me(q)) /\ (s.ready = FALSE => Running(s, Me(q))) /\ (s.ready = TRUE => Established(s, Me(q)))
    BY <1>2 DEF Shape
  <2>2. /\ s.step \in 0..3 /\ s.ready \in BOOLEAN /\ s.failed = FALSE
        /\ s.ready = TRUE => s.step = Steps(s.pattern)
        /\ s.pattern \in {XX, KK}
    BY <2>1 DEF Identity, Steps
  <2>3. s.hasKey \in BOOLEAN
    <3>1. CASE s.ready = TRUE
      BY <2>1, <3>1 DEF Established
    <3>2. CASE s.ready = FALSE
      <4>1. (s.step = 0 => s.hasKey = FALSE) /\ (s.step > 0 => s.hasKey = TRUE)
        BY <2>1, <3>2 DEF Running
      <4>2. s.step = 0 \/ s.step > 0
        BY <2>2
      <4> QED BY <4>1, <4>2
    <3> QED BY <2>2, <3>1, <3>2
  <2>4. s.sendNonce \in Nat /\ s.receiveNonce \in Nat
    <3>1. CASE s.ready = TRUE
      BY <2>1, <3>1 DEF Established
    <3>2. CASE s.ready = FALSE
      BY <2>1, <3>2 DEF Running
    <3> QED BY <2>2, <3>1, <3>2
  <2> HIDE DEF s
  <2>5. Shape(s, Me(q))
    BY <1>2 DEF s
  <2> QED BY <2>2, <2>3, <2>4, <2>5 DEF s
<1> QED BY <1>1, <1>2 DEF SessionOK

\* A step of one end leaves the other as it was.
LEMMA OthersStay ==
  ASSUME Advances, NEW q \in Party, EndOK(q),
         conn'[q] = conn[q], state'[q] = state[q], received'[q] = received[q]
  PROVE  EndOK(q)'
<1>1. Me(q)' = Me(q) /\ PinOf(q)' = PinOf(q)
  BY DEF Advances, Me, MeOf, PinOf
<1>2. SessionOK(q)'
  <2>1. CASE state[q] \in {Zeroed, Dead}
    BY <2>1 DEF SessionOK
  <2>2. CASE Shape(state[q], Me(q)) /\ conn[q] > 0
    <3>1. Shape(state'[q], Me(q)')
      BY <1>1, <2>2
    <3> QED BY <2>2, <3>1 DEF SessionOK
  <2> QED BY <2>1, <2>2 DEF EndOK, SessionOK
<1>3. KnowsPeer(q)'
  <2>1. HasHeardPsk(q)' = HasHeardPsk(q)
    BY DEF HasHeardPsk
  <2>2. Peer(q) \in Party
    BY DEF Peer, Party
  <2> QED BY <1>1, <2>1, <2>2 DEF EndOK, KnowsPeer, Advances
<1>4. HasPeersWord(q)'
  <2>1. HasReadLast(q)' = HasReadLast(q)
    BY DEF HasReadLast
  <2>2. HasPeersWord(q)
    BY DEF EndOK
  <2> QED BY <2>1, <2>2 DEF HasPeersWord, Advances
<1>5. SealIsOnWire(q)'
  BY DEF EndOK, SealIsOnWire, OnWire, Advances
<1>6. HasCompleted(q)'
  BY DEF EndOK, HasCompleted, Session, Advances
<1>7. HasReceived(q)'
  BY DEF EndOK, HasReceived, Advances
<1>8. FramesOf(q)'
  BY DEF EndOK, FramesOf
<1> QED BY <1>2, <1>3, <1>4, <1>5, <1>6, <1>7, <1>8 DEF EndOK

\* What one end does advances the whole.
LEMMA AdvancesBy ==
  ASSUME IInv, NEW p \in Party, UNCHANGED <<psk, prologue, pin>>,
         wire \subseteq wire', wrote \subseteq wrote', completed \subseteq completed',
         conn' \in [Party -> 0..MaxConnections],
         \A q \in Party \ {p} : state'[q] = state[q] /\ conn'[q] = conn[q],
         \/ conn'[p] = conn[p] + 1
         \/ conn'[p] = conn[p] /\ state'[p].failed
         \/ /\ conn'[p] = conn[p] /\ ~state[p].failed
            /\ state'[p].step \in Nat /\ state'[p].step >= state[p].step
            /\ state'[p].sendNonce \in Nat /\ state'[p].sendNonce >= state[p].sendNonce
            /\ state[p].ready => state'[p].ready
  PROVE  Advances
<1>1. ASSUME NEW q \in Party PROVE conn[q] \in Nat /\ conn'[q] \in Nat
  BY SessionAssumption DEF IInv, ConfigOK
<1>2. ASSUME NEW q \in Party
      PROVE state[q].step \in Nat /\ state[q].sendNonce \in Nat
  <2>1. SessionOK(q)
    BY DEF IInv, EndOK
  <2>2. state[q].step \in 0..3 /\ state[q].sendNonce \in Nat
    BY <2>1, StateTypes
  <2> QED BY <2>2
<1>3. ASSUME NEW q \in Party
      PROVE  /\ conn'[q] >= conn[q]
             /\ conn'[q] = conn[q] /\ ~state'[q].failed =>
                  /\ ~state[q].failed
                  /\ state[q].step \in Nat /\ state'[q].step \in Nat
                  /\ state'[q].step >= state[q].step
                  /\ state[q].sendNonce \in Nat /\ state'[q].sendNonce \in Nat
                  /\ state'[q].sendNonce >= state[q].sendNonce
                  /\ state[q].ready => state'[q].ready
  <2>1. CASE q # p
    BY <1>1, <1>2, <2>1
  <2>2. CASE q = p
    <3>1. CASE conn'[p] = conn[p] + 1
      BY <1>1, <2>2, <3>1
    <3>2. CASE conn'[p] = conn[p] /\ state'[p].failed
      BY <1>1, <2>2, <3>2
    <3>3. CASE /\ conn'[p] = conn[p] /\ ~state[p].failed
               /\ state'[p].step \in Nat /\ state'[p].step >= state[p].step
               /\ state'[p].sendNonce \in Nat /\ state'[p].sendNonce >= state[p].sendNonce
               /\ state[p].ready => state'[p].ready
      BY <1>1, <1>2, <2>2, <3>3
    <3> QED BY <3>1, <3>2, <3>3
  <2> QED BY <2>1, <2>2
<1> QED BY <1>1, <1>3 DEF Advances

\* A step of p's keeps the invariant when what it adds and leaves at p does.
LEMMA StepKeeps ==
  ASSUME IInv, Advances, NEW p \in Party,
         conn' \in [Party -> 0..MaxConnections], DOMAIN state' = Party, DOMAIN received' = Party,
         \A q \in Party \ {p} : /\ state'[q] = state[q] /\ conn'[q] = conn[q]
                                /\ received'[q] = received[q],
         \A m \in wire' \ wire : MessageOK(m)',
         \A d \in completed' \ completed : CompletedOK(d)',
         EndOK(p)', OneSealPerNonce'
  PROVE  IInv'
<1>1. ConfigOK'
  BY DEF IInv, ConfigOK, Advances
<1>2. HistoryOK'
  <2>1. HistoryOK
    BY DEF IInv
  <2>2. \A m \in wire' : MessageOK(m)'
    BY <2>1, MessageStays
  <2>3. \A d \in completed' : CompletedOK(d)'
    BY <2>1, CompletedStays
  <2> QED BY <2>2, <2>3 DEF HistoryOK, WireOK
<1>3. ASSUME NEW q \in Party PROVE EndOK(q)'
  <2>1. EndOK(q)
    BY DEF IInv
  <2>2. CASE q # p
    BY <2>1, <2>2, OthersStay
  <2>3. CASE q = p
    BY <2>3
  <2> QED BY <2>2, <2>3
<1> QED BY <1>1, <1>2, <1>3 DEF IInv

-----------------------------------------------------------------------------
(* The steps: beginning, failing, connecting. *)

\* The initial states: nothing was sent, so there is nothing to account for.
LEMMA InitOK == Init => IInv
<1> SUFFICES ASSUME Init PROVE IInv
  OBVIOUS
<1>1. ConfigOK
  <2>1. 0 \in 0..MaxConnections
    BY SessionAssumption
  <2> QED BY <2>1 DEF Init, ConfigOK
<1>2. HistoryOK /\ OneSealPerNonce
  BY DEF Init, HistoryOK, WireOK, OneSealPerNonce, SealedOnWire
<1>3. ASSUME NEW p \in Party PROVE EndOK(p)
  <2> DEFINE s == state[p]
  <2>1. s = Zeroed /\ received[p] = <<>>
    BY DEF Init
  <2>2. /\ s.pattern = "none" /\ s.step = 0 /\ s.ready = FALSE /\ s.receiveNonce = 0
    BY <2>1 DEF Zeroed
  <2> HIDE DEF s
  <2>3. SessionOK(p)
    BY <2>1 DEF SessionOK, s
  <2>4. KnowsPeer(p)
    BY <2>2 DEF KnowsPeer, HasHeardPsk, XX, KK, s
  <2>5. HasPeersWord(p)
    <3>1. ~HasReadLast(p)
      BY <2>2 DEF HasReadLast, s
    <3> QED BY <3>1 DEF HasPeersWord
  <2>6. SealIsOnWire(p) /\ HasCompleted(p)
    BY <2>2 DEF SealIsOnWire, HasCompleted, s
  <2>7. Len(received[p]) = 0 /\ IsSeq(received[p])
    BY <2>1 DEF IsSeq
  <2>8. HasReceived(p) /\ FramesOf(p)
    BY <2>2, <2>7 DEF HasReceived, FramesOf, s
  <2> QED BY <2>3, <2>4, <2>5, <2>6, <2>8 DEF EndOK
<1> QED BY <1>1, <1>2, <1>3 DEF IInv

\* A step that sends nothing uses no nonce.
LEMMA OneSealStays ==
  ASSUME OneSealPerNonce, wire' = wire
  PROVE  OneSealPerNonce'
BY DEF OneSealPerNonce, SealedOnWire

\* An end that fails is zeroed, and owes nothing any more.
LEMMA FailKeeps ==
  ASSUME IInv, NEW p \in Party, state' = [state EXCEPT ![p] = Dead],
         UNCHANGED <<psk, prologue, pin, conn, wire, wrote, completed, received>>
  PROVE  IInv'
<1>1. /\ DOMAIN state' = Party /\ state'[p] = Dead
      /\ \A q \in Party \ {p} : state'[q] = state[q]
      /\ DOMAIN received' = Party /\ conn' \in [Party -> 0..MaxConnections]
  BY DEF IInv, ConfigOK
<1> DEFINE s == state'[p]
<1>2. s.pattern = "none" /\ s.step = 0 /\ s.ready = FALSE /\ s.failed = TRUE
  BY <1>1 DEF Dead, Zeroed
<1>3. Advances
  BY <1>1, <1>2, AdvancesBy
<1>4. EndOK(p)'
  <2>1. SessionOK(p)'
    BY <1>1 DEF SessionOK
  <2> HIDE DEF s
  <2>2. KnowsPeer(p)'
    BY <1>2 DEF KnowsPeer, HasHeardPsk, XX, KK, s
  <2>3. HasPeersWord(p)'
    <3>1. ~HasReadLast(p)'
      BY <1>2 DEF HasReadLast, s
    <3> QED BY <3>1 DEF HasPeersWord
  <2>4. SealIsOnWire(p)' /\ HasCompleted(p)'
    BY <1>2 DEF SealIsOnWire, HasCompleted, s
  <2>5. HasReceived(p)' /\ FramesOf(p)'
    BY <1>2 DEF HasReceived, FramesOf, IInv, EndOK, s
  <2> QED BY <2>1, <2>2, <2>3, <2>4, <2>5 DEF EndOK
<1>5. OneSealPerNonce'
  BY OneSealStays DEF IInv
<1>6. /\ \A q \in Party \ {p} : /\ state'[q] = state[q] /\ conn'[q] = conn[q]
                                /\ received'[q] = received[q]
      /\ \A m \in wire' \ wire : MessageOK(m)'
      /\ \A d \in completed' \ completed : CompletedOK(d)'
  BY <1>1
<1> QED BY ONLY IInv, <1>1, <1>3, <1>4, <1>5, <1>6, p \in Party, StepKeeps

\* A new connection begins with new ephemeral keys and the transcript of its
\* configuration.
LEMMA ConnectKeeps ==
  ASSUME IInv, NEW p \in Party, NEW pattern \in {XX, KK}, Connect(p, pattern)
  PROVE  IInv'
<1> DEFINE me == MeOf(p, conn[p] + 1)
<1>1. /\ DOMAIN state' = Party /\ DOMAIN received' = Party /\ received'[p] = <<>>
      /\ conn'[p] = conn[p] + 1 /\ conn[p] < MaxConnections
      /\ \A q \in Party \ {p} : /\ state'[q] = state[q] /\ conn'[q] = conn[q]
                                /\ received'[q] = received[q]
  BY DEF IInv, ConfigOK, Connect
<1>2. conn' \in [Party -> 0..MaxConnections] /\ conn'[p] > 0
  <2>1. conn[p] \in 0..MaxConnections
    BY DEF IInv, ConfigOK
  <2>2. conn[p] + 1 \in 0..MaxConnections /\ conn[p] + 1 > 0
    BY <1>1, <2>1, SessionAssumption
  <2> QED BY <1>1, <2>2 DEF IInv, ConfigOK, Connect
<1>3. state'[p] = NoiseInit(pattern, me.initiator, me.psk, me.prologue, me.static,
                            me.ephemeral, me.pin).s
  BY DEF IInv, ConfigOK, Connect, MeOf
<1>4. /\ UNCHANGED <<psk, prologue, pin, wire, wrote, completed>>
  BY DEF Connect, config
<1>5. Me(p)' = me
  BY <1>1, <1>4 DEF Me, MeOf, PinOf
<1> DEFINE s == state'[p]
<1>6. \/ s = Dead
      \/ Shape(s, me) /\ s.step = 0 /\ s.ready = FALSE /\ s.pattern = pattern
  <2> HIDE DEF me
  <2> QED BY <1>3, NoiseInitShapes
<1>7. /\ s.pattern \in {"none", XX, KK} /\ s.step = 0 /\ s.ready = FALSE
      /\ s.failed \/ s.receiveNonce = 0
  <2>1. CASE s = Dead
    BY <2>1 DEF Dead, Zeroed
  <2>2. CASE Shape(s, me) /\ s.step = 0 /\ s.ready = FALSE /\ s.pattern = pattern
    BY <2>2 DEF Shape, Running
  <2> QED BY <1>6, <2>1, <2>2
<1>8. Advances
  BY <1>1, <1>2, <1>4, AdvancesBy
<1> HIDE DEF me
<1>9. EndOK(p)'
  <2>1. SessionOK(p)'
    BY <1>2, <1>5, <1>6 DEF SessionOK
  <2> HIDE DEF s
  <2>2. KnowsPeer(p)'
    BY <1>7 DEF KnowsPeer, HasHeardPsk, s
  <2>3. HasPeersWord(p)'
    <3>1. ~HasReadLast(p)'
      BY <1>7 DEF HasReadLast, s
    <3> QED BY <3>1 DEF HasPeersWord
  <2>4. SealIsOnWire(p)' /\ HasCompleted(p)'
    BY <1>7 DEF SealIsOnWire, HasCompleted, s
  <2>5. Len(received'[p]) = 0 /\ IsSeq(received'[p])
    BY <1>1 DEF IsSeq
  <2>6. HasReceived(p)' /\ FramesOf(p)'
    BY <1>7, <2>5 DEF HasReceived, FramesOf, s
  <2> QED BY <2>1, <2>2, <2>3, <2>4, <2>6 DEF EndOK
<1>10. OneSealPerNonce'
  BY <1>4, OneSealStays DEF IInv
<1>11. /\ \A m \in wire' \ wire : MessageOK(m)'
       /\ \A d \in completed' \ completed : CompletedOK(d)'
  BY <1>4
<1> QED BY ONLY IInv, <1>1, <1>2, <1>8, <1>9, <1>10, <1>11, p \in Party, StepKeeps

-----------------------------------------------------------------------------
(* Where a ciphertext comes from. *)

\* Every ciphertext of the wire was made in a handshake or in a session.
LEMMA WireSeal ==
  ASSUME HistoryOK, NEW x, OnWire(x)
  PROVE  FromHandshake(x) \/ FromSession(x)
<1>1. PICK m \in wire : \E i \in 1..Len(m) : m[i].item = [sealed |-> x]
  BY DEF OnWire
<1>2. PICK i \in 1..Len(m) : m[i].item = [sealed |-> x]
  BY <1>1
<1>3. ItemOK([sealed |-> x])
  BY <1>2 DEF HistoryOK, WireOK, MessageOK
<1>4. [sealed |-> x].sealed = x /\ \A k : [sealed |-> x] # [key |-> k]
  OBVIOUS
<1> DEFINE item == [sealed |-> x]
<1> HIDE DEF item
<1>5. ItemOK(item) /\ item.sealed = x /\ \A k : item # [key |-> k]
  BY <1>3, <1>4 DEF item
<1>6. FromHandshake(item.sealed) \/ FromSession(item.sealed)
  BY <1>5 DEF ItemOK
<1> QED BY <1>5, <1>6

\* The ciphertexts of a message.
Seals(m) == {m[i].item.sealed : i \in {j \in 1..Len(m) : "sealed" \in DOMAIN m[j].item}}

\* Two ways to say that a ciphertext was sent.
LEMMA SealedIsOnWire ==
  ASSUME HistoryOK, NEW x
  PROVE  x \in SealedOnWire <=> OnWire(x)
<1>1. ASSUME x \in SealedOnWire PROVE OnWire(x)
  <2>1. PICK m \in wire : x \in Seals(m)
    BY <1>1 DEF SealedOnWire, Seals
  <2>2. PICK i \in 1..Len(m) : "sealed" \in DOMAIN m[i].item /\ x = m[i].item.sealed
    BY <2>1 DEF Seals
  <2>3. IsPure(m[i].item)
    BY ItemIsPure DEF HistoryOK, WireOK, MessageOK
  <2>4. m[i].item = [sealed |-> x]
    BY <2>2, <2>3 DEF IsPure, IsSealed
  <2> QED BY <2>4 DEF OnWire
<1>2. ASSUME OnWire(x) PROVE x \in SealedOnWire
  <2>1. PICK m \in wire : \E i \in 1..Len(m) : m[i].item = [sealed |-> x]
    BY <1>2 DEF OnWire
  <2>2. PICK i \in 1..Len(m) : m[i].item = [sealed |-> x]
    BY <2>1
  <2>3. "sealed" \in DOMAIN m[i].item /\ x = m[i].item.sealed
    BY <2>2
  <2>4. x \in Seals(m)
    BY <2>3 DEF Seals
  <2> QED BY <2>4 DEF SealedOnWire, Seals
<1> QED BY <1>1, <1>2

\* Sending a message keeps every nonce used once when its ciphertexts use
\* nonces of their own that the wire has not seen.
LEMMA OneSealWith ==
  ASSUME OneSealPerNonce, NEW m, wire' = wire \cup {m}, NEW S, Seals(m) \subseteq S,
         \A x, y \in S : x.k = y.k /\ x.n = y.n => x = y,
         \A x \in S, w \in SealedOnWire : ~(x.k = w.k /\ x.n = w.n)
  PROVE  OneSealPerNonce'
<1>1. SealedOnWire' \subseteq SealedOnWire \cup S
  <2> SUFFICES ASSUME NEW x \in SealedOnWire' PROVE x \in SealedOnWire \cup S
    OBVIOUS
  <2>1. PICK q \in wire' : x \in Seals(q)
    BY DEF SealedOnWire, Seals
  <2>2. CASE q \in wire
    BY <2>1, <2>2 DEF SealedOnWire, Seals
  <2>3. CASE q = m
    BY <2>1, <2>3
  <2> QED BY <2>1, <2>2, <2>3
<1> SUFFICES ASSUME NEW x \in SealedOnWire', NEW y \in SealedOnWire', x.k = y.k, x.n = y.n
             PROVE  x = y
  BY DEF OneSealPerNonce
<1>2. CASE x \in SealedOnWire /\ y \in SealedOnWire
  BY <1>2 DEF OneSealPerNonce
<1>3. CASE x \in S /\ y \in S
  BY <1>3
<1>4. CASE x \in S /\ y \in SealedOnWire
  BY <1>4
<1>5. CASE x \in SealedOnWire /\ y \in S
  BY <1>5
<1> QED BY <1>1, <1>2, <1>3, <1>4, <1>5

\* Who makes the ciphertext of a row: this end or its peer.
LEMMA SealersAre ==
  ASSUME NEW row \in Rows, NEW p \in Party
  PROVE  /\ row.initiator = Me(p).initiator => Sealer(row) = p
         /\ row.initiator # Me(p).initiator => Sealer(row) = Peer(p)
<1>1. row.initiator \in BOOLEAN
  BY RowsAre
<1>2. Me(p).initiator = (p = Client)
  BY DEF Me, MeOf
<1>3. CASE row.initiator = TRUE
  BY <1>2, <1>3, SessionAssumption DEF Sealer, Party, Peer
<1>4. CASE row.initiator = FALSE
  BY <1>2, <1>4, SessionAssumption DEF Sealer, Party, Peer
<1> QED BY <1>1, <1>3, <1>4

\* What an end seals in a step that it has not behind it was not sealed before.
LEMMA HandshakeSealIsNew ==
  ASSUME HistoryOK, NEW p \in Party, ~state[p].failed, NEW z, NEW row \in Rows,
         SealedBy(z, row, Me(p)), state[p].step = row.step,
         NEW w, OnWire(w), w.k = z.k, w.n = z.n
  PROVE  FALSE
<1>1. /\ z.n = row.n /\ z.k = [of |-> z.k.of, out |-> row.out]
      /\ Len(z.k.of) = row.ck /\ z.k.of[1] = [name |-> row.pattern]
      /\ z.k.of[EphAt(row.pattern, row.initiator)] = [key |-> Me(p).ephemeral]
      /\ row.initiator = Me(p).initiator
  BY DEF SealedBy
<1>2. CASE FromSession(w)
  <2>1. PICK d \in completed : SessionSeal(w, d)
    BY <1>2 DEF FromSession
  <2>2. w = [k |-> d.send, n |-> w.n, ad |-> <<>>,
             pt |-> [from |-> d.party, conn |-> d.conn, seq |-> w.n + 1]]
    BY <2>1 DEF SessionSeal
  <2>3. w.k = d.send
    BY <2>2
  <2>4. CompletedOK(d)
    BY DEF HistoryOK
  <2>5. d.send = [of |-> d.send.of, split |-> IF d.party = Client THEN 1 ELSE 2]
    BY <2>4 DEF CompletedOK, CompletedForm
  <2>6. "split" \in DOMAIN d.send
    BY <2>5
  <2>7. "split" \notin DOMAIN z.k
    BY <1>1
  <2> QED BY <2>3, <2>6, <2>7
<1>3. CASE FromHandshake(w)
  <2>1. PICK r \in Rows, c \in 1..MaxConnections : HandshakeSeal(w, r, c)
    BY <1>3 DEF FromHandshake
  <2>2. /\ SealedBy(w, r, MeOf(Sealer(r), c))
        /\ c = conn[Sealer(r)] /\ ~state[Sealer(r)].failed => state[Sealer(r)].step > r.step
    BY <2>1 DEF HandshakeSeal
  <2>3. /\ w.n = r.n /\ Len(w.k.of) = r.ck /\ w.k.of[1] = [name |-> r.pattern]
        /\ w.k.of[EphAt(r.pattern, r.initiator)] = [key |-> MeOf(Sealer(r), c).ephemeral]
    BY <2>2 DEF SealedBy
  <2>4. [name |-> r.pattern] = [name |-> row.pattern]
    BY <1>1, <2>3
  <2>5. r = row
    BY <1>1, <2>3, <2>4, RowByKey
  <2>6. Sealer(r) = p
    BY <1>1, <2>5, SealersAre
  <2>7. [key |-> MeOf(p, c).ephemeral] = [key |-> Me(p).ephemeral]
    BY <1>1, <2>3, <2>5, <2>6
  <2>8. Ephemeral(p, c) = Ephemeral(p, conn[p])
    BY <2>7 DEF Me, MeOf
  <2>9. c = conn[p]
    BY <2>8 DEF Ephemeral, KeyPair
  <2>10. state[p].step > row.step
    BY <2>2, <2>5, <2>6, <2>9
  <2>11. row.step \in 0..2
    BY RowsAre
  <2> QED BY <2>10, <2>11
<1> QED BY <1>2, <1>3, WireSeal

-----------------------------------------------------------------------------
(* Writing. *)

StaticRow(y, s, me) ==
  \E row \in Rows : /\ row.payload = FALSE /\ row.pattern = s.pattern /\ row.step = s.step
                    /\ SealedBy(y, row, me)

\* The message of a write: at most three pieces, at most 96 bytes longer than
\* its payload, and only the ephemeral key is not sealed.
MessageForm(m, x, y, s, me, len) ==
  /\ IsSeq(m) /\ Len(m) \in 1..3 /\ Size(m) <= len + Overhead
  /\ m[Len(m)].item = [sealed |-> x]
  /\ \A i \in 1..Len(m) : /\ m[i] = Piece(m[i].size, m[i].item) /\ m[i].size \in Nat
                         /\ \/ m[i].item = [key |-> me.ephemeral]
                            \/ m[i].item = [sealed |-> x]
                            \/ m[i].item = [sealed |-> y] /\ StaticRow(y, s, me)

\* The message of a step, whichever tokens it had, has one of the forms of the
\* history.
LEMMA WordsForm ==
  ASSUME NEW x, NEW y, NEW words, NEW s, NEW me, Words(words, y, s, me), NEW len \in Nat
  PROVE  MessageForm(Append(words, Piece(len + 16, [sealed |-> x])), x, y, s, me, len)
<1> DEFINE a == Clear(me)
<1> DEFINE b == Covered(y)
<1> DEFINE p == Piece(len + 16, [sealed |-> x])
<1> DEFINE m == Append(words, p)
<1> DEFINE Known(q) == /\ q = Piece(q.size, q.item) /\ q.size \in Nat
                       /\ \/ q.item = [key |-> me.ephemeral]
                          \/ q.item = [sealed |-> x]
                          \/ q.item = [sealed |-> y] /\ StaticRow(y, s, me)
<1>1. Known(a) /\ a.size = 32
  BY DEF Clear, Piece
<1>2. StaticRow(y, s, me) => Known(b)
  BY DEF Covered, Piece
<1>3. Known(p) /\ p.size = len + 16 /\ p.item = [sealed |-> x]
  BY DEF Piece
<1>4. b.size = 48
  BY DEF Covered, Piece
<1>5. \/ words = <<a>>
      \/ words = <<b>> /\ StaticRow(y, s, me)
      \/ words = <<a, b>> /\ StaticRow(y, s, me)
  BY DEF Words, StaticRow
<1> HIDE DEF a, b, p, Known
<1>6. \/ m = <<a, p>>
      \/ m = <<b, p>> /\ StaticRow(y, s, me)
      \/ m = <<a, b, p>> /\ StaticRow(y, s, me)
  BY <1>5, AppendToFew
<1> HIDE DEF m
<1>7. IsSeq(m) /\ Len(m) \in 1..3 /\ m[Len(m)] = p
  <2>1. CASE m = <<a, p>>
    BY <2>1 DEF IsSeq
  <2>2. CASE m = <<b, p>>
    BY <2>2 DEF IsSeq
  <2>3. CASE m = <<a, b, p>>
    BY <2>3 DEF IsSeq
  <2> QED BY <1>6, <2>1, <2>2, <2>3
<1>8. Size(m) <= len + Overhead
  <2>1. CASE m = <<a, p>>
    BY <1>1, <1>3, <2>1 DEF Size, SizeAt, Overhead
  <2>2. CASE m = <<b, p>>
    BY <1>4, <1>3, <2>2 DEF Size, SizeAt, Overhead
  <2>3. CASE m = <<a, b, p>>
    BY <1>1, <1>3, <1>4, <2>3 DEF Size, SizeAt, Overhead
  <2> QED BY <1>6, <2>1, <2>2, <2>3
<1>9. \A i \in 1..Len(m) : Known(m[i])
  <2>1. CASE m = <<a, p>>
    BY <1>1, <1>3, <2>1
  <2>2. CASE m = <<b, p>> /\ StaticRow(y, s, me)
    BY <1>2, <1>3, <2>2
  <2>3. CASE m = <<a, b, p>> /\ StaticRow(y, s, me)
    BY <1>1, <1>2, <1>3, <2>3
  <2> QED BY <1>6, <2>1, <2>2, <2>3
<1>10. MessageForm(m, x, y, s, me, len)
  BY <1>3, <1>7, <1>8, <1>9 DEF Known, MessageForm
<1> QED BY <1>10 DEF m, p

\* What a ready session records of itself.
LEMMA CompletedWhenReady ==
  ASSUME NEW p \in Party, NEW c \in 1..MaxConnections, NEW s, NEW me, Shape(s, me),
         s.ready = TRUE, me.initiator = (p = Client), me.ephemeral = Ephemeral(p, c)
  PROVE  CompletedForm([party |-> p, conn |-> c, hash |-> s.hash,
                        send |-> s.sendKey, receive |-> s.receiveKey])
<1> DEFINE d == [party |-> p, conn |-> c, hash |-> s.hash,
                 send |-> s.sendKey, receive |-> s.receiveKey]
<1> DEFINE K == s.sendKey.of
<1>1. me.initiator = (p = Client) /\ me.ephemeral = Ephemeral(p, c)
  OBVIOUS
<1>2. Identity(s, me) /\ Transcript(s, me) /\ Established(s, me)
  BY DEF Shape
<1>3. s.pattern \in {XX, KK} /\ s.step = Steps(s.pattern)
  BY <1>2 DEF Identity
<1>4. Chains(K, s.pattern, s.step, me, s.remoteEphemeral)
  BY <1>2 DEF Established
<1>5. IsSeq(K) /\ Len(K) = CkLen(s.pattern, Steps(s.pattern)) /\ K[1] = [name |-> s.pattern]
  BY <1>3, <1>4 DEF Chains
<1>6. K[1].name = s.pattern
  BY <1>5
<1>7. K[EphAt(s.pattern, p = Client)] = [key |-> Ephemeral(p, c)]
  <2>1. s.step >= EphBy(me.initiator)
    BY <1>3 DEF Steps, EphBy
  <2> QED BY <1>1, <1>4, <2>1 DEF Chains
<1>8. /\ s.sendKey = [of |-> K, split |-> IF p = Client THEN 1 ELSE 2]
      /\ s.receiveKey = [of |-> K, split |-> IF p = Client THEN 2 ELSE 1]
  BY <1>1, <1>2 DEF Established
<1>9. LastSeal(s.hash).k = [of |-> K, out |-> 2] /\ LastSeal(s.hash).n = 0
  BY <1>2 DEF Established
<1>10. EndsSealed(s.hash)
  <2>1. s.step > 0
    BY <1>3 DEF Steps
  <2> QED BY <1>2, <2>1 DEF Transcript
<1>11. /\ d.party = p /\ d.conn = c /\ d.hash = s.hash /\ d.send = s.sendKey
       /\ d.receive = s.receiveKey
       /\ d = [party |-> d.party, conn |-> d.conn, hash |-> d.hash,
               send |-> d.send, receive |-> d.receive]
  OBVIOUS
<1> HIDE DEF d, K
<1>12. d.send.of = K
  BY <1>11 DEF K
<1>13. CompletedForm(d)
  BY <1>3, <1>5, <1>6, <1>7, <1>8, <1>9, <1>10, <1>11, <1>12 DEF CompletedForm
<1> QED BY <1>13 DEF d

\* A call that fails the session keeps the invariant.
LEMMA LeavesDead ==
  ASSUME IInv, NEW p \in Party, NEW r, r.s = Dead, Leaves(p, r, <<>>), received' = received
  PROVE  IInv'
<1>1. ~r.s.ready
  BY DEF Dead, Zeroed
<1>2. /\ state' = [state EXCEPT ![p] = Dead]
      /\ UNCHANGED <<psk, prologue, pin, conn, wire, wrote, completed, received>>
  BY <1>1 DEF Leaves, config
<1> QED BY <1>2, FailKeeps

\* A step that is written: its ciphertexts are new, and all that it sends is
\* accounted for.
LEMMA WriteStepKeeps ==
  ASSUME IInv, NEW p \in Party, Shape(state[p], Me(p)), conn[p] > 0,
         NEW r, NEW x, NEW y, NEW words, NEW row, NEW m,
         WriteStep(state[p], r, x, y, words, row, Me(p)),
         m = Append(words, Piece(PayloadLen + 16, [sealed |-> x])),
         state' = [state EXCEPT ![p] = r], wire' = wire \cup {m},
         wrote' = wrote \cup {[by |-> p, hash |-> r.hash]},
         completed' = IF r.ready THEN completed \cup {Session(p, r)} ELSE completed,
         UNCHANGED <<psk, prologue, pin, conn, received>>
  PROVE  IInv'
<1> DEFINE s == state[p]
<1> DEFINE me == Me(p)
<1>1. /\ DOMAIN state' = Party /\ state'[p] = r
      /\ \A q \in Party \ {p} : state'[q] = state[q]
      /\ DOMAIN received' = Party /\ conn' \in [Party -> 0..MaxConnections]
      /\ conn[p] \in 1..MaxConnections /\ conn' = conn
  <2>1. conn[p] \in 0..MaxConnections
    BY DEF IInv, ConfigOK
  <2> QED BY <2>1, SessionAssumption DEF IInv, ConfigOK
<1>2. /\ row \in Rows /\ row.payload = TRUE /\ row.pattern = s.pattern /\ row.step = s.step
      /\ row.initiator = me.initiator /\ s.ready = FALSE
      /\ SealedBy(x, row, me) /\ Words(words, y, s, me)
      /\ Shape(r, me) /\ r.step = s.step + 1 /\ r.pattern = s.pattern /\ Remotes(s, r)
      /\ r.sendNonce = 0 /\ r.receiveNonce = 0
      /\ r.hash = Append(x.ad, [sealed |-> x]) /\ LastSeal(r.hash) = x
      /\ r.ready <=> s.step + 1 = Steps(s.pattern)
  BY DEF WriteStep
<1>3. /\ s.failed = FALSE /\ r.failed = FALSE /\ r.ready \in BOOLEAN
      /\ s.sendNonce = 0 /\ s.receiveNonce = 0 /\ row.step \in 0..2
      /\ r.initiator = me.initiator /\ me.initiator = (p = Client)
      /\ me.ephemeral = Ephemeral(p, conn[p])
  <2>1. Identity(s, me) /\ Running(s, me) /\ Identity(r, me)
    BY <1>2 DEF Shape
  <2>2. row.step \in 0..2
    BY <1>2, RowsAre
  <2>3. me.initiator = (p = Client) /\ me.ephemeral = Ephemeral(p, conn[p])
    BY DEF Me, MeOf
  <2> HIDE DEF s, me
  <2> QED BY <2>1, <2>2, <2>3 DEF Identity, Running
<1>4. Me(p)' = me /\ MeOf(p, conn[p])' = me
  BY <1>1 DEF Me, MeOf, PinOf
<1>5. Sealer(row) = p
  BY <1>2, SealersAre
<1> HIDE DEF me
<1>6. Advances
  <2>1. /\ conn'[p] = conn[p] /\ ~state[p].failed
        /\ state'[p].step \in Nat /\ state'[p].step >= state[p].step
        /\ state'[p].sendNonce \in Nat /\ state'[p].sendNonce >= state[p].sendNonce
        /\ state[p].ready => state'[p].ready
    BY <1>1, <1>2, <1>3
  <2>2. wire \subseteq wire' /\ wrote \subseteq wrote' /\ completed \subseteq completed'
    OBVIOUS
  <2>3. UNCHANGED <<psk, prologue, pin>>
    OBVIOUS
  <2> QED BY ONLY IInv, p \in Party, <1>1, <2>1, <2>2, <2>3, AdvancesBy
<1>7. FromHandshake(x)'
  <2> DEFINE after == Append(x.ad, [sealed |-> x])
  <2>1. SealedBy(x, row, MeOf(p, conn[p])')
    BY <1>2, <1>4
  <2>2. [by |-> p, hash |-> after] \in wrote'
    BY <1>2
  <2>3. row.step + 1 = Steps(row.pattern) => \E d \in completed' : d.party = p /\ d.hash = after
    <3>1. Session(p, r).party = p /\ Session(p, r).hash = after
      BY <1>2 DEF Session
    <3> HIDE DEF after
    <3> QED BY <1>2, <1>3, <3>1
  <2>4. state'[p].step > row.step
    BY <1>1, <1>2, <1>3
  <2> HIDE DEF after
  <2>5. HandshakeSeal(x, row, conn[p])'
    <3>1. SealedBy(x, row, MeOf(Sealer(row), conn[p]))'
      BY <1>5, <2>1
    <3>2. conn[p] <= conn[p] /\ conn' = conn
      BY <1>1, SessionAssumption
    <3> QED BY <1>2, <1>5, <2>2, <2>3, <2>4, <3>1, <3>2 DEF HandshakeSeal, after
  <2> QED BY <1>1, <1>2, <2>5 DEF FromHandshake
<1>8. ASSUME StaticRow(y, s, me) PROVE FromHandshake(y)'
  <2>1. PICK other \in Rows : /\ other.payload = FALSE /\ other.pattern = s.pattern
                              /\ other.step = s.step /\ SealedBy(y, other, me)
    BY <1>8 DEF StaticRow
  <2>2. other.initiator = me.initiator
    BY <2>1 DEF SealedBy
  <2>3. Sealer(other) = p
    BY <2>2, SealersAre DEF me
  <2>4. SealedBy(y, other, MeOf(Sealer(other), conn[p]))'
    BY <1>4, <2>1, <2>3
  <2>5. state'[p].step > other.step
    BY <1>1, <1>2, <1>3, <2>1
  <2>6. HandshakeSeal(y, other, conn[p])'
    <3>1. conn[p] <= conn[p] /\ conn' = conn
      BY <1>1, SessionAssumption
    <3> QED BY <2>1, <2>3, <2>4, <2>5, <3>1 DEF HandshakeSeal
  <2> QED BY <1>1, <2>6 DEF FromHandshake
<1>9. /\ IsSeq(m) /\ Len(m) \in 1..3 /\ Size(m) <= PayloadLen + Overhead
      /\ m[Len(m)].item = [sealed |-> x]
      /\ \A i \in 1..Len(m) :
           /\ m[i] = Piece(m[i].size, m[i].item) /\ m[i].size \in Nat
           /\ \/ m[i].item = [key |-> me.ephemeral]
              \/ m[i].item = [sealed |-> x]
              \/ m[i].item = [sealed |-> y] /\ StaticRow(y, s, me)
  <2>1. Words(words, y, s, me)
    BY <1>2
  <2>2. PayloadLen \in Nat
    BY SessionAssumption
  <2>3. m = Append(words, Piece(PayloadLen + 16, [sealed |-> x]))
    OBVIOUS
  <2>4. MessageForm(Append(words, Piece(PayloadLen + 16, [sealed |-> x])), x, y, s, me, PayloadLen)
    BY ONLY <2>1, <2>2, WordsForm
  <2> QED BY <2>3, <2>4 DEF MessageForm
<1>10. MessageOK(m)'
  <2>1. ASSUME NEW i \in 1..Len(m) PROVE ItemOK(m[i].item)'
    <3>1. CASE m[i].item = [key |-> me.ephemeral]
      BY <1>1, <1>3, <3>1 DEF ItemOK
    <3>2. CASE m[i].item = [sealed |-> x]
      <4>1. "sealed" \in DOMAIN m[i].item /\ m[i].item.sealed = x
        BY <3>2
      <4> QED BY <1>7, <3>2, <4>1 DEF ItemOK
    <3>3. CASE m[i].item = [sealed |-> y] /\ StaticRow(y, s, me)
      <4>1. "sealed" \in DOMAIN m[i].item /\ m[i].item.sealed = y
        BY <3>3
      <4> QED BY <1>8, <3>3, <4>1 DEF ItemOK
    <3> QED BY <1>9, <3>1, <3>2, <3>3
  <2> QED BY <1>9, <2>1 DEF MessageOK
<1>11. OnWire(x)'
  <2>1. Len(m) \in 1..Len(m) /\ m \in wire'
    BY <1>9
  <2> QED BY <1>9, <2>1 DEF OnWire
<1>12. r.ready => CompletedOK(Session(p, r))'
  <2> SUFFICES ASSUME r.ready PROVE CompletedOK(Session(p, r))'
    OBVIOUS
  <2> DEFINE d == [party |-> p, conn |-> conn[p], hash |-> r.hash,
                   send |-> r.sendKey, receive |-> r.receiveKey]
  <2>1. CompletedForm(d)
    <3>1. r.ready = TRUE
      BY <1>3
    <3>2. conn[p] \in 1..MaxConnections
      BY <1>1
    <3> HIDE DEF me
    <3> QED BY ONLY p \in Party, <1>2, <1>3, <3>1, <3>2, CompletedWhenReady
  <2>2. Session(p, r)' = d
    BY <1>1 DEF Session
  <2>3. d.party = p /\ d.conn = conn[p] /\ d.hash = r.hash
    OBVIOUS
  <2> HIDE DEF d
  <2>4. d.conn <= conn'[d.party]
    BY <1>1, <2>3, SessionAssumption
  <2> QED BY <1>2, <1>11, <2>1, <2>2, <2>3, <2>4 DEF CompletedOK
<1>13. EndOK(p)'
  <2>1. SessionOK(p)'
    BY <1>1, <1>2, <1>4 DEF SessionOK
  <2>2. row.initiator = IF row.step = 1 THEN FALSE ELSE TRUE
    BY <1>2, PayloadRows
  <2>3. (p = Client) <=> (row.step # 1)
    BY <1>2, <1>3, <2>2
  <2>4. KnowsPeer(p)'
    <3>1. HasHeardPsk(p)' => HasHeardPsk(p)
      <4>1. row.step = 0 \/ row.step = 1 \/ row.step = 2
        BY <1>3
      <4>2. state'[p].pattern = state[p].pattern /\ state'[p].step = row.step + 1
            /\ state[p].step = row.step
        BY <1>1, <1>2
      <4> QED BY <2>3, <4>1, <4>2 DEF HasHeardPsk
    <3>2. KnowsPeer(p)
      BY DEF IInv, EndOK
    <3>3. state'[p].remoteStatic = state[p].remoteStatic
      BY <1>1, <1>2 DEF Remotes
    <3>4. PinOf(p)' = PinOf(p)
      BY DEF PinOf
    <3> QED BY <3>1, <3>2, <3>3, <3>4 DEF KnowsPeer
  <2>5. HasPeersWord(p)'
    <3>1. state'[p].step = row.step + 1 /\ state'[p].initiator = (p = Client)
      BY <1>1, <1>2, <1>3
    <3>2. (state'[p].step % 2 = 0) <=> row.step = 1
      BY <1>3, <3>1
    <3>3. ~HasReadLast(p)'
      BY <2>3, <3>1, <3>2 DEF HasReadLast
    <3> QED BY <3>3 DEF HasPeersWord
  <2>6. SealIsOnWire(p)'
    BY <1>1, <1>2, <1>11 DEF SealIsOnWire
  <2>7. HasCompleted(p)'
    <3>1. Session(p, r)' = Session(p, r)
      BY <1>1 DEF Session
    <3>2. r.ready => Session(p, r) \in completed'
      OBVIOUS
    <3>3. Session(p, state[p])' = Session(p, r)'
      BY <1>1 DEF Session
    <3> QED BY <1>1, <3>1, <3>2, <3>3 DEF HasCompleted
  <2>8. HasReceived(p) /\ Len(received[p]) = 0
    BY <1>3 DEF IInv, EndOK, HasReceived
  <2>9. HasReceived(p)' /\ FramesOf(p)'
    <3>1. MaxFrames \in Nat
      BY SessionAssumption
    <3>2. IsSeq(received'[p]) /\ Len(received'[p]) = 0
      BY <2>8 DEF HasReceived
    <3> QED BY <1>1, <1>2, <3>1, <3>2 DEF HasReceived, FramesOf
  <2> QED BY <2>1, <2>4, <2>5, <2>6, <2>7, <2>9 DEF EndOK
<1>14. OneSealPerNonce'
  <2> DEFINE S == {x} \cup {z \in {y} : StaticRow(y, s, me)}
  <2>1. Seals(m) \subseteq S
    <3> SUFFICES ASSUME NEW z \in Seals(m) PROVE z \in S
      OBVIOUS
    <3>1. PICK i \in 1..Len(m) : "sealed" \in DOMAIN m[i].item /\ z = m[i].item.sealed
      BY DEF Seals
    <3>2. CASE m[i].item = [key |-> me.ephemeral]
      BY <3>1, <3>2
    <3>3. CASE m[i].item = [sealed |-> x]
      BY <3>1, <3>3
    <3>4. CASE m[i].item = [sealed |-> y] /\ StaticRow(y, s, me)
      BY <3>1, <3>4
    <3> QED BY <1>9, <3>2, <3>3, <3>4
  <2>2. ASSUME NEW z \in S
        PROVE  \E other \in Rows : /\ SealedBy(z, other, me) /\ other.step = s.step
                                   /\ z = x => other.payload = TRUE \/ StaticRow(y, s, me)
    BY <1>2 DEF StaticRow
  <2>3. ASSUME StaticRow(y, s, me) PROVE ~(x.k = y.k /\ x.n = y.n)
    <3> SUFFICES ASSUME x.k = y.k, x.n = y.n PROVE FALSE
      OBVIOUS
    <3>1. PICK other \in Rows : /\ other.payload = FALSE /\ other.pattern = s.pattern
                                /\ SealedBy(y, other, me)
      BY <2>3 DEF StaticRow
    <3>2. row.n = other.n /\ row.ck = other.ck /\ row.pattern = other.pattern
      BY <1>2, <3>1 DEF SealedBy
    <3>3. row = other
      BY <1>2, <3>2, RowByKey
    <3> QED BY <1>2, <3>1, <3>3
  <2>4. \A u, v \in S : u.k = v.k /\ u.n = v.n => u = v
    BY <2>3
  <2>5. ASSUME NEW z \in S, NEW w \in SealedOnWire, z.k = w.k, z.n = w.n PROVE FALSE
    <3>1. PICK other \in Rows : SealedBy(z, other, Me(p)) /\ other.step = s.step
      BY <2>2 DEF me
    <3>2. HistoryOK /\ ~state[p].failed
      BY <1>3 DEF IInv
    <3>3. OnWire(w)
      BY <3>2, SealedIsOnWire
    <3>4. state[p].step = other.step
      BY <3>1
    <3>5. w.k = z.k /\ w.n = z.n
      BY <2>5
    <3> QED BY ONLY p \in Party, <3>1, <3>2, <3>3, <3>4, <3>5, HandshakeSealIsNew
  <2> HIDE DEF S
  <2>6. OneSealPerNonce /\ wire' = wire \cup {m}
    BY DEF IInv
  <2>7. \A z \in S, w \in SealedOnWire : ~(z.k = w.k /\ z.n = w.n)
    BY <2>5
  <2> QED BY ONLY <2>1, <2>4, <2>6, <2>7, OneSealWith
<1>15. /\ \A q \in wire' \ wire : MessageOK(q)'
       /\ \A d \in completed' \ completed : CompletedOK(d)'
  <2>1. \A q \in wire' \ wire : q = m
    OBVIOUS
  <2>2. Session(p, r)' = Session(p, r)
    BY <1>1 DEF Session
  <2>3. \A d \in completed' \ completed : r.ready /\ d = Session(p, r)'
    BY <1>3, <2>2
  <2>4. ASSUME NEW d \in completed' \ completed PROVE CompletedOK(d)'
    BY <1>12, <2>3
  <2> QED BY <1>10, <2>1, <2>4
<1>16. \A q \in Party \ {p} : /\ state'[q] = state[q] /\ conn'[q] = conn[q]
                              /\ received'[q] = received[q]
  BY <1>1
<1> QED BY ONLY IInv, p \in Party, <1>1, <1>6, <1>13, <1>14, <1>15, <1>16, StepKeeps

\* thalovant_noise_write_message() by either end keeps the invariant.
LEMMA WriteKeeps ==
  ASSUME IInv, NEW p \in Party, NEW capacity, Write(p, capacity)
  PROVE  IInv'
<1> DEFINE s == state[p]
<1> DEFINE me == Me(p)
<1> DEFINE r == NoiseWrite(s, "payload", PayloadLen, capacity)
<1>1. Leaves(p, r, r.out) /\ received' = received
  BY DEF Write
<1>2. SessionOK(p)
  BY DEF IInv, EndOK
<1> HIDE DEF r
<1>3. ASSUME r.s = Dead, r.out = <<>> PROVE IInv'
  BY ONLY <1>1, <1>3, IInv, p \in Party, LeavesDead
<1>4. CASE s \in {Zeroed, Dead}
  <2>1. r = Failure("INVALID") /\ Failure("INVALID").s = Dead /\ Failure("INVALID").out = <<>>
    <3> HIDE DEF s
    <3> QED BY <1>4, DeadStays DEF r
  <2> QED BY <1>3, <2>1
<1>5. CASE Shape(s, me) /\ conn[p] > 0
  <2>1. me.initiator \in BOOLEAN
    BY DEF Me, MeOf
  <2>2. PayloadLen \in Nat
    BY SessionAssumption
  <2>3. Writes(s, r, me, PayloadLen)
    <3> HIDE DEF me, s
    <3> QED BY <1>5, <2>1, <2>2, NoiseWriteDoes DEF r
  <2>4. ASSUME NEW x, NEW y, NEW words, NEW row,
               WriteStep(s, r.s, x, y, words, row, me),
               r.out = Append(words, Piece(PayloadLen + 16, [sealed |-> x]))
        PROVE  IInv'
    <3> DEFINE m == r.out
    <3>1. m # <<>>
      <4>1. Words(words, y, s, me)
        BY <2>4 DEF WriteStep
      <4>2. MessageForm(m, x, y, s, me, PayloadLen)
        <5> HIDE DEF me, s
        <5> QED BY <2>2, <2>4, <4>1, WordsForm
      <4>3. Len(m) \in 1..3
        BY <4>2 DEF MessageForm
      <4> QED BY <4>3
    <3> HIDE DEF m
    <3>2. ~state[p].ready
      BY <2>4 DEF WriteStep
    <3>3. /\ state' = [state EXCEPT ![p] = r.s] /\ wire' = wire \cup {m}
          /\ wrote' = wrote \cup {[by |-> p, hash |-> r.s.hash]}
          /\ completed' = IF r.s.ready THEN completed \cup {Session(p, r.s)} ELSE completed
      BY <1>1, <3>1, <3>2 DEF Leaves, m
    <3>4. UNCHANGED <<psk, prologue, pin, conn, received>>
      BY <1>1 DEF Leaves, config
    <3>5. m = Append(words, Piece(PayloadLen + 16, [sealed |-> x]))
      BY <2>4 DEF m
    <3>6. /\ Shape(state[p], Me(p)) /\ conn[p] > 0
          /\ WriteStep(state[p], r.s, x, y, words, row, Me(p))
      BY <1>5, <2>4
    <3> QED BY ONLY IInv, p \in Party, <3>3, <3>4, <3>5, <3>6, WriteStepKeeps
  <2> QED BY <1>3, <2>3, <2>4 DEF Writes
<1> QED BY <1>2, <1>4, <1>5 DEF SessionOK

-----------------------------------------------------------------------------
(* Reading. *)

\* What an end reads next was sealed by its peer, in that step.
LEMMA PeerSealed ==
  ASSUME HistoryOK, NEW p \in Party, NEW row \in Rows, row.initiator # Me(p).initiator,
         NEW x, OnWire(x), Len(x.ad) = row.len, Begins(x.ad, row.pattern, Me(p))
  PROVE  Sealer(row) = Peer(p) /\ \E c \in 1..MaxConnections : HandshakeSeal(x, row, c)
<1>1. Sealer(row) = Peer(p)
  BY SealersAre
<1>2. ~FromSession(x)
  <2> SUFFICES ASSUME FromSession(x) PROVE FALSE
    OBVIOUS
  <2>1. PICK d \in completed : SessionSeal(x, d)
    BY DEF FromSession
  <2>2. x = [k |-> d.send, n |-> x.n, ad |-> <<>>,
             pt |-> [from |-> d.party, conn |-> d.conn, seq |-> x.n + 1]]
    BY <2>1 DEF SessionSeal
  <2>3. x.ad = <<>>
    BY <2>2
  <2>4. row.len # 0
    BY DEF Rows, Row
  <2> QED BY <2>3, <2>4
<1>3. PICK other \in Rows, c \in 1..MaxConnections : HandshakeSeal(x, other, c)
  BY <1>2, WireSeal DEF FromHandshake
<1>4. Len(x.ad) = other.len /\ Begins(x.ad, other.pattern, MeOf(Sealer(other), c))
  BY <1>3 DEF HandshakeSeal, SealedBy
<1>5. [name |-> other.pattern] = [name |-> row.pattern]
  BY <1>4 DEF Begins
<1>6. other.pattern = row.pattern
  BY <1>5
<1>7. other = row
  BY <1>4, <1>6, RowByLength
<1> QED BY <1>1, <1>3, <1>7

\* Two ends in one transcript have the same offer, the same password and, in
\* KK, each other's pins.
LEMMA SameTranscript ==
  ASSUME NEW p \in Party, NEW q \in Party, q = Peer(p), NEW c, NEW d, NEW hash,
         NEW pattern \in {XX, KK}, Begins(hash, pattern, MeOf(p, c)), Begins(hash, pattern, MeOf(q, d)),
         pattern = XX => Len(hash) >= 7, pattern = KK => Len(hash) >= 5
  PROVE  /\ psk[p] = psk[q] /\ prologue[p] = prologue[q]
         /\ pattern = KK => PinOf(p) = Static(q)
<1> DEFINE me == MeOf(p, c)
<1> DEFINE you == MeOf(q, d)
<1>1. /\ me.psk = psk[p] /\ you.psk = psk[q]
      /\ me.prologue = prologue[p] /\ you.prologue = prologue[q]
      /\ me.static = Static(p) /\ you.static = Static(q) /\ me.pin = PinOf(p)
      /\ me.initiator = (p = Client) /\ you.initiator = (q = Client)
  BY DEF MeOf
<1>2. Begins(hash, pattern, me) /\ Begins(hash, pattern, you)
  OBVIOUS
<1> HIDE DEF me, you
<1>3. [prologue |-> me.prologue] = [prologue |-> you.prologue]
  BY <1>2 DEF Begins
<1>4. me.prologue = you.prologue
  BY <1>3
<1>5. [psk |-> me.psk] = [psk |-> you.psk]
  BY <1>2 DEF Begins
<1>6. me.psk = you.psk
  BY <1>5
<1>7. ASSUME pattern = KK PROVE me.pin = you.static
  <2>1. /\ [key |-> InitiatorStatic(me)] = [key |-> InitiatorStatic(you)]
        /\ [key |-> ResponderStatic(me)] = [key |-> ResponderStatic(you)]
    BY <1>2, <1>7 DEF Begins
  <2>2. InitiatorStatic(me) = InitiatorStatic(you) /\ ResponderStatic(me) = ResponderStatic(you)
    BY <2>1
  <2>3. CASE p = Client
    <3>1. q # Client
      BY <2>3, SessionAssumption DEF Peer
    <3> QED BY <1>1, <2>2, <2>3, <3>1 DEF InitiatorStatic, ResponderStatic
  <2>4. CASE p # Client
    <3>1. q = Client
      BY <2>4 DEF Peer
    <3> QED BY <1>1, <2>2, <2>4, <3>1 DEF InitiatorStatic, ResponderStatic
  <2> QED BY <2>3, <2>4
<1> QED BY <1>1, <1>4, <1>6, <1>7

\* A static key read from the wire is the peer's.
LEMMA PeerNamed ==
  ASSUME HistoryOK, NEW p \in Party, NEW row \in Rows, row.initiator # Me(p).initiator,
         row.payload = FALSE, row.pattern = XX, NEW t, NEW y, NEW m,
         Names(y, row.len, t, m, Me(p)), \A z : Holds(m, z) => OnWire(z)
  PROVE  t.remoteStatic = Static(Peer(p)) /\ PinOf(p) \in {NoPin, Static(Peer(p))}
<1>1. /\ OnWire(y) /\ Len(y.ad) = row.len /\ Begins(y.ad, row.pattern, Me(p))
      /\ t.remoteStatic = AsKey(y.pt) /\ Me(p).pin \in {NoPin, AsKey(y.pt)}
  BY DEF Names
<1>2. Sealer(row) = Peer(p) /\ \E c \in 1..MaxConnections : HandshakeSeal(y, row, c)
  BY ONLY <1>1, HistoryOK, p \in Party, row \in Rows, row.initiator # Me(p).initiator, PeerSealed
<1>3. PICK c \in 1..MaxConnections : HandshakeSeal(y, row, c)
  BY <1>2
<1>4. y.pt = [key |-> Static(Peer(p))]
  BY <1>2, <1>3 DEF HandshakeSeal, SealedBy, MeOf
<1>5. AsKey(y.pt) = Static(Peer(p))
  BY <1>4 DEF AsKey
<1> QED BY <1>1, <1>5 DEF Me, MeOf

\* What a read teaches an end of its peer.
LEMMA ReadTeaches ==
  ASSUME HistoryOK, NEW p \in Party, Shape(state[p], Me(p)),
         NEW r, NEW x, NEW y, NEW row, NEW m, ReadStep(state[p], r, x, y, row, m, Me(p)),
         \A z : Holds(m, z) => OnWire(z),
         r.pattern = XX => r.step >= IF p = Client THEN 2 ELSE 3
  PROVE  /\ psk[p] = psk[Peer(p)] /\ prologue[p] = prologue[Peer(p)]
         /\ r.remoteStatic = Static(Peer(p))
         /\ PinOf(p) \in {NoPin, Static(Peer(p))}
<1> DEFINE s == state[p]
<1> DEFINE q == Peer(p)
<1>1. /\ row \in Rows /\ row.payload = TRUE /\ row.pattern = s.pattern /\ row.step = s.step
      /\ row.initiator # Me(p).initiator
      /\ Holds(m, x) /\ Len(x.ad) = row.len /\ Begins(x.ad, row.pattern, Me(p))
      /\ r.step = s.step + 1 /\ r.pattern = s.pattern /\ Heard(s, r, y, m, Me(p))
  BY DEF ReadStep, Expects
<1>2. OnWire(x)
  BY <1>1
<1>3. Sealer(row) = q /\ \E c \in 1..MaxConnections : HandshakeSeal(x, row, c)
  BY ONLY <1>1, <1>2, HistoryOK, p \in Party, PeerSealed
<1>4. PICK c \in 1..MaxConnections : HandshakeSeal(x, row, c)
  BY <1>3
<1>5. Begins(x.ad, row.pattern, MeOf(q, c))
  BY <1>3, <1>4 DEF HandshakeSeal, SealedBy
<1>6. Begins(x.ad, row.pattern, MeOf(p, conn[p]))
  BY <1>1 DEF Me
<1>7. q \in Party /\ row.pattern \in {XX, KK} /\ row.step \in 0..2
  <2>1. row.pattern \in {XX, KK} /\ row.step \in 0..2
    BY <1>1, RowsAre
  <2> QED BY <2>1 DEF Peer, Party
<1>8. Me(p).initiator = (p = Client)
  BY DEF Me, MeOf
<1>9. /\ row.pattern = XX => row.len >= 7 /\ row.step = IF p = Client THEN 1 ELSE 2
      /\ row.pattern = KK => row.len >= 5
  <2>1. /\ row.pattern = XX => row.len = 3 \/ row.len >= 7
        /\ row.pattern = KK => row.len >= 5
        /\ row.initiator = IF row.step = 1 THEN FALSE ELSE TRUE
    BY <1>1, PayloadRows
  <2>2. row.pattern = XX => row.step = IF p = Client THEN 1 ELSE 2
    <3>1. row.step = 0 \/ row.step = 1 \/ row.step = 2
      BY <1>7
    <3>2. row.step = 1 <=> p = Client
      <4>1. CASE row.step = 1
        <5>1. row.initiator = FALSE
          BY <2>1, <4>1
        <5>2. p = Client
          BY <1>1, <1>8, <5>1
        <5> QED BY <4>1, <5>2
      <4>2. CASE row.step # 1
        <5>1. row.initiator = TRUE
          BY <2>1, <4>2
        <5>2. p # Client
          BY <1>1, <1>8, <5>1
        <5> QED BY <4>2, <5>2
      <4> QED BY <4>1, <4>2
    <3>3. r.pattern = row.pattern /\ r.step = row.step + 1
      BY <1>1
    <3> HIDE DEF s
    <3> QED BY <3>1, <3>2, <3>3
  <2>3. row.pattern = XX /\ row.step # 0 => row.len # 3
    BY <1>1 DEF Rows, Row, XX, KK
  <2> QED BY <2>1, <2>2, <2>3
<1>10. /\ psk[p] = psk[q] /\ prologue[p] = prologue[q]
       /\ row.pattern = KK => PinOf(p) = Static(q)
  <2>1. (row.pattern = XX => Len(x.ad) >= 7) /\ (row.pattern = KK => Len(x.ad) >= 5)
    BY <1>1, <1>9
  <2>2. q = Peer(p)
    OBVIOUS
  <2> HIDE DEF q
  <2> QED BY ONLY p \in Party, <1>5, <1>6, <1>7, <2>1, <2>2, SameTranscript
<1>11. CASE row.pattern = KK
  <2>1. r.remoteStatic = s.remoteStatic
    BY <1>1, <1>11 DEF Heard
  <2>2. s.remoteStatic = PinOf(p)
    BY <1>1, <1>11 DEF Shape, Identity, Me, MeOf
  <2> QED BY <1>10, <1>11, <2>1, <2>2
<1>12. CASE row.pattern = XX
  <2> DEFINE named == IF p = Client THEN Row(XX, 5, FALSE, 1, 4, 2, 0, FALSE)
                                    ELSE Row(XX, 8, TRUE, 2, 6, 3, 1, FALSE)
  <2>1. /\ named \in Rows /\ named.initiator # Me(p).initiator /\ named.payload = FALSE
        /\ named.pattern = XX /\ named.len = IF p = Client THEN 5 ELSE 8
    BY <1>8 DEF Rows, Row
  <2> HIDE DEF named
  <2>2. Names(y, named.len, r, m, Me(p))
    BY <1>1, <1>9, <1>12, <2>1 DEF Heard
  <2>3. \A z : Holds(m, z) => OnWire(z)
    OBVIOUS
  <2>4. r.remoteStatic = Static(q) /\ PinOf(p) \in {NoPin, Static(q)}
    BY ONLY HistoryOK, p \in Party, <2>1, <2>2, <2>3, PeerNamed
  <2> QED BY <1>10, <2>4
<1> QED BY <1>7, <1>11, <1>12

\* A step that is read: the ciphertext it opened was sealed in this very
\* transcript, so its sender is the peer, in the step before.
LEMMA ReadStepKeeps ==
  ASSUME IInv, NEW p \in Party, Shape(state[p], Me(p)), conn[p] > 0,
         NEW r, NEW x, NEW y, NEW row, NEW m, ReadStep(state[p], r, x, y, row, m, Me(p)),
         \A z : Holds(m, z) => OnWire(z),
         state' = [state EXCEPT ![p] = r],
         completed' = IF r.ready THEN completed \cup {Session(p, r)} ELSE completed,
         UNCHANGED <<psk, prologue, pin, conn, wire, wrote, received>>
  PROVE  IInv'
<1> DEFINE s == state[p]
<1> DEFINE me == Me(p)
<1>1. /\ DOMAIN state' = Party /\ state'[p] = r
      /\ \A q \in Party \ {p} : /\ state'[q] = state[q] /\ conn'[q] = conn[q]
                                /\ received'[q] = received[q]
      /\ DOMAIN received' = Party /\ conn' \in [Party -> 0..MaxConnections]
      /\ conn[p] \in 1..MaxConnections /\ conn' = conn
  <2>1. conn[p] \in 0..MaxConnections
    BY DEF IInv, ConfigOK
  <2> QED BY <2>1, SessionAssumption DEF IInv, ConfigOK
<1>2. /\ row \in Rows /\ row.payload = TRUE /\ row.pattern = s.pattern /\ row.step = s.step
      /\ row.initiator # me.initiator /\ s.ready = FALSE
      /\ Holds(m, x) /\ Len(x.ad) = row.len /\ Begins(x.ad, row.pattern, me)
      /\ Shape(r, me) /\ r.step = s.step + 1 /\ r.pattern = s.pattern
      /\ r.sendNonce = 0 /\ r.receiveNonce = 0
      /\ r.hash = Append(x.ad, [sealed |-> x]) /\ LastSeal(r.hash) = x
      /\ r.ready <=> s.step + 1 = Steps(s.pattern)
  BY DEF ReadStep, Expects
<1>3. /\ s.failed = FALSE /\ r.failed = FALSE /\ r.ready \in BOOLEAN
      /\ s.sendNonce = 0 /\ s.receiveNonce = 0 /\ row.step \in 0..2
      /\ me.initiator = (p = Client) /\ me.ephemeral = Ephemeral(p, conn[p])
  <2>1. Identity(s, me) /\ Running(s, me) /\ Identity(r, me)
    BY <1>2 DEF Shape
  <2>2. row.step \in 0..2
    BY <1>2, RowsAre
  <2>3. me.initiator = (p = Client) /\ me.ephemeral = Ephemeral(p, conn[p])
    BY DEF Me, MeOf
  <2> HIDE DEF s, me
  <2> QED BY <2>1, <2>2, <2>3 DEF Identity, Running
<1>4. Me(p)' = me
  BY <1>1 DEF Me, MeOf, PinOf
<1>5. OnWire(x)
  BY <1>2
<1>6. Sealer(row) = Peer(p) /\ \E c \in 1..MaxConnections : HandshakeSeal(x, row, c)
  <2>1. HistoryOK
    BY DEF IInv
  <2>2. row.initiator # Me(p).initiator /\ Begins(x.ad, row.pattern, Me(p))
    BY <1>2
  <2> QED BY ONLY <1>2, <1>5, <2>1, <2>2, p \in Party, PeerSealed
<1>7. PICK c \in 1..MaxConnections : HandshakeSeal(x, row, c)
  BY <1>6
<1>8. /\ [by |-> Peer(p), hash |-> r.hash] \in wrote
      /\ r.ready => \E d \in completed : d.party = Peer(p) /\ d.hash = r.hash
  BY <1>2, <1>6, <1>7 DEF HandshakeSeal
<1> HIDE DEF me
<1>9. Advances
  <2>1. /\ conn'[p] = conn[p] /\ ~state[p].failed
        /\ state'[p].step \in Nat /\ state'[p].step >= state[p].step
        /\ state'[p].sendNonce \in Nat /\ state'[p].sendNonce >= state[p].sendNonce
        /\ state[p].ready => state'[p].ready
    BY <1>1, <1>2, <1>3
  <2>2. wire \subseteq wire' /\ wrote \subseteq wrote' /\ completed \subseteq completed'
    OBVIOUS
  <2>3. UNCHANGED <<psk, prologue, pin>>
    OBVIOUS
  <2> QED BY ONLY IInv, p \in Party, <1>1, <2>1, <2>2, <2>3, AdvancesBy
<1>10. OnWire(x)'
  BY <1>5 DEF OnWire
<1>11. r.ready => CompletedOK(Session(p, r))'
  <2> SUFFICES ASSUME r.ready PROVE CompletedOK(Session(p, r))'
    OBVIOUS
  <2> DEFINE d == [party |-> p, conn |-> conn[p], hash |-> r.hash,
                   send |-> r.sendKey, receive |-> r.receiveKey]
  <2>1. CompletedForm(d)
    <3>1. r.ready = TRUE
      BY <1>3
    <3>2. conn[p] \in 1..MaxConnections
      BY <1>1
    <3> QED BY ONLY p \in Party, <1>2, <1>3, <3>1, <3>2, CompletedWhenReady
  <2>2. Session(p, r)' = d
    BY <1>1 DEF Session
  <2>3. d.party = p /\ d.conn = conn[p] /\ d.hash = r.hash
    OBVIOUS
  <2> HIDE DEF d
  <2>4. d.conn <= conn'[d.party]
    BY <1>1, <2>3, SessionAssumption
  <2> QED BY <1>2, <1>10, <2>1, <2>2, <2>3, <2>4 DEF CompletedOK
<1>12. EndOK(p)'
  <2>1. SessionOK(p)'
    BY <1>1, <1>2, <1>4 DEF SessionOK
  <2>2. KnowsPeer(p)'
    <3> SUFFICES ASSUME HasHeardPsk(p)' PROVE KnowsPeer(p)'
      BY DEF KnowsPeer
    <3>1. r.pattern = XX => r.step >= IF p = Client THEN 2 ELSE 3
      BY <1>1 DEF HasHeardPsk
    <3>2. HistoryOK
      BY DEF IInv
    <3>3. /\ Shape(state[p], Me(p)) /\ ReadStep(state[p], r, x, y, row, m, Me(p))
          /\ \A z : Holds(m, z) => OnWire(z)
      OBVIOUS
    <3>4. /\ psk[p] = psk[Peer(p)] /\ prologue[p] = prologue[Peer(p)]
          /\ r.remoteStatic = Static(Peer(p))
          /\ PinOf(p) \in {NoPin, Static(Peer(p))}
      BY ONLY p \in Party, <3>1, <3>2, <3>3, ReadTeaches
    <3>5. PinOf(p)' = PinOf(p)
      BY DEF PinOf
    <3> QED BY <1>1, <3>4, <3>5 DEF KnowsPeer
  <2>3. HasPeersWord(p)'
    BY <1>1, <1>8 DEF HasPeersWord
  <2>4. SealIsOnWire(p)'
    BY <1>1, <1>2, <1>10 DEF SealIsOnWire
  <2>5. HasCompleted(p)'
    <3>1. Session(p, r)' = Session(p, r)
      BY <1>1 DEF Session
    <3>2. r.ready => Session(p, r) \in completed'
      OBVIOUS
    <3>3. Session(p, state[p])' = Session(p, r)'
      BY <1>1 DEF Session
    <3> QED BY <1>1, <3>1, <3>2, <3>3 DEF HasCompleted
  <2>6. HasReceived(p) /\ Len(received[p]) = 0
    BY <1>3 DEF IInv, EndOK, HasReceived
  <2>7. HasReceived(p)' /\ FramesOf(p)'
    <3>1. MaxFrames \in Nat
      BY SessionAssumption
    <3>2. IsSeq(received'[p]) /\ Len(received'[p]) = 0
      BY <2>6 DEF HasReceived
    <3> QED BY <1>1, <1>2, <3>1, <3>2 DEF HasReceived, FramesOf
  <2> QED BY <2>1, <2>2, <2>3, <2>4, <2>5, <2>7 DEF EndOK
<1>13. OneSealPerNonce'
  BY OneSealStays DEF IInv
<1>14. /\ \A q \in wire' \ wire : MessageOK(q)'
       /\ \A d \in completed' \ completed : CompletedOK(d)'
  <2>1. \A q \in wire' \ wire : FALSE
    OBVIOUS
  <2>2. Session(p, r)' = Session(p, r)
    BY <1>1 DEF Session
  <2>3. \A d \in completed' \ completed : r.ready /\ d = Session(p, r)'
    BY <1>3, <2>2
  <2>4. ASSUME NEW d \in completed' \ completed PROVE CompletedOK(d)'
    BY <1>11, <2>3
  <2> QED BY <2>1, <2>4
<1> QED BY ONLY IInv, p \in Party, <1>1, <1>9, <1>12, <1>13, <1>14, StepKeeps

\* thalovant_noise_read_message() of anything that may arrive keeps the
\* invariant.
LEMMA ReadKeeps ==
  ASSUME IInv, NEW p \in Party, NEW m \in Arriving, NEW capacity, Read(p, m, capacity)
  PROVE  IInv'
<1> DEFINE s == state[p]
<1> DEFINE me == Me(p)
<1> DEFINE r == NoiseRead(s, m, capacity)
<1>1. Leaves(p, r, <<>>) /\ received' = received
  BY DEF Read
<1>2. SessionOK(p)
  BY DEF IInv, EndOK
<1> HIDE DEF r
<1>3. ASSUME r.s = Dead PROVE IInv'
  BY ONLY <1>1, <1>3, IInv, p \in Party, LeavesDead
<1>4. CASE s \in {Zeroed, Dead}
  <2>1. r = Failure("INVALID") /\ Failure("INVALID").s = Dead
    <3> HIDE DEF s
    <3> QED BY <1>4, DeadStays DEF r
  <2> QED BY <1>3, <2>1
<1>5. CASE Shape(s, me) /\ conn[p] > 0
  <2>1. me.initiator \in BOOLEAN
    BY DEF Me, MeOf
  <2>2. WellFormed(m) /\ \A z : Holds(m, z) => OnWire(z)
    BY ArrivingFromWire DEF IInv, HistoryOK
  <2>3. Reads(s, r, m, me)
    <3> HIDE DEF me, s
    <3> QED BY <1>5, <2>1, <2>2, NoiseReadDoes DEF r
  <2>4. ASSUME NEW x, NEW y, NEW row, ReadStep(s, r.s, x, y, row, m, me)
        PROVE  IInv'
    <3>1. ~state[p].ready
      BY <2>4 DEF ReadStep
    <3>2. /\ state' = [state EXCEPT ![p] = r.s]
          /\ completed' = IF r.s.ready THEN completed \cup {Session(p, r.s)} ELSE completed
          /\ UNCHANGED <<psk, prologue, pin, conn, wire, wrote, received>>
      BY <1>1, <3>1 DEF Leaves, config
    <3>3. /\ Shape(state[p], Me(p)) /\ conn[p] > 0
          /\ ReadStep(state[p], r.s, x, y, row, m, Me(p))
      BY <1>5, <2>4
    <3> QED BY ONLY IInv, p \in Party, <2>2, <3>2, <3>3, ReadStepKeeps
  <2> QED BY <1>3, <2>3, <2>4 DEF Reads
<1> QED BY <1>2, <1>4, <1>5 DEF SessionOK

-----------------------------------------------------------------------------
(* Frames. *)

\* The transport key of an end's session is of its connection: its ephemeral
\* key is in the chaining key.
LEMMA SameChain ==
  ASSUME NEW d, NEW e, CompletedForm(d), CompletedForm(e), d.send.of = e.send.of,
         d.party = e.party
  PROVE  d.conn = e.conn
<1> DEFINE K == d.send.of
<1>1. /\ K[EphAt(K[1].name, d.party = Client)] = [key |-> Ephemeral(d.party, d.conn)]
      /\ K[EphAt(K[1].name, d.party = Client)] = [key |-> Ephemeral(d.party, e.conn)]
  BY DEF CompletedForm
<1> HIDE DEF K
<1>2. [key |-> Ephemeral(d.party, d.conn)] = [key |-> Ephemeral(d.party, e.conn)]
  BY <1>1
<1>3. Ephemeral(d.party, d.conn) = Ephemeral(d.party, e.conn)
  BY <1>2
<1> QED BY <1>3 DEF Ephemeral, KeyPair

\* Which half of the split an end sends with tells who it is.
LEMMA SameSender ==
  ASSUME NEW d, NEW e, CompletedForm(d), CompletedForm(e), d.send = e.send
  PROVE  d.party = e.party /\ d.conn = e.conn
<1> DEFINE K == d.send.of
<1>1. /\ d.party \in Party /\ e.party \in Party
      /\ d.send = [of |-> K, split |-> IF d.party = Client THEN 1 ELSE 2]
      /\ e.send = [of |-> K, split |-> IF e.party = Client THEN 1 ELSE 2]
  BY DEF CompletedForm
<1> DEFINE a == IF d.party = Client THEN 1 ELSE 2
<1> DEFINE b == IF e.party = Client THEN 1 ELSE 2
<1>2. a = b
  <2>1. d.send = [of |-> K, split |-> a] /\ d.send = [of |-> K, split |-> b]
    BY <1>1
  <2> HIDE DEF K, a, b
  <2>2. [of |-> K, split |-> a] = [of |-> K, split |-> b]
    BY <2>1
  <2> QED BY <2>2
<1>3. (d.party = Client) <=> (e.party = Client)
  BY <1>2
<1>4. d.party = e.party
  BY <1>1, <1>3 DEF Party
<1> QED BY <1>4, SameChain

\* No ciphertext of the wire has the key and nonce of the next frame.
LEMMA FrameSealIsNew ==
  ASSUME HistoryOK, NEW p \in Party, NEW d \in completed, d.party = p, d.conn = conn[p],
         ~state[p].failed, state[p].sendNonce \in Nat,
         NEW w, OnWire(w), w.k = d.send, w.n = state[p].sendNonce
  PROVE  FALSE
<1>1. CompletedForm(d)
  BY DEF HistoryOK, CompletedOK
<1>2. CASE FromHandshake(w)
  <2>1. PICK row \in Rows, c \in 1..MaxConnections : HandshakeSeal(w, row, c)
    BY <1>2 DEF FromHandshake
  <2>2. w.k = [of |-> w.k.of, out |-> row.out]
    BY <2>1 DEF HandshakeSeal, SealedBy
  <2>3. d.send = [of |-> d.send.of, split |-> IF d.party = Client THEN 1 ELSE 2]
    BY <1>1 DEF CompletedForm
  <2>4. "split" \in DOMAIN d.send
    BY <2>3
  <2>5. "split" \notin DOMAIN w.k
    BY <2>2
  <2> QED BY <2>4, <2>5
<1>3. CASE FromSession(w)
  <2>1. PICK e \in completed : SessionSeal(w, e)
    BY <1>3 DEF FromSession
  <2>2. w = [k |-> e.send, n |-> w.n, ad |-> <<>>,
             pt |-> [from |-> e.party, conn |-> e.conn, seq |-> w.n + 1]]
    BY <2>1 DEF SessionSeal
  <2>3. w.k = e.send
    BY <2>2
  <2>4. CompletedForm(e)
    BY DEF HistoryOK, CompletedOK
  <2>5. d.party = e.party /\ d.conn = e.conn
    BY <1>1, <2>3, <2>4, SameSender
  <2>6. w.n < state[p].sendNonce
    BY <2>1, <2>5 DEF SessionSeal
  <2> QED BY <2>6
<1> QED BY <1>2, <1>3, WireSeal

\* A frame that is sealed: a new nonce of a completed handshake.
LEMMA EncryptStepKeeps ==
  ASSUME IInv, NEW p \in Party, Shape(state[p], Me(p)), conn[p] > 0,
         state[p].sendNonce < MaxFrames,
         NEW r, Shape(r, Me(p)), Counts(state[p], r, 1, 0), NEW f, NEW m,
         f = FrameSeal(state[p], [from |-> p, conn |-> conn[p], seq |-> state[p].sendNonce + 1]),
         m = <<Piece(PayloadLen + 16, [sealed |-> f])>>,
         state' = [state EXCEPT ![p] = r], wire' = wire \cup {m},
         UNCHANGED <<psk, prologue, pin, conn, wrote, completed, received>>
  PROVE  IInv'
<1> DEFINE s == state[p]
<1>1. /\ DOMAIN state' = Party /\ state'[p] = r
      /\ \A q \in Party \ {p} : /\ state'[q] = state[q] /\ conn'[q] = conn[q]
                                /\ received'[q] = received[q]
      /\ DOMAIN received' = Party /\ conn' \in [Party -> 0..MaxConnections]
      /\ conn[p] \in 1..MaxConnections /\ conn' = conn
  <2>1. conn[p] \in 0..MaxConnections
    BY DEF IInv, ConfigOK
  <2> QED BY <2>1, SessionAssumption DEF IInv, ConfigOK
<1>2. /\ s.ready = TRUE /\ r.ready = TRUE /\ r.failed = FALSE
      /\ r.pattern = s.pattern /\ r.step = s.step /\ r.initiator = s.initiator
      /\ r.hash = s.hash /\ r.remoteStatic = s.remoteStatic /\ r.remoteEphemeral = s.remoteEphemeral
      /\ r.sendKey = s.sendKey /\ r.receiveKey = s.receiveKey
      /\ r.sendNonce = s.sendNonce + 1 /\ r.receiveNonce = s.receiveNonce + 0
  BY DEF Counts, Remotes
<1>3. /\ s.failed = FALSE /\ s.step \in 0..3 /\ s.sendNonce \in Nat /\ s.receiveNonce \in Nat
  <2>1. SessionOK(p)
    BY DEF IInv, EndOK
  <2>2. s.step \in 0..3 /\ s.sendNonce \in Nat /\ s.receiveNonce \in Nat
    BY <2>1, StateTypes
  <2>3. s.failed = FALSE
    BY DEF Shape, Identity
  <2> QED BY <2>2, <2>3
<1>4. Me(p)' = Me(p)
  BY <1>1 DEF Me, MeOf, PinOf
<1> HIDE DEF s
<1>5. Advances
  <2>1. /\ conn'[p] = conn[p] /\ ~state[p].failed
        /\ state'[p].step \in Nat /\ state'[p].step >= state[p].step
        /\ state'[p].sendNonce \in Nat /\ state'[p].sendNonce >= state[p].sendNonce
        /\ state[p].ready => state'[p].ready
    BY <1>1, <1>2, <1>3 DEF s
  <2>2. wire \subseteq wire' /\ wrote \subseteq wrote' /\ completed \subseteq completed'
    OBVIOUS
  <2>3. UNCHANGED <<psk, prologue, pin>>
    OBVIOUS
  <2> QED BY ONLY IInv, p \in Party, <1>1, <2>1, <2>2, <2>3, AdvancesBy
<1>6. PICK d \in completed : /\ d.party = p /\ d.conn = conn[p] /\ d.send = s.sendKey
                             /\ d = Session(p, s)
  <2>1. Session(p, s) \in completed
    BY <1>2 DEF IInv, EndOK, HasCompleted, s
  <2> QED BY <2>1 DEF Session
<1>7. /\ f = [k |-> d.send, n |-> f.n, ad |-> <<>>,
              pt |-> [from |-> d.party, conn |-> d.conn, seq |-> f.n + 1]]
      /\ f.n = s.sendNonce /\ f.k = d.send
  BY <1>6 DEF FrameSeal, s
<1>8. SessionSeal(f, d)'
  <2>1. f.n \in 0..MaxFrames - 1
    <3>1. s.sendNonce < MaxFrames /\ MaxFrames \in Nat
      BY SessionAssumption DEF s
    <3> QED BY <1>3, <1>7, <3>1
  <2>2. state'[p].ready /\ f.n < state'[p].sendNonce
    BY <1>1, <1>2, <1>3, <1>7
  <2> QED BY <1>6, <1>7, <2>1, <2>2 DEF SessionSeal
<1>9. Len(m) = 1 /\ m[1] = Piece(PayloadLen + 16, [sealed |-> f]) /\ IsSeq(m)
  BY DEF IsSeq
<1>10. MessageOK(m)'
  <2> DEFINE item == [sealed |-> f]
  <2>1. FromSession(f)'
    BY <1>6, <1>8 DEF FromSession
  <2>2. "sealed" \in DOMAIN item /\ item = [sealed |-> item.sealed] /\ item.sealed = f
    OBVIOUS
  <2> HIDE DEF item
  <2>3. ItemOK(item)'
    BY <2>1, <2>2 DEF ItemOK
  <2>4. m[1].size = PayloadLen + 16 /\ m[1].item = item /\ m[1] = Piece(m[1].size, m[1].item)
    BY <1>9 DEF Piece, item
  <2>5. PayloadLen + 16 \in Nat /\ PayloadLen + 16 <= PayloadLen + Overhead
    BY SessionAssumption DEF Overhead
  <2>6. Size(m) = PayloadLen + 16
    <3>1. PayloadLen \in Nat
      BY SessionAssumption
    <3> QED BY <1>9, <2>4, <3>1 DEF Size, SizeAt
  <2> QED BY <1>9, <2>3, <2>4, <2>5, <2>6 DEF MessageOK
<1>11. EndOK(p)'
  <2>0. EndOK(p)
    BY DEF IInv
  <2>1. SessionOK(p)'
    BY <1>1, <1>4 DEF SessionOK
  <2>2. KnowsPeer(p)'
    <3>1. HasHeardPsk(p)' = HasHeardPsk(p)
      BY <1>1, <1>2 DEF HasHeardPsk, s
    <3>2. PinOf(p)' = PinOf(p)
      BY DEF PinOf
    <3> QED BY <1>1, <1>2, <2>0, <3>1, <3>2 DEF KnowsPeer, EndOK, s
  <2>3. HasPeersWord(p)'
    <3>1. HasReadLast(p)' => HasReadLast(p)
      BY <1>1, <1>2, <1>3 DEF HasReadLast, s
    <3> QED BY <1>1, <1>2, <2>0, <3>1 DEF HasPeersWord, EndOK, s
  <2>4. SealIsOnWire(p)'
    <3>1. OnWire(LastSeal(s.hash))
      BY <1>2, <2>0 DEF EndOK, SealIsOnWire, s
    <3>2. OnWire(LastSeal(s.hash))'
      <4> DEFINE z == LastSeal(s.hash)
      <4>1. OnWire(z)
        BY <3>1
      <4>2. z' = z
        BY <1>1, <1>2 DEF s, LastSeal
      <4> QED BY <1>1, <1>2, <3>1, <4>2 DEF OnWire, LastSeal, s
    <3> QED BY <1>1, <1>2, <3>2 DEF SealIsOnWire, s
  <2>5. HasCompleted(p)'
    <3>1. Session(p, state[p])' = Session(p, s)
      BY <1>1, <1>2 DEF Session
    <3> QED BY <1>6, <3>1 DEF HasCompleted
  <2>6. HasReceived(p)' /\ FramesOf(p)'
    <3>1. r.receiveNonce = s.receiveNonce
      BY <1>2, <1>3
    <3>2. MaxFrames \in Nat /\ s.sendNonce < MaxFrames
      BY SessionAssumption DEF s
    <3>3. r.sendNonce <= MaxFrames
      BY <1>2, <1>3, <3>2
    <3>4. HasReceived(p)'
      BY <1>1, <1>2, <1>3, <2>0, <3>1, <3>3 DEF HasReceived, EndOK, s
    <3>5. FramesOf(p)'
      BY <1>1, <1>2, <1>3, <2>0 DEF FramesOf, EndOK, s
    <3> QED BY <3>4, <3>5
  <2> QED BY <2>1, <2>2, <2>3, <2>4, <2>5, <2>6 DEF EndOK
<1>12. OneSealPerNonce'
  <2> DEFINE S == {f}
  <2>1. Seals(m) \subseteq S
    <3> SUFFICES ASSUME NEW z \in Seals(m) PROVE z = f
      OBVIOUS
    <3>1. PICK i \in 1..Len(m) : z = m[i].item.sealed
      BY DEF Seals
    <3>2. m[1].item = [sealed |-> f]
      BY <1>9 DEF Piece
    <3> QED BY <1>9, <3>1, <3>2
  <2>2. \A u, v \in S : u.k = v.k /\ u.n = v.n => u = v
    OBVIOUS
  <2>3. ASSUME NEW z \in S, NEW w \in SealedOnWire, z.k = w.k, z.n = w.n PROVE FALSE
    <3>1. HistoryOK
      BY DEF IInv
    <3>2. OnWire(w)
      BY <3>1, SealedIsOnWire
    <3>3. w.k = d.send /\ w.n = state[p].sendNonce
      BY <1>7, <2>3 DEF s
    <3>4. ~state[p].failed /\ state[p].sendNonce \in Nat
      BY <1>3 DEF s
    <3> QED BY ONLY p \in Party, d \in completed, <1>6, <3>1, <3>2, <3>3, <3>4, FrameSealIsNew
  <2>4. OneSealPerNonce /\ wire' = wire \cup {m}
    BY DEF IInv
  <2>5. \A z \in S, w \in SealedOnWire : ~(z.k = w.k /\ z.n = w.n)
    BY <2>3
  <2> HIDE DEF S
  <2> QED BY ONLY <2>1, <2>2, <2>4, <2>5, OneSealWith
<1>13. /\ \A q \in wire' \ wire : MessageOK(q)'
       /\ \A e \in completed' \ completed : CompletedOK(e)'
  <2>1. \A q \in wire' \ wire : q = m
    OBVIOUS
  <2> QED BY <1>10, <2>1
<1> QED BY ONLY IInv, p \in Party, <1>1, <1>5, <1>11, <1>12, <1>13, StepKeeps

\* thalovant_noise_encrypt() by either end keeps the invariant.
LEMMA EncryptKeeps ==
  ASSUME IInv, NEW p \in Party, NEW capacity, Encrypt(p, capacity)
  PROVE  IInv'
<1> DEFINE s == state[p]
<1> DEFINE me == Me(p)
<1> DEFINE frame == [from |-> p, conn |-> conn[p], seq |-> s.sendNonce + 1]
<1> DEFINE r == NoiseEncrypt(s, frame, PayloadLen, capacity)
<1>1. Leaves(p, r, r.out) /\ received' = received /\ s.sendNonce < MaxFrames
  BY DEF Encrypt
<1>2. SessionOK(p)
  BY DEF IInv, EndOK
<1> HIDE DEF r, frame
<1>3. ASSUME r.s = Dead, r.out = <<>> PROVE IInv'
  BY ONLY <1>1, <1>3, IInv, p \in Party, LeavesDead
<1>4. CASE s \in {Zeroed, Dead}
  <2>1. r = Failure("INVALID") /\ Failure("INVALID").s = Dead /\ Failure("INVALID").out = <<>>
    <3> HIDE DEF s
    <3> QED BY <1>4, DeadStays DEF r
  <2> QED BY <1>3, <2>1
<1>5. CASE Shape(s, me) /\ conn[p] > 0
  <2>1. Encrypts(s, r, frame, PayloadLen, me)
    <3> HIDE DEF me, s
    <3> QED BY <1>5, NoiseEncryptDoes DEF r
  <2>2. ASSUME Shape(r.s, me), Counts(s, r.s, 1, 0),
               r.out = <<Piece(PayloadLen + 16, [sealed |-> FrameSeal(s, frame)])>>
        PROVE  IInv'
    <3> DEFINE m == r.out
    <3> DEFINE f == FrameSeal(s, frame)
    <3>1. m # <<>>
      BY <2>2
    <3>2. state[p].ready
      BY <2>2 DEF Counts
    <3>3. m = <<Piece(PayloadLen + 16, [sealed |-> f])>>
      BY <2>2
    <3>4. f = FrameSeal(state[p], [from |-> p, conn |-> conn[p], seq |-> state[p].sendNonce + 1])
      BY DEF frame
    <3> HIDE DEF m, f
    <3>5. /\ state' = [state EXCEPT ![p] = r.s] /\ wire' = wire \cup {m}
          /\ UNCHANGED <<psk, prologue, pin, conn, wrote, completed, received>>
      BY <1>1, <3>1, <3>2 DEF Leaves, m, config
    <3>6. /\ Shape(state[p], Me(p)) /\ conn[p] > 0 /\ state[p].sendNonce < MaxFrames
          /\ Shape(r.s, Me(p)) /\ Counts(state[p], r.s, 1, 0)
      BY <1>1, <1>5, <2>2
    <3> QED BY ONLY IInv, p \in Party, <3>3, <3>4, <3>5, <3>6, EncryptStepKeeps
  <2> QED BY <1>3, <2>1, <2>2 DEF Encrypts
<1> QED BY <1>2, <1>4, <1>5 DEF SessionOK

\* The session whose frames an end can open is of its peer, in the connection
\* whose ephemeral key the end has read.
LEMMA OpensFromPeer ==
  ASSUME NEW p \in Party, NEW c, NEW s, Shape(s, MeOf(p, c)), s.ready = TRUE,
         NEW d, CompletedForm(d), d.send = s.receiveKey
  PROVE  /\ d.party = Peer(p) /\ s.remoteEphemeral = Ephemeral(Peer(p), d.conn)
         /\ d.send.of = s.sendKey.of
<1> DEFINE me == MeOf(p, c)
<1> DEFINE K == s.sendKey.of
<1> DEFINE a == IF me.initiator THEN 2 ELSE 1
<1> DEFINE b == IF d.party = Client THEN 1 ELSE 2
<1> DEFINE q == K[1].name
<1>1. /\ s.receiveKey = [of |-> K, split |-> a]
      /\ Chains(K, s.pattern, s.step, me, s.remoteEphemeral)
      /\ s.pattern \in {XX, KK} /\ s.step = Steps(s.pattern)
  BY DEF Shape, Identity, Established
<1>2. d.send = [of |-> d.send.of, split |-> b]
  BY DEF CompletedForm
<1>3. me.initiator = (p = Client)
  BY DEF MeOf
<1>4. d.send.of = K /\ a = b
  <2> HIDE DEF K, a, b
  <2>1. [of |-> K, split |-> a] = [of |-> d.send.of, split |-> b]
    BY <1>1, <1>2
  <2> QED BY <2>1
<1>5. d.party = Peer(p) /\ ((d.party = Client) <=> ~me.initiator)
  <2>1. (d.party = Client) <=> ~me.initiator
    BY <1>4
  <2>2. d.party \in Party
    BY DEF CompletedForm
  <2>3. (d.party = Client) <=> (p # Client)
    BY <1>3, <2>1
  <2> QED BY <2>1, <2>2, <2>3, SessionAssumption DEF Party, Peer
<1>6. K[1] = [name |-> s.pattern] /\ K[EphAt(s.pattern, ~me.initiator)] = [key |-> s.remoteEphemeral]
  <2>1. s.step >= EphBy(~me.initiator)
    BY <1>1 DEF Steps, EphBy
  <2> HIDE DEF K, me
  <2> QED BY <1>1, <2>1 DEF Chains
<1>7. K[EphAt(q, d.party = Client)] = [key |-> Ephemeral(d.party, d.conn)]
  BY <1>4 DEF CompletedForm
<1>8. q = s.pattern
  <2> HIDE DEF K
  <2>1. K[1].name = s.pattern
    BY <1>6
  <2> QED BY <2>1
<1>9. EphAt(q, d.party = Client) = EphAt(q, ~me.initiator)
  BY <1>5 DEF EphAt
<1>10. [key |-> s.remoteEphemeral] = [key |-> Ephemeral(d.party, d.conn)]
  <2> HIDE DEF K, q, me
  <2> QED BY <1>6, <1>7, <1>8, <1>9
<1>11. s.remoteEphemeral = Ephemeral(d.party, d.conn)
  BY <1>10
<1> QED BY <1>4, <1>5, <1>11

\* A frame that is opened: the partner sealed it, as its frame of this very
\* number.
LEMMA DecryptStepKeeps ==
  ASSUME IInv, NEW p \in Party, Shape(state[p], Me(p)), conn[p] > 0,
         NEW r, Shape(r, Me(p)), Counts(state[p], r, 0, 1), NEW x, OnWire(x),
         x.k = state[p].receiveKey, x.n = state[p].receiveNonce,
         state' = [state EXCEPT ![p] = r],
         received' = [received EXCEPT ![p] = Append(@, x.pt)],
         UNCHANGED <<psk, prologue, pin, conn, wire, wrote, completed>>
  PROVE  IInv'
<1> DEFINE s == state[p]
<1>1. /\ DOMAIN state' = Party /\ state'[p] = r
      /\ \A q \in Party \ {p} : /\ state'[q] = state[q] /\ conn'[q] = conn[q]
                                /\ received'[q] = received[q]
      /\ DOMAIN received' = Party /\ conn' \in [Party -> 0..MaxConnections]
      /\ conn' = conn /\ received'[p] = Append(received[p], x.pt)
  BY DEF IInv, ConfigOK
<1>2. /\ s.ready = TRUE /\ r.ready = TRUE /\ r.failed = FALSE
      /\ r.pattern = s.pattern /\ r.step = s.step /\ r.initiator = s.initiator
      /\ r.hash = s.hash /\ r.remoteStatic = s.remoteStatic /\ r.remoteEphemeral = s.remoteEphemeral
      /\ r.sendKey = s.sendKey /\ r.receiveKey = s.receiveKey
      /\ r.sendNonce = s.sendNonce + 0 /\ r.receiveNonce = s.receiveNonce + 1
  BY DEF Counts, Remotes
<1>3. /\ s.failed = FALSE /\ s.step \in 0..3 /\ s.sendNonce \in Nat /\ s.receiveNonce \in Nat
  <2>1. SessionOK(p)
    BY DEF IInv, EndOK
  <2>2. s.step \in 0..3 /\ s.sendNonce \in Nat /\ s.receiveNonce \in Nat
    BY <2>1, StateTypes
  <2>3. s.failed = FALSE
    BY DEF Shape, Identity
  <2> QED BY <2>2, <2>3
<1>4. Me(p)' = Me(p)
  BY <1>1 DEF Me, MeOf, PinOf
<1>5. r.sendNonce = s.sendNonce
  BY <1>2, <1>3
<1>6. /\ IsSeq(received[p]) /\ Len(received[p]) = s.receiveNonce
      /\ s.sendNonce <= MaxFrames
      /\ \A i \in 1..Len(received[p]) :
           received[p][i] = [from |-> Peer(p), conn |-> s.remoteEphemeral.conn, seq |-> i]
  BY <1>2, <1>3 DEF IInv, EndOK, HasReceived, FramesOf
<1> HIDE DEF s
<1>7. Advances
  <2>1. /\ conn'[p] = conn[p] /\ ~state[p].failed
        /\ state'[p].step \in Nat /\ state'[p].step >= state[p].step
        /\ state'[p].sendNonce \in Nat /\ state'[p].sendNonce >= state[p].sendNonce
        /\ state[p].ready => state'[p].ready
    BY <1>1, <1>2, <1>3, <1>5 DEF s
  <2>2. wire \subseteq wire' /\ wrote \subseteq wrote' /\ completed \subseteq completed'
    OBVIOUS
  <2>3. UNCHANGED <<psk, prologue, pin>>
    OBVIOUS
  <2> QED BY ONLY IInv, p \in Party, <1>1, <2>1, <2>2, <2>3, AdvancesBy
<1>8. ~FromHandshake(x)
  <2> SUFFICES ASSUME FromHandshake(x) PROVE FALSE
    OBVIOUS
  <2>1. PICK row \in Rows, c \in 1..MaxConnections : HandshakeSeal(x, row, c)
    BY DEF FromHandshake
  <2>2. x.k = [of |-> x.k.of, out |-> row.out]
    BY <2>1 DEF HandshakeSeal, SealedBy
  <2>3. x.k = [of |-> s.sendKey.of, split |-> IF Me(p).initiator THEN 2 ELSE 1]
    BY <1>2 DEF Shape, Established, s
  <2>4. "split" \in DOMAIN x.k
    BY <2>3
  <2>5. "split" \notin DOMAIN x.k
    BY <2>2
  <2> QED BY <2>4, <2>5
<1>9. PICK d \in completed : SessionSeal(x, d)
  <2>1. HistoryOK
    BY DEF IInv
  <2>2. FromSession(x)
    BY <1>8, <2>1, WireSeal
  <2> QED BY <2>2 DEF FromSession
<1>10. /\ x.pt = [from |-> d.party, conn |-> d.conn, seq |-> x.n + 1]
       /\ d.send = s.receiveKey /\ x.n \in 0..MaxFrames - 1
  <2>1. /\ x = [k |-> d.send, n |-> x.n, ad |-> <<>>,
                pt |-> [from |-> d.party, conn |-> d.conn, seq |-> x.n + 1]]
        /\ x.n \in 0..MaxFrames - 1
    BY <1>9 DEF SessionSeal
  <2>2. x.k = d.send /\ x.pt = [from |-> d.party, conn |-> d.conn, seq |-> x.n + 1]
    BY <2>1
  <2> QED BY <2>1, <2>2 DEF s
<1>11. /\ d.party = Peer(p) /\ s.remoteEphemeral = Ephemeral(Peer(p), d.conn)
  <2>1. CompletedForm(d)
    BY DEF IInv, HistoryOK, CompletedOK
  <2>2. Shape(s, MeOf(p, conn[p]))
    BY DEF s, Me
  <2> QED BY ONLY p \in Party, <1>2, <1>10, <2>1, <2>2, OpensFromPeer
<1>12. x.pt = [from |-> Peer(p), conn |-> s.remoteEphemeral.conn, seq |-> Len(received[p]) + 1]
  <2>1. s.remoteEphemeral.conn = d.conn
    BY <1>11 DEF Ephemeral, KeyPair
  <2> QED BY <1>6, <1>10, <1>11, <2>1 DEF s
<1>13. /\ IsSeq(received'[p]) /\ Len(received'[p]) = Len(received[p]) + 1
       /\ received'[p][Len(received[p]) + 1] = x.pt
       /\ \A i \in 1..Len(received[p]) : received'[p][i] = received[p][i]
  BY <1>1, <1>6, AppendGrows DEF Grows
<1>14. EndOK(p)'
  <2>0. EndOK(p)
    BY DEF IInv
  <2>1. SessionOK(p)'
    BY <1>1, <1>4 DEF SessionOK
  <2>2. KnowsPeer(p)'
    <3>1. HasHeardPsk(p)' = HasHeardPsk(p)
      BY <1>1, <1>2 DEF HasHeardPsk, s
    <3>2. PinOf(p)' = PinOf(p)
      BY DEF PinOf
    <3> QED BY <1>1, <1>2, <2>0, <3>1, <3>2 DEF KnowsPeer, EndOK, s
  <2>3. HasPeersWord(p)'
    <3>1. HasReadLast(p)' => HasReadLast(p)
      BY <1>1, <1>2, <1>3 DEF HasReadLast, s
    <3> QED BY <1>1, <1>2, <2>0, <3>1 DEF HasPeersWord, EndOK, s
  <2>4. SealIsOnWire(p)'
    <3>1. OnWire(LastSeal(s.hash))
      BY <1>2, <2>0 DEF EndOK, SealIsOnWire, s
    <3> QED BY <1>1, <1>2, <3>1 DEF SealIsOnWire, OnWire, LastSeal, s
  <2>5. HasCompleted(p)'
    <3>1. Session(p, state[p])' = Session(p, s)
      BY <1>1, <1>2 DEF Session
    <3> QED BY <1>2, <2>0, <3>1 DEF HasCompleted, EndOK, s
  <2>6. HasReceived(p)'
    <3>1. r.receiveNonce = Len(received'[p]) /\ r.receiveNonce <= MaxFrames
      <4>1. MaxFrames \in Nat
        BY SessionAssumption
      <4>2. s.receiveNonce \in 0..MaxFrames - 1
        BY <1>10 DEF s
      <4> QED BY <1>2, <1>6, <1>13, <4>1, <4>2
    <3>2. d \in completed' /\ d.party = Peer(p) /\ d.send = r.receiveKey
      BY <1>2, <1>10, <1>11
    <3> QED BY <1>1, <1>2, <1>5, <1>6, <1>13, <3>1, <3>2 DEF HasReceived
  <2>7. FramesOf(p)'
    <3> DEFINE n == Len(received[p])
    <3> SUFFICES ASSUME NEW i \in 1..Len(received'[p])
                 PROVE  received'[p][i] = [from |-> Peer(p), conn |-> r.remoteEphemeral.conn, seq |-> i]
      BY <1>1 DEF FramesOf
    <3>1. n \in Nat
      BY <1>6 DEF IsSeq
    <3> HIDE DEF n
    <3>2. i = n + 1 \/ i \in 1..n
      BY <1>13, <3>1 DEF n
    <3>3. CASE i = n + 1
      BY <1>2, <1>12, <1>13, <3>3 DEF n
    <3>4. CASE i \in 1..n
      BY <1>2, <1>6, <1>13, <3>4 DEF n
    <3> QED BY <3>2, <3>3, <3>4
  <2> QED BY <2>1, <2>2, <2>3, <2>4, <2>5, <2>6, <2>7 DEF EndOK
<1>15. OneSealPerNonce'
  BY OneSealStays DEF IInv
<1>16. /\ \A m \in wire' \ wire : MessageOK(m)'
       /\ \A e \in completed' \ completed : CompletedOK(e)'
  OBVIOUS
<1> QED BY ONLY IInv, p \in Party, <1>1, <1>7, <1>14, <1>15, <1>16, StepKeeps

\* thalovant_noise_decrypt() of anything that may arrive keeps the invariant.
LEMMA DecryptKeeps ==
  ASSUME IInv, NEW p \in Party, NEW m \in Arriving, NEW capacity, Decrypt(p, m, capacity)
  PROVE  IInv'
<1> DEFINE s == state[p]
<1> DEFINE me == Me(p)
<1> DEFINE r == NoiseDecrypt(s, m, capacity)
<1>1. /\ Leaves(p, r, <<>>)
      /\ received' = IF r.rc = "OK" THEN [received EXCEPT ![p] = Append(@, r.out)] ELSE received
  BY DEF Decrypt
<1>2. SessionOK(p)
  BY DEF IInv, EndOK
<1> HIDE DEF r
<1>3. ASSUME r.s = Dead, r.rc # "OK" PROVE IInv'
  <2>1. received' = received
    BY <1>1, <1>3
  <2> QED BY ONLY <1>1, <1>3, <2>1, IInv, p \in Party, LeavesDead
<1>4. CASE s \in {Zeroed, Dead}
  <2>1. /\ r = Failure("INVALID") /\ Failure("INVALID").s = Dead
        /\ Failure("INVALID").rc = "INVALID"
    <3> HIDE DEF s
    <3> QED BY <1>4, DeadStays DEF r
  <2> QED BY <1>3, <2>1
<1>5. CASE Shape(s, me) /\ conn[p] > 0
  <2>1. WellFormed(m) /\ \A z : Holds(m, z) => OnWire(z)
    BY ArrivingFromWire DEF IInv, HistoryOK
  <2>2. Decrypts(s, r, m, me)
    <3> HIDE DEF me, s
    <3> QED BY <1>5, <2>1, NoiseDecryptDoes DEF r
  <2>3. ASSUME NEW x, Shape(r.s, me), Counts(s, r.s, 0, 1), r.rc = "OK", r.out = x.pt,
               Holds(m, x), x.k = s.receiveKey, x.n = s.receiveNonce
        PROVE  IInv'
    <3>1. state[p].ready
      BY <2>3 DEF Counts
    <3>2. /\ state' = [state EXCEPT ![p] = r.s]
          /\ received' = [received EXCEPT ![p] = Append(@, x.pt)]
          /\ UNCHANGED <<psk, prologue, pin, conn, wire, wrote, completed>>
      BY <1>1, <2>3, <3>1 DEF Leaves, config
    <3>3. /\ Shape(state[p], Me(p)) /\ conn[p] > 0 /\ Shape(r.s, Me(p))
          /\ Counts(state[p], r.s, 0, 1) /\ OnWire(x)
          /\ x.k = state[p].receiveKey /\ x.n = state[p].receiveNonce
      BY <1>5, <2>1, <2>3
    <3> QED BY ONLY IInv, p \in Party, <3>2, <3>3, DecryptStepKeeps
  <2> QED BY <1>3, <2>2, <2>3 DEF Decrypts
<1> QED BY <1>2, <1>4, <1>5 DEF SessionOK

-----------------------------------------------------------------------------
(* The invariant. *)

\* The hub offers no pattern but the two the library has.
OfferOK == offer \subseteq {XX, KK}

\* A step of nobody keeps the invariant.
LEMMA StutterKeeps ==
  ASSUME IInv, UNCHANGED vars
  PROVE  IInv'
<1>1. UNCHANGED <<psk, prologue, pin, conn, state, wire, wrote, completed, received>>
  BY DEF vars
<1>2. Client \in Party
  BY DEF Party
<1>3. Advances
  <2>1. \A q \in Party : /\ state[q].step \in Nat /\ state[q].sendNonce \in Nat
                         /\ conn[q] \in Nat
    <3> TAKE q \in Party
    <3>1. conn[q] \in Nat
      BY SessionAssumption DEF IInv, ConfigOK
    <3>2. SessionOK(q)
      BY DEF IInv, EndOK
    <3>3. state[q].step \in 0..3 /\ state[q].sendNonce \in Nat
      BY <3>2, StateTypes
    <3> QED BY <3>1, <3>3
  <2> QED BY <1>1, <2>1 DEF Advances
<1>4. EndOK(Client)'
  BY <1>1, <1>2, <1>3, OthersStay DEF IInv
<1>5. OneSealPerNonce'
  BY <1>1, OneSealStays DEF IInv
<1>6. /\ DOMAIN state' = Party /\ DOMAIN received' = Party
      /\ conn' \in [Party -> 0..MaxConnections]
      /\ \A q \in Party \ {Client} : /\ state'[q] = state[q] /\ conn'[q] = conn[q]
                                     /\ received'[q] = received[q]
      /\ \A m \in wire' \ wire : MessageOK(m)'
      /\ \A d \in completed' \ completed : CompletedOK(d)'
  BY <1>1 DEF IInv, ConfigOK
<1> QED BY ONLY IInv, <1>2, <1>3, <1>4, <1>5, <1>6, StepKeeps

\* Every step keeps the invariant, with what the client offers.
LEMMA NextKeeps ==
  ASSUME IInv, OfferOK, [Next]_vars
  PROVE  IInv' /\ OfferOK'
<1>1. ASSUME NEW hasPin, Dial(hasPin) PROVE IInv' /\ OfferOK'
  <2> DEFINE choice == NoiseSelect(offer, hasPin)
  <2>1. choice.rc = "OK" /\ Connect(Client, choice.pattern)
    BY <1>1 DEF Dial
  <2>2. choice.pattern \in {XX, KK}
    BY <2>1 DEF NoiseSelect
  <2>3. Client \in Party
    BY DEF Party
  <2> HIDE DEF choice
  <2>4. IInv'
    BY ONLY IInv, <2>1, <2>2, <2>3, ConnectKeeps
  <2> QED BY <2>1, <2>4 DEF Connect, config, OfferOK
<1>2. ASSUME Accept PROVE IInv' /\ OfferOK'
  <2>1. PICK pattern \in offer : Connect(Hub, pattern)
    BY <1>2 DEF Accept
  <2>2. pattern \in {XX, KK}
    BY DEF OfferOK
  <2>3. Hub \in Party
    BY DEF Party
  <2>4. IInv'
    BY ONLY IInv, <2>1, <2>2, <2>3, ConnectKeeps
  <2> QED BY <2>1, <2>4 DEF Connect, config, OfferOK
<1>3. ASSUME NEW p \in Party, NEW capacity, Write(p, capacity) PROVE IInv' /\ OfferOK'
  <2>1. IInv'
    BY ONLY IInv, <1>3, WriteKeeps
  <2> QED BY <1>3, <2>1 DEF Write, Leaves, config, OfferOK
<1>4. ASSUME NEW p \in Party, NEW capacity, Encrypt(p, capacity) PROVE IInv' /\ OfferOK'
  <2>1. IInv'
    BY ONLY IInv, <1>4, EncryptKeeps
  <2> QED BY <1>4, <2>1 DEF Encrypt, Leaves, config, OfferOK
<1>5. ASSUME NEW p \in Party, NEW capacity, NEW m \in Arriving, Read(p, m, capacity)
      PROVE  IInv' /\ OfferOK'
  <2>1. IInv'
    BY ONLY IInv, <1>5, ReadKeeps
  <2> QED BY <1>5, <2>1 DEF Read, Leaves, config, OfferOK
<1>6. ASSUME NEW p \in Party, NEW capacity, NEW m \in Arriving, Decrypt(p, m, capacity)
      PROVE  IInv' /\ OfferOK'
  <2>1. IInv'
    BY ONLY IInv, <1>6, DecryptKeeps
  <2> QED BY <1>6, <2>1 DEF Decrypt, Leaves, config, OfferOK
<1>7. CASE UNCHANGED vars
  <2>1. IInv'
    BY ONLY IInv, <1>7, StutterKeeps
  <2> QED BY <1>7, <2>1 DEF vars, OfferOK
<1>8. CASE Next
  BY <1>1, <1>2, <1>3, <1>4, <1>5, <1>6, <1>8 DEF Next
<1> QED BY <1>7, <1>8

\* Everything below rests on this invariant of every reachable state.
THEOREM SessionInvariant == Spec => [](IInv /\ OfferOK)
<1>1. Init => IInv /\ OfferOK
  BY InitOK DEF Init, OfferOK
<1>2. IInv /\ OfferOK /\ [Next]_vars => (IInv /\ OfferOK)'
  BY NextKeeps
<1> QED BY <1>1, <1>2, PTL DEF Spec

-----------------------------------------------------------------------------
(* What it means for the two applications. *)

\* Only ephemeral public keys cross the wire in clear.
THEOREM NothingElseInClearHolds == Spec => []NothingElseInClear
<1>1. IInv => NothingElseInClear
  <2> SUFFICES ASSUME IInv, NEW m \in wire, NEW i \in 1..Len(m)
               PROVE  \/ "sealed" \in DOMAIN m[i].item
                      \/ \E p \in Party, k \in 1..MaxConnections : m[i].item = [key |-> Ephemeral(p, k)]
    BY DEF NothingElseInClear
  <2>1. ItemOK(m[i].item)
    BY DEF IInv, HistoryOK, WireOK, MessageOK
  <2> QED BY <2>1 DEF ItemOK
<1> QED BY <1>1, SessionInvariant, PTL

\* Steps, flags and counters stay in their ranges, and writes in their buffers.
THEOREM StaysInBoundsHolds == Spec => []StaysInBounds
<1>1. ASSUME IInv PROVE StaysInBounds
  <2>1. conn \in [Party -> 0..MaxConnections]
    BY <1>1 DEF IInv, ConfigOK
  <2>2. ASSUME NEW p \in Party
        PROVE  /\ state[p].step \in 0..3
               /\ {state[p].ready, state[p].failed, state[p].hasKey} \subseteq BOOLEAN
               /\ state[p].ready => ~state[p].failed /\ state[p].step = Len(Tokens[state[p].pattern])
               /\ state[p].sendNonce \in 0..MaxFrames /\ state[p].receiveNonce \in 0..MaxFrames
    <3> DEFINE s == state[p]
    <3>1. SessionOK(p) /\ HasReceived(p)
      BY <1>1 DEF IInv, EndOK
    <3>2. /\ s.step \in 0..3 /\ s.ready \in BOOLEAN /\ s.failed \in BOOLEAN /\ s.hasKey \in BOOLEAN
          /\ s.sendNonce \in Nat /\ s.receiveNonce \in Nat
          /\ s.ready => ~s.failed /\ s.step = Steps(s.pattern) /\ s.pattern \in {XX, KK}
      BY <3>1, StateTypes
    <3>3. s.ready => s.step = Len(Tokens[s.pattern])
      BY <3>2 DEF Tokens, Steps, XX, KK
    <3>4. s.ready => s.sendNonce <= MaxFrames /\ s.receiveNonce <= MaxFrames
      BY <3>1 DEF HasReceived
    <3>5. ~s.ready => s.sendNonce = 0 /\ s.receiveNonce = 0
      <4>1. CASE s \in {Zeroed, Dead}
        <5>1. CASE s = Zeroed
          BY <5>1 DEF Zeroed
        <5>2. CASE s = Dead
          BY <5>2 DEF Zeroed, Dead
        <5> QED BY <4>1, <5>1, <5>2
      <4>2. CASE Shape(s, Me(p)) /\ s.ready = FALSE
        BY <4>2 DEF Shape, Running
      <4> QED BY <3>1, <3>2, <4>1, <4>2 DEF SessionOK
    <3> HIDE DEF s
    <3>6. s.sendNonce \in 0..MaxFrames /\ s.receiveNonce \in 0..MaxFrames
      <4>1. MaxFrames \in Nat
        BY SessionAssumption
      <4>2. CASE s.ready
        BY <3>2, <3>4, <4>1, <4>2
      <4>3. CASE ~s.ready
        BY <3>5, <4>1, <4>3
      <4> QED BY <4>2, <4>3
    <3>7. {s.ready, s.failed, s.hasKey} \subseteq BOOLEAN
      BY <3>2
    <3> QED BY <3>2, <3>3, <3>6, <3>7 DEF s
  <2>3. \A c \in completed : c.party \in Party /\ c.conn \in 1..MaxConnections
    BY <1>1 DEF IInv, HistoryOK, CompletedOK, CompletedForm
  <2>4. TypeOK
    BY <2>1, <2>2, <2>3 DEF TypeOK
  <2>5. WritesFitBuffer
    BY <1>1 DEF IInv, HistoryOK, WireOK, MessageOK, WritesFitBuffer
  <2> QED BY <2>4, <2>5 DEF StaysInBounds
<1> QED BY <1>1, SessionInvariant, PTL

\* Whatever an end accepts, the peer wrote it in this very conversation.
THEOREM MatchingConversationsHold == Spec => []MatchingConversations
<1>1. IInv => MatchingConversations
  BY DEF IInv, EndOK, HasPeersWord, MatchingConversations
<1> QED BY <1>1, SessionInvariant, PTL

\* The invariant implies that a ready end has authenticated its peer.
LEMMA Authenticated == IInv => ReadyIsAuthenticated
<1>1. ASSUME IInv, NEW p \in Party, state[p].ready
      PROVE  /\ psk[p] = psk[Peer(p)] /\ prologue[p] = prologue[Peer(p)]
             /\ state[p].remoteStatic = Static(Peer(p))
             /\ pin[p] \in {"none", "peer"}
  <2>1. SessionOK(p) /\ KnowsPeer(p)
    BY <1>1 DEF IInv, EndOK
  <2>2. state[p].step = Steps(state[p].pattern) /\ state[p].pattern \in {XX, KK}
    BY <1>1, <2>1, StateTypes
  <2>3. HasHeardPsk(p)
    BY <2>2 DEF HasHeardPsk, Steps, XX, KK
  <2>4. /\ psk[p] = psk[Peer(p)] /\ prologue[p] = prologue[Peer(p)]
        /\ state[p].remoteStatic = Static(Peer(p))
        /\ PinOf(p) \in {NoPin, Static(Peer(p))}
    BY <2>1, <2>3 DEF KnowsPeer
  <2>5. pin[p] # "other"
    <3> SUFFICES ASSUME pin[p] = "other" PROVE FALSE
      OBVIOUS
    <3>1. PinOf(p) = KeyPair("stranger", 0)
      BY DEF PinOf
    <3>2. PinOf(p).owner = "stranger"
      BY <3>1 DEF KeyPair
    <3>3. NoPin.owner = "nopin" /\ Static(Peer(p)).owner = Peer(p)
      BY DEF NoPin, Static, KeyPair
    <3>4. Peer(p) # "stranger"
      BY SessionAssumption DEF Peer
    <3> QED BY <2>4, <3>2, <3>3, <3>4
  <2>6. pin[p] \in {"none", "peer", "other"}
    BY <1>1, SessionAssumption DEF IInv, ConfigOK
  <2> QED BY <2>4, <2>5, <2>6
<1> QED BY <1>1 DEF ReadyIsAuthenticated

\* A ready end is with its peer, of the same password and offer, as pinned.
THEOREM ReadyIsAuthenticatedHolds == Spec => []ReadyIsAuthenticated
BY Authenticated, SessionInvariant, PTL

\* The chaining key of a session that completed is in the last ciphertext of
\* its handshake.
LEMMA SameHash ==
  ASSUME NEW c, NEW d, CompletedForm(c), CompletedForm(d), c.hash = d.hash
  PROVE  c.send.of = d.send.of
<1>1. /\ LastSeal(c.hash).k = [of |-> c.send.of, out |-> 2]
      /\ LastSeal(d.hash).k = [of |-> d.send.of, out |-> 2]
  BY DEF CompletedForm
<1>2. [of |-> c.send.of, out |-> 2] = [of |-> d.send.of, out |-> 2]
  BY <1>1
<1> QED BY <1>2

\* The keys of one conversation are crossed, and no other session has them.
THEOREM KeysAgreeHolds == Spec => []KeysAgree
<1>1. ASSUME NEW c, CompletedForm(c)
      PROVE  /\ c.party \in Party
             /\ c.send = [of |-> c.send.of, split |-> IF c.party = Client THEN 1 ELSE 2]
             /\ c.receive = [of |-> c.send.of, split |-> IF c.party = Client THEN 2 ELSE 1]
  BY <1>1 DEF CompletedForm
<1>2. ASSUME NEW K, NEW L, NEW a, NEW b, [of |-> K, split |-> a] = [of |-> L, split |-> b]
      PROVE  K = L /\ a = b
  BY <1>2
<1>3. ASSUME NEW c, NEW d, CompletedForm(c), CompletedForm(d)
      PROVE  /\ c.send # c.receive
             /\ c.party # d.party /\ c.hash = d.hash => c.send = d.receive /\ c.receive = d.send
             /\ c.party = d.party /\ c.conn # d.conn =>
                  {c.send, c.receive} \cap {d.send, d.receive} = {}
  <2> DEFINE K == c.send.of
  <2> DEFINE L == d.send.of
  <2> DEFINE a == IF c.party = Client THEN 1 ELSE 2
  <2> DEFINE b == IF d.party = Client THEN 1 ELSE 2
  <2>1. /\ c.send = [of |-> K, split |-> a] /\ c.receive = [of |-> K, split |-> 3 - a]
        /\ d.send = [of |-> L, split |-> b] /\ d.receive = [of |-> L, split |-> 3 - b]
        /\ c.party \in Party /\ d.party \in Party
    <3>1. /\ (IF c.party = Client THEN 2 ELSE 1) = 3 - a
          /\ (IF d.party = Client THEN 2 ELSE 1) = 3 - b
      OBVIOUS
    <3>2. /\ c.send = [of |-> K, split |-> a] /\ d.send = [of |-> L, split |-> b]
          /\ c.receive = [of |-> K, split |-> IF c.party = Client THEN 2 ELSE 1]
          /\ d.receive = [of |-> L, split |-> IF d.party = Client THEN 2 ELSE 1]
          /\ c.party \in Party /\ d.party \in Party
      BY <1>1, <1>3
    <3> HIDE DEF K, L, a, b
    <3> QED BY <3>1, <3>2
  <2>2. a \in {1, 2} /\ b \in {1, 2}
    OBVIOUS
  <2>3. c.party # d.party => b = 3 - a
    BY <2>1 DEF Party
  <2>4. c.hash = d.hash => K = L
    BY <1>3, SameHash
  <2>5. c.party = d.party /\ c.conn # d.conn => K # L
    BY <1>3, SameChain
  <2> HIDE DEF K, L, a, b
  <2>6. c.send # c.receive
    <3> SUFFICES ASSUME c.send = c.receive PROVE FALSE
      OBVIOUS
    <3>1. [of |-> K, split |-> a] = [of |-> K, split |-> 3 - a]
      BY <2>1
    <3>2. a = 3 - a
      BY <1>2, <3>1
    <3> QED BY <2>2, <3>2
  <2>7. ASSUME c.party # d.party, c.hash = d.hash PROVE c.send = d.receive /\ c.receive = d.send
    <3>1. K = L /\ b = 3 - a /\ 3 - b = a
      BY <2>2, <2>3, <2>4, <2>7
    <3> QED BY <2>1, <3>1
  <2>8. ASSUME c.party = d.party, c.conn # d.conn
        PROVE  {c.send, c.receive} \cap {d.send, d.receive} = {}
    <3>1. K # L
      BY <2>5, <2>8
    <3>2. c.send # d.send
      BY <1>2, <2>1, <3>1
    <3>3. c.send # d.receive
      BY <1>2, <2>1, <3>1
    <3>4. c.receive # d.send
      BY <1>2, <2>1, <3>1
    <3>5. c.receive # d.receive
      BY <1>2, <2>1, <3>1
    <3> QED BY <3>2, <3>3, <3>4, <3>5
  <2> QED BY <2>6, <2>7, <2>8
<1>4. IInv => KeysAgree
  <2> SUFFICES ASSUME IInv, NEW c \in completed, NEW d \in completed
               PROVE  /\ c.send # c.receive
                      /\ c.party # d.party /\ c.hash = d.hash =>
                           c.send = d.receive /\ c.receive = d.send
                      /\ c.party = d.party /\ c.conn # d.conn =>
                           {c.send, c.receive} \cap {d.send, d.receive} = {}
    BY DEF KeysAgree
  <2>1. CompletedForm(c) /\ CompletedForm(d)
    BY DEF IInv, HistoryOK, CompletedOK
  <2> QED BY ONLY <1>3, <2>1
<1> QED BY <1>4, SessionInvariant, PTL

\* Who has heard the peer's last word has a peer that is ready in the same
\* conversation.
THEOREM PeerCompletedHolds == Spec => []PeerCompleted
<1>1. ASSUME IInv, NEW p \in Party, state[p].ready, state[p].receiveNonce > 0
      PROVE  \E c \in completed : c.party = Peer(p) /\ c.hash = state[p].hash
  <2> DEFINE s == state[p]
  <2>1. PICK d \in completed : d.party = Peer(p) /\ d.send = s.receiveKey
    BY <1>1 DEF IInv, EndOK, HasReceived
  <2>2. CompletedForm(d) /\ OnWire(LastSeal(d.hash))
    BY <1>1 DEF IInv, HistoryOK, CompletedOK
  <2>3. SessionOK(p) /\ SealIsOnWire(p)
    BY <1>1 DEF IInv, EndOK
  <2>4. Shape(s, Me(p)) /\ s.ready = TRUE
    BY <1>1, <2>3, StateTypes
  <2>5. d.send.of = s.sendKey.of
    <3>1. Shape(s, MeOf(p, conn[p]))
      BY <2>4 DEF Me
    <3> HIDE DEF s
    <3> QED BY ONLY p \in Party, <2>1, <2>2, <2>4, <3>1, OpensFromPeer
  <2>6. /\ LastSeal(s.hash).k = [of |-> s.sendKey.of, out |-> 2] /\ LastSeal(s.hash).n = 0
        /\ OnWire(LastSeal(s.hash)) /\ EndsSealed(s.hash)
    <3>1. Established(s, Me(p)) /\ Transcript(s, Me(p)) /\ Identity(s, Me(p))
      BY <2>4 DEF Shape
    <3>2. s.step > 0
      BY <2>4, <3>1 DEF Identity, Steps
    <3> QED BY <2>3, <2>4, <3>1, <3>2 DEF Established, Transcript, SealIsOnWire
  <2>7. /\ LastSeal(d.hash).k = [of |-> d.send.of, out |-> 2] /\ LastSeal(d.hash).n = 0
        /\ EndsSealed(d.hash)
    BY <2>2 DEF CompletedForm
  <2>8. LastSeal(d.hash) = LastSeal(s.hash)
    <3>1. HistoryOK
      BY <1>1 DEF IInv
    <3>2. LastSeal(d.hash) \in SealedOnWire /\ LastSeal(s.hash) \in SealedOnWire
      BY <2>2, <2>6, <3>1, SealedIsOnWire
    <3>3. OneSealPerNonce
      BY <1>1 DEF IInv
    <3> HIDE DEF s
    <3> QED BY <2>5, <2>6, <2>7, <3>2, <3>3 DEF OneSealPerNonce
  <2>9. d.hash = s.hash
    <3> HIDE DEF s
    <3> QED BY <2>6, <2>7, <2>8 DEF EndsSealed
  <2> QED BY <2>1, <2>9
<1>2. ASSUME IInv, NEW p \in Party, state[p].ready, HasReadLast(p)
      PROVE  \E c \in completed : c.party = Peer(p) /\ c.hash = state[p].hash
  BY <1>2 DEF IInv, EndOK, HasPeersWord
<1>3. IInv => PeerCompleted
  BY <1>1, <1>2 DEF PeerCompleted
<1> QED BY <1>3, SessionInvariant, PTL

\* Frames come from the partner's connection, all of them and in order.
THEOREM FramesFromPartnerHolds == Spec => []FramesFromPartner
<1>1. IInv => FramesFromPartner
  BY DEF IInv, EndOK, FramesOf, FramesFromPartner
<1> QED BY <1>1, SessionInvariant, PTL

\* No key seals twice with one counter.
THEOREM OneSealPerNonceHolds == Spec => []OneSealPerNonce
<1>1. IInv => OneSealPerNonce
  BY DEF IInv
<1> QED BY <1>1, SessionInvariant, PTL

-----------------------------------------------------------------------------
(* Pins, once frames have arrived. *)

\* Whoever became ready, and both ends where a frame was received, pin the
\* peer or nobody: whatever failed, or was connected again, since then.
PinsHold ==
  /\ \A d \in completed : pin[d.party] # "other"
  /\ \A p \in Party : received[p] # <<>> => pin[p] # "other" /\ pin[Peer(p)] # "other"

\* Only a ready end opens a frame, and it counts it.
LEMMA DecryptOpens ==
  ASSUME IInv, NEW p \in Party, NEW m \in Arriving, NEW capacity, NEW r,
         r = NoiseDecrypt(state[p], m, capacity), r.rc = "OK"
  PROVE  r.s.ready /\ r.s.receiveNonce > 0
<1> DEFINE s == state[p]
<1> DEFINE me == Me(p)
<1>1. SessionOK(p)
  BY DEF IInv, EndOK
<1>2. s.receiveNonce \in Nat
  BY <1>1, StateTypes
<1>3. CASE s \in {Zeroed, Dead}
  <2>1. r = Failure("INVALID") /\ Failure("INVALID").rc = "INVALID"
    <3>1. r = NoiseDecrypt(s, m, capacity)
      OBVIOUS
    <3> HIDE DEF s
    <3> QED BY ONLY <1>3, <3>1, DeadStays
  <2> QED BY <2>1
<1>4. CASE Shape(s, me)
  <2>1. WellFormed(m)
    BY ArrivingFromWire DEF IInv, HistoryOK
  <2>2. Decrypts(s, r, m, me)
    <3>1. r = NoiseDecrypt(s, m, capacity)
      OBVIOUS
    <3> HIDE DEF me, s
    <3> QED BY ONLY <1>4, <2>1, <3>1, NoiseDecryptDoes
  <2>3. Counts(s, r.s, 0, 1)
    BY <2>2 DEF Decrypts
  <2> HIDE DEF s
  <2> QED BY <1>2, <2>3 DEF Counts
<1> QED BY <1>1, <1>3, <1>4 DEF SessionOK

\* A step keeps what pins say of the handshakes completed so far.
LEMMA PinsStay ==
  ASSUME IInv, IInv', ReadyIsAuthenticated', PinsHold, [Next]_vars
  PROVE  PinsHold'
<1> DEFINE OnlyReady == \A d \in completed' : d \in completed \/ (d.party \in Party /\ state'[d.party].ready)
<1> DEFINE OnlyOpened == \A q \in Party : received'[q] # <<>> =>
                           received[q] # <<>> \/ (state'[q].ready /\ state'[q].receiveNonce > 0)
<1> DEFINE Good == pin' = pin /\ OnlyReady /\ OnlyOpened
<1>1. DOMAIN state = Party /\ DOMAIN received = Party
  BY DEF IInv, ConfigOK
<1>2. ASSUME NEW p \in Party, NEW r, NEW m, Leaves(p, r, m) PROVE pin' = pin /\ OnlyReady
  <2>1. pin' = pin /\ state'[p] = r.s
    BY <1>1, <1>2 DEF Leaves, config
  <2>2. \A d \in completed' : d \in completed \/ (r.s.ready /\ d = Session(p, r.s))
    BY <1>2 DEF Leaves
  <2>3. Session(p, r.s).party = p
    BY DEF Session
  <2> QED BY <2>1, <2>2, <2>3
<1>3. ASSUME NEW p \in Party, NEW pattern, Connect(p, pattern) PROVE Good
  <2>1. \A q \in Party : received'[q] # <<>> => received[q] # <<>>
    BY <1>1, <1>3 DEF Connect
  <2> QED BY <1>3, <2>1 DEF Connect, config
<1>4. ASSUME NEW p \in Party, NEW capacity,
             Write(p, capacity) \/ Encrypt(p, capacity) \/ \E m \in Arriving : Read(p, m, capacity)
      PROVE  Good
  <2>1. received' = received /\ \E r, m : Leaves(p, r, m)
    BY <1>4 DEF Write, Encrypt, Read
  <2> QED BY <1>2, <2>1
<1>5. ASSUME NEW p \in Party, NEW capacity, NEW m \in Arriving, Decrypt(p, m, capacity)
      PROVE  Good
  <2> DEFINE r == NoiseDecrypt(state[p], m, capacity)
  <2>1. /\ Leaves(p, r, <<>>)
        /\ received' = IF r.rc = "OK" THEN [received EXCEPT ![p] = Append(@, r.out)] ELSE received
    BY <1>5 DEF Decrypt
  <2>2. r.rc = "OK" => r.s.ready /\ r.s.receiveNonce > 0
    BY DecryptOpens
  <2> HIDE DEF r
  <2>3. state'[p] = r.s
    BY <1>1, <2>1 DEF Leaves
  <2>4. OnlyOpened
    BY <1>1, <2>1, <2>2, <2>3
  <2> QED BY <1>2, <2>1, <2>4
<1>6. Good
  <2>1. CASE UNCHANGED vars
    BY <2>1 DEF vars
  <2>2. CASE \E hasPin \in {PinOf(Client) # NoPin, FALSE} : Dial(hasPin)
    BY <1>3, <2>2 DEF Dial, Party
  <2>3. CASE Accept
    BY <1>3, <2>3 DEF Accept, Party
  <2>4. CASE \E p \in Party, capacity \in Capacities :
               \/ Write(p, capacity)
               \/ Encrypt(p, capacity)
               \/ \E m \in Arriving : Read(p, m, capacity) \/ Decrypt(p, m, capacity)
    BY <1>4, <1>5, <2>4
  <2> QED BY <2>1, <2>2, <2>3, <2>4 DEF Next
<1>7. \A q \in Party : state'[q].ready => pin'[q] # "other"
  BY DEF ReadyIsAuthenticated
<1>8. \A d \in completed' : pin'[d.party] # "other"
  BY <1>6, <1>7 DEF PinsHold
<1>9. ASSUME NEW q \in Party, received'[q] # <<>>
      PROVE  pin'[q] # "other" /\ pin'[Peer(q)] # "other"
  <2>1. CASE received[q] # <<>>
    BY <1>6, <2>1 DEF PinsHold
  <2>2. CASE state'[q].ready /\ state'[q].receiveNonce > 0
    <3>1. HasReceived(q)'
      BY DEF IInv, EndOK
    <3>2. \E d \in completed' : d.party = Peer(q)
      BY <2>2, <3>1 DEF HasReceived
    <3> QED BY <1>7, <1>8, <2>2, <3>2
  <2> QED BY <1>6, <1>9, <2>1, <2>2
<1> QED BY <1>8, <1>9 DEF PinsHold

\* Pins outlive failures and new connections.
THEOREM PinsHoldAlways == Spec => []PinsHold
<1>1. Init => PinsHold
  BY DEF Init, PinsHold
<1>2. IInv /\ IInv' /\ ReadyIsAuthenticated' /\ PinsHold /\ [Next]_vars => PinsHold'
  BY PinsStay
<1> QED BY <1>1, <1>2, Authenticated, SessionInvariant, PTL DEF Spec

-----------------------------------------------------------------------------
(* The applications of NoiseFallback make no calls but the session's. *)

\* What was dialled was offered, and what is in flight was sent.
FallbackOK ==
  /\ conn[Client] > 0 => dialled \in offer
  /\ DOMAIN inFlight = Party
  /\ \A p \in Party : /\ IsSeq(inFlight[p])
                      /\ \A i \in 1..Len(inFlight[p]) : inFlight[p][i] \in wire

\* What the client's queue delivers is in the queue, and the rest stays in it.
LEMMA Waiting ==
  ASSUME NEW q, IsSeq(q), q # <<>>
  PROVE  /\ Head(q) = q[1] /\ IsSeq(Tail(q)) /\ 1 \in 1..Len(q)
         /\ \A i \in 1..Len(Tail(q)) : \E j \in 1..Len(q) : Tail(q)[i] = q[j]
<1>1. Len(q) \in Nat
  BY DEF IsSeq
<1>2. Len(q) # 0
  <2> SUFFICES ASSUME Len(q) = 0 PROVE FALSE
    OBVIOUS
  <2>1. IsSeq(<<>>) /\ Len(<<>>) = 0
    BY DEF IsSeq
  <2>2. q = <<>>
    BY <2>1, SameSeq
  <2> QED BY <2>2
<1>3. Len(q) >= 1
  BY <1>1, <1>2
<1>4. /\ Head(q) = q[1] /\ IsSeq(Tail(q)) /\ Len(Tail(q)) = Len(q) - 1
      /\ \A i \in 1..Len(q) - 1 : Tail(q)[i] = q[i + 1]
  BY <1>3, HeadTail
<1>5. ASSUME NEW i \in 1..Len(Tail(q)) PROVE \E j \in 1..Len(q) : Tail(q)[i] = q[j]
  <2>1. i \in 1..Len(q) - 1 /\ i + 1 \in 1..Len(q)
    BY <1>1, <1>4
  <2> QED BY <1>4, <2>1
<1> QED BY <1>1, <1>3, <1>4, <1>5

\* More on the wire, and in flight what was, less its head or with what was sent.
LEMMA FlightStays ==
  ASSUME FallbackOK, wire \subseteq wire', conn' = conn, offer' = offer, dialled' = dialled,
         NEW p \in Party, DOMAIN inFlight' = Party,
         \A q \in Party \ {p} : inFlight'[q] = inFlight[q],
         \/ inFlight'[p] = inFlight[p]
         \/ inFlight[p] # <<>> /\ inFlight'[p] = Tail(inFlight[p])
         \/ \E m \in wire' : inFlight'[p] = Append(inFlight[p], m)
  PROVE  FallbackOK'
<1>1. ASSUME NEW q \in Party PROVE IsSeq(inFlight[q]) /\ \A i \in 1..Len(inFlight[q]) : inFlight[q][i] \in wire'
  BY DEF FallbackOK
<1>2. IsSeq(inFlight'[p]) /\ \A i \in 1..Len(inFlight'[p]) : inFlight'[p][i] \in wire'
  <2>1. CASE inFlight'[p] = inFlight[p]
    BY <1>1, <2>1
  <2>2. CASE inFlight[p] # <<>> /\ inFlight'[p] = Tail(inFlight[p])
    BY <1>1, <2>2, Waiting
  <2>3. CASE \E m \in wire' : inFlight'[p] = Append(inFlight[p], m)
    <3>1. PICK m \in wire' : inFlight'[p] = Append(inFlight[p], m)
      BY <2>3
    <3>2. Grows(inFlight[p], inFlight'[p], m)
      BY <1>1, <3>1, AppendGrows
    <3>3. IsSeq(inFlight[p])
      BY <1>1
    <3>4. PICK n \in Nat : n = Len(inFlight[p])
      BY <3>3 DEF IsSeq
    <3>5. ASSUME NEW i \in 1..Len(inFlight'[p]) PROVE inFlight'[p][i] \in wire'
      <4>1. i = n + 1 \/ i \in 1..n
        BY <3>2, <3>4 DEF Grows
      <4> QED BY <1>1, <3>2, <3>4, <4>1 DEF Grows
    <3> QED BY <3>2, <3>5 DEF Grows
  <2> QED BY <2>1, <2>2, <2>3
<1>3. ASSUME NEW q \in Party
      PROVE  IsSeq(inFlight'[q]) /\ \A i \in 1..Len(inFlight'[q]) : inFlight'[q][i] \in wire'
  <2>1. CASE q = p
    BY <1>2, <2>1
  <2>2. CASE q # p
    BY <1>1, <2>2
  <2> QED BY <2>1, <2>2
<1> QED BY <1>3 DEF FallbackOK

\* The hello is a new message.
LEMMA HelloIsNew ==
  ASSUME IInv, HelloIsDue, Encrypt(Client, Ample)
  PROVE  \E m \in wire' : m \notin wire
<1> DEFINE s == state[Client]
<1> DEFINE frame == [from |-> Client, conn |-> conn[Client], seq |-> s.sendNonce + 1]
<1> DEFINE f == FrameSeal(s, frame)
<1> DEFINE m == <<Piece(PayloadLen + 16, [sealed |-> f])>>
<1> DEFINE r == NoiseEncrypt(s, frame, PayloadLen, Ample)
<1>1. Client \in Party
  BY DEF Party
<1>2. s.ready /\ ~s.failed /\ SessionOK(Client)
  BY <1>1 DEF HelloIsDue, Joined, AttemptFailed, IInv, EndOK
<1>3. s.sendNonce \in Nat
  BY <1>2, StateTypes
<1>4. r.out = m
  <2>1. PayloadLen \in Nat
    BY SessionAssumption
  <2>2. ~(Ample < PayloadLen + 16)
    BY <2>1 DEF Ample, Overhead
  <2> QED BY <1>2, <2>2 DEF NoiseEncrypt, FrameSeal, Seal
<1>5. Leaves(Client, r, r.out)
  BY DEF Encrypt
<1>6. m[1].item = [sealed |-> f] /\ 1 \in 1..Len(m) /\ m # <<>>
  BY DEF Piece
<1>7. f.k = s.sendKey /\ f.n = s.sendNonce
  BY DEF FrameSeal
<1> HIDE DEF r, m, f
<1>8. wire' = wire \cup {m}
  BY <1>4, <1>5, <1>6 DEF Leaves
<1>9. ASSUME m \in wire PROVE FALSE
  <2>1. OnWire(f)
    BY <1>6, <1>9 DEF OnWire
  <2>2. Session(Client, s) \in completed
    BY <1>1, <1>2 DEF IInv, EndOK, HasCompleted
  <2>3. PICK d \in completed : d.party = Client /\ d.conn = conn[Client] /\ d.send = s.sendKey
    BY <2>2 DEF Session
  <2>4. /\ HistoryOK /\ ~state[Client].failed /\ state[Client].sendNonce \in Nat
        /\ f.k = d.send /\ f.n = state[Client].sendNonce
    BY <1>2, <1>3, <1>7, <2>3 DEF IInv
  <2> QED BY ONLY <1>1, <2>1, <2>3, <2>4, d \in completed, FrameSealIsNew
<1> QED BY <1>8, <1>9

\* Every step of the fallback driver is a step of the session or leaves it
\* alone.
LEMMA FallbackStep ==
  ASSUME IInv, OfferOK, FallbackOK, Ample \in Capacities, [FallbackNext]_fallbackVars
  PROVE  [Next]_vars /\ FallbackOK'
<1>1. /\ Client \in Party /\ Hub \in Party /\ Client # Hub
      /\ Peer(Client) = Hub /\ Peer(Hub) = Client
      /\ conn[Client] \in Nat /\ conn[Hub] \in Nat
  <2>1. Client \in Party /\ Hub \in Party /\ Client # Hub /\ Peer(Client) = Hub /\ Peer(Hub) = Client
    BY SessionAssumption DEF Party, Peer
  <2> QED BY <2>1, SessionAssumption DEF IInv, ConfigOK
<1>2. ASSUME NEW p \in Party, inFlight[p] # <<>> PROVE Head(inFlight[p]) \in Arriving
  BY <1>2, Waiting DEF FallbackOK, Arriving
<1>3. ASSUME NEW hasPin \in {PinOf(Client) # NoPin, FALSE}, DialOnce(hasPin)
      PROVE  Next /\ FallbackOK'
  <2> DEFINE choice == NoiseSelect(offer, hasPin)
  <2>1. choice.rc = "OK" /\ Connect(Client, choice.pattern) /\ dialled' = choice.pattern
    BY <1>3 DEF DialOnce, Dial
  <2>2. choice.pattern \in offer
    BY <2>1 DEF NoiseSelect
  <2> HIDE DEF choice
  <2>3. offer' = offer /\ inFlight' = [p \in Party |-> <<>>]
    BY <1>3, <2>1 DEF DialOnce, Quiet, Connect, config
  <2>4. \A p \in Party : IsSeq(inFlight'[p]) /\ Len(inFlight'[p]) = 0
    BY <2>3 DEF IsSeq
  <2>5. FallbackOK'
    BY <2>1, <2>2, <2>3, <2>4 DEF FallbackOK
  <2> QED BY <1>3, <2>5 DEF Next, DialOnce
<1>4. ASSUME AcceptDialled PROVE Next /\ FallbackOK'
  <2>1. dialled \in offer
    BY <1>1, <1>4 DEF AcceptDialled, AcceptIsDue, FallbackOK
  <2>2. Connect(Hub, dialled) /\ UNCHANGED <<dialled, inFlight>>
    BY <1>4 DEF AcceptDialled
  <2>3. conn'[Client] = conn[Client] /\ offer' = offer /\ wire' = wire
    BY <1>1, <2>2 DEF Connect, config, IInv, ConfigOK
  <2> QED BY <2>1, <2>2, <2>3 DEF Next, Accept, FallbackOK
<1>5. ASSUME NEW p \in Party, WriteDue(p) PROVE Next /\ FallbackOK'
  <2> DEFINE r == NoiseWrite(state[p], "payload", PayloadLen, Ample)
  <2>1. Write(p, Ample) /\ Sends(p, r.out) /\ dialled' = dialled
    BY <1>5 DEF WriteDue
  <2>2. Leaves(p, r, r.out)
    BY <2>1 DEF Write
  <2> HIDE DEF r
  <2>3. /\ conn' = conn /\ offer' = offer /\ wire \subseteq wire'
        /\ r.out = <<>> \/ r.out \in wire'
    BY <2>2 DEF Leaves, config
  <2>4. /\ DOMAIN inFlight' = Party /\ \A q \in Party \ {p} : inFlight'[q] = inFlight[q]
        /\ inFlight'[p] = IF r.out = <<>> THEN inFlight[p] ELSE Append(inFlight[p], r.out)
    BY <2>1 DEF Sends, FallbackOK
  <2>5. \/ inFlight'[p] = inFlight[p]
        \/ \E m \in wire' : inFlight'[p] = Append(inFlight[p], m)
    BY <2>3, <2>4
  <2>6. FallbackOK'
    BY <2>1, <2>3, <2>4, <2>5, FlightStays
  <2> QED BY <2>1, <2>6 DEF Next
<1>6. ASSUME NEW p \in Party, Pops(p), inFlight[Peer(p)] # <<>>,
             wire \subseteq wire', conn' = conn, offer' = offer, dialled' = dialled
      PROVE  FallbackOK'
  <2> DEFINE q == Peer(p)
  <2>1. q \in Party
    BY DEF Peer, Party
  <2>2. /\ DOMAIN inFlight' = Party /\ \A w \in Party \ {q} : inFlight'[w] = inFlight[w]
        /\ inFlight[q] # <<>> /\ inFlight'[q] = Tail(inFlight[q])
    BY <1>6, <2>1 DEF Pops, FallbackOK
  <2> HIDE DEF q
  <2> QED BY <1>6, <2>1, <2>2, FlightStays
<1>7. ASSUME NEW p \in Party, ReadDue(p) PROVE Next /\ FallbackOK'
  <2>1. /\ Read(p, Head(inFlight[Peer(p)]), Ample) /\ Pops(p) /\ dialled' = dialled
        /\ inFlight[Peer(p)] # <<>> /\ Peer(p) \in Party
    BY <1>7 DEF ReadDue, ReadIsDue, Peer, Party
  <2>2. conn' = conn /\ offer' = offer /\ wire \subseteq wire'
    BY <2>1 DEF Read, Leaves, config
  <2>3. Head(inFlight[Peer(p)]) \in Arriving
    BY <1>2, <2>1
  <2> QED BY <1>6, <2>1, <2>2, <2>3 DEF Next
<1>8. ASSUME SendHello PROVE Next /\ FallbackOK'
  <2> DEFINE m == CHOOSE w \in wire' : w \notin wire
  <2>1. /\ HelloIsDue /\ Encrypt(Client, Ample) /\ dialled' = dialled
        /\ inFlight' = [inFlight EXCEPT ![Client] = Append(@, m)]
    BY <1>8 DEF SendHello
  <2>2. m \in wire'
    BY <2>1, HelloIsNew
  <2> HIDE DEF m
  <2>3. conn' = conn /\ offer' = offer /\ wire \subseteq wire'
    BY <2>1 DEF Encrypt, Leaves, config
  <2>4. /\ DOMAIN inFlight' = Party /\ \A q \in Party \ {Client} : inFlight'[q] = inFlight[q]
        /\ \E w \in wire' : inFlight'[Client] = Append(inFlight[Client], w)
    BY <1>1, <2>1, <2>2 DEF FallbackOK
  <2>5. FallbackOK'
    BY <1>1, <2>1, <2>3, <2>4, FlightStays
  <2> QED BY <1>1, <2>1, <2>5 DEF Next
<1>9. ASSUME ReadHello PROVE Next /\ FallbackOK'
  <2>1. /\ Decrypt(Hub, Head(inFlight[Client]), Ample) /\ Pops(Hub) /\ dialled' = dialled
        /\ inFlight[Client] # <<>>
    BY <1>9 DEF ReadHello, HelloIsHere
  <2>2. conn' = conn /\ offer' = offer /\ wire \subseteq wire'
    BY <2>1 DEF Decrypt, Leaves, config
  <2>3. Head(inFlight[Client]) \in Arriving
    BY <1>1, <1>2, <2>1
  <2> QED BY <1>1, <1>6, <2>1, <2>2, <2>3 DEF Next
<1>10. ASSUME UNCHANGED fallbackVars PROVE [Next]_vars /\ FallbackOK'
  <2>1. UNCHANGED vars /\ UNCHANGED <<dialled, inFlight>>
    BY <1>10 DEF fallbackVars
  <2>2. UNCHANGED <<conn, offer, wire>>
    BY <2>1 DEF vars
  <2> QED BY <2>1, <2>2 DEF FallbackOK
<1>11. CASE FallbackNext
  <2>1. DialFirst => Next /\ FallbackOK'
    BY <1>3 DEF DialFirst
  <2>2. RetryAsXX => Next /\ FallbackOK'
    BY <1>3 DEF RetryAsXX
  <2>3. Rest => [Next]_vars /\ FallbackOK'
    BY <1>10 DEF Rest
  <2> QED BY <1>4, <1>5, <1>7, <1>8, <1>9, <1>11, <2>1, <2>2, <2>3 DEF FallbackNext
<1> QED BY <1>10, <1>11

\* Where the buffers are ample, what the applications of docs/noise-v3.md do is
\* what any application may do: all of the above holds of them.
THEOREM FallbackIsASession == FallbackSpec => Spec
<1>1. FallbackInit => Init /\ IInv /\ OfferOK /\ FallbackOK
  <2> SUFFICES ASSUME FallbackInit PROVE Init /\ IInv /\ OfferOK /\ FallbackOK
    OBVIOUS
  <2>1. Init /\ IInv /\ OfferOK
    BY InitOK DEF FallbackInit, Init, OfferOK
  <2>2. conn[Client] = 0
    BY DEF FallbackInit, Init, Party
  <2>3. \A p \in Party : IsSeq(inFlight[p]) /\ Len(inFlight[p]) = 0
    BY DEF FallbackInit, IsSeq
  <2>4. DOMAIN inFlight = Party
    BY DEF FallbackInit
  <2> QED BY <2>1, <2>2, <2>3, <2>4 DEF FallbackOK
<1>2. /\ IInv /\ OfferOK /\ FallbackOK /\ [FallbackNext]_fallbackVars
        => [Next]_vars /\ (IInv /\ OfferOK /\ FallbackOK)'
  BY FallbackAssumption, FallbackStep, NextKeeps
<1> QED BY <1>1, <1>2, PTL DEF FallbackSpec, Spec

\* An incompatible pin is never connected past, by no retry.
THEOREM PinOutlivesFallbackHolds == FallbackSpec => []PinOutlivesFallback
<1>1. PinsHold => PinOutlivesFallback
  <2>1. Hub \in Party /\ Peer(Hub) = Client
    BY SessionAssumption DEF Party, Peer
  <2> QED BY <2>1 DEF PinsHold, PinOutlivesFallback, Greeted
<1>2. FallbackSpec => Spec
  BY FallbackIsASession
<1> QED BY <1>1, <1>2, PinsHoldAlways, PTL
=============================================================================
