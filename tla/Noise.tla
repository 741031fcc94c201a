------------------------------- MODULE Noise -------------------------------
(***************************************************************************)
(* The Noise XXpsk2 / KKpsk0 state machine of src/noise.c as operators     *)
(* from a session's state to its next state: each takes the state a call   *)
(* finds and yields [rc, s, ...], the code the call returns and the state  *)
(* it leaves.                                                              *)
(*                                                                         *)
(* Cryptography is symbolic.  A key pair is named by its owner and the     *)
(* connection it was made for, and stands for both halves; a hash is the   *)
(* sequence of everything mixed into it; a chaining key is the sequence of *)
(* its HKDF inputs; a ciphertext is the record of its key, counter,        *)
(* associated data and plaintext; a Diffie-Hellman result is the set of    *)
(* the two key pairs.  A message is a sequence of pieces with their sizes  *)
(* in bytes.                                                               *)
(***************************************************************************)
EXTENDS Integers, Sequences, SequencesExt

XX == "XXpsk2"
KK == "KKpsk0"
Tokens == [pattern \in {XX, KK} |->
             IF pattern = XX
             THEN <<<<"e">>, <<"e", "ee", "s", "es", "psk">>, <<"s", "se">>>>
             ELSE <<<<"psk", "e", "es", "ss">>, <<"e", "ee", "se">>>>]
\* tokens[i], 0 behind the last of at most five.
TokenAt(s, i) == LET tokens == Tokens[s.pattern][s.step + 1]
                 IN IF i <= Len(tokens) THEN tokens[i] ELSE "end"

KeyPair(owner, conn) == [owner |-> owner, conn |-> conn]
ZeroKey == KeyPair("zero", 0)      \* 32 zero bytes, a low-order point
GarbageKey == KeyPair("nobody", 0) \* bytes that are no party's public key
NoPin == KeyPair("nopin", 0)
NoKey == [of |-> <<>>, out |-> 0]

Zeroed ==
  [pattern |-> "none", initiator |-> FALSE, step |-> 0, psk |-> "none",
   localStatic |-> ZeroKey, localPublic |-> ZeroKey, ephemeral |-> ZeroKey,
   remoteStatic |-> ZeroKey, remoteEphemeral |-> ZeroKey, pin |-> NoPin,
   hash |-> <<>>, ck |-> <<>>, key |-> NoKey, nonce |-> 0, hasKey |-> FALSE,
   ready |-> FALSE, failed |-> FALSE, sendKey |-> NoKey, receiveKey |-> NoKey,
   sendNonce |-> 0, receiveNonce |-> 0]

\* fail(): the whole state is wiped, only failed is set.
Failure(rc) == [rc |-> rc, s |-> [Zeroed EXCEPT !.failed = TRUE], out |-> <<>>]

-----------------------------------------------------------------------------
(* Symmetric state. *)

MixHash(s, item) == [s EXCEPT !.hash = Append(@, item)]

MixKey(s, input) ==
  LET ck == Append(s.ck, input)
  IN [s EXCEPT !.ck = ck, !.key = [of |-> ck, out |-> 2], !.nonce = 0, !.hasKey = TRUE]

MixKeyAndHash(s, input) ==
  LET ck == Append(s.ck, input)
  IN [MixHash(s, [derived |-> ck]) EXCEPT
        !.ck = ck, !.key = [of |-> ck, out |-> 3], !.nonce = 0, !.hasKey = TRUE]

Seal(k, n, ad, pt) == [sealed |-> [k |-> k, n |-> n, ad |-> ad, pt |-> pt]]
Opens(item, k, n, ad) ==
  "sealed" \in DOMAIN item /\ <<item.sealed.k, item.sealed.n, item.sealed.ad>> = <<k, n, ad>>

Piece(size, item) == [size |-> size, item |-> item]
\* A message has at most three pieces: an ephemeral, a static key, a payload.
SizeAt(message, i) == IF i <= Len(message) THEN message[i].size ELSE 0
Size(message) == SizeAt(message, 1) + SizeAt(message, 2) + SizeAt(message, 3)
TagSize(s) == IF s.hasKey THEN 16 ELSE 0

\* encrypt_hash: the sealed (or, with no key yet, clear) item is also hashed.
EncryptHash(s, pt) ==
  LET item == IF s.hasKey THEN Seal(s.key, s.nonce, s.hash, pt) ELSE pt
  IN [item |-> item,
      s |-> MixHash([s EXCEPT !.nonce = IF s.hasKey THEN @ + 1 ELSE @], item)]

\* decrypt_hash: the received item is hashed only once it has opened.
\* (mutants: the item is not hashed; the tag is not checked; the counter stays)
DecryptHashForgets(s, item) ==
  IF ~s.hasKey THEN [rc |-> "OK", pt |-> item, s |-> s]
  ELSE IF Opens(item, s.key, s.nonce, s.hash)
  THEN [rc |-> "OK", pt |-> item.sealed.pt, s |-> [s EXCEPT !.nonce = @ + 1]]
  ELSE [rc |-> "AUTH", pt |-> item, s |-> s]
DecryptHashUnchecked(s, item) ==
  [rc |-> "OK", s |-> MixHash([s EXCEPT !.nonce = @ + 1], item),
   pt |-> IF "sealed" \in DOMAIN item THEN item.sealed.pt ELSE item]
DecryptHashKeepsCounter(s, item) ==
  IF ~s.hasKey THEN [rc |-> "OK", pt |-> item, s |-> MixHash(s, item)]
  ELSE IF Opens(item, s.key, s.nonce, s.hash)
  THEN [rc |-> "OK", pt |-> item.sealed.pt, s |-> MixHash(s, item)]
  ELSE [rc |-> "AUTH", pt |-> item, s |-> s]
DecryptHash(s, item) ==
  IF ~s.hasKey
  THEN [rc |-> "OK", pt |-> item, s |-> MixHash(s, item)]
  ELSE IF Opens(item, s.key, s.nonce, s.hash)
  THEN [rc |-> "OK", pt |-> item.sealed.pt, s |-> MixHash([s EXCEPT !.nonce = @ + 1], item)]
  ELSE [rc |-> "AUTH", pt |-> item, s |-> s]

\* dh: a low-order remote point yields an all-zero secret, which is refused.
DH(s, token) ==
  LET local == IF token \in {"ee", IF s.initiator THEN "es" ELSE "se"}
               THEN s.ephemeral ELSE s.localStatic
      remote == IF token \in {"ee", IF s.initiator THEN "se" ELSE "es"}
                THEN s.remoteEphemeral ELSE s.remoteStatic
  IN IF remote = ZeroKey
     THEN [rc |-> "AUTH", s |-> s]
     ELSE [rc |-> "OK", s |-> MixKey(s, [shared |-> {local, remote}])]

\* split: the step is counted; after the last one the transport keys are
\* derived and the handshake's secrets wiped.
\* (mutants: ready after the last message but one; both take the same halves)
SplitTooEarly(s) ==
  IF s.step + 2 # Len(Tokens[s.pattern]) THEN [s EXCEPT !.step = @ + 1]
                                         ELSE [s EXCEPT !.step = @ + 1, !.ready = TRUE]
SplitUncrossed(s) ==
  IF s.step + 1 # Len(Tokens[s.pattern]) THEN [s EXCEPT !.step = @ + 1]
  ELSE [s EXCEPT !.step = @ + 1, !.ready = TRUE,
                 !.sendKey = [of |-> s.ck, split |-> 1],
                 !.receiveKey = [of |-> s.ck, split |-> 2]]
Split(s) ==
  IF s.step + 1 # Len(Tokens[s.pattern])
  THEN [s EXCEPT !.step = @ + 1]
  ELSE [s EXCEPT !.step = @ + 1,
                 !.sendKey = [of |-> s.ck, split |-> IF s.initiator THEN 1 ELSE 2],
                 !.receiveKey = [of |-> s.ck, split |-> IF s.initiator THEN 2 ELSE 1],
                 !.localStatic = ZeroKey, !.ephemeral = ZeroKey,
                 !.ck = <<>>, !.key = NoKey, !.psk = "none", !.ready = TRUE]

-----------------------------------------------------------------------------
(* The public functions. *)

\* thalovant_noise_init.  pin = NoPin: no pin is passed.
NoiseInit(pattern, initiator, psk, prologue, static, ephemeral, pin) ==
  LET s == [Zeroed EXCEPT
              !.pattern = pattern, !.initiator = initiator, !.psk = psk,
              !.localStatic = static, !.localPublic = static, !.ephemeral = ephemeral,
              !.pin = pin,
              !.remoteStatic = IF pattern = KK THEN pin ELSE ZeroKey,
              !.hash = <<[name |-> pattern], [prologue |-> prologue]>>,
              !.ck = <<[name |-> pattern]>>]
      premessages == IF initiator THEN <<[key |-> static], [key |-> pin]>>
                                  ELSE <<[key |-> pin], [key |-> static]>>
  IN IF pattern = KK /\ pin = NoPin
     THEN Failure("INVALID")
     ELSE [rc |-> "OK", out |-> <<>>,
           s |-> IF pattern = KK THEN [s EXCEPT !.hash = @ \o premessages] ELSE s]

\* (mutant: the last step is never due)
InHandshakeStopsEarly(s) ==
  ~s.failed /\ ~s.ready /\ s.pattern \in {XX, KK} /\ s.step + 1 < Len(Tokens[s.pattern])
InHandshake(s) == /\ ~s.failed /\ ~s.ready
                  /\ s.pattern \in {XX, KK} /\ s.step < Len(Tokens[s.pattern])
TurnToWrite(s) == (s.step % 2 = 0) = s.initiator

\* The cases of thalovant_noise_write's loop, from a state and what is already
\* in the buffer to the code, the state and the buffer behind the token.
\* (mutant: e is hashed but, as without a PSK, does not key the cipher)
WriteEPlain(s, out) ==
  LET mine == [key |-> s.ephemeral]
  IN [rc |-> "OK", s |-> MixHash(s, mine), out |-> Append(out, Piece(32, mine))]
WriteE(s, out) ==
  LET mine == [key |-> s.ephemeral]
  IN [rc |-> "OK", s |-> MixKey(MixHash(s, mine), mine), out |-> Append(out, Piece(32, mine))]
WriteS(s, out) ==
  LET sealed == EncryptHash(s, [key |-> s.localPublic])
  IN [rc |-> "OK", s |-> sealed.s, out |-> Append(out, Piece(32 + TagSize(s), sealed.item))]
WritePsk(s, out) == [rc |-> "OK", s |-> MixKeyAndHash(s, [psk |-> s.psk]), out |-> out]
WriteDH(s, out, token) ==
  LET secret == DH(s, token) IN [rc |-> secret.rc, s |-> secret.s, out |-> out]
\* One token; behind a failure, and behind the last token, none is processed.
WriteToken(acc, token) ==
  IF acc.rc # "OK" \/ token = "end" THEN acc
  ELSE CASE token = "e" -> WriteE(acc.s, acc.out)
         [] token = "s" -> WriteS(acc.s, acc.out)
         [] token = "psk" -> WritePsk(acc.s, acc.out)
         [] OTHER -> WriteDH(acc.s, acc.out, token)
\* The loop, to the outcome behind each of at most five tokens.
WriteTokens(s) ==
  LET behind[i \in 0..5] ==
        IF i = 0 THEN [rc |-> "OK", s |-> s, out |-> <<>>]
                 ELSE WriteToken(behind[i - 1], TokenAt(s, i))
  IN behind[5]

\* (mutant: the payload's tag is forgotten)
OverheadWithoutTag == 80
Overhead == 96
\* thalovant_noise_write of a payload of len bytes into capacity bytes.
NoiseWrite(s, payload, len, capacity) ==
  IF ~InHandshake(s) \/ ~TurnToWrite(s) THEN Failure("INVALID")
  ELSE IF capacity < len + Overhead THEN Failure("NOMEM")
  ELSE LET r == WriteTokens(s)
           sealed == EncryptHash(r.s, [payload |-> payload])
       IN IF r.rc # "OK" THEN Failure(r.rc)
          ELSE [rc |-> "OK", s |-> Split(sealed.s),
                out |-> Append(r.out, Piece(len + TagSize(r.s), sealed.item))]

\* The next size bytes of a message.  Bytes that straddle pieces mean nothing.
Take(rest, size) ==
  IF Head(rest).size = size
  THEN [item |-> Head(rest).item, rest |-> Tail(rest)]
  ELSE [item |-> [key |-> GarbageKey],
        rest |-> <<Piece(Size(rest) - size, [key |-> GarbageKey])>>]
AsKey(item) == IF "key" \in DOMAIN item THEN item.key ELSE GarbageKey

\* The pin check of thalovant_noise_read.
\* (mutant: the pin is not compared)
PinRefusesNever(s) == FALSE
PinRefuses(s) == s.pin # NoPin /\ s.pin # s.remoteStatic

\* The cases of thalovant_noise_read's loop, likewise with the rest of the message.
ReadE(s, rest) ==
  LET taken == Take(rest, 32)
      theirs == [key |-> AsKey(taken.item)]
      hashed == MixHash([s EXCEPT !.remoteEphemeral = theirs.key], theirs)
  IN IF Size(rest) < 32 THEN [rc |-> "INVALID", s |-> s, rest |-> rest]
     ELSE [rc |-> "OK", s |-> MixKey(hashed, theirs), rest |-> taken.rest]
ReadS(s, rest) ==
  LET taken == Take(rest, 32 + TagSize(s))
      opened == DecryptHash(s, taken.item)
      named == [opened.s EXCEPT !.remoteStatic = AsKey(opened.pt)]
  IN IF Size(rest) < 32 + TagSize(s) THEN [rc |-> "INVALID", s |-> s, rest |-> rest]
     ELSE IF opened.rc # "OK" THEN [rc |-> opened.rc, s |-> s, rest |-> rest]
     ELSE [rc |-> IF PinRefuses(named) THEN "AUTH" ELSE "OK", s |-> named, rest |-> taken.rest]
ReadPsk(s, rest) == [rc |-> "OK", s |-> MixKeyAndHash(s, [psk |-> s.psk]), rest |-> rest]
ReadDH(s, rest, token) ==
  LET secret == DH(s, token) IN [rc |-> secret.rc, s |-> secret.s, rest |-> rest]
ReadToken(acc, token) ==
  IF acc.rc # "OK" \/ token = "end" THEN acc
  ELSE CASE token = "e" -> ReadE(acc.s, acc.rest)
         [] token = "s" -> ReadS(acc.s, acc.rest)
         [] token = "psk" -> ReadPsk(acc.s, acc.rest)
         [] OTHER -> ReadDH(acc.s, acc.rest, token)
ReadTokens(s, message) ==
  LET behind[i \in 0..5] ==
        IF i = 0 THEN [rc |-> "OK", s |-> s, rest |-> message]
                 ELSE ReadToken(behind[i - 1], TokenAt(s, i))
  IN behind[5]

\* thalovant_noise_read of a message into capacity bytes.
NoiseRead(s, message, capacity) ==
  IF ~InHandshake(s) \/ TurnToWrite(s) THEN Failure("INVALID")
  ELSE LET r == ReadTokens(s, message)
           left == Size(r.rest)
           opened == DecryptHash(r.s, IF Len(r.rest) = 1 THEN Head(r.rest).item
                                                         ELSE [key |-> GarbageKey])
       IN IF r.rc # "OK" THEN Failure(r.rc)
          ELSE IF left < TagSize(r.s) THEN Failure("AUTH")
          ELSE IF capacity < left - TagSize(r.s) THEN Failure("NOMEM")
          ELSE IF opened.rc # "OK" THEN Failure(opened.rc)
          ELSE [rc |-> "OK", s |-> Split(opened.s), out |-> opened.pt]

\* thalovant_noise_encrypt and thalovant_noise_decrypt of an unchunked frame
\* (NoiseTransport has the markers and the counters' end).
NoiseEncrypt(s, frame, len, capacity) ==
  IF ~s.ready \/ s.failed THEN Failure("INVALID")
  ELSE IF capacity < len + 16 THEN Failure("NOMEM")
  ELSE [rc |-> "OK", s |-> [s EXCEPT !.sendNonce = @ + 1],
        out |-> <<Piece(len + 16, Seal(s.sendKey, s.sendNonce, <<>>, frame))>>]

\* (mutant: the receive counter stays)
NoiseDecryptKeepsCounter(s, message, capacity) ==
  IF ~s.ready \/ s.failed \/ Size(message) < 17 THEN Failure("INVALID")
  ELSE IF ~Opens(message[1].item, s.receiveKey, s.receiveNonce, <<>>) THEN Failure("AUTH")
  ELSE [rc |-> "OK", s |-> s, out |-> message[1].item.sealed.pt]
NoiseDecrypt(s, message, capacity) ==
  IF ~s.ready \/ s.failed \/ Size(message) < 17 THEN Failure("INVALID")
  ELSE IF capacity < Size(message) - 16 THEN Failure("NOMEM")
  ELSE IF Len(message) # 1 \/ ~Opens(message[1].item, s.receiveKey, s.receiveNonce, <<>>)
  THEN Failure("AUTH")
  ELSE [rc |-> "OK", s |-> [s EXCEPT !.receiveNonce = @ + 1],
        out |-> message[1].item.sealed.pt]

\* thalovant_noise_select, for an offer that holds the suite.
\* (mutant: KK whenever it is offered)
NoiseSelectIgnoresPin(patterns, hasPin) ==
  IF KK \in patterns THEN [rc |-> "OK", pattern |-> KK]
  ELSE IF XX \in patterns THEN [rc |-> "OK", pattern |-> XX]
  ELSE [rc |-> "UNSUPPORTED", pattern |-> "none"]
NoiseSelect(patterns, hasPin) ==
  IF hasPin /\ KK \in patterns THEN [rc |-> "OK", pattern |-> KK]
  ELSE IF XX \in patterns THEN [rc |-> "OK", pattern |-> XX]
  ELSE [rc |-> "UNSUPPORTED", pattern |-> "none"]
=============================================================================
