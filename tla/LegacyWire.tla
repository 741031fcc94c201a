----------------------------- MODULE LegacyWire -----------------------------
(***************************************************************************)
(* A session of the pre-shared key envelopes of src/wire.c, between a hub   *)
(* and the application that docs/linux-websocket.md writes out: it answers  *)
(* an offered handshake with a hello in the clear, sends in the clear      *)
(* before and sealed ever after, and takes a frame for what it says it is, *)
(* sealed or not.  The hub may tell anything at any time, write envelopes  *)
(* in hexadecimal or Base64, with nonces of 12 or 16 bytes, and hold       *)
(* another key.  A buffer's content is a message under the keystreams laid *)
(* over it: sealing twice under one nonce would bare it.                   *)
(***************************************************************************)
EXTENDS Integers, Sequences, FiniteSets

CONSTANTS Lengths,     \* Lengths[m]: bytes of message m
          TypeOf,      \* TypeOf[m]: its msg_type
          Truthy,      \* Truthy[m]: the members of its payload that are true, of three
          Forms,       \* how the hub writes its envelopes
          EnvelopeCaps,     \* sizes of the application's envelope buffer
          InCap,       \* size of its buffer for what it opens
          MaxSends, MaxTells, MaxDown, MaxNonces   \* bounds of the model

Messages == DOMAIN Lengths

\* "none" stands for no message.
ASSUME WireAssumption ==
  /\ \A m \in Messages : /\ Lengths[m] \in Nat
                         /\ Truthy[m] \subseteq {"preshared_key", "handshake", "envelope"}
  /\ Forms \subseteq [enc : {"hex", "base64", "unpadded"}, nonceLen : {12, 16}, hexish : BOOLEAN]
  /\ InCap \in Nat /\ "none" \notin Messages

TagLen == 16
NonceLen == 16

VARIABLES up, down,      \* frames on the connection, either way
          greeted,       \* handshake_complete
          scratch,       \* frame_json, which is sealed in place
          tries,         \* how often it was sealed since it was written
          nonces,        \* nonces drawn so far: they are numbers
          said,          \* of each frame sent, its message, and tries before it
          inbox,         \* what the application was given
          told,          \* what the hub sent
          trusted        \* the hub holds the node's key
wireVars == <<up, down, greeted, scratch, tries, nonces, said, inbox, told, trusted>>

Nil == [msg |-> "none", pads |-> {}]
-----------------------------------------------------------------------------
(* AES-GCM: one more keystream over the content, a tag of it under a key.  *)
Toggle(content, nonce) ==
  [content EXCEPT !.pads = IF nonce \in @ THEN @ \ {nonce} ELSE @ \cup {nonce}]
Tag(key, nonce, content) == <<key, nonce, content>>

\* thalovant_envelope_encrypt_json: sealed in place, then the room is looked at.
JsonRoom(m) == 2 * Lengths[m] + 32 + 32 + 45 + 1
Envelope(text, tag, nonce, m, cap) ==
  [rc |-> IF cap < JsonRoom(m) THEN "NOMEM" ELSE "OK",
   frame |-> [kind |-> "json", text |-> text, tag |-> tag, nonce |-> nonce, nonceLen |-> NonceLen,
              enc |-> "hex", hexish |-> FALSE]]
\* (mutant: sealed aside, and the buffer written)
SealedAside(content, nonce) == content
Sealed(content, nonce) == Toggle(content, nonce)
EncryptJson(content, nonce, cap) ==
  LET text == Sealed(content, nonce)
  IN Envelope(text, Tag("node", nonce, text), nonce, content.msg, cap)

\* nonce_looks_hex: by the characters of the nonce's text alone.  hexish: none
\* of its Base64 letters happens to be beyond f.
Padded(enc, n) == enc = "base64" /\ n % 3 # 0
TextLen(enc, n) == IF enc = "hex" THEN 2 * n ELSE IF enc = "base64" THEN 4 * ((n + 2) \div 3)
                   ELSE (4 * n + 2) \div 3
\* (mutant: nonces of 12 bytes forgotten)
LooksHexOnly16(f) == f.enc = "hex" /\ f.nonceLen = 16
LooksHex(f) ==
  LET len == TextLen(f.enc, f.nonceLen) IN
  /\ f.enc = "hex" \/ (f.hexish /\ ~Padded(f.enc, f.nonceLen))
  /\ len % 2 = 0 /\ len \div 2 \in {12, 16}
\* hex_decode or base64_decode of n bytes written as enc: their number, or -1
\* where a character does not belong or there is no room.
Decoded(hex, enc, n, cap) ==
  LET bytes == IF hex = (enc = "hex") THEN n ELSE IF hex THEN -1 ELSE (2 * n * 3) \div 4
  IN IF bytes > cap THEN -1 ELSE bytes

\* thalovant_envelope_decrypt_json: the message, once its fields are read and
\* its tag is verified.
\* (mutant: any tag of the right length)
VerifiedByLength(f) == TRUE
Verified(f) == f.tag = Tag("node", f.nonce, f.text)
DecryptJson(f, cap) ==
  LET hex == LooksHex(f) IN
  IF /\ Decoded(hex, f.enc, f.nonceLen, NonceLen) > 0
     /\ Decoded(hex, f.enc, TagLen, TagLen) = TagLen
     /\ Decoded(hex, f.enc, Lengths[f.text.msg], cap) # -1
     /\ Verified(f)
  THEN Toggle(f.text, f.nonce) ELSE Nil

\* thalovant_wire_is_preshared_handshake, of the keys with a truthy value.
\* (mutant: whatever else the hub offers)
PresharedAmongOthers(m) == TypeOf[m] \in {"handshake", "shake"} /\ "preshared_key" \in Truthy[m]
IsPresharedHandshake(m) == /\ TypeOf[m] \in {"handshake", "shake"}
                           /\ "preshared_key" \in Truthy[m]
                           /\ "handshake" \notin Truthy[m] /\ "envelope" \notin Truthy[m]
-----------------------------------------------------------------------------
WireInit == /\ up = <<>> /\ down = <<>> /\ greeted = FALSE
            /\ scratch = Nil /\ tries = 0 /\ nonces = 0
            /\ said = <<>> /\ inbox = <<>> /\ told = <<>>
            /\ trusted \in BOOLEAN

\* The hub sends a frame, in the clear or sealed under the key it holds.
Tell(m, f, sealed) ==
  /\ Len(told) < MaxTells /\ Len(down) < MaxDown
  /\ down' = Append(down, f) /\ told' = Append(told, [msg |-> m, sealed |-> sealed])
  /\ UNCHANGED <<up, greeted, scratch, tries, nonces, said, inbox, trusted>>
HubTell(m) == Tell(m, [kind |-> "plain", text |-> [msg |-> m, pads |-> {}]], FALSE)
HubSeal(m, form) ==
  LET nonce == <<"hub", Len(told)>>
      text == [msg |-> m, pads |-> {nonce}]
  IN Tell(m, [kind |-> "json", text |-> text, nonce |-> nonce, enc |-> form.enc,
              nonceLen |-> form.nonceLen, hexish |-> form.hexish,
              tag |-> Tag(IF trusted THEN "node" ELSE "other", nonce, text)], TRUE)

\* on_ws_text: thalovant_wire_is_encrypted tells the two forms apart.
Received(f) == IF f.kind = "json" THEN DecryptJson(f, InCap) ELSE f.text

\* handle_frame: what cannot be parsed is dropped; an offer is answered with a
\* hello each time; a bus frame goes to the application once it was greeted.
HandleFrame ==
  LET text == Received(Head(down))
      parsed == text.msg \in Messages /\ text.pads = {}
      offer == parsed /\ IsPresharedHandshake(text.msg)
      bus == parsed /\ ~offer /\ greeted /\ TypeOf[text.msg] = "bus"
  IN /\ down # <<>> /\ down' = Tail(down)
     /\ up' = IF offer THEN Append(up, [kind |-> "hello"]) ELSE up
     /\ said' = IF offer THEN Append(said, [msg |-> "none", tries |-> 0]) ELSE said
     /\ greeted' = (greeted \/ offer)
     /\ inbox' = IF bus THEN Append(inbox, text.msg) ELSE inbox
     /\ UNCHANGED <<scratch, tries, nonces, told, trusted>>

\* The application writes a frame, or the same one anew.
Compose(m) ==
  /\ TypeOf[m] = "bus" /\ scratch' = [msg |-> m, pads |-> {}] /\ tries' = 0
  /\ UNCHANGED <<up, down, greeted, nonces, said, inbox, told, trusted>>

\* send_frame, with an envelope buffer of some size: nothing keeps it from a
\* frame that it has sealed before.
Sent == {i \in DOMAIN up : up[i].kind # "hello"}
SendFrame(cap) ==
  /\ scratch # Nil /\ Cardinality(Sent) < MaxSends
  /\ IF ~greeted
     THEN /\ up' = Append(up, [kind |-> "plain", text |-> scratch])
          /\ said' = Append(said, [msg |-> scratch.msg, tries |-> 0])
          /\ UNCHANGED <<scratch, tries, nonces>>
     ELSE LET nonce == <<"node", nonces>>  out == EncryptJson(scratch, nonce, cap) IN
          /\ nonces < MaxNonces /\ nonces' = nonces + 1
          /\ scratch' = Sealed(scratch, nonce) /\ tries' = tries + 1
          /\ IF out.rc = "OK"
             THEN up' = Append(up, out.frame) /\ said' = Append(said, [msg |-> scratch.msg, tries |-> tries])
             ELSE UNCHANGED <<up, said>>
  /\ UNCHANGED <<down, greeted, inbox, told, trusted>>

WireNext == \/ \E m \in Messages : HubTell(m)
            \/ \E m \in Messages, form \in Forms : HubSeal(m, form)
            \/ HandleFrame
            \/ \E m \in Messages : Compose(m)
            \/ \E cap \in EnvelopeCaps : SendFrame(cap)
WireSpec == WireInit /\ [][WireNext]_wireVars
-----------------------------------------------------------------------------
\* Of the first n frames that arrived: those the application could read, the
\* offers of the pre-shared key and nothing stronger among them, and the bus
\* frames that came after one.
Arrived == Len(told) - Len(down)
Reaches(i) == told[i].sealed => trusted /\ Lengths[told[i].msg] <= InCap
Accepted(n) == {i \in 1..n : /\ Reaches(i) /\ TypeOf[told[i].msg] \in {"handshake", "shake"}
                             /\ Truthy[told[i].msg] = {"preshared_key"}}
Given(n) == {i \in 1..n : Reaches(i) /\ TypeOf[told[i].msg] = "bus" /\ Accepted(i) # {}}

\* As many hellos have gone out as there were such offers, in the clear or
\* sealed, and every other frame is in the clear before the first hello and
\* sealed behind it: a hub that offers something stronger, or whose envelope
\* does not verify, is never answered.
Hellos == {i \in DOMAIN up : up[i].kind = "hello"}
HelloAnswersOffer ==
  /\ Cardinality(Hellos) = Cardinality(Accepted(Arrived))
  /\ \A i \in Sent : (up[i].kind = "json") = (\E j \in Hellos : j < i)

\* A sealed frame never carries the message itself, nor one nonce twice.  The
\* hub can open it exactly if the buffer had not been sealed before, be it for
\* a frame that went out or for one whose envelope did not fit.
SealedOnce ==
  \A i \in Sent : up[i].kind = "json" =>
    /\ up[i].nonce \in up[i].text.pads /\ Verified(up[i])
    /\ (Toggle(up[i].text, up[i].nonce) = [msg |-> said[i].msg, pads |-> {}]) = (said[i].tries = 0)
    /\ \A j \in Sent : j # i /\ up[j].kind = "json" => up[j].nonce # up[i].nonce

\* The application was given exactly the bus frames told in the clear or under
\* its key, of a size for its buffer, that came behind an offer: all of them,
\* in their order, however their fields are encoded and whatever letters their
\* nonces happen to have.
GivenIsTold ==
  /\ Len(inbox) = Cardinality(Given(Arrived))
  /\ \A i \in Given(Arrived) : inbox[Cardinality(Given(i))] = told[i].msg

\* What goes out is a hello that is due or sealed as it should be, and what
\* comes in is what the hub sent.
EnvelopesHold == HelloAnswersOffer /\ SealedOnce /\ GivenIsTold
=============================================================================
