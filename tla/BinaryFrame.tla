---------------------------- MODULE BinaryFrame ----------------------------
(***************************************************************************)
(* The binary frame of src/wire.c: what the node writes, what a hub writes *)
(* (versioned, compressed, of any type, left-padded to whole bytes, with   *)
(* bits to spare after its payload), and how both are read, bit by bit.    *)
(***************************************************************************)
EXTENDS WireMessage

CONSTANTS Texts,       \* metadata and payloads: sequences of bytes
          LongText,    \* metadata of 256 bytes
          TextCaps     \* sizes of the caller's buffers

Byte == 0..255
Bit == 0..1

\* A hub gives no metadata its length field cannot tell.
ASSUME BitsAssumption == /\ \A t \in Texts : t \in Seq(Byte) /\ Len(t) < 256
                         /\ LongText \in Seq(Byte) /\ TextCaps \subseteq Nat

VARIABLES sent,    \* the fields of the frame's author, or Nothing
          wire,    \* the frame's bits
          lost,    \* bytes cut off its end
          got      \* what decode answered
bitVars == <<sent, wire, lost, got>>

Nothing == [rc |-> "none"]
Rc(code) == [rc |-> code]

MsgTypes == <<<<"shake", 0>>, <<"handshake", 0>>, <<"bus", 1>>, <<"shared_bus", 2>>,
  <<"broadcast", 3>>, <<"propagate", 4>>, <<"escalate", 5>>, <<"hello", 6>>, <<"query", 7>>,
  <<"cascade", 8>>, <<"ping", 9>>, <<"rendezvous", 10>>, <<"3rdparty", 11>>, <<"bin", 12>>>>
\* thalovant_wire_msg_type_id, with the 3rdparty of encode for any other name,
TypeId(name) == LET at == SelectInSeq(MsgTypes, LAMBDA t : t[1] = name)
                IN IF at = 0 THEN 11 ELSE MsgTypes[at][2]
\* and thalovant_wire_msg_type_name, with that of decode for any other id.
\* (mutant: the last name of an id)
TypeNameLast(id) == LET at == SelectLastInSeq(MsgTypes, LAMBDA t : t[2] = id)
                    IN IF at = 0 THEN "3rdparty" ELSE MsgTypes[at][1]
TypeName(id) == LET at == SelectInSeq(MsgTypes, LAMBDA t : t[2] = id)
                IN IF at = 0 THEN "3rdparty" ELSE MsgTypes[at][1]

-----------------------------------------------------------------------------
Weight == <<128, 64, 32, 16, 8, 4, 2, 1>>
Bits(n, width) == [i \in 1..width |-> (n \div Weight[8 - width + i]) % 2]
TextBits(text) ==
  [i \in 1..8 * Len(text) |-> Bits(text[((i - 1) \div 8) + 1], 8)[((i - 1) % 8) + 1]]
Zeros(n) == [i \in 1..n |-> 0]
VersionBits(version) == IF version = 0 THEN <<0>> ELSE <<1>> \o Bits(version, 8)

\* thalovant_wire_encode_binary.
Encode(name, metadata, payload, cap) ==
  IF Len(metadata) > 255 THEN Rc("INVALID")
  ELSE IF cap < 2 + Len(metadata) + Len(payload) THEN Rc("NOMEM")
  ELSE [rc |-> "OK",
        bits |-> <<1>> \o Bits(TypeId(name) % 32, 6) \o <<0>> \o Bits(Len(metadata), 8)
                 \o TextBits(metadata) \o TextBits(payload)]

\* read_uint: width bits after pos, or -1 with everything read.
\* (mutant: bits past the end are zeros)
ReadPastEnd(bits, pos, width) ==
  [value |-> FoldLeft(LAMBDA v, i : 2 * v + (IF pos + i <= Len(bits) THEN bits[pos + i] ELSE 0),
                      0, [i \in 1..width |-> i]),
   pos |-> pos + width]
ReadUint(bits, pos, width) ==
  LET value[i \in 0..width] == IF i = 0 THEN 0 ELSE 2 * value[i - 1] + bits[pos + i]
  IN IF pos + width > Len(bits) THEN [value |-> -1, pos |-> Len(bits)]
     ELSE [value |-> value[width], pos |-> pos + width]
ReadText(bits, pos, n) == [i \in 1..n |-> ReadUint(bits, pos + 8 * (i - 1), 8).value]

\* The do loop of decode: the padding and the first set bit.
\* (mutant: padding is whole bytes)
StartWholeBytes(bits) == 8 * ((SelectInSeq(bits, LAMBDA b : b = 1) - 1) \div 8) + 1
Start(bits) == SelectInSeq(bits, LAMBDA b : b = 1)

\* thalovant_wire_decode_binary.
\* (mutant: room for the text, and none for its NUL)
Unterminated(n, cap) == n <= cap
Terminated(n, cap) == n + 1 <= cap
Decode(bits, metadataCap, payloadCap) ==
  LET start == Start(bits)
      versioned == ReadUint(bits, start, 1)
      version == IF versioned.value = 1 THEN ReadUint(bits, versioned.pos, 8)
                 ELSE [value |-> versioned.value, pos |-> versioned.pos]
      type == ReadUint(bits, version.pos, 5)
      compressed == ReadUint(bits, type.pos, 1)
      length == ReadUint(bits, compressed.pos, 8)
      metadata == ReadText(bits, length.pos, length.value)
      after == length.pos + 8 * length.value
      remaining == (Len(bits) - after) \div 8
  IN IF start = 0 \/ version.value = -1 THEN Rc("INVALID")
     ELSE IF version.value > 1 THEN Rc("UNSUPPORTED")
     ELSE IF -1 \in {type.value, compressed.value, length.value} THEN Rc("INVALID")
     ELSE IF compressed.value = 1 THEN Rc("UNSUPPORTED")
     ELSE IF ~Terminated(length.value, metadataCap) THEN Rc("NOMEM")
     ELSE IF \E i \in DOMAIN metadata : metadata[i] = -1 THEN Rc("INVALID")
     ELSE IF ~Terminated(remaining, payloadCap) THEN Rc("NOMEM")
     ELSE [rc |-> "OK", type |-> type.value, name |-> TypeName(type.value),
           metadata |-> metadata, payload |-> ReadText(bits, after, remaining)]

-----------------------------------------------------------------------------
BitsInit == sent = Nothing /\ wire = <<>> /\ lost = 0 /\ got = Nothing

Write(name, metadata, payload, cap) ==
  LET out == Encode(name, metadata, payload, cap) IN
  /\ sent = Nothing
  /\ sent' = [rc |-> out.rc, by |-> "node", type |-> TypeId(name), name |-> name, cap |-> cap,
              metadata |-> metadata, payload |-> payload, version |-> 0, compressed |-> 0]
  /\ wire' = IF out.rc = "OK" THEN out.bits ELSE <<>>
  /\ UNCHANGED <<lost, got>>

\* A hub's frame; version 0 is an unversioned one, spare its last bits.
HubWrite(version, type, compressed, metadata, payload, spare, lead) ==
  LET body == <<1>> \o VersionBits(version) \o Bits(type, 5) \o <<compressed>>
              \o Bits(Len(metadata), 8) \o TextBits(metadata) \o TextBits(payload) \o Zeros(spare)
  IN /\ sent = Nothing
     /\ sent' = [rc |-> "OK", by |-> "hub", type |-> type, name |-> TypeName(type), cap |-> 0,
                 metadata |-> metadata, payload |-> payload, version |-> version,
                 compressed |-> compressed]
     /\ wire' = Zeros(8 * lead + ((8 - (Len(body) % 8)) % 8)) \o body
     /\ UNCHANGED <<lost, got>>

Cut == /\ got = Nothing /\ wire # <<>>
       /\ wire' = SubSeq(wire, 1, Len(wire) - 8) /\ lost' = lost + 1
       /\ UNCHANGED <<sent, got>>

DecodeArrived(metadataCap, payloadCap) ==
  /\ sent # Nothing /\ sent.rc = "OK" /\ got = Nothing
  /\ got' = [answer |-> Decode(wire, metadataCap, payloadCap),
             metadataCap |-> metadataCap, payloadCap |-> payloadCap]
  /\ UNCHANGED <<sent, wire, lost>>

BitsNext == \/ \E name \in {"shake", "handshake", "hello", "bin", "unknown"}, p \in Texts, c \in TextCaps :
                 \E m \in Texts \cup {LongText} : Write(name, m, p, c)
            \/ \E v \in {0, 1, 2}, t \in {0, 11, 13, 31}, z \in {0, 1}, m, p \in Texts,
                  spare \in {0, 7}, lead \in 0..1 : HubWrite(v, t, z, m, p, spare, lead)
            \/ Cut
            \/ \E mc, pc \in TextCaps : DecodeArrived(mc, pc)
BitsSpec == BitsInit /\ [][BitsNext]_bitVars
-----------------------------------------------------------------------------
Answered == got # Nothing
\* A frame that arrives whole, and is accepted, is read as it was meant,
\* whatever its padding and spare bits: type, metadata and payload, and the
\* canonical name of the type.
ReadAsWritten == Answered /\ lost = 0 /\ got.answer.rc = "OK" =>
  /\ got.answer.type = sent.type
  /\ got.answer.name = IF sent.name \in {"handshake", "unknown"} THEN TypeName(sent.type) ELSE sent.name
  /\ got.answer.metadata = sent.metadata /\ got.answer.payload = sent.payload

\* A frame cut short is refused, or has lost the end of its payload and
\* nothing else: no bit past the end is ever read as a value.
CutIsNoticed == Answered /\ got.answer.rc = "OK" =>
  /\ got.answer.metadata = sent.metadata
  /\ IsPrefix(got.answer.payload, sent.payload)

\* A whole frame is refused only for a reason: a version or a compression the
\* node cannot read, or a buffer without room for the text and its NUL; and
\* what the buffers hold always has that room.
RefusedWithReason == Answered =>
  LET tight == Len(sent.metadata) >= got.metadataCap \/ Len(sent.payload) >= got.payloadCap
      foreign == sent.version > 1 \/ sent.compressed = 1
  IN /\ lost = 0 /\ foreign => got.answer.rc = "UNSUPPORTED"
     /\ lost = 0 /\ ~foreign => (got.answer.rc = "NOMEM" <=> tight)
     /\ lost = 0 /\ ~foreign /\ ~tight => got.answer.rc = "OK"
     /\ got.answer.rc = "OK" => /\ Len(got.answer.metadata) < got.metadataCap
                                /\ Len(got.answer.payload) < got.payloadCap

\* The three together.
BitsAreRead == ReadAsWritten /\ CutIsNoticed /\ RefusedWithReason

\* A frame in bits or in JSON is read as its author meant it, or refused for a
\* reason.
FramesAreRead == BitsAreRead /\ MembersAreRead
=============================================================================
