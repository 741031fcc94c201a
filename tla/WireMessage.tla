---------------------------- MODULE WireMessage ----------------------------
(***************************************************************************)
(* HiveMessage frames of src/wire.c: how the node writes one, and how one  *)
(* is read whose members a hub wrote in any order, twice, as null or as    *)
(* another type.  A frame is the sequence of its members; a value is       *)
(* [type, len, is]: its JSON type, its length, and which one it is.        *)
(***************************************************************************)
EXTENDS Integers, Sequences, SequencesExt

CONSTANTS FieldCaps,   \* the size of each routing field's buffer
          TypeCap,     \* and of msg_type's
          FrameCaps,   \* the sizes of the caller's buffer for a frame
          TextLengths, \* of strings, on either side
          MaxMembers   \* bound of the model

VARIABLES frame,   \* members of the frame so far
          message  \* what the node was asked to write, or Hub
memberVars == <<frame, message>>

\* The fields in the order they are read, and that of the members written.
Routing == <<"node", "target_site_id", "target_pubkey", "source_peer">>
Order == <<"msg_type", "payload", "metadata", "route",
           "node", "target_site_id", "target_pubkey", "source_peer">>
Json == [payload |-> "{}", metadata |-> "{}", route |-> "[]"]
Absent == [type |-> "absent", len |-> 0, is |-> "-"]
Hub == [rc |-> "hub"]

ASSUME MembersAssumption ==
  /\ FieldCaps \in [{"node", "target_site_id", "target_pubkey", "source_peer"} -> Nat]
  /\ TypeCap \in Nat /\ TextLengths \subseteq Nat
-----------------------------------------------------------------------------
\* thalovant_wire_serialize: NULL is null, or the empty object or array.
\* (mutant: a NULL string is the text null)
WrittenAsText(m, field) ==
  IF m[field] # Absent THEN m[field] ELSE [type |-> "string", len |-> 4, is |-> "null"]
Written(m, field) ==
  IF m[field] # Absent THEN m[field]
  ELSE IF field \in DOMAIN Json THEN [type |-> "object", len |-> 2, is |-> Json[field]]
  ELSE [type |-> "null", len |-> 4, is |-> "null"]
\* {"key":value, ... } with the quotes of a string and the NUL.
KeyLen == [msg_type |-> 8, payload |-> 7, metadata |-> 8, route |-> 5, node |-> 4,
           target_site_id |-> 14, target_pubkey |-> 13, source_peer |-> 11]
Length(f) == FoldLeft(LAMBDA n, x : n + KeyLen[x.key] + 4 + x.value.len
                                    + (IF x.value.type = "string" THEN 2 ELSE 0), 1, f)
MembersOf(m) == [i \in 1..8 |-> [key |-> Order[i], value |-> Written(m, Order[i])]]
Serialize(m, cap) ==
  IF Length(MembersOf(m)) + 1 > cap THEN [rc |-> "NOMEM"] ELSE [rc |-> "OK", frame |-> MembersOf(m)]

\* thalovant_json_object_get: the first member of a name.
\* (mutant: the last)
GetLast(f, key) == LET at == SelectLastInSeq(f, LAMBDA x : x.key = key)
                   IN IF at = 0 THEN Absent ELSE f[at].value
Get(f, key) == LET at == SelectInSeq(f, LAMBDA x : x.key = key)
               IN IF at = 0 THEN Absent ELSE f[at].value
\* copy_optional_string, and thalovant_wire_parse: the first error ends it.
\* (mutant: a string as long as its buffer is taken)
FitsUnterminated(value, cap) == value.len <= cap
FitsBuffer(value, cap) == value.len < cap
Copy(f, key) == IF Get(f, key).type = "string" THEN Get(f, key) ELSE Absent
Parse(f) ==
  IF Get(f, "msg_type").type # "string" THEN [rc |-> "MISSING"]
  ELSE IF \/ ~FitsBuffer(Get(f, "msg_type"), TypeCap)
          \/ \E i \in DOMAIN Routing :
               Copy(f, Routing[i]) # Absent /\ ~FitsBuffer(Copy(f, Routing[i]), FieldCaps[Routing[i]])
  THEN [rc |-> "NOMEM"]
  ELSE [rc |-> "OK", msg_type |-> Get(f, "msg_type"), payload |-> Get(f, "payload"),
        metadata |-> Get(f, "metadata"), fields |-> [i \in DOMAIN Routing |-> Copy(f, Routing[i])]]

-----------------------------------------------------------------------------
String(len) == [type |-> "string", len |-> len, is |-> "text"]
StringValues == {String(len) : len \in TextLengths}
Object == [type |-> "object", len |-> 9, is |-> "other"]
Values == StringValues \cup {[type |-> "null", len |-> 4, is |-> "null"], Object}
MembersInit == frame = <<>> /\ message = Hub

\* The application sends a message of its own,
NodeWrites(m, cap) == /\ frame = <<>> /\ message = Hub
                      /\ message' = [m |-> m, cap |-> cap, rc |-> Serialize(m, cap).rc]
                      /\ frame' = IF Serialize(m, cap).rc = "OK" THEN Serialize(m, cap).frame ELSE <<>>
\* and a hub adds a member to one of its own.
HubAdds(key, value) == /\ message = Hub /\ Len(frame) < MaxMembers
                       /\ frame' = Append(frame, [key |-> key, value |-> value])
                       /\ UNCHANGED message
NodeMessages ==
  [msg_type : StringValues, route : {Absent}, payload : {Absent, Object}, metadata : {Absent},
   node : StringValues \cup {Absent}, target_site_id : StringValues \cup {Absent},
   target_pubkey : {Absent}, source_peer : StringValues \cup {Absent}]
MembersNext == \/ \E m \in NodeMessages, cap \in FrameCaps : NodeWrites(m, cap)
               \/ \E key \in {"msg_type", "payload", "node", "source_peer", "spam"}, v \in Values : HubAdds(key, v)
MembersSpec == MembersInit /\ [][MembersNext]_memberVars
-----------------------------------------------------------------------------
\* A frame the node writes is one the node can read, if its texts fit the
\* buffers of the one who reads, and says the same: what was NULL is absent,
\* and not the text null.
Short(m) == /\ m.msg_type.len < TypeCap
            /\ \A key \in DOMAIN FieldCaps : m[key] # Absent => m[key].len < FieldCaps[key]
OwnFramesRead == message # Hub /\ message.rc = "OK" /\ Short(message.m) =>
  LET got == Parse(frame) IN
  /\ got.rc = "OK" /\ got.msg_type = message.m.msg_type
  /\ \A i \in DOMAIN Routing : got.fields[i] = message.m[Routing[i]]
  /\ got.payload = (IF message.m.payload = Absent THEN [type |-> "object", len |-> 2, is |-> "{}"]
                    ELSE message.m.payload)

\* What a frame says does not depend on the order of its members, on members
\* nobody knows, or on a key given again: it is read like the frame of the
\* first of each key, in the opposite order, among members nobody knows.
First(key) == {i \in DOMAIN frame : frame[i].key = key /\ \A j \in 1..i - 1 : frame[j].key # key}
FirstOrSpam(key) == IF First(key) = {} THEN [key |-> "spam", value |-> Object]
                    ELSE frame[CHOOSE i \in First(key) : TRUE]
Canonical == [i \in 1..8 |-> FirstOrSpam(Order[9 - i])]
FirstMembersSayAll == Parse(frame) = Parse(Canonical)

\* A frame is read exactly when it has a type and its first texts fit with
\* their NUL; nothing else, whoever wrote it, makes the node lose a frame.
TooLong(key, cap) == \E i \in First(key) : frame[i].value.type = "string" /\ frame[i].value.len + 1 > cap
ReadUnlessTooLong ==
  Parse(frame).rc = "OK" <=>
     /\ \E i \in First("msg_type") : frame[i].value.type = "string"
     /\ ~TooLong("msg_type", TypeCap) /\ \A key \in DOMAIN FieldCaps : ~TooLong(key, FieldCaps[key])

\* The three together.
MembersAreRead == OwnFramesRead /\ FirstMembersSayAll /\ ReadUnlessTooLong
=============================================================================
