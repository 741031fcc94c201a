------------------------------- MODULE Opening -------------------------------
(***************************************************************************)
(* What a satellite says when it opens a connection: the authorization and *)
(* the URL that carries it, and the hello (src/wire.c); the name it gives  *)
(* an MQTT broker (src/topics.c).  Agents, keys and names are bytes.       *)
(***************************************************************************)
EXTENDS Naturals, Sequences, SequencesExt, TLC

CONSTANTS JoinedCap,    \* 512, the buffer of agent and key
          PayloadCap,   \* 512, the hello's payload
          MemberSize,   \* length of the text before a member's value
          KeyMax,       \* 48, the characters of a key in a client's name
          Prefix,       \* "thalovant-"
          Caps,         \* sizes of the caller's buffer
          Endpoints, Octets, MaxOctets   \* bounds of the model

VARIABLES text,   \* the user agent; the session of a hello
          rows    \* the access key; its site
vars == <<text, rows>>

Code == INSTANCE Codec WITH
  IntMax <- 2147483647, Bytes <- {}, Digits <- {}, MaxBytes <- 0, MaxDigits <- 0
Json == INSTANCE JsonText WITH meant <- text, open <- TRUE, MaxLength <- 0, MaxScribble <- 0

Colon == 58
Done(out) == [rc |-> "OK", out |-> out]
Failed(code) == [rc |-> code, out |-> <<>>]
Fitting(s, cap) == IF Len(s) + 1 > cap THEN Failed("NOMEM") ELSE Done(s)

-----------------------------------------------------------------------------
\* thalovant_wire_authorization, in the characters of Base64.
Letter(digit) == CASE digit = 62 -> "+" [] digit = 63 -> "/" [] digit = Code!PadDigit -> "="
                   [] OTHER -> ToString(digit)
Authorization(agent, key, cap) ==
  LET joined == agent \o <<Colon>> \o key
      coded == Code!Base64Encode(joined, cap)
  IN IF Len(joined) >= JoinedCap THEN Failed("NOMEM")
     ELSE [rc |-> coded.rc, out |-> [i \in 1..Len(coded.out) |-> Letter(coded.out[i])]]

\* thalovant_wire_ws_url
\* (mutant: a plus sign is taken for one that stands for itself)
UnreservedPlus(c) == c \notin {"/", "="}
Unreserved(c) == c \notin {"+", "/", "="}
Percent == ("+" :> <<"%", "2", "B">>) @@ ("/" :> <<"%", "2", "F">>) @@ ("=" :> <<"%", "3", "D">>)
Piece(c) == IF Unreserved(c) THEN <<c>> ELSE Percent[c]
\* (mutant: the parameter always opens a query)
SeparatorFirst(endpoint) == "?"
Separator(endpoint) == IF "?" \in ToSet(endpoint) THEN "&" ELSE "?"
WsUrl(endpoint, authorization, cap) ==
  Fitting(endpoint \o <<Separator(endpoint), "authorization", "=">>
            \o FlattenSeq([i \in 1..Len(authorization) |-> Piece(authorization[i])]), cap)

\* thalovant_mqtt_client_id
Safe(byte) == byte = 97
ClientId(key, cap) ==
  LET used == SubSeq(key, 1, IF Len(key) > KeyMax THEN KeyMax ELSE Len(key))
      name == Prefix \o [i \in 1..Len(used) |-> IF Safe(used[i]) THEN ToString(used[i]) ELSE "-"]
  IN IF key = <<>> THEN Failed("MISSING") ELSE Fitting(name, cap)

\* thalovant_wire_hello: its payload, before thalovant_wire_serialize puts it
\* into a frame.
Symbol(byte) == CASE byte = 34 -> "quote" [] byte = 92 -> "back" [] byte = 10 -> "newline"
                  [] OTHER -> "x"
Symbols(s) == [i \in 1..Len(s) |-> Symbol(s[i])]
Members == <<"pubkey", "session_id", "site_id">>
\* (mutant: the site is put between its quotes as it is)
MemberRawSite(i, value) ==
  <<Members[i]>> \o (IF i = 3 THEN <<"quote">> \o Symbols(value) \o <<"quote">>
                     ELSE Json!AppendString(Symbols(value), 100).text)
Member(i, value) == <<Members[i]>> \o Json!AppendString(Symbols(value), 100).text
Hello(values) ==
  LET payload == FlattenSeq([i \in 1..3 |-> Member(i, values[i])]) \o <<"end">>
      size == FoldLeft(LAMBDA n, c : n + (IF c \in ToSet(Members) THEN MemberSize
                                          ELSE IF c = "end" THEN 1 ELSE Json!Bytes[c]), 0, payload)
  IN IF size + 1 > PayloadCap THEN Failed("NOMEM") ELSE Done(payload)
-----------------------------------------------------------------------------
\* Every agent and key of a few bytes.
Init == text = <<>> /\ rows = <<>>
Grow == \E b \in Octets :
          \/ Len(text) < MaxOctets /\ text' = Append(text, b) /\ UNCHANGED rows
          \/ Len(rows) < MaxOctets /\ rows' = Append(rows, b) /\ UNCHANGED text
Next == Grow
Spec == Init /\ [][Next]_vars
-----------------------------------------------------------------------------
Room == 100

\* A hub's reading of a URL: the parameters of the query behind the first "?",
\* percent escapes undone, a plus sign a space.
RECURSIVE PercentDecode(_)
PercentDecode(s) ==
  IF s = <<>> THEN s
  ELSE IF s[1] = "%" THEN <<CHOOSE c \in DOMAIN Percent : Percent[c] = SubSeq(s, 1, 3)>>
                            \o PercentDecode(SubSeq(s, 4, Len(s)))
  ELSE <<IF s[1] = "+" THEN "space" ELSE s[1]>> \o PercentDecode(Tail(s))
Query(url) == LET marks == {i \in 1..Len(url) : url[i] = "?"}
              IN IF marks = {} THEN <<>>
                 ELSE SubSeq(url, 1 + (CHOOSE i \in marks : \A j \in marks : i <= j), Len(url))
Parameter(url) ==
  LET query == Query(url)
      starts == {i \in 1..Len(query) : /\ query[i] = "authorization"
                                       /\ i = 1 \/ query[i - 1] = "&"}
      start == CHOOSE i \in starts : TRUE
      ends == {j \in start..Len(query) : query[j] = "&"}
      end == IF ends = {} THEN Len(query) ELSE (CHOOSE j \in ends : \A k \in ends : j <= k) - 1
  IN IF starts = {} THEN <<>> ELSE PercentDecode(SubSeq(query, start + 2, end))
Digit(letter) == IF letter = "space" THEN Code!BadDigit
                 ELSE CHOOSE d \in 0..Code!PadDigit : Letter(d) = letter
SplitAt(s) == LET colons == {i \in 1..Len(s) : s[i] = Colon} \cup {Len(s) + 1}
                  first == CHOOSE i \in colons : \A j \in colons : i <= j
              IN <<SubSeq(s, 1, first - 1), SubSeq(s, first + 1, Len(s))>>

\* The hub reads the agent and the key that were given from the URL, whatever
\* the endpoint had in its query and whatever is in the key (an agent has no
\* colon); and no part of either is lost to a buffer.
CredentialsArrive ==
  LET sent == Authorization(text, rows, Room) IN
  sent.rc = "OK" /\ Colon \notin ToSet(text) =>
    \A endpoint \in Endpoints :
      LET url == WsUrl(endpoint, sent.out, Room).out
          letters == Parameter(url)
          read == Code!Base64Decode([i \in 1..Len(letters) |-> Digit(letters[i])], Room)
      IN /\ letters # <<>> /\ read.rc = "OK" /\ SplitAt(read.out) = <<text, rows>>
         /\ IsPrefix(endpoint, url)
         /\ \A cap \in Caps :
              LET tight == Authorization(text, rows, cap) IN
              /\ tight.rc = "OK" => tight.out = sent.out /\ Len(sent.out) < cap
              /\ (WsUrl(endpoint, sent.out, cap).rc = "OK") = (Len(url) < cap)

\* A client's name is one a broker takes, and that of its key: keys of safe
\* characters that are no longer than what is used of them keep apart.
ClientIsNamed ==
  \A cap \in Caps : LET id == ClientId(rows, cap) IN
    /\ (id.rc = "MISSING") = (rows = <<>>)
    /\ id.rc = "OK" => /\ Len(id.out) < cap /\ Len(id.out) <= Len(Prefix) + KeyMax
                       /\ ToSet(id.out) \subseteq ToSet(Prefix) \cup {"97", "-"}
    /\ id.rc = "OK" /\ (\A i \in 1..Len(rows) : Safe(rows[i])) /\ Len(rows) <= KeyMax =>
         id.out = Prefix \o [i \in 1..Len(rows) |-> ToString(rows[i])]

\* A hello that is built says the three names it was given, as the hub's
\* reader takes them, whatever they contain.
RECURSIVE ReadMembers(_, _)
ReadMembers(s, i) ==
  IF i > 3 THEN <<>>
  ELSE LET body == SubSeq(s, 3, Len(s))  end == Json!StringEnd(body, 1)
       IN IF s[1] # Members[i] \/ s[2] # "quote" \/ end = 0 THEN <<>>
          ELSE <<Json!Unescape(body, end, Room).out>>
                 \o ReadMembers(SubSeq(body, end + 1, Len(body)), i + 1)
HelloIsWhole ==
  LET values == <<rows \o text, text, rows>>  hello == Hello(values) IN
  hello.rc = "OK" => /\ ReadMembers(hello.out, 1) = [i \in 1..3 |-> Symbols(values[i])]
                     /\ Last(hello.out) = "end"

OpensAsAsked == CredentialsArrive /\ ClientIsNamed /\ HelloIsWhole
=============================================================================
