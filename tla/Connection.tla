------------------------------ MODULE Connection ------------------------------
(***************************************************************************)
(* What a device connects with: src/identity.c reads its identity,         *)
(* src/topics.c derives topics, the broker's address and its parts.        *)
(*                                                                         *)
(* Addresses and prefixes are sequences of symbols: "h" any letter of a    *)
(* host, "ctl" a control character; a scheme's name is one symbol.  A      *)
(* field of the identity is the sequence of what its aliases hold, in the  *)
(* order they are asked for; absent ones are left out.                     *)
(***************************************************************************)
EXTENDS Naturals, Sequences, SequencesExt, FiniteSets

CONSTANTS PortMax,                     \* 65535
          DefaultPort,                 \* the port of each scheme that has one
          SchemeCap, HostCap, PathCap, \* buffers, in symbols
          PrefixCap, TopicCap,
          Pieces, MaxPieces, MaxOdd    \* bounds of the model
Space == " "
Empty == ""
Digit == {"0", "1", "9"}
Char == {"mqtt", "MQTT", "mqtts", "wss", "h", ":", "/", "?", "[", "]", "#", "+", "ctl", Space} \cup Digit
ConnectionAssumption ==
  /\ {PortMax, SchemeCap, HostCap, PathCap, PrefixCap, TopicCap} \subseteq Nat
  /\ {<<"mqtt">>, <<"mqtts">>} \subseteq DOMAIN DefaultPort
  /\ \A scheme \in DOMAIN DefaultPort : DefaultPort[scheme] \in Nat
  /\ Pieces \subseteq Seq(Char)

VARIABLES text,   \* the pieces of an address, or of a prefix
          rows    \* the fields of an identity that are out of the ordinary
vars == <<text, rows>>

Address == FlattenSeq(text)
Number(d) == CASE d = "0" -> 0 [] d = "1" -> 1 [] OTHER -> 9
Is(s, i, set) == i \in 1..Len(s) /\ s[i] \in set
IsDigit(s, i) == Is(s, i, Digit)
From(s, i) == SubSeq(s, i, Len(s))
Trim(s, c) == LET kept == {i \in 1..Len(s) : s[i] # c}
              IN IF kept = {} THEN <<>> ELSE SubSeq(s, Min(kept), Max(kept))
Secure == {<<"mqtts">>, <<"wss">>}
Failed(code) == [rc |-> code]

-----------------------------------------------------------------------------
\* thalovant_mqtt_topics_derive, of credentials that are there.
Channels == <<"in", "out", "status">>
\* (mutant: whitespace goes before slashes)
NormalizedSpacesFirst(prefix) == Trim(Trim(prefix, Space), "/")
Normalized(prefix) == Trim(Trim(prefix, "/"), Space)
Derive(prefix) ==
  LET base == Normalized(prefix)
      topic(suffix) == base \o <<"/", suffix>>
  IN IF Len(Trim(prefix, "/")) + 1 > PrefixCap THEN Failed("NOMEM")
     ELSE IF base = <<>> THEN Failed("MISSING")
     ELSE IF \E i \in 1..Len(base) : Is(base, i, {"#", "+", "ctl"}) THEN Failed("INVALID")
     ELSE IF Len(base) + 2 >= TopicCap THEN Failed("NOMEM")
     ELSE [rc |-> "OK", topics |-> [i \in 1..3 |-> topic(Channels[i])]]

\* thalovant_mqtt_endpoint, into a buffer that holds it.
\* (mutant: the address is upgraded whatever the flag says)
UpgradesAll(endpoint, tls) == IsPrefix(<<"mqtt", ":", "/", "/">>, endpoint)
Upgrades(endpoint, tls) == tls /\ IsPrefix(<<"mqtt", ":", "/", "/">>, endpoint)
MqttEndpoint(endpoint, tls) ==
  LET out == IF Upgrades(endpoint, tls) THEN <<"mqtts">> \o Tail(endpoint) ELSE endpoint
  IN IF Is(out, Len(out), {"/"}) THEN Front(out) ELSE out

\* thalovant_endpoint_parse: scheme, host, port and path, one after the other.
Separators(url) == {i \in 1..(Len(url) - 2) : SubSeq(url, i, i + 2) = <<":", "/", "/">>}
Lowered(scheme) == [i \in 1..Len(scheme) |-> IF Is(scheme, i, {"MQTT"}) THEN "mqtt" ELSE scheme[i]]
First(s, from, set) ==   \* where one of set is, or the end
  CHOOSE i \in from..(Len(s) + 1) : /\ i > Len(s) \/ Is(s, i, set)
                                    /\ \A j \in from..(i - 1) : ~Is(s, j, set)
HostOf(url, i) ==
  IF Is(url, i, {"["})
  THEN LET close == First(url, i + 1, {"]"})
       IN IF close > Len(url) THEN [host |-> <<>>, next |-> close]
          ELSE [host |-> SubSeq(url, i + 1, close - 1), next |-> close + 1]
  ELSE LET end == First(url, i, {":", "/", "?"})
       IN [host |-> SubSeq(url, i, end - 1), next |-> end]
\* The port's digits; a sum beyond the largest port stops the parse.
\* (mutant: only the first digits are bounded, the sum may wrap)
PortStepWraps(port, d) == (port * 10 + Number(d)) % (PortMax + 1)
PortStep(port, d) == IF port > PortMax THEN port ELSE port * 10 + Number(d)
PortSum(digits) ==
  LET sum[n \in 0..Len(digits)] == IF n = 0 THEN 0 ELSE PortStep(sum[n - 1], digits[n])
  IN sum[Len(digits)]
PortOf(url, i) ==
  IF ~Is(url, i, {":"}) THEN [given |-> FALSE, port |-> 0, next |-> i]
  ELSE LET end == CHOOSE e \in (i + 1)..(Len(url) + 1) :
                    ~IsDigit(url, e) /\ \A j \in (i + 1)..(e - 1) : IsDigit(url, j)
       IN [given |-> TRUE, port |-> PortSum(SubSeq(url, i + 1, end - 1)), next |-> end]
EndpointParse(url) ==
  LET sep == CHOOSE i \in Separators(url) : \A j \in Separators(url) : i <= j
      scheme == Lowered(SubSeq(url, 1, sep - 1))
      host == HostOf(url, sep + 3)
      port == PortOf(url, host.next)
      path == From(url, port.next)
  IN IF Separators(url) = {} \/ sep = 1 THEN Failed("INVALID")
     ELSE IF Len(scheme) + 1 > SchemeCap THEN Failed("NOMEM")
     ELSE IF host.host = <<>> THEN Failed("INVALID")
     ELSE IF Len(host.host) + 1 > HostCap THEN Failed("NOMEM")
     ELSE IF port.given /\ ~IsDigit(url, host.next + 1) THEN Failed("INVALID")
     ELSE IF port.port > PortMax THEN Failed("INVALID")
     ELSE IF path # <<>> /\ ~Is(path, 1, {"/", "?"}) THEN Failed("INVALID")
     ELSE IF Len(path) + 1 > PathCap THEN Failed("NOMEM")
     ELSE [rc |-> "OK", scheme |-> scheme, host |-> host.host, path |-> path,
           tls |-> scheme \in Secure,
           port |-> IF port.port = 0 /\ scheme \in DOMAIN DefaultPort
                    THEN DefaultPort[scheme] ELSE port.port]
-----------------------------------------------------------------------------
\* The fields in the order they are read; "port" and those of the broker have
\* checks of their own.
Fields == <<"access_key", "password", "crypto_key", "site_id", "default_master",
            "default_path", "public_key", "default_port", "mqtt", "endpoint", "username",
            "mqtt_password", "topic_prefix">>
Required == {"access_key", "password", "site_id", "default_master"}
Broker == {"endpoint", "username", "mqtt_password"}
\* "text" an ordinary value; "" an empty one; "slashes" nothing else; "full"
\* just fits; "wrong" is an array.  The "text" of "mqtt" is an object.
Odd == {<<>>, <<"null">>, <<"null", "text">>, <<Empty>>, <<Empty, "text">>,
        <<"slashes">>, <<"full">>, <<"overlong">>, <<"wrong">>}

\* get_string, and what becomes of master and path.
\* (mutant: a null alias ends the search)
AliasFirst(values) == IF values = <<>> \/ values[1] = "null" THEN Empty ELSE values[1]
Alias(values) == LET some == {n \in 1..Len(values) : values[n] # "null"}
                 IN IF some = {} THEN Empty ELSE values[Min(some)]
Value(doc, field) ==
  LET v == Alias(doc[field])
  IN IF field \in {"default_master", "default_path"} /\ v = "slashes" THEN Empty ELSE v
\* What stops the parse at a field, if it is read.
FieldError(doc, field) ==
  LET v == Value(doc, field)
  IN CASE field = "mqtt" -> "OK"
       [] field = "default_port" -> IF v \in {"text", Empty} THEN "OK" ELSE "INVALID"
       [] v = "wrong" -> "INVALID"
       [] v = "overlong" \/ (field = "default_path" /\ v = "full") -> "NOMEM"
       [] OTHER -> "OK"
FirstError(doc, from, to) ==
  LET bad == {i \in from..to : FieldError(doc, Fields[i]) # "OK"}
  IN IF bad = {} THEN "OK" ELSE FieldError(doc, Fields[Min(bad)])
IdentityParse(doc) ==
  LET own == FirstError(doc, 1, 8)
      broker == FirstError(doc, 10, 12)
      usable == \A field \in Broker : Value(doc, field) # Empty
      prefix == FieldError(doc, "topic_prefix")
  IN IF own # "OK" THEN Failed(own)
     ELSE IF \E field \in Required : Value(doc, field) = Empty THEN Failed("MISSING")
     ELSE IF doc["mqtt"] # <<"text">> THEN [rc |-> "OK", present |-> FALSE]
     ELSE IF broker # "OK" THEN Failed(broker)
     ELSE IF ~usable THEN [rc |-> "OK", present |-> FALSE]
     ELSE IF prefix # "OK" THEN Failed(prefix)
     ELSE [rc |-> "OK", present |-> TRUE]
Doc == [field \in ToSet(Fields) |->
          LET said == {i \in 1..Len(rows) : rows[i].field = field}
          IN IF said = {} THEN <<"text">> ELSE rows[CHOOSE i \in said : TRUE].values]
-----------------------------------------------------------------------------
\* Every address of a few pieces, and every identity with a few odd fields.
Init == text = <<>> /\ rows = <<>>
GrowText == /\ rows = <<>> /\ Len(text) < MaxPieces
            /\ \E p \in Pieces : text' = Append(text, p)
            /\ UNCHANGED rows
GrowRows == /\ text = <<>> /\ Len(rows) < MaxOdd
            /\ \E i \in 1..Len(Fields), v \in Odd :
                 /\ \A n \in 1..Len(rows) : \E j \in 1..(i - 1) : rows[n].field = Fields[j]
                 /\ rows' = Append(rows, [field |-> Fields[i], values |-> v])
            /\ UNCHANGED text
Next == GrowText \/ GrowRows
Spec == Init /\ [][Next]_vars
-----------------------------------------------------------------------------
\* Topics a device is given are three of one place below its prefix, and
\* concrete: no wildcard, no control character, no space at the base's ends,
\* no slash the prefix had at its ends beside the base.
TopicsAreConcrete ==
  LET derived == Derive(Address) IN derived.rc = "OK" =>
    LET base == SubSeq(derived.topics[1], 1, Len(derived.topics[1]) - 2)
        cut == {i \in 0..(Len(Address) - Len(base)) : SubSeq(Address, i + 1, i + Len(base)) = base}
    IN /\ base # <<>> /\ ~Is(base, 1, {Space}) /\ ~Is(base, Len(base), {Space})
       /\ \A n \in 1..3 :
            /\ derived.topics[n] = base \o <<"/", Channels[n]>>
            /\ Len(derived.topics[n]) < TopicCap
            /\ \A i \in 1..Len(base) : ~Is(base, i, {"#", "+", "ctl"})
       /\ \E i \in cut : \A j \in (1..i) \cup ((i + Len(base) + 1)..Len(Address)) :
            Is(Address, j, {"/", Space})
       /\ Is(base, 1, {"/"}) => Is(Trim(Address, "/"), 1, {Space})

\* An address that is parsed is its parts put together: nothing is left out,
\* read twice or wrapped, and a port that is not given is the scheme's.
UrlIsRead ==
  LET u == EndpointParse(Address) IN u.rc = "OK" =>
    \E pos \in Len(u.scheme) + 4 .. Len(Address) + 1 :
      LET before == SubSeq(Address, Len(u.scheme) + 4, pos - 1)
          end == Len(Address) - Len(u.path)
          digits == SubSeq(Address, pos + 1, end)
          total[n \in 0..Len(digits)] ==
            IF n = 0 THEN 0 ELSE total[n - 1] * 10 + Number(digits[n])
          sum == total[Len(digits)]
      IN /\ Lowered(SubSeq(Address, 1, Len(u.scheme))) = u.scheme
         /\ IsPrefix(u.scheme \o <<":", "/", "/">>, Lowered(Address))
         /\ before \in {u.host, <<"[">> \o u.host \o <<"]">>}
         /\ From(Address, end + 1) = u.path
         /\ \/ pos = end + 1 /\ (u.port = 0 \/ u.port = DefaultPort[u.scheme])
            \/ /\ Is(Address, pos, {":"}) /\ pos < end
               /\ \A i \in 1..Len(digits) : IsDigit(digits, i)
               /\ sum = u.port \/ (sum = 0 /\ u.port = DefaultPort[u.scheme])

\* A broker that is asked for by TLS is connected to by TLS, unless its scheme
\* is not written "mqtt"; and the upgrade changes neither host nor port.
TlsIsKept ==
  \A tls \in BOOLEAN :
    LET asked == EndpointParse(Address)
        connects == EndpointParse(MqttEndpoint(Address, tls))
    IN asked.rc = "OK" /\ connects.rc = "OK" =>
         /\ connects.host = asked.host
         /\ connects.port = asked.port \/ (Upgrades(Address, tls) /\ asked.port = DefaultPort[<<"mqtt">>]
                                           /\ connects.port = DefaultPort[<<"mqtts">>])
         /\ connects.tls = (asked.tls \/ (tls /\ Is(Address, 1, {"mqtt"}) /\ asked.scheme = <<"mqtt">>))

\* An identity is taken only with all it needs, read from the first alias that
\* is not null; the broker's part is whole or not there, and without it no
\* field of the broker can fail the identity.
IdentityIsWhole ==
  LET has(field) == \E n \in 1..Len(Doc[field]) :
                      /\ Doc[field][n] \notin {"null", Empty}
                      /\ \A k \in 1..(n - 1) : Doc[field][k] = "null"
      identity == IdentityParse(Doc)
      sound == \A i \in 1..8 : FieldError(Doc, Fields[i]) = "OK"
  IN /\ identity.rc = "OK" => \A field \in Required : has(field)
     /\ identity.rc = "OK" /\ identity.present => \A field \in Broker : has(field)
     /\ (identity.rc = "MISSING") = (sound /\ ~\A field \in Required :
                                       has(field) /\ (field = "default_master" => Doc[field] # <<"slashes">>))
     /\ Doc["mqtt"] # <<"text">> /\ sound /\ identity.rc # "MISSING" =>
          identity = [rc |-> "OK", present |-> FALSE]

ConnectsAsAsked == TopicsAreConcrete /\ UrlIsRead /\ TlsIsKept /\ IdentityIsWhole
=============================================================================
