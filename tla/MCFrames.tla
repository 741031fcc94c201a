------------------------------ MODULE MCFrames ------------------------------
(* What the library makes of frames and their parts, one of them at a time:  *)
(* a reply, the fields of a frame, patterns, addresses, encoded bytes, what  *)
(* opens a connection, language tags, documents, strings, numbers, binary    *)
(* frames, JSON frames, the envelopes of the pre-shared key.                 *)
EXTENDS Reply, BinaryFrame, LegacyWire

VARIABLES part,
          text, rows,                                \* fields, strings, numbers
          doc, toks, stack, expect, rc,              \* documents
          meant, open                                \* strings

fieldVars == <<text, rows>>
docVars == <<doc, toks, stack, expect, rc>>
stringVars == <<text, meant, open>>
frameVars == <<part, vars, fieldVars, docVars, stringVars, bitVars, memberVars, wireVars>>

Fields == INSTANCE AskFields WITH
  ClipMax <- 3, ScratchCap <- 8, OutCap <- 2, PayloadCap <- 16, TokenRoom <- 4, MaxText <- 7, MaxRows <- 5
\* A slot whose value looks like a slot, and one with no value.
Slots == (<<"a">> :> <<"{", "_", "}">>) @@ (<<"_">> :> <<>>)
Patterns == INSTANCE RequestHelpers WITH
  Caps <- {3, 5, 8}, PlaceCap <- 16, MaxPieces <- 4,
  Pieces <- {<<"(">>, <<")">>, <<"[">>, <<"]">>, <<"|">>, <<"{">>, <<"}">>, <<"a">>, <<"b">>, <<"_">>,
             <<" ">>, <<"tab">>, <<",">>, <<"(", "a", "|">>, <<"|", "_", ")">>, <<"[", "a">>,
             <<"{", "a", "}">>}
\* Ports of three digits, of which the largest that is allowed is 655.
Addresses == INSTANCE Connection WITH
  PortMax <- 655, DefaultPort <- (<<"mqtt">> :> 18) @@ (<<"mqtts">> :> 88) @@ (<<"wss">> :> 4),
  SchemeCap <- 3, HostCap <- 4, PathCap <- 4, PrefixCap <- 5, TopicCap <- 6,
  MaxPieces <- 4, MaxOdd <- 2,
  Pieces <- {<<"mqtt", ":", "/", "/">>, <<"MQTT", ":", "/", "/">>, <<"mqtts", ":", "/", "/">>,
             <<"wss">>, <<":">>, <<"/">>, <<"?">>, <<"[">>, <<"]">>, <<"h">>, <<"#">>, <<"ctl">>,
             <<" ">>, <<"0">>, <<"1", "9">>, <<":", "9", "9">>}
\* A result that holds every length, and ones that do not.
Encoded == INSTANCE Codec WITH
  IntMax <- 1000, Bytes <- {0, 1, 129, 255}, Digits <- {1, 13, 47, 63}, MaxBytes <- 5, MaxDigits <- 6,
  Caps <- {0, 1, 2, 3, 4, 6, 8, 9}
Narrow(limit) == INSTANCE Codec WITH
  IntMax <- limit, Bytes <- {0}, Digits <- {63}, MaxBytes <- 5, MaxDigits <- 6, Caps <- {3, 9}
\* Endpoints with and without a query; bytes that are quotes and colons, and
\* those whose Base64 has every character.
Openings == INSTANCE Opening WITH
  JoinedCap <- 5, PayloadCap <- 48, MemberSize <- 10, KeyMax <- 1, Prefix <- <<"t", "-">>,
  Caps <- {3, 4, 5, 8, 9, 16}, Octets <- {34, 58, 92, 97, 251, 255}, MaxOctets <- 2,
  Endpoints <- {<<"h">>, <<"h", "?">>, <<"h", "/", "?", "k", "=", "v">>}
Tags == INSTANCE Languages WITH MaxText <- 5, MaxRows <- 4
Docs == INSTANCE JsonScan WITH
  Strings <- {"k", "l"}, Primitives <- {"1"}, Junk <- {"x"},
  MaxDepth <- 2, MaxToks <- 6, MaxLength <- 11, MaxTail <- 0
Garbage == INSTANCE JsonScan WITH
  Strings <- {"k"}, Primitives <- {"1"}, Junk <- {},
  MaxDepth <- 2, MaxToks <- 5, MaxLength <- 6, MaxTail <- 6
Quoted == INSTANCE JsonText WITH MaxLength <- 6, MaxScribble <- 4, Caps <- {1, 2, 5, 8}
Numbers == INSTANCE JsonNumber WITH
  MaxLength <- 6, BoolBuf <- 5, ValueBuf <- 6, LongMax <- 1000, MinExponent <- 0

ASSUME Docs!JsonAssumption /\ Garbage!JsonAssumption /\ Numbers!NumberAssumption /\ Encoded!CodecAssumption
       /\ Fields!FieldsAssumption /\ Tags!LanguagesAssumption /\ Addresses!ConnectionAssumption

-----------------------------------------------------------------------------
(* Texts whose bits show a shift, and one too long for its length field.    *)
McTexts == {<<>>, <<129>>, <<123, 125>>}
McLongText == [i \in 1..256 |-> 123]
\* Buffers the longer of two texts just fills, and just fits.
McFieldCaps == [node |-> 6, target_site_id |-> 7, target_pubkey |-> 6, source_peer |-> 7]
\* A message that fits every buffer, and one too long for the smaller ones.
McLengths == [short |-> 3, long |-> 40, offer |-> 30, stronger |-> 30, shake |-> 30]
McTypeOf == [short |-> "bus", long |-> "bus", offer |-> "handshake", stronger |-> "handshake", shake |-> "shake"]
McTruthy == [short |-> {"preshared_key"}, long |-> {}, offer |-> {"preshared_key"},
             stronger |-> {"preshared_key", "handshake"}, shake |-> {"preshared_key", "envelope"}]
\* Nonces of either length in either alphabet, one of letters that could be digits.
Form(enc, len, hexish) == [enc |-> enc, nonceLen |-> len, hexish |-> hexish]
McForms == {Form("hex", 12, FALSE), Form("base64", 16, TRUE)}

-----------------------------------------------------------------------------
(* Replies to the question "q" among frames of the question "r".            *)
Blank == [form |-> "frame", name |-> "speak", context |-> <<"q", "absent", "absent">>,
          session |-> <<>>, data |-> <<>>, denied |-> "", texts |-> <<"absent", "absent", "absent">>,
          stage |-> "absent", meta |-> "absent", clip |-> 0,
          code |-> "absent", numbers |-> <<<<>>, <<>>, <<>>>>]
Speak(texts, stage, meta) == [Blank EXCEPT !.texts = texts, !.stage = stage, !.meta = meta]
Clip(n) == [Blank EXCEPT !.name = "mycroft.audio.queue", !.clip = n, !.meta = "true"]
Named(name, stage) == [Blank EXCEPT !.name = name, !.stage = stage]
Denied(code, numbers) ==
  [Named("hive.policy.denied", "") EXCEPT !.code = code, !.numbers = numbers]
Other(f) == [f EXCEPT !.context = <<"null", "r", "absent">>]

Talk == {Speak(<<"hi", "bye", "absent">>, "fallback", "true"),
         Speak(<<"another", "absent", "bye">>, "fallback", "string"),
         Speak(<<"absent", "overlong", "hi">>, "skill", "absent"),
         Speak(<<"absent", "absent", "absent">>, "nul", "absent")}
Ends == {Named("ovos.utterance.handled", "fallback"), Named("complete_intent_failure", "absent"),
         Denied("acl_disallowed_type", <<<<1>>, <<2>>, <<3>>>>),
         Denied("intent_quota_exceeded", <<<<3>>, <<-1>>, <<>>>>),
         Denied("intent_quota_exceeded", <<<<4>>, <<0>>, <<9>>>>), Denied("overlong", <<<<>>, <<>>, <<>>>>),
         Named("ovos.utterance.handled", "overlong")}
McFrames == Talk \cup Ends \cup {Clip(1), Clip(2), Clip(3), Clip(7)}
            \cup {Other(Speak(<<"hi", "absent", "absent">>, "skill", "true")), Other(Clip(2))}

-----------------------------------------------------------------------------
Parts == {"reply", "fields", "patterns", "addresses", "bytes", "openings", "tags", "documents", "garbage",
          "strings", "numbers", "bits", "members", "envelopes"}
FramesInit == /\ part \in Parts
              /\ Init /\ Fields!Init /\ Docs!TokensInit /\ Quoted!Init
              /\ BitsInit /\ MembersInit /\ WireInit
              /\ part # "envelopes" => trusted
FramesNext ==
  \/ /\ part = "reply" /\ Next
     /\ UNCHANGED <<part, fieldVars, docVars, stringVars, bitVars, memberVars, wireVars>>
  \/ /\ part = "fields" /\ Fields!Next
     /\ UNCHANGED <<part, vars, docVars, meant, open, bitVars, memberVars, wireVars>>
  \/ /\ part = "patterns" /\ Patterns!Next
     /\ UNCHANGED <<part, vars, docVars, meant, open, bitVars, memberVars, wireVars>>
  \/ /\ part = "addresses" /\ Addresses!Next
     /\ UNCHANGED <<part, vars, docVars, meant, open, bitVars, memberVars, wireVars>>
  \/ /\ part = "bytes" /\ Encoded!CodecNext
     /\ UNCHANGED <<part, vars, docVars, meant, open, bitVars, memberVars, wireVars>>
  \/ /\ part = "openings" /\ Openings!Next
     /\ UNCHANGED <<part, vars, docVars, meant, open, bitVars, memberVars, wireVars>>
  \/ /\ part = "tags" /\ Tags!Next
     /\ UNCHANGED <<part, vars, docVars, meant, open, bitVars, memberVars, wireVars>>
  \/ /\ part = "documents" /\ Docs!TokensNext
     /\ UNCHANGED <<part, vars, fieldVars, stringVars, bitVars, memberVars, wireVars>>
  \/ /\ part = "garbage" /\ Garbage!TokensNext
     /\ UNCHANGED <<part, vars, fieldVars, stringVars, bitVars, memberVars, wireVars>>
  \/ /\ part = "strings" /\ Quoted!Next
     /\ UNCHANGED <<part, vars, rows, docVars, bitVars, memberVars, wireVars>>
  \/ /\ part = "numbers" /\ Numbers!Next
     /\ UNCHANGED <<part, vars, rows, meant, open, docVars, bitVars, memberVars, wireVars>>
  \/ /\ part = "bits" /\ BitsNext
     /\ UNCHANGED <<part, vars, fieldVars, stringVars, docVars, memberVars, wireVars>>
  \/ /\ part = "members" /\ MembersNext
     /\ UNCHANGED <<part, vars, fieldVars, stringVars, docVars, bitVars, wireVars>>
  \/ /\ part = "envelopes" /\ WireNext
     /\ UNCHANGED <<part, vars, fieldVars, stringVars, docVars, bitVars, memberVars>>
FramesSpec == FramesInit /\ [][FramesNext]_frameVars
-----------------------------------------------------------------------------
\* The properties of the parts; each module states what they mean.
\* No field is cut, repeated or made up, read or written: the fields of frames,
\* the sentence of a pattern, the parts of an address and of an identity, the
\* bytes behind hexadecimal digits and Base64, what a connection is opened
\* with, language tags and samples.
FieldsAreWhole == /\ part = "fields" => Fields!FieldsAreWhole
                  /\ part = "patterns" => Patterns!PatternsAreSpoken
                  /\ part = "addresses" => Addresses!ConnectsAsAsked
                  /\ part = "bytes" => /\ Encoded!BytesAreKept
                                       /\ \A limit \in {1, 4} : Narrow(limit)!BytesAreKept
                  /\ part = "openings" => Openings!OpensAsAsked
                  /\ part = "tags" => Tags!TextsAreTaken

\* Tokens, scans and the three readers of a number see the same document, in
\* the tokens there is room for, and what the scans read the tokenizer accepts.
DocumentsAreOne ==
  /\ part = "documents" => /\ Docs!TokensOK /\ Docs!SizesAreChildren /\ Docs!SpansNest
                           /\ Docs!DocumentIsOneValue /\ Docs!SkipPassesSpan /\ Docs!ScansAgree
  /\ part = "garbage" => Garbage!NothingElseIsRead
  /\ part = "numbers" => Numbers!OnlyNumbers /\ Numbers!ReadersAgree
  /\ part = "strings" => Quoted!StringsAreMeant
=============================================================================
