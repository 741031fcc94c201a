----------------------------- MODULE JsonTokens -----------------------------
(***************************************************************************)
(* The tokenizer of src/json.c, one lexeme of the document at a time.  The *)
(* recursion of parse_value and parse_container is the stack of the open   *)
(* containers' tokens; a string (a quote up to the one string_end finds)   *)
(* and a run up to is_primitive_end are one lexeme each, white space is    *)
(* none.  The verdict on the text read so far is Result: every prefix of a *)
(* document is a document the function may be given.                       *)
(***************************************************************************)
EXTENDS Integers, Sequences, FiniteSets

CONSTANTS Strings,      \* string lexemes
          Primitives,   \* those check_primitive accepts
          Junk,         \* and one it does not
          MaxDepth,     \* THALOVANT_JSON_MAX_DEPTH
          MaxToks,      \* max_toks
          MaxLength,    \* bounds of the model: lexemes of a document,
          MaxTail       \* and of one that goes on after its first error

JsonAssumption ==
  /\ MaxDepth \in Nat /\ MaxToks \in Nat \ {0} /\ MaxLength \in Nat /\ MaxTail \in Nat
  /\ (Strings \cup Primitives \cup Junk) \cap {"{", "}", "[", "]", ",", ":"} = {}
  /\ Strings \cap (Primitives \cup Junk) = {} /\ Primitives \cap Junk = {}

VARIABLES doc,
          toks,     \* [type, first, next, size, parent]: raw spans, next is 0 while open
          stack,    \* open containers, innermost last
          expect,   \* what the code looks for at pos
          rc        \* "run", or the error
tokenVars == <<doc, toks, stack, expect, rc>>

Brackets == {"{", "}", "[", "]"}
Lexemes == Strings \cup Primitives \cup Junk \cup Brackets \cup {",", ":"}

Result == IF rc # "run" THEN rc ELSE IF expect = "end" THEN "OK" ELSE "JSON"
Innermost == stack[Len(stack)]
InObject == stack # <<>> /\ toks[Innermost].type = "object"
\* The parent given to a value: its key in an object, else its array, or none.
Parent == IF stack = <<>> THEN 0 ELSE IF InObject THEN Len(toks) ELSE Innermost
-----------------------------------------------------------------------------
TokensInit == doc = <<>> /\ toks = <<>> /\ stack = <<>> /\ expect = "value" /\ rc = "run"

Read(c) == /\ rc = "run" /\ Len(doc) < MaxLength /\ doc' = Append(doc, c)
Fail(code) == rc' = code /\ UNCHANGED <<toks, stack, expect>>

\* alloc_tok, for the lexeme just read.  A value's depth is the number of
\* containers around it, and is looked at before.
\* (mutant: room for one more)
RoomForOneMore == Len(toks) <= MaxToks
Room == Len(toks) < MaxToks
TooDeep == Len(stack) > MaxDepth
Token(type, next, parent) ==
  [type |-> type, first |-> Len(doc'), next |-> next, size |-> 0, parent |-> parent]

\* A complete value counts in its container, and makes its key's size 1.
\* (mutants: not in its key's; only in its key's, or its array)
CountedOnce(ts, value, around) ==
  [i \in DOMAIN ts |-> IF around # <<>> /\ i = around[Len(around)]
                       THEN [ts[i] EXCEPT !.size = @ + 1] ELSE ts[i]]
CountedByParent(ts, value, around) ==
  [i \in DOMAIN ts |-> IF i = ts[value].parent
                       THEN [ts[i] EXCEPT !.size = @ + 1] ELSE ts[i]]
Counted(ts, value, around) ==
  [i \in DOMAIN ts |-> IF around # <<>> /\ i \in {around[Len(around)], ts[value].parent}
                       THEN [ts[i] EXCEPT !.size = @ + 1] ELSE ts[i]]
AfterValue(around) == IF around = <<>> THEN "end" ELSE "more"

WantsKey == expect = "key" \/ (expect = "first" /\ InObject)
WantsValue == expect \in {"value", "first"} /\ ~WantsKey

\* parse_container up to its first member,
Open(c) ==
  /\ WantsValue /\ Read(c)
  /\ IF TooDeep THEN Fail("JSON") ELSE IF ~Room THEN Fail("NOMEM")
     ELSE /\ toks' = Append(toks, Token(IF c = "{" THEN "object" ELSE "array", 0, Parent))
          /\ stack' = Append(stack, Len(toks'))
          /\ expect' = "first" /\ UNCHANGED rc
\* and from its bracket on.
Close(c) ==
  /\ expect \in {"first", "more"} /\ stack # <<>> /\ c = (IF InObject THEN "}" ELSE "]")
  /\ Read(c)
  /\ stack' = SubSeq(stack, 1, Len(stack) - 1)
  /\ toks' = Counted([toks EXCEPT ![Innermost].next = Len(doc') + 1], Innermost, stack')
  /\ expect' = AfterValue(stack') /\ UNCHANGED rc

\* parse_string of a key, with the colon and the comma around it.
Key(c) ==
  /\ WantsKey /\ Read(c)
  /\ IF ~Room THEN Fail("NOMEM")
     ELSE /\ toks' = Append(toks, Token("string", Len(doc') + 1, Innermost))
          /\ expect' = "colon" /\ UNCHANGED <<stack, rc>>
Colon == /\ expect = "colon" /\ Read(":")
         /\ expect' = "value" /\ UNCHANGED <<toks, stack, rc>>
Comma == /\ expect = "more" /\ Read(",")
         /\ expect' = IF InObject THEN "key" ELSE "value"
         /\ UNCHANGED <<toks, stack, rc>>

\* parse_string or parse_primitive of a value.
Scalar(c) ==
  /\ WantsValue /\ Read(c)
  /\ IF TooDeep THEN Fail("JSON") ELSE IF ~Room THEN Fail("NOMEM")
     ELSE /\ toks' = Counted(Append(toks, Token(IF c \in Strings THEN "string" ELSE "primitive",
                                                Len(doc') + 1, Parent)),
                             Len(toks) + 1, stack)
          /\ expect' = AfterValue(stack) /\ UNCHANGED <<stack, rc>>

\* Anything else where it stands.  What cannot begin a value is taken for a
\* primitive, and its token is allocated before it is looked at.
Reject(c) ==
  /\ Read(c)
  /\ CASE WantsValue -> /\ c \in Junk \cup {"}", "]", ",", ":"}
                        /\ ~(expect = "first" /\ c = "]")
                        /\ Fail(IF ~TooDeep /\ ~Room THEN "NOMEM" ELSE "JSON")
       [] WantsKey -> c \notin Strings /\ ~(expect = "first" /\ c = "}") /\ Fail("JSON")
       [] expect = "colon" -> c # ":" /\ Fail("JSON")
       [] expect = "more" -> c \notin {",", IF InObject THEN "}" ELSE "]"} /\ Fail("JSON")
       [] expect = "end" -> Fail("JSON")

\* The rest of a text that is already refused.
Ignore(c) == /\ rc # "run" /\ Len(doc) < MaxTail
             /\ doc' = Append(doc, c) /\ UNCHANGED <<toks, stack, expect, rc>>

TokensNext == \/ \E c \in {"{", "["} : Open(c)
              \/ \E c \in {"}", "]"} : Close(c)
              \/ \E c \in Strings : Key(c)
              \/ Colon \/ Comma
              \/ \E c \in Strings \cup Primitives : Scalar(c)
              \/ \E c \in Lexemes : Reject(c) \/ Ignore(c)
TokensSpec == TokensInit /\ [][TokensNext]_tokenVars
-----------------------------------------------------------------------------
\* Types and bounds: never more tokens than the caller's array holds, never
\* more containers open than MaxDepth allows, and a token's parent before it.
TokensOK ==
  /\ doc \in Seq(Lexemes)
  /\ toks \in Seq([type : {"object", "array", "string", "primitive"}, first : Nat, next : Nat,
                   size : Nat, parent : Nat])
  /\ Len(toks) <= MaxToks /\ Len(stack) <= MaxDepth + 1
  /\ \A i \in DOMAIN toks : toks[i].parent < i
  /\ stack \in Seq(DOMAIN toks)
  /\ expect \in {"value", "first", "key", "colon", "more", "end"}
  /\ rc \in {"run", "JSON", "NOMEM"}

\* thalovant_json_skip and object_get find their way by the sizes alone: a
\* token's size is the number of its complete children, of an object its
\* members, of a key the value it has.
IsKey(j) == toks[j].parent # 0 /\ toks[toks[j].parent].type = "object"
Complete(j) == IF IsKey(j) THEN toks[j].size = 1 ELSE toks[j].next # 0
SizesAreChildren == \A i \in DOMAIN toks :
  toks[i].size = Cardinality({j \in DOMAIN toks : toks[j].parent = i /\ Complete(j)})

\* The spans nest the way the parents say, which object_get and skip take for
\* granted: a token's parent is a key that ended before it or a container that
\* is still open there, all tokens between the two have ended, and no token
\* outlasts one it began in.
Ended(i, at) == toks[i].next # 0 /\ toks[i].next <= at
SpansNest ==
  /\ \A i \in DOMAIN toks : /\ toks[i].first \in 1..Len(doc)
                            /\ toks[i].next \in {0} \cup (toks[i].first + 1..Len(doc) + 1)
  /\ \A i, j \in DOMAIN toks : i < j =>
       /\ toks[i].first < toks[j].first
       /\ toks[j].parent < i => Ended(i, toks[j].first)
       /\ toks[j].parent = i => (Ended(i, toks[j].first) <=> IsKey(i))
       /\ Ended(i, toks[j].first) \/ toks[i].next = 0 \/ Ended(j, toks[i].next - 1)

\* An accepted document is its first token, and nothing in it is left open.
DocumentIsOneValue == Result = "OK" =>
  /\ toks # <<>> /\ toks[1].first = 1 /\ toks[1].next = Len(doc) + 1
  /\ \A i \in DOMAIN toks : toks[i].next # 0
=============================================================================
