------------------------------ MODULE JsonScan ------------------------------
(***************************************************************************)
(* Reading src/json.c's documents in two ways: by the tokens of            *)
(* JsonTokens, with skip and object_get, and by the shallow scans over the *)
(* text, which keep no tokens.  Both have to see the same document.        *)
(***************************************************************************)
EXTENDS JsonTokens, SequencesExt

Nil == [rc |-> "MISSING"]
-----------------------------------------------------------------------------
(* By tokens.                                                              *)
RECURSIVE Skip(_), SkipFrom(_, _)
SkipFrom(n, at) == IF n = 0 \/ at > Len(toks) THEN at ELSE SkipFrom(n - 1, Skip(at))
Skip(i) == IF i > Len(toks) THEN Len(toks) + 1 ELSE SkipFrom(toks[i].size, i + 1)

RECURSIVE MemberFrom(_, _, _)
MemberFrom(n, child, key) ==
  IF n = 0 \/ child > Len(toks) THEN Nil
  ELSE IF doc[toks[child].first] = key /\ child < Len(toks)
  THEN [rc |-> "OK", tok |-> child + 1]
  ELSE MemberFrom(n - 1, Skip(child), key)
ObjectGet(obj, key) ==
  IF toks[obj].type # "object" THEN Nil ELSE MemberFrom(toks[obj].size, obj + 1, key)
\* Elements of an array, as the code's callers walk them with skip.
RECURSIVE ElementsFrom(_, _)
ElementsFrom(n, child) ==
  IF n = 0 THEN <<>> ELSE <<child>> \o ElementsFrom(n - 1, Skip(child))

-----------------------------------------------------------------------------
(* By scans.  A scanned token is [type, first, next, size].                *)
At(end, pos) == IF pos < end THEN doc[pos] ELSE "end of text"
\* thalovant_json_scan: the walk to the bracket that closes depth 1.
Nesting(pos, i) == Cardinality({k \in pos..i : doc[k] \in {"{", "["}})
                   - Cardinality({k \in pos..i : doc[k] \in {"}", "]"}})
\* (mutant: the commas of nested containers count)
ChildrenAllCommas(pos, last) ==
  IF \A i \in pos + 1..last - 1 : doc[i] = "," THEN 0
  ELSE 1 + Cardinality({i \in pos + 1..last - 1 : doc[i] = ","})
ScannedSize(pos, last) ==
  IF \A i \in pos + 1..last - 1 : doc[i] = "," THEN 0
  ELSE 1 + Cardinality({i \in pos + 1..last - 1 : doc[i] = "," /\ Nesting(pos, i) = 1})
Scan(end, pos) ==
  LET c == At(end, pos)
      type == IF c \in Strings THEN "string" ELSE IF c = "{" THEN "object"
              ELSE IF c = "[" THEN "array" ELSE "primitive"
      closing == {i \in pos..end - 1 : Nesting(pos, i) = 0}
      last == CHOOSE i \in closing : \A j \in closing : i <= j
  IN IF type \in {"string", "primitive"}
     THEN IF c \in Strings \cup Primitives
          THEN [rc |-> "OK", type |-> type, first |-> pos, next |-> pos + 1, size |-> 0]
          ELSE [rc |-> "JSON"]
     ELSE IF closing = {} \/ doc[last] # (IF c = "{" THEN "}" ELSE "]") THEN [rc |-> "JSON"]
     ELSE [rc |-> "OK", type |-> type, first |-> pos, next |-> last + 1,
           size |-> ScannedSize(pos, last)]

\* Between two members or elements stands one comma.
\* (mutant: whatever stands there is passed over)
SeparatedByAnything(end, pos) == TRUE
Separated(end, pos) == At(end, pos) = "," /\ At(end, pos + 1) \notin {"}", "]", ","}

\* thalovant_json_scan_key: every member is read, the first match is kept.
\* (mutant: the last match)
KeepLast(found, key, name, value) == IF doc[name] = key THEN value ELSE found
Keep(found, key, name, value) ==
  IF found.rc = "MISSING" /\ doc[name] = key THEN value ELSE found
RECURSIVE Members(_, _, _, _, _)
Members(end, pos, first, key, found) ==
  LET name == IF first THEN pos ELSE pos + 1
      value == Scan(end, name + 2)
  IN IF At(end, pos) = "}" THEN IF pos + 1 # end THEN [rc |-> "JSON"] ELSE found
     ELSE IF /\ first \/ Separated(end, pos)
             /\ At(end, name) \in Strings /\ At(end, name + 1) = ":" /\ value.rc = "OK"
     THEN Members(end, value.next, FALSE, key, Keep(found, key, name, value))
     ELSE [rc |-> "JSON"]
ScanKey(obj, key) == Members(obj.next, obj.first + 1, TRUE, key, Nil)

\* thalovant_json_scan_next, called until it ends: the elements.
RECURSIVE Elements(_, _, _, _)
Elements(end, pos, first, sofar) ==
  LET elem == Scan(end, IF first THEN pos ELSE pos + 1)
  IN IF At(end, pos) = "]" THEN [rc |-> "OK", elems |-> sofar]
     ELSE IF (first \/ Separated(end, pos)) /\ elem.rc = "OK"
     THEN Elements(end, elem.next, FALSE, Append(sofar, elem))
     ELSE [rc |-> "JSON"]
ScanElements(arr) == Elements(arr.next, arr.first + 1, TRUE, <<>>)

-----------------------------------------------------------------------------
Plain(t) == [type |-> t.type, first |-> t.first, next |-> t.next, size |-> t.size]
TokenAt(t) == Plain(toks[t])

\* A token's size leads skip past all that lies in its span and to nothing
\* before it: the next token begins where the span has ended.
SkipPassesSpan == Result = "OK" => \A i \in DOMAIN toks :
  LET end == IF IsKey(i) THEN toks[i + 1].next ELSE toks[i].next IN
  \A j \in DOMAIN toks : (i < j /\ toks[j].first < end) <=> (i < j /\ j < Skip(i))

\* Every document the tokenizer accepts is the same document to the scans:
\* its value, every member of its objects under every key, repeated ones
\* included, every element of its arrays.
ScansAgree == Result = "OK" =>
  /\ Scan(Len(doc) + 1, 1).rc = "OK" /\ Plain(Scan(Len(doc) + 1, 1)) = TokenAt(1)
  /\ \A t \in DOMAIN toks :
       CASE toks[t].type = "object" ->
              \A key \in Strings :
                LET tok == ObjectGet(t, key)  span == ScanKey(toks[t], key)
                IN /\ tok.rc = span.rc
                   /\ tok.rc = "OK" => TokenAt(tok.tok) = Plain(span)
         [] toks[t].type = "array" ->
              LET toksOf == ElementsFrom(toks[t].size, t + 1)  spans == ScanElements(toks[t])
              IN /\ spans.rc = "OK"
                 /\ [i \in DOMAIN toksOf |-> TokenAt(toksOf[i])] =
                      [i \in DOMAIN spans.elems |-> Plain(spans.elems[i])]
         [] OTHER -> TRUE

\* And a document the scans can read to its leaves is one the tokenizer
\* accepts, unless it is too deep or has too many tokens.  (The scans never
\* look inside the value of a key that is repeated.)
RECURSIVE Readable(_)
Readable(t) ==
  CASE t.type = "object" -> \A key \in Strings : LET m == ScanKey(t, key) IN
                              m.rc = "MISSING" \/ (m.rc = "OK" /\ Readable(m))
    [] t.type = "array" -> LET e == ScanElements(t) IN
                              e.rc = "OK" /\ \A i \in DOMAIN e.elems : Readable(e.elems[i])
    [] OTHER -> TRUE
TooBig == rc = "NOMEM" \/ \E i \in DOMAIN doc : Nesting(1, i) > MaxDepth
NothingElseIsRead ==
  LET whole == Scan(Len(doc) + 1, 1) IN
  whole.rc = "OK" /\ whole.next = Len(doc) + 1 /\ Readable(whole) => Result = "OK" \/ TooBig
=============================================================================
