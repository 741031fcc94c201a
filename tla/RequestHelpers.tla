---------------------------- MODULE RequestHelpers ----------------------------
(***************************************************************************)
(* src/request_helpers.c: one sentence of an intent's pattern, rewritten   *)
(* in the caller's buffer, and the location of a request.                  *)
(*                                                                         *)
(* A pattern is a sequence of characters: the brackets, "a", "b" and "_"   *)
(* for what a slot's name may contain, " " and "tab" for whitespace.       *)
(***************************************************************************)
EXTENDS Naturals, Sequences, SequencesExt, FiniteSets, FiniteSetsExt

CONSTANTS Slots,      \* thalovant_speakable_slot: the value of each name
          Caps,       \* sizes of the pattern's buffer
          PlaceCap,   \* size of the location's buffer, in pieces
          Pieces, MaxPieces   \* bounds of the model: what patterns are made of

VARIABLES text,   \* the pieces of a pattern
          rows    \* city, region, country, timezone and coordinates
vars == <<text, rows>>

Pattern == FlattenSeq(text)
IsSpace(c) == c \in {" ", "tab"}
NameChar == {"a", "b", "_"}
Edge == {" ", ","}
Cut(s, first, last, value) ==
  SubSeq(s, 1, first - 1) \o value \o SubSeq(s, last + 1, Len(s))

-----------------------------------------------------------------------------
\* The group the scan finds: from the last opening character before the first
\* closing one that follows any.
\* (mutant: the first opening character is kept)
FoundOuter(s, open, close) ==
  {g \in (1..Len(s)) \X (1..Len(s)) :
     /\ g[1] < g[2] /\ s[g[1]] = open /\ s[g[2]] = close
     /\ \A i \in 1..(g[1] - 1) : s[i] # open
     /\ \A i \in g[1]..(g[2] - 1) : s[i] # close}
Found(s, open, close) ==
  {g \in (1..Len(s)) \X (1..Len(s)) :
     /\ g[1] < g[2] /\ s[g[1]] = open /\ s[g[2]] = close
     /\ \A i \in (g[1] + 1)..(g[2] - 1) : s[i] \notin {open, close}
     /\ \A i, j \in 1..(g[1] - 1) : ~(i < j /\ s[i] = open /\ s[j] = close)}

RECURSIVE TrimSpaces(_)
TrimSpaces(s) == IF s = <<>> THEN s
                 ELSE IF IsSpace(Head(s)) THEN TrimSpaces(Tail(s))
                 ELSE IF IsSpace(Last(s)) THEN TrimSpaces(Front(s)) ELSE s
\* What is put for a group: nothing for [..]; the first alternative of (..|..)
\* that has a text, and nothing when there is but one beside an empty one.
Alternatives(s) ==
  LET bars == {i \in 1..Len(s) : s[i] = "|"}
      ends == SetToSortSeq(bars \cup {Len(s) + 1}, <)
  IN [n \in 1..Len(ends) |->
        TrimSpaces(SubSeq(s, IF n = 1 THEN 1 ELSE ends[n - 1] + 1, ends[n] - 1))]
Chosen(s, g) ==
  LET all == Alternatives(SubSeq(s, g[1] + 1, g[2] - 1))
      real == SelectSeq(all, LAMBDA alternative : alternative # <<>>)
  IN IF s[g[1]] = "[" \/ real = <<>> \/ (Len(real) < Len(all) /\ Len(real) <= 1)
     THEN <<>> ELSE real[1]
Rewritten(s, g) == Cut(s, g[1], g[2], Chosen(s, g))
RECURSIVE Expand(_, _, _)
Expand(s, open, close) ==
  IF Found(s, open, close) = {} THEN s
  ELSE Expand(Rewritten(s, CHOOSE g \in Found(s, open, close) : TRUE), open, close)
Expanded(s) == Expand(Expand(s, "[", "]"), "(", ")")

\* The {name} that starts at i: where it ends, or 0.
SlotEnd(s, i) ==
  LET ends == {j \in (i + 2)..Len(s) : /\ s[j] = "}"
                                       /\ \A k \in (i + 1)..(j - 1) : s[k] \in NameChar}
  IN IF s[i] = "{" /\ ends # {} THEN CHOOSE j \in ends : TRUE ELSE 0
SlotText(name) ==
  IF name \in DOMAIN Slots THEN Slots[name]
  ELSE [i \in 1..Len(name) |-> IF name[i] = "_" THEN " " ELSE name[i]]
\* Where the scan goes on behind a slot's value.
\* (mutant: the value is scanned, too)
AfterValueStart(i, value) == i
AfterValue(i, value) == i + Len(value)
RECURSIVE Fill(_, _, _)
Fill(s, i, cap) ==
  IF i > Len(s) THEN [rc |-> "OK", out |-> s]
  ELSE IF SlotEnd(s, i) = 0 THEN Fill(s, i + 1, cap)
  ELSE LET value == SlotText(SubSeq(s, i + 1, SlotEnd(s, i) - 1))
           filled == Cut(s, i, SlotEnd(s, i), value)
       IN IF Len(filled) >= cap THEN [rc |-> "NOMEM", out |-> s]
          ELSE Fill(filled, AfterValue(i, value), cap)

\* Runs of whitespace become one space, a single character stays as it is;
\* spaces and commas go from both ends.
Collapse(s) ==
  LET run(i) == \/ i > 1 /\ IsSpace(s[i - 1])
                \/ i < Len(s) /\ IsSpace(s[i + 1])
      step(out, i) == IF ~IsSpace(s[i]) \/ ~run(i) THEN Append(out, s[i])
                      ELSE IF i > 1 /\ IsSpace(s[i - 1]) THEN out ELSE Append(out, " ")
  IN FoldLeftDomain(step, <<>>, s)
RECURSIVE TrimEdges(_)
TrimEdges(s) == IF s = <<>> THEN s
                ELSE IF Head(s) \in Edge THEN TrimEdges(Tail(s))
                ELSE IF Last(s) \in Edge THEN TrimEdges(Front(s)) ELSE s

\* thalovant_speakable
Speakable(pattern, cap) ==
  IF Len(pattern) >= cap THEN [rc |-> "NOMEM", out |-> <<>>]
  ELSE LET filled == Fill(Expanded(pattern), 1, cap)
       IN IF filled.rc # "OK" THEN filled
          ELSE [rc |-> "OK", out |-> TrimEdges(Collapse(filled.out))]
-----------------------------------------------------------------------------
\* thalovant_build_location: a member is "absent", "blank" or a "name"; the
\* coordinates are where the caller says they are.
Names == <<"city", "region", "country", "timezone">>
Values == {"absent", "blank", "name"}
Places == {"nowhere", "origin", "equator", "inland", "beyond"}
\* (mutant: any finite place is told)
PlaceToldFinite(place) == place # "nowhere"
PlaceTold(place) == place \in {"equator", "inland"}
Member(i) == CASE i = 1 -> <<"{city", "name">>
               [] i = 2 -> <<",region", "name">>
               [] i = 3 -> <<",country", "NAME">>
               [] i = 4 -> <<",timezone{", "name", "}">>
BuildLocation(members, place) ==
  LET put(out, i) == IF members[i] = "name" THEN out \o Member(i) ELSE out
      texts == FoldLeftDomain(put, <<>>, members)
      spot == IF PlaceTold(place)
              THEN <<",coordinate{", "latitude", ",longitude", "number", "}">> ELSE <<>>
      whole == texts \o spot \o <<"}">>
  IN IF members[1] # "name" THEN [rc |-> "OK", out |-> <<>>]
     ELSE IF Len(whole) >= PlaceCap THEN [rc |-> "NOMEM", out |-> SubSeq(whole, 1, PlaceCap - 1)]
     ELSE [rc |-> "OK", out |-> whole]
-----------------------------------------------------------------------------
\* Every pattern of a few pieces, and every location.
Init == text = <<>> /\ rows = <<>>
GrowText == /\ rows = <<>> /\ Len(text) < MaxPieces
            /\ \E p \in Pieces : text' = Append(text, p)
            /\ UNCHANGED rows
GrowRows == /\ text = <<>>
            /\ \/ Len(rows) < 4 /\ \E v \in Values : rows' = Append(rows, v)
               \/ Len(rows) = 4 /\ \E p \in Places : rows' = Append(rows, p)
            /\ UNCHANGED text
Next == GrowText \/ GrowRows
Spec == Init /\ [][Next]_vars
-----------------------------------------------------------------------------
Room == 100

\* Which groups are rewritten first does not matter: the scan that starts over
\* after each one finds the text a reader who takes the groups apart from
\* inside, in any order, finds.
AnyOrder(s, open, close) ==
  \A first, last \in 1..Len(s) :
    (/\ first < last /\ s[first] = open /\ s[last] = close
     /\ \A i \in (first + 1)..(last - 1) : s[i] \notin {open, close})
      => Expand(Rewritten(s, <<first, last>>), open, close) = Expand(s, open, close)
GroupsAreNested == /\ AnyOrder(Pattern, "[", "]")
                   /\ \A s \in {Expand(Pattern, "[", "]")} : AnyOrder(s, "(", ")")

\* Every slot of the text is filled once, and nothing a value says is taken
\* for a slot, though values are put where the scan is still reading.
FilledOnce ==
  \A s \in {Expanded(Pattern)} :
    LET inside(i) == \E j \in 1..(i - 1) : SlotEnd(s, j) >= i
        at(i) == IF SlotEnd(s, i) # 0 THEN SlotText(SubSeq(s, i + 1, SlotEnd(s, i) - 1))
                 ELSE IF inside(i) THEN <<>> ELSE <<s[i]>>
    IN Fill(s, 1, Room).out = FlattenSeq([i \in 1..Len(s) |-> at(i)])

\* A sentence is whole or an error: no two spaces, no space or comma at its
\* ends, its words those of the filled text, and none of it lost to the size
\* of the buffer.
SentenceIsWhole ==
  LET words(s) == SelectSeq(s, LAMBDA c : ~IsSpace(c) /\ c # ",")
  IN \A filled \in {Fill(Expanded(Pattern), 1, Room).out}, free \in {Speakable(Pattern, Room).out} :
       /\ words(free) = words(filled)
       /\ \A i \in 1..(Len(free) - 1) : ~(IsSpace(free[i]) /\ IsSpace(free[i + 1]))
       /\ free # <<>> => Head(free) \notin Edge /\ Last(free) \notin Edge
       /\ \A cap \in Caps : \A tight \in {Speakable(Pattern, cap)} :
            tight.rc = "OK" => tight.out = free /\ Len(free) < cap

\* A location tells every member that has a text and no other, in braces that
\* close, and no place that is not on the map.
LocationIsWhole ==
  Len(rows) = 5 =>
    LET built == BuildLocation(SubSeq(rows, 1, 4), rows[5])
        opens == Cardinality({i \in 1..Len(built.out) : built.out[i] \in
                                {"{city", ",timezone{", ",coordinate{"}})
        closes == Cardinality({i \in 1..Len(built.out) : built.out[i] = "}"})
    IN /\ rows[1] # "name" => built = [rc |-> "OK", out |-> <<>>]
       /\ built.rc = "OK" /\ rows[1] = "name" =>
            /\ opens = closes /\ Head(built.out) = "{city"
            /\ \A i \in 2..4 : (rows[i] = "name") = (Member(i)[1] \in ToSet(built.out))
            /\ rows[5] \in {"nowhere", "origin", "beyond"} => "latitude" \notin ToSet(built.out)

PatternsAreSpoken == GroupsAreNested /\ FilledOnce /\ SentenceIsWhole /\ LocationIsWhole
=============================================================================
