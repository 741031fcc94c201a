--------------------------- MODULE SortedListing ---------------------------
(***************************************************************************)
(* What the walk over a list promises its caller: either the list is known *)
(* and every name is reported once, in ascending order, until the caller   *)
(* has had enough; or it is unknown and nothing is reported at all.        *)
(***************************************************************************)
EXTENDS Naturals, Sequences

CONSTANT Id        \* the names, in their order

VARIABLES todo,    \* the names still to report
          out,     \* the names reported
          over     \* the walk has ended

listVars == <<todo, out, over>>

\* A list may be unknown from the start.
ListInit == todo \in SUBSET Id /\ out = <<>> /\ over \in BOOLEAN

Report(id) ==
  /\ ~over
  /\ id \in todo
  /\ \A other \in todo : id <= other
  /\ todo' = todo \ {id}
  /\ out' = Append(out, id)
  /\ over' \in BOOLEAN

Complete == ~over /\ todo = {} /\ over' = TRUE /\ UNCHANGED <<todo, out>>

Unknown == ~over /\ out = <<>> /\ over' = TRUE /\ UNCHANGED <<todo, out>>

ListNext == (\E id \in Id : Report(id)) \/ Complete \/ Unknown

ListSpec == ListInit /\ [][ListNext]_listVars
=============================================================================
