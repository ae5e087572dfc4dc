--------------------------- MODULE CollectingPath ---------------------------
(***************************************************************************)
(* The promise of a witness reader: it looks at the whole input once and     *)
(* hands over the database build_proven_db defines, or refuses the input     *)
(* (execute_and_commit_from_bincode, the path the server runs).              *)
(***************************************************************************)
CONSTANTS Pending,              \* no outcome yet
          build_proven_db(_)    \* the outcome an input deserves

VARIABLES input, outcome

Init == outcome = Pending

Build ==
    /\ outcome = Pending
    /\ outcome' = build_proven_db(input)
    /\ input' = input

Spec == Init /\ [][Build]_<<input, outcome>>
=============================================================================
