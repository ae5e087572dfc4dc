------------------------------ MODULE KVStore ------------------------------
(***************************************************************************)
(* What the storage tree promises to the rest of the system: it is a map    *)
(* from flat storage keys to values; a batch executes to a write set, and   *)
(* proving it overrides the map with exactly those writes -- nothing        *)
(* dropped, nothing added, nothing moved -- or proves nothing at all.       *)
(* No positions, links, hashes or witnesses.                                *)
(***************************************************************************)
CONSTANTS SlotKeys,     \* the flat keys of storage slots
          Values,       \* the values a slot can hold
          InitialMap    \* the map before the first batch

VARIABLES kv,           \* the committed map, a function on the keys present
          pending       \* the executed write set, << >> when there is none

\* A write set: the final value of every slot a batch changed.
WriteSets == UNION {[K -> Values] : K \in SUBSET SlotKeys}

\* The map m after the writes w.
Override(m, w) ==
    [k \in DOMAIN m \cup DOMAIN w |-> IF k \in DOMAIN w THEN w[k] ELSE m[k]]

Init == kv = InitialMap /\ pending = << >>

Execute ==
    /\ pending = << >>
    /\ pending' \in WriteSets
    /\ kv' = kv

Prove == kv' = Override(kv, pending) /\ pending' = << >>

Abort == pending' = << >> /\ kv' = kv

Spec == Init /\ [][Execute \/ Prove \/ Abort]_<<kv, pending>>
=============================================================================
