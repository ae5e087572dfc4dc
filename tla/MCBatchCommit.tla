--------------------------- MODULE MCBatchCommit ---------------------------
(***************************************************************************)
(* The transactions of the batch_commit run: a priority operation that logs *)
(* and one that does not, an upgrade, L2 transactions at the gas caps, one  *)
(* unsigned and one blob transaction, and system transactions of both       *)
(* import ABIs, to the right and to a wrong target.                         *)
(***************************************************************************)
EXTENDS BatchCommit

Abi(id, type, gas, does) ==
    [kind |-> "abi", id |-> id, type |-> type, gas |-> gas, does |-> does,
     signed |-> TRUE, to |-> "", sel |-> "", roots |-> << >>]
L2(id, type, gas, does, signed) ==
    [kind |-> "envelope", id |-> id, type |-> type, gas |-> gas, does |-> does,
     signed |-> signed, to |-> "", sel |-> "", roots |-> << >>]
Sys(id, to, sel, roots, does) ==
    [kind |-> "system", id |-> id, type |-> 125, gas |-> 1, does |-> does,
     signed |-> TRUE, to |-> to, sel |-> sel, roots |-> roots]
Root(n) == [chain_id |-> 3, number |-> n, ts |-> 2, sides |-> <<<<"side", n>>>>]

MCEncodings ==
    {Abi(1, 127, 20, "log"), Abi(2, 127, 20, "none"), Abi(3, 126, 13, "set_sl"),
     L2(4, 0, 8, "grow", TRUE), L2(5, 2, 9, "log", TRUE),
     L2(6, 3, 1, "none", TRUE), L2(7, 2, 1, "none", FALSE),
     Sys(8, RootStorage, "addInteropRootsInBatch", <<Root(1), Root(2)>>, "settle"),
     Sys(9, RootStorage, "addInteropRootsInBatch_ts", <<Root(1), Root(2)>>, "settle"),
     Sys(10, InteropCenter, "setSettlementLayerChainId", << >>, "none")}
=============================================================================
