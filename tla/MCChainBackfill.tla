--------------------------- MODULE MCChainBackfill ---------------------------
(***************************************************************************)
(* Two requests whose contracts overlap, in batches of one or two.         *)
(***************************************************************************)
EXTENDS ChainBackfill

CONSTANTS r1, r2

MCUniverse == [r \in Requests |-> IF r = r1 THEN {1, 2, 3} ELSE {2, 4}]
MCNoWindow == [r \in Requests |-> IF r = r1 THEN {3} ELSE {1}]

=============================================================================
