-------------------------- MODULE MCBacktestEngine --------------------------
(***************************************************************************)
(* A small instance of BacktestEngine, with the bars of MCCorridorMachine. *)
(***************************************************************************)
EXTENDS BacktestEngine, MCCorridorMachine

=============================================================================
