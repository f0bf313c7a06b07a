------------------------------ MODULE MCRunner ------------------------------
(***************************************************************************)
(* Model-checking instance of Runner.  The runner has no data to bound:    *)
(* its plans are fixed and its state finite, so the configurations only    *)
(* choose which environment behaviours are possible.                       *)
(***************************************************************************)
EXTENDS Runner

=============================================================================
