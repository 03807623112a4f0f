------------------------------ MODULE MCStartup ------------------------------
(***************************************************************************)
(* A small instance of Startup.  Brokers are interchangeable, and so are   *)
(* inits: no definition chooses among them.                                *)
(***************************************************************************)
EXTENDS Startup, TLC

ProcessSymmetry == Permutations(Inits) \cup Permutations(Brokers)
=============================================================================
