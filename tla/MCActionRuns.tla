----------------------------- MODULE MCActionRuns -----------------------------
(***************************************************************************)
(* A small instance of ActionRuns: two configurations of one action.  One  *)
(* sets a variable and sends its output, the other sets that variable to   *)
(* another secret and a second one too.                                    *)
(***************************************************************************)
EXTENDS ActionRuns, TLC

CONSTANTS n1, n2, c1, c2, e1, e2

TwoMappings == (c1 :> (e1 :> n1 @@ e2 :> NoName)) @@ (c2 :> (e1 :> n2 @@ e2 :> n1))
UserSymmetry == Permutations(Users)
=============================================================================
