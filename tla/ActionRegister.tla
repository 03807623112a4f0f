---------------------------- MODULE ActionRegister ----------------------------
(***************************************************************************)
(* What the vault promises about its approved actions: under each name it  *)
(* keeps the configuration approved last and the moment of the first       *)
(* approval, and it counts the approvals.  ApprovedActions is shown to     *)
(* implement this specification.                                           *)
(***************************************************************************)
EXTENDS Naturals

CONSTANTS
    Actions,        \* the names a user may approve actions under
    Configs,        \* what may be approved
    NoConfig        \* what a name stands for before its first approval

VARIABLES
    approved,       \* approved[a]: the configuration of a
    born,           \* born[a]: the approvals of a before its first request
    configured      \* configured[a]: the approvals of a that took effect

vars == <<approved, born, configured>>

Init ==
    /\ approved = [a \in Actions |-> NoConfig]
    /\ born = [a \in Actions |-> 0]
    /\ configured = [a \in Actions |-> 0]

\* Only the first approval could change the moment of the first one, and it
\* had none before it.
Approve(a, c) ==
    /\ approved' = [approved EXCEPT ![a] = c]
    /\ configured' = [configured EXCEPT ![a] = configured[a] + 1]
    /\ UNCHANGED born

Next == \E a \in Actions, c \in Configs : Approve(a, c)

Spec == Init /\ [][Next]_vars
=============================================================================
