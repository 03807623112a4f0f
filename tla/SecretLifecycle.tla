--------------------------- MODULE SecretLifecycle ---------------------------
(***************************************************************************)
(* What the vault promises about its secrets, with no requests, no         *)
(* revision numbers and no metadata rows: every secret has a number of     *)
(* values issued so far, at most one of them is usable, and it is the      *)
(* newest.  Each operation happens in one step and leaves one entry in the *)
(* log.  VaultSecrets is shown to implement this specification.            *)
(***************************************************************************)
EXTENDS Naturals, Sequences

CONSTANT Names      \* the secrets that may be created

VARIABLES
    issued,         \* issued[n]: how many values n has had, 0 before its creation
    live,           \* live[n]: the number of the usable value, 0 when there is none
    log             \* every operation that took effect, oldest first

vars == <<issued, live, log>>

Init ==
    /\ issued = [n \in Names |-> 0]
    /\ live = [n \in Names |-> 0]
    /\ log = <<>>

Logged(op, n) == log' = Append(log, [op |-> op, secret |-> n])

\* A new value is issued for n and is the usable one from now on.
Issue(n) ==
    /\ issued' = [issued EXCEPT ![n] = issued[n] + 1]
    /\ live' = [live EXCEPT ![n] = issued[n] + 1]

Create(n) ==
    /\ issued[n] = 0
    /\ Issue(n)
    /\ Logged("secret.create", n)

Rotate(n) ==
    /\ issued[n] > 0
    /\ Issue(n)
    /\ Logged("secret.rotate", n)

Revoke(n) ==
    /\ issued[n] > 0
    /\ live' = [live EXCEPT ![n] = 0]
    /\ Logged("secret.revoke", n)
    /\ UNCHANGED issued

Next == \E n \in Names : Create(n) \/ Rotate(n) \/ Revoke(n)

Spec == Init /\ [][Next]_vars
=============================================================================
