------------------------------ MODULE MCUsers ------------------------------
(* Small instances of Users for TLC. *)
EXTENDS Users, TLC

CONSTANTS alice, bob

AllLogins == {alice, bob}
IdsByMode == [mail \in BOOLEAN |-> IF mail THEN 2 ELSE 3]
BothReceive == {{alice, bob}}
Symmetric == Permutations(Logins)
=============================================================================
