------------------------------ MODULE MCRounds ------------------------------
(* Small instances of Rounds for TLC. *)
EXTENDS Rounds

Two == {1, 2}

Shares(a, b, meta) == [shares |-> [u \in Users |-> IF u = 1 THEN a ELSE b], meta |-> meta]

\* Odd remainders with and without PPS work, and a block found by PPS work only.
SomeWork == {Shares(1, 2, 1), Shares(2, 2, 0), Shares(0, 0, 2)}
OneWork == {Shares(1, 2, 1)}

Plan(a, b) == [u \in Users |-> [v \in Users |-> IF v = u THEN 0 ELSE IF u = 1 THEN a ELSE b]]

\* No fees; a fee of user 1 for user 2, and fees of user 2 above 100%.
SomePlans == {Plan(0, 0), Plan(30, 120)}
NoFees == {Plan(0, 0)}
=============================================================================
