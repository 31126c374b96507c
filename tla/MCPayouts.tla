----------------------------- MODULE MCPayouts -----------------------------
(* Small instances of Payouts for TLC. *)
EXTENDS Payouts, TLC

CONSTANTS t1, t2, t3

Reward(m, p) == [mode |-> m, pay |-> p]
Setting(min, on) == [min |-> min, instant |-> on]
Login(address, instant, threshold) ==
    [present |-> TRUE, address |-> address, instant |-> instant, threshold |-> threshold]

OneUser == {1}
TwoUsers == {1, 2}

TwoTxs == {t1, t2}
ThreeTxs == {t1, t2, t3}
TxSymmetry == Permutations(TxIds)

\* A round and a PPS pay-out for everybody.
RoundAndPps == {Reward("pplns", [u \in Users |-> 2]), Reward("pps", [u \in Users |-> 1])}
\* Two rounds: the second can come while the first one's payout is under way.
TwoRounds == {Reward("pplns", [u \in Users |-> 2]), Reward("pplns", [u \in Users |-> 3])}
\* A PPS pay-out for user 1 only, a round for everybody.
Mixed == {Reward("pplns", [u \in Users |-> 2]),
          Reward("pps", [u \in Users |-> IF u = 1 THEN 1 ELSE 0])}
LargeRound == {Reward("pplns", [u \in Users |-> 3]), Reward("pps", [u \in Users |-> 1])}

AlwaysOn == {Setting(1, TRUE)}
\* Payouts can be switched off.
OnAndOff == {Setting(1, TRUE), Setting(1, FALSE)}
\* The minimum can rise above payouts that are queued.
Raising == {Setting(1, TRUE), Setting(3, TRUE)}

Auto == {Login("valid", TRUE, 1)}
\* Automatic payouts from 3 on, manual ones below.
FromThree == {Login("valid", TRUE, 3)}
\* Manual payouts only.
Manual == {Login("valid", FALSE, 0)}
\* The address can become one that buildTransaction refuses.
Readdressed == {Login("valid", TRUE, 1), Login("invalid", TRUE, 1)}
=============================================================================
