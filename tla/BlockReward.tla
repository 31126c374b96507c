---------------------------- MODULE BlockReward ----------------------------
(***************************************************************************)
(* distributeBlockReward: how the coins of one block are split between the *)
(* pool's PPS account and the users of the PPLNS round.  Amounts are whole *)
(* numbers (fixed point in the code, where a block has far more units than *)
(* work), users are numbers in the order of their logins.                  *)
(***************************************************************************)
EXTENDS Aggregates

\* The share of the PPS meta user; `work' is the work of all users and of `meta'.
PPSValue(coins, work, meta) == IF work = 0 THEN 0 ELSE (coins \div work) * meta

\* What u's fee plan takes from `value', by receiver; mulfp rounds down.  Fees
\* that exceed the value are not applied at all.
Fees(value, plan) ==
    LET fee == [v \in DOMAIN plan |-> (value * plan[v]) \div 100]
    IN  IF Total(fee, DOMAIN plan) <= value THEN fee ELSE [v \in DOMAIN plan |-> 0]

\* Mutant of Correction: every payout gets the same part of what is left.
CorrectionEven(left, paid, u) == left \div Cardinality(paid)

\* "Correct payouts for use all available coins": what rounding left over goes
\* to all who are paid, in equal parts and the odd units to the first of them.
Correction(left, paid, u) ==
    left \div Cardinality(paid)
        + (IF Cardinality({v \in paid : v < u}) < left % Cardinality(paid) THEN 1 ELSE 0)

\* Payouts of `available' coins by user, zero for a user who is not paid.
Payouts(available, shares, plans) ==
    LET miners == DOMAIN shares
        total  == Total(shares, miners)
        value  == [u \in miners |-> (available \div total) * shares[u]]
        fee    == [u \in miners |-> Fees(value[u], plans[u])]
        net    == [u \in miners |-> value[u] - Total(fee[u], miners)
                                     + Total([w \in miners |-> fee[w][u]], miners)]
        paid   == {u \in miners : net[u] > 0}
    IN  IF total = 0 THEN [u \in miners |-> 0]
        ELSE [u \in miners |-> IF u \in paid
                              THEN net[u] + Correction(available - Total(value, miners), paid, u)
                              ELSE 0]
=============================================================================
