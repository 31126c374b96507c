------------------------------ MODULE MCStratum ------------------------------
(***************************************************************************)
(* Instances of Stratum for TLC: two coins, which can be a primary and a   *)
(* secondary one, as LTC and DOGE, or two primary ones, as BTC and XEC.    *)
(***************************************************************************)
EXTENDS Stratum, TLC

CONSTANTS n1, n2

DogeChainId == 2 :> 98

Plain ==
    [primary |-> {1}, secondary |-> {}, rtt |-> {}, nodes |-> {n1, n2}, switcher |-> FALSE]

Merged(nodes) ==
    [primary |-> {1}, secondary |-> {2}, rtt |-> {}, nodes |-> nodes, switcher |-> FALSE]

WithRtt(nodes) ==
    [primary |-> {1, 2}, secondary |-> {}, rtt |-> {2}, nodes |-> nodes, switcher |-> TRUE]

Passing == {Plain, Merged({n1}), WithRtt({n1})}

Symmetric == Permutations(Blocks) \cup Permutations(Nonces)

----------------------------------------------------------------------------
(* What the code does not keep; README.md tells how each one is broken.    *)

MergedOnTwoNodes == {Merged({n1, n2})}
RttOnTwoNodes == {WithRtt({n1, n2})}

\* No header counts twice for a coin at all: broken by a template that comes back.
HeadersCountOnce ==
    \A c \in Coins :
        LET lists == ({"acc"} \X Threads) \cup ({"log"} \X DOMAIN Log(c))
        IN  \A x, y \in lists : \A i \in DOMAIN SharesOf(c, x), j \in DOMAIN SharesOf(c, y) :
                SharesOf(c, x)[i].hash = SharesOf(c, y)[j].hash => x = y /\ i = j

\* A block gets one row and one round on several nodes too: broken by nodes that
\* disagree about which of two submissions of a block came first.
OneRowPerBlock ==
    \A c \in Coins : \A j, k \in DOMAIN Log(c) :
        HasBlock(Log(c)[j]) /\ HasBlock(Log(c)[k]) /\ Log(c)[j].block = Log(c)[k].block => j = k

\* All shares are credited for their block, on works that were not sent too.
AllCreditedForTheirBlock ==
    \A c \in Coins : \A e \in Range(Log(c)) : HasWork(e) =>
        \A k \in DOMAIN e.shares : e.shares[k].block = e.info
=============================================================================
