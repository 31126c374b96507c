---------------------------- MODULE WorkAccount ----------------------------
(***************************************************************************)
(* What AccountingDb promises about accepted work: a batch of work counts  *)
(* from the moment it is received, a block found settles everything that   *)
(* counts, and a crash loses only work that was not yet durable.  Lost     *)
(* work stays lost, settled work stays settled.                            *)
(***************************************************************************)
CONSTANT Messages   \* batches of work

VARIABLES
    counted,   \* batches in the current scores or in a round
    settled,   \* batches that belong to a round
    stable,    \* batches that a crash does not lose
    lost       \* batches lost in a crash

vars == <<counted, settled, stable, lost>>

Init == counted = {} /\ settled = {} /\ stable = {} /\ lost = {}

Receive(m) ==
    /\ m \notin counted \cup lost
    /\ counted' = counted \cup {m}
    /\ UNCHANGED <<settled, stable, lost>>

Persist ==
    /\ stable' \in SUBSET counted /\ stable \subseteq stable'
    /\ UNCHANGED <<counted, settled, lost>>

BlockFound ==
    /\ settled' = counted /\ stable' = counted
    /\ UNCHANGED <<counted, lost>>

\* The durable work is counted again, together with the batches (`counted''
\* less `stable') that were just being written when the process died.
Crash ==
    /\ counted' \in SUBSET counted /\ stable \subseteq counted'
    /\ stable' = counted'
    /\ lost' = lost \cup (counted \ counted')
    /\ UNCHANGED settled

Next ==
    \/ \E m \in Messages : Receive(m)
    \/ Persist \/ BlockFound \/ Crash

Spec == Init /\ [][Next]_vars
=============================================================================
