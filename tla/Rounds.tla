------------------------------- MODULE Rounds -------------------------------
(***************************************************************************)
(* From a found block to money in the users' balances.  onBlockFound opens *)
(* a round; a timer asks the node about all open rounds and pays or drops  *)
(* each of them.  The coins of a block are split when the block is found,  *)
(* or, for a coin with deferred rewards (Ethereum), when it is confirmed.  *)
(*                                                                         *)
(* The handlers run on the backend's one thread; only the query to the     *)
(* node yields, and onBlockFound or a fee plan update may run meanwhile.   *)
(* Each handler ends with one atomic write to accounting.state, but the    *)
(* databases of found blocks and of closed rounds are written before it:   *)
(* the loop over the rounds is a step per round, and the process can die   *)
(* between any two of them.                                                *)
(***************************************************************************)
EXTENDS BlockReward, Sequences, SequencesExt

CONSTANTS
    Users,       \* logins; numbers, ordered as std::map orders logins
    Blocks,      \* blocks the pool finds; numbers, ordered as their database keys
    Coins,       \* rewards a block can have
    Work,        \* [shares, meta]: work of the users and of the PPS meta user
    FeePlans,    \* user -> receiver of a fee -> percentage
    CoinKinds,   \* values of CoinInfo_.HasDeferredReward
    NoRound,     \* no row in the rounds database
    MaxCrashes   \* bound on crashes

ASSUME RoundAssumptions ==
    /\ Users \subseteq Nat /\ IsFiniteSet(Users)
    /\ Blocks \subseteq Nat /\ IsFiniteSet(Blocks)
    /\ Coins \subseteq Nat
    /\ \A w \in Work : w.shares \in [Users -> Nat] /\ w.meta \in Nat
    \* A coin is divided into more units (2^256) than there can be work.
    /\ \A c \in Coins, w \in Work : c = 0 \/ Total(w.shares, Users) + w.meta <= c
    /\ FeePlans \subseteq [Users -> [Users -> Nat]]
    /\ CoinKinds \subseteq BOOLEAN
    /\ MaxCrashes \in Nat

VARIABLES
    deferred,    \* CoinInfo_.HasDeferredReward
    plans,       \* the PPLNS fee record of each user (owned by UserManager)
    rounds,      \* State_.ActiveRounds
    earned,      \* what rounds added to the balance of each user
    pps,         \* what rounds added to PPSState.Balance
    pc,          \* the check of the rounds: "idle", "query" (waits for the node), "loop"
    query,       \* the blocks of confirmationsQuery
    i,           \* how many entries of it the loop has passed
    it,          \* the loop's position in ActiveRounds
    batch,       \* the loop's write batch: rounds put, and blocks deleted
    saved,       \* accounting.state: rounds by key, earned and pps
    foundDb,     \* blocks in the found blocks database
    roundsDb,    \* RoundsDb_
    chain,       \* external: what has become of a block
    outcome,     \* history: how the round of a block ended
    crashes      \* bound: crashes so far

ledger  == <<rounds, earned, pps>>
check   == <<pc, query, i, it, batch>>
history == <<foundDb, roundsDb>>
config  == <<deferred, plans>>
vars    == <<ledger, check, saved, history, config, chain, outcome, crashes>>

NoPayouts == [u \in Users |-> 0]
NoRows == [b \in {} |-> NoRound]
EmptyBatch == [put |-> NoRows, deleted |-> {}]

MiningRound ==
    [block : Blocks, coins : Coins, work : Work, pps : Nat, payouts : [Users -> Nat]]

\* Put the rows `new' over the rows `rows'.
Put(new, rows) ==
    [b \in DOMAIN new \cup DOMAIN rows |-> IF b \in DOMAIN new THEN new[b] ELSE rows[b]]

\* A round that has been given the coins of its block.
DistributeBlockReward(r) ==
    LET part == PPSValue(r.coins, Total(r.work.shares, Users) + r.work.meta, r.work.meta)
    IN  [r EXCEPT !.pps = part, !.payouts = Payouts(r.coins - part, r.work.shares, plans)]

Init ==
    /\ deferred \in CoinKinds /\ plans \in FeePlans
    /\ rounds = <<>> /\ earned = NoPayouts /\ pps = 0
    /\ pc = "idle" /\ query = <<>> /\ i = 0 /\ it = 1 /\ batch = EmptyBatch
    /\ saved = [rounds |-> NoRows, earned |-> NoPayouts, pps |-> 0]
    /\ foundDb = {} /\ roundsDb = [b \in Blocks |-> NoRound]
    /\ chain = [b \in Blocks |-> "none"] /\ outcome = [b \in Blocks |-> "none"]
    /\ crashes = 0

----------------------------------------------------------------------------
(* Handlers that run while the check is idle or waits for the node.        *)

Yielded == pc \in {"idle", "query"}

\* A node has accepted block b, and the record of the found block is written.
PutFoundBlock(b) ==
    /\ Yielded /\ chain[b] = "none"
    /\ chain' = [chain EXCEPT ![b] = "pending"]
    /\ foundDb' = foundDb \cup {b}

\* onBlockFound; w is the work in CurrentScores and in RecentStats, merged.
OnBlockFound(b, c, w) ==
    LET r == [block |-> b, coins |-> c, work |-> w, pps |-> 0, payouts |-> NoPayouts]
        R == IF deferred THEN r ELSE DistributeBlockReward(r)
    IN  /\ PutFoundBlock(b)
        /\ rounds' = Append(rounds, R)
        /\ pps' = pps + R.pps
        /\ saved' = [saved EXCEPT !.rounds = Put([k \in {b} |-> R], @), !.pps = pps']
        /\ UNCHANGED <<earned, check, roundsDb, config, outcome, crashes>>

\* onFeePlanUpdate, onFeePlanDelete and onUserFeePlanChange.
OnFeePlanUpdate(p) ==
    /\ Yielded
    /\ plans' = p
    /\ UNCHANGED <<ledger, check, saved, history, deferred, chain, outcome, crashes>>

----------------------------------------------------------------------------
(* checkBlockConfirmations, and checkBlockExtraInfo for deferred rewards.  *)

StartCheck ==
    /\ pc = "idle" /\ rounds # <<>>
    /\ pc' = "query"
    /\ query' = [k \in DOMAIN rounds |-> rounds[k].block]
    /\ UNCHANGED <<i, it, batch, ledger, saved, history, config, chain, outcome, crashes>>

NoCheck == pc' = "idle" /\ query' = <<>> /\ i' = 0 /\ it' = 1 /\ batch' = EmptyBatch

\* "api call failed"
CheckFailed ==
    /\ pc = "query"
    /\ NoCheck
    /\ UNCHANGED <<ledger, saved, history, config, chain, outcome, crashes>>

\* Confirmations as processRoundConfirmation tells them apart: -1,
\* RequiredConfirmations or more, anything else.
Verdicts == {"orphan", "mature", "unconfirmed"}

\* What the node says of block b.  A Bitcoin node gives -1 for a block that is
\* not in its best chain now, be it that the node lags behind or that the chain
\* is being reorganised.  The Ethereum client goes by the age of the block, but
\* takes an uncle for an orphan when one request of its search fails.
NodeVerdicts(b) ==
    CASE chain[b] = "pending" -> IF deferred THEN {"unconfirmed"} ELSE {"unconfirmed", "orphan"}
      [] chain[b] = "mature" -> {"mature"}
      [] chain[b] = "uncle" -> {"mature", "orphan"}
      [] chain[b] = "orphan" -> {"orphan"}

\* What confirmationsQuery[i] can hold when the loop reads it.  A round opened
\* during the query has no entry: the code reads past the end of the vector.
Answers(r) ==
    LET verdicts == IF i < Len(query) THEN NodeVerdicts(query[i + 1]) ELSE Verdicts
    IN  {a \in verdicts \X Coins :
            i < Len(query) /\ (~deferred \/ a[1] = "orphan") => a[2] = r.coins}

\* The round with its final reward (deferred), and its payouts once confirmed.
Processed(r, verdict, coins) ==
    LET R == IF deferred THEN [r EXCEPT !.coins = coins] ELSE r
    IN  IF deferred /\ verdict = "mature" THEN DistributeBlockReward(R) ELSE R

\* Mutant of PPSChange: the PPS part of an orphan is kept.
PPSChangeKept(R, verdict) == IF verdict = "mature" /\ deferred THEN R.pps ELSE 0

\* What the end of round R adds to PPSState.Balance.
PPSChange(R, verdict) ==
    IF verdict = "orphan" THEN -R.pps
    ELSE IF verdict = "mature" /\ deferred THEN R.pps ELSE 0

\* Mutant of KeepRound: the index stays behind.
KeepRoundNoIndex(R) ==
    /\ rounds' = [rounds EXCEPT ![it] = R]
    /\ it' = it + 1 /\ i' = i
    /\ batch' = IF R = rounds[it] THEN batch ELSE [batch EXCEPT !.put = Put([b \in {R.block} |-> R], @)]
    /\ UNCHANGED <<earned, pps, roundsDb, outcome>>

\* ENotConfirmed
KeepRound(R) ==
    /\ rounds' = [rounds EXCEPT ![it] = R]
    /\ it' = it + 1 /\ i' = i + 1
    /\ batch' = IF R = rounds[it] THEN batch ELSE [batch EXCEPT !.put = Put([b \in {R.block} |-> R], @)]
    /\ UNCHANGED <<earned, pps, roundsDb, outcome>>

\* Mutant of CloseRound: the index stays behind when a round is erased.
CloseRoundNoIndex(R, verdict) ==
    /\ rounds' = RemoveAt(rounds, it)
    /\ it' = it /\ i' = i
    /\ earned' = IF verdict = "orphan" THEN earned
                 ELSE [u \in Users |-> earned[u] + R.payouts[u]]
    /\ pps' = pps + PPSChange(R, verdict)
    /\ roundsDb' = [roundsDb EXCEPT ![R.block] = R]
    /\ batch' = [batch EXCEPT !.deleted = @ \cup {R.block}]
    /\ outcome' = [outcome EXCEPT ![R.block] = verdict]

\* EOrphan and EConfirmed: applyReward for every payout of a confirmed round.
CloseRound(R, verdict) ==
    /\ rounds' = RemoveAt(rounds, it)
    /\ it' = it /\ i' = i + 1
    /\ earned' = IF verdict = "orphan" THEN earned
                 ELSE [u \in Users |-> earned[u] + R.payouts[u]]
    /\ pps' = pps + PPSChange(R, verdict)
    /\ roundsDb' = [roundsDb EXCEPT ![R.block] = R]
    /\ batch' = [batch EXCEPT !.deleted = @ \cup {R.block}]
    /\ outcome' = [outcome EXCEPT ![R.block] = verdict]

\* The loop's body, for the round at `it'.
ProcessRound(verdict, coins) ==
    LET R == Processed(rounds[it], verdict, coins)
    IN  /\ pc \in {"query", "loop"} /\ it <= Len(rounds)
        /\ <<verdict, coins>> \in Answers(rounds[it])
        /\ pc' = "loop"
        /\ \/ verdict = "unconfirmed" /\ KeepRound(R)
           \/ verdict # "unconfirmed" /\ CloseRound(R, verdict)
        /\ UNCHANGED <<query, saved, foundDb, config, chain, crashes>>

SavedRounds ==
    LET rows == Put(batch.put, saved.rounds)
    IN  [b \in DOMAIN rows \ batch.deleted |-> rows[b]]

FinishCheck ==
    /\ pc = "loop" /\ it > Len(rounds)
    /\ NoCheck
    /\ saved' = [rounds |-> SavedRounds,
                 earned |-> earned,
                 pps |-> IF batch.deleted = {} THEN saved.pps ELSE pps]
    /\ UNCHANGED <<ledger, history, config, chain, outcome, crashes>>

----------------------------------------------------------------------------
(* The chain.                                                              *)

\* Every node sees block b under enough others, as a block or (Ethereum) as an
\* uncle, or no node will ever count it again.
ChainDecides(b) ==
    /\ chain[b] = "pending"
    /\ \E fate \in {"mature", "orphan"} \cup (IF deferred THEN {"uncle"} ELSE {}) :
          chain' = [chain EXCEPT ![b] = fate]
    /\ UNCHANGED <<ledger, check, saved, history, config, outcome, crashes>>

----------------------------------------------------------------------------
(* Crashes.                                                                *)

\* Mutant of Loaded: rounds are left in the database.
LoadedNone(rows) == <<>>

\* load() reads the rounds in the order of their keys.
Loaded(rows) ==
    LET keys == Ascending(DOMAIN rows)
    IN  [k \in DOMAIN keys |-> rows[keys[k]]]

Reload ==
    /\ crashes < MaxCrashes /\ crashes' = crashes + 1
    /\ rounds' = Loaded(saved.rounds) /\ earned' = saved.earned /\ pps' = saved.pps
    /\ NoCheck
    /\ outcome' = [b \in Blocks |-> IF b \in DOMAIN saved.rounds THEN "none" ELSE outcome[b]]

Restart ==
    /\ Reload
    /\ UNCHANGED <<saved, history, config, chain>>

\* The process dies in onBlockFound, before it has written the round.
RestartInOnBlockFound(b) ==
    /\ PutFoundBlock(b)
    /\ Reload
    /\ UNCHANGED <<saved, roundsDb, config>>

----------------------------------------------------------------------------

CheckStep ==
    \/ StartCheck \/ CheckFailed \/ FinishCheck
    \/ \E v \in Verdicts, c \in Coins : ProcessRound(v, c)

Next ==
    \/ CheckStep
    \/ \E b \in Blocks, c \in Coins, w \in Work : OnBlockFound(b, c, w)
    \/ \E p \in FeePlans : OnFeePlanUpdate(p)
    \/ \E b \in Blocks : ChainDecides(b) \/ RestartInOnBlockFound(b)
    \/ Restart

Spec == Init /\ [][Next]_vars

----------------------------------------------------------------------------
(* Properties.                                                             *)

IsRound(r) == r.block \in Blocks /\ r \in MiningRound

\* Type invariant of the rounds, the running check and the databases; the
\* index of the loop never runs ahead of the list (accounting.cpp,
\* checkBlockConfirmations).
TypeOK ==
    /\ deferred \in CoinKinds /\ plans \in FeePlans
    /\ \A k \in DOMAIN rounds : IsRound(rounds[k])
    /\ earned \in [Users -> Nat] /\ pps \in Nat
    /\ pc \in {"idle", "query", "loop"} /\ query \in Seq(Blocks)
    /\ i \in Nat /\ it \in 1 .. Len(rounds) + 1 /\ it <= i + 1
    /\ DOMAIN batch.put \subseteq Blocks /\ batch.deleted \subseteq Blocks
    /\ \A b \in DOMAIN saved.rounds : IsRound(saved.rounds[b]) /\ saved.rounds[b].block = b
    /\ saved.earned \in [Users -> Nat] /\ saved.pps \in Nat
    /\ foundDb \subseteq Blocks
    /\ \A b \in Blocks : roundsDb[b] # NoRound => IsRound(roundsDb[b])
    /\ chain \in [Blocks -> {"none", "pending", "mature", "uncle", "orphan"}]
    /\ outcome \in [Blocks -> {"none", "orphan", "mature"}]
    /\ crashes \in 0 .. MaxCrashes

Paid == {b \in Blocks : outcome[b] = "mature"}

\* Every coin the backend has given away is accounted for by a round: the users
\* have what the paid rounds of RoundsDb_ say, each of them once, and the PPS
\* account has its part of the paid and of the open rounds, not of orphans.
CoinsConserved ==
    /\ \A u \in Users :
          earned[u] = Total([b \in Paid |-> roundsDb[b].payouts[u]], Paid)
    /\ pps = Total([b \in Paid |-> roundsDb[b].pps], Paid)
                + Total([k \in DOMAIN rounds |-> rounds[k].pps], DOMAIN rounds)

SplitExactly(r) ==
    Total(r.work.shares, Users) > 0 => r.pps + Total(r.payouts, Users) = r.coins

\* "Correct payouts for use all available coins": the payouts of a paid round
\* and its PPS part add up to the reward of the block, whatever the shares, the
\* fee plans and the fees above 100% (distributeBlockReward).
RewardIsSplitExactly == \A b \in Paid : SplitExactly(roundsDb[b])

\* A round the check asked about is paid only when its block is mature, and
\* with deferred rewards dropped only when its block is an orphan or an uncle:
\* rounds opened or erased meanwhile do not shift the answers.
SettledByChain ==
    [][\A b \in Blocks :
          outcome'[b] # outcome[b] /\ crashes' = crashes /\ b \in Range(query) =>
              /\ outcome'[b] = "mature" => chain[b] \in {"mature", "uncle"}
              /\ outcome'[b] = "orphan" /\ deferred => chain[b] \in {"orphan", "uncle"}]_vars

\* "payments deferred to confirmation": the round of a coin with deferred
\* rewards is paid only when its block has been confirmed.
PaidOnlyMature == deferred => \A b \in Paid : chain[b] \in {"mature", "uncle"}

\* "-1 = orphan": a round that is closed as an orphan does not belong to a
\* block that stays in the chain.
OrphanIsFinal == \A b \in Blocks : outcome[b] = "orphan" => chain[b] # "mature"

\* "Mining rounds (one per found block)": a block in the found blocks database
\* has an open or a closed round.
OneRoundPerFoundBlock ==
    \A b \in foundDb : roundsDb[b] # NoRound \/ \E k \in DOMAIN rounds : rounds[k].block = b

\* The round of a block ends, whatever the node answers and whenever the
\* process restarts.
RoundsSettle ==
    \A b \in Blocks : b \in DOMAIN saved.rounds ~> outcome[b] # "none" /\ b \notin DOMAIN saved.rounds

\* The timer fires and its handler runs to its end (requests have timeouts),
\* the node answers again and again, and the chain decides about every block.
Fairness ==
    /\ WF_vars(CheckStep)
    /\ SF_vars(\E v \in Verdicts, c \in Coins : ProcessRound(v, c))
    /\ \A b \in Blocks : WF_vars(ChainDecides(b))

FairSpec == Spec /\ Fairness
=============================================================================
