------------------------- MODULE StratumWorkStorage -------------------------
(***************************************************************************)
(* The works of one thread of a stratum instance, as a value and operators *)
(* on it.  A single work belongs to one coin; a merged work lets miners    *)
(* work for a primary coin and all secondary coins at once and has a link  *)
(* to a single work of each of them.  A work is known by its stratum id.   *)
(***************************************************************************)
EXTENDS Aggregates, Sequences, SequencesExt

CONSTANTS
    Coins,             \* linked backends: numbers, in the order of the code's loops
    Instances,         \* configured stratum instances, see below
    ChainId,           \* coin that can be secondary -> its merged mining chain id
    WorksetSizeLimit,  \* works kept for one block of a coin
    NoShare            \* no pending share

ASSUME StorageAssumptions ==
    /\ Coins \subseteq Nat /\ IsFiniteSet(Coins)
    /\ \A i \in Instances : i.primary \in (SUBSET Coins) \ {{}} /\ i.secondary \subseteq DOMAIN ChainId
    /\ DOMAIN ChainId \subseteq Coins /\ \A c \in DOMAIN ChainId : ChainId[c] \in Nat
    /\ WorksetSizeLimit \in Nat \ {0}

NoWork == 0

\* The storage of an instance with the coins i.primary, which works can be built
\* on, and i.secondary, which are merge-mined.
EmptyStorage(i) ==
    [inst      |-> i,
     primary   |-> [c \in Coins |-> <<>>],     \* PrimaryWorkStorage_, ids
     secondary |-> [c \in Coins |-> <<>>],     \* SecondaryWorkStorage_
     merged    |-> [c \in Coins |-> <<>>],     \* MergedWorkStorage_
     work      |-> [id \in {} |-> NoWork],     \* the works that are allocated
     byId      |-> {},                         \* the ids in WorkIdMap_
     current   |-> NoWork,                     \* CurrentWork_
     known     |-> [c \in Coins |-> FALSE],    \* KnownWorkMap_
     accepted  |-> [c \in Coins |-> {}],       \* AcceptedShares_
     pending   |-> [c \in Coins |-> NoShare],  \* PendingShares_
     lastId    |-> 0]                          \* LastStratumId_

\* A work: the single work and the block of each coin, and the links that are
\* not null.  A single work is its own part.
CWork(part, block) == [part |-> part, block |-> block, live |-> DOMAIN part]
SingleWork(c, id, block) == CWork([d \in {c} |-> id], [d \in {c} |-> block])
CoinsOf(w) == DOMAIN w.part

\* The map f with y for x.
With(f, x, y) == [z \in DOMAIN f \cup {x} |-> IF z = x THEN y ELSE f[z]]

----------------------------------------------------------------------------
(* Where the secondary coins go in the tree of a merged work.              *)

\* Only the low bits of the 32-bit generator are used: 1103515245 and 12345
\* are 109 and 57 modulo 128, and there are at most 128 places.
ExpectedIndex(nonce, id, h) == (((nonce * 109 + 57 + id) * 109) + 57) % (2 ^ h)

MerklePathSize(n) == CHOOSE h \in 0 .. 7 : 2 ^ h >= n /\ (h = 0 \/ 2 ^ (h - 1) < n)

\* buildChainMap finds a size of the tree and a nonce without collisions.
HasChainMap(coins) ==
    \E h \in MerklePathSize(Cardinality(coins)) .. 7 : \E nonce \in 0 .. 2 ^ h - 1 :
        IsInjective([c \in coins |-> ExpectedIndex(nonce, ChainId[c], h)])

Mergeable == {coins \in SUBSET DOMAIN ChainId : coins # {} /\ HasChainMap(coins)}

----------------------------------------------------------------------------

\* Mutant of Unlink: the destructor of a single work forgets the merged works.
UnlinkNot(w, ids) == w

\* ~StratumSingleWork and removeLink: the works `ids' are gone.
Unlink(w, ids) == [w EXCEPT !.live = {c \in @ : w.part[c] \notin ids}]

\* Delete the first n works of a sequence and forget them: eraseFirst n times,
\* or the deletions of eraseAll.
Erase(s, seq, c, n) ==
    LET ids == Range(SubSeq(s[seq][c], 1, n))
    IN  [s EXCEPT ![seq][c] = SubSeq(@, n + 1, Len(@)),
                  !.work = [id \in DOMAIN @ \ ids |-> Unlink(@[id], ids)],
                  !.byId = @ \ ids,
                  !.current = IF @ \in ids THEN NoWork ELSE @]

\* eraseAll, for the first work of a new block of coin c.
NewBlock(s, seq, c) ==
    [Erase(s, seq, c, Len(s[seq][c])) EXCEPT
        !.known[c] = FALSE, !.accepted[c] = {}, !.pending[c] = NoShare]

\* Work w, under the next id, is the newest one of a sequence.
Push(s, seq, c, w) ==
    LET id == s.lastId + 1
    IN  [s EXCEPT ![seq][c] = Append(@, id), !.work = With(@, id, w), !.byId = @ \cup {id},
                  !.lastId = id]

\* pushSingleWork; seq is "primary" or "secondary".
PushSingleWork(s, seq, c, b) ==
    LET old == s[seq][c]
        s1 == IF old # <<>> /\ s.work[Last(old)].block[c] # b THEN NewBlock(s, seq, c) ELSE s
        s2 == Push(s1, seq, c, SingleWork(c, s.lastId + 1, b))
    IN  Erase(s2, seq, c, Max({0, Len(s2[seq][c]) - WorksetSizeLimit}))

\* newMergedWork with the newest works of p and the secondary coins, and
\* pushMergedWork; works without any link left are dropped from the front.
PushMergedWork(s, p) ==
    LET others == {c \in s.inst.secondary \ {p} : s.secondary[c] # <<>>}
        part == [c \in {p} \cup others |-> Last(IF c = p THEN s.primary[c] ELSE s.secondary[c])]
        s1 == Push(s, "merged", p, CWork(part, [c \in DOMAIN part |-> s.work[part[c]].block[c]]))
        first == Min({k \in DOMAIN s1.merged[p] : s1.work[s1.merged[p][k]].live # {}})
    IN  IF others \in Mergeable THEN Erase(s1, "merged", p, first - 1) ELSE s

\* Mutant of UpdateMerged: a new secondary work waits for the next primary one.
UpdateMergedNot(s) == s

\* A new work of a secondary coin renews the merged work of every primary coin.
Renew(s, p) == IF s.primary[p] = <<>> THEN s ELSE PushMergedWork(s, p)

UpdateMerged(s) ==
    LET p == Ascending(s.inst.primary)
        after[k \in 0 .. Len(p)] == IF k = 0 THEN s ELSE Renew(after[k - 1], p[k])
    IN  after[Len(p)]

\* createWork for a template of block b of coin c.
CreateWork(s, c, b) ==
    LET s1 == IF c \in s.inst.primary
              THEN PushMergedWork(PushSingleWork(s, "primary", c, b), c) ELSE s
    IN  IF c \in s.inst.secondary
        THEN UpdateMerged(PushSingleWork(s1, "secondary", c, b)) ELSE s1

\* fetchWork; every work says of itself that it is ready.
FetchWork(s, c) ==
    IF s.merged[c] # <<>> THEN Last(s.merged[c])
    ELSE IF s.primary[c] # <<>> THEN Last(s.primary[c]) ELSE NoWork

\* Mutant of IsDuplicate: the share has to be known for all coins of the work.
IsDuplicateForAll(s, id, hash) == \A c \in CoinsOf(s.work[id]) : hash \in s.accepted[c]

\* isDuplicate, which also remembers the share for every coin of the work.
IsDuplicate(s, id, hash) == \E c \in CoinsOf(s.work[id]) : hash \in s.accepted[c]

Remember(s, id, hash) ==
    [s EXCEPT !.accepted = [c \in Coins |-> IF c \in CoinsOf(s.work[id]) THEN @[c] \cup {hash} ELSE @[c]]]

\* updatePending: a share on work `id' becomes the pending one of the coins `pend'.
UpdatePending(s, pend, id, share) ==
    [s EXCEPT !.pending = [c \in Coins |-> IF c \in pend THEN [id |-> id, share |-> share] ELSE @[c]]]
=============================================================================
