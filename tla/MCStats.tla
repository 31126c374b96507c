------------------------------ MODULE MCStats ------------------------------
(* Small instances of Stats for TLC. *)
EXTENDS Stats

TwoGrids == <<2, 3>>

\* To find by TLC how ids fall back behind the name of a log file: one series,
\* batches that begin when they arrive, and crashes that leave the cells alone.
OneGrid == <<2>>
PlainSteps ==
    /\ received' # received => buffer'[Len(buffer')].begin = now
    /\ crashes' # crashes => history' = history /\ cache' = cache

\* What the code does not keep: a recent cell shows the logged work that the
\* history has in it.  Broken by a crash in the files of a flush (README.md).
RecentShowsHistory ==
    up = Up => \A s \in Series : \A c \in DOMAIN series[s].recent : \A m \in logged :
        history[s][c][m] > 0 => series[s].recent[c][m] > 0
=============================================================================
