-------------------------- MODULE MCUploadLifecycle --------------------------
(* Instances of UploadLifecycle for TLC. *)
EXTENDS UploadLifecycle, TLC

CONSTANTS w1, w2, h1, h2

OneWorker   == {w1}
TwoWorkers  == {w1, w2}
OneHandler  == {h1}
TwoHandlers == {h1, h2}

Symmetry == Permutations(Workers) \cup Permutations(Handlers)
\* Verdicts and rows are read by publications, deletions and cancellations only.
View == IF arriving \subseteq {"poll", "reprocess"}
        THEN <<batch, [r \in Runs |-> [run[r] EXCEPT !.verdict = "none"]], inflight, reproc, queue,
               pc, [t \in Threads |-> [loc[t] EXCEPT !.r.verdict = "none"]], crashes, arriving>>
        ELSE <<vars>>
=============================================================================
