----------------------------- MODULE MCJobQueue -----------------------------
(***************************************************************************)
(* Small instances of JobQueue for TLC.                                    *)
(***************************************************************************)
EXTENDS JobQueue, TLC

\* Workers are interchangeable, and so are the values of input_hash (jobs are
\* not: created_at orders them, although only after they are enqueued).
Symmetry == Permutations(Workers) \cup Permutations(Inputs)
WorkerSymmetry == Permutations(Workers)

=============================================================================
