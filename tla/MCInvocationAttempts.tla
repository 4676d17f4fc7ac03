----------------------- MODULE MCInvocationAttempts -----------------------
(* Small instances of InvocationAttempts for TLC. *)
EXTENDS InvocationAttempts, TLC

MCPriority == [j \in Jobs |-> j]

(* Job 1 has spent its budget after one attempt, job 2 has not. *)
MCMaxAttempts == [j \in Jobs |-> j]

(* Processes are interchangeable: they are only ever compared for equality. *)
WorkerSymmetry == Permutations(Workers)
=============================================================================
