------------------------------ MODULE MCPool ------------------------------
(* Constants for model checking Pool. *)
EXTENDS Pool, TLC

Symmetry == Permutations(Submitter) \cup Permutations(Worker)

Default ==
    [Nonblocking |-> FALSE, MaxBlockingTasks |-> 0, DisablePurge |-> FALSE,
     workerChanCap |-> 1]

\* GOMAXPROCS = 1: unbuffered task channels (pool.go:57-62).
Unbuffered == [Default EXCEPT !.workerChanCap = 0]

DefaultOptions == {Default}
SafetyOptions ==
    {Default, [Unbuffered EXCEPT !.MaxBlockingTasks = 1, !.DisablePurge = TRUE]}
LiveOptions == {Default, [Unbuffered EXCEPT !.Nonblocking = TRUE]}
=============================================================================
