---------------------------- MODULE MCGroupEngine ----------------------------
(* Instances of GroupEngine for TLC. *)
EXTENDS GroupEngine

Job(calls, n) == [program |-> calls, late |-> n]

\* Without early time limits, rounds enough for the store to reach its bound;
\* with them, rounds enough for one to be removed under a PE that lags behind.
SomeJobs ==
    {Job(<<"B", "B", "B", "B", "B">>, 0), Job(<<"G", "G", "G", "G", "B", "B">>, 0),
     Job(<<"G", "B", "G", "B", "B">>, 0), Job(<<"B", "B", "B", "B">>, 1),
     Job(<<"G", "G", "G", "B", "B">>, 1), Job(<<"B", "B">>, 2),
     Job(<<"G", "B", "B">>, 2)}
=============================================================================
