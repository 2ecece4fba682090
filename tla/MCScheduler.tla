---------------------------- MODULE MCScheduler ----------------------------
(* Two tasks of different delay, one of them periodic. *)
EXTENDS Scheduler

MCDelay == [g \in {"once", "every"} |-> IF g = "once" THEN 2 ELSE 1]
=============================================================================
