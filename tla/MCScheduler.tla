---------------------------- MODULE MCScheduler -----------------------------
(* Instances of Scheduler for TLC: three repositories and two at a time, so    *)
(* that one waits for its turn.                                                *)
EXTENDS Scheduler

CONSTANTS r1, r2, r3, daily, hourly, h1, h2

Three == <<r1, r2, r3>>
First == {r1}

=============================================================================
