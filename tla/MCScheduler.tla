---------------------------- MODULE MCScheduler ----------------------------
(***************************************************************************)
(* A small instance of Scheduler: a nightly run with a snapshot and a      *)
(* walk, and a weekly job of two runs with a walk each.                    *)
(***************************************************************************)
EXTENDS Scheduler

CONSTANTS nightly, weekly

MCRuns == [j \in Job |-> IF j = nightly THEN 1 ELSE 2]
MCWork == [j \in Job |-> IF j = nightly THEN <<"dump", "walk">> ELSE <<"walk">>]
=============================================================================
