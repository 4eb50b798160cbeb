----------------------------- MODULE MCUsageStore -----------------------------
(***************************************************************************)
(* Small instances of UsageStore and Analytics for TLC.                    *)
(***************************************************************************)
EXTENDS Analytics

\* The network was always used, or not in the first slot after the install.
SomeUsages == {(1 .. MaxTime) \ {Installed + 1}}

Budget(polls, pushes, imports, changes, faults) ==
  [polls |-> polls, pushes |-> pushes, imports |-> imports, changes |-> changes,
   faults |-> faults]

\* The loop's rounds and an import, with a poll at every time or with a second
\* round; an import and the loop while retention is asked for; retention that is
\* asked for, and no longer asked for, next to the loop, with a fault; an import
\* while the daemon dies or fails.
SomeBudgets ==
  {Budget(4, 1, 1, 0, 0), Budget(1, 2, 1, 0, 0), Budget(2, 1, 1, 1, 0),
   Budget(4, 1, 0, 2, 1), Budget(4, 0, 1, 0, 1)}
=============================================================================
