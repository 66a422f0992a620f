---------------------------- MODULE MCCrashGuard ----------------------------
(* CrashGuard with two modules, one of which crashes the page.              *)
EXTENDS CrashGuard

CONSTANTS a, b

\* Each step of the guard pauses something, so that no crash is spent on one that changes nothing, and the crash loop
\* ends: the instance whose settings crash the page is paused in the end (after_crash, to_pause).
StepsHelp == StepPauses /\ LoopEnds
=============================================================================
