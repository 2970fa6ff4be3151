----------------------------- MODULE MCScheduling ---------------------------
(* Values of SchedulingService's constants for TLC.                        *)
EXTENDS StatedClaims, TLC

\* Every slot clashes with every other one: interviews compete for people.
AllOverlap == Slots \X Slots

\* Slots clash only with themselves.
NoneOverlap == {<<s, s>> : s \in Slots}

Symmetric == Permutations(Interviewers) \cup Permutations(Requests) \cup Permutations(Threads)
=============================================================================
