------------------------------ MODULE MCLedger ------------------------------
(* Values of DbReservationLedger's constants for TLC.                      *)
EXTENDS DbReservationLedger, TLC

AllClash == Interviews \X Interviews

OneProcess == {f \in [Sessions -> Processes] : \A s, u \in Sessions : f[s] = f[u]}

Sqlite == [rowLocks : {FALSE}, process : OneProcess]
Postgres == [rowLocks : {TRUE}, process : [Sessions -> Processes]]
PostgresOneProcess == [rowLocks : {TRUE}, process : OneProcess]

EveryDeployment == Sqlite \cup Postgres

Symmetric == Permutations(Sessions) \cup Permutations(Processes)
               \cup Permutations(Interviewers) \cup Permutations(Interviews)
=============================================================================
