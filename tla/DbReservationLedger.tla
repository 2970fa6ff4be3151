------------------------- MODULE DbReservationLedger -------------------------
(***************************************************************************)
(* The durable ledger, backend/app/scheduling/providers/                   *)
(* db_reservation_ledger.py, under the assignment loop that calls it       *)
(* (fill_pending_seats of assignment.py), step by step: the mutex of one   *)
(* server process, the row lock of the database, the check, the insert and *)
(* the commits.                                                            *)
(*                                                                         *)
(* On PostgreSQL SELECT ... FOR UPDATE locks the interviewer's profile row *)
(* until the session commits or rolls back.  On SQLite it locks nothing,   *)
(* but one session at a time may have uncommitted writes, and the others   *)
(* fail with "database is locked" when they wait too long.                 *)
(*                                                                         *)
(* One handler at a time works on an interview here, and an interview      *)
(* keeps its time: SchedulingService is about the rest.                    *)
(***************************************************************************)
EXTENDS Integers

CONSTANTS
    Sessions,            \* request handlers and timer jobs, a session each
    Processes,           \* server processes, each with a _LOCKS table
    Interviewers,
    Interviews,
    PanelistsRequired,
    Clash,               \* interviews whose buffered times overlap
    Deployments,         \* [rowLocks |-> ..., process |-> ...]
    MaxHandlers,         \* bound on the assignments ever started
    NoSession, NoOne, NoInterview

SeatIndex == 0 .. PanelistsRequired - 1

\* rowLocks: PostgreSQL rather than SQLite; process: where each session runs.
\* SQLite serves one process ("correct within one process").
ASSUME LedgerAssumption ==
    /\ NoSession \notin Sessions
    /\ NoOne \notin Interviewers
    /\ NoInterview \notin Interviews
    /\ PanelistsRequired \in Nat \ {0}
    /\ MaxHandlers \in Nat
    /\ Deployments \subseteq [rowLocks : BOOLEAN, process : [Sessions -> Processes]]
    /\ \A d \in Deployments :
          d.rowLocks \/ \A s, u \in Sessions : d.process[s] = d.process[u]
    /\ \A v \in Interviews : <<v, v>> \in Clash
    /\ \A v, w \in Interviews : <<v, w>> \in Clash => <<w, v>> \in Clash

VARIABLES
    deployment,   \* where the service runs
    offers,       \* committed OFFERED rows
    roster,       \* committed confirmed panelists
    mutex,        \* _LOCKS of each process: the session inside, per interviewer
    rowLock,      \* the session whose transaction locked an InterviewerProfile
    sess,         \* what each session is doing
    started       \* number of assignments started so far

vars == <<deployment, offers, roster, mutex, rowLock, sess, started>>

Ledger == INSTANCE ReservationLedger WITH reservations <- offers \cup roster

Reservation == Ledger!Reservation

\* What is_free reads when the session has no changes of its own.
Booked == offers \cup roster

\* left are the holds this handler has given up: flushed at once, committed
\* with the session's next commit.  pool is feasible_ids_at_slot, lost the
\* candidates for the current seat who were taken between pick and reserve.
Session == [pc      : {"idle", "pick", "mutex", "row", "check", "insert",
                       "leave", "finish"},
            iv      : Interviews \cup {NoInterview},
            pending : SUBSET SeatIndex,
            pool    : SUBSET Interviewers,
            left    : SUBSET Reservation,
            lost    : SUBSET Interviewers,
            who     : Interviewers \cup {NoOne}]

Idle == [pc |-> "idle", iv |-> NoInterview, pending |-> {}, pool |-> {},
         left |-> {}, lost |-> {}, who |-> NoOne]

At(s, label) == sess[s].pc = label

Become(s, state) == sess' = [sess EXCEPT ![s] = state]

\* Somebody is working on interview v.
Busy(v) == \E s \in Sessions : sess[s].iv = v

\* The tables as session s sees them, its own flushed changes included.
View(s) == Booked \ sess[s].left

\* Session s has uncommitted writes in the offer or participant table.
Flushed(s) == sess[s].left \cap Booked # {}

\* SQLite lets session s write: no other session has uncommitted writes.
MayWrite(s) == deployment.rowLocks \/ \A u \in Sessions \ {s} : ~Flushed(u)

\* The mutex of interviewer i in the process session s runs in.
MutexOf(s, i) == mutex[deployment.process[s]][i]

SetMutex(s, i, holder) ==
    mutex' = [mutex EXCEPT ![deployment.process[s]] = [@ EXCEPT ![i] = holder]]

\* A commit or a rollback of sessions S drops their row locks.
WithoutLocks(S) ==
    [i \in Interviewers |-> IF rowLock[i] \in S THEN NoSession ELSE rowLock[i]]

-----------------------------------------------------------------------------
(* A handler's assignment                                                  *)

\* select_slot: every seat of a panel nobody is reserved for yet.
BeginAssignment(s, v, pool) ==
    /\ At(s, "idle")
    /\ started < MaxHandlers
    /\ ~Busy(v)
    /\ Ledger!OfInterview(v, Booked) = {}
    /\ started' = started + 1
    /\ Become(s, [Idle EXCEPT !.pc = "pick", !.iv = v, !.pending = SeatIndex,
                              !.pool = pool])
    /\ UNCHANGED <<deployment, offers, roster, mutex, rowLock>>

\* A decline, timed-out offers, or a confirmed interviewer backing out: their
\* holds are released, flushed but not committed, and the seats filled again.
BeginReplacement(s, v, pool, gone) ==
    /\ At(s, "idle")
    /\ started < MaxHandlers
    /\ ~Busy(v)
    /\ gone # {}
    /\ gone \subseteq Ledger!OfInterview(v, offers)
         \/ \E p \in Ledger!OfInterview(v, roster) : gone = {p}
    /\ MayWrite(s)
    /\ started' = started + 1
    /\ Become(s, [Idle EXCEPT !.pc = "pick", !.iv = v, !.pool = pool, !.left = gone,
                              !.pending = {h.seat : h \in gone}])
    /\ UNCHANGED <<deployment, offers, roster, mutex, rowLock>>

\* Seats are filled in index order.
IsNextSeat(s, k) ==
    /\ k \in sess[s].pending
    /\ \A j \in sess[s].pending : k <= j

\* Whom fill_pending_seats skips: who sits on this panel, who left this seat,
\* and who was lost to another session a moment ago.
Excluded(s, k) ==
    {h.who : h \in Ledger!OfInterview(sess[s].iv, View(s))}
      \cup {h.who : h \in {g \in sess[s].left : g.seat = k}}
      \cup sess[s].lost

Candidates(s, k) ==
    {i \in sess[s].pool \ Excluded(s, k) : Ledger!IsFree(i, sess[s].iv, View(s))}

\* The loop goes on with the next pending seat, or is through.
NextSeat(s, k) ==
    [sess[s] EXCEPT !.pc      = IF sess[s].pending = {k} THEN "finish" ELSE "pick",
                    !.pending = @ \ {k},
                    !.lost    = {},
                    !.who     = NoOne]

\* _pick_next found someone who is free.
Pick(s, k, i) ==
    /\ At(s, "pick")
    /\ IsNextSeat(s, k)
    /\ i \in Candidates(s, k)
    /\ Become(s, [sess[s] EXCEPT !.pc = "mutex", !.who = i])
    /\ UNCHANGED <<deployment, offers, roster, mutex, rowLock, started>>

\* _pick_next found nobody: the seat is exhausted.
GiveUp(s, k) ==
    /\ At(s, "pick")
    /\ IsNextSeat(s, k)
    /\ Candidates(s, k) = {}
    /\ Become(s, NextSeat(s, k))
    /\ UNCHANGED <<deployment, offers, roster, mutex, rowLock, started>>

-----------------------------------------------------------------------------
(* reserve()                                                               *)

\* A broken entry that ignores the mutex.
EnterUnlocked(s) ==
    /\ At(s, "mutex")
    /\ SetMutex(s, sess[s].who, s)
    /\ Become(s, [sess[s] EXCEPT !.pc = "row"])
    /\ UNCHANGED <<deployment, offers, roster, rowLock, started>>

\* with _lock_for(interviewer_id)
EnterMutex(s) ==
    /\ At(s, "mutex")
    /\ MutexOf(s, sess[s].who) = NoSession
    /\ SetMutex(s, sess[s].who, s)
    /\ Become(s, [sess[s] EXCEPT !.pc = "row"])
    /\ UNCHANGED <<deployment, offers, roster, rowLock, started>>

\* A broken query without with_for_update().
ReadRow(s) ==
    /\ At(s, "row")
    /\ Become(s, [sess[s] EXCEPT !.pc = "check"])
    /\ UNCHANGED <<deployment, offers, roster, mutex, rowLock, started>>

\* with_for_update(): waits for the row on PostgreSQL, does nothing on SQLite.
LockRow(s) ==
    LET i == sess[s].who
    IN  /\ At(s, "row")
        /\ \/ /\ deployment.rowLocks
              /\ rowLock[i] \in {NoSession, s}
              /\ rowLock' = [rowLock EXCEPT ![i] = s]
           \/ /\ ~deployment.rowLocks
              /\ UNCHANGED rowLock
        /\ Become(s, [sess[s] EXCEPT !.pc = "check"])
        /\ UNCHANGED <<deployment, offers, roster, mutex, started>>

\* A broken check that asks the offers only.
StillFreeOffersOnly(s) ==
    /\ At(s, "check")
    /\ Ledger!IsFree(sess[s].who, sess[s].iv, offers \ sess[s].left)
    /\ Become(s, [sess[s] EXCEPT !.pc = "insert"])
    /\ UNCHANGED <<deployment, offers, roster, mutex, rowLock, started>>

\* is_free() again, under the locks.
StillFree(s) ==
    /\ At(s, "check")
    /\ Ledger!IsFree(sess[s].who, sess[s].iv, View(s))
    /\ Become(s, [sess[s] EXCEPT !.pc = "insert"])
    /\ UNCHANGED <<deployment, offers, roster, mutex, rowLock, started>>

\* A broken way out that forgets to let go of the mutex.
LostRaceHolding(s) ==
    /\ At(s, "check")
    /\ ~Ledger!IsFree(sess[s].who, sess[s].iv, View(s))
    /\ Become(s, [sess[s] EXCEPT !.pc = "pick", !.lost = @ \cup {sess[s].who},
                                 !.who = NoOne])
    /\ UNCHANGED <<deployment, offers, roster, mutex, rowLock, started>>

\* ValueError: the mutex is released, the transaction and its row locks stay.
LostRace(s) ==
    /\ At(s, "check")
    /\ ~Ledger!IsFree(sess[s].who, sess[s].iv, View(s))
    /\ SetMutex(s, sess[s].who, NoSession)
    /\ Become(s, [sess[s] EXCEPT !.pc = "pick", !.lost = @ \cup {sess[s].who},
                                 !.who = NoOne])
    /\ UNCHANGED <<deployment, offers, roster, rowLock, started>>

\* The insert and its commit, still inside the mutex.
InsertOffer(s, k) ==
    /\ At(s, "insert")
    /\ IsNextSeat(s, k)
    /\ MayWrite(s)
    /\ offers' = (offers \ sess[s].left)
                   \cup {[iv |-> sess[s].iv, seat |-> k, who |-> sess[s].who]}
    /\ roster' = roster \ sess[s].left
    /\ rowLock' = WithoutLocks({s})
    /\ Become(s, [sess[s] EXCEPT !.pc = "leave"])
    /\ UNCHANGED <<deployment, mutex, started>>

\* reserve() returns; the seat is offered.
LeaveMutex(s, k) ==
    /\ At(s, "leave")
    /\ IsNextSeat(s, k)
    /\ SetMutex(s, sess[s].who, NoSession)
    /\ Become(s, NextSeat(s, k))
    /\ UNCHANGED <<deployment, offers, roster, rowLock, started>>

\* The handler's own commit.
Finish(s) ==
    /\ At(s, "finish")
    /\ MayWrite(s)
    /\ offers' = offers \ sess[s].left
    /\ roster' = roster \ sess[s].left
    /\ rowLock' = WithoutLocks({s})
    /\ Become(s, Idle)
    /\ UNCHANGED <<deployment, mutex, started>>

-----------------------------------------------------------------------------
(* Handlers that reserve nobody: one commit, no lock.                      *)

MayWriteNow(v) ==
    /\ ~Busy(v)
    /\ deployment.rowLocks \/ \A u \in Sessions : ~Flushed(u)

\* An accepted offer becomes a roster row.
AcceptOffer(o) ==
    /\ o \in offers
    /\ MayWriteNow(o.iv)
    /\ offers' = offers \ {o}
    /\ roster' = roster \cup {o}
    /\ UNCHANGED <<deployment, mutex, rowLock, sess, started>>

\* release_interview, when the candidate cancels.
CancelInterview(v) ==
    /\ MayWriteNow(v)
    /\ Ledger!OfInterview(v, Booked) # {}
    /\ offers' = offers \ Ledger!OfInterview(v, offers)
    /\ roster' = roster \ Ledger!OfInterview(v, roster)
    /\ UNCHANGED <<deployment, mutex, rowLock, sess, started>>

-----------------------------------------------------------------------------
(* Failures                                                                *)

\* Sessions S are gone: mutexes released, transactions rolled back.
Fail(S) ==
    /\ sess' = [s \in Sessions |-> IF s \in S THEN Idle ELSE sess[s]]
    /\ mutex' = [p \in Processes |-> [i \in Interviewers |->
                   IF mutex[p][i] \in S THEN NoSession ELSE mutex[p][i]]]
    /\ rowLock' = WithoutLocks(S)
    /\ UNCHANGED <<deployment, offers, roster, started>>

\* Session s waits for a row that session u has locked.
WaitsFor(s, u) == At(s, "row") /\ rowLock[sess[s].who] = u /\ u # s

\* PostgreSQL sees sessions waiting for one another's rows and fails one.
DeadlockVictim(s) ==
    /\ deployment.rowLocks
    /\ \E C \in SUBSET Sessions :
          /\ s \in C
          /\ \A t \in C : /\ \E u \in C : WaitsFor(t, u)
                          /\ \E u \in C : WaitsFor(u, t)
    /\ Fail({s})

\* SQLite: "database is locked".
WriteTimeout(s) ==
    /\ sess[s].pc \in {"insert", "finish"}
    /\ ~MayWrite(s)
    /\ Fail({s})

\* A server process dies.
Crash(p) ==
    /\ \E s \in Sessions : deployment.process[s] = p /\ ~At(s, "idle")
    /\ Fail({s \in Sessions : deployment.process[s] = p})

-----------------------------------------------------------------------------
Init ==
    /\ deployment \in Deployments
    /\ offers = {}
    /\ roster = {}
    /\ mutex = [p \in Processes |-> [i \in Interviewers |-> NoSession]]
    /\ rowLock = [i \in Interviewers |-> NoSession]
    /\ sess = [s \in Sessions |-> Idle]
    /\ started = 0

Begin(s) ==
    \E v \in Interviews, pool \in SUBSET Interviewers :
        \/ BeginAssignment(s, v, pool)
        \/ \E gone \in SUBSET Ledger!OfInterview(v, Booked) :
              BeginReplacement(s, v, pool, gone)

\* One step of an assignment that has begun.
Advance(s) ==
    \/ \E k \in SeatIndex, i \in Interviewers : Pick(s, k, i)
    \/ \E k \in SeatIndex : GiveUp(s, k) \/ InsertOffer(s, k) \/ LeaveMutex(s, k)
    \/ EnterMutex(s)
    \/ LockRow(s)
    \/ StillFree(s)
    \/ LostRace(s)
    \/ Finish(s)
    \/ DeadlockVictim(s)
    \/ WriteTimeout(s)

Next ==
    \/ \E s \in Sessions : Begin(s) \/ Advance(s)
    \/ \E o \in offers : AcceptOffer(o)
    \/ \E v \in Interviews : CancelInterview(v)
    \/ \E p \in Processes : Crash(p)

Spec == Init /\ [][Next]_vars

\* A handler that has begun runs on; so do the database's deadlock detector
\* and its lock timeout.  Nothing is assumed of who gets a lock first.
FairSpec == Spec /\ \A s \in Sessions : WF_vars(Advance(s))

-----------------------------------------------------------------------------
(* Properties                                                              *)

TypeOK ==
    /\ deployment \in Deployments
    /\ offers \subseteq Reservation
    /\ roster \subseteq Reservation
    /\ mutex \in [Processes -> [Interviewers -> Sessions \cup {NoSession}]]
    /\ rowLock \in [Interviewers -> Sessions \cup {NoSession}]
    /\ sess \in [Sessions -> Session]
    /\ started \in 0 .. MaxHandlers

Inside == {"row", "check", "insert", "leave"}

\* A session inside reserve() holds the mutex, and the row lock once it has
\* read the row; what it gave up belongs to its own interview.
HoldsItsLocks(s) ==
    /\ sess[s].left \subseteq Ledger!OfInterview(sess[s].iv, sess[s].left)
    /\ ~At(s, "idle") => sess[s].iv \in Interviews
    /\ sess[s].pc \in Inside \cup {"mutex"} => sess[s].who \in Interviewers
    /\ sess[s].pc \in Inside => MutexOf(s, sess[s].who) = s
    /\ sess[s].pc \in {"check", "insert"} /\ deployment.rowLocks =>
          rowLock[sess[s].who] = s

\* Between the check of reserve() and its commit nobody else can take the
\* person away: the two locks together close the race the module's docstring
\* tells of, in each kind of deployment.
CheckStaysTrue ==
    \A s \in Sessions : At(s, "insert") =>
        Ledger!IsFree(sess[s].who, sess[s].iv, View(s))

\* No person is held twice at overlapping times, in any deployment, whatever
\* sessions race, fail or die between the steps of reserve().
NeverDoubleHeld == Ledger!NeverDoubleHeld(Booked)

\* Nothing keeps a lock it no longer uses: a mutex belongs to a session that
\* is inside reserve() for that very person, in its own process, however
\* reserve() was left before; a row lock belongs to a handler that still runs.
NoLockLeftBehind ==
    \A i \in Interviewers, s \in Sessions :
        /\ \A p \in Processes : mutex[p][i] = s =>
              p = deployment.process[s] /\ sess[s].pc \in Inside /\ sess[s].who = i
        /\ rowLock[i] = s => ~At(s, "idle")

\* The inductive invariant.
LedgerInv ==
    /\ TypeOK
    /\ \A s \in Sessions : HoldsItsLocks(s)
    /\ CheckStaysTrue
    /\ NeverDoubleHeld

\* The durable ledger implements the in-memory one: seen through its
\* committed rows, every step is a reserve(), a release or nothing.
ImplementsLedger == Ledger!Spec

\* assignment.py:171-172: "Losing that race must cascade to the next-ranked
\* candidate, not crash this seat's whole assignment".  It never ends when the
\* loser's row lock and another session's mutex wait for one another.
AssignmentEnds ==
    \A s \in Sessions : ~At(s, "idle") ~> At(s, "idle")
=============================================================================
