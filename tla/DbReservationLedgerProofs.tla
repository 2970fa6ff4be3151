---------------------- MODULE DbReservationLedgerProofs ----------------------
(***************************************************************************)
(* The durable ledger keeps its locks in order, holds nobody twice and     *)
(* implements the in-memory ledger, for any number of sessions, processes, *)
(* interviewers, interviews and seats and in every kind of deployment.     *)
(***************************************************************************)
EXTENDS DbReservationLedger, TLAPS

USE LedgerAssumption

LInv == LedgerInv /\ NoLockLeftBehind

-----------------------------------------------------------------------------
(* Reservations                                                            *)

\* Who is free stays free when there are fewer reservations.
LEMMA FewerBlock ==
    ASSUME NEW held, NEW fewer \in SUBSET held, NEW i, NEW v, Ledger!IsFree(i, v, held)
    PROVE  Ledger!IsFree(i, v, fewer)
BY DEF Ledger!IsFree

\* A reservation of someone who is free double-books nobody.
LEMMA AddFree ==
    ASSUME NEW held \in SUBSET Reservation, Ledger!NeverDoubleHeld(held),
           NEW h \in Reservation, Ledger!IsFree(h.who, h.iv, held)
    PROVE  Ledger!NeverDoubleHeld(held \cup {h})
<1> SUFFICES ASSUME NEW a \in held \cup {h}, NEW b \in held \cup {h},
                    a.who = b.who, <<a.iv, b.iv>> \in Clash
             PROVE  a = b
    BY DEF Ledger!NeverDoubleHeld
<1>1. a.iv \in Interviews /\ b.iv \in Interviews
    BY DEF Reservation, Ledger!Reservation
<1>2. <<b.iv, a.iv>> \in Clash
    BY <1>1
<1>. QED BY <1>2 DEF Ledger!NeverDoubleHeld, Ledger!IsFree

-----------------------------------------------------------------------------
(* Steps of one session that add no reservation.  What has to be shown of  *)
(* such a step is about the session itself: its record, its locks and, on  *)
(* its way to the insert, the check.                                       *)

LEMMA SessionStep ==
    ASSUME LInv, NEW s \in Sessions, NEW new \in Session, Become(s, new),
           deployment' = deployment,
           offers' \in SUBSET offers, roster' \in SUBSET roster,
           started' \in 0 .. MaxHandlers,
           mutex' \in [Processes -> [Interviewers -> Sessions \cup {NoSession}]],
           rowLock' \in [Interviewers -> Sessions \cup {NoSession}],
           \A t \in Sessions \ {s}, i \in Interviewers :
               /\ \A p \in Processes : mutex'[p][i] = t <=> mutex[p][i] = t
               /\ rowLock'[i] = t <=> rowLock[i] = t,
           HoldsItsLocks(s)',
           new.pc = "insert" => Ledger!IsFree(new.who, new.iv, Booked' \ new.left),
           \A i \in Interviewers :
               /\ \A p \in Processes : mutex'[p][i] = s =>
                     p = deployment.process[s] /\ new.pc \in Inside /\ new.who = i
               /\ rowLock'[i] = s => new.pc # "idle"
    PROVE  LInv'
<1>. USE DEF LInv, LedgerInv
<1>1. /\ sess'[s] = new
      /\ \A t \in Sessions \ {s} : sess'[t] = sess[t]
      /\ sess' \in [Sessions -> Session]
    BY DEF Become, TypeOK
<1>2. TypeOK'
    BY <1>1 DEF TypeOK
<1>3. deployment.process \in [Sessions -> Processes]
    BY DEF TypeOK
<1>4. ASSUME NEW t \in Sessions
      PROVE  HoldsItsLocks(t)'
    <2>1. CASE t = s
        BY <2>1
    <2>2. CASE t # s
        <3>1. HoldsItsLocks(t) /\ sess'[t] = sess[t]
            BY <1>1, <2>2
        <3>. QED BY <2>2, <3>1, <1>3 DEF HoldsItsLocks, At, MutexOf, Inside
    <2>. QED BY <2>1, <2>2
<1>5. CheckStaysTrue'
    <2>1. SUFFICES ASSUME NEW t \in Sessions, sess'[t].pc = "insert"
                   PROVE  Ledger!IsFree(sess'[t].who, sess'[t].iv, Booked' \ sess'[t].left)
        BY DEF CheckStaysTrue, At, View, Ledger!IsFree, Booked
    <2>2. CASE t = s
        BY <1>1, <2>1, <2>2
    <2>3. CASE t # s
        <3>1. Ledger!IsFree(sess[t].who, sess[t].iv, Booked \ sess[t].left)
            BY <1>1, <2>1, <2>3 DEF CheckStaysTrue, At, View
        <3>2. Booked' \ sess[t].left \in SUBSET (Booked \ sess[t].left)
            BY DEF Booked
        <3>3. Ledger!IsFree(sess[t].who, sess[t].iv, Booked' \ sess[t].left)
            BY <3>1, <3>2, FewerBlock
        <3>. QED BY <1>1, <2>3, <3>3
    <2>. QED BY <2>2, <2>3
<1>6. NeverDoubleHeld'
    BY DEF NeverDoubleHeld, Ledger!NeverDoubleHeld, Booked
<1>7. NoLockLeftBehind'
    <2>1. SUFFICES ASSUME NEW i \in Interviewers, NEW t \in Sessions
                   PROVE  /\ \A p \in Processes : mutex'[p][i] = t =>
                                /\ p = deployment.process[t]
                                /\ sess'[t].pc \in Inside
                                /\ sess'[t].who = i
                          /\ rowLock'[i] = t => sess'[t].pc # "idle"
        BY DEF NoLockLeftBehind, At, Inside
    <2>2. CASE t = s
        BY <1>1, <2>2
    <2>3. CASE t # s
        BY <1>1, <2>3 DEF NoLockLeftBehind, At
    <2>. QED BY <2>2, <2>3
<1>. QED BY <1>2, <1>4, <1>5, <1>6, <1>7

-----------------------------------------------------------------------------
(* The loop of fill_pending_seats                                          *)

\* What a session's record is made of.
LEMMA SessionTyped ==
    ASSUME TypeOK, NEW s \in Sessions
    PROVE  /\ sess[s] \in Session
           /\ sess[s].left \subseteq Reservation
           /\ deployment.process[s] \in Processes
           /\ Idle \in Session
BY DEF TypeOK, Session, Idle

LEMMA BeginStep ==
    ASSUME LInv, NEW s \in Sessions, Begin(s)
    PROVE  LInv'
<1>. USE DEF LInv, LedgerInv
<1>1. PICK v \in Interviews, pool \in SUBSET Interviewers :
         \/ BeginAssignment(s, v, pool)
         \/ \E gone \in SUBSET Ledger!OfInterview(v, Booked) :
               BeginReplacement(s, v, pool, gone)
    BY DEF Begin
<1>2. PICK new \in Session :
         /\ Become(s, new)
         /\ new.pc = "pick"
         /\ new.iv = v
         /\ new.left \subseteq Ledger!OfInterview(v, Booked)
         /\ At(s, "idle")
         /\ started < MaxHandlers /\ started' = started + 1
         /\ UNCHANGED <<deployment, offers, roster, mutex, rowLock>>
    <2>1. CASE BeginAssignment(s, v, pool)
        <3> DEFINE new == [Idle EXCEPT !.pc = "pick", !.iv = v, !.pending = SeatIndex,
                                       !.pool = pool]
        <3>1. new \in Session /\ new.pc = "pick" /\ new.iv = v /\ new.left = {}
            BY DEF Idle, Session
        <3>2. Become(s, new)
            BY <2>1 DEF BeginAssignment
        <3>. HIDE DEF new
        <3>. QED BY <2>1, <3>1, <3>2 DEF BeginAssignment
    <2>2. CASE \E gone \in SUBSET Ledger!OfInterview(v, Booked) :
                  BeginReplacement(s, v, pool, gone)
        <3>1. PICK gone \in SUBSET Ledger!OfInterview(v, Booked) :
                 BeginReplacement(s, v, pool, gone)
            BY <2>2
        <3> DEFINE seats == {h.seat : h \in gone}
                   new   == [Idle EXCEPT !.pc = "pick", !.iv = v, !.pool = pool,
                                         !.left = gone, !.pending = seats]
        <3>2. gone \subseteq Reservation
            BY DEF Ledger!OfInterview, Booked, TypeOK
        <3>3. seats \subseteq SeatIndex
            BY <3>2 DEF Reservation, Ledger!Reservation
        <3>4. Become(s, new)
            BY <3>1 DEF BeginReplacement
        <3>. HIDE DEF seats
        <3>5. new \in Session /\ new.pc = "pick" /\ new.iv = v /\ new.left = gone
            BY <3>2, <3>3 DEF Idle, Session
        <3>. HIDE DEF new
        <3>. QED BY <3>1, <3>4, <3>5 DEF BeginReplacement
    <2>. QED BY <1>1, <2>1, <2>2
<1>3. started' \in 0 .. MaxHandlers
    BY <1>2 DEF TypeOK
<1>4. \A i \in Interviewers :
         /\ \A p \in Processes : mutex[p][i] # s
         /\ rowLock[i] # s
    BY <1>2 DEF NoLockLeftBehind, Inside, At
<1>5. sess'[s] = new
    BY <1>2 DEF Become, TypeOK
<1>6. HoldsItsLocks(s)'
    BY <1>2, <1>5 DEF HoldsItsLocks, Inside, At, Ledger!OfInterview
<1>. QED BY <1>2, <1>3, <1>4, <1>6, SessionStep DEF TypeOK

\* Pick and GiveUp touch no lock: the session was not inside reserve().
LEMMA PickStep ==
    ASSUME LInv, NEW s \in Sessions, NEW k \in SeatIndex,
           (\E i \in Interviewers : Pick(s, k, i)) \/ GiveUp(s, k)
    PROVE  LInv'
<1>. USE DEF LInv, LedgerInv
<1>1. /\ UNCHANGED <<deployment, offers, roster, mutex, rowLock, started>>
      /\ At(s, "pick")
    BY DEF Pick, GiveUp
<1>2. \A j \in Interviewers, p \in Processes : mutex[p][j] # s
    BY <1>1 DEF NoLockLeftBehind, Inside, At
<1>3. /\ sess[s] \in Session
      /\ sess[s].iv \in Interviews \cup {NoInterview}
    BY SessionTyped DEF Session
<1>4. ASSUME NEW i \in Interviewers, Pick(s, k, i)
      PROVE  LInv'
    <2> DEFINE new == [sess[s] EXCEPT !.pc = "mutex", !.who = i]
    <2>1. /\ new \in Session
          /\ Become(s, new)
          /\ new.pc = "mutex"
          /\ new.who = i
          /\ new.iv = sess[s].iv
          /\ new.left = sess[s].left
        BY <1>3, <1>4 DEF Pick, Session
    <2>2. sess'[s] = new
        BY <2>1 DEF Become, TypeOK
    <2>. HIDE DEF new
    <2>3. HoldsItsLocks(s)'
        BY <1>1, <2>1, <2>2 DEF HoldsItsLocks, Inside, At, Ledger!OfInterview
    <2>. QED BY <1>1, <1>2, <2>1, <2>3, SessionStep DEF TypeOK
<1>5. CASE GiveUp(s, k)
    <2> DEFINE new == NextSeat(s, k)
    <2>1. /\ new \in Session
          /\ Become(s, new)
          /\ new.pc \in {"pick", "finish"}
          /\ new.iv = sess[s].iv
          /\ new.left = sess[s].left
        BY <1>3, <1>5 DEF GiveUp, NextSeat, Session
    <2>2. sess'[s] = new
        BY <2>1 DEF Become, TypeOK
    <2>. HIDE DEF new
    <2>3. HoldsItsLocks(s)'
        BY <1>1, <2>1, <2>2 DEF HoldsItsLocks, Inside, At, Ledger!OfInterview
    <2>. QED BY <1>1, <1>2, <2>1, <2>3, SessionStep DEF TypeOK
<1>. QED BY <1>4, <1>5

-----------------------------------------------------------------------------
(* reserve()                                                               *)

\* The mutex is taken when nobody is inside.
LEMMA EnterMutexStep ==
    ASSUME LInv, NEW s \in Sessions, EnterMutex(s)
    PROVE  LInv'
<1>. USE DEF LInv, LedgerInv
<1> DEFINE new == [sess[s] EXCEPT !.pc = "row"]
           i   == sess[s].who
           d   == deployment.process[s]
<1>1. /\ At(s, "mutex")
      /\ mutex[d][i] = NoSession
      /\ mutex' = [mutex EXCEPT ![d] = [@ EXCEPT ![i] = s]]
      /\ Become(s, new)
      /\ UNCHANGED <<deployment, offers, roster, rowLock, started>>
    BY DEF EnterMutex, SetMutex, MutexOf
<1>2. /\ i \in Interviewers /\ d \in Processes
      /\ sess[s].iv \in Interviews
      /\ \A j \in Interviewers, p \in Processes : mutex[p][j] # s
    BY <1>1, SessionTyped DEF HoldsItsLocks, At, NoLockLeftBehind, Inside
<1>3. /\ new \in Session
      /\ new.pc = "row" /\ new.who = i
      /\ new.iv = sess[s].iv /\ new.left = sess[s].left
    BY SessionTyped DEF Session
<1>4. sess'[s] = new
    BY <1>1 DEF Become, TypeOK
<1>5. /\ mutex' \in [Processes -> [Interviewers -> Sessions \cup {NoSession}]]
      /\ mutex'[d][i] = s
      /\ \A p \in Processes, j \in Interviewers :
            p # d \/ j # i => mutex'[p][j] = mutex[p][j]
    BY <1>1, <1>2 DEF TypeOK
<1>. HIDE DEF new
<1>6. HoldsItsLocks(s)'
    BY <1>1, <1>2, <1>3, <1>4, <1>5
    DEF HoldsItsLocks, At, Inside, MutexOf, Ledger!OfInterview
<1>7. \A t \in Sessions \ {s}, j \in Interviewers :
         /\ \A p \in Processes : mutex'[p][j] = t <=> mutex[p][j] = t
         /\ rowLock'[j] = t <=> rowLock[j] = t
    BY <1>1, <1>5
<1>8. \A j \in Interviewers :
         /\ \A p \in Processes : mutex'[p][j] = s =>
               p = d /\ new.pc \in Inside /\ new.who = j
         /\ rowLock'[j] = s => new.pc # "idle"
    BY <1>2, <1>3, <1>5 DEF Inside
<1>. QED BY <1>1, <1>3, <1>5, <1>6, <1>7, <1>8, SessionStep DEF TypeOK

\* The row lock is taken when nobody holds it; on SQLite there is none.
LEMMA LockRowStep ==
    ASSUME LInv, NEW s \in Sessions, LockRow(s)
    PROVE  LInv'
<1>. USE DEF LInv, LedgerInv
<1> DEFINE new == [sess[s] EXCEPT !.pc = "check"]
           i   == sess[s].who
<1>1. /\ At(s, "row")
      /\ Become(s, new)
      /\ UNCHANGED <<deployment, offers, roster, mutex, started>>
    BY DEF LockRow
<1>2. /\ i \in Interviewers
      /\ sess[s].iv \in Interviews
    BY <1>1 DEF HoldsItsLocks, At, Inside
<1>3. /\ new \in Session
      /\ new.pc = "check" /\ new.who = i
      /\ new.iv = sess[s].iv /\ new.left = sess[s].left
    BY SessionTyped DEF Session
<1>4. sess'[s] = new
    BY <1>1 DEF Become, TypeOK
<1>. HIDE DEF new
<1>5. /\ rowLock' \in [Interviewers -> Sessions \cup {NoSession}]
      /\ deployment.rowLocks => rowLock'[i] = s
      /\ \A t \in Sessions \ {s}, j \in Interviewers : rowLock'[j] = t <=> rowLock[j] = t
    <2>1. CASE /\ deployment.rowLocks
               /\ rowLock[i] \in {NoSession, s}
               /\ rowLock' = [rowLock EXCEPT ![i] = s]
        BY <1>2, <2>1 DEF TypeOK
    <2>2. CASE ~deployment.rowLocks /\ UNCHANGED rowLock
        BY <2>2 DEF TypeOK
    <2>. QED BY <2>1, <2>2 DEF LockRow
<1>6. HoldsItsLocks(s)'
    BY <1>1, <1>2, <1>3, <1>4, <1>5
    DEF HoldsItsLocks, At, Inside, MutexOf, Ledger!OfInterview
<1>7. \A j \in Interviewers :
         /\ \A p \in Processes : mutex'[p][j] = s =>
               p = deployment.process[s] /\ new.pc \in Inside /\ new.who = j
         /\ rowLock'[j] = s => new.pc # "idle"
    BY <1>1, <1>3 DEF NoLockLeftBehind, Inside
<1>8. \A t \in Sessions \ {s}, j \in Interviewers :
         /\ \A p \in Processes : mutex'[p][j] = t <=> mutex[p][j] = t
         /\ rowLock'[j] = t <=> rowLock[j] = t
    BY <1>1, <1>5
<1>9. /\ deployment' = deployment /\ started' \in 0 .. MaxHandlers
      /\ offers' \in SUBSET offers /\ roster' \in SUBSET roster
      /\ mutex' \in [Processes -> [Interviewers -> Sessions \cup {NoSession}]]
    BY <1>1 DEF TypeOK
<1>. QED BY <1>1, <1>3, <1>5, <1>6, <1>7, <1>8, <1>9, SessionStep

\* The check found the interviewer free.
LEMMA StillFreeStep ==
    ASSUME LInv, NEW s \in Sessions, StillFree(s)
    PROVE  LInv'
<1>. USE DEF LInv, LedgerInv
<1> DEFINE new == [sess[s] EXCEPT !.pc = "insert"]
<1>1. /\ At(s, "check")
      /\ Ledger!IsFree(sess[s].who, sess[s].iv, Booked \ sess[s].left)
      /\ Become(s, new)
      /\ UNCHANGED <<deployment, offers, roster, mutex, rowLock, started>>
      /\ Booked' = Booked
    BY DEF StillFree, View, Booked
<1>2. /\ new \in Session
      /\ new.pc = "insert" /\ new.who = sess[s].who
      /\ new.iv = sess[s].iv /\ new.left = sess[s].left
    BY SessionTyped DEF Session
<1>3. sess'[s] = new
    BY <1>1 DEF Become, TypeOK
<1>. HIDE DEF new
<1>4. HoldsItsLocks(s)'
    BY <1>1, <1>2, <1>3 DEF HoldsItsLocks, At, Inside, MutexOf, Ledger!OfInterview
<1>5. \A j \in Interviewers, p \in Processes : mutex[p][j] = s =>
         p = deployment.process[s] /\ j = sess[s].who
    BY <1>1 DEF NoLockLeftBehind
<1>. QED BY <1>1, <1>2, <1>4, <1>5, SessionStep DEF TypeOK, Inside

\* Leaving reserve(), after a lost race or a reservation, frees the mutex
\* that the session holds, and no other.
LEMMA LeaveStep ==
    ASSUME LInv, NEW s \in Sessions,
           LostRace(s) \/ \E k \in SeatIndex : LeaveMutex(s, k)
    PROVE  LInv'
<1>. USE DEF LInv, LedgerInv
<1> DEFINE i == sess[s].who
           d == deployment.process[s]
<1>1. /\ sess[s].pc \in {"check", "leave"}
      /\ mutex' = [mutex EXCEPT ![d] = [@ EXCEPT ![i] = NoSession]]
      /\ UNCHANGED <<deployment, offers, roster, rowLock, started>>
    BY DEF LostRace, LeaveMutex, SetMutex, At
<1>2. /\ i \in Interviewers /\ d \in Processes
      /\ sess[s].iv \in Interviews
      /\ mutex[d][i] = s
      /\ \A p \in Processes, j \in Interviewers : mutex[p][j] = s => p = d /\ j = i
    BY <1>1, SessionTyped DEF HoldsItsLocks, At, MutexOf, NoLockLeftBehind, Inside
<1>3. PICK new \in Session :
         /\ Become(s, new)
         /\ new.pc \in {"pick", "finish"}
         /\ new.iv = sess[s].iv /\ new.left = sess[s].left
    <2>1. CASE LostRace(s)
        <3> DEFINE lost == sess[s].lost \cup {sess[s].who}
                   new  == [sess[s] EXCEPT !.pc = "pick", !.lost = lost, !.who = NoOne]
        <3>1. lost \in SUBSET Interviewers
            BY <1>2, SessionTyped DEF Session
        <3>2. Become(s, new)
            BY <2>1 DEF LostRace
        <3>. HIDE DEF lost
        <3>3. /\ new \in Session
              /\ new.pc = "pick"
              /\ new.iv = sess[s].iv /\ new.left = sess[s].left
            BY <3>1, SessionTyped DEF Session
        <3>. HIDE DEF new
        <3>. QED BY <3>2, <3>3
    <2>2. CASE \E k \in SeatIndex : LeaveMutex(s, k)
        <3>1. PICK k \in SeatIndex : LeaveMutex(s, k)
            BY <2>2
        <3> DEFINE new == NextSeat(s, k)
        <3>2. /\ new \in Session
              /\ new.pc \in {"pick", "finish"}
              /\ new.iv = sess[s].iv /\ new.left = sess[s].left
            BY SessionTyped DEF Session, NextSeat
        <3>. QED BY <3>1, <3>2 DEF LeaveMutex
    <2>. QED BY <2>1, <2>2
<1>4. sess'[s] = new
    BY <1>3 DEF Become, TypeOK
<1>5. /\ mutex' \in [Processes -> [Interviewers -> Sessions \cup {NoSession}]]
      /\ mutex'[d][i] = NoSession
      /\ \A p \in Processes, j \in Interviewers :
            p # d \/ j # i => mutex'[p][j] = mutex[p][j]
    BY <1>1, <1>2 DEF TypeOK
<1>6. HoldsItsLocks(s)'
    BY <1>1, <1>2, <1>3, <1>4 DEF HoldsItsLocks, At, Inside, Ledger!OfInterview
<1>7. \A t \in Sessions \ {s}, j \in Interviewers :
         /\ \A p \in Processes : mutex'[p][j] = t <=> mutex[p][j] = t
         /\ rowLock'[j] = t <=> rowLock[j] = t
    BY <1>1, <1>2, <1>5
<1>8. \A j \in Interviewers : \A p \in Processes : mutex'[p][j] # s
    BY <1>2, <1>5
<1>. QED BY <1>1, <1>3, <1>5, <1>6, <1>7, <1>8, SessionStep DEF TypeOK

\* The handler's own commit: what it gave up is gone, and so are its locks.
LEMMA FinishStep ==
    ASSUME LInv, NEW s \in Sessions, Finish(s)
    PROVE  LInv'
<1>. USE DEF LInv, LedgerInv
<1>1. /\ At(s, "finish")
      /\ Become(s, Idle)
      /\ rowLock' = WithoutLocks({s})
      /\ UNCHANGED <<deployment, mutex, started>>
    BY DEF Finish
<1>2. sess'[s] = Idle /\ Idle \in Session
    BY <1>1, SessionTyped DEF Become, TypeOK
<1>3. /\ deployment' = deployment /\ started' \in 0 .. MaxHandlers
      /\ offers' \in SUBSET offers /\ roster' \in SUBSET roster
      /\ mutex' \in [Processes -> [Interviewers -> Sessions \cup {NoSession}]]
      /\ rowLock' \in [Interviewers -> Sessions \cup {NoSession}]
    BY <1>1 DEF Finish, WithoutLocks, TypeOK
<1>4. HoldsItsLocks(s)'
    BY <1>2 DEF HoldsItsLocks, At, Inside, Idle, Ledger!OfInterview
<1>5. \A t \in Sessions \ {s}, j \in Interviewers :
         /\ \A p \in Processes : mutex'[p][j] = t <=> mutex[p][j] = t
         /\ rowLock'[j] = t <=> rowLock[j] = t
    BY <1>1 DEF WithoutLocks
<1>6. \A j \in Interviewers :
         /\ \A p \in Processes : mutex'[p][j] = s =>
               p = deployment.process[s] /\ Idle.pc \in Inside /\ Idle.who = j
         /\ rowLock'[j] = s => Idle.pc # "idle"
    BY <1>1 DEF WithoutLocks, NoLockLeftBehind, At, Inside
<1>7. Idle.pc # "insert"
    BY DEF Idle
<1>. QED BY <1>1, <1>2, <1>3, <1>4, <1>5, <1>6, <1>7, SessionStep

\* The commit of a reservation.  Any other session on its way to the insert
\* is after another person: it would hold the same row lock, or run in the
\* same process and hold the same mutex.
LEMMA InsertStep ==
    ASSUME LInv, NEW s \in Sessions, NEW k \in SeatIndex, InsertOffer(s, k)
    PROVE  LInv'
<1>. USE DEF LInv, LedgerInv
<1> DEFINE new  == [sess[s] EXCEPT !.pc = "leave"]
           i    == sess[s].who
           v    == sess[s].iv
           left == sess[s].left
           h    == [iv |-> v, seat |-> k, who |-> i]
<1>1. /\ At(s, "insert")
      /\ Become(s, new)
      /\ offers' = (offers \ left) \cup {h}
      /\ roster' = roster \ left
      /\ rowLock' = WithoutLocks({s})
      /\ UNCHANGED <<deployment, mutex, started>>
    BY DEF InsertOffer
<1>2. /\ i \in Interviewers
      /\ v \in Interviews
      /\ mutex[deployment.process[s]][i] = s
      /\ deployment.rowLocks => rowLock[i] = s
      /\ Ledger!IsFree(i, v, Booked \ left)
    BY <1>1 DEF HoldsItsLocks, At, Inside, MutexOf, CheckStaysTrue, View
<1>3. /\ new \in Session
      /\ new.pc = "leave" /\ new.who = i
      /\ new.iv = v /\ new.left = left
    BY SessionTyped DEF Session
<1>4. h \in Reservation /\ h.who = i /\ h.iv = v
    BY <1>2 DEF Reservation, Ledger!Reservation
<1>5. /\ sess'[s] = new
      /\ \A t \in Sessions \ {s} : sess'[t] = sess[t]
      /\ sess' \in [Sessions -> Session]
    BY <1>1, <1>3 DEF Become, TypeOK
<1>. HIDE DEF new
<1>6. Booked' = (Booked \ left) \cup {h}
    BY <1>1 DEF Booked
<1>. HIDE DEF h
<1>7. TypeOK'
    BY <1>1, <1>4, <1>5 DEF TypeOK, WithoutLocks
<1>8. ASSUME NEW t \in Sessions
      PROVE  HoldsItsLocks(t)'
    <2>1. deployment.process[t] \in Processes
        BY SessionTyped
    <2>2. CASE t = s
        BY <1>1, <1>2, <1>3, <1>5, <2>2
        DEF HoldsItsLocks, At, Inside, MutexOf, Ledger!OfInterview
    <2>3. CASE t # s
        <3>1. HoldsItsLocks(t) /\ sess'[t] = sess[t]
            BY <1>5, <2>3
        <3>2. \A j \in Interviewers : rowLock[j] = t => rowLock'[j] = t
            BY <1>1, <2>3 DEF WithoutLocks
        <3>. QED BY <1>1, <3>1, <3>2 DEF HoldsItsLocks, At, Inside, MutexOf
    <2>. QED BY <2>2, <2>3
<1>9. CheckStaysTrue'
    <2>1. SUFFICES ASSUME NEW t \in Sessions, sess'[t].pc = "insert"
                   PROVE  Ledger!IsFree(sess'[t].who, sess'[t].iv, Booked' \ sess'[t].left)
        BY DEF CheckStaysTrue, At, View, Ledger!IsFree, Booked
    <2>2. t # s /\ sess'[t] = sess[t]
        BY <1>3, <1>5, <2>1
    <2>3. Ledger!IsFree(sess[t].who, sess[t].iv, Booked \ sess[t].left)
        BY <2>1, <2>2 DEF CheckStaysTrue, At, View
    <2>4. sess[t].who # i
        <3>1. /\ mutex[deployment.process[t]][sess[t].who] = t
              /\ deployment.rowLocks => rowLock[sess[t].who] = t
            BY <2>1, <2>2 DEF HoldsItsLocks, At, Inside, MutexOf
        <3>2. deployment.rowLocks \/ deployment.process[t] = deployment.process[s]
            BY DEF TypeOK
        <3>. QED BY <1>2, <2>2, <3>1, <3>2
    <2>. QED BY <1>4, <1>6, <2>2, <2>3, <2>4 DEF Ledger!IsFree
<1>10. NeverDoubleHeld'
    <2>1. /\ Booked \ left \in SUBSET Reservation
          /\ Ledger!NeverDoubleHeld(Booked \ left)
        BY DEF TypeOK, Booked, NeverDoubleHeld, Ledger!NeverDoubleHeld
    <2>2. Ledger!NeverDoubleHeld((Booked \ left) \cup {h})
        BY <1>2, <1>4, <2>1, AddFree
    <2>. QED BY <1>6, <2>2 DEF NeverDoubleHeld, Ledger!NeverDoubleHeld, Booked
<1>11. NoLockLeftBehind'
    <2>1. SUFFICES ASSUME NEW j \in Interviewers, NEW t \in Sessions
                   PROVE  /\ \A p \in Processes : mutex'[p][j] = t =>
                                /\ p = deployment'.process[t]
                                /\ sess'[t].pc \in Inside
                                /\ sess'[t].who = j
                          /\ rowLock'[j] = t => sess'[t].pc # "idle"
        BY DEF NoLockLeftBehind, At, Inside
    <2>2. CASE t = s
        BY <1>1, <1>3, <1>5, <2>2 DEF NoLockLeftBehind, Inside
    <2>3. CASE t # s
        BY <1>1, <1>5, <2>3 DEF NoLockLeftBehind, At, WithoutLocks
    <2>. QED BY <2>2, <2>3
<1>. QED BY <1>7, <1>8, <1>9, <1>10, <1>11

-----------------------------------------------------------------------------
(* Everything else                                                         *)

\* An acceptance moves a reservation, a cancellation removes some.
LEMMA TablesStep ==
    ASSUME LInv,
           \/ \E o \in offers : AcceptOffer(o)
           \/ \E v \in Interviews : CancelInterview(v)
    PROVE  LInv'
<1>. USE DEF LInv, LedgerInv
<1>1. /\ UNCHANGED <<deployment, mutex, rowLock, sess, started>>
      /\ offers' \subseteq Reservation
      /\ roster' \subseteq Reservation
      /\ Booked' \in SUBSET Booked
    BY DEF AcceptOffer, CancelInterview, TypeOK, Booked
<1>2. TypeOK'
    BY <1>1 DEF TypeOK
<1>3. \A t \in Sessions : HoldsItsLocks(t)'
    BY <1>1 DEF HoldsItsLocks, At, MutexOf
<1>4. CheckStaysTrue'
    BY <1>1 DEF CheckStaysTrue, At, View, Ledger!IsFree
<1>5. NeverDoubleHeld'
    BY <1>1 DEF NeverDoubleHeld, Ledger!NeverDoubleHeld
<1>6. NoLockLeftBehind'
    BY <1>1 DEF NoLockLeftBehind, At
<1>. QED BY <1>2, <1>3, <1>4, <1>5, <1>6

\* Sessions that fail take their own locks with them and no others.
LEMMA FailStep ==
    ASSUME LInv, NEW S \in SUBSET Sessions, Fail(S)
    PROVE  LInv'
<1>. USE DEF LInv, LedgerInv
<1>1. /\ \A t \in Sessions : sess'[t] = IF t \in S THEN Idle ELSE sess[t]
      /\ \A p \in Processes, i \in Interviewers :
            mutex'[p][i] = IF mutex[p][i] \in S THEN NoSession ELSE mutex[p][i]
      /\ \A i \in Interviewers :
            rowLock'[i] = IF rowLock[i] \in S THEN NoSession ELSE rowLock[i]
      /\ UNCHANGED <<deployment, offers, roster, started>>
    BY DEF Fail, WithoutLocks
<1>2. TypeOK'
    BY SessionTyped DEF TypeOK, Fail, WithoutLocks
<1>3. ASSUME NEW t \in Sessions
      PROVE  HoldsItsLocks(t)'
    <2>1. deployment.process[t] \in Processes
        BY SessionTyped
    <2>2. CASE t \in S
        BY <1>1, <2>2 DEF HoldsItsLocks, At, Inside, Idle, Ledger!OfInterview
    <2>3. CASE t \notin S
        <3>1. HoldsItsLocks(t) /\ sess'[t] = sess[t]
            BY <1>1, <2>3
        <3>. QED BY <1>1, <2>1, <2>3, <3>1 DEF HoldsItsLocks, At, Inside, MutexOf
    <2>. QED BY <2>2, <2>3
<1>4. CheckStaysTrue'
    BY <1>1 DEF CheckStaysTrue, At, View, Idle, Booked, Ledger!IsFree
<1>5. NeverDoubleHeld'
    BY <1>1 DEF NeverDoubleHeld, Ledger!NeverDoubleHeld, Booked
<1>6. NoLockLeftBehind'
    BY <1>1 DEF NoLockLeftBehind, At
<1>. QED BY <1>2, <1>3, <1>4, <1>5, <1>6

LEMMA LInvInit == Init => LInv
<1> SUFFICES ASSUME Init PROVE LInv
    OBVIOUS
<1>1. TypeOK
    BY DEF Init, TypeOK, Idle, Session
<1>2. \A s \in Sessions : HoldsItsLocks(s)
    BY DEF Init, HoldsItsLocks, At, Inside, Idle, Ledger!OfInterview
<1>3. CheckStaysTrue /\ NeverDoubleHeld /\ NoLockLeftBehind
    BY DEF Init, CheckStaysTrue, At, Idle, NeverDoubleHeld, Ledger!NeverDoubleHeld,
           Booked, NoLockLeftBehind
<1>. QED BY <1>1, <1>2, <1>3 DEF LInv, LedgerInv

LEMMA LInvNext == LInv /\ [Next]_vars => LInv'
<1> SUFFICES ASSUME LInv, [Next]_vars PROVE LInv'
    OBVIOUS
<1>1. CASE UNCHANGED vars
    BY <1>1 DEF vars, LInv, LedgerInv, TypeOK, HoldsItsLocks, CheckStaysTrue,
                NeverDoubleHeld, Ledger!NeverDoubleHeld, NoLockLeftBehind, At, View,
                Ledger!IsFree, Booked, MutexOf
<1>2. ASSUME NEW s \in Sessions, Begin(s)
      PROVE  LInv'
    BY <1>2, BeginStep
<1>3. ASSUME NEW s \in Sessions, Advance(s)
      PROVE  LInv'
    <2>1. CASE \E k \in SeatIndex, i \in Interviewers : Pick(s, k, i)
        BY <2>1, PickStep
    <2>2. ASSUME NEW k \in SeatIndex, GiveUp(s, k) \/ InsertOffer(s, k) \/ LeaveMutex(s, k)
          PROVE  LInv'
        BY <2>2, PickStep, InsertStep, LeaveStep
    <2>3. CASE EnterMutex(s) \/ LockRow(s) \/ StillFree(s) \/ LostRace(s) \/ Finish(s)
        BY <2>3, EnterMutexStep, LockRowStep, StillFreeStep, LeaveStep, FinishStep
    <2>4. CASE DeadlockVictim(s) \/ WriteTimeout(s)
        BY <2>4, FailStep DEF DeadlockVictim, WriteTimeout
    <2>. QED BY <1>3, <2>1, <2>2, <2>3, <2>4 DEF Advance
<1>4. CASE \/ \E o \in offers : AcceptOffer(o)
           \/ \E v \in Interviews : CancelInterview(v)
    BY <1>4, TablesStep
<1>5. ASSUME NEW p \in Processes, Crash(p)
      PROVE  LInv'
    BY <1>5, FailStep DEF Crash
<1>. QED BY <1>1, <1>2, <1>3, <1>4, <1>5 DEF Next

-----------------------------------------------------------------------------
(* The theorems                                                            *)

\* LedgerInv and NoLockLeftBehind together are an inductive invariant.
THEOREM LedgerInvariant == Spec => []LInv
<1>. QED BY LInvInit, LInvNext, PTL DEF Spec

\* No person is ever held, by offer or confirmation, for two interviews at
\* overlapping times: on PostgreSQL with any number of server processes as on
\* SQLite with one, whatever races, fails or dies in between.
THEOREM NobodyHeldTwice == Spec => []NeverDoubleHeld
<1>1. LInv => NeverDoubleHeld
    BY DEF LInv, LedgerInv
<1>. QED BY <1>1, LedgerInvariant, PTL

\* The types, lock discipline and truth of the check, all of LedgerInv.
THEOREM LedgerCorrect == Spec => []LedgerInv
<1>1. LInv => LedgerInv
    BY DEF LInv
<1>. QED BY <1>1, LedgerInvariant, PTL

\* No way out of reserve() leaves its mutex behind, and no handler that is
\* over, finished or failed, still locks a row.
THEOREM LocksAreReturned == Spec => []NoLockLeftBehind
<1>1. LInv => NoLockLeftBehind
    BY DEF LInv
<1>. QED BY <1>1, LedgerInvariant, PTL

\* Every step of the durable ledger is a step of the in-memory one, or none.
LEMMA StepSimulates == LInv /\ [Next]_vars => [Ledger!Next]_Booked
<1> SUFFICES ASSUME LInv, [Next]_vars PROVE Ledger!Next \/ Booked' = Booked
    BY DEF Booked
<1>. USE DEF LInv, LedgerInv
<1>1. CASE UNCHANGED <<offers, roster>>
    BY <1>1 DEF Booked
<1>2. ASSUME NEW s \in Sessions, NEW k \in SeatIndex, InsertOffer(s, k)
      PROVE  Ledger!Next
    <2> DEFINE i    == sess[s].who
               v    == sess[s].iv
               left == sess[s].left
    <2>1. /\ i \in Interviewers /\ v \in Interviews
          /\ left \in SUBSET Reservation
          /\ left = Ledger!OfInterview(v, left)
          /\ Ledger!IsFree(i, v, Booked \ left)
        BY <1>2, SessionTyped
        DEF InsertOffer, HoldsItsLocks, At, Inside, CheckStaysTrue, View,
            Ledger!OfInterview
    <2>2. Booked' = (Booked \ left) \cup {[iv |-> v, seat |-> k, who |-> i]}
        BY <1>2 DEF InsertOffer, Booked
    <2>3. Ledger!Reserve(i, v, k, left)
        BY <2>1, <2>2 DEF Ledger!Reserve, Booked
    <2>. QED BY <2>1, <2>3 DEF Ledger!Next, Reservation
<1>3. ASSUME NEW s \in Sessions, Finish(s)
      PROVE  Ledger!Next
    <2> DEFINE v    == sess[s].iv
               left == sess[s].left
    <2>1. /\ v \in Interviews
          /\ left \in SUBSET Reservation
          /\ left = Ledger!OfInterview(v, left)
        BY <1>3, SessionTyped DEF Finish, HoldsItsLocks, At, Ledger!OfInterview
    <2>2. Ledger!Release(left)
        BY <1>3 DEF Finish, Ledger!Release
    <2>. QED BY <2>1, <2>2 DEF Ledger!Next, Reservation
<1>4. ASSUME NEW o \in offers, AcceptOffer(o)
      PROVE  Booked' = Booked
    BY <1>4 DEF AcceptOffer, Booked
<1>5. ASSUME NEW v \in Interviews, CancelInterview(v)
      PROVE  Ledger!Next
    <2> DEFINE gone == Ledger!OfInterview(v, Booked)
    <2>1. gone \in SUBSET Reservation /\ Ledger!OfInterview(v, gone) = gone
        BY DEF Ledger!OfInterview, Booked, TypeOK
    <2>2. Ledger!Release(gone)
        BY <1>5 DEF CancelInterview, Ledger!Release, Ledger!OfInterview, Booked
    <2>. QED BY <2>1, <2>2 DEF Ledger!Next, Reservation
<1>6. ASSUME NEW s \in Sessions, Begin(s)
      PROVE  UNCHANGED <<offers, roster>>
    BY <1>6 DEF Begin, BeginAssignment, BeginReplacement
<1>7. ASSUME NEW s \in Sessions, Advance(s)
      PROVE  \/ UNCHANGED <<offers, roster>>
             \/ Finish(s)
             \/ \E k \in SeatIndex : InsertOffer(s, k)
    BY <1>7 DEF Advance, Pick, GiveUp, LeaveMutex, EnterMutex, LockRow, StillFree,
                LostRace, DeadlockVictim, WriteTimeout, Fail
<1>8. ASSUME NEW p \in Processes, Crash(p)
      PROVE  UNCHANGED <<offers, roster>>
    BY <1>8 DEF Crash, Fail
<1>. QED BY <1>1, <1>2, <1>3, <1>4, <1>5, <1>6, <1>7, <1>8 DEF Next, vars

\* The durable ledger implements the in-memory one of reservations.py: seen
\* through its committed rows, reserve() is atomic.
THEOREM LedgerRefines == Spec => ImplementsLedger
<1>1. Init => Ledger!Init
    BY DEF Init, Ledger!Init
<1>2. LInv /\ [Next]_vars => [Ledger!Next]_(offers \cup roster)
    BY StepSimulates DEF Booked
<1>. QED BY <1>1, <1>2, LedgerInvariant, PTL DEF Spec, ImplementsLedger, Ledger!Spec
=============================================================================
