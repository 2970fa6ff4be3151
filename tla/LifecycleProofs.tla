-------------------------- MODULE LifecycleProofs ---------------------------
(***************************************************************************)
(* The scheduling service implements InterviewLifecycle: where requests    *)
(* are worked on by one handler at a time, the rows change as if every     *)
(* handler were a single step, although handlers fail, die and lose what   *)
(* they had loaded to a token refresh half-way.  For any number of         *)
(* threads, requests, interviewers, seats and slots.                       *)
(***************************************************************************)
EXTENDS IsolatedServiceProofs

Uncontested == Conditions \cap {"races", "dead_offers"} = {}

-----------------------------------------------------------------------------
(* What the copy a handler works on has to do with the row.                *)

\* Some of the pending seats have been offered or found nobody.
Partly(before, after) ==
    \A k \in SeatIndex :
        \/ after[k] = before[k]
        \/ /\ before[k].status = "pending" /\ after[k].declined = before[k].declined
           /\ \/ after[k].status = "exhausted" /\ after[k].who = before[k].who
              \/ after[k].status = "offered" /\ after[k].who \in Interviewers

Chosen(work, rw) ==
    rw.status = "awaiting_candidate_selection" /\ work.slot \in rw.feasible

Sits(rw, i) == {k \in SeatsWith(rw.seats, "accepted") : rw.seats[k].who = i}

\* The seats a handler has opened before it fills them.
Opened(s, rw, seats) ==
    \/ /\ s.op = "select" /\ Chosen(s.work, rw)
       /\ s.work.status = "assigning_panel" /\ seats = FreshSeats
    \/ /\ s.op \in {"decline", "sweep"} /\ On(rw)
       /\ s.work.status = rw.status /\ s.work.slot = rw.slot
       /\ \E K \in SUBSET SeatsWith(rw.seats, "offered") :
            K # {} /\ seats = Reopen(rw.seats, K)
    \/ /\ s.op = "interviewer_cancel" /\ HasInterview(rw)
       /\ rw.status \in {"assigning_panel", "panel_complete"}
       /\ s.work.status = "assigning_panel" /\ s.work.slot = rw.slot
       /\ \E i \in Interviewers : Sits(rw, i) # {} /\ seats = Reopen(rw.seats, Sits(rw, i))

CopyLive(s, rw) ==
    /\ s.snap = rw /\ ~s.expired
    /\ \/ /\ s.op = "select" /\ Chosen(s.work, rw)
          /\ s.work.status = "assigning_panel" /\ s.work.seats = FreshSeats
       \/ /\ s.op \in {"decline", "sweep"} /\ s.work = rw /\ On(rw)
          /\ s.targets # {} /\ s.targets \subseteq SeatsWith(rw.seats, "offered")
       \/ /\ s.op = "interviewer_cancel" /\ s.work = rw /\ HasInterview(rw)
          /\ \E i \in Interviewers : s.targets = Sits(rw, i)

CopyFill(s, rw) ==
    /\ s.expired \/ s.snap = rw
    /\ \E seats \in Panels : Opened(s, rw, seats) /\ Partly(seats, s.work.seats)

CopyPersist(s, rw) ==
    /\ s.expired \/ s.snap = rw
    /\ \/ /\ SeatsWith(s.work.seats, "pending") = {} /\ s.op # "accept"
          /\ \E seats \in Panels : Opened(s, rw, seats) /\ Partly(seats, s.work.seats)
       \/ /\ s.op = "select" /\ Chosen(s.work, rw)
          /\ s.work.status = "manual_scheduling_required" /\ s.work.seats = FreshSeats
       \/ /\ s.op = "accept" /\ On(rw)
          /\ \E k \in SeatsWith(rw.seats, "offered") :
               s.work = [rw EXCEPT !.seats = Accept(@, k)]

Copy(s, rw) ==
    /\ s.pc = "live" => CopyLive(s, rw)
    /\ s.pc = "fill" => CopyFill(s, rw)
    /\ s.pc = "persist" => CopyPersist(s, rw)
    /\ s.pc = "commit" => s.snap = rw
    /\ s.pc = "search" => rw.status = "collecting_availability"

Holds(t) ==
    LET r == th[t].req
    IN  \/ th[t].pc \in {"idle", "sweep"} /\ r = NoRequest
        \/ th[t].pc \notin {"idle", "sweep"} /\ r \in Requests /\ Copy(th[t], row[r])

LifeInv ==
    /\ Separate
    /\ \A t \in Threads, r \in Requests : WorksOn(t, r) => row[r].status # "absent"
    /\ \A t \in Threads : \A r \in th[t].todo : row[r].status = "assigning_panel"
    /\ \A t \in Threads : Holds(t)
    /\ \A r \in Requests : RowSettled(row[r])

-----------------------------------------------------------------------------
(* A step concerns one thread and at most the row it works on.             *)

\* Thread t goes on to state, with requests that are its own or nobody's.
Claims(t, state) ==
    /\ th' = [th EXCEPT ![t] = state]
    /\ state \in Thread
    /\ \A q \in Requests : state.req = q \/ q \in state.todo =>
          (WorksOn(t, q) \/ Unclaimed(q)) /\ row[q].status # "absent"
    /\ state.req \notin state.todo
    /\ \A q \in state.todo : row[q].status = "assigning_panel"

LEMMA ThreadTurns ==
    ASSUME IInv, NEW t \in Threads, NEW state, Claims(t, state)
    PROVE  /\ th'[t] = state /\ \A u \in Threads : u # t => th'[u] = th[u]
           /\ \A u \in Threads : th'[u] \in Thread /\ th'[u].todo \subseteq Requests
           /\ \A u \in Threads : th[u] \in Thread /\ th[u].todo \subseteq Requests
           /\ NoRequest \notin Requests
BY ServiceAssumption DEF Claims, IInv, TypeOK, Thread

LEMMA StaysSeparate ==
    ASSUME IInv, LifeInv, NEW t \in Threads, NEW state, Claims(t, state)
    PROVE  Separate'
<1>1. \A u \in Threads, q \in Requests : WorksOn(u, q)' =>
         WorksOn(u, q) \/ (u = t /\ (WorksOn(t, q) \/ Unclaimed(q)))
  BY ThreadTurns DEF Claims, WorksOn
<1>2. \A u, v \in Threads, q \in Requests : WorksOn(u, q)' /\ WorksOn(v, q)' => u = v
  BY <1>1 DEF LifeInv, Separate, Unclaimed
<1>3. \A u \in Threads : th'[u].req \notin th'[u].todo
  BY ThreadTurns DEF LifeInv, Separate, Claims
<1> QED BY <1>2, <1>3 DEF Separate, WorksOn

\* A step that writes no row.
LEMMA RowsKept ==
    ASSUME IInv, LifeInv, NEW t \in Threads, NEW state, Claims(t, state), row' = row,
           Holds(t)'
    PROVE  LifeInv'
<1>1. \A u \in Threads, q \in Requests : WorksOn(u, q)' => row[q].status # "absent"
  BY ThreadTurns DEF LifeInv, Claims, WorksOn
<1>2. \A u \in Threads : \A q \in th'[u].todo : row[q].status = "assigning_panel"
  BY ThreadTurns DEF LifeInv, Claims
<1>3. \A u \in Threads : Holds(u)'
  BY ThreadTurns DEF LifeInv, Holds
<1> QED BY <1>1, <1>2, <1>3, StaysSeparate DEF LifeInv, RowSettled

\* A step that writes the row it works on.
LEMMA RowWritten ==
    ASSUME IInv, LifeInv, NEW t \in Threads, NEW r \in Requests, NEW state, NEW rw \in Row,
           Claims(t, state), th[t].req = r, r \notin state.todo, state.req \in {r, NoRequest},
           row' = [row EXCEPT ![r] = rw], rw.status # "absent", RowSettled(rw), Holds(t)'
    PROVE  LifeInv'
<1>1. row'[r] = rw /\ \A q \in Requests \ {r} : row'[q] = row[q]
  BY RowsApart
<1>2. \A u \in Threads : u # t => th[u].req # r /\ r \notin th[u].todo
  BY DEF LifeInv, Separate, WorksOn
<1>3. \A u \in Threads, q \in Requests : WorksOn(u, q)' => row'[q].status # "absent"
  BY <1>1, ThreadTurns DEF LifeInv, Claims, WorksOn
<1>4. ASSUME NEW u \in Threads, NEW q \in th'[u].todo
      PROVE  row'[q].status = "assigning_panel"
  <2>1. q \in Requests \ {r}
    BY <1>2, ThreadTurns
  <2>2. row[q].status = "assigning_panel"
    BY ThreadTurns DEF LifeInv, Claims
  <2> QED BY <1>1, <2>1, <2>2
<1>5. \A u \in Threads : Holds(u)'
  BY <1>1, <1>2, ThreadTurns DEF LifeInv, Holds
<1>6. \A q \in Requests : RowSettled(row'[q])
  BY <1>1 DEF LifeInv
<1> QED BY <1>3, <1>4, <1>5, <1>6, StaysSeparate DEF LifeInv, RowSettled

-----------------------------------------------------------------------------
(* How a handler starts                                                    *)

LEMMA TakenUp ==
    ASSUME Uncontested, NEW t \in Threads, NEW r \in Requests, Free(t, r)
    PROVE  th[t].pc = "idle" /\ Unclaimed(r) /\ row[r].status # "absent"
BY DEF Free, Uncontested, Unclaimed

LEMMA Starting ==
    ASSUME IInv, LifeInv, Uncontested, NEW t \in Threads, NEW r \in Requests, Free(t, r),
           NEW state \in Thread, Become(t, state), state.req = r, state.todo = {},
           state.pc \notin {"idle", "sweep"}, Copy(state, row[r]), row' = row
    PROVE  LifeInv'
<1>1. Claims(t, state)
  BY TakenUp DEF Claims, Become
<1>2. Holds(t)'
  BY <1>1, ThreadTurns DEF Holds
<1> QED BY <1>1, <1>2, RowsKept

\* The candidate's calls.
LEMMA CandidateStarting ==
    ASSUME IInv, LifeInv, Uncontested, NEW t \in Threads, NEW r \in Requests,
           SubmitAvailability(t, r) \/ CandidateCancel(t, r) \/ CandidateReschedule(t, r)
    PROVE  LifeInv'
<1>1. CASE SubmitAvailability(t, r)
  <2>1. PICK s : s = Loaded("search", "submit", r)
    OBVIOUS
  <2>2. s \in Thread /\ s.pc = "search" /\ s.req = r /\ s.todo = {}
    <3>1. "search" \in Pcs /\ "submit" \in Ops
      BY DEF Pcs, Ops
    <3> QED BY <2>1, <3>1, LoadedFields
  <2>3. Copy(s, row[r])
    BY <1>1, <2>2 DEF Copy, SubmitAvailability
  <2> QED BY <1>1, <2>1, <2>2, <2>3, Starting DEF SubmitAvailability
<1>2. ASSUME NEW op \in {"cancel", "reschedule"}, Free(t, r),
             Become(t, Loaded("commit", op, r)), row' = row
      PROVE  LifeInv'
  <2>1. PICK s : s = Loaded("commit", op, r)
    OBVIOUS
  <2>2. s \in Thread /\ s.pc = "commit" /\ s.req = r /\ s.todo = {} /\ s.snap = row[r]
    <3>1. "commit" \in Pcs /\ op \in Ops
      BY DEF Pcs, Ops
    <3> QED BY <2>1, <3>1, LoadedFields
  <2>3. Copy(s, row[r])
    BY <2>2 DEF Copy
  <2> QED BY <1>2, <2>1, <2>2, <2>3, Starting
<1> QED BY <1>1, <1>2 DEF CandidateCancel, CandidateReschedule

\* The engine opens a panel for the slot the candidate picked.
LEMMA SelectStarting ==
    ASSUME IInv, LifeInv, Uncontested, NEW t \in Threads, NEW r \in Requests,
           NEW slot \in Slots, SelectSlot(t, r, slot)
    PROVE  LifeInv'
<1>1. PICK s : s = Loaded("live", "select", r)
  OBVIOUS
<1>2. /\ s \in Thread /\ s.pc = "live" /\ s.op = "select" /\ s.req = r
      /\ s.snap = row[r] /\ s.work = row[r] /\ ~s.expired /\ s.todo = {}
  <2>1. "live" \in Pcs /\ "select" \in Ops
    BY DEF Pcs, Ops
  <2> QED BY <1>1, <2>1, LoadedFields
<1>3. PICK work : work = [row[r] EXCEPT !.status = "assigning_panel", !.seats = FreshSeats,
                                        !.slot = slot, !.event = 0]
  OBVIOUS
<1>4. /\ work \in Row /\ work.status = "assigning_panel" /\ work.seats = FreshSeats
      /\ work.slot = slot
  <2>1. row[r] \in Row
    BY DEF IInv, TypeOK
  <2>2. 0 \in 0 .. MaxEvents /\ "assigning_panel" \in Statuses
    BY ServiceAssumption DEF Statuses, InterviewStatuses
  <2> QED BY <1>3, <2>1, <2>2, EmptyPanels DEF Row
<1>5. PICK u : u = [s EXCEPT !.work = work]
  OBVIOUS
<1>6. /\ u \in Thread /\ u.pc = "live" /\ u.op = "select" /\ u.req = r
      /\ u.snap = row[r] /\ u.work = work /\ ~u.expired /\ u.todo = {}
  BY <1>2, <1>4, <1>5 DEF Thread
<1>7. Become(t, u)
  <2>1. u = [Loaded("live", "select", r) EXCEPT
                    !.work = [@ EXCEPT !.status = "assigning_panel",
                                       !.seats = FreshSeats,
                                       !.slot = slot,
                                       !.event = 0]]
    BY <1>1, <1>2, <1>3, <1>5 DEF Thread
  <2> QED BY <2>1 DEF SelectSlot
<1>8. Copy(u, row[r])
  BY <1>4, <1>6 DEF Copy, CopyLive, Chosen, SelectSlot
<1> QED BY <1>6, <1>7, <1>8, Starting DEF SelectSlot

\* A commit half-way makes a handler forget the row, not what it works on.
LEMMA Refreshed ==
    ASSUME NEW s \in Thread, s.pc \in {"fill", "persist"}, NEW rw, Copy(s, rw),
           NEW refreshed \in BOOLEAN, NEW u, u = ExpireIf(refreshed, s)
    PROVE  u \in Thread /\ u.pc = s.pc /\ u.req = s.req /\ u.todo = s.todo /\ Copy(u, rw)
<1>1. CASE ~refreshed
  BY <1>1 DEF ExpireIf
<1>2. CASE refreshed
  <2>1. /\ u \in Thread /\ u.pc = s.pc /\ u.req = s.req /\ u.todo = s.todo /\ u.op = s.op
        /\ u.work = s.work /\ u.expired
    BY <1>2, NoRowTyped DEF ExpireIf, Expire, Thread
  <2> QED BY <2>1 DEF Copy, CopyFill, CopyPersist, Opened
<1> QED BY <1>1, <1>2

\* An interviewer answers an offer.
LEMMA RespondStarting ==
    ASSUME IInv, LifeInv, Uncontested, NEW t \in Threads, NEW r \in Requests,
           NEW k \in SeatIndex, NEW accept \in BOOLEAN, RespondToSeat(t, r, k, accept)
    PROVE  LifeInv'
<1>0. /\ Free(t, r) /\ On(row[r]) /\ k \in SeatsWith(row[r].seats, "offered")
      /\ row' = row /\ row[r] \in Row /\ row[r].seats \in Panels
  BY DEF RespondToSeat, On, Uncontested, SeatsWith, IInv, TypeOK, Row
<1>1. CASE ~accept
  <2>1. PICK s : s = Loaded("live", "decline", r)
    OBVIOUS
  <2>2. /\ s \in Thread /\ s.pc = "live" /\ s.op = "decline" /\ s.req = r
        /\ s.snap = row[r] /\ s.work = row[r] /\ ~s.expired /\ s.todo = {}
    <3>1. "live" \in Pcs /\ "decline" \in Ops
      BY DEF Pcs, Ops
    <3> QED BY <2>1, <3>1, LoadedFields
  <2>3. PICK u : u = [s EXCEPT !.targets = {k}]
    OBVIOUS
  <2>4. /\ u \in Thread /\ u.pc = "live" /\ u.op = "decline" /\ u.req = r
        /\ u.snap = row[r] /\ u.work = row[r] /\ u.targets = {k} /\ ~u.expired /\ u.todo = {}
    BY <1>0, <2>2, <2>3 DEF Thread
  <2>5. Copy(u, row[r])
    BY <1>0, <2>4 DEF Copy, CopyLive
  <2>6. Become(t, u) \/ \E refreshed \in BOOLEAN : Become(t, u)
    BY <1>1, <2>1, <2>3 DEF RespondToSeat
  <2> QED BY <1>0, <2>4, <2>5, <2>6, Starting
<1>2. CASE accept
  <2>1. PICK s : s = Loaded("persist", "accept", r)
    OBVIOUS
  <2>2. /\ s \in Thread /\ s.pc = "persist" /\ s.op = "accept" /\ s.req = r
        /\ s.snap = row[r] /\ s.work = row[r] /\ ~s.expired /\ s.todo = {}
    <3>1. "persist" \in Pcs /\ "accept" \in Ops
      BY DEF Pcs, Ops
    <3> QED BY <2>1, <3>1, LoadedFields
  <2>3. PICK work : work = [row[r] EXCEPT !.seats = Accept(@, k)]
    OBVIOUS
  <2>4. work \in Row
    <3>1. Accept(row[r].seats, k) \in Panels
      BY <1>0, AcceptSound DEF IInv, SeatsWith
    <3> QED BY <1>0, <2>3, <3>1 DEF Row
  <2>5. PICK u : u = [s EXCEPT !.work = work, !.targets = {k}]
    OBVIOUS
  <2>6. /\ u \in Thread /\ u.pc = "persist" /\ u.op = "accept" /\ u.req = r
        /\ u.snap = row[r] /\ u.work = work /\ u.todo = {}
    BY <1>0, <2>2, <2>4, <2>5 DEF Thread
  <2>7. Copy(u, row[r])
    BY <1>0, <2>3, <2>6 DEF Copy, CopyPersist
  <2>8. u = [Loaded("persist", "accept", r) EXCEPT !.work.seats = Accept(@, k), !.targets = {k}]
    BY <1>0, <2>1, <2>2, <2>3, <2>5 DEF Thread, Row
  <2>9. PICK refreshed \in BOOLEAN : Become(t, ExpireIf(refreshed, u))
    BY <1>2, <2>8 DEF RespondToSeat, Refreshes
  <2>10. PICK v : v = ExpireIf(refreshed, u)
    OBVIOUS
  <2>11. v \in Thread /\ v.pc = "persist" /\ v.req = r /\ v.todo = {} /\ Copy(v, row[r])
    BY <2>6, <2>7, <2>10, Refreshed
  <2> QED BY <1>0, <2>9, <2>10, <2>11, Starting
<1> QED BY <1>1, <1>2

\* A confirmed interviewer backs out.
LEMMA BackOutStarting ==
    ASSUME IInv, LifeInv, Uncontested, NEW t \in Threads, NEW r \in Requests,
           NEW i \in Interviewers, InterviewerCancel(t, r, i)
    PROVE  LifeInv'
<1>1. PICK s : s = Loaded("live", "interviewer_cancel", r)
  OBVIOUS
<1>2. /\ s \in Thread /\ s.pc = "live" /\ s.op = "interviewer_cancel" /\ s.req = r
      /\ s.snap = row[r] /\ s.work = row[r] /\ ~s.expired /\ s.todo = {}
  <2>1. "live" \in Pcs /\ "interviewer_cancel" \in Ops
    BY DEF Pcs, Ops
  <2> QED BY <1>1, <2>1, LoadedFields
<1>3. PICK rows : rows = {p \in RosterOf(r) : p.who = i}
  OBVIOUS
<1>4. Sits(row[r], i) \in SUBSET SeatIndex /\ rows \in SUBSET Participant
  BY <1>3 DEF Sits, SeatsWith, RosterOf, IInv, TypeOK
<1>5. PICK u : u = [s EXCEPT !.targets = Sits(row[r], i), !.cancelled = rows]
  OBVIOUS
<1>6. /\ u \in Thread /\ u.pc = "live" /\ u.op = "interviewer_cancel" /\ u.req = r
      /\ u.snap = row[r] /\ u.work = row[r] /\ u.targets = Sits(row[r], i)
      /\ ~u.expired /\ u.todo = {}
  BY <1>2, <1>4, <1>5 DEF Thread
<1>7. Become(t, u)
  BY <1>1, <1>3, <1>5 DEF InterviewerCancel, Sits
<1>8. Copy(u, row[r])
  BY <1>6 DEF Copy, CopyLive, InterviewerCancel
<1> QED BY <1>6, <1>7, <1>8, Starting DEF InterviewerCancel

\* The sweep comes to a row.
LEMMA SweepComes ==
    ASSUME IInv, LifeInv, NEW t \in Threads, NEW r \in Requests,
           NEW expired \in SUBSET SeatIndex, NEW todo \in SUBSET Requests,
           WorksOn(t, r) \/ Unclaimed(r),
           row[r].status = "assigning_panel", HasInterview(row[r]), expired # {},
           expired \subseteq SeatsWith(row[r].seats, "offered"), r \notin todo,
           \A q \in todo : row[q].status = "assigning_panel" /\ (WorksOn(t, q) \/ Unclaimed(q)),
           Become(t, [Loaded("live", "sweep", r) EXCEPT !.targets = expired, !.todo = todo]),
           row' = row
    PROVE  LifeInv'
<1>1. PICK s : s = Loaded("live", "sweep", r)
  OBVIOUS
<1>2. /\ s \in Thread /\ s.pc = "live" /\ s.op = "sweep" /\ s.req = r
      /\ s.snap = row[r] /\ s.work = row[r] /\ ~s.expired
  <2>1. "live" \in Pcs /\ "sweep" \in Ops
    BY DEF Pcs, Ops
  <2> QED BY <1>1, <2>1, LoadedFields
<1>3. PICK u : u = [s EXCEPT !.targets = expired, !.todo = todo]
  OBVIOUS
<1>4. /\ u \in Thread /\ u.pc = "live" /\ u.op = "sweep" /\ u.req = r
      /\ u.snap = row[r] /\ u.work = row[r] /\ u.targets = expired
      /\ ~u.expired /\ u.todo = todo
  BY <1>2, <1>3 DEF Thread
<1>5. Become(t, u)
  BY <1>1, <1>3
<1>6. Copy(u, row[r])
  BY <1>4 DEF Copy, CopyLive, On
<1>7. Claims(t, u)
  BY <1>4, <1>5 DEF Claims, Become
<1>8. Holds(t)'
  BY <1>4, <1>6, <1>7, ThreadTurns DEF Holds
<1> QED BY <1>7, <1>8, RowsKept

\* A handler ends, or its sweep goes on to the rest of its rows or some of it.
LEMMA Ending ==
    ASSUME IInv, LifeInv, NEW t \in Threads, row' = row, NEW state, Become(t, state),
           state = Idle \/ \E todo \in SUBSET th[t].todo : state = GoOnWith(todo)
    PROVE  LifeInv'
<1>1. th[t].todo \subseteq Requests /\ NoRequest \notin Requests
  BY ServiceAssumption DEF IInv, TypeOK, Thread
<1>2. /\ state \in Thread /\ state.pc \in {"idle", "sweep"}
      /\ state.req = NoRequest /\ state.todo \subseteq th[t].todo
  BY <1>1, RestState
<1>3. Claims(t, state)
  BY <1>1, <1>2 DEF Claims, Become, LifeInv, WorksOn
<1>4. Holds(t)'
  BY <1>2, <1>3, ThreadTurns DEF Holds
<1> QED BY <1>3, <1>4, RowsKept

\* Every way the sweep goes on to a row, or past one.
LEMMA Sweeping ==
    ASSUME IInv, LifeInv, Uncontested, NEW t \in Threads, NEW r \in Requests,
           Sweep(t, r) \/ SweepOn(t)
    PROVE  LifeInv'
<1>1. ASSUME NEW expired \in SUBSET SeatIndex, NEW later \in SUBSET Requests,
             SweepExpiredOffers(t, r, expired, later)
      PROVE  LifeInv'
  <2>1. \A q \in later : q # r /\ Unclaimed(q) /\ row[q].status = "assigning_panel"
    BY <1>1, TakenUp DEF SweepExpiredOffers
  <2>2. Unclaimed(r)
    BY <1>1, TakenUp DEF SweepExpiredOffers
  <2> QED BY <1>1, <2>1, <2>2, SweepComes DEF SweepExpiredOffers
<1>2. th[t].todo \subseteq Requests
  BY DEF IInv, TypeOK, Thread
<1>3. \A p \in th[t].todo : row[p].status = "assigning_panel" /\ WorksOn(t, p)
  BY DEF LifeInv, WorksOn
<1>4. ASSUME NEW q \in Requests, NEW expired \in SUBSET SeatIndex, SweepNext(t, q, expired)
      PROVE  LifeInv'
  <2>1. PICK todo : todo = th[t].todo \ {q}
    OBVIOUS
  <2>2. /\ todo \in SUBSET Requests /\ q \notin todo /\ WorksOn(t, q)
        /\ \A p \in todo : row[p].status = "assigning_panel" /\ WorksOn(t, p)
    BY <1>2, <1>3, <1>4, <2>1 DEF SweepNext
  <2>3. /\ HasInterview(row[q]) /\ expired # {} /\ row[q].status = "assigning_panel"
        /\ expired \subseteq SeatsWith(row[q].seats, "offered") /\ row' = row
        /\ Become(t, [Loaded("live", "sweep", q) EXCEPT !.targets = expired, !.todo = todo])
    BY <1>3, <1>4, <2>1 DEF SweepNext
  <2> QED BY <2>2, <2>3, SweepComes
<1>5. ASSUME NEW q \in Requests, SweepSkip(t, q) PROVE LifeInv'
  BY <1>5, Ending DEF SweepSkip
<1> QED BY <1>1, <1>4, <1>5 DEF Sweep, SweepOn

-----------------------------------------------------------------------------
(* How a handler goes on                                                   *)

LEMMA Busy ==
    ASSUME IInv, LifeInv, NEW t \in Threads, th[t].pc \notin {"idle", "sweep"},
           NEW r, r = th[t].req
    PROVE  /\ r \in Requests /\ th[t] \in Thread /\ r \notin th[t].todo
           /\ row[r] \in Row /\ row[r].seats \in Panels /\ row[r].status # "absent"
           /\ th[t].work \in Row /\ th[t].work.seats \in Panels
           /\ Copy(th[t], row[r]) /\ RowSettled(row[r])
<1>1. r \in Requests /\ Copy(th[t], row[r])
  BY DEF LifeInv, Holds
<1>2. r \notin th[t].todo /\ row[r].status # "absent" /\ RowSettled(row[r])
  BY <1>1 DEF LifeInv, Separate, WorksOn
<1>3. row[r] \in Row /\ row[r].seats \in Panels
  BY <1>1 DEF IInv, TypeOK, Row
<1> QED BY <1>1, <1>2, <1>3, ThreadFacts

LEMMA Continuing ==
    ASSUME IInv, LifeInv, NEW t \in Threads, th[t].pc \notin {"idle", "sweep"},
           NEW state \in Thread, Become(t, state), row' = row,
           state.req = th[t].req, state.todo \subseteq th[t].todo,
           state.pc \notin {"idle", "sweep"}, Copy(state, row[th[t].req])
    PROVE  LifeInv'
<1>1. th[t].req \in Requests /\ th[t].req \notin th[t].todo
  BY Busy
<1>2. Claims(t, state)
  BY <1>1 DEF Claims, Become, LifeInv, WorksOn
<1>3. Holds(t)'
  BY <1>1, <1>2, ThreadTurns DEF Holds
<1> QED BY <1>2, <1>3, RowsKept

\* The fill loop makes progress with what is still pending.
LEMMA PartlyOn ==
    ASSUME NEW before \in Panels, NEW seats \in Panels, Partly(before, seats),
           NEW k \in SeatsWith(seats, "pending")
    PROVE  /\ Partly(before, Exhaust(seats, k))
           /\ \A i \in Interviewers : Partly(before, OfferTo(seats, k, i))
<1>1. k \in SeatIndex /\ seats[k].status = "pending"
  BY DEF SeatsWith
<1>2. seats[k] = before[k]
  BY <1>1 DEF Partly
<1>3. /\ \A j \in SeatIndex \ {k} : Exhaust(seats, k)[j] = seats[j]
      /\ Exhaust(seats, k)[k].status = "exhausted"
      /\ Exhaust(seats, k)[k].who = seats[k].who
      /\ Exhaust(seats, k)[k].declined = seats[k].declined
  BY <1>1 DEF Exhaust, Panels
<1>4. ASSUME NEW i \in Interviewers
      PROVE  /\ \A j \in SeatIndex \ {k} : OfferTo(seats, k, i)[j] = seats[j]
             /\ OfferTo(seats, k, i)[k].status = "offered"
             /\ OfferTo(seats, k, i)[k].who = i
             /\ OfferTo(seats, k, i)[k].declined = seats[k].declined
  BY <1>1 DEF OfferTo, Panels
<1> QED BY <1>1, <1>2, <1>3, <1>4 DEF Partly

LEMMA PartlySame == \A seats : Partly(seats, seats)
BY DEF Partly

\* The engine finds enough people, or hands the interview to a human.
LEMMA Assigning ==
    ASSUME IInv, LifeInv, NEW t \in Threads, AssignPanel(t)
    PROVE  LifeInv'
<1>1. PICK r, s : r = th[t].req /\ s = th[t]
  OBVIOUS
<1>2. s.pc = "live" /\ s.op = "select" /\ row' = row
  BY <1>1 DEF AssignPanel
<1>3. s \in Thread /\ s.work \in Row /\ CopyLive(s, row[r])
  BY <1>1, <1>2, Busy DEF Copy
<1>4. /\ s.snap = row[r] /\ Chosen(s.work, row[r])
      /\ s.work.status = "assigning_panel" /\ s.work.seats = FreshSeats
  BY <1>2, <1>3 DEF CopyLive
<1>5. PICK F \in SUBSET FreeInterviewers(t), refreshed \in BOOLEAN :
        Become(t, ExpireIf(refreshed,
                     IF Cardinality(F) < PanelistsRequired
                     THEN [s EXCEPT !.pc = "persist",
                                    !.work.status = "manual_scheduling_required"]
                     ELSE [s EXCEPT !.pc = "fill", !.feas = F]))
  BY <1>1 DEF AssignPanel, Refreshes
<1>6. PICK work : work = [s.work EXCEPT !.status = "manual_scheduling_required"]
  OBVIOUS
<1>7. /\ work \in Row /\ work.status = "manual_scheduling_required"
      /\ work.seats = FreshSeats /\ work.slot = s.work.slot
  BY <1>3, <1>4, <1>6 DEF Row, Statuses, InterviewStatuses
<1>8. PICK u : u = IF Cardinality(F) < PanelistsRequired
                   THEN [s EXCEPT !.pc = "persist", !.work = work]
                   ELSE [s EXCEPT !.pc = "fill", !.feas = F]
  OBVIOUS
<1>9. /\ u \in Thread /\ u.pc \in {"fill", "persist"} /\ u.req = r /\ u.todo = s.todo
      /\ Copy(u, row[r])
  <2>1. CASE Cardinality(F) < PanelistsRequired
    <3>1. u = [s EXCEPT !.pc = "persist", !.work = work]
      BY <1>8, <2>1
    <3>2. /\ u \in Thread /\ u.pc = "persist" /\ u.req = r /\ u.todo = s.todo
          /\ u.op = "select" /\ u.work = work /\ u.snap = s.snap
      BY <1>1, <1>2, <1>3, <1>7, <3>1 DEF Thread, Pcs
    <3> QED BY <1>4, <1>7, <3>2 DEF Copy, CopyPersist, Chosen
  <2>2. CASE ~(Cardinality(F) < PanelistsRequired)
    <3>1. u = [s EXCEPT !.pc = "fill", !.feas = F] /\ F \in SUBSET Interviewers
      BY <1>8, <2>2 DEF FreeInterviewers
    <3>2. /\ u \in Thread /\ u.pc = "fill" /\ u.req = r /\ u.todo = s.todo
          /\ u.op = "select" /\ u.work = s.work /\ u.snap = s.snap
      BY <1>1, <1>2, <1>3, <3>1 DEF Thread, Pcs
    <3>3. Opened(u, row[r], FreshSeats) /\ Partly(FreshSeats, u.work.seats)
      BY <1>4, <3>2, PartlySame DEF Opened, Chosen
    <3> QED BY <1>4, <3>2, <3>3, EmptyPanels DEF Copy, CopyFill
  <2> QED BY <2>1, <2>2
<1>10. PICK v : v = ExpireIf(refreshed, u)
  OBVIOUS
<1>11. /\ v \in Thread /\ v.pc \in {"fill", "persist"} /\ v.req = r /\ v.todo = s.todo
       /\ Copy(v, row[r])
  BY <1>9, <1>10, Refreshed
<1>12. Become(t, v)
  <2>1. [s EXCEPT !.pc = "persist", !.work.status = "manual_scheduling_required"]
          = [s EXCEPT !.pc = "persist", !.work = work]
    BY <1>3, <1>6 DEF Thread
  <2> QED BY <1>5, <1>8, <1>10, <2>1
<1> QED BY <1>1, <1>2, <1>11, <1>12, Continuing

\* Seats are given back, and the engine looks for others.
LEMMA GivingBack ==
    ASSUME IInv, LifeInv, NEW t \in Threads, Reopening(t)
    PROVE  LifeInv'
<1>1. PICK r, s, K : r = th[t].req /\ s = th[t] /\ K = th[t].targets
  OBVIOUS
<1>2. /\ s.pc = "live" /\ s.op \in {"decline", "interviewer_cancel", "sweep"}
      /\ s.op = "interviewer_cancel" => CancelAllowed(t)
      /\ row' = row
  BY <1>1 DEF Reopening
<1>3. s \in Thread /\ CopyLive(s, row[r]) /\ row[r] \in Row /\ row[r].seats \in Panels
  BY <1>1, <1>2, Busy DEF Copy
<1>4. s.snap = row[r] /\ s.work = row[r] /\ HasInterview(row[r])
  BY <1>2, <1>3 DEF CopyLive, On
<1>5. PICK after : after = Reopen(row[r].seats, K)
  OBVIOUS
<1>6. K \in SUBSET SeatIndex /\ after \in Panels
  <2>1. PanelOK(row[r].seats) /\ K \in SUBSET SeatIndex
    BY <1>1, <1>3, <1>4, ThreadFacts DEF Thread
  <2>2. \A k \in K : Held(row[r].seats, k)
    BY <1>1, <1>2, <1>4, ThreadFacts DEF GoodThread, ThreadOK
  <2> QED BY <1>3, <1>5, <2>1, <2>2, ReopenSound
<1>7. PICK F \in SUBSET FreeInterviewers(t), refreshed \in BOOLEAN,
           D \in FoundOffers(r, s.work.seats, K) :
        Become(t, ExpireIf(refreshed, [s EXCEPT
                         !.pc = "fill",
                         !.feas = F,
                         !.targets = {},
                         !.released = D,
                         !.cancelled = IF refreshed THEN {} ELSE @,
                         !.work.seats = Reopen(@, K),
                         !.work.status = IF s.op = "interviewer_cancel"
                                         THEN "assigning_panel" ELSE @]))
  <2>1. Refreshes \subseteq BOOLEAN
    BY DEF Refreshes
  <2>2. PICK F \in SUBSET FreeInterviewers(t), refreshed \in Refreshes,
             D \in FoundOffers(th[t].req, th[t].work.seats, th[t].targets) :
          Become(t, ExpireIf(refreshed, [th[t] EXCEPT
                         !.pc = "fill",
                         !.feas = F,
                         !.targets = {},
                         !.released = D,
                         !.cancelled = IF refreshed THEN {} ELSE @,
                         !.work.seats = Reopen(@, th[t].targets),
                         !.work.status = IF th[t].op = "interviewer_cancel"
                                         THEN "assigning_panel" ELSE @]))
    BY DEF Reopening
  <2> QED BY <1>1, <2>1, <2>2
<1>8. PICK status, work, C :
        /\ status = IF s.op = "interviewer_cancel" THEN "assigning_panel" ELSE s.work.status
        /\ work = [s.work EXCEPT !.seats = after, !.status = status]
        /\ C = IF refreshed THEN {} ELSE s.cancelled
  OBVIOUS
<1>9. /\ work \in Row /\ work.seats = after /\ work.status = status /\ work.slot = row[r].slot
  <2>1. status \in Statuses
    BY <1>3, <1>4, <1>8 DEF Row, Statuses, InterviewStatuses
  <2> QED BY <1>3, <1>4, <1>6, <1>8, <2>1 DEF Row
<1>10. PICK u : u = [s EXCEPT !.pc = "fill", !.feas = F, !.targets = {}, !.released = D,
                              !.cancelled = C, !.work = work]
  OBVIOUS
<1>11. /\ u \in Thread /\ u.pc = "fill" /\ u.req = s.req /\ u.todo = s.todo /\ u.op = s.op
       /\ u.work = work /\ u.snap = s.snap
  <2>1. F \in SUBSET Interviewers /\ D \in SUBSET Offer /\ C \in SUBSET Participant
    BY <1>3, <1>8 DEF FreeInterviewers, FoundOffers, HeldOffers, OffersOf, IInv, TypeOK, Thread
  <2> QED BY <1>3, <1>9, <1>10, <2>1 DEF Thread, Pcs
<1>12. Opened(u, row[r], after)
  <2>1. CASE s.op = "interviewer_cancel"
    <3>1. /\ row[r].status \in {"assigning_panel", "panel_complete"} /\ K # {}
          /\ \E i \in Interviewers : K = Sits(row[r], i)
      BY <1>1, <1>2, <1>3, <1>4, <2>1 DEF CopyLive, CancelAllowed
    <3> QED BY <1>4, <1>5, <1>8, <1>9, <1>11, <2>1, <3>1 DEF Opened
  <2>2. CASE s.op # "interviewer_cancel"
    <3>1. On(row[r]) /\ K # {} /\ K \in SUBSET SeatsWith(row[r].seats, "offered")
      BY <1>1, <1>2, <1>3, <2>2 DEF CopyLive
    <3> QED BY <1>2, <1>4, <1>5, <1>8, <1>9, <1>11, <2>2, <3>1 DEF Opened
  <2> QED BY <2>1, <2>2
<1>13. Copy(u, row[r])
  BY <1>4, <1>6, <1>9, <1>11, <1>12, PartlySame DEF Copy, CopyFill
<1>14. PICK v : v = ExpireIf(refreshed, u)
  OBVIOUS
<1>15. v \in Thread /\ v.pc = "fill" /\ v.req = s.req /\ v.todo = s.todo /\ Copy(v, row[r])
  BY <1>11, <1>13, <1>14, Refreshed
<1>16. Become(t, v)
  <2>1. [s EXCEPT !.pc = "fill",
                  !.feas = F,
                  !.targets = {},
                  !.released = D,
                  !.cancelled = IF refreshed THEN {} ELSE @,
                  !.work.seats = Reopen(@, K),
                  !.work.status = IF s.op = "interviewer_cancel"
                                  THEN "assigning_panel" ELSE @] = u
    BY <1>3, <1>4, <1>5, <1>8, <1>10 DEF Thread, Row
  <2> QED BY <1>7, <1>14, <2>1
<1> QED BY <1>1, <1>2, <1>15, <1>16, Continuing

\* The fill loop finds somebody for a seat, or nobody.
LEMMA Filling ==
    ASSUME IInv, LifeInv, NEW t \in Threads, NEW k \in SeatIndex,
           \/ \E i \in Interviewers : OfferSeat(t, k, i)
           \/ ExhaustSeat(t, k)
    PROVE  LifeInv'
<1>1. PICK r, s : r = th[t].req /\ s = th[t]
  OBVIOUS
<1>2. s.pc = "fill" /\ k \in SeatsWith(s.work.seats, "pending") /\ row' = row
  BY <1>1 DEF OfferSeat, ExhaustSeat, IsNextPending
<1>3. /\ s \in Thread /\ CopyFill(s, row[r]) /\ PanelOK(s.work.seats)
      /\ s.work.seats \in Panels /\ s.work.seats[k].status = "pending"
  BY <1>1, <1>2, Busy, ThreadFacts DEF Copy, SeatsWith
<1>4. s.expired \/ s.snap = row[r]
  BY <1>3 DEF CopyFill
<1>5. PICK before \in Panels : Opened(s, row[r], before) /\ Partly(before, s.work.seats)
  BY <1>3 DEF CopyFill
<1>6. ASSUME NEW seats \in Panels, Partly(before, seats), NEW u, u = WithSeats(t, seats)
      PROVE  /\ u \in Thread /\ u.pc \in {"fill", "persist"} /\ u.req = r /\ u.todo = s.todo
             /\ Copy(u, row[r])
  <2>1. /\ u \in Thread /\ u.op = s.op /\ u.req = r /\ u.todo = s.todo
        /\ u.work.status = s.work.status /\ u.work.seats = seats /\ u.work.slot = s.work.slot
        /\ u.snap = s.snap /\ (s.expired => u.expired)
        /\ u.pc \in {"fill", "persist"}
        /\ u.pc = "persist" => SeatsWith(seats, "pending") = {}
    BY <1>1, <1>2, <1>6, WithSeatsFields
  <2>2. Opened(u, row[r], before) /\ u.op # "accept"
    BY <1>5, <2>1 DEF Opened, Chosen
  <2> QED BY <1>4, <1>6, <2>1, <2>2 DEF Copy, CopyFill, CopyPersist
<1>7. CASE ExhaustSeat(t, k)
  <2>1. PICK u : u = WithSeats(t, Exhaust(s.work.seats, k))
    OBVIOUS
  <2>2. Exhaust(s.work.seats, k) \in Panels /\ Partly(before, Exhaust(s.work.seats, k))
    BY <1>2, <1>3, <1>5, ExhaustSound, PartlyOn
  <2>3. Become(t, u)
    BY <1>1, <1>7, <2>1 DEF ExhaustSeat
  <2> QED BY <1>1, <1>2, <1>6, <2>1, <2>2, <2>3, Continuing
<1>8. ASSUME NEW i \in Interviewers, OfferSeat(t, k, i) PROVE LifeInv'
  <2>1. PICK seats : seats = OfferTo(s.work.seats, k, i)
    OBVIOUS
  <2>2. seats \in Panels /\ Partly(before, seats)
    <3>1. i \notin Excluded(s.work.seats, k)
      BY <1>1, <1>8 DEF OfferSeat, Candidates
    <3> QED BY <1>2, <1>3, <1>5, <2>1, <3>1, OfferToSound, PartlyOn
  <2>3. PICK u : u = WithSeats(t, seats)
    OBVIOUS
  <2>4. /\ u \in Thread /\ u.pc \in {"fill", "persist"} /\ u.req = r /\ u.todo = s.todo
        /\ Copy(u, row[r])
    BY <1>6, <2>2, <2>3
  <2>5. PICK v : v = [u EXCEPT !.released = {}, !.cancelled = {}]
    OBVIOUS
  <2>6. /\ v \in Thread /\ v.pc = u.pc /\ v.req = u.req /\ v.todo = u.todo
        /\ v.op = u.op /\ v.work = u.work /\ v.snap = u.snap /\ v.expired = u.expired
    BY <2>4, <2>5 DEF Thread
  <2>7. Copy(v, row[r])
    BY <2>4, <2>6 DEF Copy, CopyFill, CopyPersist, Opened
  <2>8. PICK w : w = ExpireIf(TRUE, v)
    OBVIOUS
  <2>9. /\ w \in Thread /\ w.pc \in {"fill", "persist"} /\ w.req = r /\ w.todo = s.todo
        /\ Copy(w, row[r])
    BY <2>4, <2>6, <2>7, <2>8, Refreshed
  <2>10. Become(t, w)
    BY <1>1, <1>8, <2>1, <2>3, <2>5, <2>8 DEF OfferSeat, ExpireIf
  <2> QED BY <1>1, <1>2, <2>9, <2>10, Continuing
<1> QED BY <1>7, <1>8

\* Steps that leave the rows as they are.
LEMMA PassingOn ==
    ASSUME IInv, LifeInv, NEW t \in Threads,
           \/ SkipDispatch(t) \/ RefuseCancel(t) \/ Abort(t)
           \/ CreateEvent(t) \/ DeleteEvent(t) \/ Resubmit(t)
    PROVE  LifeInv' /\ row' = row
<1>1. CASE SkipDispatch(t) \/ RefuseCancel(t) \/ Abort(t)
  <2>1. row' = row /\ (Become(t, Idle) \/ Become(t, GoOnWith(th[t].todo)))
    BY <1>1 DEF SkipDispatch, RefuseCancel, Abort, Afterwards
  <2>2. th[t].todo \in SUBSET th[t].todo
    OBVIOUS
  <2> QED BY <2>1, <2>2, Ending
<1>2. ASSUME NEW pc \in {"record", "resubmit"}, NEW event \in 0 .. MaxEvents, row' = row,
             th[t].pc \notin {"idle", "sweep"},
             Become(t, [th[t] EXCEPT !.pc = pc, !.event = event])
      PROVE  LifeInv'
  <2>1. PICK u : u = [th[t] EXCEPT !.pc = pc, !.event = event]
    OBVIOUS
  <2>2. u \in Thread /\ u.pc = pc /\ u.req = th[t].req /\ u.todo = th[t].todo
    BY <2>1, ThreadFacts DEF Thread, Pcs
  <2>3. Copy(u, row[th[t].req])
    BY <2>2 DEF Copy
  <2> QED BY <1>2, <2>1, <2>2, <2>3, Continuing
<1>3. CASE CreateEvent(t)
  <2>1. PICK r : r = th[t].req
    OBVIOUS
  <2>2. made[r] + 1 \in 0 .. MaxEvents /\ th[t].pc = "dispatch" /\ row' = row
    <3>1. r \in Requests /\ th[t].pc = "dispatch" /\ made[r] < MaxEvents /\ row' = row
      BY <1>3, <2>1, Busy DEF CreateEvent
    <3>2. made[r] \in 0 .. MaxEvents /\ MaxEvents \in Nat
      BY <3>1, ServiceAssumption DEF IInv, TypeOK
    <3> QED BY <3>1, <3>2
  <2>3. Become(t, [th[t] EXCEPT !.pc = "record", !.event = made[r] + 1])
    BY <1>3, <2>1 DEF CreateEvent
  <2> QED BY <1>2, <2>2, <2>3
<1>4. ASSUME Become(t, [th[t] EXCEPT !.pc = "resubmit"]), th[t].pc \notin {"idle", "sweep"},
             row' = row
      PROVE  LifeInv'
  <2>1. /\ th[t].event \in 0 .. MaxEvents
        /\ [th[t] EXCEPT !.pc = "resubmit"] =
              [th[t] EXCEPT !.pc = "resubmit", !.event = th[t].event]
    BY ThreadFacts DEF Thread
  <2> QED BY <1>2, <1>4, <2>1
<1>5. CASE DeleteEvent(t)
  <2>1. /\ th[t].pc = "delete" /\ row' = row
        /\ Become(t, Idle) \/ Become(t, [th[t] EXCEPT !.pc = "resubmit"])
    BY <1>5 DEF DeleteEvent
  <2> QED BY <1>4, <2>1, Ending
<1>6. CASE Resubmit(t)
  <2>1. PICK r : r = th[t].req
    OBVIOUS
  <2>2. /\ th[t].pc = "resubmit" /\ row' = row
        /\ \/ Become(t, Idle)
           \/ /\ row[r].status = "collecting_availability"
              /\ Become(t, Loaded("search", "submit", r))
    BY <1>6, <2>1 DEF Resubmit
  <2>3. r \in Requests
    BY <2>1, <2>2, Busy
  <2>4. PICK u : u = Loaded("search", "submit", r)
    OBVIOUS
  <2>5. u \in Thread /\ u.pc = "search" /\ u.req = r /\ u.todo = {}
    <3>1. "search" \in Pcs /\ "submit" \in Ops
      BY DEF Pcs, Ops
    <3> QED BY <2>3, <2>4, <3>1, LoadedFields
  <2>6. row[r].status = "collecting_availability" => Copy(u, row[r])
    BY <2>5 DEF Copy
  <2> QED BY <2>1, <2>2, <2>4, <2>5, <2>6, Continuing, Ending
<1> QED BY <1>1, <1>3, <1>5, <1>6 DEF SkipDispatch, RefuseCancel, Abort, CreateEvent,
                                      DeleteEvent, Resubmit

-----------------------------------------------------------------------------
(* The commits, and what the rows tell after them                          *)

LEMMA StoryTold ==
    ASSUME IInv, NEW r \in Requests, NEW rw \in Row, row' = [row EXCEPT ![r] = rw]
    PROVE  /\ Stories' = [Stories EXCEPT ![r] = Story(rw)]
           /\ Stories[r] = Story(row[r]) /\ DOMAIN Stories = Requests
<1>1. row'[r] = rw /\ \A q \in Requests \ {r} : row'[q] = row[q]
  BY RowsApart
<1>2. \A q \in Requests : Story(row'[q]) = [Stories EXCEPT ![r] = Story(rw)][q]
  BY <1>1 DEF Stories
<1>3. Stories' = [q \in Requests |-> Story(row'[q])]
  BY DEF Stories, Story
<1> QED BY <1>2, <1>3 DEF Stories

LEMMA RowsTell ==
    \A q \in Requests :
        /\ Stories[q].status = row[q].status /\ Stories[q].seats = row[q].seats
        /\ Stories[q].slot = row[q].slot /\ Stories[q].feasible = row[q].feasible
BY DEF Stories, Story

LEMMA SameStories ==
    /\ row' = row => Stories' = Stories
    /\ \A old, new : /\ new.status = old.status /\ new.seats = old.seats
                     /\ new.slot = old.slot /\ new.feasible = old.feasible
                     => Story(new) = Story(old)
BY DEF Stories, Story

\* The two modules mean the same by these names.
LEMMA SameSeats ==
    /\ Lifecycle!SeatIndex = SeatIndex
    /\ Lifecycle!NoSeats = NoSeats /\ Lifecycle!FreshSeats = FreshSeats
    /\ \A seats, status : Lifecycle!SeatsWith(seats, status) = SeatsWith(seats, status)
    /\ \A seats, status : Lifecycle!Resolve(status, seats) = Resolve(status, seats)
    /\ \A seats, k : Lifecycle!Accept(seats, k) = Accept(seats, k)
    /\ \A seats, K : Lifecycle!Reopen(seats, K) = Reopen(seats, K)
    /\ \A seats : Lifecycle!PanelistsDistinct(seats) <=> PanelistsDistinct(seats)
    /\ \A seats : Lifecycle!DeclinersStayAway(seats) <=> DeclinersStayAway(seats)
<1>1. Lifecycle!SeatIndex = SeatIndex
  BY DEF Lifecycle!SeatIndex, SeatIndex
<1>2. /\ Lifecycle!NoSeats = NoSeats /\ Lifecycle!FreshSeats = FreshSeats
  BY <1>1 DEF Lifecycle!NoSeats, NoSeats, Lifecycle!FreshSeats, FreshSeats
<1>3. \A seats, status : Lifecycle!SeatsWith(seats, status) = SeatsWith(seats, status)
  BY <1>1 DEF Lifecycle!SeatsWith, SeatsWith
<1>4. \A seats, status : Lifecycle!Resolve(status, seats) = Resolve(status, seats)
  BY <1>1, <1>3 DEF Lifecycle!Resolve, Resolve
<1>5. \A seats, k : Lifecycle!Accept(seats, k) = Accept(seats, k)
  BY DEF Lifecycle!Accept, Accept
<1>6. \A seats, K : Lifecycle!Reopen(seats, K) = Reopen(seats, K)
  BY <1>1 DEF Lifecycle!Reopen, Reopen
<1>7. \A seats : Lifecycle!PanelistsDistinct(seats) <=> PanelistsDistinct(seats)
  BY <1>1 DEF Lifecycle!PanelistsDistinct, PanelistsDistinct, Lifecycle!Held, Held
<1>8. \A seats : Lifecycle!DeclinersStayAway(seats) <=> DeclinersStayAway(seats)
  BY <1>1 DEF Lifecycle!DeclinersStayAway, DeclinersStayAway, Lifecycle!Held, Held
<1> QED BY <1>1, <1>2, <1>3, <1>4, <1>5, <1>6, <1>7, <1>8

\* A handler that writes its row and is done, or goes on outside the database.
LEMMA Writing ==
    ASSUME IInv, LifeInv, NEW t \in Threads, th[t].pc \notin {"idle", "sweep"},
           NEW r, r = th[t].req, NEW rw \in Row, row' = [row EXCEPT ![r] = rw],
           rw.status # "absent", RowSettled(rw),
           NEW state \in Thread, Become(t, state), state.todo \subseteq th[t].todo,
           \/ state.pc \in {"idle", "sweep"} /\ state.req = NoRequest
           \/ state.pc \in {"dispatch", "delete", "resubmit"} /\ state.req = r
    PROVE  LifeInv'
<1>1. r \in Requests /\ r \notin th[t].todo
  BY Busy
<1>2. Claims(t, state)
  <2>1. /\ NoRequest \notin Requests /\ th[t].todo \subseteq Requests
        /\ WorksOn(t, r) /\ row[r].status # "absent"
    BY <1>1, Busy, ServiceAssumption DEF WorksOn, Thread
  <2>2. \A q \in th[t].todo : WorksOn(t, q) /\ row[q].status = "assigning_panel"
    BY DEF LifeInv, WorksOn
  <2>3. state.req \notin state.todo
    BY <1>1, <2>1
  <2> QED BY <1>1, <2>1, <2>2, <2>3 DEF Claims, Become
<1>3. row'[r] = rw /\ th'[t] = state
  <2>1. row'[r] = rw
    BY <1>1 DEF IInv, TypeOK
  <2>2. th'[t] = state
    BY <1>2, ThreadTurns
  <2> QED BY <2>1, <2>2
<1>4. Holds(t)'
  BY <1>1, <1>3 DEF Holds, Copy
<1>5. r \notin state.todo /\ state.req \in {r, NoRequest}
  BY <1>1
<1> QED BY <1>1, <1>2, <1>4, <1>5, RowWritten

\* A row without its event.
Told == [status : Statuses, seats : Panels, slot : Slots \cup {NoSlot}, feasible : SUBSET Slots]

\* What the abstract calls say of a row, said of the row that is written.
LEMMA StoryChanges ==
    ASSUME IInv, NEW r \in Requests, NEW rw \in Row, row' = [row EXCEPT ![r] = rw],
           rw.feasible = row[r].feasible
    PROVE  /\ Stories' = [Stories EXCEPT ![r].status = rw.status, ![r].seats = rw.seats,
                                         ![r].slot = rw.slot]
           /\ rw.slot = row[r].slot =>
                Stories' = [Stories EXCEPT ![r].status = rw.status, ![r].seats = rw.seats]
           /\ rw.slot = row[r].slot /\ rw.seats = row[r].seats =>
                Stories' = [Stories EXCEPT ![r].status = rw.status]
<1>1. PICK old : old = Story(row[r])
  OBVIOUS
<1>2. /\ Stories' = [Stories EXCEPT ![r] = Story(rw)]
      /\ Stories[r] = old /\ DOMAIN Stories = Requests
  BY <1>1, StoryTold
<1>3. PICK new : new = Story(rw)
  OBVIOUS
<1>4. /\ new \in Told /\ old \in Told
      /\ new.status = rw.status /\ new.seats = rw.seats /\ new.slot = rw.slot
      /\ new.feasible = old.feasible
      /\ old.status = row[r].status /\ old.seats = row[r].seats /\ old.slot = row[r].slot
  BY <1>1, <1>3 DEF Story, Told, Row, IInv, TypeOK
<1>5. /\ new = [old EXCEPT !.status = rw.status, !.seats = rw.seats, !.slot = rw.slot]
      /\ rw.slot = row[r].slot => new = [old EXCEPT !.status = rw.status, !.seats = rw.seats]
      /\ rw.slot = row[r].slot /\ rw.seats = row[r].seats => new = [old EXCEPT !.status = rw.status]
  BY <1>4 DEF Told
<1>6. PICK told : told = Stories /\ told = [q \in Requests |-> Story(row[q])]
  BY DEF Stories
<1> QED BY <1>2, <1>3, <1>4, <1>5, <1>6 DEF Told

\* A panel filled to the end is one the abstract call allows.
LEMMA FillingsFound ==
    ASSUME NEW before \in Panels, NEW after \in Panels, Partly(before, after),
           SeatsWith(after, "pending") = {}, PanelOK(after)
    PROVE  after \in Lifecycle!Fillings(before)
<1>1. PICK pick : pick = [k \in SeatsWith(before, "pending") |->
                            IF after[k].status = "offered" THEN after[k].who ELSE NoOne]
  OBVIOUS
<1>2. \A k \in SeatIndex : after[k] \in Seat /\ before[k] \in Seat
  BY DEF Panels
<1>3. pick \in [SeatsWith(before, "pending") -> Interviewers \cup {NoOne}]
  BY <1>1, <1>2 DEF Seat, SeatsWith
<1>4. ASSUME NEW k \in SeatIndex
      PROVE  after[k] = IF before[k].status # "pending" THEN before[k]
                        ELSE IF pick[k] = NoOne THEN [before[k] EXCEPT !.status = "exhausted"]
                        ELSE [before[k] EXCEPT !.status = "offered", !.who = pick[k]]
  <2>1. CASE before[k].status # "pending"
    BY <2>1 DEF Partly
  <2>2. CASE before[k].status = "pending"
    <3>1. after[k].status # "pending" /\ k \in SeatsWith(before, "pending")
      BY <2>2 DEF SeatsWith
    <3>2. /\ after[k].declined = before[k].declined
          /\ \/ after[k].status = "exhausted" /\ after[k].who = before[k].who
             \/ after[k].status = "offered" /\ after[k].who \in Interviewers
      BY <2>2, <3>1 DEF Partly
    <3>3. CASE after[k].status = "exhausted" /\ after[k].who = before[k].who
      <4>1. pick[k] = NoOne
        BY <1>1, <3>1, <3>3
      <4> QED BY <1>2, <2>2, <3>2, <3>3, <4>1 DEF Seat
    <3>4. CASE after[k].status = "offered" /\ after[k].who \in Interviewers
      <4>1. pick[k] = after[k].who /\ pick[k] # NoOne
        BY <1>1, <3>1, <3>4, PanelAssumption
      <4> QED BY <1>2, <2>2, <3>2, <3>4, <4>1 DEF Seat
    <3> QED BY <3>2, <3>3, <3>4
  <2> QED BY <2>1, <2>2
<1>5. after = Lifecycle!Seated(before, pick)
  BY <1>4, SameSeats DEF Lifecycle!Seated, Panels
<1>6. PanelistsDistinct(after) /\ DeclinersStayAway(after)
  BY DEF PanelOK
<1> QED BY <1>3, <1>5, <1>6, SameSeats DEF Lifecycle!Fillings

\* ... and the engine may resolve the status from it.
LEMMA FilledWell ==
    ASSUME NEW rw \in Row, RowSettled(rw), NEW s, s.work \in Row,
           NEW before \in Panels, Opened(s, rw, before), Partly(before, s.work.seats)
    PROVE  Open(s.work.seats) /\ Undecided(s.work)
<1>1. ASSUME Open(before) PROVE Open(s.work.seats)
  BY <1>1 DEF Open, Partly
<1>2. CASE s.op = "select" /\ s.work.status = "assigning_panel" /\ before = FreshSeats
  BY <1>1, <1>2, EmptyOpen DEF Undecided
<1>3. ASSUME On(rw) \/ HasInterview(rw), NEW K, before = Reopen(rw.seats, K)
      PROVE  Open(before)
  BY <1>3 DEF RowSettled, On, HasInterview, Open, Reopen
<1>4. CASE s.op \in {"decline", "sweep"} /\ On(rw) /\ s.work.status = rw.status
  <2>1. PICK K \in SUBSET SeatsWith(rw.seats, "offered") : K # {} /\ before = Reopen(rw.seats, K)
    BY <1>4 DEF Opened
  <2>2. StatusTrue(rw.status, rw.seats) /\ rw.status \in InterviewStatuses \ {"cancelled"}
    BY <1>4 DEF RowSettled, On, HasInterview
  <2>3. PICK k \in K : k \in SeatIndex /\ rw.seats[k].status = "offered"
    BY <2>1 DEF SeatsWith
  <2>4. rw.status # "panel_complete"
    BY <2>2, <2>3 DEF StatusTrue, SeatsWith
  <2>5. ASSUME rw.status = "manual_scheduling_required"
        PROVE  SeatsWith(s.work.seats, "exhausted") # {}
    <3>1. rw.seats # FreshSeats
      BY <2>3 DEF FreshSeats
    <3>2. PICK j \in SeatIndex : rw.seats[j].status = "exhausted"
      BY <2>2, <2>5, <3>1 DEF StatusTrue, SeatsWith
    <3>3. before[j].status = "exhausted"
      BY <2>1, <3>2 DEF Reopen, SeatsWith
    <3>4. s.work.seats[j].status = "exhausted"
      BY <3>3 DEF Partly
    <3> QED BY <3>2, <3>4 DEF SeatsWith
  <2> QED BY <1>1, <1>3, <1>4, <2>1, <2>2, <2>4, <2>5 DEF Undecided, InterviewStatuses
<1>5. CASE s.op = "interviewer_cancel" /\ HasInterview(rw) /\ s.work.status = "assigning_panel"
  <2>1. PICK K : before = Reopen(rw.seats, K)
    BY <1>5 DEF Opened
  <2> QED BY <1>1, <1>3, <1>5, <2>1 DEF Undecided
<1> QED BY <1>2, <1>4, <1>5 DEF Opened

\* A seat is accepted.
LEMMA AcceptTold ==
    ASSUME IInv, NEW r \in Requests, NEW rw \in Row, row' = [row EXCEPT ![r] = rw],
           rw.feasible = row[r].feasible, rw.slot = row[r].slot, On(row[r]),
           NEW k \in SeatsWith(row[r].seats, "offered"), rw.seats = Accept(row[r].seats, k),
           rw.status = Resolve(row[r].status, rw.seats)
    PROVE  Lifecycle!Call(r)
<1>1. Stories' = [Stories EXCEPT ![r].status = rw.status, ![r].seats = rw.seats]
  BY StoryChanges
<1>2. Stories[r].status = row[r].status /\ Stories[r].seats = row[r].seats
  BY RowsTell
<1>3. Lifecycle!Becomes(r, Stories[r].status, Lifecycle!Accept(Stories[r].seats, k))
  BY <1>1, <1>2, SameSeats DEF Lifecycle!Becomes
<1>4. Lifecycle!Underway(r)
  BY <1>2 DEF Lifecycle!Underway, On, HasInterview, InterviewStatuses
<1>5. k \in SeatIndex
  BY DEF SeatsWith
<1> QED BY <1>2, <1>3, <1>4, <1>5, SameSeats DEF Lifecycle!AcceptSeat, Lifecycle!Call

\* Seats are filled after they were opened.
LEMMA FilledTold ==
    ASSUME IInv, NEW r \in Requests, NEW rw \in Row, row' = [row EXCEPT ![r] = rw],
           rw.feasible = row[r].feasible, NEW s, rw.seats = s.work.seats, rw.slot = s.work.slot,
           rw.slot \in Slots, rw.status = Resolve(s.work.status, rw.seats),
           NEW before \in Panels, Opened(s, row[r], before),
           rw.seats \in Lifecycle!Fillings(before)
    PROVE  Lifecycle!Call(r)
<1>1. PICK seats, old : seats = rw.seats /\ old = row[r].seats
  OBVIOUS
<1>2. /\ Stories[r].status = row[r].status /\ Stories[r].seats = old
      /\ Stories[r].feasible = row[r].feasible
  BY <1>1, RowsTell
<1>3. ASSUME rw.slot = row[r].slot, NEW status, rw.status = Resolve(status, seats)
      PROVE  Lifecycle!Becomes(r, status, seats)
  <2>1. Stories' = [Stories EXCEPT ![r].status = rw.status, ![r].seats = seats]
    BY <1>1, <1>3, StoryChanges
  <2> QED BY <1>3, <2>1, SameSeats DEF Lifecycle!Becomes
<1>4. CASE s.op = "select" /\ Chosen(s.work, row[r]) /\ s.work.status = "assigning_panel"
           /\ before = FreshSeats
  <2>1. Stories' = [Stories EXCEPT ![r].status = rw.status, ![r].seats = seats,
                                   ![r].slot = rw.slot]
    BY <1>1, StoryChanges
  <2>2. seats \in Lifecycle!Fillings(Lifecycle!FreshSeats)
    BY <1>1, <1>4, SameSeats
  <2>3. rw.status = Lifecycle!Resolve("assigning_panel", seats)
    BY <1>1, <1>4, SameSeats
  <2>4. Lifecycle!Select(r, rw.slot)
    BY <1>2, <1>4, <2>1, <2>2, <2>3 DEF Lifecycle!Select, Chosen
  <2> QED BY <2>4 DEF Lifecycle!Call
<1>5. CASE s.op \in {"decline", "sweep"} /\ On(row[r]) /\ s.work.status = row[r].status
           /\ s.work.slot = row[r].slot
  <2>1. PICK K \in SUBSET SeatsWith(old, "offered") : K # {} /\ before = Reopen(old, K)
    BY <1>1, <1>5 DEF Opened
  <2>2. Lifecycle!Becomes(r, Stories[r].status, seats)
    BY <1>1, <1>2, <1>3, <1>5
  <2>3. Lifecycle!Underway(r)
    BY <1>2, <1>5 DEF Lifecycle!Underway, On, HasInterview, InterviewStatuses
  <2>4. seats \in Lifecycle!Fillings(Lifecycle!Reopen(Stories[r].seats, K))
    BY <1>1, <1>2, <2>1, SameSeats
  <2>5. Lifecycle!GiveBack(r, K)
    BY <1>2, <2>1, <2>2, <2>3, <2>4, SameSeats DEF Lifecycle!GiveBack
  <2>6. K \in SUBSET SeatIndex
    BY <2>1 DEF SeatsWith
  <2> QED BY <2>5, <2>6, SameSeats DEF Lifecycle!Call
<1>6. CASE s.op = "interviewer_cancel" /\ s.work.status = "assigning_panel"
           /\ s.work.slot = row[r].slot
           /\ row[r].status \in {"assigning_panel", "panel_complete"}
  <2>1. PICK i \in Interviewers : Sits(row[r], i) # {} /\ before = Reopen(old, Sits(row[r], i))
    BY <1>1, <1>6 DEF Opened
  <2>2. PICK K : K = Sits(row[r], i)
    OBVIOUS
  <2>3. K = {k \in Lifecycle!SeatsWith(Stories[r].seats, "accepted") : Stories[r].seats[k].who = i}
    BY <1>1, <1>2, <2>2, SameSeats DEF Sits
  <2>4. Lifecycle!Becomes(r, "assigning_panel", seats)
    BY <1>1, <1>3, <1>6
  <2>5. seats \in Lifecycle!Fillings(Lifecycle!Reopen(Stories[r].seats, K))
    BY <1>1, <1>2, <2>1, <2>2, SameSeats
  <2>6. Lifecycle!BackOut(r, i)
    BY <1>2, <1>6, <2>1, <2>2, <2>3, <2>4, <2>5 DEF Lifecycle!BackOut
  <2> QED BY <2>6 DEF Lifecycle!Call
<1> QED BY <1>4, <1>5, <1>6 DEF Opened

\* Too few people are free: the empty panel is left to a human.
LEMMA EmptyTold ==
    ASSUME IInv, NEW r \in Requests, NEW rw \in Row, row' = [row EXCEPT ![r] = rw],
           rw.feasible = row[r].feasible, Chosen(rw, row[r]), rw.slot \in Slots,
           rw.seats = FreshSeats, rw.status = "manual_scheduling_required"
    PROVE  Lifecycle!Call(r)
<1>1. Stories' = [Stories EXCEPT ![r].status = rw.status, ![r].seats = rw.seats,
                                 ![r].slot = rw.slot]
  BY StoryChanges
<1>2. Stories[r].status = row[r].status /\ Stories[r].feasible = row[r].feasible
  BY RowsTell
<1>3. Lifecycle!Select(r, rw.slot)
  BY <1>1, <1>2, SameSeats DEF Lifecycle!Select, Chosen
<1> QED BY <1>3 DEF Lifecycle!Call

\* The outcome is written back: that is when the call happens.
LEMMA WritesBack ==
    ASSUME IInv, LifeInv, NEW t \in Threads, Persist(t)
    PROVE  LifeInv' /\ Lifecycle!Next
<1>1. PICK r, s, seats, status :
        /\ r = th[t].req /\ s = th[t] /\ seats = th[t].work.seats
        /\ status = Resolve(th[t].work.status, th[t].work.seats)
  OBVIOUS
<1>2. /\ s.pc = "persist"
      /\ row' = [row EXCEPT ![r] = Merge(@, s.snap, [s.work EXCEPT !.status = status], s.expired)]
      /\ Become(t, IF status = "panel_complete"
                   THEN [Idle EXCEPT !.pc = "dispatch", !.op = s.op,
                                     !.req = r, !.todo = s.todo]
                   ELSE Afterwards(t))
  <2>1. PICK next : next = [s.work EXCEPT !.status = status]
    OBVIOUS
  <2>2. s.work \in Row
    BY <1>1, ThreadFacts
  <2>3. next.status = status
    BY <2>1, <2>2 DEF Row
  <2>4. next = [th[t].work EXCEPT !.status = Resolve(@, th[t].work.seats)]
    BY <1>1, <2>1, <2>2 DEF Row
  <2> QED BY <1>1, <2>1, <2>3, <2>4 DEF Persist
<1>3. /\ r \in Requests /\ s \in Thread /\ row[r] \in Row /\ s.req = r
      /\ row[r].seats \in Panels /\ CopyPersist(s, row[r]) /\ RowSettled(row[r])
      /\ s.work \in Row /\ seats \in Panels /\ s.work.slot \in Slots
      /\ PanelOK(seats)
  BY <1>1, <1>2, Busy, ThreadFacts DEF Copy
<1>4. PICK rw : rw = Merge(row[r], s.snap, [s.work EXCEPT !.status = status], s.expired)
  OBVIOUS
<1>5. row' = [row EXCEPT ![r] = rw] /\ rw.feasible = row[r].feasible
  BY <1>2, <1>4 DEF Merge
<1>6. status \in InterviewStatuses \ {"cancelled"} => 
         rw \in Row /\ rw.status = status /\ rw.seats = seats /\ rw.slot = s.work.slot
  <2>1. s.expired \/ s.snap = row[r]
    BY <1>3 DEF CopyPersist
  <2>2. status \in InterviewStatuses \ {"cancelled"} => status \in Statuses
    BY DEF Statuses
  <2> QED BY <1>1, <1>3, <1>4, <2>1, <2>2, WrittenBack
<1>7. /\ StatusTrue(status, seats) /\ status \in InterviewStatuses \ {"cancelled"}
      /\ Open(seats) /\ Lifecycle!Call(r)
  <2>1. CASE SeatsWith(seats, "pending") = {} /\ s.op # "accept"
             /\ \E before \in Panels : Opened(s, row[r], before) /\ Partly(before, seats)
    <3>1. PICK before \in Panels : Opened(s, row[r], before) /\ Partly(before, seats)
      BY <2>1
    <3>2. Open(seats) /\ Undecided(s.work)
      BY <1>1, <1>3, <3>1, FilledWell
    <3>3. StatusTrue(status, seats) /\ status \in InterviewStatuses \ {"cancelled"}
      BY <1>1, <1>3, <2>1, <3>2, ResolveTrue
    <3>4. seats \in Lifecycle!Fillings(before)
      BY <1>3, <2>1, <3>1, FillingsFound
    <3>5. rw \in Row /\ rw.status = status /\ rw.seats = seats /\ rw.slot = s.work.slot
      BY <1>6, <3>3
    <3> QED BY <1>1, <1>3, <1>5, <3>1, <3>2, <3>3, <3>4, <3>5, FilledTold
  <2>2. CASE s.op = "select" /\ Chosen(s.work, row[r]) /\ seats = FreshSeats
             /\ s.work.status = "manual_scheduling_required"
    <3>1. Open(seats)
      BY <2>2, EmptyOpen
    <3>2. StatusTrue(status, seats) /\ status \in InterviewStatuses \ {"cancelled"}
      BY <1>1, <1>3, <2>2, <3>1, ResolveTrue
    <3>3. status = "manual_scheduling_required"
      <4>1. SeatsWith(FreshSeats, "accepted") = {} /\ 0 \in SeatIndex
        BY EmptyOpen, PanelAssumption DEF SeatIndex
      <4> QED BY <1>1, <2>2, <4>1 DEF Resolve
    <3>4. rw \in Row /\ rw.status = status /\ rw.seats = seats /\ rw.slot = s.work.slot
      BY <1>6, <3>2
    <3>5. Chosen(rw, row[r])
      BY <2>2, <3>4 DEF Chosen
    <3> QED BY <1>3, <1>5, <2>2, <3>1, <3>2, <3>3, <3>4, <3>5, EmptyTold
  <2>3. CASE s.op = "accept" /\ On(row[r])
             /\ \E k \in SeatsWith(row[r].seats, "offered") :
                  s.work = [row[r] EXCEPT !.seats = Accept(@, k)]
    <3>1. PICK k \in SeatsWith(row[r].seats, "offered") :
            s.work = [row[r] EXCEPT !.seats = Accept(@, k)]
      BY <2>3
    <3>2. /\ seats = Accept(row[r].seats, k) /\ s.work.slot = row[r].slot
          /\ s.work.status = row[r].status
      BY <1>1, <1>3, <3>1 DEF Row
    <3>3. /\ Open(row[r].seats) /\ StatusTrue(row[r].status, row[r].seats)
          /\ row[r].status \in InterviewStatuses \ {"cancelled"}
      BY <1>3, <2>3 DEF RowSettled, On, HasInterview
    <3>4. Open(seats) /\ StatusTrue(status, seats) /\ status \in InterviewStatuses \ {"cancelled"}
      BY <1>1, <1>3, <3>1, <3>2, <3>3, AcceptTrue
    <3>5. rw \in Row /\ rw.status = status /\ rw.seats = seats /\ rw.slot = s.work.slot
      BY <1>6, <3>4
    <3>6. /\ rw.slot = row[r].slot /\ rw.seats = Accept(row[r].seats, k)
          /\ rw.status = Resolve(row[r].status, rw.seats)
      BY <1>1, <3>2, <3>5
    <3>7. Lifecycle!Call(r)
      BY <1>3, <1>5, <2>3, <3>5, <3>6, AcceptTold
    <3> QED BY <3>4, <3>7
  <2> QED BY <1>1, <1>3, <2>1, <2>2, <2>3 DEF CopyPersist
<1>8. rw \in Row /\ rw.status = status /\ rw.seats = seats /\ rw.slot = s.work.slot
  BY <1>6, <1>7
<1>9. RowSettled(rw) /\ rw.status # "absent"
  BY <1>7, <1>8 DEF RowSettled, InterviewStatuses
<1>10. PICK u : u = IF status = "panel_complete"
                    THEN [Idle EXCEPT !.pc = "dispatch", !.op = s.op, !.req = r, !.todo = s.todo]
                    ELSE Afterwards(t)
  OBVIOUS
<1>11. /\ u \in Thread /\ u.todo = s.todo
       /\ \/ u.pc \in {"idle", "sweep"} /\ u.req = NoRequest
          \/ u.pc = "dispatch" /\ u.req = r
  <2>1. CASE status = "panel_complete"
    <3>1. Idle \in Thread /\ s.op \in Ops /\ s.todo \in SUBSET Requests
      BY <1>3, RestState DEF Thread
    <3> QED BY <1>3, <1>10, <2>1, <3>1 DEF Thread, Pcs
  <2>2. CASE status # "panel_complete"
    BY <1>1, <1>10, <2>2, LeavesOff
  <2> QED BY <2>1, <2>2
<1>12. th[t].pc = "persist" /\ Become(t, u) /\ u.todo \subseteq th[t].todo
  BY <1>1, <1>2, <1>10, <1>11
<1>13. LifeInv'
  BY <1>1, <1>5, <1>8, <1>9, <1>11, <1>12, Writing
<1> QED BY <1>3, <1>7, <1>13 DEF Lifecycle!Next

\* The search's result is stored: the candidate's availability counts.
LEMMA Searched ==
    ASSUME IInv, LifeInv, NEW t \in Threads, FindFeasibleSlots(t)
    PROVE  LifeInv' /\ Lifecycle!Next
<1>1. PICK r : r = th[t].req
  OBVIOUS
<1>2. th[t].pc = "search" /\ Become(t, Idle)
  BY DEF FindFeasibleSlots
<1>3. /\ r \in Requests /\ row[r] \in Row /\ RowSettled(row[r])
      /\ row[r].status = "collecting_availability"
  BY <1>1, <1>2, Busy DEF Copy
<1> DEFINE Outcome(S) == IF S = {} THEN "manual_scheduling_required"
                         ELSE "awaiting_candidate_selection"
<1>0. PICK S \in SUBSET Slots :
        row' = [row EXCEPT ![r].status = Outcome(S), ![r].feasible = S]
  BY <1>1 DEF FindFeasibleSlots
<1>4. PICK status : status = Outcome(S)
  OBVIOUS
<1>5. PICK rw : rw = [row[r] EXCEPT !.status = status, !.feasible = S]
  OBVIOUS
<1>6. /\ rw \in Row /\ rw.seats = row[r].seats /\ rw.slot = row[r].slot
      /\ rw.status = status /\ rw.feasible = S
      /\ status \in {"manual_scheduling_required", "awaiting_candidate_selection"}
  BY <1>3, <1>4, <1>5 DEF Row, Statuses, InterviewStatuses
<1>7. row' = [row EXCEPT ![r] = rw]
  BY <1>0, <1>3, <1>4, <1>5 DEF IInv, TypeOK
<1>8. rw.status # "absent" /\ RowSettled(rw)
  BY <1>3, <1>6 DEF RowSettled, HasInterview, InterviewStatuses
<1>9. LifeInv'
  BY <1>1, <1>2, <1>6, <1>7, <1>8, RestState, Writing
<1>10. Lifecycle!Submit(r, S)
  <2>1. PICK old, new, told : /\ old = Story(row[r]) /\ new = Story(rw)
                              /\ told = Stories /\ told = [q \in Requests |-> Story(row[q])]
    BY DEF Stories
  <2>2. /\ new \in Told /\ old \in Told /\ new.status = status /\ new.feasible = S
        /\ new.seats = old.seats /\ new.slot = old.slot
    BY <1>3, <1>6, <2>1 DEF Story, Told, Row
  <2>3. new = [old EXCEPT !.status = status, !.feasible = S]
    BY <2>2 DEF Told
  <2>4. Stories' = [Stories EXCEPT ![r] = new] /\ Stories[r] = old
    BY <1>3, <1>6, <1>7, <2>1, StoryTold
  <2>5. Stories' = [Stories EXCEPT ![r].status = status, ![r].feasible = S]
    BY <1>3, <2>1, <2>2, <2>3, <2>4 DEF Told
  <2> QED BY <1>3, <1>4, <2>5, RowsTell DEF Lifecycle!Submit
<1> QED BY <1>3, <1>9, <1>10 DEF Lifecycle!Next, Lifecycle!Call

\* The event's id is no part of the story.
LEMMA Recorded ==
    ASSUME IInv, LifeInv, NEW t \in Threads, RecordEvent(t)
    PROVE  LifeInv' /\ Stories' = Stories
<1>1. PICK r, s, rw, u : /\ r = th[t].req /\ s = th[t] /\ rw = [row[r] EXCEPT !.event = s.event]
                         /\ u = Afterwards(t)
  OBVIOUS
<1>2. s.pc = "record" /\ row' = [row EXCEPT ![r].event = s.event] /\ Become(t, u)
  BY <1>1 DEF RecordEvent
<1>3. /\ r \in Requests /\ row[r] \in Row /\ s \in Thread /\ row[r].status # "absent"
      /\ RowSettled(row[r])
  BY <1>1, <1>2, Busy
<1>4. /\ rw \in Row /\ rw.status = row[r].status /\ rw.feasible = row[r].feasible
      /\ rw.seats = row[r].seats /\ rw.slot = row[r].slot
  BY <1>1, <1>3 DEF Row, Thread
<1>5. row' = [row EXCEPT ![r] = rw]
  BY <1>1, <1>2, <1>3 DEF IInv, TypeOK
<1>6. RowSettled(rw)
  BY <1>3, <1>4 DEF RowSettled, HasInterview
<1>7. u \in Thread /\ u.pc \in {"idle", "sweep"} /\ u.req = NoRequest /\ u.todo = s.todo
  BY <1>1, LeavesOff
<1>8. LifeInv'
  <2>1. /\ th[t].pc \notin {"idle", "sweep"} /\ Become(t, u) /\ rw.status # "absent"
        /\ u.todo \subseteq th[t].todo
    BY <1>1, <1>2, <1>3, <1>4, <1>7
  <2> QED BY <1>1, <1>4, <1>5, <1>6, <1>7, <2>1, Writing
<1>9. \A q \in Requests : Story(row'[q]) = Story(row[q])
  <2>1. row'[r] = rw /\ \A q \in Requests \ {r} : row'[q] = row[q]
    BY <1>3, <1>4, <1>5, RowsApart
  <2> QED BY <1>4, <2>1, SameStories
<1>10. Stories' = Stories
  BY <1>9 DEF Stories, Story
<1> QED BY <1>8, <1>10

\* The candidate is off, or starts over.
LEMMA Committed ==
    ASSUME IInv, LifeInv, NEW t \in Threads, CommitCancel(t) \/ CommitReschedule(t)
    PROVE  LifeInv' /\ Lifecycle!Next
<1>1. PICK r, s : r = th[t].req /\ s = th[t]
  OBVIOUS
<1>2. s.pc = "commit"
  BY <1>1 DEF CommitCancel, CommitReschedule
<1>3. /\ r \in Requests /\ s \in Thread /\ row[r] \in Row /\ s.snap = row[r] /\ s.req = r
      /\ RowSettled(row[r]) /\ row[r].status # "absent"
  BY <1>1, <1>2, Busy DEF Copy
<1>4. 0 \in 0 .. MaxEvents
  BY ServiceAssumption
<1>5. PICK rw \in Row : /\ row' = [row EXCEPT ![r] = rw] /\ rw.status # "absent"
                        /\ RowSettled(rw) /\ Lifecycle!Call(r)
  <2>1. CASE CommitCancel(t)
    <3>1. PICK rw : rw = [row[r] EXCEPT !.status = "cancelled", !.event = 0]
      OBVIOUS
    <3>2. /\ rw \in Row /\ rw.status = "cancelled" /\ rw.feasible = row[r].feasible
          /\ rw.seats = row[r].seats /\ rw.slot = row[r].slot
      BY <1>3, <1>4, <3>1 DEF Row, Statuses, InterviewStatuses
    <3>3. row' = [row EXCEPT ![r].status = Written(row[r].status, "cancelled", @),
                             ![r].slot   = row[r].slot,
                             ![r].event  = Written(row[r].event, 0, @)]
      BY <1>1, <1>3, <2>1 DEF CommitCancel, IInv, TypeOK
    <3>4. row' = [row EXCEPT ![r] = rw]
      BY <1>3, <3>1, <3>3 DEF Written, IInv, TypeOK, Row
    <3>5. RowSettled(rw)
      BY <1>3, <3>2 DEF RowSettled, StatusTrue, InterviewStatuses
    <3>6. Stories' = [Stories EXCEPT ![r].status = rw.status]
      BY <1>3, <3>2, <3>4, StoryChanges
    <3>7. Lifecycle!Cancel(r)
      BY <1>3, <3>2, <3>6, RowsTell DEF Lifecycle!Cancel
    <3> QED BY <3>2, <3>4, <3>5, <3>7 DEF Lifecycle!Call
  <2>2. CASE CommitReschedule(t)
    <3>1. PICK rw : rw = [row[r] EXCEPT !.status = "collecting_availability",
                             !.seats = NoSeats, !.slot = NoSlot, !.feasible = {}, !.event = 0]
      OBVIOUS
    <3>2. /\ rw \in Row /\ rw.status = "collecting_availability" /\ rw.feasible = {}
          /\ rw.seats = NoSeats /\ rw.slot = NoSlot
      BY <1>3, <1>4, <3>1, EmptyPanels DEF Row, Statuses, InterviewStatuses
    <3>3. row' = [row EXCEPT ![r].status = Written(row[r].status, "collecting_availability", @),
                     ![r].seats    = Written(row[r].seats, NoSeats, @),
                     ![r].slot     = Written(row[r].slot, NoSlot, @),
                     ![r].feasible = Written(row[r].feasible, {}, @),
                     ![r].event    = Written(row[r].event, 0, @)]
      BY <1>1, <1>3, <2>2 DEF CommitReschedule
    <3>4. row' = [row EXCEPT ![r] = rw]
      BY <1>3, <3>1, <3>3 DEF Written, IInv, TypeOK, Row
    <3>5. RowSettled(rw)
      BY <3>2 DEF RowSettled, HasInterview
    <3>6. Stories' = [Stories EXCEPT ![r] = Story(rw)]
      BY <1>3, <3>2, <3>4, StoryTold
    <3>7. Story(rw) = [Lifecycle!NotRequested EXCEPT !.status = "collecting_availability"]
      BY <3>2, SameSeats DEF Story, Lifecycle!NotRequested
    <3>8. Lifecycle!Reschedule(r)
      BY <1>3, <3>6, <3>7, RowsTell DEF Lifecycle!Reschedule
    <3> QED BY <3>2, <3>4, <3>5, <3>8 DEF Lifecycle!Call
  <2> QED BY <2>1, <2>2
<1>6. PICK u : Become(t, u) /\ \/ u = DeleteOr(t, Idle)
                               \/ u = DeleteOr(t, [s EXCEPT !.pc = "resubmit"])
  BY <1>1 DEF CommitCancel, CommitReschedule
<1>7. u = [s EXCEPT !.pc = "delete"] \/ u = Idle \/ u = [s EXCEPT !.pc = "resubmit"]
  BY <1>1, <1>6 DEF DeleteOr
<1>8. /\ u \in Thread /\ u.todo \subseteq s.todo
      /\ \/ u.pc = "idle" /\ u.req = NoRequest
         \/ u.pc \in {"delete", "resubmit"} /\ u.req = r
  BY <1>3, <1>7, RestState DEF Thread, Pcs
<1>9. LifeInv'
  BY <1>1, <1>2, <1>5, <1>6, <1>8, Writing
<1> QED BY <1>3, <1>5, <1>9 DEF Lifecycle!Next

\* A request appears.
LEMMA Created ==
    ASSUME IInv, LifeInv, NEW r \in Requests, CreateRequest(r)
    PROVE  LifeInv' /\ Lifecycle!Next
<1>1. /\ row[r].status = "absent" /\ row[r] \in Row /\ th' = th
      /\ row' = [row EXCEPT ![r].status = "collecting_availability"]
  BY DEF CreateRequest, IInv, TypeOK
<1>2. PICK rw : rw = [row[r] EXCEPT !.status = "collecting_availability"]
  OBVIOUS
<1>3. /\ rw \in Row /\ rw.status = "collecting_availability" /\ rw.seats = row[r].seats
      /\ rw.slot = row[r].slot /\ rw.feasible = row[r].feasible
  BY <1>1, <1>2 DEF Row, Statuses
<1>4. row' = [row EXCEPT ![r] = rw]
  BY <1>1, <1>2 DEF IInv, TypeOK
<1>5. row'[r] = rw /\ \A q \in Requests \ {r} : row'[q] = row[q]
  BY <1>3, <1>4, RowsApart
<1>6. Unclaimed(r)
  BY <1>1 DEF LifeInv, Unclaimed
<1>7. Separate'
  BY <1>1 DEF LifeInv, Separate, WorksOn
<1>8. \A t \in Threads, q \in Requests : WorksOn(t, q)' => row'[q].status # "absent"
  BY <1>1, <1>5, <1>6 DEF WorksOn, Unclaimed, LifeInv
<1>9. \A t \in Threads : \A q \in th'[t].todo : row'[q].status = "assigning_panel"
  <2>1. \A t \in Threads : \A q \in th[t].todo : q \in Requests \ {r}
    BY <1>6 DEF IInv, TypeOK, Thread, Unclaimed, WorksOn
  <2> QED BY <1>1, <1>5, <2>1 DEF LifeInv
<1>10. ASSUME NEW t \in Threads PROVE Holds(t)'
  <2>1. CASE th[t].req = NoRequest
    BY <1>1, <2>1, ServiceAssumption DEF LifeInv, Holds
  <2>2. CASE th[t].req # NoRequest
    <3>1. th[t].req \in Requests \ {r}
      BY <1>6, <2>2 DEF LifeInv, Holds, Unclaimed, WorksOn
    <3> QED BY <1>1, <1>5, <3>1 DEF LifeInv, Holds
  <2> QED BY <2>1, <2>2
<1>11. ASSUME NEW q \in Requests PROVE RowSettled(row'[q])
  <2>1. RowSettled(row[r]) /\ row[r].seats = NoSeats
    BY <1>1 DEF LifeInv, RowSettled, InterviewStatuses
  <2>2. RowSettled(rw)
    BY <1>3, <2>1 DEF RowSettled, HasInterview
  <2> QED BY <1>5, <2>2 DEF LifeInv
<1>12. LifeInv'
  BY <1>7, <1>8, <1>9, <1>10, <1>11 DEF LifeInv, RowSettled
<1>13. Stories' = [Stories EXCEPT ![r].status = rw.status]
  BY <1>3, <1>4, StoryChanges
<1>14. Lifecycle!Create(r)
  BY <1>1, <1>3, <1>13, RowsTell DEF Lifecycle!Create
<1> QED BY <1>12, <1>14 DEF Lifecycle!Next, Lifecycle!Call

-----------------------------------------------------------------------------
(* The invariant, and the story of every step                              *)

LEMMA InitLife ==
    ASSUME Init
    PROVE  LifeInv /\ Lifecycle!Init
<1>1. /\ \A r \in Requests : row[r] = NoRow
      /\ \A t \in Threads : th[t] = Idle
  BY DEF Init
<1>2. Idle.pc = "idle" /\ Idle.req = NoRequest /\ Idle.todo = {}
  BY RestState
<1>3. NoRow.status = "absent" /\ NoRow.seats = NoSeats
  BY DEF NoRow
<1>4. \A t \in Threads, r \in Requests : ~WorksOn(t, r)
  BY <1>1, <1>2, ServiceAssumption DEF WorksOn
<1>5. \A r \in Requests : RowSettled(row[r])
  BY <1>1, <1>3 DEF RowSettled, HasInterview
<1>6. LifeInv
  BY <1>1, <1>2, <1>4, <1>5 DEF LifeInv, Separate, Holds
<1>7. Story(NoRow) = Lifecycle!NotRequested
  BY SameSeats DEF Story, NoRow, Lifecycle!NotRequested
<1>8. Lifecycle!Init
  BY <1>1, <1>7 DEF Lifecycle!Init, Stories
<1> QED BY <1>6, <1>8

\* A step that leaves the service alone.
LEMMA NothingHappens ==
    ASSUME LifeInv, UNCHANGED <<row, th>>
    PROVE  LifeInv'
<1>1. \A t : Holds(t)' <=> Holds(t)
  BY DEF Holds
<1>2. Separate'
  BY DEF LifeInv, Separate, WorksOn
<1> QED BY <1>1, <1>2 DEF LifeInv, WorksOn, RowSettled

LEMMA NextLife ==
    ASSUME Uncontested, IInv, LifeInv, [Next]_vars
    PROVE  LifeInv' /\ [Lifecycle!Next]_Stories
<1>1. ASSUME NEW r \in Requests, CreateRequest(r)
      PROVE  LifeInv' /\ [Lifecycle!Next]_Stories
  BY <1>1, Created
<1>2. ASSUME NEW t \in Threads, NEW r \in Requests, Handle(t, r)
      PROVE  LifeInv' /\ [Lifecycle!Next]_Stories
  <2>1. LifeInv'
    BY <1>2, CandidateStarting, SelectStarting, RespondStarting, BackOutStarting DEF Handle
  <2>2. row' = row
    BY <1>2 DEF Handle, SubmitAvailability, SelectSlot, RespondToSeat, InterviewerCancel,
                CandidateCancel, CandidateReschedule
  <2> QED BY <2>1, <2>2, SameStories
<1>3. ASSUME NEW t \in Threads, NEW r \in Requests, Sweep(t, r) \/ SweepOn(t)
      PROVE  LifeInv' /\ [Lifecycle!Next]_Stories
  <2>1. row' = row
    BY <1>3 DEF Sweep, SweepExpiredOffers, SweepOn, SweepNext, SweepSkip
  <2> QED BY <1>3, <2>1, Sweeping, SameStories
<1>4. ASSUME NEW t \in Threads, Continue(t)
      PROVE  LifeInv' /\ [Lifecycle!Next]_Stories
  <2>1. CASE SweepOn(t)
    <3>1. PICK r \in Requests : TRUE
      BY <2>1 DEF SweepOn
    <3> QED BY <1>3, <2>1, <3>1
  <2>2. CASE AssignPanel(t) \/ Reopening(t)
    <3>1. row' = row
      BY <2>2 DEF AssignPanel, Reopening
    <3> QED BY <2>2, <3>1, Assigning, GivingBack, SameStories
  <2>3. CASE \E k \in SeatIndex : ExhaustSeat(t, k) \/ \E i \in Interviewers : OfferSeat(t, k, i)
    <3>1. row' = row
      BY <2>3 DEF ExhaustSeat, OfferSeat
    <3> QED BY <2>3, <3>1, Filling, SameStories
  <2>4. CASE RefuseCancel(t) \/ SkipDispatch(t) \/ CreateEvent(t) \/ DeleteEvent(t) \/ Resubmit(t)
    BY <2>4, PassingOn, SameStories
  <2>5. CASE FindFeasibleSlots(t) \/ Persist(t) \/ RecordEvent(t)
    BY <2>5, Searched, WritesBack, Recorded
  <2>6. CASE CommitCancel(t) \/ CommitReschedule(t)
    BY <2>6, Committed
  <2> QED BY <1>4, <2>1, <2>2, <2>3, <2>4, <2>5, <2>6 DEF Continue
<1>5. ASSUME NEW t \in Threads, Abort(t)
      PROVE  LifeInv' /\ [Lifecycle!Next]_Stories
  BY <1>5, PassingOn, SameStories
<1>6. CASE (\E s \in Slots : Elapse(s)) \/ UNCHANGED vars
  <2>1. UNCHANGED <<row, th>>
    BY <1>6 DEF Elapse, vars
  <2> QED BY <2>1, NothingHappens, SameStories
<1> QED BY <1>1, <1>2, <1>3, <1>4, <1>5, <1>6 DEF Next

LEMMA AlwaysTold ==
    ASSUME Uncontested
    PROVE  Spec => [](IInv /\ LifeInv)
<1>1. Init => IInv /\ LifeInv
  BY InitSound, InitLife
<1>2. IInv /\ LifeInv /\ [Next]_vars => IInv' /\ LifeInv'
  BY NextSound, NextLife
<1> QED BY <1>1, <1>2, PTL DEF Spec

\* The service implements the life cycle: whatever fails, dies or is forgotten
\* half-way, the rows change as if each call that reaches its last commit
\* happened there in one step.
THEOREM LifecycleRefines ==
    ASSUME Uncontested
    PROVE  Spec => ImplementsLifecycle
<1>1. Init => Lifecycle!Init
  BY InitLife
<1>2. IInv /\ LifeInv /\ [Next]_vars => [Lifecycle!Next]_Stories
  BY NextLife
<1> QED BY <1>1, <1>2, AlwaysTold, PTL DEF Spec, ImplementsLifecycle, Lifecycle!Spec

-----------------------------------------------------------------------------
(* What the rows can be relied upon for, read off the story                *)

\* A confirmed seat changes only when its holder has given it back.
SeatsKept(old, new) ==
    \A k \in SeatIndex :
        old[k].status = "accepted" /\ new[k] # old[k] => old[k].who \in new[k].declined

\* Filling a panel touches no seat that somebody holds, nor who gave it back.
LEMMA FillingKeeps ==
    ASSUME NEW old \in Panels, NEW before \in Panels, NEW after,
           after \in Lifecycle!Fillings(before),
           \A k \in SeatIndex : old[k].status = "accepted" =>
              \/ before[k] = old[k]
              \/ before[k].status = "pending" /\ old[k].who \in before[k].declined
    PROVE  SeatsKept(old, after)
<1>1. PICK pick : after = Lifecycle!Seated(before, pick)
  BY DEF Lifecycle!Fillings
<1>2. ASSUME NEW k \in SeatIndex
      PROVE  /\ before[k].status # "pending" => after[k] = before[k]
             /\ after[k].declined = before[k].declined
  <2>1. before[k] \in Seat
    BY DEF Panels
  <2>2. after[k] = IF before[k].status # "pending" THEN before[k]
                   ELSE IF pick[k] = NoOne THEN [before[k] EXCEPT !.status = "exhausted"]
                   ELSE [before[k] EXCEPT !.status = "offered", !.who = pick[k]]
    BY <1>1, SameSeats DEF Lifecycle!Seated
  <2> QED BY <2>1, <2>2 DEF Seat
<1> QED BY <1>2 DEF SeatsKept

\* What a call may make of a row.
LEMMA CallsKeep ==
    ASSUME Stories \in [Requests -> Told], NEW r \in Requests, Lifecycle!Call(r),
           PanelOK(Stories[r].seats),
           Stories[r].status = "awaiting_candidate_selection" => Stories[r].seats = NoSeats
    PROVE  /\ \A q \in Requests \ {r} : Stories'[q] = Stories[q]
           /\ SeatsKept(Stories[r].seats, Stories'[r].seats) \/ Stories'[r].seats = NoSeats
           /\ Stories[r].status = "cancelled" =>
                Stories'[r].status \in {"cancelled", "collecting_availability"}
<1>1. PICK f, old : f = Stories /\ old = Stories[r].seats
  OBVIOUS
<1>2. f \in [Requests -> Told] /\ f[r] \in Told /\ old = f[r].seats /\ old \in Panels /\ PanelOK(old)
  BY <1>1 DEF Told
<1>3. SeatsKept(old, old)
  BY DEF SeatsKept
<1>4. ASSUME NEW status, NEW seats, SeatsKept(old, seats), f[r].status # "cancelled",
             \/ Stories' = [f EXCEPT ![r].status = status, ![r].seats = seats]
             \/ \E slot \in Slots : Stories' = [f EXCEPT ![r].status = status, ![r].seats = seats,
                                                         ![r].slot = slot]
      PROVE  /\ \A q \in Requests \ {r} : Stories'[q] = f[q]
             /\ SeatsKept(old, Stories'[r].seats)
  BY <1>2, <1>4 DEF Told
<1>5. CASE Lifecycle!Create(r) \/ (\E found \in SUBSET Slots : Lifecycle!Submit(r, found))
           \/ Lifecycle!Cancel(r)
  <2>1. PICK status, found : \/ Stories' = [f EXCEPT ![r].status = status, ![r].feasible = found]
                             \/ Stories' = [f EXCEPT ![r].status = status]
    BY <1>1, <1>5 DEF Lifecycle!Create, Lifecycle!Submit, Lifecycle!Cancel
  <2>2. /\ \A q \in Requests \ {r} : Stories'[q] = f[q]
        /\ Stories'[r].seats = old
    BY <1>2, <2>1 DEF Told
  <2>3. f[r].status = "cancelled" => Stories' = [f EXCEPT ![r].status = "cancelled"]
    BY <1>1, <1>5 DEF Lifecycle!Create, Lifecycle!Submit, Lifecycle!Cancel
  <2>4. f[r].status = "cancelled" => Stories'[r].status = "cancelled"
    BY <1>2, <2>3 DEF Told
  <2> QED BY <1>1, <1>3, <2>2, <2>4
<1>6. ASSUME NEW slot \in Slots, Lifecycle!Select(r, slot)
      PROVE  /\ \A q \in Requests \ {r} : Stories'[q] = f[q]
             /\ SeatsKept(old, Stories'[r].seats) /\ f[r].status # "cancelled"
  <2>1. f[r].status = "awaiting_candidate_selection" /\ old = NoSeats
    BY <1>1, <1>6 DEF Lifecycle!Select
  <2>2. \A seats : SeatsKept(old, seats)
    BY <2>1 DEF SeatsKept, NoSeats
  <2>3. PICK status, seats : Stories' = [f EXCEPT ![r].status = status, ![r].seats = seats,
                                                  ![r].slot = slot]
    <3>1. \/ \E seats \in Lifecycle!Fillings(Lifecycle!FreshSeats) :
                Stories' = [f EXCEPT ![r].status = Lifecycle!Resolve("assigning_panel", seats),
                                     ![r].seats = seats, ![r].slot = slot]
          \/ Stories' = [f EXCEPT ![r].status = "manual_scheduling_required",
                                  ![r].seats = Lifecycle!FreshSeats, ![r].slot = slot]
      BY <1>1, <1>6 DEF Lifecycle!Select
    <3> QED BY <3>1
  <2> QED BY <1>4, <2>1, <2>2, <2>3
<1>7. ASSUME NEW k \in SeatIndex, Lifecycle!AcceptSeat(r, k)
      PROVE  /\ \A q \in Requests \ {r} : Stories'[q] = f[q]
             /\ SeatsKept(old, Stories'[r].seats) /\ f[r].status # "cancelled"
  <2>1. f[r].status # "cancelled" /\ old[k].status = "offered"
    BY <1>1, <1>7, SameSeats DEF Lifecycle!AcceptSeat, Lifecycle!Underway, SeatsWith
  <2>2. PICK status : Stories' = [f EXCEPT ![r].status = status, ![r].seats = Accept(old, k)]
    BY <1>1, <1>7, SameSeats DEF Lifecycle!AcceptSeat, Lifecycle!Becomes
  <2>3. SeatsKept(old, Accept(old, k))
    BY <1>2, <2>1 DEF SeatsKept, Accept, Panels
  <2> QED BY <1>4, <2>1, <2>2, <2>3
<1>8. ASSUME NEW K \in SUBSET SeatIndex, NEW status, NEW seats, f[r].status # "cancelled",
             \A k \in K : Held(old, k),
             seats \in Lifecycle!Fillings(Reopen(old, K)),
             Lifecycle!Becomes(r, status, seats)
      PROVE  /\ \A q \in Requests \ {r} : Stories'[q] = f[q]
             /\ SeatsKept(old, Stories'[r].seats) /\ f[r].status # "cancelled"
  <2>1. Reopen(old, K) \in Panels
    BY <1>2, <1>8, ReopenSound
  <2>2. \A k \in SeatIndex : \/ Reopen(old, K)[k] = old[k]
                             \/ /\ Reopen(old, K)[k].status = "pending"
                                /\ old[k].who \in Reopen(old, K)[k].declined
    BY DEF Reopen
  <2>3. SeatsKept(old, seats)
    BY <1>2, <1>8, <2>1, <2>2, FillingKeeps
  <2>4. PICK new : Stories' = [f EXCEPT ![r].status = new, ![r].seats = seats]
    BY <1>1, <1>8 DEF Lifecycle!Becomes
  <2> QED BY <1>4, <1>8, <2>3, <2>4
<1>9. ASSUME NEW K \in SUBSET SeatIndex, Lifecycle!GiveBack(r, K)
      PROVE  /\ \A q \in Requests \ {r} : Stories'[q] = f[q]
             /\ SeatsKept(old, Stories'[r].seats) /\ f[r].status # "cancelled"
  <2>1. PICK seats \in Lifecycle!Fillings(Reopen(old, K)) :
          Lifecycle!Becomes(r, Stories[r].status, seats)
    BY <1>1, <1>9, SameSeats DEF Lifecycle!GiveBack
  <2>2. f[r].status # "cancelled" /\ K \subseteq SeatsWith(old, "offered")
    BY <1>1, <1>9, SameSeats DEF Lifecycle!GiveBack, Lifecycle!Underway
  <2>3. \A k \in K : Held(old, k)
    BY <2>2 DEF SeatsWith, Held
  <2> QED BY <1>8, <2>1, <2>2, <2>3
<1>10. ASSUME NEW i \in Interviewers, Lifecycle!BackOut(r, i)
       PROVE  /\ \A q \in Requests \ {r} : Stories'[q] = f[q]
              /\ SeatsKept(old, Stories'[r].seats) /\ f[r].status # "cancelled"
  <2>1. PICK K : K = {k \in SeatsWith(old, "accepted") : old[k].who = i}
    OBVIOUS
  <2>2. PICK seats \in Lifecycle!Fillings(Reopen(old, K)) :
          Lifecycle!Becomes(r, "assigning_panel", seats)
    BY <1>1, <1>10, <2>1, SameSeats DEF Lifecycle!BackOut
  <2>3. f[r].status # "cancelled"
    BY <1>1, <1>10 DEF Lifecycle!BackOut
  <2>4. K \in SUBSET SeatIndex /\ \A k \in K : Held(old, k)
    BY <2>1 DEF SeatsWith, Held
  <2> QED BY <1>8, <2>2, <2>3, <2>4
<1>11. CASE Lifecycle!Reschedule(r)
  <2>1. PICK new : new = [Lifecycle!NotRequested EXCEPT !.status = "collecting_availability"]
    OBVIOUS
  <2>2. new.seats = NoSeats /\ new.status = "collecting_availability"
    BY <2>1, SameSeats DEF Lifecycle!NotRequested
  <2>3. Stories' = [f EXCEPT ![r] = new]
    BY <1>1, <1>11, <2>1 DEF Lifecycle!Reschedule
  <2>4. Stories'[r] = new /\ \A q \in Requests \ {r} : Stories'[q] = f[q]
    BY <1>2, <2>3
  <2> QED BY <1>1, <2>2, <2>4
<1>12. Lifecycle!SeatIndex = SeatIndex
  BY SameSeats
<1> QED BY <1>1, <1>5, <1>6, <1>7, <1>9, <1>10, <1>11, <1>12 DEF Lifecycle!Call

\* ... and so may a step of the service.
LEMMA StepsKeep ==
    ASSUME IInv, LifeInv, [Lifecycle!Next]_Stories, NEW q \in Requests
    PROVE  /\ SeatsKept(row[q].seats, row'[q].seats) \/ row'[q].seats = NoSeats
           /\ row[q].status = "cancelled" =>
                row'[q].status \in {"cancelled", "collecting_availability"}
<1>1. Stories \in [Requests -> Told]
  BY DEF Stories, Story, Told, Row, IInv, TypeOK
<1>2. /\ row[q].seats = Stories[q].seats /\ row[q].status = Stories[q].status
      /\ row'[q].seats = Stories'[q].seats /\ row'[q].status = Stories'[q].status
  BY DEF Stories, Story
<1>3. \A old : SeatsKept(old, old)
  BY DEF SeatsKept
<1>4. CASE Stories' = Stories
  BY <1>2, <1>3, <1>4
<1>5. ASSUME NEW r \in Requests, Lifecycle!Call(r)
      PROVE  /\ SeatsKept(Stories[q].seats, Stories'[q].seats) \/ Stories'[q].seats = NoSeats
             /\ Stories[q].status = "cancelled" =>
                  Stories'[q].status \in {"cancelled", "collecting_availability"}
  <2>1. /\ PanelOK(Stories[r].seats)
        /\ Stories[r].status = "awaiting_candidate_selection" => Stories[r].seats = NoSeats
    BY RowsTell DEF IInv, LifeInv, RowSettled, InterviewStatuses
  <2>2. CASE q = r
    BY <1>1, <1>5, <2>1, <2>2, CallsKeep
  <2>3. CASE q # r
    <3>1. Stories'[q] = Stories[q]
      BY <1>1, <1>5, <2>1, <2>3, CallsKeep
    <3> QED BY <1>3, <3>1
  <2> QED BY <2>2, <2>3
<1> QED BY <1>2, <1>4, <1>5 DEF Lifecycle!Next

\* Between handlers the status tells the truth about the seats, although
\* handlers fail in their middle and lose what they had loaded: everybody has
\* accepted a complete panel, one under assignment waits for somebody, and a
\* human has one that ran out of people or never found enough.
THEOREM StatusIsTrue ==
    ASSUME Uncontested
    PROVE  Spec => []StatusMatchesSeats
<1>1. IInv /\ LifeInv => StatusMatchesSeats
  BY DEF LifeInv, RowSettled, StatusTrue, StatusMatchesSeats
<1> QED BY <1>1, AlwaysTold, PTL

\* A confirmed seat changes only when its holder gives it back or the
\* candidate reschedules, whatever the cascade does for the other seats and
\* wherever it is interrupted.
THEOREM ConfirmedSeatsStay ==
    ASSUME Uncontested
    PROVE  Spec => AcceptedSeatKept
<1>1. IInv /\ LifeInv /\ [Next]_vars =>
        [\A r \in Requests, k \in SeatIndex :
          row[r].seats[k].status = "accepted" /\ row'[r].seats[k] # row[r].seats[k]
          => \/ row[r].seats[k].who \in row'[r].seats[k].declined
             \/ row'[r].seats = NoSeats]_row
  BY NextLife, StepsKeep DEF SeatsKept
<1> QED BY <1>1, AlwaysTold, PTL DEF Spec, AcceptedSeatKept

\* No handler that was under way undoes a cancellation.
THEOREM CancellationStays ==
    ASSUME Uncontested
    PROVE  Spec => CancelledIsFinal
<1>1. IInv /\ LifeInv /\ [Next]_vars =>
        [\A r \in Requests :
          row[r].status = "cancelled" /\ row'[r].status # "cancelled"
          => row'[r].status = "collecting_availability"]_row
  BY NextLife, StepsKeep
<1> QED BY <1>1, AlwaysTold, PTL DEF Spec, CancelledIsFinal
=============================================================================
