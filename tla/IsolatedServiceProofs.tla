----------------------- MODULE IsolatedServiceProofs ------------------------
(***************************************************************************)
(* What the scheduling service promises of requests that are worked on by  *)
(* one handler at a time, when handlers do not fail and no access token is *)
(* refreshed under them: the row, the ledger and the calendar tell the     *)
(* same story between handlers, and nobody is ever held twice.  For any    *)
(* number of threads, requests, interviewers, seats and slots.             *)
(***************************************************************************)
EXTENDS SchedulingServiceProofs

Isolated == Conditions \cap {"races", "dead_offers", "failures", "token_refresh"} = {}

-----------------------------------------------------------------------------
(* What is settled between handlers, as a relation between the row rw of   *)
(* request r, its offers os, its roster ps and the ids es of its events.   *)

On(rw) == HasInterview(rw) /\ rw.status # "cancelled"

OfferRows(r, seats, slot) ==
    {[iv |-> r, seat |-> k, who |-> seats[k].who, slot |-> slot] :
        k \in SeatsWith(seats, "offered")}

EventIds(r) == {e.id : e \in {x \in calendar : x.iv = r}}

Open(seats) == \A k \in SeatIndex : seats[k].status # "none"

StatusTrue(status, seats) ==
    CASE status = "panel_complete" -> SeatsWith(seats, "accepted") = SeatIndex
      [] status = "assigning_panel" ->
            /\ SeatsWith(seats, "offered") # {}
            /\ \A k \in SeatIndex : Held(seats, k)
      [] status = "manual_scheduling_required" ->
            \/ SeatsWith(seats, "exhausted") # {}
            \/ seats = FreshSeats
      [] OTHER -> TRUE

\* Every row as stored.
RowSettled(rw) ==
    /\ rw.status \notin InterviewStatuses => rw.seats = NoSeats
    /\ rw.seats # NoSeats => Open(rw.seats)
    /\ HasInterview(rw) => StatusTrue(rw.status, rw.seats)

LedgerSettled(r, rw, os, ps) ==
    IF On(rw)
    THEN os = OfferRows(r, rw.seats, rw.slot) /\ ps = AcceptedRoster(r, rw.seats)
    ELSE os = {} /\ ps = {}

EventSettled(rw, es) == es = {rw.event} \ {0} /\ (rw.event # 0 => On(rw))

-----------------------------------------------------------------------------
(* What a handler knows while it has the request to itself.                *)

\* It has loaded the row and, if it is to reopen seats, knows who leaves.
KnowsLive(s, rw, ps) ==
    /\ s.snap = rw /\ ~s.expired /\ s.released = {}
    /\ \/ /\ s.op = "select" /\ s.cancelled = {}
          /\ rw.status = "awaiting_candidate_selection"
          /\ s.work.status = "assigning_panel" /\ s.work.seats = FreshSeats
          /\ s.work.event = 0
       \/ /\ s.op \in {"decline", "sweep"} /\ s.cancelled = {}
          /\ s.work = rw /\ On(rw)
          /\ s.targets # {} /\ s.targets \subseteq SeatsWith(rw.seats, "offered")
       \/ /\ s.op = "interviewer_cancel"
          /\ s.work = rw /\ HasInterview(rw)
          /\ \E i \in Interviewers :
               /\ s.targets = {k \in SeatsWith(rw.seats, "accepted") : rw.seats[k].who = i}
               /\ s.cancelled = {p \in ps : p.who = i}

\* The ledger, with what is flushed, agrees with the copy it works on.
Carries(s, rw, os, ps) ==
    /\ s.released \subseteq os /\ s.cancelled \subseteq ps
    /\ os \ s.released = OfferRows(s.req, s.work.seats, s.work.slot)
    /\ ps \ s.cancelled = AcceptedRoster(s.req, s.work.seats)
    /\ s.work.event = rw.event
    /\ s.work.slot = rw.slot \/ ps = {}
    /\ Open(s.work.seats)

\* What the engine makes of the status is then true.
Undecided(work) ==
    \/ work.status = "assigning_panel"
    \/ /\ work.status = "manual_scheduling_required"
       /\ SeatsWith(work.seats, "exhausted") # {}

KnowsFill(s, rw, os, ps) ==
    /\ s.op \in {"select", "decline", "sweep", "interviewer_cancel"}
    /\ s.expired \/ s.snap = rw
    /\ Carries(s, rw, os, ps)
    /\ Undecided(s.work)

KnowsPersist(s, rw, os, ps) ==
    /\ s.expired \/ s.snap = rw
    /\ \/ /\ s.op \in {"select", "decline", "sweep", "interviewer_cancel"}
          /\ Carries(s, rw, os, ps)
          /\ \/ Undecided(s.work) /\ SeatsWith(s.work.seats, "pending") = {}
             \/ /\ s.work.status = "manual_scheduling_required"
                /\ s.work.seats = FreshSeats
       \/ /\ s.op = "accept" /\ s.released = {} /\ s.cancelled = {}
          /\ On(rw) /\ LedgerSettled(s.req, rw, os, ps)
          /\ \E k \in SeatsWith(rw.seats, "offered") :
               s.targets = {k} /\ s.work = [rw EXCEPT !.seats = Accept(@, k)]

KnowsOf(s, rw, os, ps, es) ==
    /\ s.pc = "live" => KnowsLive(s, rw, ps)
    /\ s.pc = "fill" => KnowsFill(s, rw, os, ps)
    /\ s.pc = "persist" => KnowsPersist(s, rw, os, ps)
    /\ s.pc = "dispatch" => On(rw)
    /\ s.pc = "record" => On(rw) /\ rw.event = 0 /\ s.event # 0 /\ es = {s.event}
    /\ s.pc = "commit" => s.snap = rw
    /\ s.pc = "delete" => rw.event = 0 /\ es = {s.snap.event}
    /\ s.pc = "search" => rw.status = "collecting_availability"

Knows(t) ==
    LET r == th[t].req
    IN  \/ th[t].pc \in {"idle", "sweep"} /\ r = NoRequest
        \/ /\ th[t].pc \notin {"idle", "sweep"} /\ r \in Requests
           /\ KnowsOf(th[t], row[r], OffersOf(r), RosterOf(r), EventIds(r))

\* One handler at a time.
Separate ==
    /\ \A t, u \in Threads, r \in Requests : WorksOn(t, r) /\ WorksOn(u, r) => t = u
    /\ \A t \in Threads : th[t].req \notin th[t].todo

\* Nobody is between the first and the last commit on r.
LedgerQuiet(r) == \A t \in Threads : th[t].req = r => th[t].pc \notin {"fill", "persist"}
EventQuiet(r) == \A t \in Threads : th[t].req = r => th[t].pc \notin {"record", "delete"}

SettledRequest(r) ==
    /\ RowSettled(row[r])
    /\ LedgerQuiet(r) => LedgerSettled(r, row[r], OffersOf(r), RosterOf(r))
    /\ EventQuiet(r) => EventSettled(row[r], EventIds(r))

IsoInv ==
    /\ Separate
    /\ \A t \in Threads, r \in Requests : WorksOn(t, r) => row[r].status # "absent"
    /\ \A t \in Threads : \A r \in th[t].todo : row[r].status = "assigning_panel"
    /\ \A t \in Threads : Knows(t)
    /\ \A r \in Requests : SettledRequest(r)

-----------------------------------------------------------------------------
(* A step concerns one request and one thread                              *)

Same(q) ==
    /\ row'[q] = row[q]
    /\ OffersOf(q)' = OffersOf(q) /\ RosterOf(q)' = RosterOf(q)
    /\ EventIds(q)' = EventIds(q)

Unclaimed(r) == \A u \in Threads : ~WorksOn(u, r)

\* Thread t goes on to state, with request r.
Turn(t, r, state) ==
    /\ th' = [th EXCEPT ![t] = state]
    /\ state \in Thread
    /\ WorksOn(t, r) \/ Unclaimed(r)
    /\ th[t].req \in {r, NoRequest}
    /\ state.req \in {r, NoRequest}
    /\ r \notin state.todo
    /\ \A q \in state.todo :
         row[q].status = "assigning_panel" /\ (WorksOn(t, q) \/ Unclaimed(q))

\* Nothing changes elsewhere, and r remains.
Elsewhere(r) == row'[r].status # "absent" /\ \A q \in Requests \ {r} : Same(q)

\* The invariant is kept if it is for this request and this thread.
LEMMA OneRequest ==
    ASSUME IInv, IsoInv, NEW t \in Threads, NEW r \in Requests, NEW state,
           Turn(t, r, state), Elsewhere(r), Knows(t)', SettledRequest(r)'
    PROVE  IsoInv'
<1>t. /\ th'[t] = state /\ \A u \in Threads : u # t => th'[u] = th[u]
      /\ \A u \in Threads : th[u] \in Thread /\ th'[u] \in Thread
  BY DEF Turn, IInv, TypeOK
<1>n. NoRequest \notin Requests /\ \A u \in Threads : th'[u].todo \subseteq Requests
  BY <1>t, ServiceAssumption DEF Thread
<1>1. Separate'
  <2>1. \A u \in Threads, q \in Requests : WorksOn(u, q)' =>
           WorksOn(u, q) \/ (u = t /\ (WorksOn(t, q) \/ Unclaimed(q)))
    BY <1>t, <1>n DEF Turn, WorksOn
  <2>2. \A u, v \in Threads, q \in Requests : WorksOn(u, q)' /\ WorksOn(v, q)' => u = v
    BY <2>1 DEF IsoInv, Separate, Unclaimed
  <2>3. \A u \in Threads : th'[u].req \notin th'[u].todo
    BY <1>t, <1>n DEF IsoInv, Separate, Turn
  <2> QED BY <2>2, <2>3 DEF Separate, WorksOn
<1>2. ASSUME NEW u \in Threads, NEW q \in Requests, WorksOn(u, q)'
      PROVE  row'[q].status # "absent"
  <2>1. CASE q = r
    BY <2>1 DEF Elsewhere
  <2>2. CASE q # r /\ u # t
    BY <1>2, <1>t, <2>2 DEF Turn, Elsewhere, Same, IsoInv, WorksOn
  <2>3. CASE q # r /\ u = t
    BY <1>2, <1>t, <1>n, <2>3 DEF Turn, Elsewhere, Same, IsoInv, WorksOn
  <2> QED BY <2>1, <2>2, <2>3
<1>3. ASSUME NEW u \in Threads, NEW q \in th'[u].todo
      PROVE  row'[q].status = "assigning_panel"
  <2>1. q \in Requests
    BY <1>n
  <2>2. CASE u = t
    BY <1>t, <2>1, <2>2 DEF Turn, Elsewhere, Same
  <2>3. CASE u # t
    <3>1. q # r
      BY <1>t, <2>3 DEF Turn, IsoInv, Separate, Unclaimed, WorksOn
    <3> QED BY <1>t, <2>1, <2>3, <3>1 DEF Turn, Elsewhere, Same, IsoInv
  <2> QED BY <2>2, <2>3
<1>4. ASSUME NEW u \in Threads PROVE Knows(u)'
  <2>1. CASE u = t
    BY <2>1
  <2>2. CASE u # t /\ th[u].req \in Requests
    <3>1. th[u].req # r
      BY <2>2 DEF Turn, IsoInv, Separate, Unclaimed, WorksOn
    <3>2. Same(th[u].req)
      BY <2>2, <3>1 DEF Elsewhere
    <3> QED BY <1>t, <1>n, <2>2, <3>2 DEF IsoInv, Knows, Same
  <2>3. CASE u # t /\ th[u].req \notin Requests
    BY <1>t, <2>3 DEF IsoInv, Knows
  <2> QED BY <2>1, <2>2, <2>3
<1>5. ASSUME NEW q \in Requests PROVE SettledRequest(q)'
  <2>1. CASE q = r
    BY <2>1
  <2>2. CASE q # r
    <3>1. Same(q) /\ SettledRequest(q)
      BY <2>2 DEF Elsewhere, IsoInv
    <3>2. \A u \in Threads : th'[u].req = q <=> th[u].req = q
      BY <1>t, <1>n, <2>2 DEF Turn
    <3>3. \A u \in Threads : th'[u].req = q => th'[u] = th[u]
      BY <1>t, <1>n, <2>2 DEF Turn
    <3> QED BY <3>1, <3>2, <3>3 DEF SettledRequest, Same, LedgerQuiet, EventQuiet
  <2> QED BY <2>1, <2>2
<1> QED BY <1>1, <1>2, <1>3, <1>4, <1>5 DEF IsoInv

-----------------------------------------------------------------------------
(* Seats                                                                   *)

LEMMA EmptyOpen ==
    /\ Open(FreshSeats) /\ FreshSeats # NoSeats
    /\ \A seats : Open(seats) => seats # NoSeats
    /\ \A status \in {"offered", "accepted", "exhausted"} : SeatsWith(FreshSeats, status) = {}
<1>1. 0 \in SeatIndex
  BY PanelAssumption DEF SeatIndex
<1>2. \A k \in SeatIndex : FreshSeats[k].status = "pending" /\ NoSeats[k].status = "none"
  BY DEF FreshSeats, NoSeats
<1> QED BY <1>1, <1>2 DEF Open, SeatsWith

\* The status the engine ends with tells the truth about the seats.
LEMMA ResolveTrue ==
    ASSUME NEW work, work.seats \in Panels, Open(work.seats),
           \/ Undecided(work) /\ SeatsWith(work.seats, "pending") = {}
           \/ work.status = "manual_scheduling_required" /\ work.seats = FreshSeats
    PROVE  /\ StatusTrue(Resolve(work.status, work.seats), work.seats)
           /\ Resolve(work.status, work.seats) \in InterviewStatuses \ {"cancelled"}
<1> DEFINE seats == work.seats
<1>1. \A k \in SeatIndex : seats[k].status \in SeatStatus
  BY DEF Panels, Seat
<1>2. CASE Undecided(work) /\ SeatsWith(seats, "pending") = {}
  BY <1>1, <1>2 DEF Undecided, StatusTrue, Resolve, InterviewStatuses, SeatsWith, Held, Open,
                    SeatStatus
<1>3. CASE work.status = "manual_scheduling_required" /\ seats = FreshSeats
  <2>1. SeatsWith(seats, "accepted") # SeatIndex
    <3>1. SeatsWith(FreshSeats, "accepted") = {}
      BY EmptyOpen
    <3>2. 0 \in SeatIndex
      BY PanelAssumption DEF SeatIndex
    <3> QED BY <1>3, <3>1, <3>2
  <2> QED BY <1>3, <2>1 DEF StatusTrue, Resolve, InterviewStatuses
<1> QED BY <1>2, <1>3

\* So does the one after an acceptance.
LEMMA AcceptTrue ==
    ASSUME NEW seats \in Panels, Open(seats), NEW status, StatusTrue(status, seats),
           status \in InterviewStatuses \ {"cancelled"},
           NEW k \in SeatsWith(seats, "offered")
    PROVE  /\ StatusTrue(Resolve(status, Accept(seats, k)), Accept(seats, k))
           /\ Resolve(status, Accept(seats, k)) \in InterviewStatuses \ {"cancelled"}
           /\ Open(Accept(seats, k)) /\ Accept(seats, k) \in Panels
<1> DEFINE after == Accept(seats, k)
<1>1. k \in SeatIndex /\ seats[k].status = "offered"
  BY DEF SeatsWith
<1>2. /\ after \in Panels
      /\ after[k].status = "accepted"
      /\ \A j \in SeatIndex : j # k => after[j] = seats[j]
  BY <1>1 DEF Accept, Panels, Seat, SeatStatus
<1> HIDE DEF after
<1>3. Open(after)
  BY <1>1, <1>2 DEF Open
<1>4. SeatsWith(seats, "exhausted") = SeatsWith(after, "exhausted")
  BY <1>1, <1>2 DEF SeatsWith
<1>5. seats # FreshSeats
  BY EmptyOpen
<1> DEFINE Good == /\ StatusTrue(Resolve(status, after), after)
                   /\ Resolve(status, after) \in InterviewStatuses \ {"cancelled"}
<1>6. ASSUME status = "manual_scheduling_required" PROVE Good
  BY <1>4, <1>5, <1>6 DEF StatusTrue, Resolve, InterviewStatuses
<1>7. ASSUME status = "panel_complete" PROVE Good
  BY <1>1, <1>7 DEF StatusTrue, SeatsWith
<1>8. ASSUME status = "assigning_panel" PROVE Good
  <2>1. \A j \in SeatIndex : Held(seats, j)
    BY <1>8 DEF StatusTrue
  <2>2. \A j \in SeatIndex : Held(after, j)
    BY <1>1, <1>2, <2>1 DEF Held
  <2>3. SeatsWith(after, "exhausted") = {}
    BY <2>2 DEF SeatsWith, Held
  <2>4. SeatsWith(after, "accepted") # SeatIndex => SeatsWith(after, "offered") # {}
    BY <2>2 DEF SeatsWith, Held
  <2> QED BY <1>8, <2>2, <2>3, <2>4 DEF StatusTrue, Resolve, InterviewStatuses
<1>9. after = Accept(seats, k)
  BY DEF after
<1> QED BY <1>2, <1>3, <1>6, <1>7, <1>8, <1>9 DEF InterviewStatuses

\* An acceptance turns one offer into one confirmed seat.
LEMMA AcceptRows ==
    ASSUME NEW r, NEW slot, NEW seats \in Panels, NEW k \in SeatsWith(seats, "offered")
    PROVE  LET offer == [iv |-> r, seat |-> k, who |-> seats[k].who, slot |-> slot]
               seat  == [iv |-> r, seat |-> k, who |-> seats[k].who]
               after == Accept(seats, k)
           IN  /\ offer \in OfferRows(r, seats, slot)
               /\ OfferRows(r, after, slot) = OfferRows(r, seats, slot) \ {offer}
               /\ AcceptedRoster(r, after) = AcceptedRoster(r, seats) \cup {seat}
               /\ after[k].who = seats[k].who
<1> DEFINE after == Accept(seats, k)
<1>1. k \in SeatIndex /\ seats[k].status = "offered"
  BY DEF SeatsWith
<1>2. /\ after[k].status = "accepted" /\ after[k].who = seats[k].who
      /\ \A j \in SeatIndex : j # k => after[j] = seats[j]
  BY <1>1 DEF Accept, Panels, Seat
<1> HIDE DEF after
<1>3. /\ SeatsWith(after, "offered") = SeatsWith(seats, "offered") \ {k}
      /\ SeatsWith(after, "accepted") = SeatsWith(seats, "accepted") \cup {k}
  BY <1>1, <1>2 DEF SeatsWith
<1>4. \A j \in SeatIndex : after[j].who = seats[j].who
  BY <1>2
<1> DEFINE offer(j) == [iv |-> r, seat |-> j, who |-> seats[j].who, slot |-> slot]
           seat(j)  == [iv |-> r, seat |-> j, who |-> seats[j].who]
<1>5. /\ OfferRows(r, seats, slot) = {offer(j) : j \in SeatsWith(seats, "offered")}
      /\ OfferRows(r, after, slot) = {offer(j) : j \in SeatsWith(seats, "offered") \ {k}}
      /\ AcceptedRoster(r, seats) = {seat(j) : j \in SeatsWith(seats, "accepted")}
      /\ AcceptedRoster(r, after) = {seat(j) : j \in SeatsWith(seats, "accepted") \cup {k}}
  BY <1>3, <1>4 DEF OfferRows, AcceptedRoster, SeatsWith
<1>6. \A j, l : offer(j) = offer(l) => j = l
  OBVIOUS
<1> HIDE DEF offer, seat
<1>7. OfferRows(r, after, slot) = OfferRows(r, seats, slot) \ {offer(k)}
  BY <1>5, <1>6
<1>8. AcceptedRoster(r, after) = AcceptedRoster(r, seats) \cup {seat(k)}
  BY <1>5
<1>9. offer(k) \in OfferRows(r, seats, slot)
  BY <1>5
<1> QED BY <1>2, <1>7, <1>8, <1>9 DEF offer, seat, after

\* An offer adds one row.
LEMMA OfferToRows ==
    ASSUME NEW r, NEW slot, NEW seats \in Panels, Open(seats), NEW i \in Interviewers,
           NEW k \in SeatsWith(seats, "pending")
    PROVE  LET after == OfferTo(seats, k, i)
           IN  /\ OfferRows(r, after, slot) = OfferRows(r, seats, slot) \cup
                     {[iv |-> r, seat |-> k, who |-> i, slot |-> slot]}
               /\ AcceptedRoster(r, after) = AcceptedRoster(r, seats)
               /\ SeatsWith(after, "exhausted") = SeatsWith(seats, "exhausted")
               /\ Open(after)
<1> DEFINE after == OfferTo(seats, k, i)
<1>1. k \in SeatIndex /\ seats[k].status = "pending"
  BY DEF SeatsWith
<1>2. /\ after[k].status = "offered" /\ after[k].who = i
      /\ \A j \in SeatIndex : j # k => after[j] = seats[j]
  BY <1>1 DEF OfferTo, Panels, Seat
<1> HIDE DEF after
<1>3. /\ SeatsWith(after, "offered") = SeatsWith(seats, "offered") \cup {k}
      /\ SeatsWith(after, "accepted") = SeatsWith(seats, "accepted")
      /\ SeatsWith(after, "exhausted") = SeatsWith(seats, "exhausted")
      /\ k \notin SeatsWith(seats, "offered") /\ k \notin SeatsWith(seats, "accepted")
      /\ Open(after)
  BY <1>1, <1>2 DEF SeatsWith, Open
<1>4. \A j \in SeatIndex : j # k => after[j].who = seats[j].who
  BY <1>2
<1>5. AcceptedRoster(r, after) = AcceptedRoster(r, seats)
  BY <1>3, <1>4 DEF AcceptedRoster, SeatsWith
<1>6. OfferRows(r, after, slot) = OfferRows(r, seats, slot) \cup
                     {[iv |-> r, seat |-> k, who |-> i, slot |-> slot]}
  BY <1>2, <1>3, <1>4 DEF OfferRows, SeatsWith
<1> QED BY <1>3, <1>5, <1>6 DEF after

\* An exhausted seat adds none.
LEMMA ExhaustRows ==
    ASSUME NEW r, NEW slot, NEW seats \in Panels, Open(seats),
           NEW k \in SeatsWith(seats, "pending")
    PROVE  LET after == Exhaust(seats, k)
           IN  /\ OfferRows(r, after, slot) = OfferRows(r, seats, slot)
               /\ AcceptedRoster(r, after) = AcceptedRoster(r, seats)
               /\ SeatsWith(after, "exhausted") # {}
               /\ Open(after)
<1> DEFINE after == Exhaust(seats, k)
<1>1. k \in SeatIndex /\ seats[k].status = "pending"
  BY DEF SeatsWith
<1>2. /\ after[k].status = "exhausted"
      /\ \A j \in SeatIndex : j # k => after[j] = seats[j]
  BY <1>1 DEF Exhaust, Panels, Seat
<1> HIDE DEF after
<1>3. /\ SeatsWith(after, "offered") = SeatsWith(seats, "offered")
      /\ SeatsWith(after, "accepted") = SeatsWith(seats, "accepted")
      /\ k \in SeatsWith(after, "exhausted")
      /\ k \notin SeatsWith(seats, "offered") /\ k \notin SeatsWith(seats, "accepted")
      /\ Open(after)
  BY <1>1, <1>2 DEF SeatsWith, Open
<1>4. \A j \in SeatIndex : j # k => after[j].who = seats[j].who
  BY <1>2
<1>5. AcceptedRoster(r, after) = AcceptedRoster(r, seats)
  BY <1>3, <1>4 DEF AcceptedRoster, SeatsWith
<1>6. OfferRows(r, after, slot) = OfferRows(r, seats, slot)
  BY <1>3, <1>4 DEF OfferRows, SeatsWith
<1> QED BY <1>3, <1>5, <1>6 DEF after

\* Seats of K given back lose their rows.
LEMMA ReopenRows ==
    ASSUME NEW r, NEW slot, NEW seats \in Panels, Open(seats), NEW K \in SUBSET SeatIndex
    PROVE  LET after == Reopen(seats, K)
           IN  /\ OfferRows(r, after, slot) =
                    {[iv |-> r, seat |-> k, who |-> seats[k].who, slot |-> slot] :
                        k \in SeatsWith(seats, "offered") \ K}
               /\ AcceptedRoster(r, after) =
                    {[iv |-> r, seat |-> k, who |-> seats[k].who] :
                        k \in SeatsWith(seats, "accepted") \ K}
               /\ SeatsWith(after, "exhausted") = SeatsWith(seats, "exhausted") \ K
               /\ Open(after)
<1> DEFINE after == Reopen(seats, K)
<1>1. \A j \in SeatIndex : IF j \in K THEN after[j].status = "pending" ELSE after[j] = seats[j]
  BY DEF Reopen
<1> HIDE DEF after
<1>2. /\ SeatsWith(after, "offered") = SeatsWith(seats, "offered") \ K
      /\ SeatsWith(after, "accepted") = SeatsWith(seats, "accepted") \ K
      /\ SeatsWith(after, "exhausted") = SeatsWith(seats, "exhausted") \ K
      /\ Open(after)
  BY <1>1 DEF SeatsWith, Open
<1>3. \A j \in SeatIndex \ K : after[j].who = seats[j].who
  BY <1>1
<1>4. SeatsWith(seats, "offered") \subseteq SeatIndex /\ SeatsWith(seats, "accepted") \subseteq SeatIndex
  BY DEF SeatsWith
<1>5. OfferRows(r, after, slot) =
                    {[iv |-> r, seat |-> k, who |-> seats[k].who, slot |-> slot] :
                        k \in SeatsWith(seats, "offered") \ K}
  BY <1>2, <1>3, <1>4 DEF OfferRows
<1>6. AcceptedRoster(r, after) = {[iv |-> r, seat |-> k, who |-> seats[k].who] :
                                     k \in SeatsWith(seats, "accepted") \ K}
  BY <1>2, <1>3, <1>4 DEF AcceptedRoster
<1> QED BY <1>2, <1>5, <1>6 DEF after

-----------------------------------------------------------------------------
(* Steps that change no table                                              *)

LEMMA QuietTurn ==
    ASSUME IInv, IsoInv, NEW t \in Threads, NEW r \in Requests, NEW state,
           Turn(t, r, state), row[r].status # "absent",
           UNCHANGED <<row, offers, roster, calendar>>,
           th[t].pc \in {"fill", "persist"} =>
               state.req = th[t].req /\ state.pc \in {"fill", "persist"},
           th[t].pc \notin {"record", "delete"},
           \/ state.pc \in {"idle", "sweep"} /\ state.req = NoRequest
           \/ /\ state.pc \notin {"idle", "sweep"} /\ state.req = r
              /\ KnowsOf(state, row[r], OffersOf(r), RosterOf(r), EventIds(r))
    PROVE  IsoInv'
<1>1. th'[t] = state /\ \A u \in Threads : u # t => th'[u] = th[u]
  BY DEF Turn, IInv, TypeOK
<1>2. \A q : Same(q)
  BY DEF Same, OffersOf, RosterOf, EventIds
<1>3. Elsewhere(r)
  BY <1>2 DEF Elsewhere
<1>4. Knows(t)'
  BY <1>1, <1>2 DEF Knows, Same
<1>5. LedgerQuiet(r)' => LedgerQuiet(r)
  BY <1>1 DEF LedgerQuiet
<1>6. EventQuiet(r)' => EventQuiet(r)
  BY <1>1 DEF EventQuiet
<1>7. SettledRequest(r)'
  BY <1>2, <1>5, <1>6 DEF IsoInv, SettledRequest, Same
<1> QED BY <1>3, <1>4, <1>7, OneRequest

\* A thread that has nothing in hand, its sweep apart.
LEMMA RestState ==
    ASSUME NEW todo \in SUBSET Requests
    PROVE  /\ GoOnWith(todo) \in Thread /\ GoOnWith(todo).pc \in {"idle", "sweep"}
           /\ GoOnWith(todo).req = NoRequest /\ GoOnWith(todo).todo = todo
           /\ todo = {} => GoOnWith(todo) = Idle
           /\ Idle \in Thread /\ Idle.pc = "idle" /\ Idle.req = NoRequest /\ Idle.todo = {}
<1>1. CASE todo = {}
  BY <1>1, GoOnGood, IdleGood DEF GoOnWith, GoodThread, Idle
<1>2. CASE todo # {}
  BY <1>2, GoOnGood, IdleGood DEF GoOnWith, GoodThread, Idle
<1> QED BY <1>1, <1>2

\* A thread that takes up a request.
LEMMA Taking ==
    ASSUME IInv, IsoInv, Isolated, NEW t \in Threads, NEW r \in Requests, Free(t, r)
    PROVE  /\ th[t].pc = "idle" /\ th[t].req = NoRequest
           /\ Unclaimed(r) /\ row[r].status # "absent"
           /\ LedgerQuiet(r) /\ EventQuiet(r) /\ SettledRequest(r)
<1>1. th[t].pc = "idle" /\ Unclaimed(r) /\ row[r].status # "absent"
  BY DEF Free, Isolated, Unclaimed
<1>2. th[t].req = NoRequest
  BY <1>1 DEF IsoInv, Knows
<1>3. LedgerQuiet(r) /\ EventQuiet(r)
  BY <1>1 DEF LedgerQuiet, EventQuiet, Unclaimed, WorksOn
<1> QED BY <1>1, <1>2, <1>3 DEF IsoInv

LEMMA StartsQuietly ==
    ASSUME IInv, IsoInv, Isolated, NEW t \in Threads, NEW r \in Requests, Free(t, r),
           NEW state \in Thread, Become(t, state), state.req = r, state.todo = {},
           state.pc \notin {"idle", "sweep"},
           KnowsOf(state, row[r], OffersOf(r), RosterOf(r), EventIds(r)),
           UNCHANGED <<row, offers, roster, calendar, made, elapsed>>
    PROVE  IsoInv'
<1>1. Turn(t, r, state)
  BY Taking DEF Turn, Become
<1> QED BY <1>1, Taking, QuietTurn

\* The fields of a thread that has loaded a row.
LEMMA LoadedFields ==
    ASSUME IInv, NEW r \in Requests, NEW pc \in Pcs, NEW op \in Ops,
           NEW s, s = Loaded(pc, op, r)
    PROVE  /\ s \in Thread /\ s.pc = pc /\ s.op = op /\ s.req = r
           /\ s.snap = row[r] /\ s.work = row[r] /\ s.targets = {} /\ s.feas = {}
           /\ s.released = {} /\ s.cancelled = {} /\ ~s.expired /\ s.todo = {}
BY LoadedTyped DEF IInv, TypeOK, Loaded, Idle

LEMMA CandidateStartsQuietly ==
    ASSUME IInv, IsoInv, Isolated, NEW t \in Threads, NEW r \in Requests,
           SubmitAvailability(t, r) \/ CandidateCancel(t, r) \/ CandidateReschedule(t, r)
    PROVE  IsoInv'
<1>1. CASE SubmitAvailability(t, r)
  <2>1. PICK s : s = Loaded("search", "submit", r)
    OBVIOUS
  <2>2. s \in Thread /\ s.pc = "search" /\ s.req = r /\ s.todo = {}
    <3>1. "search" \in Pcs /\ "submit" \in Ops
      BY DEF Pcs, Ops
    <3> QED BY <2>1, <3>1, LoadedFields
  <2>3. KnowsOf(s, row[r], OffersOf(r), RosterOf(r), EventIds(r))
    BY <1>1, <2>2 DEF KnowsOf, SubmitAvailability
  <2> QED BY <1>1, <2>1, <2>2, <2>3, StartsQuietly DEF SubmitAvailability
<1>2. ASSUME NEW op \in {"cancel", "reschedule"}, Free(t, r),
             Become(t, Loaded("commit", op, r)),
             UNCHANGED <<row, offers, roster, calendar, made, elapsed>>
      PROVE  IsoInv'
  <2>1. PICK s : s = Loaded("commit", op, r)
    OBVIOUS
  <2>2. s \in Thread /\ s.pc = "commit" /\ s.req = r /\ s.todo = {} /\ s.snap = row[r]
    <3>1. "commit" \in Pcs /\ op \in Ops
      BY DEF Pcs, Ops
    <3> QED BY <2>1, <3>1, LoadedFields
  <2>3. KnowsOf(s, row[r], OffersOf(r), RosterOf(r), EventIds(r))
    BY <1>1, <2>2 DEF KnowsOf
  <2> QED BY <1>2, <2>1, <2>2, <2>3, StartsQuietly
<1> QED BY <1>1, <1>2 DEF CandidateCancel, CandidateReschedule

\* The engine opens a panel for the slot the candidate picked.
LEMMA SelectStartsQuietly ==
    ASSUME IInv, IsoInv, Isolated, NEW t \in Threads, NEW r \in Requests, NEW slot \in Slots,
           SelectSlot(t, r, slot)
    PROVE  IsoInv'
<1>1. PICK s : s = Loaded("live", "select", r)
  OBVIOUS
<1>2. /\ s \in Thread /\ s.pc = "live" /\ s.op = "select" /\ s.req = r
      /\ s.snap = row[r] /\ s.work = row[r] /\ s.targets = {}
      /\ s.released = {} /\ s.cancelled = {} /\ ~s.expired /\ s.todo = {}
  <2>1. "live" \in Pcs /\ "select" \in Ops
    BY DEF Pcs, Ops
  <2> QED BY <1>1, <2>1, LoadedFields
<1>3. PICK work : work = [row[r] EXCEPT !.status = "assigning_panel", !.seats = FreshSeats,
                                        !.slot = slot, !.event = 0]
  OBVIOUS
<1>4. /\ work \in Row /\ work.status = "assigning_panel" /\ work.seats = FreshSeats
      /\ work.event = 0
  <2>1. row[r] \in Row
    BY DEF IInv, TypeOK
  <2>2. 0 \in 0 .. MaxEvents /\ "assigning_panel" \in Statuses
    BY ServiceAssumption DEF Statuses, InterviewStatuses
  <2> QED BY <1>3, <2>1, <2>2, EmptyPanels DEF Row
<1>5. PICK u : u = [s EXCEPT !.work = work, !.targets = {}, !.cancelled = {}, !.todo = {}]
  OBVIOUS
<1>6. /\ u \in Thread /\ u.pc = "live" /\ u.op = "select" /\ u.req = r
      /\ u.snap = row[r] /\ u.work = work
      /\ u.released = {} /\ u.cancelled = {} /\ ~u.expired /\ u.todo = {}
  BY <1>2, <1>4, <1>5 DEF Thread
<1>7. Become(t, u)
  <2>1. u = [s EXCEPT !.work = work]
    BY <1>2, <1>5 DEF Thread
  <2>2. [s EXCEPT !.work = work] =
        [Loaded("live", "select", r) EXCEPT
                    !.work = [@ EXCEPT !.status = "assigning_panel",
                                       !.seats = FreshSeats,
                                       !.slot = slot,
                                       !.event = 0]]
    BY <1>1, <1>2, <1>3 DEF Thread
  <2> QED BY <2>1, <2>2 DEF SelectSlot
<1>8. KnowsOf(u, row[r], OffersOf(r), RosterOf(r), EventIds(r))
  BY <1>4, <1>6 DEF KnowsOf, KnowsLive, SelectSlot
<1> QED BY <1>6, <1>7, <1>8, StartsQuietly DEF SelectSlot

\* An interviewer answers an offer.
LEMMA RespondStartsQuietly ==
    ASSUME IInv, IsoInv, Isolated, NEW t \in Threads, NEW r \in Requests, NEW k \in SeatIndex,
           NEW accept \in BOOLEAN, RespondToSeat(t, r, k, accept)
    PROVE  IsoInv'
<1>0. /\ Free(t, r) /\ On(row[r]) /\ k \in SeatsWith(row[r].seats, "offered")
      /\ UNCHANGED <<row, offers, roster, calendar, made, elapsed>>
      /\ row[r] \in Row /\ row[r].seats \in Panels
  BY DEF RespondToSeat, On, Isolated, SeatsWith, IInv, TypeOK, Row
<1>r. Refreshes = {FALSE}
  BY DEF Refreshes, Isolated
<1>1. CASE ~accept
  <2>1. PICK s : s = Loaded("live", "decline", r)
    OBVIOUS
  <2>2. /\ s \in Thread /\ s.pc = "live" /\ s.op = "decline" /\ s.req = r
        /\ s.snap = row[r] /\ s.work = row[r]
        /\ s.released = {} /\ s.cancelled = {} /\ ~s.expired /\ s.todo = {}
    <3>1. "live" \in Pcs /\ "decline" \in Ops
      BY DEF Pcs, Ops
    <3> QED BY <2>1, <3>1, LoadedFields
  <2>3. PICK u : u = [s EXCEPT !.work = row[r], !.targets = {k}, !.cancelled = {}, !.todo = {}]
    OBVIOUS
  <2>4. /\ u \in Thread /\ u.pc = "live" /\ u.op = "decline" /\ u.req = r
        /\ u.snap = row[r] /\ u.work = row[r] /\ u.targets = {k}
        /\ u.released = {} /\ u.cancelled = {} /\ ~u.expired /\ u.todo = {}
    BY <1>0, <2>2, <2>3 DEF Thread
  <2>5. Become(t, u)
    <3>1. u = [s EXCEPT !.targets = {k}]
      BY <2>2, <2>3 DEF Thread
    <3> QED BY <1>1, <1>r, <2>1, <3>1 DEF RespondToSeat
  <2>6. KnowsOf(u, row[r], OffersOf(r), RosterOf(r), EventIds(r))
    BY <1>0, <2>4 DEF KnowsOf, KnowsLive
  <2> QED BY <1>0, <2>4, <2>5, <2>6, StartsQuietly
<1>2. CASE accept
  <2>1. PICK s : s = Loaded("persist", "accept", r)
    OBVIOUS
  <2>2. /\ s \in Thread /\ s.pc = "persist" /\ s.op = "accept" /\ s.req = r
        /\ s.snap = row[r] /\ s.work = row[r]
        /\ s.released = {} /\ s.cancelled = {} /\ ~s.expired /\ s.todo = {}
    <3>1. "persist" \in Pcs /\ "accept" \in Ops
      BY DEF Pcs, Ops
    <3> QED BY <2>1, <3>1, LoadedFields
  <2>3. PICK work : work = [row[r] EXCEPT !.seats = Accept(@, k)]
    OBVIOUS
  <2>4. work \in Row
    <3>1. Accept(row[r].seats, k) \in Panels
      BY <1>0, AcceptSound DEF IInv, SeatsWith
    <3> QED BY <1>0, <2>3, <3>1 DEF Row
  <2>5. PICK u : u = [s EXCEPT !.work = work, !.targets = {k}, !.cancelled = {}, !.todo = {}]
    OBVIOUS
  <2>6. /\ u \in Thread /\ u.pc = "persist" /\ u.op = "accept" /\ u.req = r
        /\ u.snap = row[r] /\ u.work = work /\ u.targets = {k}
        /\ u.released = {} /\ u.cancelled = {} /\ ~u.expired /\ u.todo = {}
    BY <1>0, <2>2, <2>4, <2>5 DEF Thread
  <2>7. Become(t, u)
    <3>1. u = [s EXCEPT !.work.seats = Accept(@, k), !.targets = {k}]
      BY <1>0, <2>2, <2>3, <2>5 DEF Thread, Row
    <3> QED BY <1>2, <1>r, <2>1, <3>1 DEF RespondToSeat, ExpireIf
  <2>8. LedgerSettled(r, row[r], OffersOf(r), RosterOf(r))
    BY <1>0, Taking DEF SettledRequest
  <2>9. KnowsOf(u, row[r], OffersOf(r), RosterOf(r), EventIds(r))
    BY <1>0, <2>3, <2>6, <2>8 DEF KnowsOf, KnowsPersist
  <2> QED BY <1>0, <2>6, <2>7, <2>9, StartsQuietly
<1> QED BY <1>1, <1>2

\* A confirmed interviewer backs out.
LEMMA BackOutStartsQuietly ==
    ASSUME IInv, IsoInv, Isolated, NEW t \in Threads, NEW r \in Requests, NEW i \in Interviewers,
           InterviewerCancel(t, r, i)
    PROVE  IsoInv'
<1>1. PICK s : s = Loaded("live", "interviewer_cancel", r)
  OBVIOUS
<1>2. /\ s \in Thread /\ s.pc = "live" /\ s.op = "interviewer_cancel" /\ s.req = r
      /\ s.snap = row[r] /\ s.work = row[r]
      /\ s.released = {} /\ ~s.expired /\ s.todo = {}
  <2>1. "live" \in Pcs /\ "interviewer_cancel" \in Ops
    BY DEF Pcs, Ops
  <2> QED BY <1>1, <2>1, LoadedFields
<1>3. PICK seats, rows : /\ seats = {k \in SeatsWith(row[r].seats, "accepted") : row[r].seats[k].who = i}
                         /\ rows = {p \in RosterOf(r) : p.who = i}
  OBVIOUS
<1>4. seats \in SUBSET SeatIndex /\ rows \in SUBSET Participant /\ row[r] \in Row
  BY <1>3 DEF SeatsWith, RosterOf, IInv, TypeOK
<1>5. PICK u : u = [s EXCEPT !.work = row[r], !.targets = seats, !.cancelled = rows, !.todo = {}]
  OBVIOUS
<1>6. /\ u \in Thread /\ u.pc = "live" /\ u.op = "interviewer_cancel" /\ u.req = r
      /\ u.snap = row[r] /\ u.work = row[r] /\ u.targets = seats /\ u.cancelled = rows
      /\ u.released = {} /\ ~u.expired /\ u.todo = {}
  BY <1>2, <1>4, <1>5 DEF Thread
<1>7. Become(t, u)
  <2>1. u = [s EXCEPT !.targets = seats, !.cancelled = rows]
    BY <1>2, <1>5 DEF Thread
  <2> QED BY <1>1, <1>3, <2>1 DEF InterviewerCancel
<1>8. KnowsOf(u, row[r], OffersOf(r), RosterOf(r), EventIds(r))
  BY <1>3, <1>6 DEF KnowsOf, KnowsLive, InterviewerCancel
<1> QED BY <1>6, <1>7, <1>8, StartsQuietly DEF InterviewerCancel

\* The sweep comes to a row.
LEMMA SweepTakes ==
    ASSUME IInv, IsoInv, NEW t \in Threads, NEW r \in Requests,
           NEW expired \in SUBSET SeatIndex, NEW todo \in SUBSET Requests,
           th[t].pc \in {"idle", "sweep"}, WorksOn(t, r) \/ Unclaimed(r),
           row[r].status = "assigning_panel", HasInterview(row[r]), expired # {},
           expired \subseteq SeatsWith(row[r].seats, "offered"), r \notin todo,
           \A q \in todo : row[q].status = "assigning_panel" /\ (WorksOn(t, q) \/ Unclaimed(q)),
           Become(t, [Loaded("live", "sweep", r) EXCEPT !.targets = expired, !.todo = todo]),
           UNCHANGED <<row, offers, roster, calendar, made, elapsed>>
    PROVE  IsoInv'
<1>1. PICK s : s = Loaded("live", "sweep", r)
  OBVIOUS
<1>2. /\ s \in Thread /\ s.pc = "live" /\ s.op = "sweep" /\ s.req = r
      /\ s.snap = row[r] /\ s.work = row[r]
      /\ s.released = {} /\ s.cancelled = {} /\ ~s.expired
  <2>1. "live" \in Pcs /\ "sweep" \in Ops
    BY DEF Pcs, Ops
  <2> QED BY <1>1, <2>1, LoadedFields
<1>3. PICK u : u = [s EXCEPT !.work = row[r], !.targets = expired, !.cancelled = {}, !.todo = todo]
  OBVIOUS
<1>4. /\ u \in Thread /\ u.pc = "live" /\ u.op = "sweep" /\ u.req = r
      /\ u.snap = row[r] /\ u.work = row[r] /\ u.targets = expired
      /\ u.released = {} /\ u.cancelled = {} /\ ~u.expired /\ u.todo = todo
  <2>1. row[r] \in Row
    BY DEF IInv, TypeOK
  <2> QED BY <1>2, <1>3, <2>1 DEF Thread
<1>5. Become(t, u)
  <2>1. u = [s EXCEPT !.targets = expired, !.todo = todo]
    BY <1>2, <1>3 DEF Thread
  <2> QED BY <1>1, <2>1
<1>6. On(row[r]) /\ row[r].status # "absent" /\ th[t].req = NoRequest
  BY DEF On, IsoInv, Knows
<1>7. KnowsOf(u, row[r], OffersOf(r), RosterOf(r), EventIds(r))
  BY <1>4, <1>6 DEF KnowsOf, KnowsLive
<1>8. Turn(t, r, u)
  BY <1>4, <1>5, <1>6 DEF Turn, Become
<1> QED BY <1>4, <1>6, <1>7, <1>8, QuietTurn

\* Every way the sweep goes on to a row, or past one.
LEMMA SweepsQuietly ==
    ASSUME IInv, IsoInv, Isolated, NEW t \in Threads, NEW r \in Requests,
           Sweep(t, r) \/ SweepOn(t)
    PROVE  IsoInv'
<1>1. ASSUME NEW expired \in SUBSET SeatIndex, NEW later \in SUBSET Requests,
             SweepExpiredOffers(t, r, expired, later)
      PROVE  IsoInv'
  <2>1. \A q \in later : q # r /\ Unclaimed(q) /\ row[q].status = "assigning_panel"
    BY <1>1, Taking DEF SweepExpiredOffers
  <2>2. Unclaimed(r) /\ th[t].pc = "idle"
    BY <1>1, Taking DEF SweepExpiredOffers
  <2> QED BY <1>1, <2>1, <2>2, SweepTakes DEF SweepExpiredOffers
<1>2. ASSUME NEW q \in Requests, NEW expired \in SUBSET SeatIndex, SweepNext(t, q, expired)
      PROVE  IsoInv'
  <2>1. th[t].todo \ {q} \in SUBSET Requests
    BY DEF IInv, TypeOK, Thread
  <2>2. \A p \in th[t].todo : row[p].status = "assigning_panel" /\ WorksOn(t, p)
    BY DEF IsoInv, WorksOn
  <2> QED BY <1>2, <2>1, <2>2, SweepTakes DEF SweepNext
<1>3. ASSUME NEW q \in Requests, SweepSkip(t, q) PROVE IsoInv'
  <2>1. th[t].todo \ {q} \in SUBSET Requests
    BY DEF IInv, TypeOK, Thread
  <2>2. \A p \in th[t].todo : row[p].status = "assigning_panel" /\ WorksOn(t, p)
    BY DEF IsoInv, WorksOn
  <2>3. PICK u : u = GoOnWith(th[t].todo \ {q})
    OBVIOUS
  <2>4. /\ u \in Thread /\ u.pc \in {"idle", "sweep"} /\ u.req = NoRequest
        /\ u.todo = th[t].todo \ {q}
    BY <2>1, <2>3, RestState
  <2>5. th[t].pc = "sweep" /\ th[t].req = NoRequest /\ q \in th[t].todo
    BY <1>3 DEF SweepSkip, IsoInv, Knows
  <2>6. Turn(t, q, u) /\ row[q].status # "absent"
    BY <1>3, <2>2, <2>3, <2>4, <2>5 DEF Turn, SweepSkip, Become
  <2> QED BY <1>3, <2>4, <2>5, <2>6, QuietTurn DEF SweepSkip
<1> QED BY <1>1, <1>2, <1>3 DEF Sweep, SweepOn

-----------------------------------------------------------------------------
(* Steps of a handler that has started                                     *)

\* What is known of the request it works on.
LEMMA Working ==
    ASSUME IInv, IsoInv, NEW t \in Threads, th[t].pc \notin {"idle", "sweep"},
           NEW r, r = th[t].req
    PROVE  /\ r \in Requests /\ th[t] \in Thread /\ row[r] \in Row
           /\ WorksOn(t, r) /\ r \notin th[t].todo /\ row[r].status # "absent"
           /\ KnowsOf(th[t], row[r], OffersOf(r), RosterOf(r), EventIds(r))
           /\ \A u \in Threads : th[u].req = r => u = t
           /\ RowSettled(row[r])
           /\ th[t].pc \notin {"fill", "persist"} =>
                LedgerSettled(r, row[r], OffersOf(r), RosterOf(r))
           /\ th[t].pc \notin {"record", "delete"} => EventSettled(row[r], EventIds(r))
<1>1. r \in Requests /\ KnowsOf(th[t], row[r], OffersOf(r), RosterOf(r), EventIds(r))
  BY DEF IsoInv, Knows
<1>2. WorksOn(t, r) /\ r \notin th[t].todo /\ row[r].status # "absent"
  BY <1>1 DEF IsoInv, Separate, WorksOn
<1>3. \A u \in Threads : th[u].req = r => u = t
  BY <1>1 DEF IsoInv, Separate, WorksOn
<1>4. th[t] \in Thread /\ row[r] \in Row
  BY <1>1 DEF IInv, TypeOK
<1>5. SettledRequest(r)
  BY <1>1 DEF IsoInv
<1>6. th[t].pc \notin {"fill", "persist"} => LedgerQuiet(r)
  BY <1>3 DEF LedgerQuiet
<1>7. th[t].pc \notin {"record", "delete"} => EventQuiet(r)
  BY <1>3 DEF EventQuiet
<1> QED BY <1>1, <1>2, <1>3, <1>4, <1>5, <1>6, <1>7 DEF SettledRequest

LEMMA GoesOn ==
    ASSUME IInv, IsoInv, NEW t \in Threads, th[t].pc \notin {"idle", "sweep"},
           NEW r, r = th[t].req,
           NEW state \in Thread, th' = [th EXCEPT ![t] = state],
           state.todo \subseteq th[t].todo, state.req \in {r, NoRequest}
    PROVE  Turn(t, r, state)
<1>1. \A q \in th[t].todo : row[q].status = "assigning_panel" /\ WorksOn(t, q)
  BY DEF IsoInv, WorksOn
<1> QED BY <1>1, Working DEF Turn

\* A step that writes nothing.
LEMMA QuietGoesOn ==
    ASSUME IInv, IsoInv, NEW t \in Threads,
           th[t].pc \notin {"idle", "sweep", "record", "delete"},
           NEW r, r = th[t].req,
           NEW state \in Thread, Become(t, state), state.todo \subseteq th[t].todo,
           UNCHANGED <<row, offers, roster, calendar, made, elapsed>>,
           th[t].pc \in {"fill", "persist"} =>
               state.req = th[t].req /\ state.pc \in {"fill", "persist"},
           \/ state.pc \in {"idle", "sweep"} /\ state.req = NoRequest
           \/ /\ state.pc \notin {"idle", "sweep"} /\ state.req = r
              /\ KnowsOf(state, row[r], OffersOf(r), RosterOf(r), EventIds(r))
    PROVE  IsoInv'
<1>1. r \in Requests /\ row[r].status # "absent"
  BY Working
<1>2. Turn(t, r, state)
  BY GoesOn DEF Become
<1> QED BY <1>1, <1>2, QuietTurn

\* A step that writes tables, of this request only.
LEMMA TableTurn ==
    ASSUME IInv, IsoInv, NEW t \in Threads, th[t].pc \notin {"idle", "sweep"},
           NEW r, r = th[t].req,
           NEW state \in Thread, Become(t, state), state.todo \subseteq th[t].todo,
           NEW rw, NEW os, NEW ps, NEW es,
           rw = row'[r], os = OffersOf(r)', ps = RosterOf(r)', es = EventIds(r)',
           \A q \in Requests \ {r} : Same(q),
           \/ state.pc \in {"idle", "sweep"} /\ state.req = NoRequest
           \/ /\ state.pc \notin {"idle", "sweep"} /\ state.req = r
              /\ KnowsOf(state, rw, os, ps, es),
           rw.status # "absent", RowSettled(rw),
           state.pc \notin {"fill", "persist"} => LedgerSettled(r, rw, os, ps),
           state.pc \notin {"record", "delete"} => EventSettled(rw, es)
    PROVE  IsoInv'
<1>1. r \in Requests /\ \A u \in Threads : th[u].req = r => u = t
  BY Working
<1>2. th'[t] = state /\ \A u \in Threads : u # t => th'[u] = th[u]
  BY DEF Become, IInv, TypeOK
<1>3. Turn(t, r, state)
  BY GoesOn DEF Become
<1>4. Elsewhere(r)
  BY DEF Elsewhere
<1>5. Knows(t)'
  BY <1>1, <1>2 DEF Knows
<1>6. SettledRequest(r)'
  <2>1. state.req = NoRequest => state.pc \in {"idle", "sweep"}
    BY <1>1, ServiceAssumption
  <2>2. LedgerQuiet(r)' => state.pc \notin {"fill", "persist"}
    BY <1>2, <2>1 DEF LedgerQuiet
  <2>3. EventQuiet(r)' => state.pc \notin {"record", "delete"}
    BY <1>2, <2>1 DEF EventQuiet
  <2> QED BY <2>2, <2>3 DEF SettledRequest
<1> QED BY <1>1, <1>3, <1>4, <1>5, <1>6, OneRequest

\* Where a handler leaves off.
LEMMA LeavesOff ==
    ASSUME IInv, NEW t \in Threads
    PROVE  /\ Afterwards(t) \in Thread /\ Afterwards(t).pc \in {"idle", "sweep"}
           /\ Afterwards(t).req = NoRequest /\ Afterwards(t).todo = th[t].todo
<1>1. th[t].todo \in SUBSET Requests
  BY DEF IInv, TypeOK, Thread
<1> QED BY <1>1, RestState DEF Afterwards

\* The engine finds enough people, or hands the interview to a human.
LEMMA AssignGoesOn ==
    ASSUME IInv, IsoInv, Isolated, NEW t \in Threads, AssignPanel(t)
    PROVE  IsoInv'
<1>1. PICK r : r = th[t].req
  OBVIOUS
<1>2. /\ th[t].pc = "live" /\ th[t].op = "select"
      /\ UNCHANGED <<row, offers, roster, calendar, made, elapsed>>
  BY DEF AssignPanel
<1>3. /\ r \in Requests /\ th[t] \in Thread /\ row[r] \in Row
      /\ KnowsLive(th[t], row[r], RosterOf(r))
      /\ RowSettled(row[r]) /\ LedgerSettled(r, row[r], OffersOf(r), RosterOf(r))
      /\ EventSettled(row[r], EventIds(r))
  BY <1>1, <1>2, Working DEF KnowsOf
<1>4. PICK s : s = th[t]
  OBVIOUS
<1>5. /\ s.snap = row[r] /\ ~s.expired /\ s.released = {} /\ s.cancelled = {}
      /\ row[r].status = "awaiting_candidate_selection"
      /\ s.work.status = "assigning_panel" /\ s.work.seats = FreshSeats
      /\ s.work.event = 0 /\ s.req = r /\ s.op = "select"
  BY <1>1, <1>2, <1>3, <1>4 DEF KnowsLive
<1>6. OffersOf(r) = {} /\ RosterOf(r) = {} /\ row[r].event = 0
  BY <1>3, <1>5 DEF LedgerSettled, EventSettled, On, HasInterview, InterviewStatuses
<1>7. OfferRows(r, FreshSeats, s.work.slot) = {} /\ AcceptedRoster(r, FreshSeats) = {}
  BY EmptyOpen DEF OfferRows, AcceptedRoster
<1>8. Carries(s, row[r], OffersOf(r), RosterOf(r))
  BY <1>5, <1>6, <1>7, EmptyOpen DEF Carries
<1>9. ASSUME NEW F \in SUBSET Interviewers, Become(t, [s EXCEPT !.pc = "fill", !.feas = F])
      PROVE  IsoInv'
  <2>1. PICK u : u = [s EXCEPT !.pc = "fill", !.feas = F]
    OBVIOUS
  <2>2. /\ u \in Thread /\ u.pc = "fill" /\ u.op = s.op /\ u.req = s.req /\ u.todo = s.todo
        /\ u.snap = s.snap /\ u.work = s.work /\ u.released = s.released
        /\ u.cancelled = s.cancelled
    BY <1>3, <1>4, <2>1 DEF Thread, Pcs
  <2>3. Carries(u, row[r], OffersOf(r), RosterOf(r))
    BY <1>8, <2>2 DEF Carries
  <2>4. KnowsOf(u, row[r], OffersOf(r), RosterOf(r), EventIds(r))
    BY <1>5, <2>2, <2>3 DEF KnowsOf, KnowsFill, Undecided
  <2> QED BY <1>1, <1>2, <1>4, <1>5, <1>9, <2>1, <2>2, <2>4, QuietGoesOn
<1>10. ASSUME Become(t, [s EXCEPT !.pc = "persist",
                                  !.work.status = "manual_scheduling_required"])
       PROVE  IsoInv'
  <2>1. PICK work : work = [s.work EXCEPT !.status = "manual_scheduling_required"]
    OBVIOUS
  <2>2. PICK u : u = [s EXCEPT !.pc = "persist", !.work = work]
    OBVIOUS
  <2>3. s.work \in Row /\ work \in Row /\ work.status = "manual_scheduling_required"
        /\ work.seats = s.work.seats /\ work.slot = s.work.slot /\ work.event = s.work.event
    <3>1. s.work \in Row
      BY <1>3, <1>4 DEF Thread
    <3> QED BY <2>1, <3>1 DEF Row, Statuses, InterviewStatuses
  <2>4. /\ u \in Thread /\ u.pc = "persist" /\ u.op = s.op /\ u.req = s.req /\ u.todo = s.todo
        /\ u.snap = s.snap /\ u.work = work /\ u.released = s.released
        /\ u.cancelled = s.cancelled
    BY <1>3, <1>4, <2>2, <2>3 DEF Thread, Pcs
  <2>5. Carries(u, row[r], OffersOf(r), RosterOf(r))
    BY <1>8, <2>3, <2>4 DEF Carries
  <2>6. KnowsOf(u, row[r], OffersOf(r), RosterOf(r), EventIds(r))
    BY <1>5, <2>3, <2>4, <2>5 DEF KnowsOf, KnowsPersist
  <2>7. [s EXCEPT !.pc = "persist", !.work.status = "manual_scheduling_required"] = u
    BY <1>3, <1>4, <2>1, <2>2 DEF Thread
  <2> QED BY <1>1, <1>2, <1>4, <1>5, <1>10, <2>4, <2>6, <2>7, QuietGoesOn
<1>11. \E F \in SUBSET FreeInterviewers(t) :
         Become(t, IF Cardinality(F) < PanelistsRequired
                   THEN [s EXCEPT !.pc = "persist",
                                  !.work.status = "manual_scheduling_required"]
                   ELSE [s EXCEPT !.pc = "fill", !.feas = F])
  BY <1>4 DEF AssignPanel, Isolated, Refreshes, ExpireIf
<1>12. FreeInterviewers(t) \subseteq Interviewers
  BY DEF FreeInterviewers
<1> QED BY <1>9, <1>10, <1>11, <1>12

\* Steps that leave the request as it is.
LEMMA PassesOn ==
    ASSUME IInv, IsoInv, Isolated, NEW t \in Threads,
           SkipDispatch(t) \/ Resubmit(t) \/ RefuseCancel(t)
    PROVE  IsoInv'
<1>1. PICK r : r = th[t].req
  OBVIOUS
<1>2. CASE SkipDispatch(t)
  <2>1. PICK u : u = Afterwards(t)
    OBVIOUS
  <2>2. u \in Thread /\ u.pc \in {"idle", "sweep"} /\ u.req = NoRequest /\ u.todo = th[t].todo
    BY <2>1, LeavesOff
  <2>3. th[t].pc = "dispatch" /\ Become(t, u)
        /\ UNCHANGED <<row, offers, roster, calendar, made, elapsed>>
    BY <1>2, <2>1 DEF SkipDispatch
  <2> QED BY <1>1, <2>2, <2>3, QuietGoesOn
<1>3. CASE Resubmit(t)
  <2>0. th[t].pc = "resubmit" /\ UNCHANGED <<row, offers, roster, calendar, made, elapsed>>
    BY <1>3 DEF Resubmit
  <2>r. r \in Requests
    BY <1>1, <2>0, Working
  <2>1. CASE row[r].status = "collecting_availability"
    <3>1. PICK u : u = Loaded("search", "submit", r)
      OBVIOUS
    <3>2. u \in Thread /\ u.pc = "search" /\ u.req = r /\ u.todo = {}
      <4>1. "search" \in Pcs /\ "submit" \in Ops
        BY DEF Pcs, Ops
      <4> QED BY <2>r, <3>1, <4>1, LoadedFields
    <3>3. KnowsOf(u, row[r], OffersOf(r), RosterOf(r), EventIds(r))
      BY <2>1, <3>2 DEF KnowsOf
    <3>4. Become(t, u)
      BY <1>1, <1>3, <2>1, <3>1 DEF Resubmit
    <3> QED BY <1>1, <2>0, <3>2, <3>3, <3>4, QuietGoesOn
  <2>2. CASE row[r].status # "collecting_availability"
    <3>1. PICK u : u = Idle
      OBVIOUS
    <3>2. u \in Thread /\ u.pc = "idle" /\ u.req = NoRequest /\ u.todo = {}
      BY <3>1, RestState
    <3>3. Become(t, u)
      BY <1>1, <1>3, <2>2, <3>1 DEF Resubmit
    <3> QED BY <1>1, <2>0, <3>2, <3>3, QuietGoesOn
  <2> QED BY <2>1, <2>2
<1>4. CASE RefuseCancel(t)
  <2>1. PICK u : u = Idle
    OBVIOUS
  <2>2. u \in Thread /\ u.pc = "idle" /\ u.req = NoRequest /\ u.todo = {}
    BY <2>1, RestState
  <2>3. /\ th[t].pc = "live" /\ Become(t, u)
        /\ UNCHANGED <<row, offers, roster, calendar, made, elapsed>>
    BY <1>4, <2>1 DEF RefuseCancel, Refreshes, Isolated
  <2> QED BY <1>1, <2>2, <2>3, QuietGoesOn
<1> QED BY <1>2, <1>3, <1>4

\* The offers release() finds are those of the people on the seats.
LEMMA FoundThere ==
    ASSUME NEW r, NEW slot, NEW seats, NEW now, \A k \in SeatIndex : now[k].who = seats[k].who,
           OffersOf(r) = OfferRows(r, seats, slot), NEW K \in SUBSET SeatIndex,
           NEW D \in FoundOffers(r, now, K)
    PROVE  D = {[iv |-> r, seat |-> k, who |-> seats[k].who, slot |-> slot] :
                    k \in SeatsWith(seats, "offered") \cap K}
<1> DEFINE offer(k) == [iv |-> r, seat |-> k, who |-> seats[k].who, slot |-> slot]
<1>1. OffersOf(r) = {offer(k) : k \in SeatsWith(seats, "offered")}
  BY DEF OfferRows
<1>2. \A k : offer(k).seat = k /\ offer(k).who = seats[k].who
  OBVIOUS
<1> HIDE DEF offer
<1>3. SeatsWith(seats, "offered") \subseteq SeatIndex
  BY DEF SeatsWith
<1>4. HeldOffers(r, now, K) = {offer(k) : k \in SeatsWith(seats, "offered") \cap K}
  BY <1>1, <1>2, <1>3 DEF HeldOffers
<1>5. /\ D \subseteq HeldOffers(r, now, K)
      /\ \A o \in HeldOffers(r, now, K) : \E d \in D : d.seat = o.seat
  BY DEF FoundOffers
<1>6. D = HeldOffers(r, now, K)
  BY <1>2, <1>4, <1>5
<1> QED BY <1>4, <1>6 DEF offer

\* The fill loop after one more seat.
LEMMA WithSeatsFields ==
    ASSUME IInv, NEW t \in Threads, th[t].pc = "fill", NEW seats \in Panels,
           NEW u, u = WithSeats(t, seats)
    PROVE  /\ u \in Thread /\ u.op = th[t].op /\ u.req = th[t].req /\ u.todo = th[t].todo
           /\ u.released = th[t].released /\ u.cancelled = th[t].cancelled
           /\ u.work.status = th[t].work.status /\ u.work.seats = seats
           /\ u.work.slot = th[t].work.slot /\ u.work.event = th[t].work.event
           /\ u.snap = th[t].snap /\ (th[t].expired => u.expired)
           /\ u.pc \in {"fill", "persist"}
           /\ u.pc = "persist" => SeatsWith(seats, "pending") = {}
<1>1. th[t] \in Thread /\ th[t].work \in Row
  BY ThreadFacts
<1>2. PICK s : s = th[t]
  OBVIOUS
<1>3. PICK work : work = [s.work EXCEPT !.seats = seats]
  OBVIOUS
<1>4. /\ work \in Row /\ work.status = s.work.status /\ work.seats = seats
      /\ work.slot = s.work.slot /\ work.event = s.work.event
  BY <1>1, <1>2, <1>3 DEF Row
<1>5. CASE SeatsWith(seats, "pending") = {}
  <2>1. u = [s EXCEPT !.work = work, !.pc = "persist", !.feas = {}]
    BY <1>1, <1>2, <1>3, <1>5 DEF WithSeats, Thread
  <2> QED BY <1>1, <1>2, <1>4, <1>5, <2>1 DEF Thread, Pcs
<1>6. CASE SeatsWith(seats, "pending") # {}
  <2>1. u = [s EXCEPT !.work = work]
    BY <1>1, <1>2, <1>3, <1>6 DEF WithSeats, Thread
  <2> QED BY <1>1, <1>2, <1>4, <1>6, <2>1 DEF Thread, Pcs
<1> QED BY <1>5, <1>6

\* Nobody is left for a seat.
LEMMA ExhaustGoesOn ==
    ASSUME IInv, IsoInv, NEW t \in Threads, NEW k \in SeatIndex, ExhaustSeat(t, k)
    PROVE  IsoInv'
<1>1. PICK r, s, seats : r = th[t].req /\ s = th[t] /\ seats = Exhaust(th[t].work.seats, k)
  OBVIOUS
<1>2. /\ s.pc = "fill" /\ k \in SeatsWith(s.work.seats, "pending")
      /\ UNCHANGED <<row, offers, roster, calendar, made, elapsed>>
  BY <1>1 DEF ExhaustSeat, IsNextPending
<1>3. KnowsFill(s, row[r], OffersOf(r), RosterOf(r)) /\ r \in Requests
  BY <1>1, <1>2, Working DEF KnowsOf
<1>4. s.work.seats \in Panels /\ seats \in Panels
  BY <1>1, ThreadFacts, ExhaustSound
<1>5. PICK u : u = WithSeats(t, seats)
  OBVIOUS
<1>6. /\ u \in Thread /\ u.op = s.op /\ u.req = s.req /\ u.todo = s.todo
      /\ u.released = s.released /\ u.cancelled = s.cancelled
      /\ u.work.status = s.work.status /\ u.work.seats = seats
      /\ u.work.slot = s.work.slot /\ u.work.event = s.work.event
      /\ u.snap = s.snap /\ (s.expired => u.expired)
      /\ u.pc \in {"fill", "persist"}
      /\ u.pc = "persist" => SeatsWith(seats, "pending") = {}
  BY <1>1, <1>2, <1>4, <1>5, WithSeatsFields
<1>7. Carries(s, row[r], OffersOf(r), RosterOf(r))
  BY <1>3 DEF KnowsFill
<1>8. /\ OfferRows(s.req, seats, s.work.slot) = OfferRows(s.req, s.work.seats, s.work.slot)
      /\ AcceptedRoster(s.req, seats) = AcceptedRoster(s.req, s.work.seats)
      /\ SeatsWith(seats, "exhausted") # {} /\ Open(seats)
  BY <1>1, <1>2, <1>4, <1>7, ExhaustRows DEF Carries
<1>9. Carries(u, row[r], OffersOf(r), RosterOf(r))
  BY <1>6, <1>7, <1>8 DEF Carries
<1>10. Undecided(u.work)
  BY <1>3, <1>6, <1>8 DEF KnowsFill, Undecided
<1>11. KnowsOf(u, row[r], OffersOf(r), RosterOf(r), EventIds(r))
  BY <1>3, <1>6, <1>9, <1>10 DEF KnowsOf, KnowsFill, KnowsPersist
<1>12. Become(t, u)
  BY <1>1, <1>5 DEF ExhaustSeat
<1> QED BY <1>1, <1>2, <1>3, <1>6, <1>11, <1>12, QuietGoesOn

\* Seats are given back: with what is flushed, the ledger says so too.
LEMMA ReopenGoesOn ==
    ASSUME IInv, IsoInv, Isolated, NEW t \in Threads, Reopening(t)
    PROVE  IsoInv'
<1>1. PICK r, s, K, seats, after :
        /\ r = th[t].req /\ s = th[t] /\ K = th[t].targets /\ seats = th[t].work.seats
        /\ after = Reopen(seats, K)
  OBVIOUS
<1>2. /\ s.pc = "live" /\ s.op \in {"decline", "interviewer_cancel", "sweep"}
      /\ s.op = "interviewer_cancel" => CancelAllowed(t)
      /\ UNCHANGED <<row, offers, calendar, made, elapsed>>
  BY <1>1 DEF Reopening
<1>3. PICK F \in SUBSET FreeInterviewers(t), D \in FoundOffers(r, seats, K) :
        /\ roster' = roster
        /\ Become(t, [s EXCEPT
                         !.pc = "fill",
                         !.feas = F,
                         !.targets = {},
                         !.released = D,
                         !.cancelled = @,
                         !.work.seats = Reopen(@, K),
                         !.work.status = IF s.op = "interviewer_cancel"
                                         THEN "assigning_panel" ELSE @])
  <2>1. Refreshes = {FALSE}
    BY DEF Refreshes, Isolated
  <2>2. PICK F \in SUBSET FreeInterviewers(t), refreshed \in Refreshes, D \in FoundOffers(r, seats, K) :
         /\ roster' = IF refreshed THEN roster \ th[t].cancelled ELSE roster
         /\ Become(t, ExpireIf(refreshed, [th[t] EXCEPT
                         !.pc = "fill",
                         !.feas = F,
                         !.targets = {},
                         !.released = D,
                         !.cancelled = IF refreshed THEN {} ELSE @,
                         !.work.seats = Reopen(@, th[t].targets),
                         !.work.status = IF th[t].op = "interviewer_cancel"
                                         THEN "assigning_panel" ELSE @]))
    BY <1>1 DEF Reopening
  <2>3. ~refreshed
    BY <2>1
  <2> QED BY <1>1, <2>2, <2>3 DEF ExpireIf
<1>4. /\ r \in Requests /\ s \in Thread /\ row[r] \in Row
      /\ KnowsLive(s, row[r], RosterOf(r))
      /\ RowSettled(row[r]) /\ LedgerSettled(r, row[r], OffersOf(r), RosterOf(r))
  BY <1>1, <1>2, Working DEF KnowsOf
<1>5. /\ s.snap = row[r] /\ s.work = row[r] /\ seats = row[r].seats /\ HasInterview(row[r])
      /\ seats \in Panels /\ K \in SUBSET SeatIndex /\ s.req = r
  <2>1. s.snap = row[r] /\ s.work = row[r] /\ HasInterview(row[r])
    BY <1>2, <1>4 DEF KnowsLive, On
  <2> QED BY <1>1, <1>4, <2>1 DEF Thread, Row
<1>6. On(row[r])
  BY <1>1, <1>2, <1>4, <1>5 DEF KnowsLive, CancelAllowed, On
<1>7. Open(seats) /\ StatusTrue(row[r].status, seats)
  BY <1>4, <1>5 DEF RowSettled, HasInterview
<1>8. /\ OffersOf(r) = OfferRows(r, seats, row[r].slot)
      /\ RosterOf(r) = AcceptedRoster(r, seats)
  BY <1>4, <1>5, <1>6 DEF LedgerSettled
<1>9. D = {[iv |-> r, seat |-> k, who |-> seats[k].who, slot |-> row[r].slot] :
                    k \in SeatsWith(seats, "offered") \cap K}
  BY <1>3, <1>5, <1>8, FoundThere
<1>10. /\ OfferRows(r, after, row[r].slot) =
             {[iv |-> r, seat |-> k, who |-> seats[k].who, slot |-> row[r].slot] :
                k \in SeatsWith(seats, "offered") \ K}
       /\ AcceptedRoster(r, after) =
             {[iv |-> r, seat |-> k, who |-> seats[k].who] :
                k \in SeatsWith(seats, "accepted") \ K}
       /\ SeatsWith(after, "exhausted") = SeatsWith(seats, "exhausted") \ K
       /\ Open(after)
  <2>1. after = Reopen(seats, K)
    BY <1>1
  <2>2. /\ OfferRows(r, Reopen(seats, K), row[r].slot) =
             {[iv |-> r, seat |-> k, who |-> seats[k].who, slot |-> row[r].slot] :
                k \in SeatsWith(seats, "offered") \ K}
        /\ AcceptedRoster(r, Reopen(seats, K)) =
             {[iv |-> r, seat |-> k, who |-> seats[k].who] :
                k \in SeatsWith(seats, "accepted") \ K}
        /\ SeatsWith(Reopen(seats, K), "exhausted") = SeatsWith(seats, "exhausted") \ K
        /\ Open(Reopen(seats, K))
    BY <1>5, <1>7, ReopenRows
  <2> QED BY <2>1, <2>2
<1>11. OffersOf(r) \ D = OfferRows(r, after, row[r].slot) /\ D \subseteq OffersOf(r)
  <2> DEFINE offer(k) == [iv |-> r, seat |-> k, who |-> seats[k].who, slot |-> row[r].slot]
  <2>1. \A j, k : offer(j) = offer(k) => j = k
    OBVIOUS
  <2>2. /\ OffersOf(r) = {offer(k) : k \in SeatsWith(seats, "offered")}
        /\ D = {offer(k) : k \in SeatsWith(seats, "offered") \cap K}
        /\ OfferRows(r, after, row[r].slot) = {offer(k) : k \in SeatsWith(seats, "offered") \ K}
    BY <1>8, <1>9, <1>10 DEF OfferRows
  <2> HIDE DEF offer
  <2> QED BY <2>1, <2>2
<1> DEFINE status == IF s.op = "interviewer_cancel" THEN "assigning_panel" ELSE row[r].status
<1>12. /\ s.cancelled \subseteq RosterOf(r)
       /\ RosterOf(r) \ s.cancelled = AcceptedRoster(r, after)
       /\ \/ status = "assigning_panel"
          \/ /\ status = "manual_scheduling_required"
             /\ SeatsWith(after, "exhausted") # {}
       /\ status \in Statuses
  <2>1. CASE s.op \in {"decline", "sweep"}
    <3>1. s.cancelled = {} /\ K # {} /\ K \subseteq SeatsWith(seats, "offered")
      BY <1>1, <1>4, <1>5, <2>1 DEF KnowsLive
    <3>2. SeatsWith(seats, "accepted") \ K = SeatsWith(seats, "accepted")
      BY <3>1 DEF SeatsWith
    <3>3. AcceptedRoster(r, after) = AcceptedRoster(r, seats)
      BY <1>10, <3>2 DEF AcceptedRoster
    <3>4. row[r].status # "panel_complete"
      BY <1>7, <3>1 DEF StatusTrue, SeatsWith
    <3>5. SeatsWith(after, "exhausted") = SeatsWith(seats, "exhausted")
      BY <1>10, <3>1 DEF SeatsWith
    <3>6. seats # FreshSeats
      BY <3>1, EmptyOpen
    <3>7. row[r].status \in {"assigning_panel", "manual_scheduling_required"}
      BY <1>6, <3>4 DEF On, HasInterview, InterviewStatuses
    <3>8. row[r].status = "manual_scheduling_required" => SeatsWith(after, "exhausted") # {}
      BY <1>7, <3>5, <3>6 DEF StatusTrue
    <3> QED BY <1>8, <2>1, <3>1, <3>3, <3>7, <3>8 DEF Statuses, InterviewStatuses
  <2>2. CASE s.op = "interviewer_cancel"
    <3>1. PICK i \in Interviewers : /\ K = {k \in SeatsWith(seats, "accepted") : seats[k].who = i}
                                    /\ s.cancelled = {p \in RosterOf(r) : p.who = i}
      BY <1>1, <1>4, <1>5, <2>2 DEF KnowsLive
    <3> DEFINE seat(k) == [iv |-> r, seat |-> k, who |-> seats[k].who]
    <3>2. \A k : seat(k).who = seats[k].who
      OBVIOUS
    <3>3. /\ RosterOf(r) = {seat(k) : k \in SeatsWith(seats, "accepted")}
          /\ AcceptedRoster(r, after) = {seat(k) : k \in SeatsWith(seats, "accepted") \ K}
      BY <1>8, <1>10 DEF AcceptedRoster
    <3> HIDE DEF seat
    <3>4. RosterOf(r) \ s.cancelled = AcceptedRoster(r, after)
      BY <3>1, <3>2, <3>3
    <3> QED BY <2>2, <3>1, <3>4 DEF Statuses, InterviewStatuses
  <2> QED BY <1>2, <2>1, <2>2
<1> HIDE DEF status
<1>13. PICK work : work = [s.work EXCEPT !.seats = after, !.status = status]
  OBVIOUS
<1>14. PICK u : u = [s EXCEPT !.pc = "fill", !.feas = F, !.targets = {}, !.released = D,
                              !.work = work]
  OBVIOUS
<1>15. s.work \in Row /\ after \in Panels
  BY <1>1, ThreadFacts, <1>2, <1>4, <1>5, ReopenSound DEF Thread
<1>16. /\ work \in Row /\ work.status = status /\ work.seats = after
       /\ work.slot = row[r].slot /\ work.event = row[r].event
  BY <1>5, <1>12, <1>13, <1>15 DEF Row
<1>17. D \in SUBSET Offer /\ F \in SUBSET Interviewers
  BY <1>11 DEF OffersOf, FreeInterviewers, IInv, TypeOK
<1>18. /\ u \in Thread /\ u.pc = "fill" /\ u.op = s.op /\ u.req = r /\ u.todo = s.todo
       /\ u.snap = row[r] /\ u.work = work /\ u.released = D /\ u.cancelled = s.cancelled
  BY <1>4, <1>5, <1>14, <1>16, <1>17 DEF Thread, Pcs
<1>19. Carries(u, row[r], OffersOf(r), RosterOf(r))
  BY <1>5, <1>10, <1>11, <1>12, <1>16, <1>18 DEF Carries
<1>20. Undecided(u.work)
  BY <1>12, <1>16, <1>18 DEF Undecided
<1>21. KnowsOf(u, row[r], OffersOf(r), RosterOf(r), EventIds(r))
  BY <1>2, <1>18, <1>19, <1>20 DEF KnowsOf, KnowsFill
<1>22. Become(t, u)
  <2>1. u = [s EXCEPT !.pc = "fill",
                         !.feas = F,
                         !.targets = {},
                         !.released = D,
                         !.cancelled = @,
                         !.work.seats = Reopen(@, K),
                         !.work.status = IF s.op = "interviewer_cancel"
                                         THEN "assigning_panel" ELSE @]
    BY <1>1, <1>4, <1>5, <1>13, <1>14, <1>15 DEF Thread, Row, status
  <2> QED BY <1>3, <2>1
<1> QED BY <1>1, <1>2, <1>3, <1>4, <1>18, <1>21, <1>22, QuietGoesOn

-----------------------------------------------------------------------------
(* Steps that write tables                                                 *)

\* What a step writes for one request only.
LEMMA RowsApart ==
    ASSUME IInv, NEW r \in Requests, NEW rw \in Row, row' = [row EXCEPT ![r] = rw]
    PROVE  row'[r] = rw /\ \A q \in Requests \ {r} : row'[q] = row[q]
BY DEF IInv, TypeOK

LEMMA EventsApart ==
    ASSUME NEW r \in Requests, NEW n, NEW e, e = [iv |-> r, id |-> n]
    PROVE  /\ calendar' = calendar => \A q \in Requests : EventIds(q)' = EventIds(q)
           /\ calendar' = calendar \cup {e} =>
                /\ EventIds(r)' = EventIds(r) \cup {n}
                /\ \A q \in Requests \ {r} : EventIds(q)' = EventIds(q)
           /\ IInv /\ calendar' = calendar \ {e} =>
                /\ EventIds(r)' = EventIds(r) \ {n}
                /\ \A q \in Requests \ {r} : EventIds(q)' = EventIds(q)
<1>1. calendar' = calendar => \A q \in Requests : EventIds(q)' = EventIds(q)
  BY DEF EventIds
<1>2. ASSUME calendar' = calendar \cup {e}
      PROVE  /\ EventIds(r)' = EventIds(r) \cup {n}
             /\ \A q \in Requests \ {r} : EventIds(q)' = EventIds(q)
  BY <1>2 DEF EventIds
<1>3. ASSUME IInv, calendar' = calendar \ {e}
      PROVE  /\ EventIds(r)' = EventIds(r) \ {n}
             /\ \A q \in Requests \ {r} : EventIds(q)' = EventIds(q)
  <2>1. \A x \in calendar : x.iv = r /\ x.id = n => x = e
    BY <1>3 DEF IInv, TypeOK, Event
  <2> QED BY <1>3, <2>1 DEF EventIds
<1> QED BY <1>1, <1>2, <1>3

\* A seat is offered and the ledger committed.
LEMMA OfferGoesOn ==
    ASSUME IInv, IsoInv, NEW t \in Threads, NEW k \in SeatIndex, NEW i \in Interviewers,
           OfferSeat(t, k, i)
    PROVE  IsoInv'
<1>1. PICK r, s, seats, o :
        /\ r = th[t].req /\ s = th[t] /\ seats = OfferTo(th[t].work.seats, k, i)
        /\ o = [iv |-> th[t].req, seat |-> k, who |-> i, slot |-> th[t].work.slot]
  OBVIOUS
<1>2. /\ s.pc = "fill" /\ k \in SeatsWith(s.work.seats, "pending")
      /\ i \notin Excluded(s.work.seats, k)
      /\ offers' = (offers \ s.released) \cup {o} /\ roster' = roster \ s.cancelled
      /\ row' = row /\ calendar' = calendar
  BY <1>1 DEF OfferSeat, IsNextPending, Candidates
<1>3. /\ r \in Requests /\ row[r] \in Row /\ row[r].status # "absent"
      /\ KnowsFill(s, row[r], OffersOf(r), RosterOf(r))
      /\ RowSettled(row[r]) /\ EventSettled(row[r], EventIds(r))
  BY <1>1, <1>2, Working DEF KnowsOf
<1>4. Carries(s, row[r], OffersOf(r), RosterOf(r)) /\ Open(s.work.seats)
  BY <1>3 DEF KnowsFill, Carries
<1>5. s.work.seats \in Panels /\ seats \in Panels
  <2>1. s.work.seats \in Panels /\ PanelOK(s.work.seats)
    BY <1>1, ThreadFacts
  <2>2. s.work.seats[k].status = "pending"
    BY <1>2 DEF SeatsWith
  <2> QED BY <1>1, <1>2, <2>1, <2>2, OfferToSound
<1>6. PICK os, ps : os = OffersOf(r)' /\ ps = RosterOf(r)'
  OBVIOUS
<1>7. /\ os = (OffersOf(r) \ s.released) \cup {o} /\ ps = RosterOf(r) \ s.cancelled
      /\ \A q \in Requests \ {r} : Same(q)
  <2>1. \A x \in {o} : x.iv = r
    BY <1>1
  <2>2. roster' = (roster \ s.cancelled) \cup {}
    BY <1>2
  <2>3. s.released \subseteq OffersOf(r) /\ s.cancelled \subseteq RosterOf(r)
    BY <1>4 DEF Carries
  <2>4. /\ OffersOf(r)' = (OffersOf(r) \ s.released) \cup {o}
        /\ RosterOf(r)' = (RosterOf(r) \ s.cancelled) \cup {}
        /\ \A q \in Requests \ {r} : OffersOf(q)' = OffersOf(q) /\ RosterOf(q)' = RosterOf(q)
    BY <1>2, <2>1, <2>2, <2>3 DEF OffersOf, RosterOf
  <2>5. \A q \in Requests : EventIds(q)' = EventIds(q)
    BY <1>2 DEF EventIds
  <2> QED BY <1>2, <1>6, <2>4, <2>5 DEF Same
<1>8. /\ OfferRows(r, seats, s.work.slot) = OfferRows(r, s.work.seats, s.work.slot) \cup {o}
      /\ AcceptedRoster(r, seats) = AcceptedRoster(r, s.work.seats)
      /\ SeatsWith(seats, "exhausted") = SeatsWith(s.work.seats, "exhausted")
      /\ Open(seats)
  BY <1>1, <1>2, <1>4, <1>5, OfferToRows
<1>9. PICK v : v = WithSeats(t, seats)
  OBVIOUS
<1>10. /\ v \in Thread /\ v.op = s.op /\ v.req = r /\ v.todo = s.todo
       /\ v.work.status = s.work.status /\ v.work.seats = seats
       /\ v.work.slot = s.work.slot /\ v.work.event = s.work.event
       /\ v.pc \in {"fill", "persist"}
       /\ v.pc = "persist" => SeatsWith(seats, "pending") = {}
  BY <1>1, <1>2, <1>5, <1>9, WithSeatsFields
<1>11. PICK u : u = Expire([v EXCEPT !.released = {}, !.cancelled = {}])
  OBVIOUS
<1>12. /\ u \in Thread /\ u.op = s.op /\ u.req = r /\ u.todo = s.todo
       /\ u.released = {} /\ u.cancelled = {} /\ u.expired /\ u.pc = v.pc /\ u.work = v.work
  BY <1>10, <1>11, NoRowTyped DEF Expire, Thread
<1>13. Carries(u, row[r], os, ps)
  <2>1. /\ s.work.event = row[r].event
        /\ s.work.slot = row[r].slot \/ RosterOf(r) = {}
        /\ OffersOf(r) \ s.released = OfferRows(r, s.work.seats, s.work.slot)
        /\ RosterOf(r) \ s.cancelled = AcceptedRoster(r, s.work.seats)
    BY <1>1, <1>4 DEF Carries
  <2>2. os = OfferRows(r, seats, s.work.slot) /\ ps = AcceptedRoster(r, seats)
    BY <1>7, <1>8, <2>1
  <2>3. s.work.slot = row[r].slot \/ ps = {}
    BY <1>7, <2>1
  <2> QED BY <1>8, <1>10, <1>12, <2>1, <2>2, <2>3 DEF Carries
<1>14. Undecided(u.work)
  BY <1>3, <1>8, <1>10, <1>12 DEF KnowsFill, Undecided
<1>15. PICK es : es = EventIds(r)'
  OBVIOUS
<1>16. es = EventIds(r)
  BY <1>2, <1>15 DEF EventIds
<1>17. KnowsOf(u, row[r], os, ps, es)
  BY <1>3, <1>10, <1>12, <1>13, <1>14 DEF KnowsOf, KnowsFill, KnowsPersist
<1>18. Become(t, u)
  BY <1>1, <1>9, <1>11 DEF OfferSeat
<1>19. PICK rw : rw = row[r]
  OBVIOUS
<1>20. rw = row'[r] /\ th[t].pc = "fill" /\ u.todo = th[t].todo /\ u.pc \in {"fill", "persist"}
  BY <1>1, <1>2, <1>10, <1>12, <1>19
<1>21. KnowsOf(u, rw, os, ps, es) /\ rw.status # "absent" /\ RowSettled(rw) /\ EventSettled(rw, es)
  BY <1>3, <1>16, <1>17, <1>19
<1> QED BY <1>1, <1>6, <1>7, <1>12, <1>15, <1>18, <1>20, <1>21, TableTurn

\* The search for slots: the candidate's turn, or a human's.
LEMMA SearchGoesOn ==
    ASSUME IInv, IsoInv, NEW t \in Threads, FindFeasibleSlots(t)
    PROVE  IsoInv'
<1>1. PICK r : r = th[t].req
  OBVIOUS
<1>2. /\ th[t].pc = "search" /\ Become(t, Idle)
      /\ UNCHANGED <<offers, roster, calendar>>
  BY DEF FindFeasibleSlots
<1>3. /\ r \in Requests /\ row[r] \in Row /\ row[r].status = "collecting_availability"
      /\ RowSettled(row[r]) /\ LedgerSettled(r, row[r], OffersOf(r), RosterOf(r))
      /\ EventSettled(row[r], EventIds(r))
  BY <1>1, <1>2, Working DEF KnowsOf
<1>4. PICK S \in SUBSET Slots :
        row' = [row EXCEPT ![r].status = IF S = {} THEN "manual_scheduling_required"
                                         ELSE "awaiting_candidate_selection",
                           ![r].feasible = S]
  BY <1>1 DEF FindFeasibleSlots
<1>5. PICK rw : rw = [row[r] EXCEPT !.status = IF S = {} THEN "manual_scheduling_required"
                                               ELSE "awaiting_candidate_selection",
                                    !.feasible = S]
  OBVIOUS
<1>6. /\ rw \in Row /\ rw.seats = row[r].seats /\ rw.event = row[r].event
      /\ rw.status \in {"manual_scheduling_required", "awaiting_candidate_selection"}
  BY <1>3, <1>5 DEF Row, Statuses, InterviewStatuses
<1>7. row' = [row EXCEPT ![r] = rw]
  BY <1>3, <1>4, <1>5 DEF IInv, TypeOK
<1>8. rw = row'[r] /\ \A q \in Requests \ {r} : Same(q)
  <2>1. row'[r] = rw /\ \A q \in Requests \ {r} : row'[q] = row[q]
    BY <1>3, <1>6, <1>7, RowsApart
  <2> QED BY <1>2, <2>1 DEF Same, OffersOf, RosterOf, EventIds
<1>9. PICK os, ps, es : os = OffersOf(r)' /\ ps = RosterOf(r)' /\ es = EventIds(r)'
  OBVIOUS
<1>10. os = OffersOf(r) /\ ps = RosterOf(r) /\ es = EventIds(r)
  BY <1>2, <1>9 DEF OffersOf, RosterOf, EventIds
<1>11. row[r].seats = NoSeats /\ ~On(row[r]) /\ ~On(rw) /\ ~HasInterview(rw)
  BY <1>3, <1>6 DEF RowSettled, On, HasInterview, InterviewStatuses
<1>12. LedgerSettled(r, rw, os, ps) /\ EventSettled(rw, es)
  BY <1>3, <1>6, <1>10, <1>11 DEF LedgerSettled, EventSettled
<1>13. RowSettled(rw) /\ rw.status # "absent"
  BY <1>6, <1>11 DEF RowSettled
<1>14. Idle \in Thread /\ Idle.pc = "idle" /\ Idle.req = NoRequest /\ Idle.todo = {}
  BY RestState
<1> QED BY <1>1, <1>2, <1>8, <1>9, <1>12, <1>13, <1>14, TableTurn

\* The event is on the calendar; the row does not know yet.
LEMMA CreateGoesOn ==
    ASSUME IInv, IsoInv, NEW t \in Threads, CreateEvent(t)
    PROVE  IsoInv'
<1>1. PICK r, s, n, e : /\ r = th[t].req /\ s = th[t] /\ n = made[r] + 1
                        /\ e = [iv |-> r, id |-> n]
  OBVIOUS
<1>2. /\ s.pc = "dispatch" /\ row[r].event = 0 /\ made[r] < MaxEvents
      /\ calendar' = calendar \cup {e} /\ UNCHANGED <<row, offers, roster>>
      /\ Become(t, [s EXCEPT !.pc = "record", !.event = n])
  BY <1>1 DEF CreateEvent
<1>3. /\ r \in Requests /\ s \in Thread /\ On(row[r]) /\ row[r].status # "absent"
      /\ RowSettled(row[r]) /\ LedgerSettled(r, row[r], OffersOf(r), RosterOf(r))
      /\ EventSettled(row[r], EventIds(r))
  BY <1>1, <1>2, Working DEF KnowsOf
<1>4. n \in 0 .. MaxEvents /\ n # 0
  <2>1. made[r] \in 0 .. MaxEvents
    BY <1>3 DEF IInv, TypeOK
  <2> QED BY <1>1, <1>2, <2>1, ServiceAssumption
<1>5. PICK u : u = [s EXCEPT !.pc = "record", !.event = n]
  OBVIOUS
<1>6. u \in Thread /\ u.pc = "record" /\ u.req = r /\ u.event = n /\ u.todo = s.todo
  BY <1>1, <1>3, <1>4, <1>5 DEF Thread, Pcs
<1>7. PICK rw, os, ps, es : rw = row'[r] /\ os = OffersOf(r)' /\ ps = RosterOf(r)' /\ es = EventIds(r)'
  OBVIOUS
<1>8. /\ rw = row[r] /\ os = OffersOf(r) /\ ps = RosterOf(r) /\ es = {n}
      /\ \A q \in Requests \ {r} : Same(q)
  <2>1. EventIds(r)' = EventIds(r) \cup {n} /\ \A q \in Requests \ {r} : EventIds(q)' = EventIds(q)
    BY <1>1, <1>2, <1>3, EventsApart
  <2>2. EventIds(r) = {}
    BY <1>2, <1>3 DEF EventSettled
  <2> QED BY <1>2, <1>7, <2>1, <2>2 DEF Same, OffersOf, RosterOf
<1>9. KnowsOf(u, rw, os, ps, es)
  BY <1>2, <1>3, <1>4, <1>6, <1>8 DEF KnowsOf
<1>10. th[t].pc = "dispatch" /\ Become(t, u) /\ u.todo = th[t].todo
  BY <1>1, <1>2, <1>5, <1>6
<1>11. rw.status # "absent" /\ RowSettled(rw) /\ LedgerSettled(r, rw, os, ps)
  BY <1>3, <1>8
<1> QED BY <1>1, <1>6, <1>7, <1>8, <1>9, <1>10, <1>11, TableTurn

\* Now it does.
LEMMA RecordGoesOn ==
    ASSUME IInv, IsoInv, NEW t \in Threads, RecordEvent(t)
    PROVE  IsoInv'
<1>1. PICK r, s, rw : r = th[t].req /\ s = th[t] /\ rw = [row[r] EXCEPT !.event = s.event]
  OBVIOUS
<1>2. /\ s.pc = "record" /\ row' = [row EXCEPT ![r].event = s.event]
      /\ UNCHANGED <<offers, roster, calendar>> /\ Become(t, Afterwards(t))
  BY <1>1 DEF RecordEvent
<1>3. /\ r \in Requests /\ s \in Thread /\ row[r] \in Row /\ On(row[r]) /\ row[r].status # "absent"
      /\ EventIds(r) = {s.event} /\ s.event # 0
      /\ RowSettled(row[r]) /\ LedgerSettled(r, row[r], OffersOf(r), RosterOf(r))
  BY <1>1, <1>2, Working DEF KnowsOf
<1>4. /\ rw \in Row /\ rw.event = s.event /\ rw.status = row[r].status
      /\ rw.seats = row[r].seats /\ rw.slot = row[r].slot
  BY <1>1, <1>3 DEF Row, Thread
<1>5. row' = [row EXCEPT ![r] = rw]
  BY <1>1, <1>2, <1>3 DEF IInv, TypeOK
<1>6. rw = row'[r] /\ \A q \in Requests \ {r} : Same(q)
  <2>1. row'[r] = rw /\ \A q \in Requests \ {r} : row'[q] = row[q]
    BY <1>3, <1>4, <1>5, RowsApart
  <2> QED BY <1>2, <2>1 DEF Same, OffersOf, RosterOf, EventIds
<1>7. PICK os, ps, es : os = OffersOf(r)' /\ ps = RosterOf(r)' /\ es = EventIds(r)'
  OBVIOUS
<1>8. os = OffersOf(r) /\ ps = RosterOf(r) /\ es = EventIds(r)
  BY <1>2, <1>7 DEF OffersOf, RosterOf, EventIds
<1>9. RowSettled(rw) /\ On(rw)
  BY <1>3, <1>4 DEF RowSettled, On, HasInterview
<1>10. LedgerSettled(r, rw, os, ps) /\ EventSettled(rw, es)
  BY <1>3, <1>4, <1>8, <1>9 DEF LedgerSettled, EventSettled
<1>11. PICK u : u = Afterwards(t)
  OBVIOUS
<1>12. u \in Thread /\ u.pc \in {"idle", "sweep"} /\ u.req = NoRequest /\ u.todo = s.todo
  BY <1>1, <1>11, LeavesOff
<1>13. rw.status # "absent" /\ Become(t, u)
  BY <1>2, <1>3, <1>4, <1>11
<1> QED BY <1>1, <1>2, <1>6, <1>7, <1>9, <1>10, <1>12, <1>13, TableTurn

\* The event of an interview that is off goes.
LEMMA DeleteGoesOn ==
    ASSUME IInv, IsoInv, Isolated, NEW t \in Threads, DeleteEvent(t)
    PROVE  IsoInv'
<1>1. PICK r, s, n, e : /\ r = th[t].req /\ s = th[t] /\ n = s.snap.event
                        /\ e = [iv |-> r, id |-> n]
  OBVIOUS
<1>2. /\ s.pc = "delete" /\ calendar' = calendar \ {e} /\ UNCHANGED <<row, offers, roster>>
      /\ Become(t, IF s.op = "reschedule" THEN [s EXCEPT !.pc = "resubmit"] ELSE Idle)
  BY <1>1 DEF DeleteEvent, Isolated
<1>3. /\ r \in Requests /\ s \in Thread /\ row[r].event = 0 /\ EventIds(r) = {n}
      /\ row[r].status # "absent"
      /\ RowSettled(row[r]) /\ LedgerSettled(r, row[r], OffersOf(r), RosterOf(r))
  BY <1>1, <1>2, Working DEF KnowsOf
<1>4. PICK rw, os, ps, es : rw = row'[r] /\ os = OffersOf(r)' /\ ps = RosterOf(r)' /\ es = EventIds(r)'
  OBVIOUS
<1>5. /\ rw = row[r] /\ os = OffersOf(r) /\ ps = RosterOf(r) /\ es = {}
      /\ \A q \in Requests \ {r} : Same(q)
  <2>1. EventIds(r)' = EventIds(r) \ {n} /\ \A q \in Requests \ {r} : EventIds(q)' = EventIds(q)
    BY <1>1, <1>2, <1>3, EventsApart
  <2> QED BY <1>2, <1>3, <1>4, <2>1 DEF Same, OffersOf, RosterOf
<1>6. PICK u : u = IF s.op = "reschedule" THEN [s EXCEPT !.pc = "resubmit"] ELSE Idle
  OBVIOUS
<1>7. /\ u \in Thread /\ u.todo \subseteq s.todo
      /\ \/ u.pc = "idle" /\ u.req = NoRequest
         \/ u.pc = "resubmit" /\ u.req = r
  <2>1. CASE s.op = "reschedule"
    BY <1>1, <1>3, <1>6, <2>1 DEF Thread, Pcs
  <2>2. CASE s.op # "reschedule"
    BY <1>6, <2>2, RestState
  <2> QED BY <2>1, <2>2
<1>8. u.pc = "resubmit" => KnowsOf(u, rw, os, ps, es)
  BY DEF KnowsOf
<1>9. EventSettled(rw, es)
  BY <1>3, <1>5 DEF EventSettled
<1>10. th[t].pc = "delete" /\ Become(t, u) /\ u.todo \subseteq th[t].todo
  BY <1>1, <1>2, <1>6, <1>7
<1>11. rw.status # "absent" /\ RowSettled(rw) /\ LedgerSettled(r, rw, os, ps)
  BY <1>3, <1>5
<1> QED BY <1>1, <1>4, <1>5, <1>7, <1>8, <1>9, <1>10, <1>11, TableTurn

\* The candidate's way out: everybody is let go and the event is forgotten.
LEMMA CommitGoesOn ==
    ASSUME IInv, IsoInv, NEW t \in Threads, CommitCancel(t) \/ CommitReschedule(t)
    PROVE  IsoInv'
<1>1. PICK r, s : r = th[t].req /\ s = th[t]
  OBVIOUS
<1>2. /\ s.pc = "commit" /\ ReleaseInterview(t) /\ calendar' = calendar
  BY <1>1 DEF CommitCancel, CommitReschedule
<1>3. /\ r \in Requests /\ s \in Thread /\ row[r] \in Row /\ s.snap = row[r]
      /\ RowSettled(row[r]) /\ LedgerSettled(r, row[r], OffersOf(r), RosterOf(r))
      /\ EventSettled(row[r], EventIds(r)) /\ s.req = r
  BY <1>1, <1>2, Working DEF KnowsOf
<1>4. PICK os, ps, es : os = OffersOf(r)' /\ ps = RosterOf(r)' /\ es = EventIds(r)'
  OBVIOUS
<1>5. /\ os = {} /\ ps = {} /\ es = EventIds(r)
      /\ \A q \in Requests \ {r} : /\ OffersOf(q)' = OffersOf(q) /\ RosterOf(q)' = RosterOf(q)
                                   /\ EventIds(q)' = EventIds(q)
  <2>0. \A q : EventIds(q)' = EventIds(q)
    BY <1>2 DEF EventIds
  <2>1. CASE On(row[r])
    <3>1. offers' = offers \ OffersOf(r) /\ roster' = roster \ RosterOf(r)
      BY <1>1, <1>2, <1>3, <2>1 DEF ReleaseInterview, On
    <3> QED BY <1>4, <2>0, <3>1 DEF OffersOf, RosterOf
  <2>2. CASE ~On(row[r])
    <3>1. offers' = offers /\ roster' = roster
      BY <1>1, <1>2, <1>3, <2>2 DEF ReleaseInterview, On
    <3>2. OffersOf(r) = {} /\ RosterOf(r) = {}
      BY <1>3, <2>2 DEF LedgerSettled
    <3> QED BY <1>4, <2>0, <3>1, <3>2 DEF OffersOf, RosterOf
  <2> QED BY <2>1, <2>2
<1>6. PICK rw \in Row : /\ row' = [row EXCEPT ![r] = rw] /\ rw.event = 0 /\ ~On(rw)
                        /\ rw.status # "absent" /\ RowSettled(rw)
  <2>1. 0 \in 0 .. MaxEvents
    BY ServiceAssumption
  <2>2. CASE CommitCancel(t)
    <3>1. PICK rw : rw = [row[r] EXCEPT !.status = "cancelled", !.event = 0]
      OBVIOUS
    <3>2. /\ rw \in Row /\ rw.status = "cancelled" /\ rw.event = 0
          /\ rw.seats = row[r].seats
      BY <1>3, <2>1, <3>1 DEF Row, Statuses, InterviewStatuses
    <3>3. row' = [row EXCEPT ![r].status = Written(row[r].status, "cancelled", @),
                             ![r].slot   = row[r].slot,
                             ![r].event  = Written(row[r].event, 0, @)]
      BY <1>1, <1>3, <2>2 DEF CommitCancel, IInv, TypeOK
    <3>4. row' = [row EXCEPT ![r] = rw]
      BY <1>3, <3>1, <3>3 DEF Written, IInv, TypeOK, Row
    <3>5. RowSettled(rw) /\ ~On(rw)
      BY <1>3, <3>2 DEF RowSettled, On, StatusTrue, InterviewStatuses
    <3> QED BY <3>2, <3>4, <3>5
  <2>3. CASE CommitReschedule(t)
    <3>1. PICK rw : rw = [row[r] EXCEPT !.status = "collecting_availability",
                             !.seats = NoSeats, !.slot = NoSlot, !.feasible = {}, !.event = 0]
      OBVIOUS
    <3>2. /\ rw \in Row /\ rw.status = "collecting_availability" /\ rw.event = 0
          /\ rw.seats = NoSeats
      BY <1>3, <2>1, <3>1, EmptyPanels DEF Row, Statuses, InterviewStatuses
    <3>3. row' = [row EXCEPT ![r].status = Written(row[r].status, "collecting_availability", @),
                     ![r].seats    = Written(row[r].seats, NoSeats, @),
                     ![r].slot     = Written(row[r].slot, NoSlot, @),
                     ![r].feasible = Written(row[r].feasible, {}, @),
                     ![r].event    = Written(row[r].event, 0, @)]
      BY <1>1, <1>3, <2>3 DEF CommitReschedule
    <3>4. row' = [row EXCEPT ![r] = rw]
      BY <1>3, <3>1, <3>3 DEF Written, IInv, TypeOK, Row
    <3>5. RowSettled(rw) /\ ~On(rw)
      BY <3>2 DEF RowSettled, On, HasInterview
    <3> QED BY <3>2, <3>4, <3>5
  <2> QED BY <2>2, <2>3
<1>7. rw = row'[r] /\ \A q \in Requests \ {r} : Same(q)
  <2>1. row'[r] = rw /\ \A q \in Requests \ {r} : row'[q] = row[q]
    BY <1>3, <1>6, RowsApart
  <2> QED BY <1>5, <2>1 DEF Same
<1>8. LedgerSettled(r, rw, os, ps)
  BY <1>5, <1>6 DEF LedgerSettled
<1>9. PICK u : Become(t, u) /\ \/ u = DeleteOr(t, Idle)
                               \/ u = DeleteOr(t, [s EXCEPT !.pc = "resubmit"])
  BY <1>1 DEF CommitCancel, CommitReschedule
<1>10. CASE HasInterview(row[r]) /\ row[r].event # 0
  <2>1. u = [s EXCEPT !.pc = "delete"]
    BY <1>1, <1>3, <1>9, <1>10 DEF DeleteOr
  <2>2. u \in Thread /\ u.pc = "delete" /\ u.req = r /\ u.todo = s.todo /\ u.snap = s.snap
    BY <1>3, <2>1 DEF Thread, Pcs
  <2>3. es = {u.snap.event}
    BY <1>3, <1>5, <1>10, <2>2 DEF EventSettled
  <2>4. KnowsOf(u, rw, os, ps, es)
    BY <1>6, <2>2, <2>3 DEF KnowsOf
  <2> QED BY <1>1, <1>2, <1>4, <1>6, <1>7, <1>8, <1>9, <2>2, <2>4, TableTurn
<1>11. CASE ~(HasInterview(row[r]) /\ row[r].event # 0)
  <2>1. u = Idle \/ u = [s EXCEPT !.pc = "resubmit"]
    BY <1>1, <1>3, <1>9, <1>11 DEF DeleteOr
  <2>2. /\ u \in Thread /\ u.todo \subseteq s.todo
        /\ \/ u.pc = "idle" /\ u.req = NoRequest
           \/ u.pc = "resubmit" /\ u.req = r
    BY <1>3, <2>1, RestState DEF Thread, Pcs
  <2>3. u.pc = "resubmit" => KnowsOf(u, rw, os, ps, es)
    BY DEF KnowsOf
  <2>4. EventSettled(rw, es)
    BY <1>3, <1>5, <1>6, <1>11 DEF EventSettled, On
  <2> QED BY <1>1, <1>2, <1>4, <1>6, <1>7, <1>8, <1>9, <2>2, <2>3, <2>4, TableTurn
<1> QED BY <1>10, <1>11

\* What a handler writes when it is done with the engine.
LEMMA WrittenBack ==
    ASSUME IInv, NEW s, NEW cur \in Row, s.work \in Row, s.expired \/ s.snap = cur,
           NEW status \in Statuses, NEW rw,
           rw = Merge(cur, s.snap, [s.work EXCEPT !.status = status], s.expired)
    PROVE  /\ rw \in Row /\ rw.status = status /\ rw.seats = s.work.seats
           /\ rw.slot = s.work.slot /\ rw.event = s.work.event
<1>1. PICK next : next = [s.work EXCEPT !.status = status]
  OBVIOUS
<1>2. /\ next.status = status /\ next.seats = s.work.seats /\ next.slot = s.work.slot
      /\ next.event = s.work.event /\ next.seats \in Panels /\ next.slot \in Slots \cup {NoSlot}
      /\ next.event \in 0 .. MaxEvents
  BY <1>1 DEF Row
<1>3. rw = [status |-> status, seats |-> next.seats, slot |-> next.slot,
            feasible |-> cur.feasible, event |-> next.event]
  <2>1. CASE s.expired
    BY <1>1, <1>2, <2>1 DEF Merge
  <2>2. CASE ~s.expired /\ s.snap = cur
    BY <1>1, <1>2, <2>2 DEF Merge
  <2> QED BY <2>1, <2>2
<1>4. cur.feasible \in SUBSET Slots
  BY DEF Row
<1> QED BY <1>2, <1>3, <1>4 DEF Row

\* The outcome is written back: the row and the ledger agree again.
LEMMA PersistGoesOn ==
    ASSUME IInv, IsoInv, NEW t \in Threads, Persist(t)
    PROVE  IsoInv'
<1>1. PICK r, s, seats, status, kept :
        /\ r = th[t].req /\ s = th[t] /\ seats = th[t].work.seats
        /\ status = Resolve(th[t].work.status, th[t].work.seats)
        /\ kept = IF th[t].op = "accept" THEN th[t].targets ELSE {}
  OBVIOUS
<1>2. PICK D \in FoundOffers(r, seats, kept) :
        /\ s.pc = "persist"
        /\ row' = [row EXCEPT ![r] = Merge(@, s.snap, [s.work EXCEPT !.status = status], s.expired)]
        /\ offers' = offers \ (s.released \cup D)
        /\ roster' = (roster \ s.cancelled) \cup AcceptedRoster(r, seats)
        /\ Become(t, IF status = "panel_complete"
                     THEN [Idle EXCEPT !.pc = "dispatch", !.op = s.op,
                                       !.req = r, !.todo = s.todo]
                     ELSE Afterwards(t))
        /\ calendar' = calendar
  <2>1. PICK next : next = [s.work EXCEPT !.status = status]
    OBVIOUS
  <2>2. s.work \in Row
    BY <1>1, ThreadFacts
  <2>3. next.status = status /\ next.seats = seats
    BY <1>1, <2>1, <2>2 DEF Row
  <2>4. next = [th[t].work EXCEPT !.status = Resolve(@, th[t].work.seats)]
    BY <1>1, <2>1, <2>2 DEF Row
  <2> QED BY <1>1, <2>1, <2>3, <2>4 DEF Persist
<1>3. /\ r \in Requests /\ s \in Thread /\ row[r] \in Row /\ s.req = r
      /\ KnowsPersist(s, row[r], OffersOf(r), RosterOf(r))
      /\ RowSettled(row[r]) /\ EventSettled(row[r], EventIds(r))
  BY <1>1, <1>2, Working DEF KnowsOf
<1>4. s.work \in Row /\ seats \in Panels /\ s.work.slot \in Slots
  BY <1>1, <1>2, ThreadFacts
<1>5. /\ s.released \cup D \subseteq OffersOf(r) /\ s.cancelled \subseteq RosterOf(r)
      /\ OffersOf(r) \ (s.released \cup D) = OfferRows(r, seats, s.work.slot)
      /\ (RosterOf(r) \ s.cancelled) \cup AcceptedRoster(r, seats) = AcceptedRoster(r, seats)
      /\ s.work.event = row[r].event
      /\ Open(seats) /\ StatusTrue(status, seats) /\ status \in InterviewStatuses \ {"cancelled"}
  <2>1. CASE s.op # "accept"
    <3>1. /\ Carries(s, row[r], OffersOf(r), RosterOf(r))
          /\ \/ Undecided(s.work) /\ SeatsWith(seats, "pending") = {}
             \/ s.work.status = "manual_scheduling_required" /\ seats = FreshSeats
      BY <1>1, <1>3, <2>1 DEF KnowsPersist
    <3>2. D = {}
      BY <1>1, <1>2, <2>1 DEF FoundOffers, HeldOffers
    <3>3. Open(seats)
      BY <1>1, <3>1 DEF Carries
    <3>4. StatusTrue(status, seats) /\ status \in InterviewStatuses \ {"cancelled"}
      BY <1>1, <1>4, <3>1, <3>3, ResolveTrue
    <3> QED BY <1>1, <1>3, <3>1, <3>2, <3>3, <3>4 DEF Carries
  <2>2. CASE s.op = "accept"
    <3>1. PICK k \in SeatsWith(row[r].seats, "offered") :
            s.targets = {k} /\ s.work = [row[r] EXCEPT !.seats = Accept(@, k)]
      BY <1>3, <2>2 DEF KnowsPersist
    <3>2. /\ On(row[r]) /\ s.released = {} /\ s.cancelled = {}
          /\ LedgerSettled(r, row[r], OffersOf(r), RosterOf(r))
      BY <1>3, <2>2 DEF KnowsPersist
    <3>3. PICK old : old = row[r].seats
      OBVIOUS
    <3>4. /\ old \in Panels /\ seats = Accept(old, k) /\ s.work.slot = row[r].slot
          /\ s.work.event = row[r].event /\ s.work.status = row[r].status /\ k \in SeatIndex
          /\ kept = {k} /\ k \in SeatsWith(old, "offered")
      BY <1>1, <1>3, <2>2, <3>1, <3>3 DEF Row, SeatsWith
    <3>5. Open(old) /\ StatusTrue(row[r].status, old) /\ row[r].status \in InterviewStatuses \ {"cancelled"}
      BY <1>3, <3>2, <3>3 DEF RowSettled, On, HasInterview
    <3>6. /\ Open(seats) /\ StatusTrue(status, seats)
          /\ status \in InterviewStatuses \ {"cancelled"}
      BY <1>1, <3>4, <3>5, AcceptTrue
    <3>7. /\ OffersOf(r) = OfferRows(r, old, row[r].slot)
          /\ RosterOf(r) = AcceptedRoster(r, old)
      BY <3>2, <3>3 DEF LedgerSettled
    <3>8. PICK offer, seat : /\ offer = [iv |-> r, seat |-> k, who |-> old[k].who, slot |-> row[r].slot]
                             /\ seat = [iv |-> r, seat |-> k, who |-> old[k].who]
      OBVIOUS
    <3>9. /\ offer \in OfferRows(r, old, row[r].slot)
          /\ OfferRows(r, seats, row[r].slot) = OfferRows(r, old, row[r].slot) \ {offer}
          /\ AcceptedRoster(r, seats) = AcceptedRoster(r, old) \cup {seat}
      BY <3>4, <3>8, AcceptRows
    <3>10. \A j \in SeatIndex : seats[j].who = old[j].who
      BY <3>4 DEF Accept, Panels, Seat
    <3>11. D = {[iv |-> r, seat |-> j, who |-> old[j].who, slot |-> row[r].slot] :
                    j \in SeatsWith(old, "offered") \cap kept}
      <4>1. kept \in SUBSET SeatIndex
        BY <3>4
      <4> QED BY <1>2, <3>7, <3>10, <4>1, FoundThere
    <3>12. D = {offer}
      BY <3>4, <3>8, <3>11
    <3> QED BY <3>2, <3>4, <3>6, <3>7, <3>9, <3>12
  <2> QED BY <2>1, <2>2
<1>6. PICK rw : rw = Merge(row[r], s.snap, [s.work EXCEPT !.status = status], s.expired)
  OBVIOUS
<1>7. /\ rw \in Row /\ rw.status = status /\ rw.seats = seats
      /\ rw.slot = s.work.slot /\ rw.event = s.work.event
  <2>1. s.expired \/ s.snap = row[r]
    BY <1>3 DEF KnowsPersist
  <2>2. status \in Statuses
    BY <1>5 DEF Statuses
  <2> QED BY <1>1, <1>3, <1>4, <1>6, <2>1, <2>2, WrittenBack
<1>8. row' = [row EXCEPT ![r] = rw]
  BY <1>2, <1>6
<1>9. PICK os, ps, es : os = OffersOf(r)' /\ ps = RosterOf(r)' /\ es = EventIds(r)'
  OBVIOUS
<1>10. /\ os = OfferRows(r, seats, s.work.slot) /\ ps = AcceptedRoster(r, seats)
       /\ es = EventIds(r)
       /\ \A q \in Requests \ {r} : /\ OffersOf(q)' = OffersOf(q) /\ RosterOf(q)' = RosterOf(q)
                                    /\ EventIds(q)' = EventIds(q)
  <2>1. \A p \in AcceptedRoster(r, seats) : p.iv = r
    BY DEF AcceptedRoster
  <2>2. PICK gone, new : gone = s.released \cup D /\ new = AcceptedRoster(r, seats)
    OBVIOUS
  <2>3. /\ OffersOf(r)' = OffersOf(r) \ gone
        /\ \A q \in Requests \ {r} : OffersOf(q)' = OffersOf(q)
    BY <1>2, <1>5, <2>2 DEF OffersOf
  <2>4. /\ RosterOf(r)' = (RosterOf(r) \ s.cancelled) \cup new
        /\ \A q \in Requests \ {r} : RosterOf(q)' = RosterOf(q)
    BY <1>2, <1>5, <2>1, <2>2 DEF RosterOf
  <2>5. \A q : EventIds(q)' = EventIds(q)
    BY <1>2 DEF EventIds
  <2> QED BY <1>5, <1>9, <2>2, <2>3, <2>4, <2>5
<1>11. rw = row'[r] /\ \A q \in Requests \ {r} : Same(q)
  <2>1. row'[r] = rw /\ \A q \in Requests \ {r} : row'[q] = row[q]
    BY <1>3, <1>7, <1>8, RowsApart
  <2> QED BY <1>10, <2>1 DEF Same
<1>12. On(rw)
  <2>1. seats # NoSeats
    BY <1>5, EmptyOpen
  <2>2. s.work.slot # NoSlot
    BY <1>4, ServiceAssumption
  <2> QED BY <1>5, <1>7, <2>1, <2>2 DEF On, HasInterview
<1>13. RowSettled(rw) /\ rw.status # "absent"
  BY <1>5, <1>7 DEF RowSettled, InterviewStatuses
<1>14. LedgerSettled(r, rw, os, ps)
  BY <1>7, <1>10, <1>12 DEF LedgerSettled
<1>15. EventSettled(rw, es)
  BY <1>3, <1>5, <1>7, <1>10, <1>12 DEF EventSettled
<1>16. PICK u : u = IF status = "panel_complete"
                    THEN [Idle EXCEPT !.pc = "dispatch", !.op = s.op, !.req = r, !.todo = s.todo]
                    ELSE Afterwards(t)
  OBVIOUS
<1>17. /\ u \in Thread /\ u.todo = s.todo
       /\ \/ u.pc \in {"idle", "sweep"} /\ u.req = NoRequest
          \/ u.pc = "dispatch" /\ u.req = r
  <2>1. CASE status = "panel_complete"
    <3>1. Idle \in Thread /\ s.op \in Ops /\ s.todo \in SUBSET Requests
      BY <1>3, RestState DEF Thread
    <3> QED BY <1>3, <1>16, <2>1, <3>1 DEF Thread, Pcs
  <2>2. CASE status # "panel_complete"
    BY <1>1, <1>16, <2>2, LeavesOff
  <2> QED BY <2>1, <2>2
<1>18. u.pc = "dispatch" => KnowsOf(u, rw, os, ps, es)
  BY <1>12 DEF KnowsOf
<1>19. th[t].pc = "persist" /\ Become(t, u) /\ u.todo \subseteq th[t].todo
  BY <1>1, <1>2, <1>16, <1>17
<1> QED BY <1>1, <1>9, <1>11, <1>13, <1>14, <1>15, <1>17, <1>18, <1>19, TableTurn

\* A request appears.
LEMMA CreatesQuietly ==
    ASSUME IInv, IsoInv, NEW r \in Requests, CreateRequest(r)
    PROVE  IsoInv'
<1>1. /\ row[r].status = "absent" /\ row[r] \in Row
      /\ row' = [row EXCEPT ![r].status = "collecting_availability"]
      /\ UNCHANGED <<offers, roster, calendar, made, elapsed, th>>
  BY DEF CreateRequest, IInv, TypeOK
<1>2. PICK rw : rw = [row[r] EXCEPT !.status = "collecting_availability"]
  OBVIOUS
<1>3. /\ rw \in Row /\ rw.status = "collecting_availability"
      /\ rw.seats = row[r].seats /\ rw.event = row[r].event
  BY <1>1, <1>2 DEF Row, Statuses
<1>4. row'[r] = rw /\ \A q \in Requests \ {r} : row'[q] = row[q]
  BY <1>1, <1>2 DEF IInv, TypeOK
<1>5. Unclaimed(r)
  BY <1>1 DEF IsoInv, Unclaimed
<1>6. \A q \in Requests : OffersOf(q)' = OffersOf(q) /\ RosterOf(q)' = RosterOf(q) /\ EventIds(q)' = EventIds(q)
  BY <1>1 DEF OffersOf, RosterOf, EventIds
<1>7. Separate'
  BY <1>1 DEF IsoInv, Separate, WorksOn
<1>8. \A t \in Threads, q \in Requests : WorksOn(t, q)' => row'[q].status # "absent"
  <2>1. \A t \in Threads, q \in Requests : WorksOn(t, q)' => WorksOn(t, q) /\ q # r
    BY <1>1, <1>5 DEF WorksOn, Unclaimed
  <2> QED BY <1>4, <2>1 DEF IsoInv
<1>9. \A t \in Threads : \A q \in th'[t].todo : row'[q].status = "assigning_panel"
  <2>1. \A t \in Threads : \A q \in th[t].todo : q \in Requests \ {r}
    BY <1>5 DEF IInv, TypeOK, Thread, Unclaimed, WorksOn
  <2> QED BY <1>1, <1>4, <2>1 DEF IsoInv
<1>10. ASSUME NEW t \in Threads PROVE Knows(t)'
  <2>1. CASE th[t].req = NoRequest
    BY <1>1, <2>1, ServiceAssumption DEF IsoInv, Knows
  <2>2. CASE th[t].req # NoRequest
    <3>1. th[t].req \in Requests \ {r}
      BY <1>5, <2>2 DEF IsoInv, Knows, Unclaimed, WorksOn
    <3> QED BY <1>1, <1>4, <1>6, <3>1 DEF IsoInv, Knows
  <2> QED BY <2>1, <2>2
<1>11. ASSUME NEW q \in Requests PROVE SettledRequest(q)'
  <2>1. (LedgerQuiet(q)' <=> LedgerQuiet(q)) /\ (EventQuiet(q)' <=> EventQuiet(q))
    BY <1>1 DEF LedgerQuiet, EventQuiet
  <2>2. CASE q # r
    BY <1>4, <1>6, <2>1, <2>2 DEF IsoInv, SettledRequest
  <2>3. CASE q = r
    <3>1. LedgerQuiet(r) /\ EventQuiet(r)
      BY <1>5 DEF LedgerQuiet, EventQuiet, Unclaimed, WorksOn
    <3>2. /\ RowSettled(row[r]) /\ LedgerSettled(r, row[r], OffersOf(r), RosterOf(r))
          /\ EventSettled(row[r], EventIds(r))
      BY <3>1 DEF IsoInv, SettledRequest
    <3>3. ~On(row[r]) /\ ~On(rw) /\ row[r].seats = NoSeats /\ ~HasInterview(rw)
      BY <1>1, <1>3, <3>2 DEF On, HasInterview, InterviewStatuses, RowSettled
    <3>4. /\ RowSettled(rw) /\ LedgerSettled(r, rw, OffersOf(r), RosterOf(r))
          /\ EventSettled(rw, EventIds(r))
      BY <1>3, <3>2, <3>3 DEF RowSettled, LedgerSettled, EventSettled
    <3> QED BY <1>4, <1>6, <2>3, <3>4 DEF SettledRequest
  <2> QED BY <2>2, <2>3
<1> QED BY <1>7, <1>8, <1>9, <1>10, <1>11 DEF IsoInv

\* A step that leaves the service alone.
LEMMA StandsStill ==
    ASSUME IsoInv, UNCHANGED <<row, offers, roster, calendar, th>>
    PROVE  IsoInv'
<1>1. \A q : OffersOf(q)' = OffersOf(q) /\ RosterOf(q)' = RosterOf(q) /\ EventIds(q)' = EventIds(q)
  BY DEF OffersOf, RosterOf, EventIds
<1>2. \A t : Knows(t)' <=> Knows(t)
  BY <1>1 DEF Knows
<1>3. \A q : SettledRequest(q)' <=> SettledRequest(q)
  BY <1>1 DEF SettledRequest, LedgerQuiet, EventQuiet
<1>4. Separate'
  BY DEF IsoInv, Separate, WorksOn
<1> QED BY <1>2, <1>3, <1>4 DEF IsoInv, WorksOn

LEMMA InitIso ==
    ASSUME Init
    PROVE  IsoInv
<1>1. \A r \in Requests : row[r] = NoRow
  BY DEF Init
<1>2. \A t \in Threads : th[t] = Idle
  BY DEF Init
<1>3. Idle.pc = "idle" /\ Idle.req = NoRequest /\ Idle.todo = {}
  BY RestState
<1>4. NoRow.status = "absent" /\ NoRow.seats = NoSeats /\ NoRow.event = 0
  BY DEF NoRow
<1>5. Separate /\ \A t \in Threads : Knows(t) /\ \A r \in Requests : ~WorksOn(t, r)
  BY <1>2, <1>3, ServiceAssumption DEF Separate, WorksOn, Knows
<1>6. ASSUME NEW r \in Requests PROVE SettledRequest(r)
  <2>1. OffersOf(r) = {} /\ RosterOf(r) = {} /\ EventIds(r) = {}
    BY DEF Init, OffersOf, RosterOf, EventIds
  <2> QED BY <1>1, <1>4, <2>1
          DEF SettledRequest, RowSettled, LedgerSettled, EventSettled, On, HasInterview
<1> QED BY <1>2, <1>3, <1>5, <1>6 DEF IsoInv

LEMMA NextIso ==
    ASSUME Isolated, IInv, IsoInv, [Next]_vars
    PROVE  IsoInv'
<1>1. ASSUME NEW r \in Requests, CreateRequest(r) PROVE IsoInv'
  BY <1>1, CreatesQuietly
<1>2. ASSUME NEW t \in Threads, NEW r \in Requests, Handle(t, r) PROVE IsoInv'
  BY <1>2, CandidateStartsQuietly, SelectStartsQuietly, RespondStartsQuietly,
     BackOutStartsQuietly DEF Handle
<1>3. ASSUME NEW t \in Threads, NEW r \in Requests, Sweep(t, r) PROVE IsoInv'
  BY <1>3, SweepsQuietly
<1>4. ASSUME NEW t \in Threads, Continue(t) PROVE IsoInv'
  <2>1. CASE SweepOn(t)
    <3>1. PICK r \in Requests : TRUE
      BY <2>1 DEF SweepOn
    <3> QED BY <2>1, <3>1, SweepsQuietly
  <2>2. CASE FindFeasibleSlots(t) \/ AssignPanel(t) \/ Reopening(t) \/ RefuseCancel(t)
    BY <2>2, SearchGoesOn, AssignGoesOn, ReopenGoesOn, PassesOn
  <2>3. CASE \E k \in SeatIndex : ExhaustSeat(t, k) \/ \E i \in Interviewers : OfferSeat(t, k, i)
    BY <2>3, ExhaustGoesOn, OfferGoesOn
  <2>4. CASE Persist(t) \/ SkipDispatch(t) \/ CreateEvent(t) \/ RecordEvent(t)
    BY <2>4, PersistGoesOn, PassesOn, CreateGoesOn, RecordGoesOn
  <2>5. CASE CommitCancel(t) \/ CommitReschedule(t) \/ DeleteEvent(t) \/ Resubmit(t)
    BY <2>5, CommitGoesOn, DeleteGoesOn, PassesOn
  <2> QED BY <1>4, <2>1, <2>2, <2>3, <2>4, <2>5 DEF Continue
<1>5. ASSUME NEW t \in Threads, Abort(t) PROVE IsoInv'
  BY <1>5 DEF Abort, Isolated
<1>6. ASSUME NEW s \in Slots, Elapse(s) PROVE IsoInv'
  BY <1>6, StandsStill DEF Elapse
<1>7. CASE UNCHANGED vars
  BY <1>7, StandsStill DEF vars
<1> QED BY <1>1, <1>2, <1>3, <1>4, <1>5, <1>6, <1>7 DEF Next

-----------------------------------------------------------------------------
(* What anybody finds between handlers                                     *)

\* The invariant holds at every step of an isolated service.
LEMMA AlwaysSettled ==
    ASSUME Isolated
    PROVE  Spec => [](IInv /\ IsoInv)
<1>1. Init => IInv /\ IsoInv
  BY InitSound, InitIso
<1>2. IInv /\ IsoInv /\ [Next]_vars => IInv' /\ IsoInv'
  BY NextSound, NextIso
<1> QED BY <1>1, <1>2, PTL DEF Spec

LEMMA RestSettled ==
    ASSUME IsoInv, NEW r \in Requests, AtRest(r)
    PROVE  /\ RowSettled(row[r]) /\ LedgerSettled(r, row[r], OffersOf(r), RosterOf(r))
           /\ EventSettled(row[r], EventIds(r))
BY DEF IsoInv, AtRest, WorksOn, SettledRequest, LedgerQuiet, EventQuiet

LEMMA SettledLedger == IsoInv => LedgerMatchesSeats
<1> SUFFICES ASSUME IsoInv, NEW r \in Requests, AtRest(r)
             PROVE  /\ {[iv |-> o.iv, seat |-> o.seat, who |-> o.who] : o \in OffersOf(r)}
                          = SeatsHeld(r, "offered")
                    /\ RosterOf(r) = SeatsHeld(r, "accepted")
                    /\ \A o \in OffersOf(r) : o.slot = row[r].slot
  BY DEF LedgerMatchesSeats
<1>1. LedgerSettled(r, row[r], OffersOf(r), RosterOf(r))
  BY RestSettled
<1>2. CASE On(row[r])
  <2>1. /\ OffersOf(r) = OfferRows(r, row[r].seats, row[r].slot)
        /\ RosterOf(r) = AcceptedRoster(r, row[r].seats) /\ Reserving(r)
    BY <1>1, <1>2 DEF LedgerSettled, On, Reserving
  <2>2. RosterOf(r) = SeatsHeld(r, "accepted")
    BY <2>1 DEF SeatsHeld, AcceptedRoster
  <2>3. \A o \in OffersOf(r) : o.slot = row[r].slot
    BY <2>1 DEF OfferRows
  <2> DEFINE K == SeatsWith(row[r].seats, "offered")
             offer(k) == [iv |-> r, seat |-> k, who |-> row[r].seats[k].who, slot |-> row[r].slot]
             seat(o) == [iv |-> o.iv, seat |-> o.seat, who |-> o.who]
             held(k) == [iv |-> r, seat |-> k, who |-> row[r].seats[k].who]
  <2>4. \A k : seat(offer(k)) = held(k)
    OBVIOUS
  <2>5. OffersOf(r) = {offer(k) : k \in K} /\ SeatsHeld(r, "offered") = {held(k) : k \in K}
    BY <2>1 DEF OfferRows, SeatsHeld
  <2> HIDE DEF K, offer, seat, held
  <2>6. {seat(o) : o \in OffersOf(r)} = SeatsHeld(r, "offered")
    BY <2>4, <2>5
  <2> QED BY <2>2, <2>3, <2>6 DEF seat
<1>3. CASE ~On(row[r])
  BY <1>1, <1>3 DEF LedgerSettled, On, Reserving, SeatsHeld
<1> QED BY <1>2, <1>3

LEMMA SettledEvent == IsoInv => EventMatchesRow
BY RestSettled DEF EventMatchesRow, EventSettled, EventIds, On, Reserving

\* Between handlers the ledger's offers and confirmed seats are those of the
\* seats_json on the row, all at the row's time, and none for an interview
\* that is off, if requests are worked on one handler at a time.
THEOREM LedgerAgrees ==
    ASSUME Isolated
    PROVE  Spec => []LedgerMatchesSeats
<1>1. IInv /\ IsoInv => LedgerMatchesSeats
  BY SettledLedger
<1> QED BY <1>1, AlwaysSettled, PTL

\* Between handlers the calendar has the one event the row points at, and
\* none for an interview that was cancelled or rescheduled.
THEOREM CalendarAgrees ==
    ASSUME Isolated
    PROVE  Spec => []EventMatchesRow
<1>1. IInv /\ IsoInv => EventMatchesRow
  BY SettledEvent
<1> QED BY <1>1, AlwaysSettled, PTL

-----------------------------------------------------------------------------
(* Nobody is held twice, between handlers and within them                  *)

SeatTime(p) == [iv |-> p.iv, seat |-> p.seat, who |-> p.who, slot |-> row[p.iv].slot]

LEMMA BookingsAre == Bookings = offers \cup {SeatTime(p) : p \in roster}
BY DEF Bookings, SeatTime

\* Nothing new takes anybody's time.
LEMMA NothingNew ==
    ASSUME NoDoubleBooking, offers' \subseteq offers,
           \A p \in roster' : \/ p \in roster /\ row'[p.iv].slot = row[p.iv].slot
                              \/ SeatTime(p)' \in offers
    PROVE  NoDoubleBooking'
<1>1. \A p \in roster : row'[p.iv].slot = row[p.iv].slot => SeatTime(p)' = SeatTime(p)
  BY DEF SeatTime
<1>2. Bookings' \subseteq Bookings
  BY <1>1, BookingsAre DEF Bookings, SeatTime
<1> QED BY <1>2 DEF NoDoubleBooking

\* A new offer is checked against everything that takes that person's time.
LEMMA OfferIsFree ==
    ASSUME IInv, IsoInv, NoDoubleBooking,
           NEW t \in Threads, NEW k \in SeatIndex, NEW i \in Interviewers, OfferSeat(t, k, i)
    PROVE  NoDoubleBooking'
<1>1. PICK s, o : /\ s = th[t]
                  /\ o = [iv |-> th[t].req, seat |-> k, who |-> i, slot |-> th[t].work.slot]
  OBVIOUS
<1>2. /\ offers' = (offers \ s.released) \cup {o} /\ roster' = roster \ s.cancelled
      /\ row' = row /\ i \in Candidates(t, k) /\ s.pc = "fill"
  BY <1>1 DEF OfferSeat
<1>3. /\ \A x \in offers \ s.released : x.who = i => <<x.slot, o.slot>> \notin Overlap
      /\ \A p \in roster \ s.cancelled : p.who = i => <<row[p.iv].slot, o.slot>> \notin Overlap
  BY <1>1, <1>2 DEF Candidates, FreeFor, IsFree
<1>4. o.slot \in Slots /\ o.who = i
  BY <1>1, <1>2, ThreadFacts
<1>5. \A b \in Bookings' : b = o \/ (b \in Bookings /\ (b.who = i => <<b.slot, o.slot>> \notin Overlap))
  BY <1>2, <1>3, BookingsAre DEF Bookings, SeatTime
<1>6. \A b \in Bookings' : b # o /\ b.who = i => <<o.slot, b.slot>> \notin Overlap
  BY <1>5, ServiceAssumption
<1> QED BY <1>4, <1>5, <1>6 DEF NoDoubleBooking

\* An acceptance turns an offer into a seat at the same time, and the cascade
\* writes back only seats that were confirmed before.
LEMMA PersistAddsNothing ==
    ASSUME IInv, IsoInv, NoDoubleBooking, NEW t \in Threads, Persist(t)
    PROVE  NoDoubleBooking'
<1>1. PICK r, s, seats : r = th[t].req /\ s = th[t] /\ seats = th[t].work.seats
  OBVIOUS
<1>2. /\ r \in Requests /\ s \in Thread /\ row[r] \in Row /\ s.req = r /\ s.pc = "persist"
      /\ KnowsPersist(s, row[r], OffersOf(r), RosterOf(r)) /\ s.work \in Row
  <2>1. s.pc = "persist"
    BY <1>1 DEF Persist
  <2> QED BY <1>1, <2>1, Working, ThreadFacts DEF KnowsOf
<1>3. PICK status : /\ row' = [row EXCEPT ![r] = Merge(@, s.snap, [s.work EXCEPT !.status = status],
                                                       s.expired)]
                    /\ offers' \subseteq offers
                    /\ roster' = (roster \ s.cancelled) \cup AcceptedRoster(r, seats)
  <2>1. PICK status : status = Resolve(s.work.status, seats)
    OBVIOUS
  <2>2. [s.work EXCEPT !.status = status] = [th[t].work EXCEPT !.status = Resolve(@, th[t].work.seats)]
    BY <1>1, <1>2, <2>1 DEF Row
  <2>3. [s.work EXCEPT !.status = status].seats = seats
    BY <1>1, <1>2 DEF Row
  <2> QED BY <1>1, <2>2, <2>3 DEF Persist
<1>4. row'[r].slot = s.work.slot /\ \A q \in Requests \ {r} : row'[q] = row[q]
  BY <1>2, <1>3 DEF Merge, IInv, TypeOK, Row
<1>5. roster \subseteq Participant
  BY DEF IInv, TypeOK
<1>6. CASE s.op # "accept"
  <2>1. /\ s.work.slot = row[r].slot \/ RosterOf(r) = {}
        /\ RosterOf(r) \ s.cancelled = AcceptedRoster(r, seats)
    BY <1>1, <1>2, <1>6 DEF KnowsPersist, Carries
  <2>2. \A p \in roster' : p \in roster
    BY <1>3, <2>1 DEF RosterOf
  <2>3. \A p \in roster' : row'[p.iv].slot = row[p.iv].slot
    BY <1>4, <1>5, <2>1, <2>2 DEF RosterOf, Participant
  <2> QED BY <1>3, <2>2, <2>3, NothingNew
<1>7. CASE s.op = "accept"
  <2>1. PICK k \in SeatsWith(row[r].seats, "offered") :
          s.work = [row[r] EXCEPT !.seats = Accept(@, k)]
    BY <1>2, <1>7 DEF KnowsPersist
  <2>2. On(row[r]) /\ LedgerSettled(r, row[r], OffersOf(r), RosterOf(r))
    BY <1>2, <1>7 DEF KnowsPersist
  <2>3. PICK old : old = row[r].seats
    OBVIOUS
  <2>4. /\ old \in Panels /\ seats = Accept(old, k) /\ s.work.slot = row[r].slot
        /\ k \in SeatsWith(old, "offered")
    BY <1>1, <1>2, <2>1, <2>3 DEF Row
  <2>5. PICK offer, seat : /\ offer = [iv |-> r, seat |-> k, who |-> old[k].who, slot |-> row[r].slot]
                           /\ seat = [iv |-> r, seat |-> k, who |-> old[k].who]
    OBVIOUS
  <2>6. /\ offer \in OfferRows(r, old, row[r].slot)
        /\ AcceptedRoster(r, seats) = AcceptedRoster(r, old) \cup {seat}
    BY <2>4, <2>5, AcceptRows
  <2>7. offer \in offers /\ AcceptedRoster(r, seats) \subseteq roster \cup {seat}
    BY <2>2, <2>3, <2>6 DEF LedgerSettled, OffersOf, RosterOf
  <2>8. \A q \in Requests : row'[q].slot = row[q].slot
    BY <1>4, <2>4
  <2>9. SeatTime(seat)' = offer
    BY <1>2, <2>5, <2>8 DEF SeatTime
  <2>10. \A p \in roster' : p \in roster \/ p = seat
    BY <1>3, <2>7
  <2>11. \A p \in roster : row'[p.iv].slot = row[p.iv].slot
    BY <1>5, <2>8 DEF Participant
  <2> QED BY <1>3, <2>7, <2>9, <2>10, <2>11, NothingNew
<1> QED BY <1>6, <1>7

\* The candidate's way out gives up the panel before the time goes.
LEMMA CommitAddsNothing ==
    ASSUME IInv, IsoInv, NoDoubleBooking, NEW t \in Threads,
           CommitCancel(t) \/ CommitReschedule(t)
    PROVE  NoDoubleBooking'
<1>1. PICK r, s : r = th[t].req /\ s = th[t]
  OBVIOUS
<1>2. s.pc = "commit" /\ ReleaseInterview(t) /\ row \in [Requests -> Row]
  BY <1>1 DEF CommitCancel, CommitReschedule, IInv, TypeOK
<1>3. /\ r \in Requests /\ s.snap = row[r]
      /\ LedgerSettled(r, row[r], OffersOf(r), RosterOf(r))
  BY <1>1, <1>2, Working DEF KnowsOf
<1>4. offers' \subseteq offers /\ roster' \subseteq roster /\ \A p \in roster' : p.iv # r
  <2>1. CASE On(row[r])
    BY <1>1, <1>2, <1>3, <2>1 DEF ReleaseInterview, On, RosterOf
  <2>2. CASE ~On(row[r])
    BY <1>1, <1>2, <1>3, <2>2 DEF ReleaseInterview, On, RosterOf, LedgerSettled
  <2> QED BY <2>1, <2>2
<1>5. \A q \in Requests \ {r} : row'[q] = row[q]
  BY <1>1, <1>2, <1>3 DEF CommitCancel, CommitReschedule
<1>6. \A p \in roster' : row'[p.iv].slot = row[p.iv].slot
  BY <1>4, <1>5 DEF IInv, TypeOK, Participant
<1> QED BY <1>4, <1>6, NothingNew

LEMMA NextBookings ==
    ASSUME Isolated, IInv, IsoInv, NoDoubleBooking, [Next]_vars
    PROVE  NoDoubleBooking'
<1>0. /\ row \in [Requests -> Row] /\ roster \subseteq Participant /\ th \in [Threads -> Thread]
      /\ \A p \in roster : p.iv \in Requests
  BY DEF IInv, TypeOK, Participant
<1>1. ASSUME offers' = offers, roster' = roster, \A q \in Requests : row'[q].slot = row[q].slot
      PROVE  NoDoubleBooking'
  BY <1>0, <1>1, NothingNew
<1>2. ASSUME NEW r \in Requests, CreateRequest(r) PROVE NoDoubleBooking'
  BY <1>0, <1>1, <1>2 DEF CreateRequest, Row
<1>3. ASSUME NEW t \in Threads, NEW r \in Requests, Handle(t, r) PROVE NoDoubleBooking'
  BY <1>1, <1>3 DEF Handle, SubmitAvailability, SelectSlot, RespondToSeat, InterviewerCancel,
                    CandidateCancel, CandidateReschedule
<1>4. ASSUME NEW t \in Threads, NEW r \in Requests, Sweep(t, r) PROVE NoDoubleBooking'
  BY <1>1, <1>4 DEF Sweep, SweepExpiredOffers
<1>5. ASSUME NEW t \in Threads, Continue(t) PROVE NoDoubleBooking'
  <2>1. CASE AssignPanel(t) \/ SweepOn(t) \/ SkipDispatch(t) \/ CreateEvent(t) \/ DeleteEvent(t)
             \/ Resubmit(t) \/ \E k \in SeatIndex : ExhaustSeat(t, k)
    BY <1>1, <2>1 DEF AssignPanel, SweepOn, SweepNext, SweepSkip, SkipDispatch, CreateEvent,
                      DeleteEvent, Resubmit, ExhaustSeat
  <2>2. CASE Reopening(t) \/ RefuseCancel(t)
    <3>1. Refreshes = {FALSE}
      BY DEF Refreshes, Isolated
    <3> QED BY <1>1, <2>2, <3>1 DEF Reopening, RefuseCancel
  <2>3. CASE FindFeasibleSlots(t)
    BY <1>0, <1>1, <2>3 DEF FindFeasibleSlots, Row
  <2>4. CASE RecordEvent(t)
    BY <1>0, <1>1, <2>4 DEF RecordEvent, Row
  <2>5. CASE \E k \in SeatIndex, i \in Interviewers : OfferSeat(t, k, i)
    BY <2>5, OfferIsFree
  <2>6. CASE Persist(t)
    BY <2>6, PersistAddsNothing
  <2>7. CASE CommitCancel(t) \/ CommitReschedule(t)
    BY <2>7, CommitAddsNothing
  <2> QED BY <1>5, <2>1, <2>2, <2>3, <2>4, <2>5, <2>6, <2>7 DEF Continue
<1>6. ASSUME NEW t \in Threads, Abort(t) PROVE NoDoubleBooking'
  BY <1>6 DEF Abort, Isolated
<1>7. CASE UNCHANGED vars \/ \E s \in Slots : Elapse(s)
  BY <1>1, <1>7 DEF vars, Elapse
<1> QED BY <1>2, <1>3, <1>4, <1>5, <1>6, <1>7 DEF Next

\* At no moment, not even between the commits of a cascade, is an interviewer
\* held for two seats at overlapping times: what DbReservationLedger promises
\* holds of the whole service if requests are worked on one at a time.
THEOREM NeverDoubleBooked ==
    ASSUME Isolated
    PROVE  Spec => []NoDoubleBooking
<1>1. Init => NoDoubleBooking
  BY DEF Init, NoDoubleBooking, Bookings
<1>2. IInv /\ IsoInv /\ NoDoubleBooking /\ [Next]_vars => NoDoubleBooking'
  BY NextBookings
<1> QED BY <1>1, <1>2, AlwaysSettled, PTL DEF Spec
=============================================================================
