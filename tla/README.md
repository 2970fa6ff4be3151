# Verification of the Smart Interview Scheduler

The repository is a web service that schedules interview panels. A recruiter
creates a request, the candidate hands in availability windows and picks one of
the slots found feasible, the service offers each seat of the panel to a free
interviewer, cascades over declines and timeouts, and books a calendar event
when the panel is complete. The core is `src/backend/app/scheduling/`; paths
below are relative to `src/backend/app/` unless they start with `src/`.

This directory holds TLA+ models of that core, TLC configurations that check
them on small instances, and TLAPS proofs for every value of the constants.

## 1. Inventory

| Component | State | Operations | What makes it correct |
|---|---|---|---|
| Scheduling service, `scheduling/service.py` | a row of `interviews` per request (status, `seats_json`, slot, feasible slots, event id) | create, submit availability, select slot, accept or decline, interviewer cancel, candidate cancel, reschedule, two sweeps | row, ledger, roster and calendar agree; a confirmed seat is kept; a cancelled interview stays cancelled; an assignment ends |
| Assignment engine, `scheduling/assignment.py` | none: a copy of the seats in, a new copy out | fill pending seats, apply a response, expire offers, resolve | nobody sits twice on a panel or on a seat they left; the status follows from the seats |
| State machine, `scheduling/state_machine.py` | none | create, respond, cancel, reschedule, interviewer cancel | only legal transitions, releases match what was held |
| Durable ledger, `scheduling/providers/db_reservation_ledger.py` | `interview_slot_offers` (OFFERED), `interview_participants` (confirmed), `_LOCKS` per process, row locks | `is_free`, `reserve`, `release`, `release_interview` | nobody is held twice at overlapping times; locks are returned |
| In-memory ledger, `scheduling/reservations.py` | reservations per interviewer | the same | the specification of the former |
| Event dispatch, `scheduling/event_dispatch.py` | Google calendar event, `calendar_event_id` | create, sync attendees, remove attendee, delete, mail | one event per confirmed interview, with its people, and none for one that is off |
| Jobs, `scheduling/jobs.py` | APScheduler thread | expiry sweep (5 min), reminder sweep (30 min) | every unanswered offer expires; one reminder per booking |
| Feasibility, `scheduling/feasibility.py`, `timeutils.py`, `pipeline.py` | `feasibility_json`, the candidate's windows | slice windows into slots, filter by hours, free/busy and ledger | exactly the slots with enough free people, and people who can still come |
| Pool and ranking, `scheduling/pool.py`, `providers/db_interviewer_load_provider.py` | `interviewer_profiles` | filter by type, skills and seniority; order by load | complete and fair pools |
| Login and tokens, `auth/` | `users`, `invite_tokens`, `oauth_tokens`, session cookies | invite, first login, refresh, disconnect | an invitation that is used up lets nobody else in, nobody but its addressee is let in by it, and a used one has its user; no dead token is kept |
| Notifications, `notifications/` | in-memory inbox | send | what people last read is so |
| Routes, `scheduling/router.py`; web client, `src/frontend/` | none | one call of the service each | not modelled as such |

How they interact. Each request handler runs in a thread of the server's pool
with a database session of its own (`db/session.py`); the sweeps run in the
scheduler's thread. They share the database, the per-process mutexes of the
ledger and Google. A handler loads its interview row, asks Google for free/busy
times, runs the engine on the copy it loaded and writes the outcome back. In
between, `reserve()` commits the session (once per offer), and so does a token
refresh during a Google call (`auth/google_oauth.py:139`). No row of
`interviews` is ever locked.

Hard behaviours. Lost updates between two handlers on one row; statuses and
seats checked before, and acted on after, Google calls and commits; half of a
transaction made durable by a commit in the middle; a process that dies between
the calendar and the database; answers to offers that a cancellation has
released; two kinds of lock taken in an order nobody wrote down; sweeps that
look at some statuses only; announcements made before a commit; lists read and
written back in two calls to Google; free/busy asked for one range and judged
over another; working hours that are compared as text and read as numbers; an
invitation that two callbacks find unused. `PROJECT.json` lists each hazard at its line.

## 2. Modules

| Module | Models | Used by |
|---|---|---|
| `PanelSeats` | the seats of one panel and what the engine does to them | extended by `SchedulingService` |
| `SchedulingService` | how all handlers and the expiry sweep interleave over one database and one calendar | `StatedClaims`, proofs |
| `InterviewLifecycle` | the abstract life of an interview: every call one step on its row | instantiated by `SchedulingService` |
| `StatedClaims` | a claim of the documents that the code does not keep | `MCScheduling` |
| `ReservationLedger` | the abstract ledger, from the in-memory one | instantiated by `DbReservationLedger` |
| `DbReservationLedger` | `reserve()` step by step under the assignment loop, in several deployments | `MCLedger`, proofs |
| `TimeIntervals` | interval, buffer and working-hours arithmetic | extended by `FeasibleSlots` |
| `InterviewerPool` | who is eligible for a request | extended by `FeasibleSlots` |
| `FeasibleSlots` | search, stored result, live recompute and ranking over a changing world | `MCSlots`, proofs |
| `BookingEvent` | what a booking sets off outside the database: calendar event, e-mails, inbox, reminder | `MCBooking`, proofs |
| `InviteLogin` | invitations, first login, sessions and Google tokens | `MCLogin`, proofs |
| `MCScheduling`, `MCLedger`, `MCSlots`, `MCBooking`, `MCLogin` | values for TLC | the runs below |
| `SchedulingServiceProofs`, `DbReservationLedgerProofs`, `FeasibleSlotsProofs`, `BookingEventProofs`, `InviteLoginProofs` | TLAPS proofs about the module they are named for | |
| `IsolatedServiceProofs` | TLAPS proofs about `SchedulingService` when one handler at a time works on a request and nothing fails | extends `SchedulingServiceProofs` |
| `LifecycleProofs` | TLAPS proof that `SchedulingService` implements `InterviewLifecycle`, with failures | extends `IsolatedServiceProofs` |
| `BookingTruthProofs` | TLAPS proofs of what calendar and inboxes say between handlers | extends `BookingEventProofs` |

The modules cut the service along its hazards. `SchedulingService` has the
interleavings of handlers on the database; the two that follow one request
through the outside world take a handler up to its commit as one step, and
spend their states on what `SchedulingService` abstracts: `FeasibleSlots` on
times, people and calendars, `BookingEvent` on messages and calls to Google.

### PanelSeats

A seat is `[status, who, declined]`; a panel maps seat indices to seats.
`NoSeats` stands for `seats_json IS NULL`. Each operator is one passage of the
engine: `Excluded` and `IsNextPending` are the loop of `fill_pending_seats`,
`OfferTo`, `Exhaust`, `Accept` and `Reopen` its assignments to a seat, `Resolve`
is `_resolve`. Timestamps, messages and reasons are left out.

### SchedulingService

Variables: `row` (the interview rows), `offers` (OFFERED rows; rows with a
terminal status leave the set), `roster` (confirmed panelists), `calendar` and
`made` (events on Google and how many were made), `elapsed` (slots in the past)
and `th`, what each thread is doing. A thread record has the row as loaded
(`snap`), the copy it works on (`work`), its program counter and what its
session has flushed but not committed (`released`, `cancelled`).

A handler is one action per commit, per read that a later step relies on and
per call that changes the calendar:

| Code | Actions |
|---|---|
| `create_request` | `CreateRequest` |
| `submit_availability` | `SubmitAvailability`, `FindFeasibleSlots` |
| `select_slot` | `SelectSlot`, `AssignPanel`, then the fill loop |
| `respond_to_seat` | `RespondToSeat`, `Reopening` (decline), the fill loop |
| `interviewer_cancel` | `InterviewerCancel`, `RefuseCancel` or `Reopening`, the fill loop |
| `sweep_expired_offers` | `SweepExpiredOffers`, `SweepNext`, `SweepSkip`, `Reopening`, the fill loop |
| fill loop, `reserve()` | `OfferSeat` (commits), `ExhaustSeat` |
| end of those handlers | `Persist`, then `SkipDispatch` or `CreateEvent` and `RecordEvent` |
| `candidate_cancel` | `CandidateCancel`, `CommitCancel`, `DeleteEvent` |
| `candidate_reschedule` | `CandidateReschedule`, `CommitReschedule`, `DeleteEvent`, `Resubmit` |
| rollback, dead process | `Abort` |

`Merge` is what SQLAlchemy does at a flush: it writes the columns that differ
from the ones loaded, or every assigned column once an earlier commit has
expired the row, so concurrent handlers overwrite one another column by column.

The constant `Conditions` chooses the environment: `races` (two handlers on one
request), `dead_offers` (answers to offers of a cancelled interview, which the
interviewer's list still shows), `failures` (exceptions, dead processes,
refused Google calls), `token_refresh`, `time`, `reschedules`. Without `races` a
handler starts only when no other one works on its request.

Abstractions. The database is PostgreSQL at READ COMMITTED, the default of
`.env.example`; SQLite's single writer only removes interleavings. Slots are
model values with an `Overlap` relation instead of times; the padding by
buffers is in it. The result of the free/busy query and of the pool is any set
of people; the load ranking is any candidate of that set, so every order is
covered. Which offers have expired when the sweep runs is any nonempty set of
offered seats. `_pick_next` and `reserve()` are one step (a lost race ends in
the next candidate, which is a choice of the same step; their steps are in
`DbReservationLedger`); so are the scan of the candidates and the row read and
insert of the dispatch, whose separations give no further outcomes for the
properties below. Attendee lists, mails, notifications, availability windows
and reminders are in the modules below; the hiring manager's roster row, which
nothing reads, is left out. In all modules, operators whose comment begins with "A broken" or "Broken" are deliberate faults that show that
the properties can fail; no action uses them.

### InterviewLifecycle

The abstract specification of what the service makes of an interview. Its one
variable `interview` holds a row per request without the event's id, and every
call is one action: `Create`, `Submit`, `Select`, `AcceptSeat`, `GiveBack` (a
decline or an expiry), `BackOut`, `Cancel`, `Reschedule`. `Fillings` are the
panels that the fill loop may end with, given only that nobody sits twice or
returns to a seat they left; whom the ledger lets it pick is left open.

`SchedulingService` instantiates it as `Lifecycle`, with `interview` mapped to
`Stories`, its committed rows. `ImplementsLifecycle` says that a handler that
commits in its middle, dies, or works on a row that a token refresh has expired
still changes the row once, at its last commit, and then as if it had read and
written at that moment. (A reschedule with windows is two calls, `Reschedule` and
`Submit`, and a sweep is one `GiveBack` per row.) What a dead handler leaves behind is in the ledger and
the calendar, never in the row. Two conditions are excluded from the claim
because they break it, and TLC finds both: with `races` a late writer stores
seats that no call could make of the row it overwrites, with `dead_offers` an
answer revives a cancelled interview.

### ReservationLedger and DbReservationLedger

`ReservationLedger` is the promise: one set of reservations, changed by one call
at a time, and `reserve` only for somebody free. A call that releases seats of
an interview and reserves in the same transaction is one step of it.

`DbReservationLedger` follows a session through `fill_pending_seats` and
`reserve()`: `Pick`, `EnterMutex`, `LockRow`, `StillFree` or `LostRace`,
`InsertOffer` (with its commit), `LeaveMutex`, `GiveUp`, `Finish`. A deployment
says whether row locks exist (PostgreSQL) and which process each session runs
in; the assumption `LedgerAssumption` says that SQLite serves one process, as
the ledger's docstring does. A session's releases are flushed (seen by itself)
and committed with its next commit; on SQLite a session with flushed changes is
the only writer, and the others time out (`WriteTimeout`). PostgreSQL fails a
session on a cycle of row waits (`DeadlockVictim`). Processes die (`Crash`).
Interviews keep their time, and one handler at a time works on an interview:
`SchedulingService` is about the rest. `Booked`, the committed offers and
roster rows, is what refines `reservations`.

### TimeIntervals, InterviewerPool and FeasibleSlots

The first two are pure: each operator is one function of `timeutils.py`, or one
check of `pool.py` with the policy of `config.py`. Time is a whole number of
units, a day has `DayLength` of them, and an owner's zone is a fixed distance
from UTC: the two days a year on which a zone changes its clocks are left out.
Times of day that `parse_hhmm` refuses to read are the value `Unreadable`.
Skills are members of a set of spellings, and `Skill` is what stripping and
lower-casing makes of each.

`FeasibleSlots` follows one request. `ask`, `status`, `windows`, `feasible` and
`picked` are its columns; `profiles`, `connection`, `calendars`, `held` and
`stamps` are everybody else's: directory rows, whether a Google account
answers, meetings, reservations for other requests, and the times of confirmed
roster rows.

| Code | Operators and actions |
|---|---|
| `run_feasibility`, `compute_feasible_slots` | `Span`, `BusyForPool`, `VerifiedPool`, `StartsIn`, `FeasibleSlots` |
| `feasible_interviewers_at`, `..._at_fixed_time` | `FeasibleAt`, `Around`, `StillFeasible` |
| `rank_interviewers`, `get_load_snapshot` | `LoadOf`, `Before`, `Rankings` |
| `submit_availability`, `candidate_reschedule`, `select_slot` | actions of the same names |
| `upsert_interviewer_profile` and its payload check | `UpsertProfile`, `HoursAccepted` |

A search with unreadable working hours raises (`Raises`): a submission is rolled
back, a reschedule has committed its first half by then. Its properties compare
with a reference that knows no intervals and no queries: `CouldSit` asks
whether each instant of the interview is within working hours and whether any
meeting contains an instant of it or of its buffers.

### BookingEvent

`row` is the interview's row; a panel says who is offered and who has accepted.
`calendar` holds the recruiter's events, `mailed` who has a confirmation by
e-mail, `told` the last entry in each person's inbox, `sent` the reminders per
booking. A handler runs the engine and announces its moves (`Decided`, `Tell`),
commits (`Commit`, `Abort`), and only then talks to Google, one action per
call: `DispatchBooking` reads the row, `CreateEvent` and `RecordEvent` are
`_create_event` before and after Google's answer, `SyncEventAttendees`,
`GetEvent` and `PatchEvent` (the two calls of `remove_attendee_from_event`),
`DeleteEvent`. The reminder job is `SweepReminders`, `SendReminder`,
`MarkReminded`. `time` tells whether the start is far, near or past.

A world says which conditions hold (`refusals`, `aborts`, `crashes`, `overlap`,
`dead_offers`), how large the panel is and how often it is booked; each
property names the conditions it needs. Handlers do not interleave up to their
commits here; with `overlap` they do after them. After an interviewer has
cancelled, the panel cannot be complete at once (the seat is offered or
exhausted), so the dispatch at `service.py:523` is never reached and has no
step. The hiring manager is invited the way the candidate is and is not told
apart.

### InviteLogin

`requests`, `addressee` and `invite` are the requests with their invitations,
`users` and `via` the users and the invitation they came with, `tokens` the
`oauth_tokens` rows, `revoked` what Google has ended. Every read that a later
commit relies on is a step: `CheckInvite`, `ConsumeInvite`, `CreateUser`;
`FindToken`, `WriteToken`; `NeedToken`, `Renew`, `StoreRenewed`; `Disconnect`,
`Revoke`, `Forget`. A consent at Google is a number; a token row records which
one its refresh token and its access token came from. The unique columns of
`users` and `oauth_tokens` make the later of two inserts fail, and an update of
a deleted row fails. An address is what Google spells; `Lower` gives its lower
case. The check of an invitation (`auth/router.py:43`, `SameAddress`) and the
configured roles (`:49`, `ConfiguredRole`) fold case, the unique column
`users.email` does not (`db/models.py:32`, `Taken`). Google's side (consents, renewal, revocation) is external.
Signed states, session cookies and hashed invitations are taken to be
unforgeable. Google returns a refresh token with every consent, as
`prompt=consent` demands.

## 3. Runs

| Run | Instance | Shows |
|---|---|---|
| `Serial` | 1 thread, 1 request, 3 people, 2 seats, 2 slots, 2 events, fair | the handlers' own logic: `LedgerMatchesSeats`, `EventMatchesRow`, and `AssigningSettles` under the expiry job |
| `Contention` | 2 threads, 2 requests at clashing times, 3 people | `NoDoubleBooking`, `LedgerMatchesSeats` between interviews; `ImplementsLifecycle` with calendar and replacements |
| `Races` | 2 threads on one request, 2 people, 2 seats | what survives races and answers to dead offers: `IInv`, `OfferedNeverOverlap`, `PanelsDistinct`, `DeclinersExcluded` |
| `Faults` | 2 threads, 2 requests at clashing times, 2 people, 2 seats, failures and token refreshes | the inductive invariant `IInv` with `TypeOK` and `OfferedNeverOverlap`; `ImplementsLifecycle`, and of the row `StatusMatchesSeats`, `AcceptedSeatKept`, `CancelledIsFinal` |
| `Ledger` | 3 sessions, up to 2 processes, 3 interviews, 2 people, 2 seats, both databases | `LedgerInv`, `NeverDoubleHeld`, `NoLockLeftBehind`, `ImplementsLedger` |
| `Slots` | 1 request of 3 rounds, 2 people in 2 zones, days of 10 units, 3 window sets, 2 meetings, 2 changes | `StoredSlotsFit`, `SearchIsSound`, `NoSlotOverlooked`, `PanelIsAvailable`, `EscalationIsHonest`, `LightestFirst` |
| `Booking` | 2 handlers, up to 3 people, panels of 1 and 2, 2 bookings, 9 worlds, fair | `CalendarMirrorsRow`, `OneEventPerBooking`, `InboxTellsTruth`, `RemindedOnce`, `EveryoneReminded` |
| `Login` | 2 handlers, 4 accounts, 2 addresses in 3 spellings, 1 request, 3 consents, 2 worlds | `InviteIsSpent`, `EveryoneWasLetIn`, `NobodyLockedOut`, `NoDeadTokens` |

Four runs check a statement of the repository that the code does not keep; each
has an entry under `findings`.

| Run | Counterexample |
|---|---|
| `ClaimNeverDoubleBooked` | an interview is cancelled with an offer out, which stays on the interviewer's list; another interview at the same time reserves the person; then the person accepts the old offer, and the confirmed roster row is inserted without asking the ledger |
| `ClaimSeatsIndependent` | two interviewers accept their seats at the same time; each handler writes both seats from its own copy, so the later commit turns the other's acceptance back into an offer |
| `ClaimOfferSettles` | one seat is exhausted and the interview handed to a human; the expiry sweep looks at `assigning_panel` only, so the offer of the other seat stands for ever and blocks its holder |
| `ClaimLostRaceCascades` | a session loses the race for a person: it leaves the mutex but keeps the row lock of its open transaction. A second session enters the mutex and waits for the row. The person is freed by a cancellation, the first session picks them for its next seat and waits for the mutex. Neither the interpreter nor PostgreSQL sees that cycle |

Divergences met while modelling that have no run of their own:

- A handler that dies after `reserve()` has committed its flushed release leaves
  an offer no seat shows (`db_reservation_ledger.py:169-172` says that this
  "never prematurely commits unrelated half-finished state"); `Faults` reaches
  it, and so does a token refresh inside `interviewer_cancel`
  (`service.py:500`).
- A dispatch overtaken by a cancellation writes event and link to the cancelled
  row (`event_dispatch.py:180`), which `service.py:538` means to exclude. This
  is why `CalendarMirrorsRow` asks for a world without `overlap`.
- A dispatch overtaken by another commit may patch an old list of attendees, and
  a patch that follows `events.get` may take a replacement out again
  (`event_dispatch.py:299-304`); the same condition.
- An accepted dead offer revives its cancelled interview (`state_machine.py:12`
  calls that status terminal); a slot selection submitted twice assigns twice
  (`service.py:372`).
- An offer or a completion is announced before its commit, which may fail:
  `InboxTellsTruth` asks for a world without `aborts`.
- The search asks for free/busy between the first window's start and the last
  one's end, not around the buffers, so a meeting just outside is unseen until
  the slot is chosen (`feasibility.py:201`). `SearchIsSound` is therefore about
  the interview itself, `PanelIsAvailable` about the buffers too, and only for
  buffers of at most the hour by which the live query is widened.
- Working hours are compared as strings (`schemas.py:106`): `"9:00"` to
  `"18:00"` is refused, `"10:00"` to `"24:00"` accepted and then unreadable, and
  one such profile makes every search whose pool it is in raise.
- `sweep_reminders` promises "once" (`service.py:808`): a commit that fails after
  the e-mails sends them again, and a booking made while the job is sending for
  the one before is marked as reminded.
- An invitation does not lead to its own request: `router.py:111` says that the
  session "resolves straight back to it", `auth/router.py:87` drops the
  interview's id and `my_request` takes the newest request of the address.
- An invitation is called single-use (`AUTH_MODULE.md:19`). It is, but for a
  race: the check folds case, and what makes the second of two inserts fail is
  the unique address, which does not (`auth/router.py:43` and `:93`,
  `db/models.py:32`). Two accounts that spell the address differently, whose
  callbacks both find the invitation unused, both become users; TLC finds this in
  the instance of `Login`. `InviteIsSpent` is therefore about the time after the
  race, and allows the race one user for each spelling.
- "No invite token → no candidate account" (`AUTH_MODULE.md:21`): the role
  `candidate` may be configured for an address in `ALLOWED_INTERNAL_USERS`
  (`auth/router.py:52`) and then needs no invitation. `EveryoneWasLetIn` accepts
  any role that is configured.
- Somebody whose address already has a user and who comes with a new Google
  account uses up the invitation (`auth/router.py:46`) and is then refused by the
  unique address (`:95`), although nothing failed.
- A handler that fails after an invitation is used up, and before the user is
  made, locks the candidate out (`auth/router.py:46`); one that fails after the
  request is committed leaves a request without an invitation
  (`router.py:125`). `NobodyLockedOut` says that when no handler fails, each
  request comes to have an invitation, and the address of a used one a user. It
  does not say that it is the account which used it: the older user in the
  divergence before this one satisfies it.

Bounds. Two seats are the least with a neighbour to disturb and three people
the least with a replacement and somebody left over; with two people the
cascade also runs dry. Two threads give every race of two handlers, which is
what a lost update needs; two requests compete for one person. In
`SchedulingService`, `MaxEvents` bounds the events made per interview: two, so
that a reschedule can book again, one where the calendar is not the subject,
none in `Races` and `Faults`, whose properties do not look at it. `Ledger` needs three
sessions for a cycle of row waits: one wins two races, two lose them.
`MaxHandlers` is the number of assignments ever started; three let each session
run, or one session run again. In all instances but `Serial` every two slots, or
interviews, clash: that is where booking goes wrong. Symmetry is used in runs
without liveness.

In `Slots` the rounds have a buffer on each side, on one side, and one longer
than the margin; the windows include two that overlap, one shorter than the
interview and one whose grid does not end at its end; meetings touch slots and
each other; somebody works in a zone three units away, and profiles come with
no work, unreadable hours, and hours that the payload check refuses. Two
changes of the world and two units of time are the least that make a stored
slot stale in two ways at once. In `Booking` two bookings tell the reminder of
one from that of the next, three events (`MaxEvents`) let a booking be made
again after each, and one crash (`MaxCrashes`) may fall anywhere. In `Login` two
accounts share an address and a third spells it differently, so that two
callbacks may race with one invitation and collide in the unique column, or not;
the two that share it are alike and permuted by the symmetry, as the handlers
are; and three consents (`MaxConsents`) let somebody log in, log in
again and lose a row in between.

Deadlock is not an error in any run: everything stops when the last interview is
over or cancelled, or the last handler, booking, change or consent has been
spent.

Fairness. In `SchedulingService` a handler that has started runs on (weak
fairness per thread: nothing in it waits for a condition), and the expiry sweep
gets to each request again and again (strong fairness: APScheduler fires it
every five minutes in a thread of its own, and in instances with one handler at
a time it may find its request busy). Nobody is assumed to answer an offer, to
cancel, or to select. In `DbReservationLedger` the steps of a session are weakly
fair, the deadlock detector and the lock timeout included; who gets a lock first
is left open. In `BookingEvent` handlers and the job run on (weak), the timer
starts the reminder job again and again (strong, for the same reason as above),
and an interview that is far away comes near (weak). That the job, which runs
every half hour, looks at least once during the day before an interview is the
guard of `Starts`.

## 4. Proofs

Every theorem holds for any constants that satisfy the named assumption of its
module: any number of threads, sessions, handlers, people, accounts, seats and
requests, every subset of the conditions unless it says otherwise. The
assumptions give the constants
their types; those that say more are named here: `PanelAssumption` (there is a
seat), `ServiceAssumption` (overlap is reflexive and symmetric, null values are
not members), `LedgerAssumption` (SQLite serves one process), `SlotsAssumption`
(granularity is positive, meetings are not empty, the profiles in the directory
passed the payload check).

`SchedulingServiceProofs`:

- `InductiveInvariant`, `TypeCorrect`: `IInv`, and with it `TypeOK`, is invariant.
- `OffersNeverOverlap`, `NobodySitsTwice`, `NobodyReturns`: no person has two
  outstanding offers at overlapping times; no stored panel has a person on two
  seats, or on a seat they gave back. All three hold under races and failures.

The panel properties are not inductive as they stand: `Persist` stores a copy
that was taken from the row several commits ago. `IInv` therefore says that the
copy every thread carries is itself sound (`ThreadOK`), that the seats it is
about to reopen are held, and that it knows its request and slot. As the seats
are one column, what a late writer stores is one sound panel or the other, never
a mixture. The proof has a lemma per operator on seats, one per group of actions
and `NextSound` on top.

`IsolatedServiceProofs`, for the environments that are `Isolated`: no races on
one request, no answers to dead offers, no failures and no token refresh, but
any number of threads and of requests that compete for the same people, with
sweeps that take rows one after the other, reschedules and time:

- `LedgerAgrees`, `CalendarAgrees`: between handlers the ledger and the calendar
  say what the row says.
- `NeverDoubleBooked`: nobody is held twice, at any moment.

Each condition that `Isolated` excludes breaks one of them; the runs that expect
a violation and the divergences above are examples. A property about the time
between handlers says nothing of a handler in its middle, so the invariant
`IsoInv` says what each handler knows at each of its steps (`Knows`): the ledger
with what is flushed (`released`, `cancelled`) agrees with the copy worked on
(`Carries`), the
status is one that `_resolve` will make true (`Undecided`), and an event that is
made or to be deleted is the only one (`"record"`, `"delete"`). A request that no
handler is in the middle of is settled (`SettledRequest`), and no two handlers,
nor a handler and the rest of a sweep, are on one request (`Separate`). A step
concerns one request and one thread, so `OneRequest` reduces the invariant to
that request and that thread; the rest is a lemma per operator on seats and per
action. `NeverDoubleBooked` then needs `OfferSeat` only: every other step takes
nobody's time that was not taken before.

`LifecycleProofs`, for the environments that are `Uncontested`: no races on one
request and no answers to dead offers, but with failures, token refreshes, and
any number of threads and of requests:

- `LifecycleRefines`: the service implements `InterviewLifecycle`.
- `StatusIsTrue`, `ConfirmedSeatsStay`, `CancellationStays`: the status is true
  of the seats; no handler takes a confirmed seat or undoes a cancellation.

Only `Persist`, `RefuseCancel`, the two commits of the candidate's calls and the
short calls change a story, and each has to be shown a call made at that moment.
The invariant `LifeInv` therefore relates the copy of every handler to the row
as it is now: what it loaded is still there (`CopyLive`), the seats it works on
are some opened by its call (`Opened`) of which a part has been filled
(`Partly`, `CopyFill`), and at the end none is pending (`CopyPersist`). A copy
that a refresh has expired is written back as a whole, so nothing is asked of
what it remembers as loaded; it is right because no other handler has been at
the row. Each step gives the invariant and the abstract step together
(`NextLife`), and the last two theorems are read off the abstract calls: what no
call does, no handler does.

`DbReservationLedgerProofs`:

- `LedgerCorrect`, `LocksAreReturned`: a session inside `reserve()` holds its
  mutex and its row lock, and nobody holds one without being there.
- `NobodyHeldTwice`: no double booking through the ledger, in any deployment.
- `LedgerRefines`: the durable ledger implements `ReservationLedger`.

The invariant `LedgerInv` adds to `NeverDoubleHeld` that what the check found is
still true at the insert (`CheckStaysTrue`). That holds because another session
at its insert for the same person would hold the same row lock or, where there
are none, run in the same process and hold the same mutex.

`FeasibleSlotsProofs`:

- `OverlapIsIntersection`, `LiveQuerySuffices`: the interval test means a shared
  instant, and the widened query sees all that the buffers could touch.
- `TypeCorrect`, `StoredSlotsAlwaysFit`: types, and the stored slots in their
  windows, by induction over the actions.
- `SearchSound`, `SearchComplete`, `PanelAvailable`, `EscalationHonest`: the
  search and the choice agree with the reference, for every calendar, directory
  and grid. They assume `Policy = DefaultPolicy`, the one the service uses.
- `LightestAskedFirst`: the ranking, from the order `Before` on load snapshots.

Each of these action properties is proved for one step from `TypeOK` and
`StoredSlotsFit`. The lemmas lead from intervals to instants: a slot is within
working hours iff each of its instants is at work (`AtWork` speaks of the clock
modulo a day, `IsWithinWorkingHours` of one day's window), a calendar that was
asked for a range agrees with the whole calendar on slots in that range, and
`Eligible` is `Qualified`.

`BookingEventProofs`:

- `TypesCorrect`: types.
- `NoSecondReminder`: the job sends before it marks. `RemindInv` says that while
  the job is at work the row is unmarked and what it is about to send for has not
  been sent, that a row whose slot has been reminded is marked or about to be
  (`RowKnows`), and that at most one handler has a decision to commit, with the
  row's slot, none, or a fresh one for which nothing has been sent
  (`PendingSlots`).
- `NoDuplicateEvents`: `EventsInv` says that one handler is at work at a time and
  what it has in hand is about the row as it is (`PendingEvents`, `Dispatching`),
  that a slot not yet booked has no event, and that a live row without an event
  has at most one on the calendar for each crash (`NoneToSpare`), unless the
  handler is about to record it.

`BookingTruthProofs`:

- `InboxesAreTrue`: what people last read in their inbox is so between handlers,
  although handlers overlap and Google refuses calls, if commits succeed.
- `CalendarIsMirror`: when nothing goes wrong, calendar and mailbox agree with
  the row between handlers.

Neither is inductive, and they fail on opposite sides of the commit: inboxes run
ahead of the row, because the engine announces its decision before it is
stored, and the calendar lags behind, because Google is told afterwards. The
invariants `InboxInv` and `MirrorInv` say for every program counter what has been
announced of a decision still to commit and what remains to be done of one that
is committed. They rest on the shapes a row can have (`Sound`), on what a call
may make of it (`Outcome`), and on no panel being larger than asked (`FewHeld`).

`InviteLoginProofs`:

- `TypeCorrect`, `AllWereLetIn`, `InviteStaysSpent`, `NobodyIsLockedOut`,
  `NoTokenIsDead`.

What handlers know is the invariant `LetIn`: a handler past the check has an
addressee with its account's address but for the case, one past the consumption
a used invitation, and no two users share a spelling of an address. From it and
one lemma about steps, `NextSpent`, follows `InviteIsSpent`: a handler can only
come to redeem an invitation that it finds unused, so that a used one which
nobody is redeeming stays so; and of the users made by one invitation no two
share a spelling. Nothing proves that there is only one, which is not so.
`Underway`
says that what is unfinished has a handler that will finish it (a request
without an invitation, a used invitation without a user), which gives
`NobodyLockedOut` when all handlers are idle. `TokensInv` follows consents: one
that a login still carries is fresh, each consent is in at most one row, a row's
access token is of its own consent, and a consent that has been revoked is in a
row only while the disconnect that revoked it is about to delete that row.

Only model-checked: `AssigningSettles` and `EveryoneReminded`, as liveness is out
of the prover's reach, and so is ENABLED. Recursive definitions are not used
anywhere, so nothing is left out on their account.

## 5. Not modelled

`PROJECT.json` gives the reason for each component. Of the code that is
modelled in part: the hiring manager's roster row is written and never read; of
the routes, the read-only ones and the permission checks other than staff
creating requests; of the notifications, the texts, the list view and what the
e-mail provider answers; of time zones, the days on which clocks change. Mocks,
fixtures, seed data and migrations hold no production behaviour; the web client
keeps no state the server relies on.
