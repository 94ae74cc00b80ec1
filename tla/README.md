# ParkReserve: formal specification

TLA+ specifications of the ParkReserve parking system (backend, Raspberry Pi
gateway, ESP32 bay nodes), model-checked with TLC and proved about with TLAPS.
Paths below are relative to the repository root.

## 1. The system

| Component | State it keeps | Operations | Speaks to |
|---|---|---|---|
| Reservations (`backend/app/services/reservation_service.py`) | `reservations` rows: status, arrival time, check-in grace | create, cancel (late or not, or victim of a strong conflict), check-in, admin terminate | payments, bay mirror, conflicts in one transaction; then a command to the Pi |
| Deposits (`payment_service.py`) | append-only `payments` rows with unique idempotency keys; card balances | preauthorize, release, charge_penalty, refund | called inside the transactions of the others |
| Bay mirror (`bay_service.py`) | `parking_bays.state`, `current_reservation_id` | `apply_state`: mirror the Pi, restore after a strong conflict, roll back a pending check-in, complete | driven by MQTT `state`; answers with commands |
| Pi events (`event_dispatcher.py`, `event_service.py`) | `bay_events`, whose unique `source_event_id` marks replays | eight handlers, six for the Pi's events, two for the sweeper's | driven by MQTT `event` and by the sweeper |
| Conflicts (`conflict_service.py`, `api/conflicts.py`) | `conflicts` rows, at most one open per bay; evidence images | open strong or weak, attach evidence, resolve, purge | Pi (HTTP upload), administrators |
| Sweeper (`jobs/reconcile_reservations.py`) | nothing of its own | every 30 s: a `no_show` for each overdue reservation, a `conflict_weak` for each expired pending one | event dispatcher |
| MQTT client and publisher (`mqtt/`, `mqtt_publisher.py`) | connection | deliver `state`/`event`; publish commands after the commit; resync on connecting | broker, at-least-once |
| Pi state machine (`raspberry/services/state_machine.py`) | per bay: state, cached reservation, vehicle present, one timer | sensor edges, recognition results, commands, two timeouts, resync | LED commands to the node, states and events to the backend |
| Pi control service, image receiver (`control_service.py`, `image_receiver.py`) | connections, an executor for recognition | route messages and images to the state machine | node (local MQTT, HTTP), backend (cloud MQTT) |
| ESP32 node (`parking_node/esp32/esp32.ino`) | filtered bay status, LED state, pending capture, pictures on the SD card | measure, debounce, capture, upload, retry, blink | Pi |
| Plates, accounts, notifications, web client | accounts, bound plates; views of server state | CRUD; push after commit | backend |

What makes the system hard is that three programs each keep a picture of the
same bay. The backend believes the Pi's reports, the Pi believes the backend's
commands, both arrive late, twice or never, a human may act through REST at any
moment, and four clocks (arrival grace, check-in grace, the Pi's two timers)
run at the same time. Money is moved along the way.

What makes each component correct:

* **money**: a deposit leaves the card once and is settled once, with at most
  one penalty, whatever route ends the reservation;
* **reservations**: an end is final; a holder who is awaited keeps the bay; a
  victim of a wrong vehicle pays nothing; no record of an earlier sweep keeps a
  later one from ending an overdue reservation;
* **replays**: a message delivered again changes nothing (a check-in confirmation may);
* **the Pi**: its state agrees with the sensor, with the LED and with what the
  backend was told; no state waits for a timeout that will never come;
* **the node**: noise is no vehicle; a picture is taken of the visit that asked
  for it, and should stay queued until the gateway has it or it is too old (the
  second is where the code fails, see the disagreements); no lamp shows an earlier
  state.

## 2. Modules

| Module | Models | Kind |
|---|---|---|
| `Payments` | the four writers of `payment_service.py` over one reservation's rows | operators |
| `Deposit` | nothing of the code: the escrow a deposit promises to be | abstract specification |
| `Backend` | reservations, mirror, conflicts, payments, replay ids, sweeper, publication | specification |
| `PiBay` | `BayStateMachine` and its command dispatch | specification |
| `BayNode` | the tasks of the ESP32's `loop()`, its MQTT callback, restart | specification |
| `ParkReserve` | `Backend` and `PiBay` joined by the broker: connections, resync, restarts, the vehicle in the bay | composition (`INSTANCE` of both) |
| `Transactions` | the handlers of `Backend` split into what they read and what they write, with the locks they take | specification, implements `Deposit` |
| `Evidence` | conflict rows by `source_event_id`, picture files, upload, resolution, purge | specification |
| `Plates` | one user's plates, the update published before the commit, `create` with the list it read | specification |
| `MCBackend`, `MCPiBay`, `MCBayNode`, `MCParkReserve`, `MCTransactions`, `MCEvidence` | constants, views and symmetry for TLC | model checking |
| `PaymentProofs`, `BackendProofs`, `TransactionProofs`, `EvidenceProofs`, `PiBayProofs`, `BayNodeProofs` | theorems about one component each | proofs |
| `ParkReserveProofs`, `HolderProofs` | theorems about the composition: links, mirror, refinement; then the holder | proofs |

### Backend

Rows that may ever be booked are numbered in booking order (`Reservations`);
`status[r] = "none"` until `create` inserts the row. Columns that the code only
compares with the clock are kept as the outcome of the comparison: `arrival`
(early / late / due / overdue against the late-cancel cutoff, the arrival time
and the arrival grace), `windowOver` (more than an hour after `booked_at`, the
CHECK on the booking window) and `grace`. The `Tick` actions move them on.
Payments are a function from idempotency key to amount, 0 for no row.

Each handler is one action, named after it. It runs in a thread: an HTTP worker,
the MQTT thread or the scheduler. After its commit a handler publishes; the
command waits in `outbox[t]` until `Publish(t)`, and the thread does nothing else
until then. `Crash` loses all outboxes and nothing that was committed. A request
that is rejected, an event that finds nothing to do and a transaction that a
constraint aborts change nothing, so they are disabled actions; the two aborts
that matter (`conflicts_one_open_per_bay` in `ConflictStrong` and `ConflictWeak`,
`reservations_booking_window` in `RestoreAfterStrongConflict`) are guards with a
comment. `admin_terminate` is modelled although no route calls it yet: it is part
of the service and its tests.

The environment of `Backend` is *any* Pi: every state and event of the message
schema is possible at any moment. So what is checked does not depend on the Pi
being right, and lost, late and reordered messages need no machinery. Messages
listed in `Redelivered` keep their `source_event_id` and may come again; the
others are delivered once, and an id nobody looks up again is not stored.

### PiBay

Every method of `BayStateMachine` that takes the lock is one action. A
`threading.Timer` is two steps: `TimerFires` makes its thread wait for the lock
(`waiting`), and the callback's own action runs when it gets it; in between
`cancel()` has no effect, as in Python. The environment is any backend, any
sensor and any recogniser. `Restart` forgets everything, as the process does.

### BayNode

The sketch has one thread; each task of `loop()` is one action, and none of them
runs while `reconnect()` waits for the broker (`connected`). A distance is one of
three readings: under the near threshold, over the far one, or in the dead zone
between. `lastBayStatus` equals `currentBayStatus` after every reading and is left
out. The card holds at most one picture of each visit. An upload ends in one of
three ways: stored and acknowledged, neither, or stored but not acknowledged.
`streak`, `visit`, `asked`, `old` and `delivered` are history: no guard of the node
reads them, but for the bound on `visit`. The status the node publishes has nobody
to read it in this module.

A picture whose upload failed is `queued` or `stale` by the age that the retry
*computes* (`diff` in `processPendingUploads`), which has little to do with the
age it has (`old`: really more than ten seconds). `getFileTime` cuts the date out
of the name at an offset that fits `/img_...`, but gets a name without the slash.
`YearRead` and `MonthRead` are what it makes of the date: 2026-04-21 becomes month 42
of the year 260. With a `time_t` of 64 bits (`timeBits`) every dated picture is
therefore stale from the start. With 32 bits the seconds of such a year overflow,
which has no defined outcome: the picture may be stale or not, and one that is not
may become so when the clock passes the time that was read (`Expires`, without
fairness: that can take decades). A name without a date is read as 1970 and is
stale in both. The repository does not say which version of the ESP32 core the sketch
is built with; version 2 has 32 bits, version 3 has 64. That `SD.remove` succeeds
is assumed; that `SD.rename` may fail is among the ways an upload ends.

### ParkReserve

`B` and `Pi` are instances of `Backend` and `PiBay` over the same variables; every
step of the composition is a step of one of them, with the messages it takes
from one channel (`down` to the Pi, `up` to the backend) and puts into another.
The reservation of a command, the vehicle and the plate are shared, so that what
the Pi recognises is what stands in the bay.

`PiAccepts` and `PiIgnores` are `_on_cloud_message` with the state machine's own
guards; `Handle`, `Shrugs` and `Refuses` are what the backend does with a report:
its handler, nothing (the mirror shows it already, or no reservation is in a
status to be moved), or an aborted transaction. A behaviour sees at most one kind
of *mishap*: a fault of transport, process or sensor (`Faults`), or a race of the
two programs that the code does not guard against (`Races`). `mishap` remembers
which, so that each property can say what it holds in spite of. `unheard` keeps
the latest command for each reservation if the Pi was in a state to ignore it.

Both programs use clean sessions: what is on its way to the side whose connection
breaks is lost, what the other side publishes meanwhile is too. Whoever connects
asks for `resync`, which is answered by the Pi alone; the backend never sends its
commands again.

### Transactions

The statements of a READ COMMITTED handler are of three kinds: the SELECT on
which it decides (`Begins`, without a lock), the UPDATE of the reservation that
waits for its row lock, and the payments, which are computed after that lock is
taken. Nobody else can write the reservation between the UPDATE and the commit,
so these are one step (`Ends`). `create` locks the card when it reads it,
`admin_terminate` the reservation; the sweeper locks a whole batch and loses the
locks with the first commit. `Aborts` is a constraint, the deadlock detector or
the end of the process. Mirror and clocks are left out: every status from which
the code starts is possible whenever the row has it.

### Evidence

Event and upload are two transactions each of a `begin` (look the row up, for an
upload write the file) and an `end` (insert or update, commit). The two indexes
of `conflicts` are guards of the insert; a refused one is `Fails`. The purge
deletes files and then commits. No file of this repository uploads evidence, so
the uploader is any client that posts pictures of strong conflicts.

### Plates

One user, one reservation. `Visible` is what a statement of a transaction sees:
what is committed and what its own wrote. The Pi takes the list of an update only
if it has the reservation, and any list that comes with a `create`.

## 3. Runs

| Run | Result | Shows |
|---|---|---|
| `BackendSafety` | 9 properties hold | see below; redelivered confirmations admitted; 241 038 states |
| `BackendVictimStuck` | violated | `EmptyBayResumesVictim` |
| `BackendPendingStuck` | violated | `PendingIsSwept` |
| `PiBay` | 6 properties hold | see below; 286 states |
| `BayNode` | 7 properties hold | see below; both builds; 369 480 states |
| `BayNodeFresh` | violated | `FreshPictureIsKept`, 64-bit time |
| `ParkReserve` | 4 properties hold | backend and Pi, two bookings, no faults; 987 072 states |
| `ParkReserveFaults` | holds | `MirrorAgrees`, one booking, any one mishap; 1 240 000 states |
| `ParkReserveWeakStuck` | violated | `WeakConflictCompletes` |
| `Transactions` | 3 properties hold | READ COMMITTED races; about 208 000 states (up to symmetry) |
| `Evidence` | 4 properties hold | two strong conflicts and a weak one; 426 009 states |
| `Plates` | violated | `PiHasFreshestSet` |

What holds of the backend, for any Pi:

* `DepositFollowsStatus`: payments and status agree; nothing is spent while a
  holder is awaited, everything is accounted for at the end;
* `OnePenaltyPerBreach`: at most one penalty, the one of the recorded breach;
* `PointerNamesHolder`: an awaited holder's bay names exactly that reservation,
  although a second one may be booked beside one in weak conflict;
* `TerminalIsFinal`: an ended reservation never changes again;
* `EndIsAnnounced`: each end leaves a command for the Pi to be published;
* `VictimKeepsDeposit`: no penalty while a strong conflict keeps a holder out;
* `ImplementsDeposit`: refinement of `Deposit` under the mapping in `Backend`
  (`Phase` reads the escrow off the rows);
* `SweepIsNoReplay`: the deterministic ids under which the sweep records its events
  never keep it from ending a reservation that is still awaited.

What holds of the Pi, for any backend: `StateTracksPresence`, `HolderIsCached`,
`PendingIsTimed`, `OutputsAgree` and, with fairness, `PendingEnds`.

What holds of the node, for any readings, LED commands and failures:

* `StatusIsConfirmed`: the status changes only when the last `Limit` readings all
  agreed, a restart apart;
* `PictureWasAsked`: a picture is of a visit that began in a bay shown as
  reserved, never of a later one that inherited the request;
* `PictureIsKept`: a picture leaves the queue only if the gateway has it, if a retry
  *takes it for* older than ten seconds, or at a restart. No failed upload and no
  lost answer loses one. It does not say that the retry is right about the age,
  which it is not;
* `NoLampLies`: what is lit belongs to the current LED state;
* `NothingIsRetried` (64-bit time): at no moment is there a picture that a retry would
  upload. This is what the code does and not what it is for, see below;
* `QueueDrains` (fairness, 64-bit time): no file stays in the queue for ever while
  the node is connected, because the first retry deletes it. With 32 bits it does
  not hold: a file read as one of the future whose upload always fails stays, and
  as a retry looks at the first file only, the ones behind it stay too.

What holds of backend and Pi together, whenever every message has been taken:

* `MirrorAgrees`: the mirror shows the Pi's state, after any one mishap. What
  makes it true is the resync that follows every new connection, and that every
  change of the Pi's state is reported. Two things keep them apart: a report that
  a constraint or an unexpected second row aborted, and a command that the Pi
  ignored (a `create` that finds a casual vehicle, a `check_in` that comes after
  the weak conflict was dropped);
* `HolderIsExpected`: with no mishap, a holder whom the backend awaits is the one
  the Pi has, and the bay is not shown as free;
* `NoGhostHolder`: with no mishap, the Pi keeps no bay for a finished reservation;
* `ParkedHolderIsNoNoShow`: with no mishap, nobody pays for a no-show whose own
  vehicle stands in the bay, seen and reported.

What these except is what the code does not guard against, and worth knowing: a
lost command is never sent again; of all commands only `create` looks at which
reservation it names, and no event handler does, so a late message may act on the
next reservation; a no-show callback that waits for the lock drops whatever
reservation is cached by then (`state_machine.py:376`); a vehicle that comes and
goes within the grace leaves the Pi without a no-show timer (`:237`), which the
backend's answering `create` normally repairs; `_on_check_in_confirmed` does not
look for replays (`event_dispatcher.py:196`); an admin who closes a strong conflict
while the wrong vehicle is still there strands the holder.

What holds under READ COMMITTED: `EndIsSettled` (a finished or breached
reservation has paid everything out) and `EscrowUnderRaces` (the payments still
implement `Deposit`). `TerminalIsFinal` does *not* hold there: a cancellation that
has read `active` overwrites the end which an administrator or a sweep commits
before it. The status is then wrong and the money right, because each payment is
computed from what remains after the row lock.

What holds of the evidence: `AcceptedImageIsKept` and `EventIsRecorded` for event and
picture in either order, refused, repeated or cut off by a crash; and with a purge
job that keeps running, `NamedImageIsPurged`. A file whose upload was refused, or
whose deletion failed, is named by no row and stays for ever.

### Disagreements found

1. `EmptyBayResumesVictim`. When the wrong vehicle of a strong conflict leaves,
   the reservation is to be resumed (`doc/backend/database-design.md:642`). If the
   arrival time has passed, `bay_service.py:275` moves it to now; if that is more
   than an hour after `booked_at`, the CHECK in `models/reservation.py:66-71`
   refuses the row and the whole report is rolled back. The bay stays in
   conflict, and every later report of `available` fails the same way.
2. `PendingIsSwept`. A reservation in weak conflict that is completed leaves its
   conflict row open. The next pending reservation of the bay can then not be
   turned into a weak conflict, as `reconcile_reservations.py:10` wants.
3. `WeakConflictCompletes`. After a weak conflict the reservation is to complete
   when the vehicle leaves (`doc/backend/pi-side-change-notes.md:329`). On
   `expire_check_in` the Pi drops the reservation (`control_service.py:342`) and
   reports `occupied`; the bay then goes from occupied to available, which
   completes nothing, and the reservation stays in conflict.
4. `PiHasFreshestSet`. Commands are to include the current plates
   (`mqtt_publisher.py:3`). Two requests at once leave the Pi with a list that
   misses the plate of one: `plate_service.py:79` publishes before it commits, and
   `create` publishes what it read before its commit.
5. `FreshPictureIsKept`. A picture whose upload fails is to be retried for about ten
   seconds (`doc/report/final-report.md:134`). With 64-bit time the first retry deletes
   it, however young: the date is read from the wrong offset (`esp32.ino:227` with
   `:160`). The run gives every picture a date, so that the fallback name of a node
   without NTP plays no part in it.

   The same misreading breaks the other half of the promise in a build with 32-bit
   time ("files older than 10 seconds are deleted instead of retried indefinitely",
   `parking_node/README.md:265`): wrapped around, the dates of 2026 lie in the future,
   and an old picture is uploaded again as long as it is there. No run of its own
   shows this: it depends on what the compiler makes of a signed overflow.

### Bounds

* One bay, three reservations, one card whose balance (5) covers one deposit (3)
  and not two, a penalty (2) that leaves a remainder. All of the code looks at
  one bay at a time; two reservations of a bay can be live together (one in
  weak conflict), and the third may follow either of them. The theorems cover
  any number of bays, cards and amounts.
* One HTTP worker. Handlers are atomic, so a second worker only adds the order of
  publications, which no property of these runs looks at.
* `BackendPendingStuck` uses two reservations: what keeps a sweep from happening is
  another reservation's conflict row. `BackendVictimStuck` needs only one.
* `BackendSafety` identifies states that differ only in the times of
  reservations that are not awaited (`WithoutPastTimes`): no action or property
  of that run reads them, and no action makes such a reservation awaited again.
* `PiBay`: two reservations (old and new), one plate that is bound or not. A
  callback of one kind waits at most once. Its state space is finite, 286 states.

* `BayNode`: two equal readings confirm a status (one would hide what a contrary
  reading does to the counters), and two visits, so that a request or a picture
  of the first may be taken for the second's. The day is 21 April 2026. The theorems
  cover any limit, any number of visits and any day of 2000 to 2099, in both builds.

* `ParkReserve`: two bookings can follow each other or lie side by side (one in weak
  conflict); two vehicles, the holders'; at most two messages in each direction,
  enough for a state and its event, and for two commands to cross two reports. A
  step that would send more waits, which is why deadlock is not checked.
  `create` starts with an arrival that is near (`late`), since the cutoff of a late
  cancellation only chooses the penalty; `WindowEnds` and `AdminTerminate`, which
  have runs of their own in `Backend`, are left out.
* `ParkReserveFaults`: one booking, and at most one kind of mishap in a behaviour,
  races as often as they like. Two mishaps together would only widen what the
  properties already except.
* Their view (`Seen`) identifies states that differ in money, pointer, the last
  report, or in how a finished reservation ended: no action of the composition
  reads those, and a penalty can be charged only to a reservation that is live.
* `Transactions`: two reservations (bays do not matter there), one card that pays for
  one deposit at a time, two request workers, so that a request can come between
  the two steps of another, of the MQTT thread and of the sweep. Reservations and
  workers are interchangeable, which the symmetry uses; no liveness is checked there.
* `Evidence`: one bay and three conflicts, so that a placeholder or an event can
  find the one open slot taken; two uploaders, so that two uploads of a picture
  can overlap.
* `Plates`: three plates, a limit of two, two requests at once.

### Fairness

Only what the code's own threads do: the Pi's clock goes on, its timers fire and
their callbacks get the lock (`PiBay`); the node's loop comes round to its retry task
as long as radio and broker are there (`BayNode`); the purge job runs again and again
(`Evidence`), which APScheduler's interval trigger does; the scheduler keeps running
the sweep and a thread reaches its publication (`BackendPendingStuck`). No fairness is
assumed of users, drivers, sensors, recognition, messages or the age of a picture.

## 4. Proofs

All theorems hold for every value of the constants that satisfies the named
assumptions: `AmountsPositive`, `ReservationsAreNumbered` (in `Backend` and in
`ParkReserve`), `PlacesTyped`, `CardsTyped`, `ThreadsDiffer`, `KindsDiffer`,
`CommandsAreNumbered`, `LimitPositive`, `DateTyped`, `VehiclesTyped` and `RoomForReports`. The
theorems on `ParkReserve` hold for any set of mishaps it may see (`MayFail`) and
any room on the links. TLC evaluates every one of the assumptions on a run.

| Theorem | States |
|---|---|
| `BackendProofs!TypeCorrect` | `Spec => []TypeOK`; with it, no balance is negative |
| `BackendProofs!DepositIsAccounted` | `Spec => []DepositFollowsStatus` |
| `BackendProofs!PenaltyIsSingle` | `Spec => []OnePenaltyPerBreach` |
| `BackendProofs!EndIsFinal` | `Spec => TerminalIsFinal` |
| `BackendProofs!DepositIsEscrow` | `Spec => ImplementsDeposit` |
| `BackendProofs!HolderIsNamed` | `Spec => []PointerNamesHolder` |
| `BackendProofs!SweepsAreNoReplays` | `Spec => []SweepIsNoReplay` |
| `BackendProofs!EndsAreAnnounced`, `VictimsKeepDeposits` | `Spec => EndIsAnnounced`, `Spec => VictimKeepsDeposit` |
| `TransactionProofs!TransactionsTyped`, `EndsAreSettled`, `RacesKeepEscrow` | the three properties of the run `Transactions` |
| `EvidenceProofs!ConflictsTyped`, `AcceptedIsKept`, `RecordedIsKept` | the three invariants of the run `Evidence` |
| `PiBayProofs!TypeCorrect`, `PresenceIsTracked`, `HolderIsKnown`, `PendingHasTimeout`, `OutputsFollow` | the five invariants of the run `PiBay` |
| `BayNodeProofs!TypeCorrect`, `PictureIsAsked`, `LampsAreHonest`, `RetriesNeverUpload` | the four invariants of the run `BayNode` |
| `BayNodeProofs!StatusIsBacked`, `PicturesAreKept` | `Spec => StatusIsConfirmed`, `Spec => PictureIsKept` |
| `ParkReserveProofs!ParkReserveTyped`, `MirrorIsTold`, `HolderIsNoGhost` | types; `Spec => []MirrorAgrees`; `Spec => []NoGhostHolder` |
| `ParkReserveProofs!BackendMeetsAnyPi`, `PiMeetsAnyBackend` | `Spec => B!Spec`, `Spec => Pi!Spec`: the composition implements `Backend` and `PiBay` |
| `HolderProofs!HolderIsAwaited` | `Spec => []HolderIsExpected` |
| `HolderProofs!ParkedHoldersAreSpared` | `Spec => ParkedHolderIsNoNoShow` |

Argument for the money. `PaymentProofs` shows what each writer does to the sums
`Returned` and `Captured` (`PayBackSettles`, `BreachSettles`, ...). `MoneyMoves`
in `BackendProofs` then classifies every step of `Backend`: it moves no payment,
books one reservation, ends one by paying back, or breaks one with a penalty.
The invariants, the finality of ends and the refinement follow from that
classification alone, so they need not look at the thirty actions again.
`DepositFollowsStatus` is inductive together with `TypeOK`; `OnePenaltyPerBreach`
also needs `DepositFollowsStatus`, because a second breach of a settled
reservation would charge what remains, which is nothing. The refinement uses
both: a settled escrow has nothing left to move.

`BackendProofs` does the same for who holds a bay: every step takes a bay, leaves
one, or lets all reservations carry on. `PointerNamesHolder` is inductive with
`TypeOK` because the index admits nobody to a bay that is awaited, and because a
reservation that leaves clears the pointer only if it is named by it.
`VictimKeepsDeposit` needs that `Breaks`, the only one of the four moves that
keeps money, is never about a victim: cancel and the sweeper look at the open
conflict or at the mirror first. `SweepIsNoReplay` is strengthened to `SweptIsPast`: once
an id of the sweep is recorded, its reservation is past being awaited, for good. That
needs `PointerNamesHolder`: the event is dispatched by bay, and only because a bay
names at most one awaited reservation does it hit the one that was swept.

Argument for the races. The `Invariant` of `TransactionProofs` adds to the types
what is still true of a thread's reads when it comes to write: whoever is about
to book holds the card's lock and finds the balance and the missing row as they
were read; every other transaction is about a reservation that exists; a row the
sweeper has locked has the status it was selected by; and every ledger is empty,
held or settled (`Booked`), settled if the reservation is over. Nothing more of
the status survives a race, and nothing more is needed: `HandlersSettle` says
that a handler which finds a settled ledger writes nothing to it, and
`HandlerFacts` that the handlers which end a reservation all pay it out.

Argument for the evidence. The `Invariant` of `EvidenceProofs` says of each event
(`Accounts`) that its row has a holder only once the event is recorded, and of
each transaction (`InOrder`) that the row it has found is still there, that its
event is not past its retention, and that an upload's file is on disk. The purge
touches old events only, so that it never meets a transaction in hand.

Each of the Pi's invariants is inductive once `TypeOK` is known; the proofs go
through the handlers one by one. `PendingIsTimed` depends on the two-step timers:
a timer that is cancelled late leaves its callback in `waiting`.

The node's status rests on `CountsTheStreak`: what a counter has counted is the
end of the history of readings, so that a full counter means a full streak. A
picture is asked for because `RequestIsOfVisit` is inductive with the types: a
departure takes the request back, hence an arrival never finds one. `NoPictureYet`
adds that a visit gets its picture only once. `RetriesNeverUpload` rests on
`DatesAreMisread`, which is arithmetic: the year that is read off a date of this
century is below 1000, and the up to 93 months that are read with it do not make up
for a thousand years.

Argument for the composition. What a step of the backend does to the statuses and
to the commands in hand is classified once (`Announces`, `MovesOn` and, for what it
does of its own accord, `Volunteers`), and so is what a step of the Pi says
(`PiSpeaks`) and what a taken command does to it (`Accepted`). The invariants below
look at these few cases instead of at the forty actions. All of them are about what
is still on its way, since none of the properties is inductive: they only speak of
the moments when nothing is.

* `BackendMeetsAnyPi` and `PiMeetsAnyBackend` are proved step by step: every action
  of `ParkReserve` is an action of `Backend`, or leaves its variables alone, and
  likewise for `PiBay`. So what is proved of `Backend` with arbitrary messages holds
  of the backend that hears the real Pi. `Typed` is needed to know that whatever
  arrives is a message of the protocol.
* `MirrorInv`, whatever is lost or restarted: unless a resync will follow, the last
  state report on its way is the truth; when none is on its way the mirror shows the
  truth, or a command is pending that will make the Pi report, or the Pi ignored a
  command for a reservation not over yet. A Pi in conflict takes a create command
  silently, so that case has a conjunct of its own.
* `GhostInv`, while all is well: at most one thread holds a command; a create command
  for a reservation that is over has a stop behind it on the link or in hand, and so
  has a Pi whose holder is over. It survives `CommandIsResent`, because two copies of
  the link in a row end with the same stop.
* `ExpectedInv`, while all is well, for each awaited `r`. `Follows(r)` is about the
  commands: the create of `r` comes after any resync and any create of another one on
  its way, and a stop lies between it and that create, or before it if the Pi still
  keeps another one. `Awaits(r)` is about the visit: as long as the Pi keeps the bay
  for `r`, the reports on their way and the tables show a pending check-in or a strong
  conflict of `r` (`PendsBy`, `StrongBy`); so that, when the Pi reports the bay
  available at last, the backend rolls back or restores and publishes another create.
  One that the Pi has heard of is therefore kept, told as checked in, about to be
  restored, or has its create pending (`Reached`).
* `ParkedHolderIsNoNoShow` needs all three, and the sensor (`Presence`): with nothing
  on its way the Pi that sees a vehicle of a holder it keeps is pending, checked in
  or in conflict; then the tables say pending or checked in, or the mirror says
  conflict, and the sweep selects none of these. `OnlyNoShowsCost` shows that no other
  step of `Backend` writes a no-show's penalty.

`MirrorInv`, `GhostInv` and `ExpectedInv` were first checked by TLC on the instance of
the run `ParkReserve` and, with three reservations, in simulation. The proof of
`ParkedHolderIsNoNoShow` uses that a vehicle stands in the bay and not whose it is;
the property names the holder's own because that is the case a driver would contest.

Model-checked only: the liveness properties `PendingEnds`, `QueueDrains` and
`NamedImageIsPurged`. Every invariant and action property that a run checks and that
holds is also a theorem. Liveness under fairness, `ENABLED` and facts that need an
induction over data are outside what the prover can do and stay with TLC. The five
properties that do not hold (section 3) are TLC's, too.

## 5. Not modelled, and the plan

Not modelled, because no state of theirs is read by anything else: wording,
formatting, authentication, wiring, seed data, notifications and the views of the
web client. Recognition itself is any plate. Several bays are independent of
each other but for cards and users, so runs have one; the theorems have any
number. The process of the backend is one; several would each have a sweeper,
and `skip_locked` for it.

Left to prove: an invariant of what `Plates` does keep, since the one its comment
promises does not hold. The prover cannot cite a theorem through `INSTANCE`, so the
few lemmas that `ParkReserve` shares with `Backend` and `PiBay` (`PresenceStep`) are
proved again there.
