# TLA+ models of gille-inference

gille-inference is a self-hosted inference gateway: one machine with one GPU serves
its owner and invited guests through llama-swap, meters what they use, runs coding
agents, and tunes its own routing table at night. This directory holds TLA+ models of
the parts of it in which ordering, crashes and concurrency decide correctness, the TLC
configurations that check them, and TLAPS proofs of what matters most.

Run from this directory:

    tlc -workers 4 -config MCAdmission.cfg MCAdmission
    tlapm MutationLockProofs.tla

`PROJECT.json` lists the runs, the source lines of every definition, the hazards, and
for every property a wrong variant of the code that TLC catches with it (the
definitions named `X_bug`, each placed just before `X`; no specification uses them).

## The system and how its parts interact

| Part | Source (`src/src/homeserver/`) | Module |
|---|---|---|
| Admission: slots, owner queue, background slot, maintenance, startup fence | `admission.ts`, metered path of `gateway.ts`, slot use of `shadow-lane.ts` | `Admission`, `AdmissionProofs` |
| Exclusive maintenance window | `maintenance-window.ts` | `MaintenanceWindow` (extends `Admission`), proofs with `Admission` |
| GPU lease between processes | `gpu-lease.ts` | `GpuLease`, `GpuLeaseProofs` |
| Credits, daily budget, one-minute ring | `keystore.ts`, `quota.ts`, `gateway.ts` | `Metering` |
| Asynchronous image jobs | `image-jobs.ts`, `gateway.ts` | `ImageJobs` (extends `Metering`) |
| Coding-agent runs: records, process lease, units, sweep | `code-loop.ts`, `code-loop-store.ts`, `code-loop-cage.ts` | `CodeLoop`, `CodeLoopInv`, `CodeLoopProofs`, `CodeLoopSolo` |
| Routing-table mutation lease | `mutation-lock.ts` | `MutationLock`, `MutationLockProofs` |
| Adoption, rollback, crash journal | `routing-lifecycle.ts`, `autonomy-controller.ts`, `src/scripts/routing-lifecycle-cli.ts` | `RoutingAdoption`, `RoutingAdoptionProofs` |
| Watch after adoption, reverts, quarantine | `adoption-watchdog.ts`, `routing-lifecycle.ts` | `AdoptionWatchdog` |
| Constitutional route changes: controller, watchdog, recovery service | `constitutional-*.ts` | `ConstitutionalRoute`, `ConstitutionalRouteProofs` |
| What a fenced lease promises | (abstract) | `FencedResource` |

A request is metered (`Metering`), admitted (`Admission`) and sent upstream. An image
job is metered at submission and later takes a slot through admission. A maintenance
window takes the GPU lease, raises the exclusive fence of admission and waits for it to
drain. Autonomy ticks, the watchdog and the manual command change the routing table
under the mutation lease; every adoption leaves a watch record, which the watchdog
judges later. Constitutional routing is a second, separately guarded way to change a
route: all its writes go through a recovery service.

Composed are `MaintenanceWindow` with `Admission` and `ImageJobs` with `Metering`;
`MutationLock` and `RoutingAdoption` both implement `FencedResource`. Where a module
sees another part only from outside it says so: the window sees the GPU lease as "mine,
free, somebody else's", the image worker sees admission as "granted or rejected, in the
end", and the watchdog uses the mutation lease as `MutationLock` shows it to be and sees
an adoption by what it writes: table, intent and record.

The parts without a module are listed at the end and, with reasons, in `PROJECT.json`.

## The modules

**MutationLock.** One SQLite row (token, time) and a counter. Every operation is one
IMMEDIATE transaction and so one step, but the clock is read before the transaction
waits for the writer lock: `Sample` and the operation that uses the reading are separate
steps. A process may crash (the row stays) or merely stall and come back as a zombie.

**FencedResource** is the abstract specification: tokens are minted one after another
and a write is made only under the newest.

**RoutingAdoption.** Two kinds of process: ticks (reconcile the journal, review, adopt
with journal) and manual commands (adopt without). Each action is the code between two
points where another process can interfere. State: the table on disk, what the gateway
loaded, lease, intent file, watch records. The intent is a plain file: the check of the
lease, or the read of the file, that a write of it relies on is a step of its own, so a
tick that stalls between the two writes late. History variables record the token of the
last write, whether the live table passed its canary and who wrote it (`trial`), what
each candidate replaced, and whether such a late write replaced another tick's pending
intent (`clobbered`).
Faults are crashes (also inside the fenced write, with the table on disk or not),
failed writes and failed reloads; a failed reload may or may not have reached the
gateway. Table contents are opaque; review proposes any content other than the baseline.

**AdoptionWatchdog.** A run of the watch loads all records (`Begin`), then takes them one
by one: acquire the lease, judge (`Watching`; the guard metrics are an input, so any
verdict may fall at any time), claim (`Claim`) or take over a stuck claim (`Recover`),
read the live table, decide between a whole restore, a restore of the axes that still
carry the bad route (`StillBad`, `Merged`), a deletion and nothing, mark the merge,
write, reload, confirm, finalize with quarantine. A table is a function from axes to the
number of the adoption that routed them, so a property can tell whose route it is; the
code compares model ids (`axisModelId`), and the two agree as long as no two adoptions
bring the same model to an axis. What a run loaded at its start stays in `seen` until it
is used, which is how stale markers come about. An adoption is what `RoutingAdoption` has
in detail, without the late writes of the journal: the write of the table (`Adopt`, by a
tick with an intent or by the command), the gateway's read-back, the canary, then the
record or the rollback, each under a lease that may be lost meanwhile; or its process
dies, and the next `Tick`, which is the autonomy timer, reconciles the intent: it
restores the snapshot, deletes a first table, records what had passed, or gives up.
Faults: a crash, a stall past the stale age, a failed read, write, reload or
confirmation, an unreadable candidate, the kill switch. The gateway's memory, the manual
`rollback` command and the tick's refusal to adopt while a revert is unresolved are left
out; without the last the model has more behaviours than the code.

**Admission.** JavaScript's event loop is part of the model: a macrotask (arrival,
timer, disconnect, settled call) runs only when no continuation is pending, so the
states `ready` and `granted`, in which one is, hold the macrotasks back. The cap that
`acquire` tests is the caller's snapshot, kept in `snapshot`; `drainQueue` uses the
controller's own count. Its loop is described by what it admits: `G` is the set of
positions it takes from the queue if each of them, and no other, found a slot and its
key below the cap after the earlier ones (`Admitted`); there is exactly one such set.
Both counts (gateway and controller) are in the model. The
maintenance deadline is absent, ahead or past, and expires lazily as in the code. The
requests are those of the metered HTTP path (`withMeteredAdmission`). MCP tool calls
(`mcp.ts:1011-1103`) take slots from the same controller but add to the gateway's count
only after a further await, so the last conjunct of `SlotAccounting`, which relates the
two counts, does not describe them.

**MaintenanceWindow.** `open()` is split at its awaits, `closeInternal` into the step
that forgets the window and the step after the release of the lease. The operator's
toggle is split too: it asks whether a window is busy (`OperatorAsks`), awaits the body
of its request, and then makes the setting (`OperatorOn`, `OperatorOff`) without asking
again. Another process may take, give up or reclaim the GPU lease at any time
(`LeaseElsewhere`). The fence is raised for `ttlMs + drainTimeoutMs`, while `open()` may
wait for `drainTimeoutMs` twice, so its deadline may pass during the second wait
(`FenceExpires`). `author` records who made the maintenance setting, and `intact`
whether anything from outside has touched the fence since the window raised it.

**GpuLease.** One action per file-system call: ticket, `mkdir`, owner marker through a
temp file and a rename, heartbeat, reclaim (judge, unlink, rmdir), cleanup. Staleness is
abstract: a heartbeat goes stale only when nobody refreshes it. Faults are crashes at any
call, also between the temp file and its rename, and stalls past the stale age.
`readTickets` and the removal of stale tickets are one step, and one process's heartbeats
do not overlap.

**Metering** has the three ledgers and their operations (reserve, settle, adjust), a
midnight, and the life of a live request. **ImageJobs** adds the durable rows, result
files, queue, worker pump, cancel, stop, sweep, crash and restart. Everything between two
awaits is one step, but each SQLite statement and file operation is durable by itself, so
a handler that makes several takes a parameter (`upto`, `ops`), the number of them it
completed. If that is not all, either the process died there or the next one threw and
the code's error handling has run; `cut` then names the job or request whose operation is
missing, and the properties excuse that one only. The estimate and the units of a request
are numbers; how tokens become billable units (`billableTokens`) is not modelled.

**CodeLoop.** The shared state is the client records (absent, torn or written), their
work-id copies, the row of the process lease, the transient units (which outlive their
gateway) and the sandboxes. Each gateway has a start-and-run machine `st`, a sweep
machine `sw` and a write under way `wr`. A stretch of code without an await excludes the
gateway's own other handlers (`Free`), but not another gateway: each access to shared
state is a step. During a rolling restart (`Rolling`) two gateways overlap. Faults are
crashes at any point, failed writes and lease releases, and failed stops of a unit. A
restart may bring a build that does not accept an older build's result (`Outdated`), which
a retry or a poll then strips from the record for good (`FailClosed`). What is renamed
into place is taken to be on disk: the model crashes processes, not machines, so the
calls of `fsync` around a claim are no steps of their own.

**ConstitutionalRoute.** Controller (`begin`, `commit`), watchdog (`tick`) and recovery
service, over two databases with a fenced lease each. The journal is its last phase. A
client's request to the service is three steps (`Ask`, the service's handler, `Reply`),
a client may give up while its request is still served (`GiveUp`), and handlers that
write twice are split. Whether a protected gate (authority, liveness, digest, proof)
passes is free at every evaluation. Faults are crashes of any process, lapsed leases,
reboots and abandoned requests. A `saveAndValidate` that throws at the commit receipt
(`constitutional-routing-controller.ts:808`) ends the run without a further write, before
or after the receipt is on disk: both are what a crash there does.

## What the runs check

| Run | Properties | Result | Distinct states |
|---|---|---|---|
| `mutation_lock` | `OneCurrentHolder`, `FreshLeaseNeverReclaimed`, `WritesAreFenced` (refinement) | hold | 26,548 |
| `adoption` | `UnconfirmedIsJournalled`, `FinalizedIsWatchedOnce`, `TableWritesAreFenced` (refinement), `RecordsAreTrue` | hold | 5.2 million |
| `watchdog` | `ClosedIsUndone`, `BreachesAreQuarantined`, `RevertsOwnRoutes` | hold | 3.4 million |
| `watchdog_live` | `RevertsEnd` | holds | 1.9 million |
| `watchdog_first` | `DeletesOwnTable` | **violated** | |
| `admission` | `SlotAccounting`, `BackgroundAlone`, `WorkConserving`, `NoOvertaking`, `ExclusiveFence` | hold | 12,222 |
| `window` | `WindowIsExclusive`, `WindowEnds`, `EveryRequestSettles` | hold | 74,576 |
| `gpu_lease` | `OneUser`, `NoGhost`, `ConcurrencyEnds`, `EveryWaiterServed` | hold | 17,247 |
| `images` | `CreditsBalance`, `DailyBalance`, `RingReconciled`, `ResultsReferenced`, `QueueMatchesRows`, `JobsEnd` | hold | 1.0 million |
| `code_loop` | `SingleFlight`, `ExecutedIsBound`, `NoForgottenUnit` | hold | 3.3 million |
| `code_loop_restart` | `OneUnit`, `TerminalIsFinal`, `RunSettles` | hold | 1.1 million |
| `constitution` | `CandidateIsBounded`, `ReceiptsAreTrue`, `FailClosed`, `AttemptResolves`, `CommittedIsServed` | hold | 178,553 |

### Bounds, and why they are enough

- `mutation_lock`: three processes, so that a zombie, its successor and a third taker
  coexist; three tokens and times 0 to 4 with a stale age of 1, so that two reclaims fit.
- `adoption`: two ticks and one command, three table contents (baseline, candidate and
  a third one for a second axis or an interloper), four leases, two intents, one fault.
  A table may exist to begin with or not.
- `watchdog`: two adoptions over two axes, so that they may touch the same, different or
  both axes, and the second may still be on trial, fail or be reconciled while a run
  judges the first; two overlapping runs and one fault. Records with and without the
  candidate's bytes (`Kept`) are both there, and the first adoption may be the first
  ever. Tokens are reused once nothing refers to them, so the number of runs is not
  bounded. `watchdog_live` has one runner and two faults, for instance a crash and then
  a failed reload in the recovery.
- `admission`: three requests of a key with cap 2, one owner of another key and a guest,
  three slots: the queue, the cap and the budget each bind on their own. Requests come
  again, so runs are of unbounded length.
- `window`: two windows, so that a late restore meets a second window, with two requests
  on one slot and one operator request under way at a time.
- `gpu_lease`: two processes with one crash and one stall.
- `images`: a guest's job and a live request share a capped key, an owner's job has an
  uncapped one, two days, and one durable operation that fails or that a crash prevents,
  after which no live request and no new day begins; crashes at awaits are not bounded.
  The credit limit leaves room for one job and a live request and not
  for more. A second owner's job (`Extra`) appears only in behaviours without live
  request, midnight and inner crash: it is what lets an owner's job be queued behind a
  guest's that is paused. Maintenance is off or in guest scope; the exclusive scope
  differs for jobs only in that owners' submissions are refused too.
- `code_loop`: two overlapping gateways, one client whose run has a total time limit
  (the variant that releases its lease early), two work ids, one crash. `code_loop_restart`:
  one gateway at a time, two clients (one with the limit), two work ids, one crash, one
  failed write or lease release, one failed stop. In both the first work id is one whose
  result the build after a restart does not accept, and the second is not.
- `constitution`: two controller runs (a begin and a commit, or two begins), any number of
  ticks, one fault. With eight tokens a taker always finds one that nobody knows.

Deadlock is checked except in `RoutingAdoption` and `GpuLease`, whose processes or
tokens are used up in the end.

### Fairness

- `GpuLease`: a process that is not stalled makes progress and its heartbeat fires; a
  stall is finite; an unrefreshed heartbeat goes stale. Nothing forces a holder to
  release; `EveryWaiterServed` assumes that jobs end, in its own hypothesis. The strong
  fairness of `Look` at the head of the line, of the heartbeat's check and of the ageing
  says that polling and time go on while other processes briefly disable them.
  `ConcurrencyEnds` has the hypothesis that marker writes are not always under way, since
  a write lasts milliseconds and heartbeats are seconds apart.
- `MaintenanceWindow`: continuations run; upstream calls, queue waits, background work,
  the waits of `open()` and the window itself all have timers in the code; strong fairness
  stands for a timer that is due while other macrotasks (or pending continuations)
  interleave with it. Clients, the operator and other processes are not fair.
- `ImageJobs`: the worker's timers fire, an acquire is answered (admission bounds the
  wait), a stopped or crashed gateway is restarted by its supervisor. Nothing is assumed
  of the sidecar, clients, maintenance or crashes.
- `CodeLoop`: a gateway's promises settle (engine, checks and commands have time limits)
  and its sweep timer fires, also when other handlers of the same thread come first,
  hence strong fairness; a dead gateway is restarted by the service manager; retention
  time passes.
- `AdoptionWatchdog`: the watch's timer and the autonomy timer fire, a run goes on, an
  adoption on trial is recorded, rolled back or dies, an unrenewed lease gets old. That the kill switch is lifted is not assumed; it is the
  exception that `RevertsEnd` names.
- `ConstitutionalRoute`: processes and the service go on, leases expire, time passes, the
  watchdog's timer fires. Two strong-fairness conditions say that a tick which finds the
  recovery input or the prepared authority unreadable does not do so every time: a file
  that stays unreadable blocks the route for ever, by design.

## Where the code and its own words disagree

`watchdog_first`: when a record has no snapshot (the first-ever adoption), its revert
deletes the table before anything is read (`adoption-watchdog.ts:1803`). If a second,
healthy adoption came since, its routes go too. The comment at 1729-1732 says that the
live table is classified before any action and that newer work is never rolled back. The
trace has thirteen states and needs no fault.

Six more configurations end in a counterexample when run by hand; they are kept here
with their traces' meaning, and are not in the table above.

- `MCAdmissionCapShadow.cfg` (`PerKeyCap`, with `MCAdmission`): several requests of one
  key that arrive while background work is being aborted keep the in-flight count of
  their arrival across the await (`admission.ts:250`) and are all admitted, past the
  key's cap.
- `MCRoutingAdoptionFirst.cfg` (`FirstIsJournalled`, with `MCRoutingAdoption`): if
  no table existed before, the rollback after a failed canary writes nothing, reports
  success (`routing-lifecycle.ts:668`), and the intent is closed with the uncanaried
  table live. The reconcile path deletes the table instead. `UnconfirmedIsJournalled`
  is therefore about candidates that replaced a table.
- `MCRoutingAdoptionSlot.cfg` (`JournalIsSingleSlot`, with `MCRoutingAdoption`): the
  comment of `saveAdoptionIntent` (`autonomy-controller.ts:544-545`) calls "at most one
  adoption intent in flight at a time" a hard invariant. The function reads the journal
  and then writes it, without a lock: a tick that stalls in between until the lease was
  taken from it, and another tick had journalled its own intent, overwrites that one
  (16 states, no other fault). `UnconfirmedIsJournalled` excepts what follows then.
- `MCGpuLeaseCrash.cfg` (`OneUserAfterCrash`, with `MCGpuLease`): after a crash, a slow
  reclaimer that judged the dead holder's lock removes the directory that a faster one
  has made meanwhile; a third process's `mkdir` then succeeds too (`gpu-lease.ts:244`).
  The heartbeat ends the double use (`ConcurrencyEnds`).
- `MCGpuLeaseTorn.cfg` (`DeadNeverHold`, with `MCGpuLease`): a crash between the
  marker's temp file and its rename leaves a file inside `.holder`; every later `rmdir`
  fails and no waiter is ever served (`gpu-lease.ts:251`), although "a dead session never
  holds the GPU forever" (22-24). `EveryWaiterServed` excepts this case only (`Debris`).
- `MCImageJobsStray.cfg` (`OnlyReferenced`, with `MCImageJobs`): a crash, or a failed
  statement, between the result file and the row that refers to it leaves bytes that no
  row names and that the sweep does not find, although they are to be "TTL-deleted,
  referenced only by the job's result_path" (`image-jobs.ts:25-27`). `ResultsReferenced`
  excepts the bytes of that job.

Behaviours met while modelling about which the code makes no promise, or which no run
isolates:

- *Watchdog: dead claimers.* `isLeaseCurrent` (`mutation-lock.ts:132`) does not look at
  the lease's age, so the claim of a process that died mid-revert counts as in flight
  until somebody else takes the lease. The autonomy timer does; with the watch command
  alone (`Ticks = FALSE`) `RevertsEnd` fails, although the comment at
  `adoption-watchdog.ts:364` says that a later run recovers the record.
- *Watchdog: the gateway's memory.* `ClosedIsUndone` is about the file; what the gateway
  has loaded is not in this module. A breach can be closed while the gateway still serves
  the bad route: the record's marker is loaded before the claim, whose compare-and-swap
  looks only at the token (`adoption-watchdog.ts:1194`, `1886`), so of two overlapping
  runs the second may find the merge done by the first, whose reload failed, and close
  the record without one; and a crash after a write, or a failed reload after a first
  adoption's deletion, leave the same gap.
- *Watchdog: known-good.* Undoing a later adoption restores what it replaced, also where
  that was an earlier adoption's route that has itself been closed as a breach in the
  meantime. This may be the revert of the later adoption, its rollback after a failed
  canary (a run of the watch that stalled has seen the candidate on trial, and closes the
  breach as superseded once it is back), or the reconciliation of an adoption whose
  process died. `ClosedIsUndone` excepts these three and nothing else.
- *Watchdog: old records.* A record without the candidate's bytes is closed as superseded
  without looking at single axes, which the code documents.
- *Code loop.* The check for units that await cleanup comes before the lease is taken
  (`code-loop.ts:1240`), so with two overlapping gateways, two clients and a crash in
  between two units can run; `OneUnit` is therefore checked for one gateway at a time, and
  of a rolling restart only that the lease, the bindings and the owed cleanups stay right.
  So is `TerminalIsFinal`: with two gateways one's sweep reads a running record, awaits the
  stop of the unit, and writes its old reading over the result that the other has
  published meanwhile (`code-loop.ts:2447`). With overlapping gateways and a failed write,
  `ExecutedIsBound` fails too (22 states): a claim that is backed out deletes a record
  that the other gateway's sweep has read. A failed write of the terminal record blocks new starts until the
  record is evicted or the gateway restarts, and so do two such faults in a row, hence
  `MaxFault = 1`. A torn client record makes its id unusable.
- *Constitutional routing.* A crash between the disarm receipt and the removal of the
  marker keeps the route blocked (by design), and so does a crash after the prepare
  receipt before the recovery material is saved. `AttemptResolves` excepts the latter.
- Three things can take the fence of a window down that is or will be handed out, and
  `WindowIsExclusive` excepts them (`intact`). An operator's toggle that passed the busy
  check before the window was opened makes its setting when its body arrives, also while
  the window "controls admission until it is restored" (`gateway.ts:6465`). The fence's
  deadline may pass while `open()` waits for stable residency, if `ttlMs` is short against
  `drainTimeoutMs` (`maintenance-window.ts:132`); the fence is renewed at the hand-out,
  but a request may be in flight by then. And `closeInternal` forgets the window before it
  awaits the release of the lease (`maintenance-window.ts:184`): if another process
  reclaims the lease from a gateway that stalls there, and gives it up again, a second
  window is opened before the first one's late restore, which drops the second one's
  fence. An operator's setting made while a window closes is wiped by the late restore in
  any case.
- The manual adopt command has no journal, and reads the snapshot for the watchdog
  before it holds the lease. `UnconfirmedIsJournalled` and the second half of
  `RecordsAreTrue` are therefore about ticks only.
- After a stall, GPU-lease cleanup removes the lock on the strength of `holding` alone,
  even if it is another process's by then.
- A guest's image job that the worker took before maintenance was engaged, and that is
  still waiting for its slot, is sent to the sidecar during the window
  (`image-jobs.ts:468`): the wait is in the owner lane and eligibility is not tested again.
- Where the `UPDATE` that ends a job is not followed by its refund, because the process
  died in between or the refund failed, a capped key stays overcharged and an uncapped
  one uncharged, because recovery looks at open rows only. The ledgers' properties are
  exact for every other job and every other key, and bound the error by that job's
  estimate. A live request lost in a crash keeps its reservation. After `stopWorker` a
  cancel refunds from the row, without the ring's event.

## What is proved

TLAPS checks these for every number of processes and every value of the constants that
satisfies the named assumptions.

**MutationLockProofs** (assumptions: the stale age and the bounds are naturals).
`TypeCorrect`, `Exclusive` (`OneCurrentHolder`), `FreshSafe`
(`FreshLeaseNeverReclaimed`), `ReleaseSafe` (`ReleaseSparesNewer`) and `Refinement`
(`WritesAreFenced`: the lease implements `FencedResource`).
`OneCurrentHolder` is not inductive: a state in which two handles carry one token while
the row carries another satisfies it and need not stay so. The inductive invariant
`IInv` adds that the row carries the newest token, that no handle is newer than the
counter, that live handles are pairwise distinct, and that a pending clock reading lies
in the past. The last one gives `FreshSafe`: a taker that finds the row too old by an old
reading finds it too old by the present one. For the refinement, the row's token is the
newest, so a write that passes the token check is abstract `Write`, and `Acquire` is the
only step that mints.

**GpuLeaseProofs** (assumption: the marker's "nobody" is no process, the bounds are
naturals). `TypeCorrect` with any faults, and `Exclusive` (`OneUser`) and `Clean`
(`NoGhost`) for runs without crash or stall. The inductive invariant says that the lock
directory exists exactly while one process is between its winning `mkdir` and the
`rmdir` of its cleanup, that marker and temp files in it are that process's, and that no
waiter is taking the lock down; it has one lemma per group of actions (acquire,
heartbeat, cleanup, faults). That it is restricted to calm runs is no weakness of the
proof: `MCGpuLeaseCrash.cfg` shows that exclusion fails after a crash.

**ConstitutionalRouteProofs** (assumption: "no token" is
not a token, the bounds are naturals), for any number of runs, ticks and faults:
`Bounded` (`CandidateIsBounded`), `Truthful` (`ReceiptsAreTrue`), `Closed` (`FailClosed`)
and `Ordered` (the journal's receipts come in the order of the protocol, whoever writes
them). None is inductive: what the journal says, what the live value is and whether the
guard is up are in two databases, written by three processes. The invariant connects them
through what each process knows at each of its points *as long as its state lease is
current* (`CtlKnows`, `DogKnows`), what a request means that is still served although its
client has gone (`RouteInv`: a late apply finds no revert receipt, a late restore no
attempt that could still commit), and, for the guard, that a watchdog past its block
either has the block or has lost a route lease that it never gets back. There are lemmas
for the controller, the watchdog, the service and the faults, then the theorems.

**RoutingAdoptionProofs** (assumptions: "no table" is not a table, ticks and commands are
different processes, the bounds are naturals), for any number of ticks, commands, leases,
intents and faults: `TypeCorrect`, `WatchedOnce` (`FinalizedIsWatchedOnce`), `Undoable`
(`UnconfirmedIsJournalled`), `TrueRecords` (`RecordsAreTrue`) and `Refinement`
(`TableWritesAreFenced`). The properties are about the intent file, the table and the
records, but any process may hold an old copy of the intent and write it back. So the
invariant `IInv` says what is on disk (`Shape`, `Shared`: the row has the newest token, a
finalized intent is watched once), where each process can be and what its copies say
there (`Place`, `Mine`), that copies of one intent agree and that no two processes have
one token or carry out one intent (`Apart`), and what the process whose lease is current
knows of table, records and intent (`Knows`). `Undoable` needs `JInv` in addition, which
holds as long as no pending intent was overwritten: a tick that is about to write its
candidate finds its intent in the journal (`Ready`), no other process has seen that
intent confirmed or is about to write it (`Spares`), and while an uncanaried candidate is
live its intent is pending and nobody is about to close it (`Covered`, `Undoing`). For the
refinement the lease row has the newest token, as in `MutationLock`.

**CodeLoopInv** has the invariants of the code loop, **CodeLoopProofs** the proofs for
gateways that may overlap, **CodeLoopSolo** those for one gateway at a time (assumptions:
the bounds are naturals, "no record" and "torn" are no records), for any number of
gateways, clients, work ids, crashes and failed stops:

- `OneGatewayPastTheLease` (`SingleFlight`), without a further hypothesis. `LInv` says
  that the lease row is that of the gateway and incarnation that is past it.
- `ExecutedStaysBound` (`ExecutedIsBound`) and `UnitsAreWaitedFor` (`NoForgottenUnit`), if
  no write fails or gateways do not overlap (`MaxFault = 0 \/ ~Rolling`); the section
  above says why the hypothesis is needed. A sweep acts on copies of records that may be
  old. `IInv` says that every copy, in a sweep's list, in its hands or in a write under
  way, names a run that its client id is still bound to, that it owes cleanup unless
  that run has no unit and will start none, and where the start machine and the sweep of
  one gateway can be together.
- `OneUnitAtATime` (`OneUnit`) and `OutcomesStay` (`TerminalIsFinal`), if gateways do not
  overlap (`~Rolling`). `SInv` says what the single thread guarantees: what a sweep will
  write back loses no outcome, since a record it read as running is not one that this
  gateway is still to publish (`Duties`, `Writes`); while a run is under way nobody
  else's cleanup is owed, and before its unit starts no unit runs (`Owes`).

**AdmissionProofs** (assumptions: every request has a key and a
lane, caps are naturals, there is at least one slot, the requests are finitely many), for
any requests, keys, caps and budgets: `Accounted` (`SlotAccounting`), `Exclusive`
(`BackgroundAlone`), `Conserving` (`WorkConserving`), `TypeCorrect`, and the action
properties `Fair` (`NoOvertaking`) and `Fenced` (`ExclusiveFence`). The first half of
the module is about the queue: `Without` leaves the other waiters in their order
(`Splices`, from a lemma on ranks in finite sets of numbers), and a drain grants as many
slots in total and per key as it counts, and never more than there are. The invariant
`AInv` says that the queue is a bijection with the waiting requests, that the counts are
cardinalities of sets of requests (the controller's of those with a slot, the
gateway's of those that run), and that background work excludes holders and
waiters. `WorkConserving` is inductive with these: after a drain it holds because of what
a drain admits, and a step without a drain frees no slot.

For the composition with the window, `WindowAccounted` says that the accounts and the
exclusion of background work survive every step of a window, and `WindowExclusive` is
`WindowIsExclusive`, for any number of windows and operator requests and a lease that is
reclaimed at any time. Its invariant `WInv` adds to `AInv` that closing windows are
earlier ones, that a window which has raised its fence does not share its lease with a
closing one (so the release of a window that kept its lease comes before the next window
has it), that an intact fence is up from the winning of the lease, and that once drained
the controller stays idle behind it. `WInv` was checked with TLC on the instance of the
`window` run before it was proved.

Only model-checked: all liveness properties (fairness is out of the prover's reach), and
the safety properties of `AdoptionWatchdog`, `Metering` and `ImageJobs`. The ledgers of
`ImageJobs` are sums over sets of jobs, whose laws need induction over data; the watchdog
is within reach and not done.

## What is not modelled

The reasons are in `PROJECT.json` under each component. In short: content (validation,
prompts, grading, statistics, table generation), observation and logging, batch programs
(benchmarks, evaluation, qualification), and single-statement stores; together they are
most of the repository. Left out of parts that are otherwise modelled: the key store's
minting, rotation and invites; the tick's tier ladder; the watchdog's metrics, dry runs
and the expiry of its quarantine; the code loop's request fingerprint, its use of the GPU
lease and the content of its sandbox; the cryptography of constitutional receipts. In
`MaintenanceWindow` the residency poll is one step that succeeds or fails.

Two small parts have hazards of the same kind and no module yet: poison clear (a trailing unload whose
cooldown stamp an earlier one removes, `poison-clear.ts:137`) and host memory admission
(two requests admitted on one reading of free memory, `host-memory-admission.ts:395`).
The accounting journal, the retention prune gate and the learning-task stores have crash
points of their own and would come next.
