------------------------------ MODULE CodeLoop ------------------------------
(***************************************************************************)
(* The life of a code_loop run: startCodeLoop, runJob and the sweep of     *)
(* code-loop.ts over the durable records and the process lease of          *)
(* code-loop-store.ts.  A run is bound to its caller's client_run_id by a  *)
(* record file, executed by a transient service unit that outlives the     *)
(* gateway, and cleaned up after a crash by any gateway's sweep.  During a *)
(* rolling restart two gateways share the files, the lease and the units.  *)
(*                                                                         *)
(* A gateway is one JavaScript thread: between two awaits its code runs    *)
(* without its own other handlers (Free), but not without the steps of     *)
(* another gateway, so each access to shared state is an action of its     *)
(* own.  The work-id copy of a record is only ever read for the client id  *)
(* in it, so the model keeps whether it can be read.  The request's        *)
(* fingerprint, the suppressed-content and learning-task variants, the GPU *)
(* lease and the trusted Git directories are left out.                     *)
(*                                                                         *)
(* Definitions named X_bug are wrong variants of X that no specification   *)
(* uses.                                                                   *)
(***************************************************************************)
EXTENDS Integers, FiniteSets

CONSTANTS
    Gateways,      \* gateway processes that share one workroot
    Clients,       \* client_run_ids
    WholeJob,      \* those whose request sets caps.total_wall_s
    Outdated,      \* work ids whose result a later build of the gateway does not accept
    MaxStarts,     \* bound of the model: work ids minted
    MaxCrash,      \* bound of the model: gateway crashes
    MaxFault,      \* bound of the model: failed writes and lease releases
    MaxStopFault,  \* bound of the model: failed stops in sweeps
    Rolling,       \* TRUE: a gateway may boot while another is alive
    None,          \* no file, no row, no record
    Torn           \* a file created but not yet, or never, written

WorkIds == 1..MaxStarts
Ok == "ok"
Status == {"running", "terminal", "orphaned"}
Record == [c : Clients, w : WorkIds, status : Status, result : BOOLEAN, pending : BOOLEAN]
Row == [g : Gateways, i : 0..MaxCrash, w : WorkIds]
Write == [to : {"client", "copy"}, rec : Record]

ASSUME CodeLoopAssumption ==
    /\ WholeJob \subseteq Clients /\ Outdated \subseteq WorkIds
    /\ MaxStarts \in Nat /\ MaxCrash \in Nat /\ MaxFault \in Nat /\ MaxStopFault \in Nat
    /\ Rolling \in BOOLEAN
    /\ None # Torn /\ None \notin Record \cup Row \cup Write /\ Torn \notin Record

VARIABLES
    alive,         \* which gateways run
    inc,           \* incarnation of each: its boot and process-start identity
    client,        \* client-<id>.json: None, Torn or a record
    copy,          \* work-<id>.json: None, Torn or Ok
    lease,         \* the row of active_run_lease, or None
    units,         \* transient units that run
    sandboxes,     \* sandbox directories
    old,           \* work ids past the retention time
    minted,        \* work ids given out
    st,            \* each gateway's start and run; runningWorkId is st.w
    sw,            \* each gateway's sweep
    jobs,          \* each gateway's in-memory job table
    wr,            \* the record a gateway is persisting
    ran,           \* history: work ids whose unit was ever started
    crashes,       \* crashes so far
    faults         \* injected failures so far

store == <<client, copy>>
budget == <<crashes, faults>>
vars == <<alive, inc, store, lease, units, sandboxes, old, minted, st, sw, jobs, wr, ran, budget>>

StartLabel == {"idle", "read", "lease", "admit", "fill", "index", "run", "engine", "harvest",
               "check", "final", "publish", "settle", "backout", "held"}
SweepLabel == {"idle", "hold", "release", "list", "pending", "stop", "releaseNext", "again",
               "compact", "dirs", "dir", "dirStop", "orphan", "orphanStop", "mark", "reclaim",
               "unowned", "unownedLive"}

\* Labels inside a stretch of code that no other callback of the process
\* interrupts.  The await between the early release of a whole-job run and its
\* publication resumes in the same turn of the event loop.
StartSync == {"lease", "fill", "index", "publish"}
SweepSync == {"list", "pending", "compact", "dirs", "dir", "orphan", "mark", "reclaim",
              "unowned", "unownedLive"}

Idle == [pc |-> "idle", c |-> None, w |-> 0, pend |-> FALSE, freed |-> FALSE, absent |-> FALSE]
Asleep == [pc |-> "idle", todo |-> {}, rec |-> None, seen |-> {}]

\* The type invariant.
TypeOK ==
    /\ alive \in [Gateways -> BOOLEAN] /\ inc \in [Gateways -> 0..MaxCrash]
    /\ \A c \in Clients : client[c] \in {None, Torn} \/ (client[c] \in Record /\ client[c].c = c)
    /\ copy \in [WorkIds -> {None, Torn, Ok}]
    /\ lease = None \/ lease \in Row
    /\ units \subseteq WorkIds /\ sandboxes \subseteq WorkIds /\ old \subseteq WorkIds
    /\ minted \in 0..MaxStarts /\ ran \subseteq WorkIds
    /\ \A g \in Gateways :
          /\ st[g].pc \in StartLabel /\ st[g].w \in 0..MaxStarts
          /\ sw[g].pc \in SweepLabel /\ sw[g].seen \subseteq WorkIds
          /\ sw[g].rec = None \/ sw[g].rec \in Record
          /\ jobs[g] \in [WorkIds -> {"none", "running", "terminal"}]
          /\ wr[g] = None \/ wr[g] \in Write
    /\ crashes \in 0..MaxCrash /\ faults \in [disk : 0..MaxFault, stop : 0..MaxStopFault]

Init ==
    /\ alive = [g \in Gateways |-> FALSE] /\ inc = [g \in Gateways |-> 0]
    /\ client = [c \in Clients |-> None] /\ copy = [w \in WorkIds |-> None]
    /\ lease = None /\ units = {} /\ sandboxes = {} /\ old = {} /\ minted = 0
    /\ st = [g \in Gateways |-> Idle] /\ sw = [g \in Gateways |-> Asleep]
    /\ jobs = [g \in Gateways |-> [w \in WorkIds |-> "none"]]
    /\ wr = [g \in Gateways |-> None]
    /\ ran = {} /\ crashes = 0 /\ faults = [disk |-> 0, stop |-> 0]

-----------------------------------------------------------------------------

IsRecord(x) == x \notin {None, Torn}
Running(x) == IsRecord(x) /\ x.status = "running"
Pending(x) == IsRecord(x) /\ x.pending

\* Gateway g is between two stretches of code: any of its handlers may resume.
Free(g) ==
    /\ alive[g] /\ wr[g] = None
    /\ st[g].pc \notin StartSync /\ sw[g].pc \notin SweepSync

StAt(g, l) == st[g].pc = l /\ alive[g] /\ wr[g] = None /\ (l \in StartSync \/ Free(g))
SwAt(g, l) == sw[g].pc = l /\ alive[g] /\ wr[g] = None /\ (l \in SweepSync \/ Free(g))
StGoto(g, l) == st' = [st EXCEPT ![g].pc = l]
SwGoto(g, l) == sw' = [sw EXCEPT ![g].pc = l]

\* readDurableCodeLoopRunByWork: through the copy to the authoritative record.
ByWork(w) ==
    IF copy[w] = Ok /\ \E c \in Clients : IsRecord(client[c]) /\ client[c].w = w
    THEN client[CHOOSE c \in Clients : IsRecord(client[c]) /\ client[c].w = w]
    ELSE None

\* Wrong: the PID is taken for an identity.
OwnerAlive_bug == alive[lease.g]

\* ownerLiveness: the process that wrote the row still exists.
OwnerAlive == alive[lease.g] /\ inc[lease.g] = lease.i

\* isDurableCodeLoopWorkLive
Live(w) == lease # None /\ lease.w = w /\ OwnerAlive

\* DurableCodeLoopLease.release: deletes only the caller's own row.
Released(g) == IF lease = [g |-> g, i |-> inc[g], w |-> st[g].w] THEN None ELSE lease

\* A write to the disk or the lease database fails; a sweep fails to prove
\* a unit absent.
Fault == faults.disk < MaxFault /\ faults' = [faults EXCEPT !.disk = @ + 1]
StopFault == faults.stop < MaxStopFault /\ faults' = [faults EXCEPT !.stop = @ + 1]
NoFault == UNCHANGED faults

-----------------------------------------------------------------------------
(* persistDurableCodeLoopRun                                               *)

Persist(g, rec) == wr' = [wr EXCEPT ![g] = [to |-> "client", rec |-> rec]]

\* The authoritative record is replaced, whatever it has become meanwhile.
ReplaceClient(g) ==
    /\ alive[g] /\ wr[g] # None /\ wr[g].to = "client"
    /\ client' = [client EXCEPT ![wr[g].rec.c] = wr[g].rec]
    /\ wr' = [wr EXCEPT ![g].to = "copy"]
    /\ UNCHANGED <<alive, inc, copy, lease, units, sandboxes, old, minted, st, sw, jobs, ran, budget>>

\* Then the work-id copy is replaced or created.
ReplaceCopy(g) ==
    /\ alive[g] /\ wr[g] # None /\ wr[g].to = "copy"
    /\ copy' = [copy EXCEPT ![wr[g].rec.w] = Ok]
    /\ wr' = [wr EXCEPT ![g] = None]
    /\ UNCHANGED <<alive, inc, client, lease, units, sandboxes, old, minted, st, sw, jobs, ran, budget>>

-----------------------------------------------------------------------------
(* startCodeLoop                                                           *)

\* Wrong: an orphaned run no longer owes cleanup.
Retry_bug(g, c) ==
    /\ Free(g)
    /\ Running(client[c]) /\ ~Live(client[c].w) /\ ByWork(client[c].w) # None
    /\ Persist(g, [client[c] EXCEPT !.status = "orphaned", !.result = FALSE, !.pending = FALSE])
    /\ UNCHANGED <<alive, inc, store, lease, units, sandboxes, old, minted, st, sw, jobs, ran, budget>>

\* A retry of a bound id returns its record; a running one without a live
\* owner is marked orphaned first.  It is answered before the busy gate.
Retry(g, c) ==
    /\ Free(g)
    /\ Running(client[c]) /\ ~Live(client[c].w) /\ ByWork(client[c].w) # None
    /\ Persist(g, [client[c] EXCEPT !.status = "orphaned", !.result = FALSE])
    /\ UNCHANGED <<alive, inc, store, lease, units, sandboxes, old, minted, st, sw, jobs, ran, budget>>

\* failClosedIncompatibleResult, when a retry or a poll meets a result that another
\* build made: the result is stripped for good.  A result in this process's own job
\* table is of its own build.
FailClosed(g, c) ==
    /\ Free(g)
    /\ IsRecord(client[c]) /\ client[c].result /\ ByWork(client[c].w) # None
    /\ client[c].w \in Outdated /\ jobs[g][client[c].w] = "none"
    /\ Persist(g, [client[c] EXCEPT !.result = FALSE])
    /\ UNCHANGED <<alive, inc, store, lease, units, sandboxes, old, minted, st, sw, jobs, ran, budget>>

\* No readable record: go on to the transport probe.
Start(g, c) ==
    /\ StAt(g, "idle") /\ minted < MaxStarts /\ ~IsRecord(client[c])
    /\ st' = [st EXCEPT ![g] = [Idle EXCEPT !.pc = "read", !.c = c]]
    /\ UNCHANGED <<alive, inc, store, lease, units, sandboxes, old, minted, sw, jobs, wr, ran, budget>>

\* After it: no run here, and no record that awaits cleanup.
Admit(g) ==
    /\ StAt(g, "read")
    /\ IF \A c \in Clients : ~Pending(client[c])
       THEN /\ minted < MaxStarts
            /\ minted' = minted + 1
            /\ st' = [st EXCEPT ![g].pc = "lease", ![g].w = minted + 1]
       ELSE /\ st' = [st EXCEPT ![g] = Idle]
            /\ UNCHANGED minted
    /\ UNCHANGED <<alive, inc, store, lease, units, sandboxes, old, sw, jobs, wr, ran, budget>>

\* Wrong: takes the lease over from a live owner.
Acquire_bug(g) ==
    /\ StAt(g, "lease")
    /\ lease' = [g |-> g, i |-> inc[g], w |-> st[g].w]
    /\ StGoto(g, "admit")
    /\ UNCHANGED <<alive, inc, store, units, sandboxes, old, minted, sw, jobs, wr, ran, budget>>

\* acquireDurableCodeLoopLease: over no row, a dead owner's, or this process's
\* own residue.
Acquire(g) ==
    /\ StAt(g, "lease")
    /\ IF lease = None \/ (lease.g = g /\ lease.i = inc[g]) \/ ~OwnerAlive
       THEN /\ lease' = [g |-> g, i |-> inc[g], w |-> st[g].w]
            /\ StGoto(g, "admit")
       ELSE /\ st' = [st EXCEPT ![g] = Idle]
            /\ UNCHANGED lease
    /\ UNCHANGED <<alive, inc, store, units, sandboxes, old, minted, sw, jobs, wr, ran, budget>>

\* Memory admission, cage test, seeding or the GPU lease refuses.
Refuse(g) ==
    /\ StAt(g, "admit")
    /\ StGoto(g, "backout")
    /\ UNCHANGED <<alive, inc, store, lease, units, sandboxes, old, minted, sw, jobs, wr, ran, budget>>

\* Wrong: the create is not exclusive.
Claim_bug(g) ==
    /\ StAt(g, "admit")
    /\ client' = [client EXCEPT ![st[g].c] = Torn]
    /\ StGoto(g, "fill")
    /\ sandboxes' = sandboxes \cup {st[g].w}
    /\ UNCHANGED <<alive, inc, copy, lease, units, old, minted, sw, jobs, wr, ran, budget>>

\* claimDurableCodeLoopRun: exclusive create, or the record that is there.
Claim(g) ==
    /\ StAt(g, "admit")
    /\ LET cur == client[st[g].c] IN
       \/ /\ cur = None
          /\ client' = [client EXCEPT ![st[g].c] = Torn]
          /\ StGoto(g, "fill")
          /\ sandboxes' = sandboxes \cup {st[g].w}
          /\ UNCHANGED copy
       \/ /\ cur # None
          /\ copy' = IF IsRecord(cur) /\ copy[cur.w] = None
                     THEN [copy EXCEPT ![cur.w] = Ok] ELSE copy
          /\ StGoto(g, "backout")
          /\ UNCHANGED <<client, sandboxes>>
    /\ UNCHANGED <<alive, inc, lease, units, old, minted, sw, jobs, wr, ran, budget>>

\* The created file gets its content; a failed write unlinks it.
Fill(g) ==
    /\ StAt(g, "fill")
    /\ \/ /\ client' = [client EXCEPT ![st[g].c] =
                [c |-> st[g].c, w |-> st[g].w, status |-> "running", result |-> FALSE, pending |-> TRUE]]
          /\ StGoto(g, "index") /\ NoFault /\ UNCHANGED sandboxes
       \/ /\ client' = [client EXCEPT ![st[g].c] = None]
          /\ sandboxes' = sandboxes \ {st[g].w}
          /\ StGoto(g, "backout") /\ Fault
    /\ UNCHANGED <<alive, inc, copy, lease, units, old, minted, sw, jobs, wr, ran, crashes>>

\* The work-id copy; if it cannot be made the claim is rolled back.
Index(g) ==
    /\ StAt(g, "index")
    /\ \/ /\ copy' = [copy EXCEPT ![st[g].w] = Ok]
          /\ jobs' = [jobs EXCEPT ![g][st[g].w] = "running"]
          /\ st' = [st EXCEPT ![g].pc = "run", ![g].pend = TRUE]
          /\ NoFault /\ UNCHANGED <<client, sandboxes>>
       \/ /\ client' = [client EXCEPT ![st[g].c] = None]
          /\ sandboxes' = sandboxes \ {st[g].w}
          /\ StGoto(g, "backout") /\ Fault /\ UNCHANGED <<copy, jobs>>
    /\ UNCHANGED <<alive, inc, lease, units, old, minted, sw, wr, ran, crashes>>

\* rollbackAdmission: gives the lease back, if that does not fail three times.
Backout(g) ==
    /\ StAt(g, "backout")
    /\ \/ lease' = Released(g) /\ NoFault
       \/ lease' = lease /\ Fault
    /\ st' = [st EXCEPT ![g] = Idle]
    /\ UNCHANGED <<alive, inc, store, units, sandboxes, old, minted, sw, jobs, wr, ran, crashes>>

-----------------------------------------------------------------------------
(* runJob and finalizeJobWithResult                                        *)

\* The engine starts the unit, unless the Git seed fails.
EngineStart(g) ==
    /\ StAt(g, "run")
    /\ \/ units' = units \cup {st[g].w} /\ ran' = ran \cup {st[g].w}
       \/ UNCHANGED <<units, ran>>
    /\ StGoto(g, "engine")
    /\ UNCHANGED <<alive, inc, store, lease, sandboxes, old, minted, sw, jobs, wr, budget>>

\* cleanupUnit after the engine or a check: the unit is proved absent, or the
\* run goes on with cleanupPending set.
CleanupUnit(g, l, next) ==
    /\ StAt(g, l)
    /\ \/ /\ units' = units \ {st[g].w}
          /\ st' = [st EXCEPT ![g].pc = next, ![g].pend = FALSE]
       \/ /\ st' = [st EXCEPT ![g].pc = next, ![g].pend = TRUE]
          /\ UNCHANGED units
    /\ UNCHANGED <<alive, inc, store, lease, sandboxes, old, minted, sw, jobs, wr, ran, budget>>

EngineEnd(g) == CleanupUnit(g, "engine", "harvest")
CheckEnd(g) == CleanupUnit(g, "check", "final")

\* The owner's check runs in a unit of the same name, after a clean harvest.
Harvest(g) ==
    /\ StAt(g, "harvest")
    /\ \/ /\ ~st[g].pend
          /\ units' = units \cup {st[g].w} /\ ran' = ran \cup {st[g].w}
          /\ StGoto(g, "check")
       \/ StGoto(g, "final") /\ UNCHANGED <<units, ran>>
    /\ UNCHANGED <<alive, inc, store, lease, sandboxes, old, minted, sw, jobs, wr, budget>>

\* A whole-job run gives its leases back before it publishes.
Finalize(g) ==
    /\ StAt(g, "final")
    /\ \/ /\ st[g].c \in WholeJob /\ ~st[g].pend
          /\ \/ /\ lease' = Released(g) /\ NoFault
                /\ st' = [st EXCEPT ![g].pc = "publish", ![g].freed = TRUE]
             \/ StGoto(g, "publish") /\ Fault /\ UNCHANGED lease
       \/ /\ st[g].c \notin WholeJob \/ st[g].pend
          /\ StGoto(g, "publish") /\ NoFault /\ UNCHANGED lease
    /\ UNCHANGED <<alive, inc, store, units, sandboxes, old, minted, sw, jobs, wr, ran, crashes>>

\* The terminal result, in memory and (if the disk allows) in the record.
Publish(g) ==
    /\ StAt(g, "publish")
    /\ jobs' = [jobs EXCEPT ![g][st[g].w] = "terminal"]
    /\ \/ /\ Persist(g, [c |-> st[g].c, w |-> st[g].w, status |-> "terminal", result |-> TRUE,
                         pending |-> st[g].pend])
          /\ NoFault
       \/ UNCHANGED wr /\ Fault
    /\ StGoto(g, "settle")
    /\ UNCHANGED <<alive, inc, store, lease, units, sandboxes, old, minted, sw, ran, crashes>>

\* Leases go back, unless the unit is not known to be absent: then they are held.
Settle(g) ==
    /\ StAt(g, "settle")
    /\ IF st[g].pend
       THEN StGoto(g, "held") /\ NoFault /\ UNCHANGED lease
       ELSE /\ st' = [st EXCEPT ![g] = Idle]
            /\ \/ lease' = (IF st[g].freed THEN lease ELSE Released(g)) /\ NoFault
               \/ ~st[g].freed /\ lease' = lease /\ Fault
    /\ UNCHANGED <<alive, inc, store, units, sandboxes, old, minted, sw, jobs, wr, ran, crashes>>

-----------------------------------------------------------------------------
(* sweepCodeLoopSandboxes                                                  *)

Held(g, w) == st[g].pc = "held" /\ st[g].w = w
Mine(g, w) == jobs[g][w] # "none"

\* stopUnit, which a sweep awaits: the unit is absent afterwards, or the error
\* ends the sweep.
StopUnit(w) == units' = units \ {w} /\ NoFault
StopFails(g) == sw' = [sw EXCEPT ![g] = Asleep] /\ StopFault /\ UNCHANGED <<units, st, wr>>

\* The timer fires while no sweep is in flight; a local hold comes first.
SweepStart(g) ==
    /\ SwAt(g, "idle")
    /\ SwGoto(g, IF st[g].pc # "held" THEN "list" ELSE IF st[g].absent THEN "release" ELSE "hold")
    /\ UNCHANGED <<alive, inc, store, lease, units, sandboxes, old, minted, st, jobs, wr, ran, budget>>

\* The held unit is stopped, and then the record's cleanup_pending is cleared.
SweepHold(g) ==
    /\ SwAt(g, "hold")
    /\ \/ /\ StopUnit(st[g].w)
          /\ st' = [st EXCEPT ![g].absent = TRUE]
          /\ LET r == ByWork(st[g].w) IN
             IF Pending(r) THEN Persist(g, [r EXCEPT !.pending = FALSE]) ELSE UNCHANGED wr
          /\ sw' = [sw EXCEPT ![g].pc = "release", ![g].seen = @ \cup {st[g].w}]
       \/ StopFails(g)
    /\ UNCHANGED <<alive, inc, store, lease, sandboxes, old, minted, jobs, ran, crashes>>

\* releaseVerifiedCleanupResources: leases go back and the next run may start.
SweepRelease(g, l, next) ==
    /\ SwAt(g, l)
    /\ \/ /\ lease' = Released(g)
          /\ st' = [st EXCEPT ![g] = Idle]
          /\ SwGoto(g, next) /\ NoFault
       \/ /\ sw' = [sw EXCEPT ![g] = Asleep]
          /\ Fault /\ UNCHANGED <<lease, st>>
    /\ UNCHANGED <<alive, inc, store, units, sandboxes, old, minted, jobs, wr, ran, crashes>>

\* listDurableCodeLoopRunsPendingCleanup: the records as they are now.
SweepList(g) ==
    /\ SwAt(g, "list")
    /\ sw' = [sw EXCEPT ![g].pc = "pending",
                        ![g].todo = {client[c] : c \in {d \in Clients : Pending(client[d])}}]
    /\ UNCHANGED <<alive, inc, store, lease, units, sandboxes, old, minted, st, jobs, wr, ran, budget>>

\* Wrong: only this process's own runs are left alone.
SweepPending_bug(g) ==
    /\ SwAt(g, "pending")
    /\ \/ /\ sw[g].todo = {}
          /\ sw' = [sw EXCEPT ![g].pc = "compact"]
       \/ \E x \in sw[g].todo :
             IF x.status = "running" /\ ~Held(g, x.w) /\ Mine(g, x.w)
             THEN sw' = [sw EXCEPT ![g].todo = @ \ {x}]
             ELSE sw' = [sw EXCEPT ![g].pc = "stop", ![g].todo = @ \ {x}, ![g].rec = x]
    /\ UNCHANGED <<alive, inc, store, lease, units, sandboxes, old, minted, st, jobs, wr, ran, budget>>

\* One of them: a run that is still owned is left alone.
SweepPending(g) ==
    /\ SwAt(g, "pending")
    /\ \/ /\ sw[g].todo = {}
          /\ sw' = [sw EXCEPT ![g].pc = "compact"]
       \/ \E x \in sw[g].todo :
             IF x.status = "running" /\ ~Held(g, x.w) /\ (Mine(g, x.w) \/ Live(x.w))
             THEN sw' = [sw EXCEPT ![g].todo = @ \ {x}]
             ELSE sw' = [sw EXCEPT ![g].pc = "stop", ![g].todo = @ \ {x}, ![g].rec = x]
    /\ UNCHANGED <<alive, inc, store, lease, units, sandboxes, old, minted, st, jobs, wr, ran, budget>>

\* Its unit is stopped and the record, as it was listed, is written back with
\* cleanup_pending cleared.
SweepStop(g) ==
    /\ SwAt(g, "stop")
    /\ LET x == sw[g].rec IN
       \/ /\ StopUnit(x.w)
          /\ Persist(g, [x EXCEPT !.pending = FALSE])
          /\ sw' = [sw EXCEPT ![g].rec = None, ![g].seen = @ \cup {x.w},
                              ![g].pc = IF Held(g, x.w) THEN "releaseNext" ELSE "again"]
          /\ st' = IF Held(g, x.w) THEN [st EXCEPT ![g].absent = TRUE] ELSE st
       \/ StopFails(g)
    /\ UNCHANGED <<alive, inc, store, lease, sandboxes, old, minted, jobs, ran, crashes>>

SweepNext(g) ==
    /\ SwAt(g, "again")
    /\ SwGoto(g, "pending")
    /\ UNCHANGED <<alive, inc, store, lease, units, sandboxes, old, minted, st, jobs, wr, ran, budget>>

\* Wrong: every terminal result is stripped, old or not.
Compactable_bug(x) == IsRecord(x) /\ ~Running(x) /\ x.result

\* A terminal record past the retention time still holds its result.
Compactable(x) == IsRecord(x) /\ ~Running(x) /\ x.result /\ x.w \in old

\* compactExpiredDurableCodeLoopRuns strips old results; then old terminal jobs
\* leave the job table and the sandboxes are listed.
SweepCompact(g) ==
    /\ SwAt(g, "compact")
    /\ \/ \E c \in Clients :
             /\ Compactable(client[c])
             /\ Persist(g, [client[c] EXCEPT !.result = FALSE])
             /\ UNCHANGED <<sw, jobs>>
       \/ /\ \A c \in Clients : ~Compactable(client[c])
          /\ jobs' = [jobs EXCEPT ![g] = [w \in WorkIds |->
                        IF @[w] = "terminal" /\ w \in old THEN "none" ELSE @[w]]]
          /\ sw' = [sw EXCEPT ![g].pc = "dirs", ![g].todo = sandboxes]
          /\ UNCHANGED wr
    /\ UNCHANGED <<alive, inc, store, lease, units, sandboxes, old, minted, st, ran, budget>>

\* One sandbox: its record is read; without one only its age counts.
SweepDirs(g) ==
    /\ SwAt(g, "dirs")
    /\ \/ /\ sw[g].todo = {}
          /\ sw' = [sw EXCEPT ![g].pc = "unowned", ![g].todo = Clients, ![g].seen = {}]
          /\ UNCHANGED sandboxes
       \/ \E w \in sw[g].todo :
             LET r == ByWork(w) IN
             /\ sandboxes' = IF r = None /\ w \in old THEN sandboxes \ {w} ELSE sandboxes
             /\ sw' = [sw EXCEPT ![g].todo = @ \ {w}, ![g].rec = r,
                                 ![g].pc = IF r = None THEN "dirs" ELSE "dir"]
    /\ UNCHANGED <<alive, inc, store, lease, units, old, minted, st, jobs, wr, ran, budget>>

\* Does a cleanup that is still owed fall to this sweep?
SweepDir(g) ==
    /\ SwAt(g, "dir")
    /\ LET r == sw[g].rec IN
       SwGoto(g, IF r.pending /\ (r.status # "running" \/ ~(Mine(g, r.w) \/ Live(r.w)))
                 THEN "dirStop" ELSE "orphan")
    /\ UNCHANGED <<alive, inc, store, lease, units, sandboxes, old, minted, st, jobs, wr, ran, budget>>

SweepDirStop(g) ==
    /\ SwAt(g, "dirStop")
    /\ LET r == [sw[g].rec EXCEPT !.pending = FALSE] IN
       \/ /\ StopUnit(r.w)
          /\ Persist(g, r)
          /\ sw' = [sw EXCEPT ![g].rec = r, ![g].seen = @ \cup {r.w}, ![g].pc = "orphan"]
          /\ UNCHANGED st
       \/ StopFails(g)
    /\ UNCHANGED <<alive, inc, store, lease, sandboxes, old, minted, jobs, ran, crashes>>

\* Was the run left behind by a dead process?  Its unit is stopped first.
SweepOrphan(g) ==
    /\ SwAt(g, "orphan")
    /\ LET r == sw[g].rec IN
       SwGoto(g, IF r.status = "running" /\ ~Mine(g, r.w) /\ ~Live(r.w)
                 THEN IF r.w \in sw[g].seen THEN "mark" ELSE "orphanStop"
                 ELSE "reclaim")
    /\ UNCHANGED <<alive, inc, store, lease, units, sandboxes, old, minted, st, jobs, wr, ran, budget>>

SweepOrphanStop(g) ==
    /\ SwAt(g, "orphanStop")
    /\ \/ StopUnit(sw[g].rec.w) /\ SwGoto(g, "mark") /\ UNCHANGED <<st, wr>>
       \/ StopFails(g)
    /\ UNCHANGED <<alive, inc, store, lease, sandboxes, old, minted, jobs, ran, crashes>>

\* markDurableCodeLoopRunOrphaned reads the record again.
SweepMark(g) ==
    /\ SwAt(g, "mark")
    /\ LET r == ByWork(sw[g].rec.w)
           o == [sw[g].rec EXCEPT !.status = "orphaned", !.result = FALSE] IN
       /\ sw' = [sw EXCEPT ![g].pc = "reclaim", ![g].rec = IF r = None \/ Running(r) THEN o ELSE r]
       /\ IF Running(r)
          THEN Persist(g, [r EXCEPT !.status = "orphaned", !.result = FALSE])
          ELSE UNCHANGED wr
    /\ UNCHANGED <<alive, inc, store, lease, units, sandboxes, old, minted, st, jobs, ran, budget>>

\* The sandbox of an old run that is over goes, and its result with it.
SweepReclaim(g) ==
    /\ SwAt(g, "reclaim")
    /\ LET w == sw[g].rec.w
           r == ByWork(w) IN
       IF sw[g].rec.status # "running" /\ w \in old
       THEN /\ sandboxes' = sandboxes \ {w}
            /\ IF r # None /\ ~Running(r) /\ r.result
               THEN Persist(g, [r EXCEPT !.result = FALSE]) ELSE UNCHANGED wr
       ELSE UNCHANGED <<sandboxes, wr>>
    /\ sw' = [sw EXCEPT ![g].pc = "dirs", ![g].rec = None]
    /\ UNCHANGED <<alive, inc, store, lease, units, old, minted, st, jobs, ran, budget>>

\* markUnownedDurableCodeLoopRunsOrphaned: one record is read...
SweepUnowned(g) ==
    /\ SwAt(g, "unowned")
    /\ \/ /\ sw[g].todo = {}
          /\ sw' = [sw EXCEPT ![g] = Asleep]
       \/ \E c \in sw[g].todo :
             IF Running(client[c]) /\ ~Mine(g, client[c].w)
             THEN sw' = [sw EXCEPT ![g].todo = @ \ {c}, ![g].rec = client[c], ![g].pc = "unownedLive"]
             ELSE sw' = [sw EXCEPT ![g].todo = @ \ {c}]
    /\ UNCHANGED <<alive, inc, store, lease, units, sandboxes, old, minted, st, jobs, wr, ran, budget>>

\* ...then the lease is looked up, and the record as read is written as orphaned.
SweepUnownedLive(g) ==
    /\ SwAt(g, "unownedLive")
    /\ IF Live(sw[g].rec.w)
       THEN UNCHANGED wr
       ELSE Persist(g, [sw[g].rec EXCEPT !.status = "orphaned", !.result = FALSE])
    /\ sw' = [sw EXCEPT ![g].pc = "unowned", ![g].rec = None]
    /\ UNCHANGED <<alive, inc, store, lease, units, sandboxes, old, minted, st, jobs, ran, budget>>

-----------------------------------------------------------------------------
(* The world around the gateways                                           *)

Boot(g) ==
    /\ ~alive[g] /\ (Rolling \/ \A h \in Gateways : ~alive[h])
    /\ alive' = [alive EXCEPT ![g] = TRUE]
    /\ UNCHANGED <<inc, store, lease, units, sandboxes, old, minted, st, sw, jobs, wr, ran, budget>>

\* A crash loses the memory, not the files, the lease row or the unit.
Crash(g) ==
    /\ alive[g] /\ crashes < MaxCrash
    /\ crashes' = crashes + 1
    /\ alive' = [alive EXCEPT ![g] = FALSE]
    /\ inc' = [inc EXCEPT ![g] = @ + 1]
    /\ \/ UNCHANGED copy
       \/ st[g].pc = "index" /\ copy' = [copy EXCEPT ![st[g].w] = Torn]
    /\ st' = [st EXCEPT ![g] = Idle] /\ sw' = [sw EXCEPT ![g] = Asleep]
    /\ jobs' = [jobs EXCEPT ![g] = [w \in WorkIds |-> "none"]]
    /\ wr' = [wr EXCEPT ![g] = None]
    /\ UNCHANGED <<client, lease, units, sandboxes, old, minted, ran, faults>>

\* A unit may end by itself.
UnitExit(w) ==
    /\ w \in units
    /\ units' = units \ {w}
    /\ UNCHANGED <<alive, inc, store, lease, sandboxes, old, minted, st, sw, jobs, wr, ran, budget>>

\* A work id passes the retention time, long after its run's own limits.
Expire(w) ==
    /\ w \in 1..minted \ old /\ w \notin units
    /\ \A g \in Gateways : st[g].w # w \/ st[g].pc \in {"idle", "held"}
    /\ old' = old \cup {w}
    /\ UNCHANGED <<alive, inc, store, lease, units, sandboxes, minted, st, sw, jobs, wr, ran, budget>>

-----------------------------------------------------------------------------

StartStep(g) ==
    \/ Admit(g) \/ Acquire(g) \/ Refuse(g) \/ Claim(g) \/ Fill(g) \/ Index(g) \/ Backout(g)
    \/ EngineStart(g) \/ EngineEnd(g) \/ Harvest(g) \/ CheckEnd(g)
    \/ Finalize(g) \/ Publish(g) \/ Settle(g)

SweepStep(g) ==
    \/ SweepStart(g) \/ SweepHold(g)
    \/ SweepRelease(g, "release", "list") \/ SweepRelease(g, "releaseNext", "again")
    \/ SweepList(g) \/ SweepPending(g) \/ SweepStop(g) \/ SweepNext(g) \/ SweepCompact(g)
    \/ SweepDirs(g) \/ SweepDir(g) \/ SweepDirStop(g)
    \/ SweepOrphan(g) \/ SweepOrphanStop(g) \/ SweepMark(g) \/ SweepReclaim(g)
    \/ SweepUnowned(g) \/ SweepUnownedLive(g)

WriteStep(g) == ReplaceClient(g) \/ ReplaceCopy(g)

Next ==
    \/ \E g \in Gateways :
          \/ \E c \in Clients : Retry(g, c) \/ FailClosed(g, c) \/ Start(g, c)
          \/ StartStep(g) \/ SweepStep(g) \/ WriteStep(g)
          \/ Boot(g) \/ Crash(g)
    \/ \E w \in WorkIds : UnitExit(w) \/ Expire(w)

Spec == Init /\ [][Next]_vars

\* A gateway's pending promises settle (engine, checks and commands have time
\* limits), its sweep timer fires, the service manager restarts a gateway that
\* died, and time passes.
Fairness ==
    /\ \A g \in Gateways :
          /\ SF_vars(StartStep(g)) /\ SF_vars(SweepStep(g)) /\ WF_vars(WriteStep(g))
          /\ WF_vars(Boot(g))
    /\ \A w \in WorkIds : WF_vars(Expire(w))

FairSpec == Spec /\ Fairness

-----------------------------------------------------------------------------
(* Safety                                                                  *)

\* At most one gateway is past the process lease: "the exactly-1 invariant" that
\* the lease keeps across overlapping processes (startCodeLoop).
SingleFlight ==
    \A g, h \in Gateways :
        /\ st[g].pc \in {"admit", "fill", "index", "run", "engine", "harvest", "check"}
        /\ st[h].pc \in {"admit", "fill", "index", "run", "engine", "harvest", "check"}
        => g = h

\* A run that ever began executing is still bound to its client_run_id, so that
\* no retry, crash, repair or sweep makes the same id execute twice.
ExecutedIsBound == \A w \in ran : \E c \in Clients : IsRecord(client[c]) /\ client[c].w = w

\* While a unit runs its record owes cleanup, in whichever process's hands it
\* is: a crash never leaves a unit that no later start waits for.
NoForgottenUnit ==
    \A w \in units : \E c \in Clients : Pending(client[c]) /\ client[c].w = w

\* Units of two runs are never active together (cleanup_pending refuses new work
\* until the old unit's absence is proved).
OneUnit == Cardinality(units) <= 1

\* A published outcome stays: it is never replaced, and stripped of its result only
\* after the retention time or by a build that does not accept the result.
TerminalIsFinal ==
    [][\A c \in Clients :
          IsRecord(client[c]) /\ client[c].status = "terminal" =>
             /\ client'[c].status = "terminal"
             /\ client[c].result => client'[c].result \/ client[c].w \in old \cup Outdated]_vars

-----------------------------------------------------------------------------
(* Liveness                                                                *)

\* Every bound run ends, by itself or as orphaned after a crash, and the cleanup
\* it owes is done at last: the gate that refuses every start while a record is
\* pending always opens again.
RunSettles == []<>(\A c \in Clients : ~Running(client[c]) /\ ~Pending(client[c]))

=============================================================================
