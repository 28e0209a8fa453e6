----------------------------- MODULE ImageJobs -----------------------------
(***************************************************************************)
(* Asynchronous image generation: the durable job table, the result files, *)
(* the in-memory queue and the single worker of image-jobs.ts, together    *)
(* with the submission handler of gateway.ts and the ledgers of Metering.  *)
(*                                                                         *)
(* Everything between two awaits is one step, as in the program.  But each *)
(* SQLite statement and each file operation is durable by itself, so the   *)
(* process may die between two of them: the handlers that make several     *)
(* take a parameter `upto`, the number of durable operations that were     *)
(* done, and when it is not all of them the process is dead afterwards, or *)
(* the next one threw and the handlers of that error have run.             *)
(***************************************************************************)
EXTENDS Metering, Sequences, SequencesExt

CONSTANTS
    Guest,        \* the jobs that guests submitted
    Scope,        \* the maintenance scopes that are switched between
    CrashInside,  \* whether a crash may fall between two durable operations, or
                  \* one of them fail
    Extra,        \* bound of the model: jobs that are submitted only on the
                  \* first day and before any live request and inner crash,
                  \* none of which come after them; no live request and no day
                  \* begins after an inner crash
    NoJob

ASSUME ImageJobsAssumption ==
    /\ Guest \subseteq Job /\ Extra \subseteq Job
    /\ NoJob \notin Req
    /\ "off" \in Scope /\ Scope \subseteq {"off", "guest", "exclusive"}

VARIABLES
    row,          \* image_jobs: status, delivered images, quota_day
    file,         \* the jobs whose result file is on disk
    gateway,      \* "up", "stopped" (stopWorker ran), "down"
    maint,        \* maintenance: "off", "guest" or "exclusive"
    queue,        \* ctx.queue
    specs,        \* the keys of ctx.specs
    signal,       \* the job's JobSpec: "live", "aborted" or "cancelled"
    worker,       \* the pump: where it awaits, and the job it holds
    cut           \* the job or request of which a durable operation is missing,
                  \* because the process died before it or because it failed

jobs == <<row, file, gateway, maint, queue, specs, signal, worker, cut>>

vars == <<meters, jobs>>

\* "due" is a succeeded row past its expires_at that a sweep has begun with.
Status == {"none", "queued", "running", "succeeded", "due", "failed",
           "cancelled", "expired"}

OpenStatus == {"queued", "running"}

Open == {j \in Job : row[j].status \in OpenStatus}

\* The bound that Extra stands for.
NoExtra == \A j \in Extra : row[j].status = "none"
Quiet == today = 1 /\ cut = NoJob /\ \A r \in Live : live[r].pc = "new"

Idle == [at |-> "idle", job |-> NoJob]

Sleeping == [at |-> "sleep", job |-> NoJob]

\* The type invariant.
TypeOK ==
    /\ MeteringTypeOK
    /\ row \in [Job -> [status : Status, delivered : 0..Est, day : Day]]
    /\ file \in SUBSET Job
    /\ gateway \in {"up", "stopped", "down"}
    /\ maint \in Scope
    /\ queue \in Seq(Job)
    /\ specs \in SUBSET Job
    /\ signal \in [Job -> {"live", "aborted", "cancelled"}]
    /\ worker \in {Idle, Sleeping}
                    \cup [at : {"slot", "delay", "gen"}, job : Job]
    /\ cut \in Req \cup {NoJob}

Init ==
    /\ MeteringInit
    /\ row = [j \in Job |-> [status |-> "none", delivered |-> 0, day |-> 1]]
    /\ file = {}
    /\ gateway = "up"
    /\ maint = "off"
    /\ queue = <<>>
    /\ specs = {}
    /\ signal = [j \in Job |-> "live"]
    /\ worker = Idle
    /\ cut = NoJob

-----------------------------------------------------------------------------
\* The process.

\* The process ends: everything that is not in SQLite or on disk is gone.
Vanish ==
    /\ gateway' = "down"
    /\ maint' = "off"
    /\ queue' = <<>>
    /\ specs' = {}
    /\ signal' = [j \in Job |-> "live"]
    /\ worker' = Idle
    /\ LiveLost

\* A durable operation of x is not made; the bound of the model is one.
Cut(x) == CrashInside /\ cut = NoJob /\ NoExtra /\ cut' = x

\* The process ends before it.
VanishInside(x) == Cut(x) /\ Vanish

\* It fails, which does not end the process.
Throws(x) == Cut(x) /\ UNCHANGED <<gateway, maint, live>>

\* The process survives the step.
Survive == UNCHANGED <<gateway, maint, cut, live>>

\* The ledgers after a settlement of job j at `units` that made `ops` of its
\* two durable operations: credits first, then the daily counter.
Settled(j, units, ops) ==
    /\ used' = IF ops >= 1 THEN settleCredits(used, j, units) ELSE used
    /\ daily' = IF ops >= 2
                  THEN adjustDaily(daily, j, row[j].day, units) ELSE daily
    /\ UNCHANGED today

-----------------------------------------------------------------------------
\* The worker.

\* isEligibleNow: a guest's job waits while maintenance is engaged.
isEligibleNow(j) == j \in Guest => maint = "off"

pump_bug(q, r) ==
    IF gateway # "up" \/ q = <<>> \/ ~isEligibleNow(Head(q))
      THEN /\ queue' = q
           /\ row' = r
           /\ worker' = IF gateway # "up" \/ q = <<>> THEN Idle ELSE Sleeping
      ELSE /\ queue' = Tail(q)
           /\ row' = [r EXCEPT ![Head(q)].status = "running"]
           /\ worker' = [at |-> "slot", job |-> Head(q)]

\* One turn of pump's loop with queue q and table r, up to its next await:
\* the first eligible job is taken out of the queue, marked running, and asks
\* for a slot; with only paused jobs the pump sleeps; with none it ends.  The
\* two early returns of processJob (no spec, row no longer queued) are never
\* taken: see QueueMatchesRows.
pump(q, r) ==
    LET ready == {i \in DOMAIN q : isEligibleNow(q[i])} IN
    IF gateway # "up" \/ ready = {}
      THEN /\ queue' = q
           /\ row' = r
           /\ worker' = IF gateway # "up" \/ q = <<>> THEN Idle ELSE Sleeping
      ELSE LET i == Min(ready) IN
           /\ queue' = RemoveAt(q, i)
           /\ row' = [r EXCEPT ![q[i]].status = "running"]
           /\ worker' = [at |-> "slot", job |-> q[i]]

\* The pump's timer after a pass that found only paused jobs.
Wake ==
    /\ worker = Sleeping
    /\ pump(queue, row)
    /\ Survive
    /\ UNCHANGED <<used, daily, ring, today, file, specs, signal>>

\* processJob's finally block for job j, and the pump's next turn.
EndJob(j, r) ==
    /\ specs' = specs \ {j}
    /\ signal' = [signal EXCEPT ![j] = "live"]
    /\ pump(queue, r)

finalizeFailure_bug(j, upto) ==
    LET failed == [row EXCEPT ![j].status = "failed"] IN
    /\ UNCHANGED file
    /\ Settled(j, 0, upto)
    /\ IF upto = 2
         THEN EndJob(j, failed) /\ ring' = recordEvent(ring, j, 0) /\ Survive
         ELSE VanishInside(j) /\ row' = failed

\* finalizeFailure: UPDATE guarded by status = 'running'; if that won, refund
\* the credits and the quota.  When cancel has settled the row, nothing is
\* left to do.  An error here is caught by nobody and ends the process.
finalizeFailure(j, upto) ==
    LET failed == [row EXCEPT ![j].status = "failed"] IN
    /\ UNCHANGED file
    /\ IF row[j].status # "running"
         THEN /\ upto = 2
              /\ EndJob(j, row)
              /\ Survive
              /\ UNCHANGED <<used, daily, ring, today>>
         ELSE /\ Settled(j, 0, upto)
              /\ IF upto = 2
                   THEN EndJob(j, failed) /\ ring' = recordEvent(ring, j, 0) /\ Survive
                   ELSE VanishInside(j) /\ row' = failed

\* controller.acquire grants the owner-lane slot.  A job that was aborted
\* while it waited goes no further: the fetch rejects an aborted signal.
SlotGranted(upto) ==
    /\ worker.at = "slot"
    /\ maint # "exclusive"
    /\ IF signal[worker.job] = "live"
         THEN /\ upto = 2
              /\ worker' = [worker EXCEPT !.at = "gen"]
              /\ UNCHANGED <<meters, row, file, gateway, maint, queue, specs,
                             signal, cut>>
         ELSE finalizeFailure(worker.job, upto)

\* AdmissionRejected: the slots are busy or the window is exclusive.
SlotRejected ==
    /\ worker.at = "slot"
    /\ worker' = [worker EXCEPT !.at = "delay"]
    /\ UNCHANGED <<meters, row, file, gateway, maint, queue, specs, signal, cut>>

\* The end of acquireSlot's back-off: an aborted job gives up.
Retry(upto) ==
    /\ worker.at = "delay"
    /\ IF signal[worker.job] = "live"
         THEN /\ upto = 2
              /\ worker' = [worker EXCEPT !.at = "slot"]
              /\ UNCHANGED <<meters, row, file, gateway, maint, queue, specs,
                             signal, cut>>
         ELSE finalizeFailure(worker.job, upto)

\* processJob's timer.
Timeout ==
    /\ worker.job # NoJob
    /\ signal[worker.job] = "live"
    /\ signal' = [signal EXCEPT ![worker.job] = "aborted"]
    /\ UNCHANGED <<meters, row, file, gateway, maint, queue, specs, worker, cut>>

\* generateImages throws, for whatever reason.
GenerateFails(upto) ==
    /\ worker.at = "gen"
    /\ finalizeFailure(worker.job, upto)

\* finalizeSuccess for a row that is still running: write the file, UPDATE, then
\* settle the credits and the quota at what was delivered.  When the UPDATE
\* throws, the job fails and the file stays; an error after the UPDATE finds no
\* running row to fail.
Succeeds(j, delivered, upto) ==
    LET done == [row EXCEPT ![j] = [@ EXCEPT !.status = "succeeded", !.delivered = delivered]]
        event == IF upto >= 2 THEN recordEvent(ring, j, delivered) ELSE ring
    IN  /\ file' = file \cup {j}
        /\ \/ /\ Settled(j, delivered, upto - 1)
              /\ \/ upto = 3 /\ EndJob(j, done) /\ ring' = event /\ Survive
                 \/ upto \in 1..2 /\ EndJob(j, done) /\ ring' = event /\ Throws(j)
                 \/ upto < 3 /\ VanishInside(j) /\ row' = IF upto = 0 THEN row ELSE done
           \/ /\ upto = 0
              /\ Settled(j, 0, 2)
              /\ EndJob(j, [row EXCEPT ![j].status = "failed"])
              /\ ring' = recordEvent(ring, j, 0)
              /\ Throws(j)

finalizeSuccess_bug(j, delivered, upto) ==
    IF row[j].status # "running"
      THEN /\ upto = 3 /\ EndJob(j, row) /\ Survive
           /\ file' = file \cup {j}
           /\ UNCHANGED <<used, daily, today, ring>>
      ELSE Succeeds(j, delivered, upto)

\* finalizeSuccess.  If cancel won the row, the UPDATE changes nothing and the
\* file is deleted again, unless the process dies, the UPDATE throws or the
\* deletion fails, which nobody notices.
finalizeSuccess(j, delivered, upto) ==
    IF row[j].status # "running"
      THEN /\ UNCHANGED <<used, daily, today>>
           /\ \/ upto = 3 /\ EndJob(j, row) /\ Survive /\ UNCHANGED <<ring, file>>
              \/ upto = 0 /\ EndJob(j, row) /\ Throws(j) /\ UNCHANGED ring
                          /\ file' = file \cup {j}
              \/ upto = 0 /\ VanishInside(j) /\ file' = file \cup {j}
                          /\ UNCHANGED row
      ELSE Succeeds(j, delivered, upto)

\* The sidecar has answered, with at least one and at most n images; the
\* answer may have come in just before an abort.
GenerateOk(delivered, upto) ==
    /\ worker.at = "gen"
    /\ finalizeSuccess(worker.job, delivered, upto)

-----------------------------------------------------------------------------
\* The handlers.

\* handleImageGenerations' gate before anything is reserved.
SubmissionOk(j) ==
    /\ row[j].status = "none"
    /\ j \in Extra => Quiet
    /\ ring[j] = Gone
    /\ maint = "off" \/ (maint = "guest" /\ j \notin Guest)
    /\ reserveCreditsOk(j)

\* handleImageGenerations and submitImageJob: reserve, insert the row, store
\* the spec, enqueue, and start the pump if it is not running.  A refused
\* submission keeps nothing, which leaves every variable alone.
Submit(j) ==
    LET queued == [row EXCEPT ![j] = [@ EXCEPT !.status = "queued",
                                               !.day = today]] IN
    /\ gateway = "up"
    /\ SubmissionOk(j)
    /\ checkQuotaOk(j)
    /\ used' = [used EXCEPT ![KeyOf(j)] = @ + Reserved(j)]
    /\ daily' = reserveDaily(daily, j)
    /\ ring' = [ring EXCEPT ![j] = Est]
    /\ specs' = specs \cup {j}
    /\ IF worker = Idle
         THEN pump(Append(queue, j), queued)
         ELSE /\ queue' = Append(queue, j)
              /\ row' = queued
              /\ UNCHANGED worker
    /\ Survive
    /\ UNCHANGED <<today, file, signal>>

\* The worker was stopped: submitImageJob throws, and the handler refunds
\* what it has just reserved.  Only the event, at zero, remains.
SubmitStopped(j) ==
    /\ gateway = "stopped"
    /\ SubmissionOk(j)
    /\ checkQuotaOk(j)
    /\ ring' = [ring EXCEPT ![j] = 0]
    /\ UNCHANGED <<used, daily, today, live, jobs>>

\* The process dies between the reservations and the INSERT.
SubmitCut(j, upto) ==
    /\ gateway # "down"
    /\ SubmissionOk(j)
    /\ WindowOk(j)
    /\ used' = [used EXCEPT ![KeyOf(j)] = @ + Reserved(j)]
    /\ daily' = IF upto >= 2 THEN reserveDaily(daily, j) ELSE daily
    /\ VanishInside(j)
    /\ UNCHANGED <<today, row, file>>

\* The worker's context forgets job j, or as much of it as comes before an error.
Forget(j, upto) ==
    /\ queue' = SelectSeq(queue, LAMBDA q : q # j)
    /\ specs' = IF upto = 2 THEN specs \ {j} ELSE specs
    /\ ring' = IF upto >= 1 THEN recordEvent(ring, j, 0) ELSE ring
    /\ signal' = IF worker.job = j THEN [signal EXCEPT ![j] = "cancelled"] ELSE signal

Cancel_bug(j, upto) ==
    /\ gateway # "down"
    /\ row[j].status \in OpenStatus
    /\ row' = [row EXCEPT ![j].status = "cancelled"]
    /\ Settled(j, 0, upto)
    /\ UNCHANGED file
    /\ \/ upto < 2 /\ VanishInside(j)
       \/ /\ upto = 2 /\ Survive
          /\ ring' = recordEvent(ring, j, 0)
          /\ UNCHANGED <<worker, queue, specs, signal>>

\* cancelImageJob: UPDATE guarded by an open status, then the refund.  While
\* the worker runs, the job's spec is aborted and dropped with its place in
\* the queue; after stopWorker there is no context, and the refund is made
\* from the row (refundOrphanRow), which does not know the ring's event.  A
\* refund that throws is answered with an error, and not made again.
Cancel(j, upto) ==
    /\ gateway # "down"
    /\ row[j].status \in OpenStatus
    /\ row' = [row EXCEPT ![j].status = "cancelled"]
    /\ Settled(j, 0, upto)
    /\ UNCHANGED file
    /\ \/ upto < 2 /\ VanishInside(j)
       \/ /\ IF upto = 2 THEN Survive ELSE Throws(j)
          /\ UNCHANGED worker
          /\ IF gateway = "up" THEN Forget(j, upto) ELSE UNCHANGED <<ring, queue, specs, signal>>

\* sweepExpired for one row past its time: delete the bytes, then UPDATE.  That
\* the bytes could not be deleted is not noticed; an error of the UPDATE is caught
\* by nobody and ends the process.
sweepExpired(j, upto) ==
    /\ gateway = "up"
    /\ row[j].status \in {"succeeded", "due"}
    /\ UNCHANGED <<used, daily, today>>
    /\ \/ /\ upto = 1
          /\ row' = [row EXCEPT ![j].status = "expired"]
          /\ \/ file' = file \ {j} /\ Survive
             \/ j \in file /\ UNCHANGED file /\ Throws(j)
          /\ UNCHANGED <<ring, queue, specs, signal, worker>>
       \/ upto = 0 /\ VanishInside(j) /\ file' = file \ {j}
                   /\ row' = [row EXCEPT ![j].status = "due"]

\* Maintenance is switched, by an operator or by a window.
Maintenance(m) ==
    /\ gateway # "down"
    /\ maint # m
    /\ maint' = m
    /\ UNCHANGED <<meters, row, file, gateway, queue, specs, signal, worker, cut>>

-----------------------------------------------------------------------------
\* Stop, crash and restart.

\* stopWorker: no further pump turn, every spec aborted, no more sweeps.
stopWorker ==
    /\ gateway = "up"
    /\ gateway' = "stopped"
    /\ signal' = [j \in Job |->
                    IF j \in specs THEN "aborted" ELSE signal[j]]
    /\ UNCHANGED <<meters, row, file, maint, queue, specs, worker, cut>>

Exit ==
    /\ gateway = "stopped"
    /\ Vanish
    /\ UNCHANGED <<used, daily, today, row, file, cut>>

Crash ==
    /\ gateway = "up"
    /\ Vanish
    /\ UNCHANGED <<used, daily, today, row, file, cut>>

\* The ledgers after refundOrphanRow of every job in S.
RefundedCredits(S) ==
    [k \in Key |-> AtLeastZero(used[k] -
        MapThenSumSet(Reserved, {j \in S : KeyOf(j) = k}))]

RefundedDaily(S) ==
    [k \in Key |-> [d \in Day |-> AtLeastZero(daily[k][d] -
        Est * Cardinality({j \in S : KeyOf(j) = k /\ row[j].day = d}))]]

Interrupted(S) ==
    [j \in Job |-> IF j \in S THEN [row[j] EXCEPT !.status = "failed"]
                              ELSE row[j]]

\* recoverOrphans: every open row is failed and refunded.  An open row has no
\* result_path, so there is no file to delete.
recoverOrphans ==
    /\ used' = RefundedCredits(Open)
    /\ daily' = RefundedDaily(Open)
    /\ row' = Interrupted(Open)

Restart ==
    /\ gateway = "down"
    /\ gateway' = "up"
    /\ recoverOrphans
    /\ UNCHANGED <<ring, today, live, file, maint, queue, specs, signal,
                   worker, cut>>

\* Recovery itself dies, after the rows of S and in the middle of row j.
RestartCut(S, j, upto) ==
    /\ gateway = "down"
    /\ S \subseteq Open \ {j}
    /\ j \in Open
    /\ row' = Interrupted(S \cup {j})
    /\ used' = RefundedCredits(IF upto >= 1 THEN S \cup {j} ELSE S)
    /\ daily' = RefundedDaily(S)
    /\ Cut(j)
    /\ UNCHANGED <<ring, today, live, file, gateway, maint, queue, specs,
                   signal, worker>>

-----------------------------------------------------------------------------

Gateway ==
    /\ gateway # "down"
    /\ LiveStep \/ (NoExtra /\ cut = NoJob /\ LiveBegins)
    /\ UNCHANGED jobs

\* A request that is served while its client waits ends with an error.
GatewayThrows ==
    /\ gateway # "down"
    /\ \E r \in Live : LiveThrows(r) /\ Cut(r)
    /\ UNCHANGED <<row, file, gateway, maint, queue, specs, signal, worker>>

WorkerStep ==
    \/ Wake
    \/ SlotRejected
    \/ Timeout
    \/ \E upto \in 0..2 : SlotGranted(upto) \/ Retry(upto) \/ GenerateFails(upto)
    \/ \E delivered \in 1..Est, upto \in 0..3 : GenerateOk(delivered, upto)

Handler ==
    \/ \E j \in Job : Submit(j) \/ SubmitStopped(j)
    \/ \E j \in Job, upto \in 1..2 : SubmitCut(j, upto)
    \/ \E j \in Job, upto \in 0..2 : Cancel(j, upto)
    \/ \E j \in Job, upto \in 0..1 : sweepExpired(j, upto)
    \/ \E m \in Scope : Maintenance(m)

ProcessStep ==
    \/ stopWorker
    \/ Exit
    \/ Crash
    \/ Restart
    \/ \E S \in SUBSET Job, j \in Job, upto \in 0..1 : RestartCut(S, j, upto)

Next == Gateway \/ GatewayThrows \/ WorkerStep \/ Handler \/ ProcessStep

Spec == Init /\ [][Next]_vars

\* The timers of the pump, of the back-off and of the job fire; an acquire is
\* granted or rejected in the end (admission bounds the wait); a stopped
\* gateway exits and its supervisor restarts it.  Nothing is assumed of the
\* sidecar, of clients, of maintenance or of crashes.
Fairness ==
    /\ WF_vars(Wake)
    /\ WF_vars(SlotRejected \/ SlotGranted(2))
    /\ WF_vars(Retry(2))
    /\ WF_vars(Timeout)
    /\ WF_vars(worker.job # NoJob /\ signal[worker.job] # "live"
                 /\ GenerateFails(2))
    /\ WF_vars(Exit)
    /\ WF_vars(Restart)

FairSpec == Spec /\ Fairness

-----------------------------------------------------------------------------

\* The credits that key k owes: the reservation of what is open or was lost
\* with the process, and the price of what was delivered.
JobCredits(j) ==
    CASE row[j].status \in OpenStatus -> Reserved(j)
      [] row[j].status \in {"succeeded", "due", "expired"} -> Cost(j, row[j].delivered)
      [] OTHER -> 0

Owed(k) ==
    MapThenSumSet(JobCredits, {j \in Job : KeyOf(j) = k})
      + MapThenSumSet(LiveCredits, {r \in Live : KeyOf(r) = k})

JobUnits(j) ==
    CASE row[j].status \in OpenStatus -> Est
      [] row[j].status \in {"succeeded", "due", "expired"} -> row[j].delivered
      [] OTHER -> 0

OwedDaily(k, d) ==
    MapThenSumSet(JobUnits, {j \in Job : KeyOf(j) = k /\ row[j].day = d})
      + MapThenSumSet(LiveUnits, {r \in Live : KeyOf(r) = k /\ live[r].day = d})

\* However cancel, completion, timeout, stop, crash and recovery interleave, a
\* key's credits are those of its open, delivered and lost work: no refund is
\* made twice and none is forgotten.  Only where a job's UPDATE is not followed by
\* its refund, because the process died in between or the refund failed, its own
\* key is wrong, by at most that job, and a capped key is never undercharged.  The
\* lifetime cap holds under concurrency: it is exceeded only by what a finished
\* request used beyond its own estimate.
CreditsBalance ==
    /\ Owed("capped") <= used["capped"]
    /\ \A k \in Key : used[k] # Owed(k) =>
          /\ cut \in Job /\ KeyOf(cut) = k
          /\ used[k] - Owed(k) \in -Cost(cut, Est)..Cost(cut, Est)
    /\ used["capped"] <= CreditLimit +
           MapThenSumSet(LAMBDA r : AtLeastZero(live[r].actual - Est),
                         {r \in Live : KeyOf(r) = "capped"})

\* The same of the daily counter, on the day each reservation was made, even
\* if the work ends after midnight.
DailyBalance ==
    \A k \in Key, d \in Day :
       /\ OwedDaily(k, d) <= daily[k][d]
       /\ daily[k][d] # OwedDaily(k, d) =>
             cut \in Job /\ KeyOf(cut) = k /\ daily[k][d] <= OwedDaily(k, d) + Est

\* Reconciliation hits the event of the very request: while the worker runs, an
\* event in the ring has the units its job owes, unless that job's own failed.
RingReconciled ==
    gateway = "up" =>
        \A r \in Req \ {cut} : ring[r] # Gone => ring[r] = IF r \in Job THEN JobUnits(r) ELSE LiveUnits(r)

\* The bytes of a succeeded job can be fetched until its time is up, whatever dies
\* or fails: the row refers to them only when they are there, and nothing but the
\* sweep removes them.  And nobody else's stay behind: not those of a job that was
\* cancelled, failed or expired, unless an operation of that very job was not made.
ResultsReferenced ==
    \A j \in Job :
       /\ row[j].status = "succeeded" => j \in file
       /\ j \in file => row[j].status \in {"succeeded", "due"} \/ cut = j

\* "it is the delivery buffer, TTL-deleted, referenced only by the job's
\* result_path": while the worker runs, only rows that the sweep will see have
\* bytes.  The code does not ensure this: what a crash or an error leaves between
\* file and row stays for good.  MCImageJobsStray.cfg shows it.
OnlyReferenced ==
    gateway = "up" => \A j \in file : row[j].status \in {"running", "succeeded", "due"}

\* While the worker runs, a queued row is in the queue, exactly once and with
\* its spec, and a running row is the one the worker holds.  (So processJob
\* never meets a queued id without a spec or with a row no longer queued.)
QueueMatchesRows ==
    gateway = "up" =>
        /\ IsInjective(queue)
        /\ Range(queue) = {j \in Job : row[j].status = "queued"}
        /\ Range(queue) \subseteq specs
        /\ \A j \in Job : row[j].status = "running" => worker.job = j

\* An owner's job ends, whatever maintenance does, and also behind a guest's job
\* that is paused for good; a guest's job ends once maintenance is over for good.
\* (A job that has ended does not come back, so that again and again none is
\* open means that each one ends.)
JobsEnd ==
    /\ []<>(Open \subseteq Guest)
    /\ []<>(Open = {}) \/ []<>(maint # "off")

=============================================================================
