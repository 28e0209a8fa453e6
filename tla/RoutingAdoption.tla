-------------------------- MODULE RoutingAdoption ---------------------------
(***************************************************************************)
(* Adopting a routing table: adoptRoutingTable and its rollback            *)
(* (routing-lifecycle.ts), the autonomy tick's crash journal and its       *)
(* reconciliation (autonomy-controller.ts), and the manual adopt command   *)
(* (scripts/routing-lifecycle-cli.ts), all under the mutation lease of     *)
(* mutation-lock.ts.  A tick first reconciles a pending intent that a      *)
(* crash left behind and then tries to adopt; the command adopts without a *)
(* journal.                                                                *)
(*                                                                         *)
(* Each action is one stretch of code between two points where another     *)
(* process can act and matter: it ends at an await, at a write and between *)
(* a check and the write that relies on it; reads that follow one another  *)
(* are one step.  The age of the lease is abstracted to a flag that the    *)
(* passage of time clears and a renewal sets; MutationLock has the clock.  *)
(* Of the journal's phases, planned, table-written and reloaded are one,   *)
(* "unconfirmed": no code tells them apart.  The journal itself is a plain *)
(* file: each write of it relies on a read that ended the step before, and *)
(* nothing keeps a process that stalls between the two from writing late.  *)
(*                                                                         *)
(* Definitions named X_bug are wrong variants of X that no specification   *)
(* uses.                                                                   *)
(***************************************************************************)
EXTENDS Integers

CONSTANTS
    Tick,          \* autonomy tick processes (a timer run may outlive its slot)
    Cli,           \* manual adopt commands
    Content,       \* contents of a routing table
    MaxToken,      \* bound of the model: leases granted
    MaxId,         \* bound of the model: intents written
    MaxFault       \* bound of the model: crashes and failed writes or reloads

Proc == Tick \cup Cli

NoTable == "no table"

Table == Content \cup {NoTable}

ASSUME ContentAssumption == NoTable \notin Content /\ Tick \cap Cli = {}

ASSUME BoundsAssumption == {MaxToken, MaxId, MaxFault} \subseteq Nat

VARIABLES
    table,      \* the routing table file
    tableToken, \* history: the lease token of the last write of the file
    trial,      \* history: whose candidate is on disk without having passed its
                \* canary: "tick", "first" (a tick's that replaced no table),
                \* "manual" or "none"
    gateway,    \* what the gateway loaded at its last reload
    lease,      \* the lease row: its token, and whether it is below the stale age
    nextToken,  \* the next token to mint
    intent,     \* adoption-intent.json, or NoIntent
    clobbered,  \* history: a pending intent was overwritten by another intent
    nextId,     \* the next intent id
    over,       \* history: the table each intent's candidate replaced
    records,    \* the watch records queued for the watchdog
    faults,     \* crashes and failures so far
    pc,         \* where each process is
    loc         \* its local variables

disk == <<table, tableToken, trial, over>>
leaseDb == <<lease, nextToken>>
journal == <<intent, clobbered, nextId>>
vars == <<disk, gateway, leaseDb, journal, records, faults, pc, loc>>

NoLease == [token |-> 0, fresh |-> FALSE]

NoIntent == [id |-> 0, cand |-> NoTable, prior |-> NoTable,
             phase |-> "unconfirmed", status |-> "none"]

Intent == [id : Nat, cand : Table, prior : Table,
           phase : {"unconfirmed", "canary-passed"},
           status : {"none", "pending", "finalized", "aborted"}]

\* A watch record.  Two fields are history: the lease it was inserted under,
\* and the table that the adopted candidate really replaced.
Record == [intentId : Nat, cand : Table, prior : Table, token : Nat, over : Table]

\* One run of a tick or a command: its lease token, whether it is reconciling,
\* the candidate, the table it was reviewed against, the snapshot meant for the
\* watch record, the snapshot a rollback restores, the table the candidate
\* replaced, the table read back for the canary, the intent as last loaded or
\* about to be written, whether the restore write succeeded, the status to be
\* journalled, and where it goes on after a write of the journal.
NoLoc == [token |-> 0, rec |-> FALSE, cand |-> NoTable, base |-> NoTable,
          snap |-> NoTable, prior |-> NoTable, over |-> NoTable,
          read |-> NoTable, mine |-> NoIntent, wrote |-> FALSE,
          status |-> "pending", next |-> "idle"]

Label == {"idle", "load", "restore", "restoreReload", "settle", "insert", "review",
          "snapshot", "acquire", "check", "journal", "write", "reload", "readBack",
          "canary", "put", "release"}

\* The type invariant.
TypeOK ==
    /\ table \in Table /\ gateway \in Table
    /\ tableToken \in Nat /\ trial \in {"none", "tick", "first", "manual"}
    /\ lease \in [token : Nat, fresh : BOOLEAN]
    /\ nextToken \in Nat \ {0} /\ nextId \in Nat \ {0} /\ faults \in Nat
    /\ intent \in Intent /\ clobbered \in BOOLEAN
    /\ over \in [1..MaxId -> Table]
    /\ records \subseteq Record
    /\ pc \in [Proc -> Label]
    /\ \A p \in Proc : loc[p].mine \in Intent /\ loc[p].token < nextToken

Init ==
    /\ table \in Table
    /\ tableToken = 0
    /\ trial = "none"
    /\ gateway = table
    /\ lease = NoLease
    /\ nextToken = 1
    /\ intent = NoIntent
    /\ clobbered = FALSE
    /\ nextId = 1
    /\ over = [i \in 1..MaxId |-> NoTable]
    /\ records = {}
    /\ faults = 0
    /\ pc = [p \in Proc |-> "idle"]
    /\ loc = [p \in Proc |-> NoLoc]

-----------------------------------------------------------------------------
(* The lease and the journal.                                              *)

isLeaseCurrent(t) == lease # NoLease /\ lease.token = t

Current(p) == isLeaseCurrent(loc[p].token)

Goto(p, l) == pc' = [pc EXCEPT ![p] = l]

Finish(p) == Goto(p, "idle") /\ loc' = [loc EXCEPT ![p] = NoLoc]

Fault == faults < MaxFault /\ faults' = faults + 1

\* fencedWrite's transaction is open: the table is written, its mark is not yet.
InTransaction == \E q \in Tick : pc[q] = "put" /\ loc[q].next = "reload"

\* acquireMutationLock succeeds: no row, or a row past the stale age.  It waits
\* for SQLite's writer lock.
Grant(p) ==
    /\ ~InTransaction
    /\ lease = NoLease \/ ~lease.fresh
    /\ nextToken <= MaxToken
    /\ lease' = [token |-> nextToken, fresh |-> TRUE]
    /\ nextToken' = nextToken + 1

\* acquireMutationLock throws MutationLockBusyError.
Refused == lease # NoLease /\ lease.fresh

\* releaseMutationLock in the finally block.
Unlock(p) ==
    /\ lease' = IF Current(p) THEN NoLease ELSE lease
    /\ UNCHANGED nextToken

\* The lease grows past the stale age since it was acquired or renewed.
LeaseAges ==
    /\ Refused
    /\ lease' = [lease EXCEPT !.fresh = FALSE]
    /\ UNCHANGED <<disk, gateway, nextToken, journal, records, faults, pc, loc>>

\* saveAdoptionIntent's single-slot guard; it throws when this is false.
MaySave(i) == intent.status = "pending" => intent.id = i.id

\* saveAdoptionIntent has read the file and found that it may write: p is about
\* to replace it by i, and goes on at l.
WillPut(p, i, l) ==
    /\ loc' = [loc EXCEPT ![p].mine = i, ![p].next = l]
    /\ Goto(p, "put")

\* instrumentAdoptDepsForIntent's markPhase, after the candidate's write, a
\* reload and the canary: a tick's own pending intent is to be marked before it
\* goes on at l with the local variables x.  The command has no journal.
MarkPhase(p, x, l) ==
    IF p \in Tick /\ intent.id = x.mine.id /\ intent.status = "pending"
      THEN /\ loc' = [loc EXCEPT ![p] = [x EXCEPT !.next = l,
                        !.mine = [intent EXCEPT !.phase =
                                    IF l = "insert" THEN "canary-passed" ELSE "unconfirmed"]]]
           /\ Goto(p, "put")
      ELSE Goto(p, l) /\ loc' = [loc EXCEPT ![p] = x]

\* The candidate reaches the disk under p's lease.
PutCandidate(p) ==
    /\ table' = loc[p].cand
    /\ tableToken' = loc[p].token
    /\ trial' = IF p \in Cli THEN "manual" ELSE IF table = NoTable THEN "first" ELSE "tick"
    /\ over' = IF p \in Tick THEN [over EXCEPT ![loc[p].mine.id] = table] ELSE over

-----------------------------------------------------------------------------
(* The tick, step 0: reconcileAdoptionIntent.                              *)

\* Reconcile takes the lease before it loads the intent.  On a busy lease it
\* defers, and the tick attempts no adoption: no step.
TickStart(p) ==
    /\ p \in Tick /\ pc[p] = "idle"
    /\ Grant(p)
    /\ loc' = [loc EXCEPT ![p].token = nextToken, ![p].rec = TRUE]
    /\ Goto(p, "load")
    /\ UNCHANGED <<disk, gateway, journal, records, faults>>

\* Nothing pending: release the lease and go on to review.
LoadNone(p) ==
    /\ pc[p] = "load"
    /\ intent.status # "pending"
    /\ Unlock(p)
    /\ Goto(p, "review")
    /\ loc' = [loc EXCEPT ![p] = NoLoc]
    /\ UNCHANGED <<disk, gateway, journal, records, faults>>

LoadPending_bug(p) ==
    /\ pc[p] = "load"
    /\ intent.status = "pending"
    /\ LET live == table = intent.cand
       IN  /\ Goto(p, IF intent.phase # "canary-passed" THEN "restore"
                      ELSE IF live THEN "insert" ELSE "settle")
           /\ loc' = [loc EXCEPT ![p].mine = intent, ![p].prior = intent.prior,
                                 ![p].snap = intent.prior, ![p].cand = intent.cand,
                                 ![p].status = IF live THEN "finalized" ELSE "aborted"]
    /\ UNCHANGED <<disk, gateway, leaseDb, journal, records, faults>>

\* A pending intent: short of canary-passed its snapshot is restored; with the
\* canary passed it is aborted if the live table is no longer the candidate,
\* else finalized, with the watch record of its id or with a new one.
LoadPending(p) ==
    /\ pc[p] = "load"
    /\ intent.status = "pending"
    /\ LET live == table = intent.cand
           watched == \E r \in records : r.intentId = intent.id
       IN  /\ Goto(p, IF intent.phase # "canary-passed" THEN "restore"
                      ELSE IF live /\ ~watched THEN "insert" ELSE "settle")
           /\ loc' = [loc EXCEPT ![p].mine = intent, ![p].prior = intent.prior,
                                 ![p].snap = intent.prior, ![p].cand = intent.cand,
                                 ![p].status = IF live THEN "finalized" ELSE "aborted"]
    /\ UNCHANGED <<disk, gateway, leaseDb, journal, records, faults>>

-----------------------------------------------------------------------------
(* Rollback: performRollback and deleteTableAndReload.                     *)

\* With no prior table, reconcile deletes the file (deleteTableAndReload), but
\* adoptRoutingTable's own rollback writes nothing and counts that as done.
RestoreWrites(p) == loc[p].rec \/ loc[p].prior # NoTable

\* The fenced restore of the prior bytes.  A stale token refuses, a disk error
\* fails.  (After a candidate write that failed, the restore is the first write
\* and so marks the intent as written: it is unconfirmed with or without that.)
Restore(p) ==
    /\ pc[p] = "restore"
    /\ \/ /\ ~RestoreWrites(p)
          /\ loc' = [loc EXCEPT ![p].wrote = TRUE]
          /\ UNCHANGED <<disk, faults>>
       \/ /\ RestoreWrites(p)
          /\ Current(p)
          /\ table' = loc[p].prior
          /\ tableToken' = loc[p].token
          /\ trial' = "none"
          /\ loc' = [loc EXCEPT ![p].wrote = TRUE]
          /\ UNCHANGED <<over, faults>>
       \/ /\ RestoreWrites(p)
          /\ IF Current(p) THEN Fault ELSE UNCHANGED faults
          /\ UNCHANGED <<disk, loc>>
    /\ Goto(p, "restoreReload")
    /\ UNCHANGED <<gateway, leaseDb, journal, records>>

\* reloadAndRenew: one POST to the gateway, then a best-effort renewal.  A
\* failed or timed-out reload may or may not have reached the gateway.
Reload(p, ok) ==
    /\ IF ok THEN gateway' = table /\ UNCHANGED faults
             ELSE gateway' \in {gateway, table} /\ Fault
    /\ lease' = IF Current(p) THEN [lease EXCEPT !.fresh = TRUE] ELSE lease
    /\ UNCHANGED nextToken

\* The reload after a restore is attempted whatever became of the write.  Only
\* a restore that was written and reloaded closes the intent.
RestoreReload(p) ==
    /\ pc[p] = "restoreReload"
    /\ \E ok \in BOOLEAN :
         /\ Reload(p, ok)
         /\ LET x == [loc[p] EXCEPT !.status = IF loc[p].wrote /\ ok THEN "aborted" ELSE "pending"]
                l == IF p \in Cli THEN "release" ELSE "settle"
            IN  IF ok /\ ~loc[p].rec THEN MarkPhase(p, x, l)
                                     ELSE Goto(p, l) /\ loc' = [loc EXCEPT ![p] = x]
    /\ UNCHANGED <<disk, journal, records>>

-----------------------------------------------------------------------------
(* The writes of the journal, shared by both paths.                        *)

\* atomicWriteFile of saveAdoptionIntent, whatever is in the file by now.
PutIntent(p) ==
    /\ pc[p] = "put"
    /\ intent' = loc[p].mine
    /\ clobbered' = (clobbered \/ ~MaySave(loc[p].mine))
    /\ Goto(p, loc[p].next)
    /\ UNCHANGED <<disk, gateway, leaseDb, nextId, records, faults, loc>>

\* It throws.  The mark of the write or of the reload then leads to the rollback,
\* that of the rollback's reload counts as a failed reload, and any other failure
\* ends the tick.
PutFails(p) ==
    /\ pc[p] = "put"
    /\ Fault
    /\ \/ /\ loc[p].next \in {"reload", "readBack"}
          /\ Goto(p, "restore")
          /\ UNCHANGED <<loc, leaseDb>>
       \/ /\ loc[p].next = "settle"
          /\ Goto(p, "settle")
          /\ loc' = [loc EXCEPT ![p].status = "pending"]
          /\ UNCHANGED leaseDb
       \/ /\ loc[p].next \in {"write", "insert", "release"}
          /\ Finish(p)
          /\ Unlock(p)
    /\ UNCHANGED <<disk, gateway, journal, records>>

Settle_bug(p) ==
    LET i == [IF loc[p].rec THEN loc[p].mine ELSE intent EXCEPT !.status =
                IF loc[p].status = "pending" THEN "aborted" ELSE loc[p].status]
    IN  /\ pc[p] = "settle"
        /\ IF i.id = loc[p].mine.id /\ Current(p) /\ MaySave(i)
             THEN WillPut(p, i, "release") /\ UNCHANGED leaseDb
             ELSE Finish(p) /\ Unlock(p)
        /\ UNCHANGED <<disk, gateway, journal, records, faults>>

\* The outcome is to be journalled.  runAutonomyTick loads its intent again, and
\* has nothing to settle if it is another's by now; reconcile uses what it
\* loaded first.  assertLeaseCurrent leaves the intent of a stale lease to the
\* next tick, and saveAdoptionIntent's guard may throw.  A status still pending
\* is the failure mark.
Settle(p) ==
    LET i == [IF loc[p].rec THEN loc[p].mine ELSE intent EXCEPT !.status = loc[p].status]
    IN  /\ pc[p] = "settle"
        /\ IF i.id = loc[p].mine.id /\ Current(p) /\ MaySave(i)
             THEN WillPut(p, i, "release") /\ UNCHANGED leaseDb
             ELSE Finish(p) /\ Unlock(p)
        /\ UNCHANGED <<disk, gateway, journal, records, faults>>

\* recordAdoptionForWatch: token check and insert in one transaction.  A stale
\* token throws, which ends the tick or the command.
Insert(p) ==
    LET id == loc[p].mine.id
        r == [intentId |-> id, cand |-> loc[p].cand, prior |-> loc[p].snap,
              token |-> loc[p].token,
              over |-> IF p \in Tick THEN over[id] ELSE loc[p].over]
    IN  /\ pc[p] = "insert"
        /\ IF Current(p)
             THEN /\ records' = records \cup {r}
                  /\ loc' = [loc EXCEPT ![p].status = "finalized"]
                  /\ Goto(p, IF p \in Cli THEN "release" ELSE "settle")
                  /\ UNCHANGED leaseDb
             ELSE Finish(p) /\ Unlock(p) /\ UNCHANGED records
        /\ UNCHANGED <<disk, gateway, journal, faults>>

-----------------------------------------------------------------------------
(* Review and adoption.                                                    *)

\* REVIEW reads the live table as the baseline and proposes a candidate that
\* differs from it; a tick may find nothing eligible.
Review(p) ==
    /\ IF p \in Tick THEN pc[p] = "review" ELSE pc[p] = "idle"
    /\ \/ \E c \in Content \ {table} :
            /\ loc' = [loc EXCEPT ![p].base = table, ![p].cand = c]
            /\ Goto(p, IF p \in Cli THEN "snapshot" ELSE "acquire")
       \/ p \in Tick /\ Finish(p)
    /\ UNCHANGED <<disk, gateway, leaseDb, journal, records, faults>>

\* cmdAdopt reads priorRawForWatchdog before it takes the lease.
Snapshot(p) ==
    /\ pc[p] = "snapshot"
    /\ loc' = [loc EXCEPT ![p].snap = table]
    /\ Goto(p, "acquire")
    /\ UNCHANGED <<disk, gateway, leaseDb, journal, records, faults>>

\* A refusal before the write: the command stops, the tick stops or tries the
\* next eligible axis of the same review.
NextAxis(p) ==
    \/ Finish(p)
    \/ /\ p \in Tick
       /\ \E c \in Content \ {loc[p].base, loc[p].cand} :
            loc' = [loc EXCEPT ![p] = [NoLoc EXCEPT !.base = loc[p].base, !.cand = c]]
       /\ Goto(p, "acquire")

Acquire(p) ==
    /\ pc[p] = "acquire"
    /\ \/ /\ Grant(p)
          /\ loc' = [loc EXCEPT ![p].token = nextToken]
          /\ Goto(p, "check")
       \/ Refused /\ NextAxis(p) /\ UNCHANGED leaseDb
    /\ UNCHANGED <<disk, gateway, journal, records, faults>>

Check_bug(p) ==
    /\ pc[p] = "check"
    /\ loc' = [loc EXCEPT ![p].prior = table, ![p].snap = loc[p].base]
    /\ Goto(p, IF p \in Tick THEN "journal" ELSE "write")
    /\ UNCHANGED <<disk, gateway, leaseDb, journal, records, faults>>

\* Under the lease: refuse if the live table is not the reviewed baseline.
\* The tick's snapshot is this very read; the command keeps its earlier one
\* for the watch record.
Check(p) ==
    /\ pc[p] = "check"
    /\ IF table = loc[p].base
         THEN /\ loc' = [loc EXCEPT ![p].prior = table,
                                    ![p].snap = IF p \in Tick THEN table ELSE @]
              /\ Goto(p, IF p \in Tick THEN "journal" ELSE "write")
              /\ UNCHANGED leaseDb
         ELSE NextAxis(p) /\ Unlock(p)
    /\ UNCHANGED <<disk, gateway, journal, records, faults>>

\* The intent is journalled before the table is written; the single-slot guard
\* throws if another intent is still pending, which ends the tick.
Journal(p) ==
    LET i == [id |-> nextId, cand |-> loc[p].cand, prior |-> loc[p].prior,
              phase |-> "unconfirmed", status |-> "pending"]
    IN  /\ pc[p] = "journal"
        /\ nextId <= MaxId
        /\ nextId' = nextId + 1
        /\ IF MaySave(i) THEN WillPut(p, i, "write") /\ UNCHANGED leaseDb
                         ELSE Finish(p) /\ Unlock(p)
        /\ UNCHANGED <<disk, gateway, intent, clobbered, records, faults>>

Write_bug(p) ==
    /\ pc[p] = "write"
    /\ PutCandidate(p)
    /\ MarkPhase(p, [loc[p] EXCEPT !.over = table], "reload")
    /\ UNCHANGED <<gateway, leaseDb, journal, records, faults>>

\* The fenced candidate write.
Write(p) ==
    /\ pc[p] = "write"
    /\ Current(p)
    /\ PutCandidate(p)
    /\ MarkPhase(p, [loc[p] EXCEPT !.over = table], "reload")
    /\ UNCHANGED <<gateway, leaseDb, journal, records, faults>>

\* The write throws a disk error, of the table or of the phase mark after it:
\* the rollback follows.
WriteFails(p) ==
    /\ pc[p] = "write"
    /\ Current(p)
    /\ Fault
    /\ PutCandidate(p) \/ UNCHANGED disk
    /\ Goto(p, "restore")
    /\ UNCHANGED <<gateway, leaseDb, journal, records, loc>>

\* A stale token throws before anything is written.  The tick leaves its
\* intent pending: the assertion before the journal write fails as well.
WriteStale(p) ==
    /\ pc[p] = "write"
    /\ ~Current(p)
    /\ NextAxis(p)
    /\ UNCHANGED <<disk, gateway, leaseDb, journal, records, faults>>

\* The reload after the candidate write.
ReloadCandidate(p) ==
    /\ pc[p] = "reload"
    /\ \/ Reload(p, TRUE) /\ MarkPhase(p, loc[p], "readBack")
       \/ Reload(p, FALSE) /\ Goto(p, "restore") /\ UNCHANGED loc
    /\ UNCHANGED <<disk, journal, records>>

\* The table is read back; the servable-model list is awaited next.
ReadBack(p) ==
    /\ pc[p] = "readBack"
    /\ loc' = [loc EXCEPT ![p].read = table]
    /\ Goto(p, IF table = NoTable THEN "restore" ELSE "canary")
    /\ UNCHANGED <<disk, gateway, leaseDb, journal, records, faults>>

\* runCanary: the routes read back are the candidate's; that its models are
\* servable is up to the gateway.
CanaryPasses(p, servable) == servable /\ loc[p].read = loc[p].cand

\* onCanaryPassed marks the journal; a failure rolls back.
Canary(p) ==
    /\ pc[p] = "canary"
    /\ \/ /\ CanaryPasses(p, TRUE)
          /\ trial' = IF table = loc[p].cand THEN "none" ELSE trial
          /\ MarkPhase(p, loc[p], "insert")
       \/ /\ \E servable \in BOOLEAN : ~CanaryPasses(p, servable)
          /\ Goto(p, "restore")
          /\ UNCHANGED <<loc, trial>>
    /\ UNCHANGED <<table, tableToken, over, gateway, leaseDb, journal, records, faults>>

\* The finally block.  A tick whose reconcile settled the intent goes on to
\* review.
Release(p) ==
    /\ pc[p] = "release"
    /\ Unlock(p)
    /\ Goto(p, IF loc[p].rec /\ loc[p].status # "pending" THEN "review" ELSE "idle")
    /\ loc' = [loc EXCEPT ![p] = NoLoc]
    /\ UNCHANGED <<disk, gateway, journal, records, faults>>

\* The process dies, possibly inside the fenced write with the table on disk.
Crash(p) ==
    /\ pc[p] # "idle"
    /\ Fault
    /\ Finish(p)
    /\ \/ UNCHANGED disk
       \/ pc[p] = "write" /\ Current(p) /\ PutCandidate(p)
    /\ UNCHANGED <<gateway, leaseDb, journal, records>>

Step(p) ==
    \/ TickStart(p) \/ LoadNone(p) \/ LoadPending(p)
    \/ Restore(p) \/ RestoreReload(p)
    \/ PutIntent(p) \/ PutFails(p) \/ Settle(p) \/ Insert(p)
    \/ Review(p) \/ Snapshot(p) \/ Acquire(p) \/ Check(p) \/ Journal(p)
    \/ Write(p) \/ WriteFails(p) \/ WriteStale(p)
    \/ ReloadCandidate(p) \/ ReadBack(p) \/ Canary(p)
    \/ Release(p) \/ Crash(p)

Next == LeaseAges \/ \E p \in Proc : Step(p)

Spec == Init /\ [][Next]_vars

-----------------------------------------------------------------------------

\* Every write of the routing table, by a candidate or by a rollback, is made
\* under the newest lease token: adoption implements the fenced resource.
Fenced == INSTANCE FencedResource WITH minted <- nextToken - 1, written <- tableToken

TableWritesAreFenced == Fenced!Spec

\* A table that a tick wrote over another one and that never passed its canary
\* is covered by a pending intent for that very candidate, so the next tick's
\* reconcile will undo it: no crash, stale lease, failed rollback or failed write
\* of the journal leaves it live with the journal closed.  Only a tick that read
\* the journal, stalled until the lease was taken from it, and wrote it when
\* another tick had an intent pending can take that cover away.
UnconfirmedIsJournalled ==
    ~clobbered /\ trial = "tick" => intent.status = "pending" /\ intent.cand = table

\* A finalized intent has a watch record, and exactly one: neither a crash
\* between the insert and the journal write nor a reconcile that takes over
\* from a stalled tick loses or doubles it.
FinalizedIsWatchedOnce ==
    /\ intent.status = "finalized" => \E r \in records : r.intentId = intent.id
    /\ \A r, s \in records : r.intentId = s.intentId /\ r.intentId # 0 => r = s

\* A watch record is queued only for a table that is live at that moment, and a
\* tick's record keeps the table that the adoption replaced, also when a reconcile
\* writes it.  The insert checks the lease, not the table: no other process can
\* have replaced the table while the lease is still this one's.
RecordsAreTrue ==
    [][ \A r \in records' \ records :
          r.cand = table /\ (r.intentId # 0 => r.prior = r.over) ]_vars

=============================================================================
