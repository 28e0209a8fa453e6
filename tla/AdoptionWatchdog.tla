-------------------------- MODULE AdoptionWatchdog --------------------------
(***************************************************************************)
(* The post-adoption watchdog of adoption-watchdog.ts.  Every adoption     *)
(* leaves a watch record; runs of the watch (cron, the autonomy tick, the  *)
(* command line) evaluate the records and undo an adoption whose guard     *)
(* metrics regressed: claim the record, look at the live table, restore    *)
(* all of it or only the axes that still carry the bad value, reload the   *)
(* gateway, confirm, finalize.                                             *)
(*                                                                         *)
(* The mutation lease is here what MutationLock shows it to be: one row,   *)
(* tokens that are never minted twice, and writes that compare the token   *)
(* in their own transaction.  A table is what it routes each axis to; a    *)
(* route is the number of the adoption that put it there, 0 if none did:   *)
(* no two adoptions bring the same model to an axis.  What the gateway has *)
(* loaded is left to RoutingAdoption.  The metrics are an input: any       *)
(* verdict is possible at any time.                                        *)
(*                                                                         *)
(* An adoption is on trial from its write until it is recorded.  It may be *)
(* rolled back, or die and leave its intent to the next tick's             *)
(* reconciliation, and runs of the watch may come in between.              *)
(*                                                                         *)
(* Definitions named X_bug are wrong variants of X; no specification uses  *)
(* them, they show that the properties below can fail.                     *)
(***************************************************************************)
EXTENDS Integers, Sequences, FiniteSetsExt, TLC

CONSTANTS
    Axis,       \* task types
    Runner,     \* processes that run the watch
    None,       \* no table, no token, no merge under way
    Kept,       \* whether records keep the candidate's bytes: old ones do not
    Ticks,      \* whether the autonomy timer is installed
    MaxRec,     \* bound of the model: adoptions
    MaxFault    \* bound of the model: crashes, stalls, failed calls, kill switches

Route == 0..MaxRec
Token == 1..(2 + (1 + MaxRec) * (1 + Cardinality(Runner)))
Table == [Axis -> Route]

ASSUME WatchAssumption ==
    /\ IsFiniteSet(Runner) /\ Kept \subseteq BOOLEAN /\ Ticks \in BOOLEAN
    /\ MaxRec \in Nat /\ MaxFault \in Nat
    /\ None \notin Token /\ None \notin Table

VARIABLES
    table,      \* the routing table's file
    adopted,    \* what each record says for good: axes, candidate, snapshot, and
                \* whether it was made with the candidate's bytes
    row,        \* and what changes of it
    trial,      \* the adoption that is under way
    intent,     \* the pending intent of the tick's journal: its adoption, 0 if
                \* there is none, and whether the canary has passed
    quarantine, \* axes with a quarantine entry
    lease,      \* the token in the lease row, or None
    fresh,      \* whether the row is younger than the stale age
    kill,       \* AUTONOMY_KILL_SWITCH
    run,        \* each runner: where it is and what it remembers
    faults

store == <<adopted, row, quarantine>>
adoption == <<trial, intent>>
lock == <<lease, fresh>>
vars == <<table, store, adoption, lock, kill, run, faults>>

Rec == DOMAIN adopted
\* Of a record; of an adoption that has none, because it is on trial or was left
\* there, or because its rollback or a reconciliation restored its snapshot.
Statuses == {"pending", "reverting", "resolved", "breach", "superseded", "trial", "undone"}
Unwatched == Statuses \ {"pending", "reverting"}

Row == [status : Statuses, token : Token \cup {None}, breached : SUBSET Axis,
        merge : Table \cup {None}, mergeAxes : SUBSET Axis, kept : BOOLEAN]
Fresh == [status |-> "pending", token |-> None, breached |-> {}, merge |-> None, mergeAxes |-> {}, kept |-> TRUE]

\* What is left of a record that a run has done with.
Done == [Fresh EXCEPT !.status = "resolved"]
Forget(seen, r) == [q \in DOMAIN seen |-> IF q <= r \/ seen[q].status \in Unwatched THEN Done ELSE seen[q]]

NoTrial == [at |-> "none", of |-> 0, token |-> None]
NoIntent == [of |-> 0, passed |-> FALSE]

\* A runner at rest remembers nothing.
Idle == [pc |-> "idle", seen |-> <<>>, at |-> 0, killed |-> FALSE, hits |-> {}, token |-> None, live |-> None,
         plan |-> {}, target |-> None, partial |-> FALSE, wrote |-> FALSE, outcome |-> None]

Pcs == {"idle", "next", "claim", "read", "tidy", "mark", "write", "delete", "reload", "confirm", "finish", "release"}

TypeOK ==
    /\ table \in Table \cup {None}
    /\ adopted \in Seq([axes : SUBSET Axis, cand : Table, snap : Table \cup {None}, kept : BOOLEAN])
    /\ row \in Seq(Row) /\ Len(row) = Len(adopted)
    /\ quarantine \in SUBSET Axis
    /\ trial.at \in {"none", "written", "read", "passed"} /\ intent.of \in 0..Len(row)
    /\ lease \in Token \cup {None} /\ fresh \in BOOLEAN
    /\ kill \in BOOLEAN /\ faults \in 0..MaxFault
    /\ \A p \in Runner : run[p].pc \in Pcs /\ run[p].at \in 0..Len(row) /\ run[p].token \in Token \cup {None}

Init ==
    /\ table \in {None, [a \in Axis |-> 0]}
    /\ adopted = <<>> /\ row = <<>> /\ quarantine = {}
    /\ trial = NoTrial /\ intent = NoIntent
    /\ lease = None /\ fresh = FALSE
    /\ kill = FALSE
    /\ run = [p \in Runner |-> Idle]
    /\ faults = 0

-----------------------------------------------------------------------------
(* The lease and the claim                                                 *)

\* acquireMutationLock succeeds over no row or a stale one.
LeaseFree == lease = None \/ ~fresh

\* next_token: one that no row and nobody's memory refers to.
Minted ==
    CHOOSE t \in Token :
       /\ t # lease /\ t # trial.token /\ \A r \in Rec : t # row[r].token
       /\ \A p \in Runner : t # run[p].token /\ \A r \in DOMAIN run[p].seen : t # run[p].seen[r].token

isLeaseCurrent(t) == t # None /\ lease = t

Goto(p, l) == run' = [run EXCEPT ![p].pc = l]

Cand(r) == adopted[r].cand
Snap(r) == adopted[r].snap

\* The record that p has in hand.
Here(p) == run[p].at

\* Its row.
Held(p) == row[Here(p)]

\* WHERE status = 'reverting' AND reverting_token = ?
Claimed(p) == Held(p).status = "reverting" /\ Held(p).token = run[p].token

\* An update of the row in hand to x, which takes effect only under the claim.
Update(p, x) == row' = IF Claimed(p) THEN [row EXCEPT ![Here(p)] = x] ELSE row

Fault == faults < MaxFault /\ faults' = faults + 1

-----------------------------------------------------------------------------
(* Adoptions                                                               *)

\* The snapshot of adoption n, which has no record, was restored.
Restored(n) == [row EXCEPT ![n].status = "undone"]

Goes(x) == trial' = x /\ intent' = intent
Ends(of) == trial' = NoTrial /\ intent' = IF intent.of = of THEN NoIntent ELSE intent

\* The lease of the adoption under way is current; it is given back.
Ours == isLeaseCurrent(trial.token)
GivesBack == lease' = (IF Ours THEN None ELSE lease) /\ fresh' = (fresh /\ ~Ours)

\* An adoption of these axes is written over the table that it was reviewed
\* against, under a lease of its own: by a tick, which journals an intent first
\* and has none to reconcile, or by the command, which keeps no journal.  A tick
\* may die, or lose its lease, after the intent and before the write.  (A tick that
\* sees an unresolved revert does not adopt: one that looked before it may.)
Adopt(axes, kept, manual) ==
    /\ Len(adopted) < MaxRec /\ LeaseFree /\ trial = NoTrial
    /\ axes # {} /\ (table = None => axes = Axis)
    /\ ~manual => intent = NoIntent /\ (table = None \/ Cardinality(axes) = 1)
    /\ LET n == Len(adopted) + 1
           cand == [a \in Axis |-> IF a \in axes THEN n ELSE table[a]]
       IN /\ adopted' = Append(adopted, [axes |-> axes, cand |-> cand, snap |-> table, kept |-> kept])
          /\ row' = Append(row, [Fresh EXCEPT !.status = "trial", !.kept = kept])
          /\ intent' = IF manual THEN intent ELSE [of |-> n, passed |-> FALSE]
          /\ \/ table' = cand /\ trial' = [at |-> "written", of |-> n, token |-> Minted] /\ UNCHANGED faults
             \/ ~manual /\ Fault /\ UNCHANGED <<table, trial>>
    /\ lease' = Minted /\ fresh' = TRUE
    /\ UNCHANGED <<quarantine, kill, run>>

\* The gateway has reloaded, which renews the lease, and the table is read back.
ReadBack ==
    /\ trial.at = "written"
    /\ table # None /\ \A a \in adopted[trial.of].axes : table[a] = trial.of
    /\ Goes([trial EXCEPT !.at = "read"])
    /\ fresh' = (fresh \/ Ours)
    /\ UNCHANGED <<table, store, lease, kill, run, faults>>

\* onCanaryPassed marks the intent, if it is still pending.
CanaryPasses ==
    /\ trial.at = "read"
    /\ trial' = [trial EXCEPT !.at = "passed"]
    /\ intent' = [intent EXCEPT !.passed = @ \/ intent.of = trial.of]
    /\ UNCHANGED <<table, store, lock, kill, run, faults>>

\* recordAdoptionForWatch under the lease, and the intent is finalized; the tick
\* may die between the two.  A stale token throws, and leaves the intent pending.
RecordAdoption ==
    /\ trial.at = "passed"
    /\ IF Ours
       THEN /\ row' = [row EXCEPT ![trial.of].status = "pending"]
            /\ \/ Ends(trial.of) /\ UNCHANGED faults
               \/ intent.of = trial.of /\ Fault /\ Goes(NoTrial)
       ELSE Goes(NoTrial) /\ UNCHANGED <<row, faults>>
    /\ GivesBack
    /\ UNCHANGED <<table, adopted, quarantine, kill, run>>

\* performRollback: the reload, the reading back or the canary failed.  Over no
\* table it restores nothing and counts that as done.  A restore or a reload that
\* fails, or the tick's death, leaves the intent pending, and so does a stale lease.
RollBack ==
    /\ trial.at \in {"written", "read"}
    /\ LET undo == IF Snap(trial.of) = None THEN UNCHANGED <<table, row>>
                   ELSE table' = Snap(trial.of) /\ row' = Restored(trial.of)
       IN IF Ours
          THEN \/ undo /\ Ends(trial.of) /\ UNCHANGED faults
               \/ Fault /\ (undo \/ UNCHANGED <<table, row>>) /\ Goes(NoTrial)
          ELSE Goes(NoTrial) /\ UNCHANGED <<table, row, faults>>
    /\ GivesBack
    /\ UNCHANGED <<adopted, quarantine, kill, run>>

\* The tick or the command is killed; its lease row stays.
AdoptionDies ==
    /\ trial # NoTrial /\ Fault /\ Goes(NoTrial)
    /\ UNCHANGED <<table, store, lock, kill, run>>

\* reconcileAdoptionIntent, which begins a tick, under a lease that it takes and
\* gives back.  Short of the canary the snapshot is restored, or the table deleted
\* if there was none; after it, a candidate that is still live gets the record that
\* it lacks, and any other is given up.  A call that fails, or the tick's death,
\* leaves the intent pending.
Tick ==
    /\ Ticks /\ LeaseFree /\ (lease # None \/ intent # NoIntent)
    /\ LET n == intent.of
           act == IF n = 0 THEN UNCHANGED <<table, row>>
                  ELSE IF ~intent.passed THEN table' = Snap(n) /\ row' = Restored(n)
                  ELSE IF table = Cand(n) /\ row[n].status = "trial"
                  THEN row' = [row EXCEPT ![n].status = "pending"] /\ UNCHANGED table
                  ELSE UNCHANGED <<table, row>>
       IN \/ act /\ intent' = NoIntent /\ UNCHANGED faults
          \/ n # 0 /\ Fault /\ (act \/ UNCHANGED <<table, row>>) /\ UNCHANGED intent
    /\ lease' = None
    /\ UNCHANGED <<adopted, quarantine, trial, fresh, kill, run>>

-----------------------------------------------------------------------------
(* A run of the watch                                                      *)

\* runAdoptionWatch reads the kill switch and all records once.
Begin(p) ==
    /\ run[p].pc = "idle" /\ row # <<>>
    /\ run' = [run EXCEPT ![p].pc = "next", ![p].seen = Forget(row, 0), ![p].killed = kill]
    /\ UNCHANGED <<table, store, adoption, lock, kill, faults>>

\* The loaded records that are still to be looked at.
Todo(p) == {r \in DOMAIN run[p].seen : r > Here(p) /\ run[p].seen[r].status \notin Unwatched}
Turn(p) == Min(Todo(p))
Looks(p, status) == run[p].pc = "next" /\ Todo(p) # {} /\ run[p].seen[Turn(p)].status = status

End(p) ==
    /\ run[p].pc = "next" /\ Todo(p) = {}
    /\ run' = [run EXCEPT ![p] = Idle]
    /\ UNCHANGED <<table, store, adoption, lock, kill, faults>>

\* On to the next record.
Passes(p) == run' = [run EXCEPT ![p].at = Turn(p), ![p].seen = Forget(run[p].seen, Turn(p))]
Skip(p) == Passes(p) /\ UNCHANGED <<table, store, adoption, lock, kill, faults>>

\* acquireMutationLock, for a revert of these axes.
Acquire(p, axes) ==
    /\ LeaseFree
    /\ lease' = Minted /\ fresh' = TRUE
    /\ run' = [run EXCEPT ![p].at = Turn(p), ![p].hits = axes, ![p].token = Minted, ![p].pc = "claim"]
    /\ UNCHANGED <<table, store, adoption, kill, faults>>

\* The window is still open.
Watching(p) == Looks(p, "pending") /\ Skip(p)

\* commitRecordResolution: healthy or inconclusive, and nothing is done.
Resolve(p) ==
    /\ Looks(p, "pending")
    /\ row' = IF row[Turn(p)].status = "pending" THEN [row EXCEPT ![Turn(p)].status = "resolved"] ELSE row
    /\ Passes(p)
    /\ UNCHANGED <<table, adopted, quarantine, adoption, lock, kill, faults>>

\* A breach on some of the axes.
Breach(p) ==
    /\ Looks(p, "pending")
    /\ IF run[p].killed \/ ~LeaseFree
       THEN Skip(p)
       ELSE \E axes \in SUBSET adopted[Turn(p)].axes \ {{}} : Acquire(p, axes)

Recover_bug(p) == Looks(p, "reverting") /\ Skip(p)

\* recoverStuckReverting, unless the claim's lease is current.
Recover(p) ==
    /\ Looks(p, "reverting")
    /\ IF isLeaseCurrent(run[p].seen[Turn(p)].token) \/ run[p].killed \/ ~LeaseFree
       THEN Skip(p)
       ELSE Acquire(p, run[p].seen[Turn(p)].breached)

\* claimForReverting: from pending, or over the very claim that was seen.
Claim(p) ==
    /\ run[p].pc = "claim"
    /\ LET r == Here(p)
           mine == run[p].seen[r]
           won == row[r].status = mine.status /\ (mine.status = "reverting" => row[r].token = mine.token)
       IN /\ row' = IF ~won THEN row
                    ELSE [row EXCEPT ![r].status = "reverting", ![r].token = run[p].token,
                             ![r].breached = IF mine.status = "pending" THEN run[p].hits ELSE @]
          /\ Goto(p, IF ~won THEN "release" ELSE IF Snap(r) = None THEN "delete" ELSE "read")
    /\ UNCHANGED <<table, adopted, quarantine, adoption, lock, kill, faults>>

\* The end of the attempt: what the record keeps of a merge, if it is not closed.
Ended(p, outcome, merge, axes) ==
    run' = [run EXCEPT ![p].pc = "finish", ![p].outcome = outcome, ![p].target = merge, ![p].plan = axes,
                       ![p].live = None, ![p].partial = FALSE, ![p].wrote = FALSE]
Close(p, outcome) == Ended(p, outcome, None, {})
Fail(p, merge, axes) == Ended(p, "failed", merge, axes)

\* What the record knew of a merge when it was loaded.
Entering(p) == run[p].seen[Here(p)].merge
EnteringAxes(p) == run[p].seen[Here(p)].mergeAxes

\* The live table is read.  An error is not an answer, and forgets nothing.
Read(p) ==
    /\ run[p].pc = "read"
    /\ \/ run' = [run EXCEPT ![p].pc = "tidy", ![p].live = table] /\ UNCHANGED faults
       \/ Fault /\ Fail(p, Entering(p), EnteringAxes(p))
    /\ UNCHANGED <<table, store, adoption, lock, kill>>

StillBad_bug(r, live, axes, kept) == {}

\* planPartialAxisRestore: the axes that still carry this record's own value.
StillBad(r, live, axes, kept) ==
    IF kept /\ live # None THEN {a \in axes : live[a] = Cand(r)[a]} ELSE {}

\* buildPartialAxisRestoreRaw
Merged(r, live, axes) == [a \in Axis |-> IF a \in axes THEN Snap(r)[a] ELSE live[a]]

\* attemptPartialRestore begins, of these axes.
Merges(p, target, axes) ==
    run' = [run EXCEPT ![p].pc = "mark", ![p].live = None, ![p].plan = axes, ![p].target = target,
                       ![p].partial = TRUE]

\* classifyLiveTable, refined by axis with the candidate's bytes, which may turn
\* out unreadable; a merge that the live table disproved is forgotten even then.
Plan(p, kept) ==
    LET r == Here(p)
        live == run[p].live
        bad == StillBad(r, live, run[p].hits, kept)
    IN IF live \in {Cand(r), Snap(r)}
       THEN /\ run' = [run EXCEPT ![p].pc = "write", ![p].live = None, ![p].plan = run[p].hits, ![p].target = Snap(r)]
            /\ UNCHANGED faults
       ELSE \/ bad = {} /\ Close(p, "superseded") /\ UNCHANGED faults
            \/ /\ bad # {} /\ UNCHANGED faults
               /\ Merges(p, Merged(r, live, bad), bad)
            \/ kept /\ Fault /\ IF live = None THEN Fail(p, Entering(p), EnteringAxes(p)) ELSE Fail(p, None, {})

\* performRevertAndFinalize between the read and the first write: the candidate
\* is backfilled while it is live, a merge that is still live is taken up again,
\* and one that is not is forgotten.
Tidy(p) ==
    /\ run[p].pc = "tidy"
    /\ LET r == Here(p)
           live == run[p].live
           kept == run[p].seen[r].kept \/ (live = Cand(r) /\ Claimed(p) /\ ~row[r].kept)
           next == [row[r] EXCEPT !.kept = @ \/ kept]
           merge == Entering(p)
       IN IF merge # None /\ live = merge
          THEN /\ Update(p, next)
               /\ Merges(p, live, EnteringAxes(p))
               /\ UNCHANGED faults
          ELSE /\ Update(p, IF merge # None /\ live # None THEN [next EXCEPT !.merge = None, !.mergeAxes = {}]
                            ELSE next)
               /\ Plan(p, kept)
    /\ UNCHANGED <<table, adopted, quarantine, adoption, lock, kill>>

\* markPendingMergeAttempt, before the write; without the claim there is none.
Mark(p) ==
    /\ run[p].pc = "mark"
    /\ Update(p, [Held(p) EXCEPT !.merge = run[p].target, !.mergeAxes = run[p].plan])
    /\ Goto(p, IF Claimed(p) THEN "write" ELSE "release")
    /\ UNCHANGED <<table, adopted, quarantine, adoption, lock, kill, faults>>

Fenced_bug(p, value) ==
    /\ \/ table' = value /\ run' = [run EXCEPT ![p].pc = "reload", ![p].wrote = TRUE] /\ UNCHANGED faults
       \/ Fault /\ Goto(p, "reload") /\ UNCHANGED table
    /\ UNCHANGED <<store, adoption, lock, kill>>

\* fencedWrite: of a table, or of its absence.
Fenced(p, value) ==
    /\ \/ /\ isLeaseCurrent(run[p].token)
          /\ table' = value /\ run' = [run EXCEPT ![p].pc = "reload", ![p].wrote = TRUE] /\ UNCHANGED faults
       \/ /\ ~isLeaseCurrent(run[p].token)
          /\ Goto(p, "reload") /\ UNCHANGED <<table, faults>>
       \/ Fault /\ Goto(p, "reload") /\ UNCHANGED table
    /\ UNCHANGED <<store, adoption, lock, kill>>

\* manualRollback
Write(p) == run[p].pc = "write" /\ Fenced(p, run[p].target)

\* deleteTableAndReload: of a first adoption there is nothing to restore.
Delete(p) == run[p].pc = "delete" /\ Fenced(p, None)

\* What remains of a merge that did not get through.
Attempt(p) == IF run[p].partial THEN run[p].target ELSE None
AttemptAxes(p) == IF run[p].partial THEN run[p].plan ELSE {}

\* reloadAndRenew, attempted whether or not the write was made.
Reload(p) ==
    /\ run[p].pc = "reload"
    /\ fresh' = (fresh \/ isLeaseCurrent(run[p].token))
    /\ \/ /\ UNCHANGED faults
          /\ IF ~run[p].wrote THEN Fail(p, Attempt(p), AttemptAxes(p))
             ELSE IF Snap(Here(p)) = None THEN Close(p, "breach") ELSE Goto(p, "confirm")
       \/ Fault /\ Fail(p, Attempt(p), AttemptAxes(p))
    /\ UNCHANGED <<table, store, adoption, lease, kill>>

\* runCanary: the file routes these axes as the snapshot does.
Routed(p) == table # None /\ \A a \in run[p].plan : table[a] = Snap(Here(p))[a]

\* The revert is confirmed, unless that cannot be read or the models are not
\* servable.
Confirm(p) ==
    /\ run[p].pc = "confirm"
    /\ \/ Routed(p) /\ Close(p, "breach") /\ UNCHANGED faults
       \/ ~Routed(p) /\ Fail(p, Attempt(p), AttemptAxes(p)) /\ UNCHANGED faults
       \/ Fault /\ Fail(p, Attempt(p), AttemptAxes(p))
    /\ UNCHANGED <<table, store, adoption, lock, kill>>

Finish_bug(p) ==
    /\ run[p].pc = "finish"
    /\ IF run[p].outcome = "failed"
       THEN Update(p, [Held(p) EXCEPT !.merge = run[p].target, !.mergeAxes = run[p].plan])
       ELSE Update(p, [Held(p) EXCEPT !.status = run[p].outcome, !.token = None, !.merge = None, !.mergeAxes = {}])
    /\ quarantine' = IF Claimed(p) /\ run[p].outcome # "superseded" THEN quarantine \cup run[p].hits ELSE quarantine
    /\ Goto(p, "release")
    /\ UNCHANGED <<table, adopted, adoption, lock, kill, faults>>

\* finalizeReverting and markRevertAttemptFailed: both quarantine.
Finish(p) ==
    /\ run[p].pc = "finish"
    /\ IF run[p].outcome = "failed"
       THEN Update(p, [Held(p) EXCEPT !.merge = run[p].target, !.mergeAxes = run[p].plan])
       ELSE Update(p, [Held(p) EXCEPT !.status = run[p].outcome, !.token = None, !.merge = None, !.mergeAxes = {}])
    /\ quarantine' = IF Claimed(p) THEN quarantine \cup run[p].hits ELSE quarantine
    /\ Goto(p, "release")
    /\ UNCHANGED <<table, adopted, adoption, lock, kill, faults>>

\* releaseMutationLock, and on to the next record.
Release(p) ==
    /\ run[p].pc = "release"
    /\ lease' = IF lease = run[p].token THEN None ELSE lease
    /\ fresh' = (fresh /\ lease # run[p].token)
    /\ run' = [run EXCEPT ![p] = [Idle EXCEPT !.pc = "next", !.seen = Forget(run[p].seen, Here(p)), !.at = Here(p),
                                            !.killed = run[p].killed]]
    /\ UNCHANGED <<table, store, adoption, kill, faults>>

-----------------------------------------------------------------------------
(* The surroundings                                                        *)

\* A run is killed; its lease row stays.
Crash(p) ==
    /\ run[p].pc # "idle" /\ Fault
    /\ run' = [run EXCEPT ![p] = Idle]
    /\ UNCHANGED <<table, store, adoption, lock, kill>>

\* The stale age passes: over a dead holder, or over one that stalls.
Expire ==
    /\ lease # None /\ fresh /\ fresh' = FALSE
    /\ IF trial.token = lease \/ \E p \in Runner : run[p].token = lease THEN Fault ELSE UNCHANGED faults
    /\ UNCHANGED <<table, store, adoption, lease, kill, run>>

\* The operator sets the kill switch, and lifts it.
SetKill == ~kill /\ Fault /\ kill' = TRUE /\ UNCHANGED <<table, store, adoption, lock, run>>
LiftKill == kill /\ kill' = FALSE /\ UNCHANGED <<table, store, adoption, lock, run, faults>>

Step(p) ==
    \/ End(p) \/ Watching(p) \/ Resolve(p) \/ Breach(p) \/ Recover(p) \/ Claim(p)
    \/ Read(p) \/ Tidy(p) \/ Mark(p) \/ Write(p) \/ Delete(p)
    \/ Reload(p) \/ Confirm(p) \/ Finish(p) \/ Release(p)

Adopting == ReadBack \/ CanaryPasses \/ RecordAdoption \/ RollBack

Next ==
    \/ (\E axes \in SUBSET Axis, kept \in Kept, manual \in BOOLEAN : Adopt(axes, kept, manual))
    \/ Adopting \/ AdoptionDies
    \/ (\E p \in Runner : Begin(p) \/ Step(p) \/ Crash(p))
    \/ Expire \/ Tick \/ SetKill \/ LiftKill

Spec == Init /\ [][Next]_vars

\* Timers start ticks and runs, runs go on or are killed, and the lease of a dead
\* holder gets old.
FairSpec ==
    /\ Spec
    /\ \A p \in Runner : WF_vars(Begin(p)) /\ WF_vars(Step(p))
    /\ WF_vars(Expire /\ UNCHANGED faults) /\ WF_vars(Tick) /\ WF_vars(Adopting)

-----------------------------------------------------------------------------

\* A revert changes only routes that its own adoption made, back to what they
\* were: no step of the watchdog undoes newer work, however stale its lease or
\* what it read.  A first adoption has nothing to go back to: DeletesOwnTable.
RevertsOwnRoutes ==
    [][table' # table /\ run' # run /\ table' # None =>
          \E r \in Rec :
             /\ row[r].status = "reverting" /\ Snap(r) # None
             /\ \A a \in Axis : table'[a] # table[a] =>
                   a \in adopted[r].axes /\ table[a] = r /\ table'[a] = Snap(r)[a]]_vars

\* "a NEWER legitimate adoption is live - this function NEVER rolls back in that
\* case": a table is deleted only while it is the one that the first adoption
\* wrote.  The code deletes it without looking.
DeletesOwnTable ==
    [][table' = None /\ table # None /\ run' # run => \E r \in Rec : Snap(r) = None /\ table = Cand(r)]_vars

\* Nothing of a closed breach is left in the table's file, except where undoing
\* a later adoption put it back: a revert, the rollback of an adoption that failed,
\* or the reconciliation of one that died, which may come long after the breach was
\* closed as superseded and brings back a whole table.  (Of a record that was made
\* without the candidate's bytes this is not known axis by axis: a run that loaded
\* it before another backfilled the bytes closes it without looking at them.)
ClosedIsUndone ==
    table # None =>
       \A r \in Rec, a \in Axis :
          /\ row[r].status \in {"breach", "superseded"} /\ adopted[r].kept
          /\ a \in row[r].breached /\ table[a] = r
          => \E q \in Rec : /\ q > r
                            /\ \/ row[q].status = "undone"
                               \/ a \in adopted[q].axes /\ row[q].status \in {"reverting", "breach", "superseded"}

\* Whoever closes a breach, and however it ended: its axes are in quarantine.
BreachesAreQuarantined ==
    \A r \in Rec : row[r].status \in {"breach", "superseded"} => row[r].breached \subseteq quarantine

\* A revert that was begun ends, whatever crashed or failed on the way, unless the
\* kill switch stays on for good.  (A record leaves "reverting" only when it is
\* closed, so that again and again none is there means that each one is closed.)
RevertsEnd == <>[]kill \/ []<>(\A r \in Rec : row[r].status # "reverting")

=============================================================================
