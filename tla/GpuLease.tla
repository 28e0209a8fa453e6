------------------------------ MODULE GpuLease ------------------------------
(***************************************************************************)
(* The file-backed GPU lease of gpu-lease.ts.  Every waiter keeps a ticket *)
(* file; the earliest live ticket may try to make the directory .holder,   *)
(* which is the mutex, and its maker marks it with owner.json.  Tickets    *)
(* and marker are refreshed by a heartbeat, and what is not refreshed for  *)
(* staleMs is removed by a waiter.                                         *)
(*                                                                         *)
(* One action is one file-system call, with the code that leads to it.     *)
(* Time is abstract: a heartbeat goes stale only if the process that would *)
(* refresh it is dead, stalled for that long, or no longer refreshing, and *)
(* a directory without a marker ages only if nobody who made or is         *)
(* removing it is running.  A ticket's sequence number is its rank in the  *)
(* order of arrival.  readTickets and the removal of stale tickets are one *)
(* step: nothing but the order of the queue depends on the tickets.  The   *)
(* heartbeats of one process do not overlap.                               *)
(*                                                                         *)
(* Definitions named X_bug are wrong variants of X that no specification   *)
(* uses.                                                                   *)
(***************************************************************************)
EXTENDS Integers

CONSTANTS
    Proc,          \* processes that take the lease, each once
    MaxCrash,      \* bound of the model: crashes
    MaxStall       \* bound of the model: stalls of an event loop past staleMs

None == "nobody"

ASSUME LeaseAssumption ==
    /\ None \notin Proc
    /\ MaxCrash \in Nat /\ MaxStall \in Nat

VARIABLES
    pc,            \* where acquireGpuLease or cleanup is
    writer,        \* where this process's write of the owner marker is
    holding,       \* the variable of that name
    seq,           \* the ticket's sequence number
    arrivals,      \* sequence numbers given out
    ticket,        \* the ticket file: "none", "fresh" or "stale"
    lock,          \* TRUE: the directory .holder exists
    old,           \* TRUE: it has had no marker for lockGraceMs
    owner,         \* the process that owner.json names, or None
    ownerFresh,    \* TRUE: its heartbeat is below staleMs
    temps,         \* whose temp files lie in .holder
    stalled,       \* processes whose event loop stands still
    crashes,       \* crashes so far
    stalls         \* stalls so far

mutex == <<lock, old, owner, ownerFresh, temps>>
queue == <<seq, arrivals, ticket>>
local == <<pc, writer, holding>>
faults == <<stalled, crashes, stalls>>
vars == <<local, queue, mutex, faults>>

Label == {"idle", "publish", "loop", "mkdir", "inspect", "unlink", "rmdir", "won", "held",
          "drain", "release", "forget", "done", "crashed"}

\* The type invariant.
TypeOK ==
    /\ pc \in [Proc -> Label]
    /\ writer \in [Proc -> {"none", "checked", "temp"}]
    /\ holding \in [Proc -> BOOLEAN]
    /\ seq \in [Proc -> Nat] /\ arrivals \in Nat
    /\ ticket \in [Proc -> {"none", "fresh", "stale"}]
    /\ lock \in BOOLEAN /\ old \in BOOLEAN /\ ownerFresh \in BOOLEAN
    /\ owner \in Proc \cup {None}
    /\ temps \subseteq Proc /\ stalled \subseteq Proc
    /\ owner # None \/ temps # {} => lock
    /\ crashes \in 0..MaxCrash /\ stalls \in 0..MaxStall

Init ==
    /\ pc = [p \in Proc |-> "idle"]
    /\ writer = [p \in Proc |-> "none"]
    /\ holding = [p \in Proc |-> FALSE]
    /\ seq = [p \in Proc |-> 0] /\ arrivals = 0
    /\ ticket = [p \in Proc |-> "none"]
    /\ lock = FALSE /\ old = FALSE
    /\ owner = None /\ ownerFresh = FALSE
    /\ temps = {}
    /\ stalled = {} /\ crashes = 0 /\ stalls = 0

-----------------------------------------------------------------------------

\* Process p, at label l, is able to run.
At(p, l) == pc[p] = l /\ p \notin stalled

Goto(p, l) == pc' = [pc EXCEPT ![p] = l]

Waiting(p) == pc[p] \in {"loop", "mkdir", "inspect", "unlink", "rmdir"}

\* The heartbeat's timer runs: the ticket was published and not yet released.
Beating(p) == Waiting(p) \/ pc[p] \in {"won", "held"}

Refreshing(p) == p \notin stalled /\ Beating(p)

\* selectHolder: the earliest ticket that is not stale.
selectHolder(p) ==
    /\ ticket[p] = "fresh"
    /\ \A q \in Proc : ticket[q] = "fresh" => seq[p] <= seq[q]

-----------------------------------------------------------------------------
(* acquireGpuLease                                                         *)

\* The sequence number is taken before the ticket is visible.
Enqueue(p) ==
    /\ At(p, "idle")
    /\ arrivals' = arrivals + 1
    /\ seq' = [seq EXCEPT ![p] = arrivals + 1]
    /\ Goto(p, "publish")
    /\ UNCHANGED <<writer, holding, ticket, mutex, faults>>

Publish(p) ==
    /\ At(p, "publish")
    /\ ticket' = [ticket EXCEPT ![p] = "fresh"]
    /\ Goto(p, "loop")
    /\ UNCHANGED <<writer, holding, seq, arrivals, mutex, faults>>

\* One round of the loop: read the tickets, remove the stale ones, and go on if
\* this process is at the head of the line.
Look(p) ==
    /\ At(p, "loop")
    /\ ticket' = [q \in Proc |-> IF ticket[q] = "stale" THEN "none" ELSE ticket[q]]
    /\ Goto(p, IF selectHolder(p) THEN "mkdir" ELSE "loop")
    /\ UNCHANGED <<writer, holding, seq, arrivals, mutex, faults>>

Mkdir_bug(p) ==
    /\ At(p, "mkdir")
    /\ IF owner \notin Proc \ {p}
         THEN /\ lock' = TRUE /\ old' = FALSE
              /\ holding' = [holding EXCEPT ![p] = TRUE]
              /\ Goto(p, "won")
         ELSE Goto(p, "inspect") /\ UNCHANGED <<lock, old, holding>>
    /\ UNCHANGED <<writer, queue, owner, ownerFresh, temps, faults>>

\* mkdir(.holder): exactly one caller makes the directory.
Mkdir(p) ==
    /\ At(p, "mkdir")
    /\ IF ~lock
         THEN /\ lock' = TRUE /\ old' = FALSE
              /\ holding' = [holding EXCEPT ![p] = TRUE]
              /\ Goto(p, "won")
         ELSE Goto(p, "inspect") /\ UNCHANGED <<lock, old, holding>>
    /\ UNCHANGED <<writer, queue, owner, ownerFresh, temps, faults>>

Inspect_bug(p) ==
    /\ At(p, "inspect")
    /\ Goto(p, IF owner # None /\ ~ownerFresh THEN "unlink" ELSE "loop")
    /\ UNCHANGED <<writer, holding, queue, mutex, faults>>

\* reclaimStaleLock's test: a stale marker, or no marker for the grace period.
Inspect(p) ==
    /\ At(p, "inspect")
    /\ Goto(p, IF IF owner # None THEN ~ownerFresh ELSE lock /\ old
                 THEN "unlink" ELSE "loop")
    /\ UNCHANGED <<writer, holding, queue, mutex, faults>>

\* removeLock's unlink and rmdir, whoever made the lock by now.
UnlinkOwner ==
    /\ owner' = None
    /\ old' = (old /\ owner = None)
    /\ ownerFresh' = FALSE
    /\ UNCHANGED <<lock, temps>>

\* rmdir fails while the directory is not empty.
RemoveDir ==
    /\ lock' = (lock /\ (owner # None \/ temps # {}))
    /\ old' = (old /\ lock')
    /\ UNCHANGED <<owner, ownerFresh, temps>>

Unlink(p) ==
    /\ At(p, "unlink")
    /\ UnlinkOwner
    /\ Goto(p, "rmdir")
    /\ UNCHANGED <<writer, holding, queue, faults>>

Rmdir(p) ==
    /\ At(p, "rmdir")
    /\ RemoveDir
    /\ Goto(p, "loop")
    /\ UNCHANGED <<writer, holding, queue, faults>>

-----------------------------------------------------------------------------
(* The owner marker and the heartbeat.                                     *)

\* writeOwner's temp file, by the winner or by a heartbeat that passed its
\* check.  Without the directory the write fails and nothing is written; after
\* cleanup began, a heartbeat's write is skipped.
WriteTemp(p) ==
    /\ \/ At(p, "won") /\ writer[p] = "none"
       \/ At(p, "held") /\ writer[p] = "checked"
    /\ IF lock
         THEN /\ temps' = temps \cup {p}
              /\ old' = FALSE
              /\ writer' = [writer EXCEPT ![p] = "temp"]
              /\ UNCHANGED pc
         ELSE /\ writer' = [writer EXCEPT ![p] = "none"]
              /\ Goto(p, "held")
              /\ UNCHANGED <<temps, old>>
    /\ UNCHANGED <<holding, queue, lock, owner, ownerFresh, faults>>

\* The rename; the winner returns the lease to its caller.
Rename(p) ==
    /\ p \notin stalled
    /\ writer[p] = "temp" /\ pc[p] # "crashed"
    /\ owner' = p /\ ownerFresh' = TRUE /\ old' = FALSE
    /\ temps' = temps \ {p}
    /\ writer' = [writer EXCEPT ![p] = "none"]
    /\ Goto(p, IF pc[p] = "won" THEN "held" ELSE pc[p])
    /\ UNCHANGED <<holding, queue, lock, faults>>

\* The heartbeat refreshes the ticket, or makes it again.
BeatTicket(p) ==
    /\ Refreshing(p)
    /\ ticket[p] # "fresh"
    /\ ticket' = [ticket EXCEPT ![p] = "fresh"]
    /\ UNCHANGED <<local, seq, arrivals, mutex, faults>>

BeatCheck_bug(p) ==
    /\ At(p, "held")
    /\ holding[p] /\ writer[p] = "none"
    /\ writer' = [writer EXCEPT ![p] = "checked"]
    /\ UNCHANGED <<pc, holding, queue, mutex, faults>>

\* The heartbeat of a holder: a marker of somebody else means the lease is lost
\* (onLeaseLost), else the marker will be written again.
BeatCheck(p) ==
    /\ At(p, "held")
    /\ holding[p] /\ writer[p] = "none"
    /\ IF owner \in {None, p}
         THEN writer' = [writer EXCEPT ![p] = "checked"] /\ UNCHANGED holding
         ELSE holding' = [holding EXCEPT ![p] = FALSE] /\ UNCHANGED writer
    /\ UNCHANGED <<pc, queue, mutex, faults>>

-----------------------------------------------------------------------------
(* cleanup                                                                 *)

\* release(), or a waiter's abort: from now on no heartbeat writes.
Release(p) ==
    /\ At(p, "held")
    /\ writer' = [writer EXCEPT ![p] = IF @ = "checked" THEN "none" ELSE @]
    /\ Goto(p, "drain")
    /\ UNCHANGED <<holding, queue, mutex, faults>>

Abort(p) ==
    /\ At(p, "loop")
    /\ Goto(p, "drain")
    /\ UNCHANGED <<writer, holding, queue, mutex, faults>>

Drain_bug(p) ==
    /\ At(p, "drain")
    /\ IF holding[p]
         THEN UnlinkOwner /\ Goto(p, "release")
         ELSE Goto(p, "forget") /\ UNCHANGED mutex
    /\ UNCHANGED <<writer, holding, queue, faults>>

\* The write in flight is awaited; then a holder takes the lock down.
Drain(p) ==
    /\ At(p, "drain")
    /\ writer[p] # "temp"
    /\ IF holding[p]
         THEN UnlinkOwner /\ Goto(p, "release")
         ELSE Goto(p, "forget") /\ UNCHANGED mutex
    /\ UNCHANGED <<writer, holding, queue, faults>>

ReleaseDir(p) ==
    /\ At(p, "release")
    /\ RemoveDir
    /\ Goto(p, "forget")
    /\ UNCHANGED <<writer, holding, queue, faults>>

Forget(p) ==
    /\ At(p, "forget")
    /\ ticket' = [ticket EXCEPT ![p] = "none"]
    /\ holding' = [holding EXCEPT ![p] = FALSE]
    /\ Goto(p, "done")
    /\ UNCHANGED <<writer, seq, arrivals, mutex, faults>>

-----------------------------------------------------------------------------
(* Time and faults.                                                        *)

TicketExpires(p) ==
    /\ ticket[p] = "fresh"
    /\ p \in stalled \/ pc[p] = "crashed"
    /\ ticket' = [ticket EXCEPT ![p] = "stale"]
    /\ UNCHANGED <<local, seq, arrivals, mutex, faults>>

OwnerExpires ==
    /\ owner # None /\ ownerFresh
    /\ \/ owner \in stalled
       \/ pc[owner] \in {"crashed", "done"}
       \/ ~holding[owner]
    /\ ownerFresh' = FALSE
    /\ UNCHANGED <<local, queue, lock, old, owner, temps, faults>>

DirAges ==
    /\ lock /\ owner = None /\ ~old
    /\ \A p \in Proc : pc[p] \in {"won", "held", "drain", "release", "rmdir"} => p \in stalled
    /\ old' = TRUE
    /\ UNCHANGED <<local, queue, lock, owner, ownerFresh, temps, faults>>

\* The process dies; a temp file that it was about to rename stays.
Crash(p) ==
    /\ crashes < MaxCrash
    /\ pc[p] \notin {"idle", "done", "crashed"}
    /\ crashes' = crashes + 1
    /\ Goto(p, "crashed")
    /\ holding' = [holding EXCEPT ![p] = FALSE]
    /\ writer' = [writer EXCEPT ![p] = "none"]
    /\ stalled' = stalled \ {p}
    /\ UNCHANGED <<queue, mutex, stalls>>

Stall(p) ==
    /\ stalls < MaxStall
    /\ pc[p] \notin {"idle", "done", "crashed"} /\ p \notin stalled
    /\ stalls' = stalls + 1
    /\ stalled' = stalled \cup {p}
    /\ UNCHANGED <<local, queue, mutex, crashes>>

Resume(p) ==
    /\ p \in stalled
    /\ stalled' = stalled \ {p}
    /\ UNCHANGED <<local, queue, mutex, crashes, stalls>>

Acquire(p) ==
    Publish(p) \/ Look(p) \/ Mkdir(p) \/ Inspect(p) \/ Unlink(p) \/ Rmdir(p)

Beat(p) == BeatTicket(p) \/ BeatCheck(p) \/ WriteTemp(p) \/ Rename(p)

Cleanup(p) == Drain(p) \/ ReleaseDir(p) \/ Forget(p)

Fault(p) == Crash(p) \/ Stall(p) \/ Resume(p) \/ TicketExpires(p)

Next ==
    \/ \E p \in Proc : Enqueue(p) \/ Acquire(p) \/ Beat(p) \/ Release(p) \/ Abort(p)
                      \/ Cleanup(p) \/ Fault(p)
    \/ OwnerExpires \/ DirAges

Spec == Init /\ [][Next]_vars

\* A process that is not stalled gets on and its timer beats; a stall is
\* finite, and time passes.  A job need not end: a holder's steps other than
\* its release are the heartbeat's.
Fairness ==
    /\ \A p \in Proc :
         /\ WF_vars(Acquire(p)) /\ SF_vars(Look(p) /\ selectHolder(p))
         /\ WF_vars(Cleanup(p)) /\ WF_vars(WriteTemp(p) \/ Rename(p))
         /\ WF_vars(BeatTicket(p)) /\ SF_vars(BeatCheck(p))
         /\ WF_vars(Resume(p)) /\ WF_vars(TicketExpires(p))
    /\ SF_vars(OwnerExpires) /\ SF_vars(DirAges)

FairSpec == Spec /\ Fairness

-----------------------------------------------------------------------------

\* Processes that run their job in the belief that the GPU is theirs.
Users == {p \in Proc : holding[p] /\ pc[p] \in {"won", "held"}}

AtMostOneUser == \A p, q \in Users : p = q

\* mkdir makes the lease exclusive: as long as nobody crashes or stalls, two
\* processes never hold it together, although two may see themselves at the
\* head of the line and each removes the lock's parts one by one.
OneUser == crashes = 0 /\ stalls = 0 => AtMostOneUser

\* The same after a crash: several waiters may take down a dead holder's lock,
\* but only one of them wins the directory and runs.
OneUserAfterCrash == stalls = 0 => AtMostOneUser

\* Nobody leaves a ghost behind: when all processes ended and none of them
\* crashed or stalled, lock and tickets are gone; no heartbeat's write comes
\* after cleanup.
NoGhost ==
    (crashes = 0 /\ stalls = 0 /\ \A p \in Proc : pc[p] \in {"idle", "done"})
        => ~lock /\ \A p \in Proc : ticket[p] = "none"

\* No write of the owner marker is under way; so it is most of the time, for a
\* heartbeat comes every few seconds and a write takes milliseconds.
Quiet == \A p \in Proc : writer[p] = "none"

\* If, after a stall or a reclaim, two processes run at once, the heartbeat
\* finds out: all but one are told, however long their jobs last.
ConcurrencyEnds == []<>Quiet => (~AtMostOneUser ~> AtMostOneUser)

JobsEnd == \A p \in Proc : pc[p] = "held" ~> pc[p] # "held"

\* A process died between its temp file and the rename: .holder is never empty again,
\* and no rmdir removes it.
Debris == \E p \in temps : pc[p] = "crashed"

\* If jobs end, who waits gets the lease, gives up or crashes, whether the holder died
\* before it marked the lock, while it held it, or between unlink and rmdir, unless a
\* dead process's temp file lies in the lock directory.
EveryWaiterServed == JobsEnd => \A p \in Proc : Waiting(p) ~> ~Waiting(p) \/ Debris

\* "A dead session never holds the GPU forever": the same without that exception.
DeadNeverHold == JobsEnd => \A p \in Proc : Waiting(p) ~> ~Waiting(p)

=============================================================================
