--------------------------- MODULE GpuLeaseProofs ---------------------------
(***************************************************************************)
(* As long as nobody crashes or stalls the GPU lease is exclusive and      *)
(* leaves no ghosts, for any number of processes.  The invariant says that *)
(* the directory exists exactly while one process is between its mkdir and *)
(* its rmdir, that marker and temp files are that process's, and that no   *)
(* waiter ever starts to take the lock down.                               *)
(***************************************************************************)
EXTENDS GpuLease, TLAPS

\* Between the mkdir that won and the rmdir of cleanup.
Keeps(p) == holding[p] /\ pc[p] \in {"won", "held", "drain", "release"}

\* Of the lock directory: who keeps it, and whose files are in it.
LockInv ==
    /\ \A p, q \in Proc : Keeps(p) /\ Keeps(q) => p = q
    /\ lock = \E p \in Proc : Keeps(p)
    /\ ~old
    /\ owner # None => Keeps(owner) /\ ownerFresh /\ pc[owner] # "release"
    /\ \A p \in temps : writer[p] = "temp"

\* Of the processes.
ProcInv ==
    /\ stalled = {}
    /\ \A p \in Proc :
         /\ pc[p] \notin {"crashed", "unlink", "rmdir"}
         /\ pc[p] \in {"won", "held", "release"} => holding[p]
         /\ holding[p] => Keeps(p) \/ pc[p] = "forget"
         /\ writer[p] # "none" => Keeps(p) /\ pc[p] # "release"
         /\ writer[p] = "checked" => pc[p] = "held"
         /\ ticket[p] # "none" => pc[p] \notin {"idle", "publish", "done"}

TempInv == \A p \in Proc : writer[p] = "temp" => p \in temps

Calm == crashes = 0 /\ stalls = 0

IInv == TypeOK /\ TempInv /\ (Calm => LockInv /\ ProcInv)

-----------------------------------------------------------------------------

\* Before anybody arrives there is no lock, no ticket and no fault.
LEMMA InitInv == Init => IInv
  <1> SUFFICES ASSUME Init PROVE IInv
    OBVIOUS
  <1>1. TypeOK
    <2>1. crashes \in 0..MaxCrash /\ stalls \in 0..MaxStall /\ arrivals \in Nat
      BY LeaseAssumption DEF Init
    <2>2. owner \in Proc \cup {None} /\ owner = None /\ temps = {}
      BY DEF Init
    <2> QED BY <2>1, <2>2 DEF Init, TypeOK, Label
  <1>4. TempInv
    BY DEF Init, TempInv
  <1>2. LockInv
    BY DEF Init, LockInv, Keeps
  <1>3. ProcInv
    BY DEF Init, ProcInv
  <1> QED BY <1>1, <1>2, <1>3, <1>4 DEF IInv

\* The steps of acquireGpuLease keep the invariant: in the absence of faults
\* reclaimStaleLock finds a fresh marker or a young directory.
LEMMA AcquireInv ==
    ASSUME IInv, NEW p \in Proc, Enqueue(p) \/ Acquire(p)
    PROVE  IInv'
  <1> USE LeaseAssumption DEF IInv, TypeOK, TempInv, Calm, Label, At, Goto, mutex, queue, local, faults
  <1>1. CASE Enqueue(p)
    <2>1. TypeOK'
      BY <1>1 DEF Enqueue
    <2>2. TempInv'
      BY <1>1 DEF Enqueue
    <2>3. Calm' => LockInv'
      BY <1>1 DEF Enqueue, LockInv, ProcInv, Keeps
    <2>4. Calm' => ProcInv'
      BY <1>1 DEF Enqueue, LockInv, ProcInv, Keeps
    <2> QED BY <2>1, <2>2, <2>3, <2>4 DEF IInv
  <1>2. CASE Publish(p)
    <2>1. TypeOK'
      BY <1>2 DEF Publish
    <2>2. TempInv'
      BY <1>2 DEF Publish
    <2>3. Calm' => LockInv'
      BY <1>2 DEF Publish, LockInv, ProcInv, Keeps
    <2>4. Calm' => ProcInv'
      BY <1>2 DEF Publish, LockInv, ProcInv, Keeps
    <2> QED BY <2>1, <2>2, <2>3, <2>4 DEF IInv
  <1>3. CASE Look(p)
    <2>1. TypeOK'
      BY <1>3 DEF Look
    <2>2. TempInv'
      BY <1>3 DEF Look
    <2>3. Calm' => LockInv'
      BY <1>3 DEF Look, LockInv, ProcInv, Keeps
    <2>4. Calm' => ProcInv'
      BY <1>3 DEF Look, LockInv, ProcInv, Keeps
    <2> QED BY <2>1, <2>2, <2>3, <2>4 DEF IInv
  <1>4. CASE Mkdir(p)
    <2>1. TypeOK'
      BY <1>4, ZenonT(60) DEF Mkdir
    <2>2. TempInv'
      BY <1>4 DEF Mkdir
    <2>3. Calm' => LockInv' /\ ProcInv'
      <3> SUFFICES ASSUME Calm' PROVE LockInv' /\ ProcInv'
        OBVIOUS
      <3>1. LockInv /\ ProcInv
        BY <1>4 DEF Mkdir
      <3>2. CASE lock
        <4>1. \A q \in Proc : Keeps(q)' <=> Keeps(q)
          BY <1>4, <3>2 DEF Mkdir, Keeps
        <4>2. LockInv'
          BY <1>4, <3>1, <3>2, <4>1, ZenonT(60) DEF Mkdir, LockInv
        <4>3. ProcInv'
          BY <1>4, <3>1, <3>2, <4>1 DEF Mkdir, ProcInv, Keeps
        <4> QED BY <4>2, <4>3
      <3>3. CASE ~lock
        <4>1. \A q \in Proc : ~Keeps(q)
          BY <3>1, <3>3 DEF LockInv
        <4>2. owner = None /\ \A q \in Proc : writer[q] = "none"
          BY <3>1, <4>1 DEF LockInv, ProcInv
        <4>3. \A q \in Proc : Keeps(q)' <=> q = p
          BY <1>4, <3>3, <4>1 DEF Mkdir, Keeps
        <4>4. LockInv'
          BY <1>4, <3>1, <3>3, <4>2, <4>3 DEF Mkdir, LockInv
        <4>5. ProcInv'
          BY <1>4, <3>1, <3>3, <4>1, <4>2, <4>3 DEF Mkdir, ProcInv, Keeps
        <4> QED BY <4>4, <4>5
      <3> QED BY <3>2, <3>3
    <2> QED BY <2>1, <2>2, <2>3 DEF IInv
  <1>5. CASE Inspect(p)
    <2>1. TypeOK'
      BY <1>5 DEF Inspect
    <2>2. TempInv'
      BY <1>5 DEF Inspect
    <2>3. Calm' => LockInv'
      BY <1>5 DEF Inspect, LockInv, ProcInv, Keeps
    <2>4. Calm' => ProcInv'
      BY <1>5 DEF Inspect, LockInv, ProcInv, Keeps
    <2> QED BY <2>1, <2>2, <2>3, <2>4 DEF IInv
  <1>6. CASE Unlink(p)
    <2>1. TypeOK'
      BY <1>6 DEF Unlink, UnlinkOwner
    <2>2. TempInv'
      BY <1>6 DEF Unlink, UnlinkOwner
    <2>3. Calm' => LockInv'
      BY <1>6 DEF Unlink, UnlinkOwner, LockInv, ProcInv, Keeps
    <2>4. Calm' => ProcInv'
      BY <1>6 DEF Unlink, UnlinkOwner, LockInv, ProcInv, Keeps
    <2> QED BY <2>1, <2>2, <2>3, <2>4 DEF IInv
  <1>7. CASE Rmdir(p)
    <2>1. TypeOK'
      BY <1>7 DEF Rmdir, RemoveDir
    <2>2. TempInv'
      BY <1>7 DEF Rmdir, RemoveDir
    <2>3. Calm' => LockInv'
      BY <1>7 DEF Rmdir, RemoveDir, LockInv, ProcInv, Keeps
    <2>4. Calm' => ProcInv'
      BY <1>7 DEF Rmdir, RemoveDir, LockInv, ProcInv, Keeps
    <2> QED BY <2>1, <2>2, <2>3, <2>4 DEF IInv
  <1> QED BY <1>1, <1>2, <1>3, <1>4, <1>5, <1>6, <1>7 DEF Acquire

\* The heartbeat writes into the lock directory of its own process only.
LEMMA BeatInv ==
    ASSUME IInv, NEW p \in Proc, Beat(p)
    PROVE  IInv'
  <1> USE LeaseAssumption DEF IInv, TypeOK, TempInv, Calm, Label, At, Goto, mutex, queue, local, faults
  <1>1. CASE BeatTicket(p)
    <2>1. TypeOK'
      BY <1>1 DEF BeatTicket, Refreshing, Beating, Waiting
    <2>2. TempInv'
      BY <1>1 DEF BeatTicket, Refreshing, Beating, Waiting
    <2>3. Calm' => LockInv'
      BY <1>1 DEF BeatTicket, Refreshing, Beating, Waiting, LockInv, ProcInv, Keeps
    <2>4. Calm' => ProcInv'
      BY <1>1 DEF BeatTicket, Refreshing, Beating, Waiting, LockInv, ProcInv, Keeps
    <2> QED BY <2>1, <2>2, <2>3, <2>4 DEF IInv
  <1>2. CASE BeatCheck(p)
    <2>1. TypeOK'
      BY <1>2 DEF BeatCheck
    <2>2. TempInv'
      BY <1>2 DEF BeatCheck
    <2>3. Calm' => LockInv'
      BY <1>2 DEF BeatCheck, LockInv, ProcInv, Keeps
    <2>4. Calm' => ProcInv'
      BY <1>2 DEF BeatCheck, LockInv, ProcInv, Keeps
    <2> QED BY <2>1, <2>2, <2>3, <2>4 DEF IInv
  <1>3. CASE WriteTemp(p)
    <2>1. TypeOK'
      BY <1>3, ZenonT(60) DEF WriteTemp
    <2>2. TempInv'
      BY <1>3 DEF WriteTemp
    <2>3. Calm' => LockInv'
      BY <1>3 DEF WriteTemp, LockInv, ProcInv, Keeps
    <2>4. Calm' => ProcInv'
      BY <1>3 DEF WriteTemp, LockInv, ProcInv, Keeps
    <2> QED BY <2>1, <2>2, <2>3, <2>4 DEF IInv
  <1>4. CASE Rename(p)
    <2>1. TypeOK'
      BY <1>4 DEF Rename
    <2>2. TempInv'
      BY <1>4 DEF Rename
    <2>3. Calm' => LockInv'
      BY <1>4 DEF Rename, LockInv, ProcInv, Keeps
    <2>4. Calm' => ProcInv'
      BY <1>4 DEF Rename, LockInv, ProcInv, Keeps
    <2> QED BY <2>1, <2>2, <2>3, <2>4 DEF IInv
  <1> QED BY <1>1, <1>2, <1>3, <1>4 DEF Beat

\* cleanup takes down its own lock, after the write in flight.
LEMMA CleanupInv ==
    ASSUME IInv, NEW p \in Proc, Release(p) \/ Abort(p) \/ Cleanup(p)
    PROVE  IInv'
  <1> USE LeaseAssumption DEF IInv, TypeOK, TempInv, Calm, Label, At, Goto, mutex, queue, local, faults
  <1>1. CASE Release(p)
    <2>1. TypeOK'
      BY <1>1 DEF Release
    <2>2. TempInv'
      BY <1>1 DEF Release
    <2>3. Calm' => LockInv'
      BY <1>1 DEF Release, LockInv, ProcInv, Keeps
    <2>4. Calm' => ProcInv'
      BY <1>1 DEF Release, LockInv, ProcInv, Keeps
    <2> QED BY <2>1, <2>2, <2>3, <2>4 DEF IInv
  <1>2. CASE Abort(p)
    <2>1. TypeOK'
      BY <1>2 DEF Abort
    <2>2. TempInv'
      BY <1>2 DEF Abort
    <2>3. Calm' => LockInv'
      BY <1>2 DEF Abort, LockInv, ProcInv, Keeps
    <2>4. Calm' => ProcInv'
      BY <1>2 DEF Abort, LockInv, ProcInv, Keeps
    <2> QED BY <2>1, <2>2, <2>3, <2>4 DEF IInv
  <1>3. CASE Drain(p)
    <2>1. TypeOK'
      BY <1>3, ZenonT(60) DEF Drain, UnlinkOwner
    <2>2. TempInv'
      BY <1>3 DEF Drain, UnlinkOwner
    <2>3. Calm' => LockInv' /\ ProcInv'
      <3> SUFFICES ASSUME Calm' PROVE LockInv' /\ ProcInv'
        OBVIOUS
      <3>1. LockInv /\ ProcInv
        BY <1>3 DEF Drain, UnlinkOwner
      <3>2. \A q \in Proc : Keeps(q)' <=> Keeps(q)
        BY <1>3 DEF Drain, Keeps
      <3>3. CASE holding[p]
        <4>1. LockInv'
          BY <1>3, <3>1, <3>2, <3>3 DEF Drain, UnlinkOwner, LockInv
        <4>2. writer[p] = "none"
          BY <1>3, <3>1 DEF Drain, ProcInv
        <4>3. ProcInv'
          BY <1>3, <3>1, <3>2, <3>3, <4>2 DEF Drain, UnlinkOwner, ProcInv, Keeps
        <4> QED BY <4>1, <4>3
      <3>4. CASE ~holding[p]
        <4>1. LockInv'
          <5>1. owner # p /\ UNCHANGED <<lock, old, owner, ownerFresh, temps, writer>>
            BY <1>3, <3>1, <3>4, ZenonT(60) DEF Drain, LockInv, Keeps
          <5>2. owner # None => pc'[owner] # "release"
            BY <1>3, <3>1, <5>1 DEF Drain, LockInv
          <5> QED BY <3>1, <3>2, <5>1, <5>2 DEF LockInv
        <4>2. ProcInv'
          BY <1>3, <3>1, <3>2, <3>4 DEF Drain, ProcInv, Keeps
        <4> QED BY <4>1, <4>2
      <3> QED BY <3>3, <3>4
    <2> QED BY <2>1, <2>2, <2>3 DEF IInv
  <1>4. CASE ReleaseDir(p)
    <2>1. TypeOK'
      BY <1>4 DEF ReleaseDir, RemoveDir
    <2>2. TempInv'
      BY <1>4 DEF ReleaseDir, RemoveDir
    <2>3. Calm' => LockInv'
      <3> SUFFICES ASSUME Calm' PROVE LockInv'
        OBVIOUS
      <3>1. LockInv /\ ProcInv /\ Keeps(p)
        BY <1>4 DEF ReleaseDir, ProcInv, Keeps
      <3>2. owner = None /\ temps = {}
        BY <1>4, <3>1 DEF ReleaseDir, LockInv, ProcInv
      <3>3. \A q \in Proc : ~Keeps(q)'
        BY <1>4, <3>1 DEF ReleaseDir, LockInv, Keeps
      <3>4. lock' = FALSE /\ ~old'
        BY <1>4, <3>1, <3>2 DEF ReleaseDir, RemoveDir, LockInv
      <3> QED BY <1>4, <3>2, <3>3, <3>4 DEF ReleaseDir, RemoveDir, LockInv
    <2>4. Calm' => ProcInv'
      BY <1>4, SMTT(30) DEF ReleaseDir, RemoveDir, LockInv, ProcInv, Keeps
    <2> QED BY <2>1, <2>2, <2>3, <2>4 DEF IInv
  <1>5. CASE Forget(p)
    <2>1. TypeOK'
      BY <1>5 DEF Forget
    <2>2. TempInv'
      BY <1>5 DEF Forget
    <2>3. Calm' => LockInv'
      BY <1>5 DEF Forget, LockInv, ProcInv, Keeps
    <2>4. Calm' => ProcInv'
      BY <1>5 DEF Forget, LockInv, ProcInv, Keeps
    <2> QED BY <2>1, <2>2, <2>3, <2>4 DEF IInv
  <1> QED BY <1>1, <1>2, <1>3, <1>4, <1>5 DEF Cleanup

\* Nothing goes stale while everybody runs, and a fault ends the calm.
LEMMA FaultInv ==
    ASSUME IInv, (\E p \in Proc : Fault(p)) \/ OwnerExpires \/ DirAges
    PROVE  IInv'
  <1> USE LeaseAssumption DEF IInv, TypeOK, TempInv, Calm, Label, Goto, mutex, queue, local, faults
  <1>1. ASSUME NEW p \in Proc, Crash(p) PROVE IInv'
    <2>1. TypeOK'
      BY <1>1 DEF Crash
    <2>2. TempInv'
      BY <1>1 DEF Crash
    <2>3. Calm' => LockInv'
      BY <1>1 DEF Crash, LockInv, ProcInv, Keeps
    <2>4. Calm' => ProcInv'
      BY <1>1 DEF Crash, LockInv, ProcInv, Keeps
    <2> QED BY <2>1, <2>2, <2>3, <2>4 DEF IInv
  <1>2. ASSUME NEW p \in Proc, Stall(p) PROVE IInv'
    <2>1. TypeOK'
      BY <1>2 DEF Stall
    <2>2. TempInv'
      BY <1>2 DEF Stall
    <2>3. Calm' => LockInv'
      BY <1>2 DEF Stall, LockInv, ProcInv, Keeps
    <2>4. Calm' => ProcInv'
      BY <1>2 DEF Stall, LockInv, ProcInv, Keeps
    <2> QED BY <2>1, <2>2, <2>3, <2>4 DEF IInv
  <1>3. ASSUME NEW p \in Proc, Resume(p) PROVE IInv'
    <2>1. TypeOK'
      BY <1>3 DEF Resume
    <2>2. TempInv'
      BY <1>3 DEF Resume
    <2>3. Calm' => LockInv'
      BY <1>3 DEF Resume, LockInv, ProcInv, Keeps
    <2>4. Calm' => ProcInv'
      BY <1>3 DEF Resume, LockInv, ProcInv, Keeps
    <2> QED BY <2>1, <2>2, <2>3, <2>4 DEF IInv
  <1>4. ASSUME NEW p \in Proc, TicketExpires(p) PROVE IInv'
    <2>1. TypeOK'
      BY <1>4 DEF TicketExpires
    <2>2. TempInv'
      BY <1>4 DEF TicketExpires
    <2>3. Calm' => LockInv'
      BY <1>4 DEF TicketExpires, LockInv, ProcInv, Keeps
    <2>4. Calm' => ProcInv'
      BY <1>4 DEF TicketExpires, LockInv, ProcInv, Keeps
    <2> QED BY <2>1, <2>2, <2>3, <2>4 DEF IInv
  <1>5. CASE OwnerExpires
    <2>1. TypeOK'
      BY <1>5 DEF OwnerExpires
    <2>2. TempInv'
      BY <1>5 DEF OwnerExpires
    <2>3. Calm' => LockInv'
      BY <1>5 DEF OwnerExpires, LockInv, ProcInv, Keeps
    <2>4. Calm' => ProcInv'
      BY <1>5 DEF OwnerExpires, LockInv, ProcInv, Keeps
    <2> QED BY <2>1, <2>2, <2>3, <2>4 DEF IInv
  <1>6. CASE DirAges
    <2>1. TypeOK'
      BY <1>6 DEF DirAges
    <2>2. TempInv'
      BY <1>6 DEF DirAges
    <2>3. Calm' => LockInv'
      BY <1>6 DEF DirAges, LockInv, ProcInv, Keeps
    <2>4. Calm' => ProcInv'
      BY <1>6 DEF DirAges, LockInv, ProcInv, Keeps
    <2> QED BY <2>1, <2>2, <2>3, <2>4 DEF IInv
  <1> QED BY <1>1, <1>2, <1>3, <1>4, <1>5, <1>6 DEF Fault

LEMMA Inductive == Spec => []IInv
  <1>1. IInv /\ [Next]_vars => IInv'
    <2> SUFFICES ASSUME IInv, [Next]_vars PROVE IInv'
      OBVIOUS
    <2>1. CASE UNCHANGED vars
      BY <2>1 DEF vars, local, queue, mutex, faults, IInv, TypeOK, TempInv, Calm, LockInv, ProcInv, Keeps
    <2>2. CASE Next
      BY <2>2, AcquireInv, BeatInv, CleanupInv, FaultInv DEF Next
    <2> QED BY <2>1, <2>2
  <1> QED BY InitInv, <1>1, PTL DEF Spec

-----------------------------------------------------------------------------

\* Types, and the lock directory exists while a marker or a temp file is in it.
THEOREM TypeCorrect == Spec => []TypeOK
  <1>1. IInv => TypeOK BY DEF IInv
  <1> QED BY Inductive, <1>1, PTL

\* mkdir makes the lease exclusive while nobody crashes or stalls.
THEOREM Exclusive == Spec => []OneUser
  <1>1. IInv => OneUser
    BY DEF IInv, Calm, LockInv, ProcInv, Keeps, OneUser, AtMostOneUser, Users
  <1> QED BY Inductive, <1>1, PTL

\* When all have ended, lock and tickets are gone.
THEOREM Clean == Spec => []NoGhost
  <1>1. IInv => NoGhost
    BY DEF IInv, Calm, LockInv, ProcInv, Keeps, NoGhost, TypeOK
  <1> QED BY Inductive, <1>1, PTL

=============================================================================
