------------------------ MODULE MutationLockProofs --------------------------
(***************************************************************************)
(* Proofs about the mutation lease, for any number of processes, any stale *)
(* threshold and any bounds.                                               *)
(***************************************************************************)
EXTENDS MutationLock, TLAPS

\* The strengthening that makes the properties inductive.  The row always
\* carries the newest token, no handle is newer than that, live handles are
\* pairwise distinct, and a pending clock reading lies in the past.
IInv ==
    /\ TypeOK
    /\ lease # NoLease => lease.token = nextToken - 1 /\ lease.token # NoToken
    /\ \A p \in Proc : held[p] < nextToken
    /\ \A p, q \in Proc : held[p] # NoToken /\ held[p] = held[q] => p = q
    /\ \A p \in Proc : nowMs[p] <= now

\* Every initial state of the lease database satisfies IInv.
LEMMA InitIInv == Init => IInv
BY DEF Init, IInv, TypeOK, NoLease, LeaseRow, NoToken, NotSampled

\* Every transaction, crash and clock tick preserves IInv.
LEMMA NextIInv == IInv /\ [Next]_vars => IInv'
<1> SUFFICES ASSUME IInv, [Next]_vars PROVE IInv'
  OBVIOUS
<1> USE DEF IInv, TypeOK, NoLease, LeaseRow, NoToken, NotSampled
<1>1. CASE Tick
  BY <1>1 DEF Tick
<1>2. ASSUME NEW p \in Proc, Sample(p) PROVE IInv'
  BY <1>2 DEF Sample
<1>3. ASSUME NEW p \in Proc, AcquireBusy(p) PROVE IInv'
  BY <1>3 DEF AcquireBusy
<1>4. ASSUME NEW p \in Proc, Acquire(p) PROVE IInv'
  <2>1. TypeOK'
    BY <1>4 DEF Acquire
  <2>2. lease'.token = nextToken' - 1 /\ lease'.token # NoToken
    BY <1>4 DEF Acquire
  <2>3. \A r \in Proc : held'[r] < nextToken'
    BY <1>4 DEF Acquire
  <2>4. \A r, q \in Proc : held'[r] # NoToken /\ held'[r] = held'[q] => r = q
    BY <1>4 DEF Acquire
  <2>5. \A r \in Proc : nowMs'[r] <= now'
    BY <1>4 DEF Acquire
  <2> QED BY <2>1, <2>2, <2>3, <2>4, <2>5
<1>5. ASSUME NEW p \in Proc, Renew(p) PROVE IInv'
  <2>1. TypeOK'
    BY <1>5 DEF Renew, isLeaseCurrent
  <2>2. lease' # NoLease => lease'.token = nextToken' - 1 /\ lease'.token # NoToken
    BY <1>5 DEF Renew, isLeaseCurrent
  <2>3. \A r \in Proc : nowMs'[r] <= now'
    BY <1>5 DEF Renew
  <2> QED BY <1>5, <2>1, <2>2, <2>3 DEF Renew
<1>6. ASSUME NEW p \in Proc, FencedWrite(p) PROVE IInv'
  BY <1>6 DEF FencedWrite
<1>7. ASSUME NEW p \in Proc, Release(p) PROVE IInv'
  BY <1>7 DEF Release, isLeaseCurrent
<1>8. ASSUME NEW p \in Proc, Crash(p) PROVE IInv'
  BY <1>8 DEF Crash
<1>9. CASE UNCHANGED vars
  BY <1>9 DEF vars
<1> QED
  BY <1>1, <1>2, <1>3, <1>4, <1>5, <1>6, <1>7, <1>8, <1>9 DEF Next, Step

\* IInv is an invariant of the lease.
THEOREM Inductive == Spec => []IInv
BY InitIInv, NextIInv, PTL DEF Spec

\* The lease row, the counter and the handles always have their types.
THEOREM TypeCorrect == Spec => []TypeOK
<1>1. IInv => TypeOK
  BY DEF IInv
<1> QED
  BY Inductive, <1>1, PTL

\* isLeaseCurrent never says yes to two different processes.
THEOREM Exclusive == Spec => []OneCurrentHolder
<1>1. IInv => OneCurrentHolder
  BY DEF IInv, OneCurrentHolder, isLeaseCurrent
<1> QED
  BY Inductive, <1>1, PTL

-----------------------------------------------------------------------------

\* Only a granted acquire moves the row to a newer token.
LEMMA TokenGrowsByAcquire ==
  ASSUME IInv, [Next]_vars, lease # NoLease, lease'.token > lease.token
  PROVE  \E p \in Proc : Acquire(p)
<1> USE DEF IInv, TypeOK, NoLease, LeaseRow, NoToken, NotSampled
<1>1. CASE Tick
  BY <1>1 DEF Tick
<1>2. ASSUME NEW p \in Proc, Step(p), ~Acquire(p) PROVE FALSE
  <2>1. CASE Sample(p) \/ AcquireBusy(p) \/ FencedWrite(p) \/ Crash(p)
    BY <2>1 DEF Sample, AcquireBusy, FencedWrite, Crash
  <2>2. CASE Renew(p)
    BY <2>2 DEF Renew
  <2>3. CASE Release(p)
    BY <2>3 DEF Release
  <2> QED BY <1>2, <2>1, <2>2, <2>3 DEF Step
<1>3. CASE UNCHANGED vars
  BY <1>3 DEF vars
<1> QED
  BY <1>1, <1>2, <1>3 DEF Next

\* A lease no older than the stale threshold is never taken over.
THEOREM FreshSafe == Spec => FreshLeaseNeverReclaimed
<1>1. IInv /\ [Next]_vars =>
        [ (lease # NoLease /\ lease'.token > lease.token)
            => now - lease.acquired_at_ms > StaleAfter ]_vars
  <2> SUFFICES ASSUME IInv, [Next]_vars,
                      lease # NoLease, lease'.token > lease.token
               PROVE  now - lease.acquired_at_ms > StaleAfter
    OBVIOUS
  <2>1. PICK p \in Proc : Acquire(p)
    BY TokenGrowsByAcquire
  <2>2. nowMs[p] - lease.acquired_at_ms > StaleAfter
    BY <2>1, StaleAfterAssumption
    DEF Acquire, Busy, IInv, TypeOK, LeaseRow, NotSampled
  <2> QED
    BY <2>1, <2>2, StaleAfterAssumption
    DEF IInv, TypeOK, LeaseRow, NotSampled, Acquire
<1> QED
  BY Inductive, <1>1, PTL DEF Spec, FreshLeaseNeverReclaimed

\* Losing a superseded handle leaves the newer holder's row untouched.
THEOREM ReleaseSafe == Spec => ReleaseSparesNewer
<1>1. IInv /\ [Next]_vars =>
        [ \A p \in Proc :
            (held[p] # NoToken /\ held'[p] = NoToken /\ lease.token > held[p])
              => lease' = lease ]_vars
  <2> SUFFICES ASSUME IInv, [Next]_vars, NEW q \in Proc, held[q] # NoToken,
                      held'[q] = NoToken, lease.token > held[q]
               PROVE  lease' = lease
    OBVIOUS
  <2> USE DEF IInv, TypeOK, NoLease, LeaseRow, NoToken, NotSampled
  <2>1. CASE Tick
    BY <2>1 DEF Tick
  <2>2. ASSUME NEW p \in Proc, Step(p) PROVE lease' = lease
    <3>1. CASE Sample(p) \/ AcquireBusy(p) \/ FencedWrite(p) \/ Crash(p)
      BY <3>1 DEF Sample, AcquireBusy, FencedWrite, Crash
    <3>2. CASE Renew(p)
      BY <3>2 DEF Renew
    <3>3. CASE Acquire(p)
      BY <3>3 DEF Acquire
    <3>4. CASE Release(p)
      BY <3>4 DEF Release, isLeaseCurrent
    <3> QED BY <2>2, <3>1, <3>2, <3>3, <3>4 DEF Step
  <2>3. CASE UNCHANGED vars
    BY <2>3 DEF vars
  <2> QED
    BY <2>1, <2>2, <2>3 DEF Next
<1> QED
  BY Inductive, <1>1, PTL DEF Spec, ReleaseSparesNewer

-----------------------------------------------------------------------------

\* Every write through fencedWrite is made under the newest token: the lease
\* implements FencedResource.
THEOREM Refinement == Spec => WritesAreFenced
<1>1. Init => Fenced!Init
  BY DEF Init, Fenced!Init, NoToken
<1>2. IInv /\ [Next]_vars => [Fenced!Next]_<<nextToken - 1, written>>
  <2> SUFFICES ASSUME IInv, [Next]_vars
               PROVE  \/ Fenced!Mint
                      \/ Fenced!Write
                      \/ UNCHANGED <<nextToken - 1, written>>
    BY DEF Fenced!Next
  <2>1. CASE Tick
    BY <2>1 DEF Tick
  <2>2. ASSUME NEW p \in Proc, Acquire(p) PROVE Fenced!Mint
    BY <2>2 DEF Acquire, Fenced!Mint, IInv, TypeOK
  <2>3. ASSUME NEW p \in Proc, FencedWrite(p) PROVE Fenced!Write
    BY <2>3 DEF FencedWrite, Fenced!Write, isLeaseCurrent, IInv, TypeOK, NoToken
  <2>4. ASSUME NEW p \in Proc,
               Sample(p) \/ AcquireBusy(p) \/ Renew(p) \/ Release(p) \/ Crash(p)
        PROVE  UNCHANGED <<nextToken - 1, written>>
    BY <2>4 DEF Sample, AcquireBusy, Renew, Release, Crash
  <2>5. CASE UNCHANGED vars
    BY <2>5 DEF vars
  <2> QED
    BY <2>1, <2>2, <2>3, <2>4, <2>5 DEF Next, Step
<1> QED
  BY Inductive, <1>1, <1>2, PTL DEF Spec, WritesAreFenced, Fenced!Spec

=============================================================================
