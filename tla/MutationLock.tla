---------------------------- MODULE MutationLock ----------------------------
(***************************************************************************)
(* The exclusive routing-table mutation lease of mutation-lock.ts: one     *)
(* lease row and one token counter in SQLite, shared by every process that *)
(* mutates the routing table.  Each operation is one IMMEDIATE             *)
(* transaction, hence one atomic step, but the wall-clock reading that an  *)
(* acquire or a renew stores is taken before its transaction gets the      *)
(* writer lock, so it may be old when it is used.                          *)
(*                                                                         *)
(* A process that crashes loses its handle and leaves the lease row        *)
(* behind; a process that merely stalls keeps its handle and may come back *)
(* after the lease was reclaimed (a zombie holder).                        *)
(*                                                                         *)
(* Definitions named X_bug are wrong variants of X; no specification uses  *)
(* them, they show that the properties below can fail.                     *)
(***************************************************************************)
EXTENDS Integers

CONSTANTS
    Proc,         \* processes: autonomy ticks, CLI commands, watchdog runs
    StaleAfter,   \* DEFAULT_MUTATION_LOCK_STALE_AFTER_MS, in clock ticks
    MaxTime,      \* bound of the model: last clock reading
    MaxToken      \* bound of the model: last token minted

ASSUME StaleAfterAssumption == StaleAfter \in Nat

ASSUME BoundsAssumption == MaxTime \in Nat /\ MaxToken \in Nat

VARIABLES
    now,          \* the wall clock, Date.now()
    lease,        \* row 1 of mutation_lease: token and acquired_at_ms, or NoLease
    nextToken,    \* row 1 of mutation_lease_seq
    held,         \* the token in each process's MutationLockHandle, or NoToken
    nowMs,        \* the clock reading a pending acquire or renew will store
    written       \* the token under which the guarded resource was last written

vars == <<now, lease, nextToken, held, nowMs, written>>

NoToken == 0

NoLease == [token |-> NoToken, acquired_at_ms |-> 0]

NotSampled == -1

LeaseRow == [token : Nat, acquired_at_ms : Nat]

\* The type invariant: a lease row, a counter that starts at 1, one handle and
\* at most one pending clock reading per process.
TypeOK ==
    /\ now \in Nat
    /\ lease \in LeaseRow
    /\ nextToken \in Nat \ {0}
    /\ held \in [Proc -> Nat]
    /\ nowMs \in [Proc -> Nat \cup {NotSampled}]
    /\ written \in Nat

Init ==
    /\ now = 0
    /\ lease = NoLease
    /\ nextToken = 1
    /\ held = [p \in Proc |-> NoToken]
    /\ nowMs = [p \in Proc |-> NotSampled]
    /\ written = NoToken

-----------------------------------------------------------------------------

\* isLeaseCurrent: there is a lease row and it carries this very token.
isLeaseCurrent(token) ==
    /\ lease # NoLease
    /\ lease.token = token

Busy_bug(t) ==
    /\ lease # NoLease
    /\ t - lease.acquired_at_ms < StaleAfter

\* The acquire transaction refuses while the row's age is at most StaleAfter.
Busy(t) ==
    /\ lease # NoLease
    /\ t - lease.acquired_at_ms <= StaleAfter

\* acquireMutationLock and renewMutationLock read the clock before they queue
\* for SQLite's writer lock.
Sample(p) ==
    /\ nowMs[p] = NotSampled
    /\ nowMs' = [nowMs EXCEPT ![p] = now]
    /\ UNCHANGED <<now, lease, nextToken, held, written>>

\* acquireMutationLock's transaction, refused: MutationLockBusyError.
AcquireBusy(p) ==
    /\ held[p] = NoToken
    /\ nowMs[p] # NotSampled
    /\ Busy(nowMs[p])
    /\ nowMs' = [nowMs EXCEPT ![p] = NotSampled]
    /\ UNCHANGED <<now, lease, nextToken, held, written>>

Acquire_bug(p) ==
    /\ held[p] = NoToken
    /\ nowMs[p] # NotSampled
    /\ ~Busy(nowMs[p])
    /\ nextToken <= MaxToken
    /\ lease' = [token |-> nextToken, acquired_at_ms |-> nowMs[p]]
    /\ nextToken' = nextToken
    /\ held' = [held EXCEPT ![p] = nextToken]
    /\ nowMs' = [nowMs EXCEPT ![p] = NotSampled]
    /\ UNCHANGED <<now, written>>

\* acquireMutationLock's transaction, granted: the row is absent or stale, a
\* fresh token is minted and consumed with the takeover.
Acquire(p) ==
    /\ held[p] = NoToken
    /\ nowMs[p] # NotSampled
    /\ ~Busy(nowMs[p])
    /\ nextToken <= MaxToken
    /\ lease' = [token |-> nextToken, acquired_at_ms |-> nowMs[p]]
    /\ nextToken' = nextToken + 1
    /\ held' = [held EXCEPT ![p] = nextToken]
    /\ nowMs' = [nowMs EXCEPT ![p] = NotSampled]
    /\ UNCHANGED <<now, written>>

\* renewMutationLock: UPDATE ... WHERE token = ?, a no-op for a stale token.
Renew(p) ==
    /\ held[p] # NoToken
    /\ nowMs[p] # NotSampled
    /\ lease' = IF isLeaseCurrent(held[p])
                  THEN [lease EXCEPT !.acquired_at_ms = nowMs[p]]
                  ELSE lease
    /\ nowMs' = [nowMs EXCEPT ![p] = NotSampled]
    /\ UNCHANGED <<now, nextToken, held, written>>

FencedWrite_bug(p) ==
    /\ held[p] # NoToken
    /\ nowMs[p] = NotSampled
    /\ written' = held[p]
    /\ UNCHANGED <<now, lease, nextToken, held, nowMs>>

\* fencedWrite: the token check and the synchronous filesystem write happen
\* in one transaction; a stale token throws MutationLockStaleError and writes
\* nothing, so that outcome leaves every variable alone.
FencedWrite(p) ==
    /\ held[p] # NoToken
    /\ nowMs[p] = NotSampled
    /\ isLeaseCurrent(held[p])
    /\ written' = held[p]
    /\ UNCHANGED <<now, lease, nextToken, held, nowMs>>

\* releaseMutationLock: DELETE ... WHERE token = ?; the handle is spent either
\* way (release runs in the caller's finally block).
Release(p) ==
    /\ held[p] # NoToken
    /\ nowMs[p] = NotSampled
    /\ lease' = IF isLeaseCurrent(held[p]) THEN NoLease ELSE lease
    /\ held' = [held EXCEPT ![p] = NoToken]
    /\ UNCHANGED <<now, nextToken, nowMs, written>>

\* The process dies between two of its operations: the row stays.
Crash(p) ==
    /\ held[p] # NoToken \/ nowMs[p] # NotSampled
    /\ held' = [held EXCEPT ![p] = NoToken]
    /\ nowMs' = [nowMs EXCEPT ![p] = NotSampled]
    /\ UNCHANGED <<now, lease, nextToken, written>>

Tick ==
    /\ now < MaxTime
    /\ now' = now + 1
    /\ UNCHANGED <<lease, nextToken, held, nowMs, written>>

Step(p) ==
    \/ Sample(p)
    \/ AcquireBusy(p)
    \/ Acquire(p)
    \/ Renew(p)
    \/ FencedWrite(p)
    \/ Release(p)
    \/ Crash(p)

Next == Tick \/ \E p \in Proc : Step(p)

Spec == Init /\ [][Next]_vars

-----------------------------------------------------------------------------

\* isLeaseCurrent never answers yes to two processes: however often the lease
\* was reclaimed from a stalled holder, the handle it left that holder with is
\* not the one a later holder got.
OneCurrentHolder ==
    \A p, q \in Proc :
        isLeaseCurrent(held[p]) /\ isLeaseCurrent(held[q]) => p = q

\* A lease changes hands only when the row is older than StaleAfter at the
\* moment of the takeover, even though the taker compares the age against a
\* clock reading it took before it waited for the writer lock.
FreshLeaseNeverReclaimed ==
    [][ (lease # NoLease /\ lease'.token > lease.token)
          => now - lease.acquired_at_ms > StaleAfter ]_vars

\* A late release() (or a crash) of a superseded holder leaves the newer
\* holder's row in place, with the time it was acquired or renewed.
ReleaseSparesNewer ==
    [][ \A p \in Proc :
          (held[p] # NoToken /\ held'[p] = NoToken /\ lease.token > held[p])
            => lease' = lease ]_vars

\* The lease implements the fenced resource: every write of the routing table
\* through fencedWrite is made under the newest token minted so far.
Fenced == INSTANCE FencedResource WITH minted <- nextToken - 1

\* fencedWrite never lets a superseded holder write.
WritesAreFenced == Fenced!Spec

=============================================================================
