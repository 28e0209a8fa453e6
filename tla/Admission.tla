------------------------------ MODULE Admission ------------------------------
(***************************************************************************)
(* The gateway's admission control: AdmissionController of admission.ts,   *)
(* with the gateway's metered path around it (gateway.ts) and the          *)
(* preemptible background slot of the shadow lanes.                        *)
(*                                                                         *)
(* JavaScript runs on one thread.  A macrotask (a request, a timer, a      *)
(* closed connection, a settled upstream call) starts only when every      *)
(* pending continuation has run, so the states "ready" and "granted",      *)
(* whose continuation is pending, hold the macrotasks back.                *)
(*                                                                         *)
(* Time is abstract: a maintenance deadline passes, a queue timer fires    *)
(* and an upstream call settles at any moment.                             *)
(*                                                                         *)
(* Definitions named X_bug are wrong variants of X that no specification   *)
(* uses.                                                                   *)
(***************************************************************************)
EXTENDS Integers, Sequences, FiniteSets

CONSTANTS
    Request,       \* requests; one that settled may come again
    Key,           \* API keys
    keyId,         \* the key of each request
    lane,          \* "owner" or "guest", per request
    maxParallel,   \* keyMaxParallel of each key
    maxInflight,   \* HOMESERVER_MAX_INFLIGHT
    ShadowLane     \* TRUE: background measurements are configured

ASSUME AdmissionAssumption ==
    /\ keyId \in [Request -> Key]
    /\ lane \in [Request -> {"owner", "guest"}]
    /\ maxParallel \in [Key -> Nat]
    /\ maxInflight \in Nat \ {0}
    /\ ShadowLane \in BOOLEAN
    /\ IsFiniteSet(Request)

VARIABLES
    pc,            \* where each request is
    snapshot,      \* the keyInflight each request passed to acquire()
    inflight,      \* slots in use, the background's included
    keyInflight,   \* the controller's own count per key
    gwInflight,    \* the gateway's count per key, the source of the snapshots
    ownerWaiters,  \* the owner queue
    background,    \* "none", "running", or "aborting" once a request came
    maintenance,   \* on, scope, and whether its deadline is still to come
    startup,       \* TRUE until the startup fence's deadline
    skipped        \* history: the last drainQueue was held back by the fence

slots == <<inflight, keyInflight, ownerWaiters, pc, skipped>>
fence == <<maintenance, startup>>
vars == <<slots, snapshot, gwInflight, background, fence>>

Scope == {"guest", "exclusive"}

\* A deadline is absent, ahead, or past (maintenanceExpiresAtMs).
Maintenance == [on : BOOLEAN, scope : Scope, deadline : {"none", "ahead", "past"}]

\* The type invariant.
TypeOK ==
    /\ pc \in [Request -> {"idle", "draining", "ready", "queued", "granted", "running"}]
    /\ snapshot \in [Request -> Nat]
    /\ inflight \in Nat
    /\ keyInflight \in [Key -> Nat]
    /\ gwInflight \in [Key -> Nat]
    /\ ownerWaiters \in Seq(Request)
    /\ background \in {"none", "running", "aborting"}
    /\ maintenance \in Maintenance
    /\ startup \in BOOLEAN
    /\ skipped \in BOOLEAN

Init ==
    /\ pc = [r \in Request |-> "idle"]
    /\ snapshot = [r \in Request |-> 0]
    /\ inflight = 0
    /\ keyInflight = [k \in Key |-> 0]
    /\ gwInflight = [k \in Key |-> 0]
    /\ ownerWaiters = <<>>
    /\ background = "none"
    /\ maintenance \in [on : BOOLEAN, scope : {"guest"}, deadline : {"none"}]
    /\ startup \in BOOLEAN
    /\ skipped = FALSE

-----------------------------------------------------------------------------

\* A continuation is pending: no macrotask runs.
MicrotaskPending == \E r \in Request : pc[r] \in {"ready", "granted"}

\* effectiveMaintenanceScope of a maintenance setting: the startup fence, else
\* the setting as long as its deadline has not passed.
effectiveMaintenanceScope(m) ==
    CASE startup -> "exclusive"
      [] ~startup /\ m.on /\ m.deadline # "past" -> m.scope
      [] OTHER -> "off"

\* admit(): maintenance, the per-key cap on the caller's snapshot, a free slot,
\* then the lane, in this order.
admit(r) ==
    LET scope == effectiveMaintenanceScope(maintenance)
    IN  IF scope = "exclusive" \/ (scope = "guest" /\ lane[r] = "guest") THEN "reject"
        ELSE IF snapshot[r] >= maxParallel[keyId[r]] THEN "reject"
        ELSE IF inflight < maxInflight THEN "admit"
        ELSE IF lane[r] = "guest" THEN "reject"
        ELSE "queue"

\* drainQueue's loop over the queue q admits the waiters at the positions G: from
\* the front, every one for whom there is still a slot and whose key is still below
\* its cap; a capped waiter is passed over.
Admitted(q, used, keyUsed, G) ==
    \A i \in DOMAIN q :
      LET k == keyId[q[i]]
          before == {j \in G : j < i}
      IN  i \in G <=> /\ used + Cardinality(before) < maxInflight
                      /\ keyUsed[k] + Cardinality({j \in before : keyId[q[j]] = k}) < maxParallel[k]

\* The queue q without the positions G: splice() moves the others up.
Without(q, G) ==
    LET keep == DOMAIN q \ G
        rank(i) == Cardinality({j \in keep : j <= i})
    IN  [n \in 1..Cardinality(keep) |-> q[CHOOSE i \in keep : rank(i) = n]]

\* What drainQueue leaves when it admits the waiters of q at the positions G.
Grant(q, used, keyUsed, at, G) ==
    /\ ownerWaiters' = Without(q, G)
    /\ inflight' = used + Cardinality(G)
    /\ keyInflight' = [k \in Key |-> keyUsed[k] + Cardinality({i \in G : keyId[q[i]] = k})]
    /\ pc' = [r \in Request |-> IF \E i \in G : q[i] = r THEN "granted" ELSE at[r]]

drainQueue_bug(q, used, keyUsed, at, m) ==
    /\ \E G \in SUBSET DOMAIN q :
         Admitted(q, used, keyUsed, G) /\ Grant(q, used, keyUsed, at, G)
    /\ skipped' = FALSE

\* drainQueue() at the end of an action that left the queue q, the counts used
\* and keyUsed, the requests at at and the maintenance setting m.
drainQueue(q, used, keyUsed, at, m) ==
    LET fenced == effectiveMaintenanceScope(m) = "exclusive"
    IN  /\ \E G \in SUBSET DOMAIN q :
             /\ IF fenced THEN G = {} ELSE Admitted(q, used, keyUsed, G)
             /\ Grant(q, used, keyUsed, at, G)
        /\ skipped' = fenced

\* release() of r's slot, which ends r.
releaseSlot(r) ==
    drainQueue(ownerWaiters, inflight - 1, [keyInflight EXCEPT ![keyId[r]] = @ - 1],
               [pc EXCEPT ![r] = "idle"], maintenance)

-----------------------------------------------------------------------------
(* A request's way through acquire() and the metered path.                 *)

Arrive_bug(r) ==
    /\ ~MicrotaskPending
    /\ pc[r] = "idle"
    /\ snapshot' = [snapshot EXCEPT ![r] = gwInflight[keyId[r]]]
    /\ pc' = [pc EXCEPT ![r] = "ready"]
    /\ background' = IF background = "none" THEN "none" ELSE "aborting"
    /\ UNCHANGED <<inflight, keyInflight, ownerWaiters, skipped, gwInflight, fence>>

\* acquire() is called with the gateway's count of the moment.  If background
\* work holds the GPU it is aborted, and the request awaits its drain.
Arrive(r) ==
    /\ ~MicrotaskPending
    /\ pc[r] = "idle"
    /\ snapshot' = [snapshot EXCEPT ![r] = gwInflight[keyId[r]]]
    /\ pc' = [pc EXCEPT ![r] = IF background = "none" THEN "ready" ELSE "draining"]
    /\ background' = IF background = "none" THEN "none" ELSE "aborting"
    /\ UNCHANGED <<inflight, keyInflight, ownerWaiters, skipped, gwInflight, fence>>

AdmitNow(r) ==
    /\ pc[r] = "ready"
    /\ admit(r) = "admit"
    /\ inflight' = inflight + 1
    /\ keyInflight' = [keyInflight EXCEPT ![keyId[r]] = @ + 1]
    /\ pc' = [pc EXCEPT ![r] = "granted"]
    /\ UNCHANGED <<ownerWaiters, skipped, snapshot, gwInflight, background, fence>>

\* AdmissionRejected: the caller answers 503.
Reject(r) ==
    /\ pc[r] = "ready"
    /\ admit(r) = "reject"
    /\ pc' = [pc EXCEPT ![r] = "idle"]
    /\ UNCHANGED <<inflight, keyInflight, ownerWaiters, skipped,
                   snapshot, gwInflight, background, fence>>

Enqueue(r) ==
    /\ pc[r] = "ready"
    /\ admit(r) = "queue"
    /\ ownerWaiters' = Append(ownerWaiters, r)
    /\ pc' = [pc EXCEPT ![r] = "queued"]
    /\ UNCHANGED <<inflight, keyInflight, skipped, snapshot, gwInflight, background, fence>>

\* The caller's continuation: incInflight, then the handler runs.
Start(r) ==
    /\ pc[r] = "granted"
    /\ pc' = [pc EXCEPT ![r] = "running"]
    /\ gwInflight' = [gwInflight EXCEPT ![keyId[r]] = @ + 1]
    /\ UNCHANGED <<inflight, keyInflight, ownerWaiters, skipped, snapshot, background, fence>>

CancelGrant_bug(r) ==
    /\ pc[r] = "granted"
    /\ pc' = [pc EXCEPT ![r] = "idle"]
    /\ UNCHANGED <<inflight, keyInflight, ownerWaiters, skipped,
                   snapshot, gwInflight, background, fence>>

\* The client left before the continuation ran: the grant is given back.
CancelGrant(r) ==
    /\ pc[r] = "granted"
    /\ releaseSlot(r)
    /\ UNCHANGED <<snapshot, gwInflight, background, fence>>

Finish_bug(r) ==
    /\ ~MicrotaskPending
    /\ pc[r] = "running"
    /\ inflight' = inflight - 1
    /\ keyInflight' = [keyInflight EXCEPT ![keyId[r]] = @ - 1]
    /\ pc' = [pc EXCEPT ![r] = "idle"]
    /\ gwInflight' = [gwInflight EXCEPT ![keyId[r]] = @ - 1]
    /\ UNCHANGED <<ownerWaiters, skipped, snapshot, background, fence>>

\* The handler settled: release(), then decInflight.
Finish(r) ==
    /\ ~MicrotaskPending
    /\ pc[r] = "running"
    /\ releaseSlot(r)
    /\ gwInflight' = [gwInflight EXCEPT ![keyId[r]] = @ - 1]
    /\ UNCHANGED <<snapshot, background, fence>>

\* The queue timer fires, or the client of a queued request leaves: discard().
Discard(r) ==
    /\ ~MicrotaskPending
    /\ pc[r] = "queued"
    /\ drainQueue(Without(ownerWaiters, {i \in DOMAIN ownerWaiters : ownerWaiters[i] = r}),
                  inflight, keyInflight, [pc EXCEPT ![r] = "idle"], maintenance)
    /\ UNCHANGED <<snapshot, gwInflight, background, fence>>

\* The client leaves while its request awaits the background's drain.
CancelDraining(r) ==
    /\ ~MicrotaskPending
    /\ pc[r] = "draining"
    /\ pc' = [pc EXCEPT ![r] = "idle"]
    /\ UNCHANGED <<inflight, keyInflight, ownerWaiters, skipped,
                   snapshot, gwInflight, background, fence>>

-----------------------------------------------------------------------------
(* Background work and maintenance.                                        *)

\* tryAcquireBackground, which the lanes call outside maintenance only.
StartBackground ==
    /\ ShadowLane
    /\ ~MicrotaskPending
    /\ effectiveMaintenanceScope(maintenance) = "off"
    /\ background = "none" /\ inflight = 0 /\ ownerWaiters = <<>>
    /\ background' = "running"
    /\ inflight' = 1
    /\ UNCHANGED <<keyInflight, ownerWaiters, skipped, pc, snapshot, gwInflight, fence>>

BackgroundSettles_bug ==
    /\ ~MicrotaskPending
    /\ background # "none"
    /\ background' = "none"
    /\ drainQueue(ownerWaiters, inflight - 1, keyInflight, pc, maintenance)
    /\ UNCHANGED <<snapshot, gwInflight, fence>>

\* The background work settles, by itself or aborted: its release() lets the
\* requests that await the drain go on.
BackgroundSettles ==
    /\ ~MicrotaskPending
    /\ background # "none"
    /\ background' = "none"
    /\ drainQueue(ownerWaiters, inflight - 1, keyInflight,
                  [r \in Request |-> IF pc[r] = "draining" THEN "ready" ELSE pc[r]],
                  maintenance)
    /\ UNCHANGED <<snapshot, gwInflight, fence>>

\* setMaintenanceMode(true, ...); the admin endpoint demands a deadline of an
\* exclusive window.
MaintenanceOn(scope, deadline) ==
    /\ ~MicrotaskPending
    /\ scope = "exclusive" => deadline = "ahead"
    /\ maintenance' = [on |-> TRUE, scope |-> scope, deadline |-> deadline]
    /\ UNCHANGED <<slots, snapshot, gwInflight, background, startup>>

\* setMaintenanceMode(false), which drains the queue.
MaintenanceOff ==
    /\ ~MicrotaskPending
    /\ maintenance.on
    /\ maintenance' = [on |-> FALSE, scope |-> "guest", deadline |-> "none"]
    /\ drainQueue(ownerWaiters, inflight, keyInflight, pc, maintenance')
    /\ UNCHANGED <<snapshot, gwInflight, background, startup>>

\* The deadline of the window passes: nothing is drained, reads just change.
WindowExpires ==
    /\ maintenance.deadline = "ahead"
    /\ maintenance' = [maintenance EXCEPT !.deadline = "past"]
    /\ UNCHANGED <<slots, snapshot, gwInflight, background, startup>>

\* The startup fence's deadline passes.
StartupFenceEnds ==
    /\ startup
    /\ startup' = FALSE
    /\ UNCHANGED <<slots, snapshot, gwInflight, background, maintenance>>

RequestStep(r) ==
    \/ Arrive(r) \/ AdmitNow(r) \/ Reject(r) \/ Enqueue(r)
    \/ Start(r) \/ CancelGrant(r) \/ Finish(r)
    \/ Discard(r) \/ CancelDraining(r)

FenceStep ==
    \/ \E scope \in Scope, deadline \in {"none", "ahead"} : MaintenanceOn(scope, deadline)
    \/ MaintenanceOff \/ WindowExpires \/ StartupFenceEnds

Next ==
    \/ \E r \in Request : RequestStep(r)
    \/ StartBackground \/ BackgroundSettles
    \/ FenceStep

Spec == Init /\ [][Next]_vars

-----------------------------------------------------------------------------

Holders == {r \in Request : pc[r] \in {"granted", "running"}}

HoldersOf(k) == {r \in Holders : keyId[r] = k}

\* Slot accounting: whatever mix of releases, cancelled grants, timeouts and
\* background work, the controller's counts are exactly the slots held, there
\* are never more of them than the budget, the queue holds exactly the requests
\* that wait, each once, and the gateway's count, which the snapshots are taken
\* from, agrees whenever a new request can arrive.  (Of the requests that go
\* through withMeteredAdmission; the MCP tools add to the gateway's count only
\* after a further await.)
SlotAccounting ==
    /\ inflight = Cardinality(Holders) + (IF background = "none" THEN 0 ELSE 1)
    /\ inflight <= maxInflight
    /\ \A k \in Key : keyInflight[k] = Cardinality(HoldersOf(k))
    /\ \A r \in Request :
         Cardinality({i \in DOMAIN ownerWaiters : ownerWaiters[i] = r}) =
           (IF pc[r] = "queued" THEN 1 ELSE 0)
    /\ ~MicrotaskPending => gwInflight = keyInflight

\* No key holds more slots than its cap.
PerKeyCap ==
    \A k \in Key : Cardinality(HoldersOf(k)) <= maxParallel[k]

\* Background work runs alone: while it holds its slot no request is running
\* and none waits in the queue.
BackgroundAlone ==
    background # "none" => Holders = {} /\ ownerWaiters = <<>>

\* Work conservation: a free slot and a waiting owner whose key is below its
\* cap meet only when a fence held the last drain back.
WorkConserving ==
    (~skipped /\ inflight < maxInflight)
        => \A i \in DOMAIN ownerWaiters :
             keyInflight[keyId[ownerWaiters[i]]] >= maxParallel[keyId[ownerWaiters[i]]]

Position(r) == CHOOSE i \in DOMAIN ownerWaiters : ownerWaiters[i] = r

\* Nobody overtakes: unless a fence held a drain back, a slot never goes to a
\* request, guest or owner, past an owner who was waiting before it, still
\* waits, and whose key is below its cap.
NoOvertaking ==
    [][ \A r, w \in Request :
          (/\ ~skipped
           /\ r \in Holders' \ Holders
           /\ pc[w] = "queued" /\ pc'[w] = "queued"
           /\ keyInflight'[keyId[w]] < maxParallel[keyId[w]])
             => pc[r] = "queued" /\ Position(r) < Position(w) ]_vars

\* Under an exclusive window or the startup fence nothing new gets a slot: no
\* request, no parked owner, no background work.
ExclusiveFence ==
    [][ (effectiveMaintenanceScope(maintenance) = "exclusive"
           /\ effectiveMaintenanceScope(maintenance)' = "exclusive")
          => /\ Holders' \subseteq Holders
             /\ background = "none" => background' = "none" ]_vars

\* Every request that came in is answered: it gets its slot and finishes, or it
\* is rejected.
EveryRequestSettles ==
    \A r \in Request : pc[r] # "idle" ~> pc[r] = "idle"

=============================================================================
