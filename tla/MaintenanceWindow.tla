-------------------------- MODULE MaintenanceWindow --------------------------
(***************************************************************************)
(* ExclusiveMaintenanceWindow of maintenance-window.ts, composed with the  *)
(* admission controller whose fence it raises: open() takes the GPU lease, *)
(* raises the exclusive fence, waits until the admitted work has drained   *)
(* and llama-swap is stable, and only then hands out the window; a timer,  *)
(* the operator or a lost lease closes it again.                           *)
(*                                                                         *)
(* The lease is seen from this process only: who holds it (GpuLease models *)
(* how it is won).  The fence is raised for ttlMs + drainTimeoutMs, which  *)
(* covers the first wait of open() but not always the second: that one has *)
(* a limit of its own and asks llama-swap, whose answer may take long.     *)
(* Once a window is active its timer is due a second before the fence's    *)
(* own deadline.                                                           *)
(*                                                                         *)
(* The operator's toggle is a handler with an await: it asks whether a     *)
(* window is busy, awaits the request's body, and then makes the setting   *)
(* without asking again.                                                   *)
(*                                                                         *)
(* Definitions named X_bug are wrong variants of X that no specification   *)
(* uses.                                                                   *)
(***************************************************************************)
EXTENDS Admission

CONSTANTS
    MaxWindow,     \* bound of the model: windows opened
    MaxAsked       \* bound of the model: operator requests whose body is awaited

ASSUME WindowAssumption == MaxWindow \in Nat /\ MaxAsked \in Nat

VARIABLES
    window,        \* the window being opened or active, 0 if none
    phase,         \* how far it is; "none" means that neither opening nor active
    closing,       \* windows whose closeInternal awaits the lease's release
    lease,         \* holder of the GPU lease: a window, Other, or Free
    author,        \* history: who made the maintenance setting
    intact,        \* history: since a window last raised its fence, no late
                   \* operator request, no deadline and no window that had
                   \* lost its lease has changed the setting
    asked,         \* operator requests past the busy check, awaiting their body
    opened         \* windows opened so far

windowVars == <<window, phase, closing, lease, author, intact, asked, opened>>
wvars == <<vars, windowVars>>

Free == 0

Other == -1

Operator == -2

\* The type invariant.
WTypeOK ==
    /\ TypeOK
    /\ window \in 0..MaxWindow /\ opened \in 0..MaxWindow
    /\ phase \in {"none", "lease", "drain", "residency", "active", "failed"}
    /\ intact \in BOOLEAN /\ asked \in 0..MaxAsked
    /\ closing \subseteq 1..MaxWindow
    /\ lease \in {Free, Other} \cup 1..MaxWindow
    /\ author \in {Free, Operator} \cup 1..MaxWindow

WInit ==
    /\ Init
    /\ window = 0 /\ phase = "none" /\ closing = {} /\ opened = 0
    /\ intact = FALSE /\ asked = 0
    /\ lease \in {Free, Other}
    /\ author = IF maintenance.on THEN Operator ELSE Free

isBusy == phase # "none"

\* setMaintenanceMode(true, ttl, "exclusive") by the window.
RaiseFence ==
    /\ maintenance' = [on |-> TRUE, scope |-> "exclusive", deadline |-> "ahead"]
    /\ author' = window

-----------------------------------------------------------------------------
(* open()                                                                  *)

\* open() refuses while another window is opening or active.
Open ==
    /\ ~MicrotaskPending
    /\ ~isBusy
    /\ opened < MaxWindow
    /\ opened' = opened + 1
    /\ window' = opened + 1
    /\ phase' = "lease"
    /\ UNCHANGED <<vars, closing, lease, author, intact, asked>>

\* acquireLease resolves; its continuation raises the fence.
OpenFenced ==
    /\ ~MicrotaskPending
    /\ phase = "lease" /\ lease = Free
    /\ lease' = window
    /\ phase' = "drain"
    /\ RaiseFence
    /\ intact' = TRUE
    /\ UNCHANGED <<slots, snapshot, gwInflight, background, startup, window, closing, asked, opened>>

OpenDrained_bug ==
    /\ ~MicrotaskPending
    /\ phase = "drain"
    /\ ownerWaiters = <<>>
    /\ phase' = "residency"
    /\ UNCHANGED <<vars, window, closing, lease, author, intact, asked, opened>>

\* waitForDrain sees an idle controller.
OpenDrained ==
    /\ ~MicrotaskPending
    /\ phase = "drain"
    /\ inflight = 0 /\ ownerWaiters = <<>>
    /\ phase' = "residency"
    /\ UNCHANGED <<vars, window, closing, lease, author, intact, asked, opened>>

\* waitForStableResidency returns: the fence is renewed, the timer is set and
\* the window is handed out.
OpenActive ==
    /\ ~MicrotaskPending
    /\ phase = "residency"
    /\ phase' = "active"
    /\ RaiseFence
    /\ UNCHANGED <<slots, snapshot, gwInflight, background, startup,
                   window, closing, lease, intact, asked, opened>>

\* A timeout, an abort of the client or a lost lease ends open(): the fence, if
\* it was raised, is dropped at once.
OpenFails ==
    /\ ~MicrotaskPending
    /\ phase \in {"lease", "drain", "residency"}
    /\ phase' = "failed"
    /\ IF phase = "lease"
         THEN UNCHANGED <<slots, maintenance, author>>
         ELSE /\ maintenance' = [on |-> FALSE, scope |-> "guest", deadline |-> "none"]
              /\ author' = Free
              /\ drainQueue(ownerWaiters, inflight, keyInflight, pc, maintenance')
    /\ UNCHANGED <<snapshot, gwInflight, background, startup,
                   window, closing, lease, intact, asked, opened>>

\* Its lease.release() resolves: the finally block clears opening.
OpenFailed ==
    /\ ~MicrotaskPending
    /\ phase = "failed"
    /\ phase' = "none" /\ window' = 0
    /\ lease' = IF lease = window THEN Free ELSE lease
    /\ UNCHANGED <<vars, closing, author, intact, asked, opened>>

-----------------------------------------------------------------------------
(* closeInternal() and the world around the window.                        *)

Close_bug ==
    /\ ~MicrotaskPending
    /\ phase = "active"
    /\ phase' = "none" /\ window' = 0
    /\ UNCHANGED <<vars, closing, lease, author, intact, asked, opened>>

\* The timer, close(token), shutdown() or onLeaseLost: closeInternal forgets
\* the window and awaits the release of its lease.
Close ==
    /\ ~MicrotaskPending
    /\ phase = "active"
    /\ phase' = "none" /\ window' = 0
    /\ closing' = closing \cup {window}
    /\ UNCHANGED <<vars, lease, author, intact, asked, opened>>

\* The release resolves; the finally block drops the fence.
Restore(w) ==
    /\ ~MicrotaskPending
    /\ w \in closing
    /\ closing' = closing \ {w}
    /\ lease' = IF lease = w THEN Free ELSE lease
    /\ maintenance' = [on |-> FALSE, scope |-> "guest", deadline |-> "none"]
    /\ author' = Free
    /\ intact' = (intact /\ lease = w)
    /\ drainQueue(ownerWaiters, inflight, keyInflight, pc, maintenance')
    /\ UNCHANGED <<snapshot, gwInflight, background, startup, window, phase, asked, opened>>

\* The operator's toggle is refused while a window is busy; else its body is
\* awaited.
OperatorAsks ==
    /\ ~MicrotaskPending
    /\ ~isBusy
    /\ asked < MaxAsked
    /\ asked' = asked + 1
    /\ UNCHANGED <<vars, window, phase, closing, lease, author, intact, opened>>

\* The body has come: the setting is made, whatever the windows do by now.
OperatorSets(by) ==
    /\ asked > 0
    /\ asked' = asked - 1
    /\ author' = by
    /\ intact' = FALSE
    /\ UNCHANGED <<window, phase, closing, lease, opened>>

OperatorOn(scope, deadline) ==
    MaintenanceOn(scope, deadline) /\ OperatorSets(Operator)

OperatorOff ==
    MaintenanceOff /\ OperatorSets(Free)

\* The body is invalid or never comes.
OperatorGone ==
    /\ ~MicrotaskPending
    /\ asked > 0
    /\ asked' = asked - 1
    /\ UNCHANGED <<vars, window, phase, closing, lease, author, intact, opened>>

\* The fence's deadline passes; see the module's head for when it can.
FenceExpires ==
    /\ author \in 1..MaxWindow /\ author = window => phase = "residency"
    /\ WindowExpires
    /\ intact' = FALSE
    /\ UNCHANGED <<window, phase, closing, lease, author, asked, opened>>

\* Another process takes or gives up the lease, or reclaims it from a stalled
\* gateway.
LeaseElsewhere ==
    /\ \/ lease = Free /\ lease' = Other
       \/ lease = Other /\ lease' = Free
       \/ lease \in 1..MaxWindow /\ lease' = Other
    /\ UNCHANGED <<vars, window, phase, closing, author, intact, asked, opened>>

WNext ==
    \/ /\ \/ \E r \in Request : RequestStep(r)
          \/ StartBackground \/ BackgroundSettles \/ StartupFenceEnds
       /\ UNCHANGED windowVars
    \/ Open \/ OpenFenced \/ OpenDrained \/ OpenActive \/ OpenFails \/ OpenFailed
    \/ Close \/ \E w \in 1..MaxWindow : Restore(w)
    \/ \E scope \in Scope, deadline \in {"none", "ahead"} : OperatorOn(scope, deadline)
    \/ OperatorAsks \/ OperatorOff \/ OperatorGone \/ FenceExpires \/ LeaseElsewhere

WSpec == WInit /\ [][WNext]_wvars

\* Continuations always run.  An upstream call is bounded by its timeout, a
\* queued request by its timer, background work by its own timeout, the waits of
\* open() by theirs, a window by its timer and a release by the file system;
\* once due, the event loop gets to each of them however much else happens.  Of
\* the steps that bring a window to its end no more is assumed than that one of
\* those that are due is taken.
WFairness ==
    /\ \A r \in Request :
         /\ WF_wvars((AdmitNow(r) \/ Reject(r) \/ Enqueue(r) \/ Start(r)) /\ UNCHANGED windowVars)
         /\ SF_wvars(Finish(r) /\ UNCHANGED windowVars)
         /\ SF_wvars(Discard(r) /\ UNCHANGED windowVars)
    /\ SF_wvars(BackgroundSettles /\ UNCHANGED windowVars)
    /\ SF_wvars(OpenFails \/ OpenFailed \/ Close \/ \E w \in 1..MaxWindow : Restore(w))

FairWSpec == WSpec /\ WFairness

-----------------------------------------------------------------------------

\* An active window is exclusive: from the moment it is handed out, with the
\* evidence "inflight: 0", until it is closed, no request and no background
\* work holds a slot, and none is admitted.  Three things may take its fence
\* down, and nothing else does: an operator's request that passed the busy check
\* before the window was opened, the fence's deadline if it passes before the
\* window is handed out, and the late release of a window whose lease had been
\* reclaimed.  An earlier window that still closes, but has its lease, does not.
WindowIsExclusive ==
    phase = "active" /\ intact =>
        /\ Holders = {} /\ background = "none" /\ ownerWaiters = <<>>
        /\ effectiveMaintenanceScope(maintenance) = "exclusive"

\* Every window ends: once the fence is raised it is dropped again and the
\* lease given back, whether open() fails, the operator returns or nobody does.
WindowEnds ==
    \A w \in 1..MaxWindow : author = w ~> (author # w /\ lease # w)

=============================================================================
