------------------------- MODULE ConstitutionalRoute -------------------------
(***************************************************************************)
(* One autonomous change of the routing table under the constitution: the  *)
(* controller begins and commits it (ConstitutionalRoutingController), the *)
(* watchdog commits nothing and undoes what is not committed               *)
(* (ConstitutionalRoutingWatchdog.tick), and the recovery service makes    *)
(* every write to the route database for both of them                      *)
(* (constitutional-recovery-service.ts).  The gateway only reads it        *)
(* (readConstitutionalRouteDatabase).                                      *)
(*                                                                         *)
(* There are two databases, each with a fenced lease of its own            *)
(* (ConstitutionalFencedLease): the state database holds the journal, the  *)
(* recovery material, the attempt index and the block marker; the route    *)
(* database holds the value, the candidate's serving deadline and the      *)
(* guard.  A process takes the route lease first, through the service, and *)
(* then the state lease.  Nothing is atomic across the two.                *)
(*                                                                         *)
(* A lease is its token: a taker gets one that nobody knows yet.  Leases   *)
(* may lapse under a process that is merely slow, processes and the        *)
(* service may die between any two steps, the machine may reboot, and a    *)
(* request whose client gave up may still be served.  The journal is its   *)
(* last phase.  Whether a protected gate (authority, kill switch,          *)
(* liveness, digests, proof) passes is free at every evaluation.           *)
(***************************************************************************)
EXTENDS Integers, FiniteSets

CONSTANTS
    Tokens,     \* lease tokens
    None,       \* no token, no request
    MaxRuns,    \* bound of the model: invocations of the controller
    MaxFault    \* bound of the model: crashes, lapses and lost replies

ASSUME RouteAssumption == None \notin Tokens /\ MaxRuns \in Nat /\ MaxFault \in Nat

VARIABLES
    journal,    \* phase of the last receipt in the journal
    material,   \* recovery-material.json exists
    index,      \* the attempt index has this attempt
    marker,     \* target-block.json: "none", "pending" or "receiptPending"
    srow,       \* token of the state database's lease row
    sfresh,     \* that lease has not expired
    route,      \* the live value: "base" or "cand"
    dlrow,      \* the serving deadline row: "none", or the boot it was set in
    guard,      \* the serving guard: "clear", "owned" or "unowned"
    rrow,       \* token of the route database's lease row
    rfresh,     \* that lease has not expired
    reg,        \* the preregistration: "none", "open" or its classification
    demoted,    \* the signed narrowing is persisted
    handle,     \* the service's lease handles, one per socket
    svc,        \* what the service is in the middle of, or "idle"
    pc,         \* where controller and watchdog are
    cmd,        \* the controller's command
    seen,       \* the journal's phase as the watchdog loaded it
    stok, rtok, \* the tokens they work with
    ask,        \* the request of each that the service has not finished, or None
    askTok,     \* the token in that request
    waits,      \* the client still waits for the reply
    window,     \* the watch: too "early", "ripe" or too "late" to commit
    dl,         \* the attempt's deadline has passed
    runs, faults

sdb == <<journal, material, index, marker>>
slease == <<srow, sfresh>>
rdb == <<route, dlrow, guard>>
rlease == <<rrow, rfresh, handle>>
service == <<reg, demoted, svc>>
toks == <<stok, rtok>>
proc == <<pc, cmd, seen, toks>>
req == <<ask, askTok, waits>>
clock == <<window, dl>>
vars == <<sdb, slease, rdb, rlease, service, proc, req, clock, runs, faults>>

Proc == {"ctl", "dog"}
InFlight == {"prepare", "apply", "watch", "unknown", "revert"}
Terminal == {"commit", "disarm", "blocked"}
Phases == InFlight \cup Terminal \cup {"none"}

\* Where a process waits for the service, and what it asks for.
CtlOps == {"register", "apply", "promote"}
DogOps == {"promote", "blockEnd", "block", "unowned", "owned", "actuate", "demote", "clearEnd"}
ASSUME NoneAssumption == None \notin CtlOps \cup DogOps

CtlPcs == CtlOps \cup
    {"idle", "fence", "state", "check", "prepare", "material", "index", "gate", "readback",
     "applied", "verify", "watch", "unknown", "cgate", "commit", "release", "unfence"}
DogPcs == DogOps \cup
    {"idle", "fence", "state", "load", "auth", "stop", "unknown", "mark", "revert", "disarm",
     "unmark", "terminal", "receipt", "release", "unfence"}

\* The type invariant.
TypeOK ==
    /\ journal \in Phases /\ material \in BOOLEAN /\ index \in BOOLEAN
    /\ marker \in {"none", "pending", "receiptPending"}
    /\ srow \in Tokens \cup {None} /\ sfresh \in BOOLEAN
    /\ route \in {"base", "cand"} /\ dlrow \in {"none", "thisBoot", "otherBoot"}
    /\ guard \in {"clear", "owned", "unowned"}
    /\ rrow \in Tokens \cup {None} /\ rfresh \in BOOLEAN
    /\ reg \in {"none", "open", "restored", "already", "failed"}
    /\ demoted \in BOOLEAN /\ svc \in {"idle", "apply", "restore", "consume", "block", "clear"}
    /\ handle \in [Proc -> Tokens \cup {None}]
    /\ pc \in [Proc -> CtlPcs \cup DogPcs] /\ pc["ctl"] \in CtlPcs /\ pc["dog"] \in DogPcs
    /\ cmd \in {"none", "begin", "commit"} /\ seen \in Phases
    /\ stok \in [Proc -> Tokens \cup {None}] /\ rtok \in [Proc -> Tokens \cup {None}]
    /\ ask \in [Proc -> CtlOps \cup DogOps \cup {None}]
    /\ askTok \in [Proc -> Tokens \cup {None}] /\ waits \in [Proc -> BOOLEAN]
    /\ window \in {"early", "ripe", "late"} /\ dl \in BOOLEAN
    /\ runs \in 0..MaxRuns /\ faults \in 0..MaxFault

Init ==
    /\ journal = "none" /\ material = FALSE /\ index = FALSE /\ marker = "none"
    /\ srow = None /\ sfresh = FALSE
    /\ route = "base" /\ dlrow = "none" /\ guard = "clear"
    /\ rrow = None /\ rfresh = FALSE
    /\ reg = "none" /\ demoted = FALSE /\ svc = "idle"
    /\ handle = [p \in Proc |-> None]
    /\ pc = [p \in Proc |-> "idle"] /\ cmd = "none" /\ seen = "none"
    /\ stok = [p \in Proc |-> None] /\ rtok = [p \in Proc |-> None]
    /\ ask = [p \in Proc |-> None] /\ askTok = [p \in Proc |-> None] /\ waits = [p \in Proc |-> FALSE]
    /\ window = "early" /\ dl = FALSE /\ runs = 0 /\ faults = 0

Fault == faults < MaxFault /\ faults' = faults + 1

-----------------------------------------------------------------------------
(* ConstitutionalFencedLease                                               *)

\* Process p is at l and not waiting for the service.
At(p, l) == pc[p] = l /\ ~waits[p]
Moves(p, l) == pc' = [pc EXCEPT ![p] = l]
Goto(p, l) == Moves(p, l) /\ UNCHANGED <<cmd, seen, toks>>

\* The process ends, and with it what it knew.
Exits(p) ==
    /\ Moves(p, "idle")
    /\ cmd' = IF p = "ctl" THEN "none" ELSE cmd
    /\ seen' = IF p = "dog" THEN "none" ELSE seen
    /\ stok' = [stok EXCEPT ![p] = None] /\ rtok' = [rtok EXCEPT ![p] = None]

\* acquire: over no row, an expired one, or one whose process is gone.
StateFree == srow = None \/ ~sfresh \/ \A p \in Proc : stok[p] # srow
RouteFree == rrow = None \/ ~rfresh \/ \A p \in Proc : handle[p] # rrow

\* assertAndRenewInDb: the caller's own token, still in the row and unexpired.
StateCurrent(p) == stok[p] # None /\ srow = stok[p] /\ sfresh

\* routeLeaseCurrent
RouteCurrent(t) == t # None /\ rrow = t /\ rfresh

\* randomUUID: a token that nothing refers to.
Unused(t) ==
    /\ t \notin {srow, rrow}
    /\ \A p \in Proc : t \notin {stok[p], rtok[p], handle[p], askTok[p]}
CanMint == \E t \in Tokens : Unused(t)
Minted == CHOOSE t \in Tokens : Unused(t)

\* A command starts and finds that the state lease could be taken.
Start(p) ==
    /\ At(p, "idle") /\ StateFree
    /\ Moves(p, "fence")
    /\ UNCHANGED <<sdb, slease, rdb, rlease, service, seen, toks, req, clock, faults>>

CtlStart == Start("ctl") /\ cmd' \in {"begin", "commit"} /\ runs < MaxRuns /\ runs' = runs + 1
DogStart == Start("dog") /\ UNCHANGED <<cmd, runs>>

\* The service takes the route lease, unless this socket's handle is current or
\* the row is held.
Fence(p) ==
    /\ At(p, "fence") /\ svc = "idle" /\ CanMint
    /\ IF RouteCurrent(handle[p]) \/ ~RouteFree
       THEN Exits(p) /\ UNCHANGED rlease
       ELSE /\ rrow' = Minted /\ rfresh' = TRUE
            /\ handle' = [handle EXCEPT ![p] = Minted]
            /\ Moves(p, "state") /\ rtok' = [rtok EXCEPT ![p] = Minted]
            /\ UNCHANGED <<cmd, seen, stok>>
    /\ UNCHANGED <<sdb, slease, rdb, service, req, clock, runs, faults>>

\* Then the process takes the state lease.
TakeState(p, next) ==
    /\ At(p, "state") /\ CanMint
    /\ IF StateFree
       THEN /\ srow' = Minted /\ sfresh' = TRUE
            /\ Moves(p, next) /\ stok' = [stok EXCEPT ![p] = Minted]
            /\ UNCHANGED <<cmd, seen, rtok>>
       ELSE Goto(p, "unfence") /\ UNCHANGED slease
    /\ UNCHANGED <<sdb, rdb, rlease, service, req, clock, runs, faults>>

\* release: deletes the caller's own row only.
Release(p) ==
    /\ At(p, "release")
    /\ srow' = IF srow = stok[p] THEN None ELSE srow
    /\ Moves(p, "unfence") /\ stok' = [stok EXCEPT ![p] = None]
    /\ UNCHANGED <<sdb, sfresh, cmd, seen, rtok, rdb, rlease, service, req, clock, runs, faults>>

\* The route lease goes back through the service, which refuses a stale token.
Unfence(p) ==
    /\ At(p, "unfence") /\ svc = "idle"
    /\ IF handle[p] = rtok[p]
       THEN /\ rrow' = IF rrow = handle[p] THEN None ELSE rrow
            /\ handle' = [handle EXCEPT ![p] = None]
       ELSE UNCHANGED <<rrow, handle>>
    /\ Exits(p)
    /\ UNCHANGED <<sdb, slease, rdb, rfresh, service, req, clock, runs, faults>>

\* writeResource: the token is compared in the transaction that writes, and a
\* process whose lease is gone stops.
WriteJournal(p, l, phase, next) ==
    /\ At(p, l)
    /\ journal' = IF StateCurrent(p) THEN phase ELSE journal
    /\ Goto(p, IF StateCurrent(p) THEN next ELSE "release")
    /\ UNCHANGED <<material, index, marker, slease, rdb, rlease, service, req, clock, runs, faults>>

WriteMarker(p, l, value, next) ==
    /\ At(p, l)
    /\ marker' = IF StateCurrent(p) THEN value ELSE marker
    /\ Goto(p, IF StateCurrent(p) THEN next ELSE "release")
    /\ UNCHANGED <<journal, material, index, slease, rdb, rlease, service, req, clock, runs, faults>>

-----------------------------------------------------------------------------
(* ConstitutionalRoutingController                                         *)

Step(l, next) ==
    /\ At("ctl", l) /\ Goto("ctl", next)
    /\ UNCHANGED <<sdb, slease, rdb, rlease, service, req, clock, runs, faults>>

\* begin: no block marker, no journal, the planned baseline is live, attempts
\* and time are left, and the gate passes.
CheckBegin ==
    /\ cmd = "begin"
    /\ \/ /\ marker = "none" /\ journal = "none" /\ route = "base" /\ ~index /\ ~dl
          /\ Step("check", "prepare")
       \/ Step("check", "release")

Prepare == WriteJournal("ctl", "prepare", "prepare", "register")

SaveMaterial ==
    /\ At("ctl", "material")
    /\ material' = (material \/ StateCurrent("ctl"))
    /\ Goto("ctl", IF StateCurrent("ctl") THEN "index" ELSE "release")
    /\ UNCHANGED <<journal, index, marker, slease, rdb, rlease, service, req, clock, runs, faults>>

SaveIndex ==
    /\ At("ctl", "index")
    /\ index' = (index \/ StateCurrent("ctl"))
    /\ Goto("ctl", IF StateCurrent("ctl") THEN "gate" ELSE "release")
    /\ UNCHANGED <<journal, material, marker, slease, rdb, rlease, service, req, clock, runs, faults>>

\* The gate is read again right before the route is changed.
PreApply == \E next \in {"apply", "unknown"} : Step("gate", next)

\* The candidate is read back, within the time allowed for it.
Readback ==
    \/ route = "cand" /\ Step("readback", "applied")
    \/ \E next \in {"unknown", "release"} : Step("readback", next)

Applied == WriteJournal("ctl", "applied", "apply", "verify")
Verify == \E next \in {"watch", "unknown", "release"} : Step("verify", next)
Watch == WriteJournal("ctl", "watch", "watch", "release")

\* unknown: nothing is written when the protected clock cannot be read.
Unknown == WriteJournal("ctl", "unknown", "unknown", "release") \/ Step("unknown", "release")

\* commit: of an attempt that is being watched, or again of a committed one.
CheckCommit ==
    /\ cmd = "commit"
    /\ Step("check", IF marker # "none" \/ ~material THEN "release"
                     ELSE IF journal = "commit" THEN "promote"
                     ELSE IF journal = "watch" THEN "cgate" ELSE "release")

\* The gate, the watch window, the deadline and the readback.
PreCommit ==
    \/ window = "ripe" /\ ~dl /\ route = "cand" /\ Step("cgate", "commit")
    \/ Step("cgate", "unknown")

Commit == WriteJournal("ctl", "commit", "commit", "promote")

-----------------------------------------------------------------------------
(* ConstitutionalRoutingWatchdog.tick                                      *)

\* Wrong: a committed attempt is taken for one whose deadline row is gone.
Decision_bug ==
    IF journal = "none" THEN {"release"}
    ELSE IF marker = "receiptPending" \/ (journal \in Terminal /\ marker # "none") THEN {"blockEnd"}
    ELSE IF journal \in {"commit", "disarm"} THEN {"clearEnd"}
    ELSE IF journal = "blocked" THEN {"release"}
    ELSE IF ~material THEN {"unowned"}
    ELSE {"owned", "block"} \cup
         (IF journal = "watch" /\ ~dl /\ window # "late"
          THEN {IF marker # "none" THEN "blockEnd" ELSE "clearEnd"} ELSE {})

\* Where a tick goes with the journal it has loaded.
Decision ==
    IF journal = "none" THEN {"release"}
    ELSE IF marker = "receiptPending" \/ (journal \in Terminal /\ marker # "none") THEN {"blockEnd"}
    ELSE IF journal = "commit" THEN {"promote"}
    ELSE IF journal = "disarm" THEN {"clearEnd"}
    ELSE IF journal = "blocked" THEN {"release"}
    ELSE IF ~material THEN {"unowned"}
    ELSE {"owned", "block"} \cup
         (IF journal = "watch" /\ ~dl /\ window # "late"
          THEN {IF marker # "none" THEN "blockEnd" ELSE "clearEnd"} ELSE {})

Load ==
    /\ At("dog", "load")
    /\ \E next \in Decision :
          Moves("dog", next) /\ seen' = journal
    /\ UNCHANGED <<cmd, toks, sdb, slease, rdb, rlease, service, req, clock, runs, faults>>

\* Recovery input that cannot be read: the marker stays whatever became of the
\* block, and so it does when the prepared authority cannot be verified.
Stop == WriteMarker("dog", "stop", "pending", "release")

Authenticate ==
    /\ At("dog", "auth")
    /\ \E next \in {"stop", IF seen \in {"unknown", "revert"} THEN "mark" ELSE "unknown"} :
          Goto("dog", next)
    /\ UNCHANGED <<sdb, slease, rdb, rlease, service, req, clock, runs, faults>>

DogUnknown == WriteJournal("dog", "unknown", "unknown", "mark")
Mark == WriteMarker("dog", "mark", "pending", IF seen = "revert" THEN "demote" ELSE "actuate")
Revert == WriteJournal("dog", "revert", "revert", "demote")
Disarm == WriteJournal("dog", "disarm", "disarm", "unmark")
Unmark == WriteMarker("dog", "unmark", "none", "clearEnd")

\* terminalBlock: the marker, then the receipt or a note that it is missing.
TerminalMark == WriteMarker("dog", "terminal", "pending", "receipt")
Receipt ==
    \/ WriteJournal("dog", "receipt", "blocked", "release")
    \/ WriteMarker("dog", "receipt", "receiptPending", "release")

-----------------------------------------------------------------------------
(* The recovery service                                                    *)

\* Wrong: recovery goes on without the block it could not get.
Thrown_bug(p, op) ==
    CASE p = "dog" /\ op = "demote" -> "terminal"
      [] p = "dog" /\ op = "promote" -> "blockEnd"
      [] op \in {"owned", "unowned"} -> "stop"
      [] op = "block" -> "auth"
      [] OTHER -> "release"

\* Where an exception from the service takes the caller.
Thrown(p, op) ==
    CASE p = "dog" /\ op = "demote" -> "terminal"
      [] p = "dog" /\ op = "promote" -> "blockEnd"
      [] op \in {"owned", "unowned"} -> "stop"
      [] OTHER -> "release"

\* A request goes out; before an actuation or a demotion the state lease is
\* checked once more (transition).
Ask(p, op) ==
    /\ At(p, op) /\ op \in (IF p = "ctl" THEN CtlOps ELSE DogOps)
    /\ IF op \in {"actuate", "demote"} /\ ~StateCurrent(p)
       THEN Goto(p, Thrown(p, op)) /\ UNCHANGED req
       ELSE /\ ask[p] = None
            /\ ask' = [ask EXCEPT ![p] = op] /\ askTok' = [askTok EXCEPT ![p] = rtok[p]]
            /\ waits' = [waits EXCEPT ![p] = TRUE]
            /\ UNCHANGED proc
    /\ UNCHANGED <<sdb, slease, rdb, rlease, service, clock, runs, faults>>

\* The service is single-threaded: a handler runs to its end before the next.
Asked(p, op) == ask[p] = op /\ svc = "idle"

\* The handler has read the journal and will now write to the route database:
\* the journal may change in between, the route lease is compared again.
Turn(to) ==
    /\ svc' = to
    /\ UNCHANGED <<sdb, slease, rdb, rlease, reg, demoted, proc, req, clock, runs, faults>>

\* The request is over.
Done(p) ==
    /\ ask' = [ask EXCEPT ![p] = None] /\ askTok' = [askTok EXCEPT ![p] = None]
    /\ waits' = [waits EXCEPT ![p] = FALSE]

\* The reply, if somebody still waits for it.
Reply(p, next) ==
    /\ Done(p)
    /\ Goto(p, IF waits[p] THEN next ELSE pc[p])
    /\ UNCHANGED <<sdb, slease, rlease, clock, runs, faults>>

Refuse(p) == Reply(p, Thrown(p, ask[p])) /\ UNCHANGED <<rdb, service>>

\* requireControllerFence and requireRecoveryFence
Fenced(p) == handle[p] = askTok[p] /\ RouteCurrent(askTok[p])

\* A later read of the journal by the service needs the material, and the
\* authority that was registered with it.
Authentic == material /\ reg # "none"

\* register: of a prepared journal whose baseline is live.  No fence is asked for.
Register ==
    /\ Asked("ctl", "register")
    /\ IF journal = "prepare" /\ route = "base" /\ reg = "none"
       THEN reg' = "open" /\ Reply("ctl", "material") /\ UNCHANGED <<rdb, demoted, svc>>
       ELSE Refuse("ctl")

\* applyCandidate
ApplyCandidate ==
    /\ Asked("ctl", "apply")
    /\ IF Fenced("ctl") /\ Authentic /\ reg = "open" /\ journal = "prepare"
       THEN Turn("apply") ELSE Refuse("ctl")

\* Wrong: the deadline row is left to a later request.
CompareAndSwap_bug ==
    /\ svc = "apply" /\ svc' = "idle" /\ UNCHANGED dlrow
    /\ IF route = "base" /\ RouteCurrent(askTok["ctl"])
       THEN route' = "cand" /\ Reply("ctl", "readback")
       ELSE UNCHANGED route /\ Reply("ctl", "unknown")
    /\ UNCHANGED <<guard, reg, demoted>>

\* compareAndSwap: value and deadline in one transaction.
CompareAndSwap ==
    /\ svc = "apply" /\ svc' = "idle"
    /\ IF route = "base" /\ RouteCurrent(askTok["ctl"])
       THEN route' = "cand" /\ dlrow' = "thisBoot" /\ Reply("ctl", "readback")
       ELSE UNCHANGED <<route, dlrow>> /\ Reply("ctl", "unknown")
    /\ UNCHANGED <<guard, reg, demoted>>

\* promoteCandidate: a committed candidate stops expiring.
Promote(p) ==
    /\ Asked(p, "promote")
    /\ IF Fenced(p) /\ Authentic /\ journal = "commit" /\ route = "cand"
       THEN /\ dlrow' = "none"
            /\ Reply(p, IF p = "ctl" THEN "release" ELSE "clearEnd")
            /\ UNCHANGED <<route, guard, service>>
       ELSE Refuse(p)

\* block: an unowned one needs no journal.
BlockRoute(op) ==
    /\ Asked("dog", op)
    /\ IF Fenced("dog") /\ (op = "unowned" \/ Authentic) THEN Turn("block") ELSE Refuse("dog")

\* setBlocked: a route that is blocked keeps the guard it has; nobody is told
\* whether the guard was set.
SetBlocked ==
    /\ svc = "block" /\ svc' = "idle"
    /\ guard' = IF guard = "clear" /\ RouteCurrent(askTok["dog"])
                THEN IF ask["dog"] = "unowned" THEN "unowned" ELSE "owned"
                ELSE guard
    /\ Reply("dog", CASE ask["dog"] = "block" -> "auth"
                      [] ask["dog"] = "blockEnd" -> "release"
                      [] OTHER -> "stop")
    /\ UNCHANGED <<route, dlrow, reg, demoted>>

\* unblock-owned: in an eligible phase.
UnblockOwned ==
    /\ Asked("dog", "clearEnd")
    /\ IF Fenced("dog") /\ Authentic /\ journal \in {"watch", "commit", "disarm"}
       THEN Turn("clear") ELSE Refuse("dog")

\* clearOwnedBlock: only the guard of this very attempt.
ClearOwnedBlock ==
    /\ svc = "clear" /\ svc' = "idle"
    /\ guard' = IF guard = "owned" /\ RouteCurrent(askTok["dog"]) THEN "clear" ELSE guard
    /\ Reply("dog", "release") /\ UNCHANGED <<route, dlrow, reg, demoted>>

\* Wrong: a preregistration is used once.
Actuate_bug ==
    /\ Asked("dog", "actuate")
    /\ IF ~(Fenced("dog") /\ Authentic /\ journal = "unknown" /\ reg = "open") THEN Refuse("dog")
       ELSE IF route = "cand" THEN Turn("restore")
       ELSE /\ reg' = "already" /\ Reply("dog", "revert")
            /\ UNCHANGED <<rdb, demoted, svc>>

\* actuate: a repeated request gets the recorded classification, unless the
\* baseline is not live.
Actuate ==
    /\ Asked("dog", "actuate")
    /\ IF ~(Fenced("dog") /\ Authentic /\ journal = "unknown") THEN Refuse("dog")
       ELSE IF reg = "open" /\ route = "cand" THEN Turn("restore")
       ELSE /\ reg' = IF reg = "open" THEN "already" ELSE reg
            /\ Reply("dog", IF route = "base" /\ reg # "failed" THEN "revert" ELSE "terminal")
            /\ UNCHANGED <<rdb, demoted, svc>>

\* Wrong: the restore's result is not looked at.
RestoreExact_bug ==
    /\ svc = "restore" /\ svc' = "consume"
    /\ IF RouteCurrent(askTok["dog"])
       THEN route' = "base" /\ dlrow' = "none"
       ELSE UNCHANGED <<route, dlrow>>
    /\ UNCHANGED <<sdb, slease, guard, rlease, reg, demoted, proc, req, clock, runs, faults>>

\* restoreExact, and the record of a failed one.
RestoreExact ==
    /\ svc = "restore"
    /\ IF RouteCurrent(askTok["dog"])
       THEN /\ route' = "base" /\ dlrow' = "none" /\ svc' = "consume"
            /\ UNCHANGED <<sdb, slease, guard, rlease, reg, proc, req, clock, runs, faults>>
       ELSE svc' = "idle" /\ reg' = "failed" /\ Reply("dog", "terminal") /\ UNCHANGED rdb
    /\ UNCHANGED demoted

\* The restore and the record that it was done are two transactions.
Consume ==
    /\ svc = "consume" /\ svc' = "idle"
    /\ reg' = "restored"
    /\ Reply("dog", "revert") /\ UNCHANGED <<rdb, demoted>>

\* demote: the signer persists the narrowing, or fails.
Demote ==
    /\ Asked("dog", "demote")
    /\ \/ /\ Fenced("dog") /\ Authentic /\ journal \in {"revert", "blocked"}
          /\ demoted' = TRUE
          /\ Reply("dog", "disarm") /\ UNCHANGED <<rdb, reg, svc>>
       \/ Refuse("dog")

-----------------------------------------------------------------------------
(* Faults and time                                                         *)

\* A client gives up on a request, which may still be served or be dropped.
GiveUp(p) ==
    /\ waits[p] /\ waits' = [waits EXCEPT ![p] = FALSE]
    /\ Goto(p, Thrown(p, ask[p]))
    /\ Fault
    /\ UNCHANGED <<ask, askTok, sdb, slease, rdb, rlease, service, clock, runs>>

Drop(p) ==
    /\ ask[p] # None /\ ~waits[p] /\ svc = "idle"
    /\ Done(p)
    /\ UNCHANGED <<sdb, slease, rdb, rlease, service, proc, clock, runs, faults>>

\* A process dies; its lease rows and its request stay.
Crash(p) ==
    /\ pc[p] # "idle" /\ Exits(p)
    /\ waits' = [waits EXCEPT ![p] = FALSE]
    /\ Fault
    /\ UNCHANGED <<ask, askTok, sdb, slease, rdb, rlease, service, clock, runs>>

\* The service has no handle, no request and nothing under way.
NoService ==
    /\ handle' = [p \in Proc |-> None] /\ svc' = "idle"
    /\ ask' = [p \in Proc |-> None] /\ askTok' = [p \in Proc |-> None]
    /\ waits' = [p \in Proc |-> FALSE]

\* The service dies: the handles go, and every waiting client gets an error.
CrashService ==
    /\ NoService
    /\ pc' = [p \in Proc |-> IF waits[p] THEN Thrown(p, ask[p]) ELSE pc[p]]
    /\ Fault
    /\ UNCHANGED <<cmd, seen, toks, sdb, slease, rdb, rrow, rfresh, reg, demoted, clock, runs>>

\* The machine reboots: leases of another boot count for nothing.
Reboot ==
    /\ NoService
    /\ pc' = [p \in Proc |-> "idle"] /\ cmd' = "none" /\ seen' = "none"
    /\ stok' = [p \in Proc |-> None] /\ rtok' = [p \in Proc |-> None]
    /\ sfresh' = FALSE /\ rfresh' = FALSE
    /\ dlrow' = IF dlrow = "none" THEN "none" ELSE "otherBoot"
    /\ Fault
    /\ UNCHANGED <<sdb, srow, route, guard, rrow, reg, demoted, clock, runs>>

\* A lease expires: under a holder that is gone, or under one that is slow.
ExpireState ==
    /\ srow # None /\ sfresh /\ sfresh' = FALSE
    /\ IF \E p \in Proc : stok[p] = srow THEN Fault ELSE UNCHANGED faults
    /\ UNCHANGED <<sdb, srow, rdb, rlease, service, proc, req, clock, runs>>

ExpireRoute ==
    /\ rrow # None /\ rfresh /\ rfresh' = FALSE
    /\ IF \E p \in Proc : rtok[p] = rrow THEN Fault ELSE UNCHANGED faults
    /\ UNCHANGED <<sdb, slease, rdb, rrow, handle, service, proc, req, clock, runs>>

\* The watch window opens for commit and closes again, and the deadline passes.
PassTime ==
    /\ \/ journal = "watch" /\ window = "early" /\ window' = "ripe" /\ UNCHANGED dl
       \/ journal = "watch" /\ window = "ripe" /\ window' = "late" /\ UNCHANGED dl
       \/ journal # "none" /\ ~dl /\ dl' = TRUE /\ UNCHANGED window
    /\ UNCHANGED <<sdb, slease, rdb, rlease, service, proc, req, runs, faults>>

-----------------------------------------------------------------------------

CtlStep ==
    \/ Fence("ctl") \/ TakeState("ctl", "check")
    \/ CheckBegin \/ Prepare \/ SaveMaterial \/ SaveIndex \/ PreApply
    \/ Readback \/ Applied \/ Verify \/ Watch \/ Unknown
    \/ CheckCommit \/ PreCommit \/ Commit
    \/ (\E op \in CtlOps : Ask("ctl", op))
    \/ Release("ctl") \/ Unfence("ctl")

DogStep ==
    \/ Fence("dog") \/ TakeState("dog", "load")
    \/ Load \/ Stop \/ Authenticate \/ DogUnknown \/ Mark \/ Revert
    \/ Disarm \/ Unmark \/ TerminalMark \/ Receipt
    \/ (\E op \in DogOps : Ask("dog", op))
    \/ Release("dog") \/ Unfence("dog")

ServiceStep ==
    \/ Register \/ ApplyCandidate \/ CompareAndSwap \/ Promote("ctl") \/ Promote("dog")
    \/ (\E op \in {"blockEnd", "block", "owned", "unowned"} : BlockRoute(op)) \/ SetBlocked
    \/ UnblockOwned \/ ClearOwnedBlock \/ Actuate \/ RestoreExact \/ Consume \/ Demote

Next ==
    \/ CtlStart \/ DogStart \/ CtlStep \/ DogStep \/ ServiceStep
    \/ (\E p \in Proc : GiveUp(p) \/ Drop(p) \/ Crash(p))
    \/ CrashService \/ Reboot \/ ExpireState \/ ExpireRoute \/ PassTime

Spec == Init /\ [][Next]_vars

\* Processes and the service go on or are killed, leases of dead holders expire,
\* time passes, the watchdog's timer fires, and what makes the recovery input or
\* the prepared authority unreadable does not last.
FairSpec ==
    /\ Spec
    /\ WF_vars(CtlStep) /\ WF_vars(DogStep) /\ WF_vars(ServiceStep)
    /\ WF_vars(ExpireRoute /\ UNCHANGED faults) /\ WF_vars(PassTime) /\ WF_vars(DogStart)
    /\ SF_vars(Load /\ pc'["dog"] # "owned")
    /\ SF_vars(Authenticate /\ pc'["dog"] # "stop")

-----------------------------------------------------------------------------
(* Safety                                                                  *)

\* readConstitutionalRouteDatabase returns the live value.
Serves ==
    /\ guard = "clear"
    /\ dlrow # "none" => route = "cand" /\ dlrow = "thisBoot" /\ ~dl

\* A candidate without a serving deadline is a committed one: whoever dies, a
\* candidate that nobody commits stops being served (compareAndSwap writes the
\* deadline with the value, promoteCandidate alone clears it).
CandidateIsBounded == route = "cand" /\ dlrow = "none" => journal = "commit"

\* The receipts tell the truth about the live route: a committed candidate is
\* never undone, and after a revert receipt no late request, stale process or
\* restart brings the candidate back; a disarmed target has lost its authority.
ReceiptsAreTrue ==
    /\ journal = "commit" => route = "cand"
    /\ journal \in {"revert", "disarm"} => route = "base"
    /\ journal = "disarm" => demoted

\* From the recovery receipt on until the attempt is disarmed, and for ever
\* after a terminal block, the route is not served.
FailClosed == journal \in {"revert", "blocked"} => guard # "clear"

\* One receipt after another, as the journal's protocol has them.
Follows(from, to) ==
    CASE to = "prepare" -> from = "none"
      [] to = "apply" -> from = "prepare"
      [] to = "watch" -> from = "apply"
      [] to = "commit" -> from = "watch"
      [] to = "unknown" -> from \in {"prepare", "apply", "watch"}
      [] to = "revert" -> from = "unknown"
      [] to = "disarm" -> from = "revert"
      [] to = "blocked" -> from \in {"unknown", "revert"}
      [] OTHER -> FALSE

\* The journal's receipts come in their order, and none follows a terminal one,
\* whatever two writers with stale memories do.
JournalIsMonotone == [][journal' # journal => Follows(journal, journal')]_vars

-----------------------------------------------------------------------------
(* Liveness                                                                *)

\* An attempt that has begun is committed, undone or blocked in the end; the
\* exceptions are a block whose receipt cannot be written, and an attempt that
\* died before its recovery material existed.
AttemptResolves ==
    journal \in InFlight ~> journal \in Terminal \/ marker = "receiptPending" \/ guard = "unowned"

\* A committed candidate is served for good in the end, though the deadline that
\* was set for it passes and whoever should clear it dies.
CommittedIsServed == journal = "commit" ~> []Serves

=============================================================================
