--------------------- MODULE ConstitutionalRouteProofs ----------------------
(***************************************************************************)
(* The inductive invariant of a constitutional route change.  It says what *)
(* a process whose state lease is current knows about the journal from     *)
(* where it is, what a request means that is being served while nobody     *)
(* waits for it, and that a watchdog which went past its block either has  *)
(* the block or has lost the route lease, which it never gets back.        *)
(* Every step keeps it, also those for requests that nobody waits for any  *)
(* more.                                                                   *)
(***************************************************************************)
EXTENDS ConstitutionalRoute, TLAPS

\* The types that the argument needs.
Shape ==
    /\ journal \in Phases
    /\ DOMAIN pc = Proc /\ DOMAIN ask = Proc /\ waits \in [Proc -> BOOLEAN]
    /\ stok \in [Proc -> Tokens \cup {None}] /\ rtok \in [Proc -> Tokens \cup {None}]
    /\ askTok \in [Proc -> Tokens \cup {None}]

\* Two processes never hold the same token.
Distinct == stok["ctl"] # None => stok["ctl"] # stok["dog"]

\* A client waits where it asked, for a request with its own token.
Waiting == \A p \in Proc : waits[p] => ask[p] = pc[p] /\ askTok[p] = rtok[p]

\* A handler that is under way has its request.
Serving ==
    /\ svc = "apply" => ask["ctl"] = "apply"
    /\ svc \in {"restore", "consume"} => ask["dog"] = "actuate"
    /\ svc = "clear" => ask["dog"] = "clearEnd"
    /\ svc = "block" => ask["dog"] \in {"blockEnd", "block", "owned", "unowned"}

\* What the controller knows of the journal as long as its state lease is good.
CtlKnows ==
    StateCurrent("ctl") =>
        /\ pc["ctl"] = "prepare" => journal = "none"
        /\ pc["ctl"] \in {"register", "material", "index", "gate", "apply", "readback", "applied"}
             => journal = "prepare"
        /\ pc["ctl"] \in {"verify", "watch"} => journal = "apply"
        /\ pc["ctl"] = "unknown" => journal \in {"prepare", "apply", "watch"}
        /\ pc["ctl"] \in {"cgate", "commit"} => journal = "watch"

\* And the watchdog.
DogKnows ==
    StateCurrent("dog") =>
        /\ pc["dog"] \in {"block", "auth"} => journal = seen /\ journal \in InFlight
        /\ pc["dog"] = "unknown" => journal \in {"prepare", "apply", "watch"} /\ seen # "revert"
        /\ pc["dog"] = "mark" => journal = IF seen = "revert" THEN "revert" ELSE "unknown"
        /\ pc["dog"] \in {"actuate", "revert"} => journal = "unknown"
        /\ pc["dog"] \in {"demote", "disarm"} => journal = "revert"
        /\ pc["dog"] \in {"terminal", "receipt"} => journal \in {"unknown", "revert"}

\* Of the live value: a late apply finds no revert receipt, a late restore no
\* attempt that could still commit.
RouteInv ==
    /\ svc = "apply" => journal \notin {"revert", "disarm"} /\ ~(StateCurrent("dog") /\ pc["dog"] = "revert")
    /\ svc = "restore" => journal \in {"unknown", "revert", "disarm", "blocked"}
    /\ svc = "consume" => route = "base"
    /\ StateCurrent("dog") /\ pc["dog"] = "revert" => route = "base"
    /\ StateCurrent("dog") /\ pc["dog"] = "disarm" => demoted
    /\ StateCurrent("ctl") /\ pc["ctl"] = "commit" => route = "cand"

\* Of the guard.
GuardInv ==
    /\ StateCurrent("dog") /\ pc["dog"] \in {"auth", "unknown", "mark", "actuate"}
         => guard # "clear" \/ ~RouteCurrent(rtok["dog"])
    /\ StateCurrent("dog") /\ pc["dog"] \in {"revert", "demote", "disarm", "terminal", "receipt"}
         => guard # "clear"
    /\ svc \in {"restore", "consume"} /\ waits["dog"] /\ StateCurrent("dog") => guard # "clear"
    /\ ask["dog"] = "clearEnd" /\ ~waits["dog"] /\ RouteCurrent(askTok["dog"])
         => pc["dog"] \in {"idle", "fence", "release", "unfence"}
    /\ svc = "clear" /\ RouteCurrent(askTok["dog"]) => journal \notin {"revert", "blocked"}

Know == CtlKnows /\ DogKnows
Safe == CandidateIsBounded /\ ReceiptsAreTrue /\ FailClosed
IInv == Shape /\ Distinct /\ Waiting /\ Serving /\ Know /\ RouteInv /\ GuardInv /\ Safe

\* What a fault does; faults only take things away: a lapsed lease does not come back.
Faulty ==
    \/ \E p \in Proc : GiveUp(p) \/ Drop(p) \/ Crash(p)
    \/ CrashService \/ Reboot \/ ExpireState \/ ExpireRoute \/ PassTime

-----------------------------------------------------------------------------

\* randomUUID gives a token that nothing refers to.
LEMMA Fresh == CanMint => Minted \in Tokens /\ Unused(Minted)
  BY Zenon DEF CanMint, Minted

\* The invariant holds before the first run.
LEMMA InitInv == Init => IInv
  <1> SUFFICES ASSUME Init PROVE IInv
    OBVIOUS
  <1>1. Shape
    BY Zenon DEF Init, Shape, Proc, Phases
  <1>2. Distinct /\ Waiting /\ Serving
    BY Zenon DEF Init, Distinct, Waiting, Serving, Proc
  <1>3. Know
    BY Zenon DEF Init, Know, CtlKnows, DogKnows, StateCurrent, Proc
  <1>4. RouteInv /\ GuardInv
    BY Zenon DEF Init, RouteInv, GuardInv, StateCurrent, Proc
  <1>5. Safe
    BY Zenon DEF Init, Safe, CandidateIsBounded, ReceiptsAreTrue, FailClosed
  <1> QED BY <1>1, <1>2, <1>3, <1>4, <1>5, Zenon DEF IInv

\* Where an exception leads to.
LEMMA Throws ==
    /\ \A op : Thrown("ctl", op) \in {"release", "stop"}
    /\ \A op : op = "demote" => Thrown("dog", op) = "terminal"
    /\ \A op : op # "demote" => Thrown("dog", op) \in {"blockEnd", "stop", "release"}
    /\ \A op : op = "clearEnd" => Thrown("dog", op) = "release"
  <1>1. ASSUME NEW op PROVE Thrown("ctl", op) \in {"release", "stop"}
    BY Zenon DEF Thrown
  <1>2. ASSUME NEW op, op = "demote" PROVE Thrown("dog", op) = "terminal"
    BY <1>2, Zenon DEF Thrown
  <1>3. ASSUME NEW op, op # "demote" PROVE Thrown("dog", op) \in {"blockEnd", "stop", "release"}
    BY <1>3, Zenon DEF Thrown
  <1>4. ASSUME NEW op, op = "clearEnd" PROVE Thrown("dog", op) = "release"
    BY <1>4, Zenon DEF Thrown
  <1> QED BY <1>1, <1>2, <1>3, <1>4, Zenon

\* Every write of the journal is one of nine guarded ones, and its writer
\* knows the phase it writes over.
LEMMA Writes == IInv /\ [Next]_vars => (journal' # journal => Follows(journal, journal'))
  <1> SUFFICES ASSUME IInv, [Next]_vars, journal' # journal PROVE Follows(journal, journal')
    OBVIOUS
  <1> USE DEF sdb, service
  <1>1. ~(UNCHANGED vars \/ CtlStart \/ DogStart \/ ServiceStep \/ Faulty)
    <2>1. ~(UNCHANGED vars \/ CtlStart \/ DogStart)
      BY Zenon DEF vars, CtlStart, DogStart, Start
    <2>2. ~ServiceStep
      BY Zenon DEF ServiceStep, Register, ApplyCandidate, CompareAndSwap, Promote, BlockRoute,
         SetBlocked, UnblockOwned, ClearOwnedBlock, Actuate, RestoreExact, Consume, Demote, Refuse,
         Reply, Turn
    <2>3. ~Faulty
      BY Zenon DEF Faulty, GiveUp, Drop, Crash, CrashService, Reboot, ExpireState, ExpireRoute,
         PassTime, Fault, NoService
    <2> QED BY <2>1, <2>2, <2>3, Zenon
  <1>2. CASE CtlStep
    <2>1. Prepare \/ Applied \/ Watch \/ Unknown \/ Commit
      BY <1>2, Zenon DEF CtlStep, Fence, TakeState, CheckBegin, SaveMaterial, SaveIndex, PreApply,
         Readback, Verify, CheckCommit, PreCommit, Ask, Release, Unfence, Step
    <2>2. CtlKnows
      BY Zenon DEF IInv, Know
    <2>3. CASE Prepare \/ Applied \/ Watch
      BY <2>2, <2>3, Zenon DEF Prepare, Applied, Watch, WriteJournal, Step, At, Follows, CtlKnows
    <2>4. CASE Unknown \/ Commit
      BY <2>2, <2>4, Zenon DEF Unknown, Commit, WriteJournal, Step, At, Follows, CtlKnows
    <2> QED BY <2>1, <2>3, <2>4, Zenon
  <1>3. CASE DogStep
    <2>1. DogUnknown \/ Revert \/ Disarm \/ Receipt
      BY <1>3, Zenon DEF DogStep, Fence, TakeState, Load, Stop, Authenticate, Mark, Unmark,
         TerminalMark, Ask, Release, Unfence, WriteMarker
    <2>2. DogKnows
      BY Zenon DEF IInv, Know
    <2>3. CASE DogUnknown \/ Revert
      BY <2>2, <2>3, Zenon DEF DogUnknown, Revert, WriteJournal, At, Follows, DogKnows
    <2>4. CASE Disarm \/ Receipt
      BY <2>2, <2>4, Zenon DEF Disarm, Receipt, WriteJournal, WriteMarker, At, Follows, DogKnows
    <2> QED BY <2>1, <2>3, <2>4, Zenon
  <1> QED BY <1>1, <1>2, <1>3, Zenon DEF Next, Faulty

\* The controller's steps keep the invariant.
LEMMA CtlInv == IInv /\ (CtlStart \/ CtlStep) => IInv'
  <1> SUFFICES ASSUME IInv, CtlStart \/ CtlStep PROVE IInv'
    OBVIOUS
  <1> USE DEF IInv, Shape, Distinct, Waiting, Serving, Know, CtlKnows, DogKnows, RouteInv, GuardInv, Safe,
          CandidateIsBounded, ReceiptsAreTrue, FailClosed, Proc, Phases, InFlight, Terminal, StateCurrent, RouteCurrent,
          At, Moves, Goto, sdb, slease, rdb, rlease, service, clock, toks, proc, req
  <1>1. CASE CtlStart
    BY <1>1 DEF CtlStart, Start
  <1>2. CASE Fence("ctl")
    BY <1>2, Fresh DEF Fence, Exits, Unused
  <1>3. CASE TakeState("ctl", "check")
    BY <1>3, Fresh DEF TakeState, Unused
  <1>4. CASE CheckBegin
    BY <1>4 DEF CheckBegin, Step
  <1>5. CASE Prepare
    BY <1>5 DEF Prepare, WriteJournal
  <1>6. CASE SaveMaterial
    BY <1>6 DEF SaveMaterial
  <1>7. CASE SaveIndex
    BY <1>7 DEF SaveIndex
  <1>8. CASE PreApply
    BY <1>8 DEF PreApply, Step
  <1>9. CASE Readback
    BY <1>9 DEF Readback, Step
  <1>10. CASE Applied
    BY <1>10 DEF Applied, WriteJournal
  <1>11. CASE Verify
    BY <1>11 DEF Verify, Step
  <1>12. CASE Watch
    BY <1>12 DEF Watch, WriteJournal
  <1>13. CASE Unknown
    BY <1>13 DEF Unknown, WriteJournal, Step
  <1>14. CASE CheckCommit
    BY <1>14 DEF CheckCommit, Step
  <1>15. CASE PreCommit
    BY <1>15 DEF PreCommit, Step
  <1>16. CASE Commit
    BY <1>16 DEF Commit, WriteJournal
  <1>17. ASSUME NEW op \in CtlOps, Ask("ctl", op) PROVE IInv'
    <2>1. /\ ask' = [ask EXCEPT !["ctl"] = op] /\ askTok' = [askTok EXCEPT !["ctl"] = rtok["ctl"]]
          /\ waits' = [waits EXCEPT !["ctl"] = TRUE] /\ UNCHANGED proc /\ ask["ctl"] = None
      BY <1>17, Zenon DEF Ask, CtlOps
    <2> QED BY <1>17, <2>1, NoneAssumption DEF Ask, CtlOps
  <1>18. CASE Release("ctl")
    BY <1>18 DEF Release
  <1>19. CASE Unfence("ctl")
    BY <1>19 DEF Unfence, Exits
  <1> QED BY <1>1, <1>2, <1>3, <1>4, <1>5, <1>6, <1>7, <1>8, <1>9, <1>10, <1>11, <1>12, <1>13,
      <1>14, <1>15, <1>16, <1>17, <1>18, <1>19, Zenon DEF CtlStep

\* The watchdog's requests keep the invariant; one that needs the state lease is
\* not sent without it.
LEMMA DogAsks == ASSUME IInv, NEW op \in DogOps, Ask("dog", op) PROVE IInv'
  <1> USE DEF Proc
  <1>0. DOMAIN pc = Proc /\ DOMAIN ask = Proc /\ waits \in [Proc -> BOOLEAN] /\ askTok \in [Proc -> Tokens \cup {None}]
        /\ rtok \in [Proc -> Tokens \cup {None}]
    BY Zenon DEF IInv, Shape
  <1>1. UNCHANGED <<journal, route, dlrow, guard, demoted, svc, srow, sfresh, rrow, rfresh, seen, stok, rtok>>
    BY Zenon DEF Ask, Goto, sdb, slease, rdb, rlease, service, proc, toks
  <1>2. pc["dog"] = op /\ ~waits["dog"]
    BY Zenon DEF Ask, At
  <1>3. CASE op \in {"actuate", "demote"} /\ ~StateCurrent("dog")
    <2>0. Thrown("dog", op) \in {"terminal", "blockEnd", "stop", "release"}
      BY Throws, Zenon
    <2>1. /\ DOMAIN pc' = Proc /\ pc'["dog"] = Thrown("dog", op) /\ pc'["ctl"] = pc["ctl"]
          /\ UNCHANGED <<ask, askTok, waits>>
      BY <1>0, <1>3, Zenon DEF Ask, Goto, Moves, req
    <2> USE <1>1, <1>2, <1>3, <2>0, <2>1 DEF IInv, Shape
    <2>2. (Shape /\ Distinct /\ Waiting /\ Serving)'
      BY Zenon DEF Phases, Distinct, Waiting, Serving
    <2>3. (Know /\ RouteInv)'
      BY Zenon DEF Distinct, Waiting, Serving, Know, CtlKnows, DogKnows, RouteInv, StateCurrent,
         RouteCurrent, InFlight, Safe, ReceiptsAreTrue
    <2>4. GuardInv'
      BY Zenon DEF Waiting, Serving, Know, DogKnows, GuardInv, StateCurrent, RouteCurrent
    <2>5. Safe'
      BY Zenon DEF Serving, RouteInv, GuardInv, Safe, CandidateIsBounded, ReceiptsAreTrue,
         FailClosed, RouteCurrent
    <2> QED BY <2>2, <2>3, <2>4, <2>5, Zenon
  <1>4. CASE ~(op \in {"actuate", "demote"} /\ ~StateCurrent("dog"))
    <2>1. /\ DOMAIN ask' = Proc /\ waits' \in [Proc -> BOOLEAN] /\ askTok' \in [Proc -> Tokens \cup {None}]
          /\ ask["dog"] = None /\ ask'["dog"] = op /\ askTok'["dog"] = rtok["dog"] /\ waits'["dog"]
          /\ ask'["ctl"] = ask["ctl"] /\ askTok'["ctl"] = askTok["ctl"] /\ waits'["ctl"] = waits["ctl"]
      BY <1>0, <1>4, Zenon DEF Ask
    <2>9. UNCHANGED pc
      BY <1>4, Zenon DEF Ask, proc
    <2> USE <1>1, <1>2, <2>1, <2>9, NoneAssumption DEF IInv, Shape, DogOps
    <2>2. (Shape /\ Distinct /\ Waiting /\ Serving)'
      BY Zenon DEF Phases, Distinct, Waiting, Serving
    <2>3. (Know /\ RouteInv)'
      BY Zenon DEF Distinct, Waiting, Serving, Know, CtlKnows, DogKnows, RouteInv, StateCurrent,
         RouteCurrent, InFlight, Safe, ReceiptsAreTrue
    <2>4. GuardInv'
      BY Zenon DEF Waiting, Serving, Know, DogKnows, GuardInv, StateCurrent, RouteCurrent
    <2>5. Safe'
      BY Zenon DEF Serving, RouteInv, GuardInv, Safe, CandidateIsBounded, ReceiptsAreTrue,
         FailClosed, RouteCurrent
    <2> QED BY <2>2, <2>3, <2>4, <2>5, Zenon
  <1> QED BY <1>3, <1>4, Zenon

\* So does its end: the leases go back, or are left to expire.
LEMMA DogEnds == ASSUME IInv, Release("dog") \/ Unfence("dog") PROVE IInv'
  <1> USE DEF Proc
  <1>0. DOMAIN pc = Proc /\ stok \in [Proc -> Tokens \cup {None}] /\ rtok \in [Proc -> Tokens \cup {None}]
    BY Zenon DEF IInv, Shape
  <1>1. CASE Release("dog")
    <2>1. /\ DOMAIN pc' = Proc /\ stok' \in [Proc -> Tokens \cup {None}] /\ ~waits["dog"]
          /\ pc'["dog"] = "unfence" /\ pc'["ctl"] = pc["ctl"] /\ stok'["dog"] = None /\ stok'["ctl"] = stok["ctl"]
          /\ srow' = IF srow = stok["dog"] THEN None ELSE srow
          /\ pc["dog"] = "release"
      BY <1>0, <1>1, Zenon DEF Release, At, Moves
    <2>9. UNCHANGED <<journal, route, dlrow, guard, demoted, svc, sfresh, rrow, rfresh, seen, rtok, ask, askTok, waits>>
      BY <1>1, Zenon DEF Release, sdb, rdb, rlease, service, req
    <2> USE <2>1, <2>9 DEF IInv, Shape
    <2>2. (Shape /\ Distinct /\ Waiting /\ Serving)'
      BY Zenon DEF Phases, Distinct, Waiting, Serving
    <2>3. (Know /\ RouteInv)'
      BY Zenon DEF Distinct, Waiting, Serving, Know, CtlKnows, DogKnows, RouteInv, StateCurrent,
         RouteCurrent, InFlight, Safe, ReceiptsAreTrue
    <2>4. GuardInv'
      BY Zenon DEF Waiting, Serving, Know, DogKnows, GuardInv, StateCurrent, RouteCurrent
    <2>5. Safe'
      BY Zenon DEF Serving, RouteInv, GuardInv, Safe, CandidateIsBounded, ReceiptsAreTrue,
         FailClosed, RouteCurrent
    <2> QED BY <2>2, <2>3, <2>4, <2>5, Zenon
  <1>2. CASE Unfence("dog")
    <2>1. /\ DOMAIN pc' = Proc /\ stok' \in [Proc -> Tokens \cup {None}] /\ rtok' \in [Proc -> Tokens \cup {None}]
          /\ pc'["dog"] = "idle" /\ stok'["dog"] = None /\ rtok'["dog"] = None /\ ~waits["dog"] /\ pc["dog"] = "unfence"
          /\ pc'["ctl"] = pc["ctl"] /\ stok'["ctl"] = stok["ctl"] /\ rtok'["ctl"] = rtok["ctl"]
          /\ rrow' \in {rrow, None}
      BY <1>0, <1>2, Zenon DEF Unfence, At, Exits, Moves
    <2>9. UNCHANGED <<journal, route, dlrow, guard, demoted, svc, srow, sfresh, rfresh, ask, askTok, waits>>
      BY <1>2, Zenon DEF Unfence, sdb, slease, rdb, service, req
    <2> USE <2>1, <2>9 DEF IInv, Shape
    <2>2. (Shape /\ Distinct /\ Waiting /\ Serving)'
      BY Zenon DEF Phases, Distinct, Waiting, Serving
    <2>3. (Know /\ RouteInv)'
      BY Zenon DEF Distinct, Waiting, Serving, Know, CtlKnows, DogKnows, RouteInv, StateCurrent,
         RouteCurrent, InFlight, Safe, ReceiptsAreTrue
    <2>4. GuardInv'
      BY Zenon DEF Waiting, Serving, Know, DogKnows, GuardInv, StateCurrent, RouteCurrent
    <2>5. Safe'
      BY Zenon DEF Serving, RouteInv, GuardInv, Safe, CandidateIsBounded, ReceiptsAreTrue,
         FailClosed, RouteCurrent
    <2> QED BY <2>2, <2>3, <2>4, <2>5, Zenon
  <1> QED BY <1>1, <1>2, Zenon

\* The invariant survives every fault.
LEMMA FaultInv == IInv /\ Faulty => IInv'
  <1> SUFFICES ASSUME IInv, Faulty PROVE IInv'
    OBVIOUS
  <1> USE DEF Proc
  <1>0. DOMAIN pc = Proc /\ DOMAIN ask = Proc /\ waits \in [Proc -> BOOLEAN] /\ askTok \in [Proc -> Tokens \cup {None}]
        /\ stok \in [Proc -> Tokens \cup {None}] /\ rtok \in [Proc -> Tokens \cup {None}]
    BY Zenon DEF IInv, Shape
  <1>1. CASE GiveUp("ctl")
    <2>0. Thrown("ctl", ask["ctl"]) \in {"release", "stop"}
      BY Throws, Zenon
    <2>1. /\ DOMAIN pc' = Proc /\ waits' \in [Proc -> BOOLEAN] /\ waits["ctl"] /\ ~waits'["ctl"]
          /\ pc'["ctl"] = Thrown("ctl", ask["ctl"]) /\ pc'["dog"] = pc["dog"] /\ waits'["dog"] = waits["dog"]
      BY <1>0, <1>1, Zenon DEF GiveUp, Goto, Moves
    <2>9. UNCHANGED <<journal, route, dlrow, guard, demoted, svc, srow, sfresh, rrow, rfresh, seen, stok, rtok, ask, askTok>>
      BY <1>1, Zenon DEF GiveUp, Goto, sdb, slease, rdb, rlease, service, toks
    <2> USE <2>0, <2>1, <2>9 DEF IInv, Shape
    <2>2. (Shape /\ Distinct /\ Waiting /\ Serving)'
      BY Zenon DEF Phases, Distinct, Waiting, Serving
    <2>3. (Know /\ RouteInv)'
      BY Zenon DEF Distinct, Waiting, Serving, Know, CtlKnows, DogKnows, RouteInv, StateCurrent,
         RouteCurrent, InFlight, Safe, ReceiptsAreTrue
    <2>4. GuardInv'
      BY Zenon DEF Waiting, Serving, Know, DogKnows, GuardInv, StateCurrent, RouteCurrent
    <2>5. Safe'
      BY Zenon DEF Serving, RouteInv, GuardInv, Safe, CandidateIsBounded, ReceiptsAreTrue,
         FailClosed, RouteCurrent
    <2> QED BY <2>2, <2>3, <2>4, <2>5, Zenon
  <1>2. CASE GiveUp("dog")
    <2>0. /\ Thrown("dog", ask["dog"]) \in {"blockEnd", "stop", "release"} \cup (IF ask["dog"] = "demote" THEN {"terminal"} ELSE {})
          /\ ask["dog"] = "clearEnd" => Thrown("dog", ask["dog"]) = "release"
      BY Throws, Zenon
    <2>1. /\ DOMAIN pc' = Proc /\ waits' \in [Proc -> BOOLEAN] /\ waits["dog"] /\ ~waits'["dog"]
          /\ pc'["dog"] = Thrown("dog", ask["dog"]) /\ pc'["ctl"] = pc["ctl"] /\ waits'["ctl"] = waits["ctl"]
      BY <1>0, <1>2, Zenon DEF GiveUp, Goto, Moves
    <2>9. UNCHANGED <<journal, route, dlrow, guard, demoted, svc, srow, sfresh, rrow, rfresh, seen, stok, rtok, ask, askTok>>
      BY <1>2, Zenon DEF GiveUp, Goto, sdb, slease, rdb, rlease, service, toks
    <2> USE <2>0, <2>1, <2>9 DEF IInv, Shape
    <2>2. (Shape /\ Distinct /\ Waiting /\ Serving)'
      BY Zenon DEF Phases, Distinct, Waiting, Serving
    <2>3. (Know /\ RouteInv)'
      BY Zenon DEF Distinct, Waiting, Serving, Know, CtlKnows, DogKnows, RouteInv, StateCurrent,
         RouteCurrent, InFlight, Safe, ReceiptsAreTrue
    <2>4. GuardInv'
      BY Zenon DEF Waiting, Serving, Know, DogKnows, GuardInv, StateCurrent, RouteCurrent
    <2>5. Safe'
      BY Zenon DEF Serving, RouteInv, GuardInv, Safe, CandidateIsBounded, ReceiptsAreTrue,
         FailClosed, RouteCurrent
    <2> QED BY <2>2, <2>3, <2>4, <2>5, Zenon
  <1>3. CASE Drop("ctl")
    <2>1. /\ DOMAIN ask' = Proc /\ waits' \in [Proc -> BOOLEAN] /\ askTok' \in [Proc -> Tokens \cup {None}]
          /\ ask'["ctl"] = None /\ askTok'["ctl"] = None /\ ~waits'["ctl"] /\ ~waits["ctl"] /\ svc = "idle"
          /\ ask'["dog"] = ask["dog"] /\ askTok'["dog"] = askTok["dog"] /\ waits'["dog"] = waits["dog"]
      BY <1>0, <1>3, Zenon DEF Drop, Done
    <2>9. UNCHANGED <<journal, route, dlrow, guard, demoted, svc, srow, sfresh, rrow, rfresh, seen, stok, rtok, pc>>
      BY <1>3, Zenon DEF Drop, sdb, slease, rdb, rlease, service, proc, toks
    <2> USE <2>1, <2>9 DEF IInv, Shape
    <2>2. (Shape /\ Distinct /\ Waiting /\ Serving)'
      BY Zenon DEF Phases, Distinct, Waiting, Serving
    <2>3. (Know /\ RouteInv)'
      BY Zenon DEF Distinct, Waiting, Serving, Know, CtlKnows, DogKnows, RouteInv, StateCurrent,
         RouteCurrent, InFlight, Safe, ReceiptsAreTrue
    <2>4. GuardInv'
      BY Zenon DEF Waiting, Serving, Know, DogKnows, GuardInv, StateCurrent, RouteCurrent
    <2>5. Safe'
      BY Zenon DEF Serving, RouteInv, GuardInv, Safe, CandidateIsBounded, ReceiptsAreTrue,
         FailClosed, RouteCurrent
    <2> QED BY <2>2, <2>3, <2>4, <2>5, Zenon
  <1>4. CASE Drop("dog")
    <2>1. /\ DOMAIN ask' = Proc /\ waits' \in [Proc -> BOOLEAN] /\ askTok' \in [Proc -> Tokens \cup {None}]
          /\ ask'["dog"] = None /\ askTok'["dog"] = None /\ ~waits'["dog"] /\ ~waits["dog"] /\ svc = "idle"
          /\ ask'["ctl"] = ask["ctl"] /\ askTok'["ctl"] = askTok["ctl"] /\ waits'["ctl"] = waits["ctl"]
      BY <1>0, <1>4, Zenon DEF Drop, Done
    <2>9. UNCHANGED <<journal, route, dlrow, guard, demoted, svc, srow, sfresh, rrow, rfresh, seen, stok, rtok, pc>>
      BY <1>4, Zenon DEF Drop, sdb, slease, rdb, rlease, service, proc, toks
    <2> USE <2>1, <2>9 DEF IInv, Shape
    <2>2. (Shape /\ Distinct /\ Waiting /\ Serving)'
      BY Zenon DEF Phases, Distinct, Waiting, Serving
    <2>3. (Know /\ RouteInv)'
      BY Zenon DEF Distinct, Waiting, Serving, Know, CtlKnows, DogKnows, RouteInv, StateCurrent,
         RouteCurrent, InFlight, Safe, ReceiptsAreTrue
    <2>4. GuardInv'
      BY Zenon DEF Waiting, Serving, Know, DogKnows, GuardInv, StateCurrent, RouteCurrent
    <2>5. Safe'
      BY Zenon DEF Serving, RouteInv, GuardInv, Safe, CandidateIsBounded, ReceiptsAreTrue,
         FailClosed, RouteCurrent
    <2> QED BY <2>2, <2>3, <2>4, <2>5, Zenon
  <1>5. CASE Crash("ctl")
    <2>1. /\ DOMAIN pc' = Proc /\ waits' \in [Proc -> BOOLEAN]
          /\ stok' \in [Proc -> Tokens \cup {None}] /\ rtok' \in [Proc -> Tokens \cup {None}]
          /\ pc'["ctl"] = "idle" /\ stok'["ctl"] = None /\ rtok'["ctl"] = None /\ ~waits'["ctl"]
          /\ pc'["dog"] = pc["dog"] /\ stok'["dog"] = stok["dog"] /\ rtok'["dog"] = rtok["dog"] /\ waits'["dog"] = waits["dog"]
      BY <1>0, <1>5, Zenon DEF Crash, Exits, Moves
    <2>9. UNCHANGED <<journal, route, dlrow, guard, demoted, svc, srow, sfresh, rrow, rfresh, ask, askTok>>
          /\ seen' = seen
      BY <1>5, Zenon DEF Crash, Exits, sdb, slease, rdb, rlease, service
    <2> USE <2>1, <2>9 DEF IInv, Shape
    <2>2. (Shape /\ Distinct /\ Waiting /\ Serving)'
      BY Zenon DEF Phases, Distinct, Waiting, Serving
    <2>3. (Know /\ RouteInv)'
      BY Zenon DEF Distinct, Waiting, Serving, Know, CtlKnows, DogKnows, RouteInv, StateCurrent,
         RouteCurrent, InFlight, Safe, ReceiptsAreTrue
    <2>4. GuardInv'
      BY Zenon DEF Waiting, Serving, Know, DogKnows, GuardInv, StateCurrent, RouteCurrent
    <2>5. Safe'
      BY Zenon DEF Serving, RouteInv, GuardInv, Safe, CandidateIsBounded, ReceiptsAreTrue,
         FailClosed, RouteCurrent
    <2> QED BY <2>2, <2>3, <2>4, <2>5, Zenon
  <1>6. CASE Crash("dog")
    <2>1. /\ DOMAIN pc' = Proc /\ waits' \in [Proc -> BOOLEAN]
          /\ stok' \in [Proc -> Tokens \cup {None}] /\ rtok' \in [Proc -> Tokens \cup {None}]
          /\ pc'["dog"] = "idle" /\ stok'["dog"] = None /\ rtok'["dog"] = None /\ ~waits'["dog"]
          /\ pc'["ctl"] = pc["ctl"] /\ stok'["ctl"] = stok["ctl"] /\ rtok'["ctl"] = rtok["ctl"] /\ waits'["ctl"] = waits["ctl"]
      BY <1>0, <1>6, Zenon DEF Crash, Exits, Moves
    <2>9. UNCHANGED <<journal, route, dlrow, guard, demoted, svc, srow, sfresh, rrow, rfresh, ask, askTok>>
      BY <1>6, Zenon DEF Crash, Exits, sdb, slease, rdb, rlease, service
    <2> USE <2>1, <2>9 DEF IInv, Shape
    <2>2. (Shape /\ Distinct /\ Waiting /\ Serving)'
      BY Zenon DEF Phases, Distinct, Waiting, Serving
    <2>3. (Know /\ RouteInv)'
      BY Zenon DEF Distinct, Waiting, Serving, Know, CtlKnows, DogKnows, RouteInv, StateCurrent,
         RouteCurrent, InFlight, Safe, ReceiptsAreTrue
    <2>4. GuardInv'
      BY Zenon DEF Waiting, Serving, Know, DogKnows, GuardInv, StateCurrent, RouteCurrent
    <2>5. Safe'
      BY Zenon DEF Serving, RouteInv, GuardInv, Safe, CandidateIsBounded, ReceiptsAreTrue,
         FailClosed, RouteCurrent
    <2> QED BY <2>2, <2>3, <2>4, <2>5, Zenon
  <1>7. CASE CrashService
    <2>0. /\ Thrown("ctl", ask["ctl"]) \in {"release", "stop"}
          /\ Thrown("dog", ask["dog"]) \in {"blockEnd", "stop", "release"} \cup (IF ask["dog"] = "demote" THEN {"terminal"} ELSE {})
      BY Throws, Zenon
    <2>1. /\ DOMAIN pc' = Proc /\ DOMAIN ask' = Proc /\ waits' = [p \in Proc |-> FALSE] /\ askTok' = [p \in Proc |-> None]
          /\ \A p \in Proc : ask'[p] = None /\ pc'[p] = IF waits[p] THEN Thrown(p, ask[p]) ELSE pc[p]
          /\ svc' = "idle"
      BY <1>7, Zenon DEF CrashService, NoService
    <2>9. UNCHANGED <<journal, route, dlrow, guard, demoted, srow, sfresh, rrow, rfresh, seen, stok, rtok>>
      BY <1>7, Zenon DEF CrashService, sdb, slease, rdb, toks
    <2> USE <2>0, <2>1, <2>9 DEF IInv, Shape
    <2>2. (Shape /\ Distinct /\ Waiting /\ Serving)'
      BY Zenon DEF Phases, Distinct, Waiting, Serving
    <2>3. (Know /\ RouteInv)'
      BY DEF Distinct, Waiting, Serving, Know, CtlKnows, DogKnows, RouteInv, StateCurrent,
         RouteCurrent, InFlight, Safe, ReceiptsAreTrue
    <2>4. GuardInv'
      BY Zenon DEF Waiting, Serving, Know, DogKnows, GuardInv, StateCurrent, RouteCurrent
    <2>5. Safe'
      BY Zenon DEF Serving, RouteInv, GuardInv, Safe, CandidateIsBounded, ReceiptsAreTrue,
         FailClosed, RouteCurrent
    <2> QED BY <2>2, <2>3, <2>4, <2>5, Zenon
  <1>8. CASE Reboot
    <2>1. /\ pc' = [p \in Proc |-> "idle"] /\ waits' = [p \in Proc |-> FALSE] /\ svc' = "idle" /\ ~sfresh' /\ ~rfresh'
          /\ ask' = [p \in Proc |-> None] /\ askTok' = [p \in Proc |-> None]
          /\ stok' = [p \in Proc |-> None] /\ rtok' = [p \in Proc |-> None]
          /\ dlrow' = IF dlrow = "none" THEN "none" ELSE "otherBoot"
      BY <1>8, Zenon DEF Reboot, NoService
    <2>9. UNCHANGED <<journal, route, guard, demoted>>
      BY <1>8, Zenon DEF Reboot, sdb
    <2> USE <2>1, <2>9 DEF IInv, Shape
    <2>2. (Shape /\ Distinct /\ Waiting /\ Serving)'
      BY Zenon DEF Phases, Distinct, Waiting, Serving
    <2>3. (Know /\ RouteInv)'
      BY Zenon DEF Distinct, Waiting, Serving, Know, CtlKnows, DogKnows, RouteInv, StateCurrent,
         RouteCurrent, InFlight, Safe, ReceiptsAreTrue
    <2>4. GuardInv'
      BY Zenon DEF Waiting, Serving, Know, DogKnows, GuardInv, StateCurrent, RouteCurrent
    <2>5. Safe'
      BY Zenon DEF Serving, RouteInv, GuardInv, Safe, CandidateIsBounded, ReceiptsAreTrue,
         FailClosed, RouteCurrent
    <2> QED BY <2>2, <2>3, <2>4, <2>5, Zenon
  <1>9. CASE ExpireState
    <2>1. /\ ~sfresh'
          /\ UNCHANGED <<journal, route, dlrow, guard, demoted, svc, srow, rrow, rfresh, seen, stok, rtok, pc, ask, askTok, waits>>
      BY <1>9, Zenon DEF ExpireState, sdb, rdb, rlease, service, proc, toks, req
    <2> USE <2>1 DEF IInv, Shape
    <2>2. (Shape /\ Distinct /\ Waiting /\ Serving)'
      BY Zenon DEF Phases, Distinct, Waiting, Serving
    <2>3. (Know /\ RouteInv)'
      BY Zenon DEF Distinct, Waiting, Serving, Know, CtlKnows, DogKnows, RouteInv, StateCurrent,
         RouteCurrent, InFlight, Safe, ReceiptsAreTrue
    <2>4. GuardInv'
      BY Zenon DEF Waiting, Serving, Know, DogKnows, GuardInv, StateCurrent, RouteCurrent
    <2>5. Safe'
      BY Zenon DEF Serving, RouteInv, GuardInv, Safe, CandidateIsBounded, ReceiptsAreTrue,
         FailClosed, RouteCurrent
    <2> QED BY <2>2, <2>3, <2>4, <2>5, Zenon
  <1>10. CASE ExpireRoute
    <2>1. /\ ~rfresh'
          /\ UNCHANGED <<journal, route, dlrow, guard, demoted, svc, srow, rrow, sfresh, seen, stok, rtok, pc, ask, askTok, waits>>
      BY <1>10, Zenon DEF ExpireRoute, sdb, slease, rdb, service, proc, toks, req
    <2> USE <2>1 DEF IInv, Shape
    <2>2. (Shape /\ Distinct /\ Waiting /\ Serving)'
      BY Zenon DEF Phases, Distinct, Waiting, Serving
    <2>3. (Know /\ RouteInv)'
      BY Zenon DEF Distinct, Waiting, Serving, Know, CtlKnows, DogKnows, RouteInv, StateCurrent,
         RouteCurrent, InFlight, Safe, ReceiptsAreTrue
    <2>4. GuardInv'
      BY Zenon DEF Waiting, Serving, Know, DogKnows, GuardInv, StateCurrent, RouteCurrent
    <2>5. Safe'
      BY Zenon DEF Serving, RouteInv, GuardInv, Safe, CandidateIsBounded, ReceiptsAreTrue,
         FailClosed, RouteCurrent
    <2> QED BY <2>2, <2>3, <2>4, <2>5, Zenon
  <1>11. CASE PassTime
    <2>1. UNCHANGED <<journal, route, dlrow, guard, demoted, svc, srow, sfresh, rrow, rfresh, seen, stok, rtok, pc, ask, askTok,
                     waits>>
      BY <1>11, Zenon DEF PassTime, sdb, slease, rdb, rlease, service, proc, toks, req
    <2> USE <2>1 DEF IInv, Shape
    <2>2. (Shape /\ Distinct /\ Waiting /\ Serving)'
      BY Zenon DEF Phases, Distinct, Waiting, Serving
    <2>3. (Know /\ RouteInv)'
      BY Zenon DEF Distinct, Waiting, Serving, Know, CtlKnows, DogKnows, RouteInv, StateCurrent,
         RouteCurrent, InFlight, Safe, ReceiptsAreTrue
    <2>4. GuardInv'
      BY Zenon DEF Waiting, Serving, Know, DogKnows, GuardInv, StateCurrent, RouteCurrent
    <2>5. Safe'
      BY Zenon DEF Serving, RouteInv, GuardInv, Safe, CandidateIsBounded, ReceiptsAreTrue,
         FailClosed, RouteCurrent
    <2> QED BY <2>2, <2>3, <2>4, <2>5, Zenon
  <1> QED BY <1>1, <1>2, <1>3, <1>4, <1>5, <1>6, <1>7, <1>8, <1>9, <1>10, <1>11, Zenon DEF Faulty


\* The watchdog's steps keep the invariant, like the controller's.
LEMMA DogInv == IInv /\ (DogStart \/ DogStep) => IInv'
  <1> SUFFICES ASSUME IInv, DogStart \/ DogStep PROVE IInv'
    OBVIOUS
  <1> USE DEF IInv, Shape, Distinct, Waiting, Serving, Know, CtlKnows, DogKnows, RouteInv, GuardInv, Safe,
          CandidateIsBounded, ReceiptsAreTrue, FailClosed, Proc, Phases, InFlight, Terminal, StateCurrent, RouteCurrent,
          At, Moves, Goto, sdb, slease, rdb, rlease, service, clock, toks, proc, req
  <1>1. CASE DogStart
    BY <1>1 DEF DogStart, Start
  <1>2. CASE Fence("dog")
    BY <1>2, Fresh DEF Fence, Exits, Unused
  <1>3. CASE TakeState("dog", "load")
    BY <1>3, Fresh DEF TakeState, Unused
  <1>4. CASE Load
    BY <1>4 DEF Load, Decision
  <1>5. CASE Stop
    BY <1>5 DEF Stop, WriteMarker
  <1>6. CASE Authenticate
    BY <1>6 DEF Authenticate
  <1>7. CASE DogUnknown
    BY <1>7 DEF DogUnknown, WriteJournal
  <1>8. CASE Mark
    BY <1>8 DEF Mark, WriteMarker
  <1>9. CASE Revert
    BY <1>9 DEF Revert, WriteJournal
  <1>10. CASE Disarm
    BY <1>10 DEF Disarm, WriteJournal
  <1>11. CASE Unmark
    BY <1>11 DEF Unmark, WriteMarker
  <1>12. CASE TerminalMark
    BY <1>12 DEF TerminalMark, WriteMarker
  <1>13. CASE Receipt
    BY <1>13 DEF Receipt, WriteJournal, WriteMarker
  <1>14. ASSUME NEW op \in DogOps, Ask("dog", op) PROVE IInv'
    BY <1>14, DogAsks, Zenon
  <1>15. CASE Release("dog") \/ Unfence("dog")
    BY <1>15, DogEnds, Zenon
  <1> QED BY <1>1, <1>2, <1>3, <1>4, <1>5, <1>6, <1>7, <1>8, <1>9, <1>10, <1>11, <1>12, <1>13,
      <1>14, <1>15, Zenon DEF DogStep

\* What a reply to p changes: its request is over, and if it still waits it
\* goes on at l.  Nothing of the other process q changes.
Replied(p, q, l) ==
    /\ DOMAIN pc' = Proc /\ DOMAIN ask' = Proc /\ waits' \in [Proc -> BOOLEAN]
    /\ askTok' \in [Proc -> Tokens \cup {None}]
    /\ waits[p] => pc'[p] = l
    /\ ~waits[p] => pc'[p] = pc[p]
    /\ ask'[p] = None /\ askTok'[p] = None /\ ~waits'[p]
    /\ pc'[q] = pc[q] /\ ask'[q] = ask[q] /\ askTok'[q] = askTok[q] /\ waits'[q] = waits[q]
    /\ UNCHANGED <<journal, srow, sfresh, rrow, rfresh, seen, stok, rtok>>

\* A reply does what Replied says.
LEMMA Replies ==
    ASSUME IInv, NEW p \in Proc, NEW q \in Proc \ {p}, NEW l, Reply(p, l)
    PROVE  Replied(p, q, l)
  <1>1. /\ pc' = [pc EXCEPT ![p] = IF waits[p] THEN l ELSE pc[p]]
        /\ ask' = [ask EXCEPT ![p] = None] /\ askTok' = [askTok EXCEPT ![p] = None]
        /\ waits' = [waits EXCEPT ![p] = FALSE]
    BY Zenon DEF Reply, Done, Goto, Moves
  <1>2. UNCHANGED <<journal, srow, sfresh, rrow, rfresh, seen, stok, rtok>>
    BY Zenon DEF Reply, Goto, sdb, slease, rlease, toks
  <1>3. DOMAIN pc = Proc /\ DOMAIN ask = Proc /\ waits \in [Proc -> BOOLEAN] /\ askTok \in [Proc -> Tokens \cup {None}]
    BY Zenon DEF IInv, Shape
  <1> QED BY <1>1, <1>2, <1>3, Zenon DEF Replied

\* Nothing that the invariant speaks of changes but what the service is doing.
Turns(to) ==
    /\ svc' = to
    /\ UNCHANGED <<journal, srow, sfresh, rrow, rfresh, seen, stok, rtok, pc, ask, askTok, waits>>
    /\ UNCHANGED <<route, dlrow, guard, demoted>>

\* A turn to the second half of a handler does what Turns says.
LEMMA TurnsTo == ASSUME NEW to, Turn(to) PROVE Turns(to)
  BY Zenon DEF Turn, Turns, sdb, slease, rdb, rlease, proc, toks, req

\* A refusal changes nothing but where its client is.
LEMMA RefuseInv == ASSUME NEW p \in Proc, IInv, Refuse(p), svc = "idle" PROVE IInv'
  <1> USE DEF Proc
  <1>0. UNCHANGED <<route, dlrow, guard, demoted, svc>>
    BY Zenon DEF Refuse, rdb, service
  <1>1. CASE p = "ctl"
    <2>1. LET l == Thrown("ctl", ask["ctl"]) IN Replied("ctl", "dog", l) /\ l \in {"release", "stop"}
      BY <1>1, Replies, Throws, Zenon DEF Refuse
    <2> USE <1>0, <2>1 DEF Replied, IInv, Shape
    <2>2. (Shape /\ Distinct /\ Waiting /\ Serving)'
      BY DEF Phases, Distinct, Waiting, Serving
    <2>3. (Know /\ RouteInv)'
      BY Zenon DEF Distinct, Waiting, Serving, Know, CtlKnows, DogKnows, RouteInv, StateCurrent,
         RouteCurrent, InFlight, Safe, ReceiptsAreTrue
    <2>4. GuardInv'
      BY Zenon DEF Waiting, Serving, Know, DogKnows, GuardInv, StateCurrent, RouteCurrent
    <2>5. Safe'
      BY Zenon DEF Serving, RouteInv, GuardInv, Safe, CandidateIsBounded, ReceiptsAreTrue,
         FailClosed, RouteCurrent
    <2> QED BY <2>2, <2>3, <2>4, <2>5, Zenon
  <1>2. CASE p = "dog"
    <2>0. Thrown("dog", ask["dog"]) \in {"blockEnd", "stop", "release"} \cup (IF ask["dog"] = "demote" THEN {"terminal"} ELSE {})
      BY Throws, Zenon
    <2>1. Replied("dog", "ctl", Thrown("dog", ask["dog"]))
      BY <1>2, Replies, Zenon DEF Refuse
    <2> USE <1>0, <2>0, <2>1 DEF Replied, IInv, Shape
    <2>2. (Shape /\ Distinct /\ Waiting /\ Serving)'
      BY DEF Phases, Distinct, Waiting, Serving
    <2>3. (Know /\ RouteInv)'
      BY Zenon DEF Distinct, Waiting, Serving, Know, CtlKnows, DogKnows, RouteInv, StateCurrent,
         RouteCurrent, InFlight, Safe, ReceiptsAreTrue
    <2>4. GuardInv'
      BY Zenon DEF Waiting, Serving, Know, DogKnows, GuardInv, StateCurrent, RouteCurrent
    <2>5. Safe'
      BY Zenon DEF Serving, RouteInv, GuardInv, Safe, CandidateIsBounded, ReceiptsAreTrue,
         FailClosed, RouteCurrent
    <2> QED BY <2>2, <2>3, <2>4, <2>5, Zenon
  <1> QED BY <1>1, <1>2, Zenon

\* And the service's: it reads the journal and later writes the route.
LEMMA ServiceInv == IInv /\ ServiceStep => IInv'
  <1> SUFFICES ASSUME IInv, ServiceStep PROVE IInv'
    OBVIOUS
  <1> USE DEF Proc
  <1>0. ASSUME NEW p \in Proc, Refuse(p), svc = "idle" PROVE IInv'
    BY <1>0, RefuseInv, Zenon
  <1>1. CASE Register
    <2>1. CASE Refuse("ctl")
      BY <1>0, <1>1, <2>1, Zenon DEF Register, Asked
    <2>2. CASE journal = "prepare" /\ Reply("ctl", "material") /\ UNCHANGED <<rdb, demoted, svc>>
      <3>1. Replied("ctl", "dog", "material") /\ UNCHANGED <<route, dlrow, guard, demoted, svc>>
            /\ ask["ctl"] = "register" /\ svc = "idle" /\ journal = "prepare"
        BY <1>1, <2>2, Replies, Zenon DEF Register, Asked, rdb
      <3> USE <3>1 DEF Replied, Turns, IInv, Shape
      <3>2. (Shape /\ Distinct /\ Waiting /\ Serving)'
        BY DEF Phases, Distinct, Waiting, Serving
      <3>3. (Know /\ RouteInv)'
        BY Zenon DEF Distinct, Waiting, Serving, Know, CtlKnows, DogKnows, RouteInv, StateCurrent,
           RouteCurrent, InFlight, Safe, ReceiptsAreTrue
      <3>4. GuardInv'
        BY Zenon DEF Waiting, Serving, Know, DogKnows, GuardInv, StateCurrent, RouteCurrent
      <3>5. Safe'
        BY Zenon DEF Serving, RouteInv, GuardInv, Safe, CandidateIsBounded, ReceiptsAreTrue,
           FailClosed, RouteCurrent
      <3> QED BY <3>2, <3>3, <3>4, <3>5, Zenon
    <2> QED BY <1>1, <2>1, <2>2, Zenon DEF Register
  <1>2. CASE ApplyCandidate
    <2>1. CASE Refuse("ctl")
      BY <1>0, <1>2, <2>1, Zenon DEF ApplyCandidate, Asked
    <2>2. CASE journal = "prepare" /\ Turn("apply")
      <3>1. Turns("apply") /\ ask["ctl"] = "apply" /\ svc = "idle" /\ journal = "prepare"
        BY <1>2, <2>2, TurnsTo, Zenon DEF ApplyCandidate, Asked
      <3> USE <3>1 DEF Replied, Turns, IInv, Shape
      <3>2. (Shape /\ Distinct /\ Waiting /\ Serving)'
        BY Zenon DEF Phases, Distinct, Waiting, Serving
      <3>3. (Know /\ RouteInv)'
        BY Zenon DEF Distinct, Waiting, Serving, Know, CtlKnows, DogKnows, RouteInv, StateCurrent,
           RouteCurrent, InFlight, Safe, ReceiptsAreTrue
      <3>4. GuardInv'
        BY Zenon DEF Waiting, Serving, Know, DogKnows, GuardInv, StateCurrent, RouteCurrent
      <3>5. Safe'
        BY Zenon DEF Serving, RouteInv, GuardInv, Safe, CandidateIsBounded, ReceiptsAreTrue,
           FailClosed, RouteCurrent
      <3> QED BY <3>2, <3>3, <3>4, <3>5, Zenon
    <2> QED BY <1>2, <2>1, <2>2, Zenon DEF ApplyCandidate
  <1>3. CASE CompareAndSwap
    <2>1. CASE route = "base" /\ RouteCurrent(askTok["ctl"])
      <3>1. /\ Replied("ctl", "dog", "readback") /\ route' = "cand" /\ dlrow' = "thisBoot"
            /\ svc = "apply" /\ svc' = "idle" /\ UNCHANGED <<guard, demoted>>
        BY <1>3, <2>1, Replies, Zenon DEF CompareAndSwap
      <3> USE <3>1 DEF Replied, Turns, IInv, Shape
      <3>2. (Shape /\ Distinct /\ Waiting /\ Serving)'
        BY DEF Phases, Distinct, Waiting, Serving
      <3>3. (Know /\ RouteInv)'
        BY Zenon DEF Distinct, Waiting, Serving, Know, CtlKnows, DogKnows, RouteInv, StateCurrent,
           RouteCurrent, InFlight, Safe, ReceiptsAreTrue
      <3>4. GuardInv'
        BY Zenon DEF Waiting, Serving, Know, DogKnows, GuardInv, StateCurrent, RouteCurrent
      <3>5. Safe'
        BY Zenon DEF Serving, RouteInv, GuardInv, Safe, CandidateIsBounded, ReceiptsAreTrue,
           FailClosed, RouteCurrent
      <3> QED BY <3>2, <3>3, <3>4, <3>5, Zenon
    <2>2. CASE ~(route = "base" /\ RouteCurrent(askTok["ctl"]))
      <3>1. /\ Replied("ctl", "dog", "unknown") /\ UNCHANGED <<route, dlrow, guard, demoted>>
            /\ svc = "apply" /\ svc' = "idle"
        BY <1>3, <2>2, Replies, Zenon DEF CompareAndSwap
      <3> USE <3>1 DEF Replied, Turns, IInv, Shape
      <3>2. (Shape /\ Distinct /\ Waiting /\ Serving)'
        BY DEF Phases, Distinct, Waiting, Serving
      <3>3. (Know /\ RouteInv)'
        BY Zenon DEF Distinct, Waiting, Serving, Know, CtlKnows, DogKnows, RouteInv, StateCurrent,
           RouteCurrent, InFlight, Safe, ReceiptsAreTrue
      <3>4. GuardInv'
        BY Zenon DEF Waiting, Serving, Know, DogKnows, GuardInv, StateCurrent, RouteCurrent
      <3>5. Safe'
        BY Zenon DEF Serving, RouteInv, GuardInv, Safe, CandidateIsBounded, ReceiptsAreTrue,
           FailClosed, RouteCurrent
      <3> QED BY <3>2, <3>3, <3>4, <3>5, Zenon
    <2> QED BY <2>1, <2>2, Zenon
  <1>4. CASE Promote("ctl")
    <2>1. CASE Refuse("ctl")
      BY <1>0, <1>4, <2>1, Zenon DEF Promote, Asked
    <2>2. CASE /\ journal = "commit" /\ dlrow' = "none"
               /\ Reply("ctl", "release") /\ UNCHANGED <<route, guard, service>>
      <3>1. /\ Replied("ctl", "dog", "release") /\ dlrow' = "none" /\ UNCHANGED <<route, guard, demoted, svc>>
            /\ ask["ctl"] = "promote" /\ svc = "idle" /\ journal = "commit"
        BY <1>4, <2>2, Replies, Zenon DEF Promote, Asked, service
      <3> USE <3>1 DEF Replied, Turns, IInv, Shape
      <3>2. (Shape /\ Distinct /\ Waiting /\ Serving)'
        BY DEF Phases, Distinct, Waiting, Serving
      <3>3. (Know /\ RouteInv)'
        BY Zenon DEF Distinct, Waiting, Serving, Know, CtlKnows, DogKnows, RouteInv, StateCurrent,
           RouteCurrent, InFlight, Safe, ReceiptsAreTrue
      <3>4. GuardInv'
        BY Zenon DEF Waiting, Serving, Know, DogKnows, GuardInv, StateCurrent, RouteCurrent
      <3>5. Safe'
        BY Zenon DEF Serving, RouteInv, GuardInv, Safe, CandidateIsBounded, ReceiptsAreTrue,
           FailClosed, RouteCurrent
      <3> QED BY <3>2, <3>3, <3>4, <3>5, Zenon
    <2> QED BY <1>4, <2>1, <2>2, Zenon DEF Promote
  <1>5. CASE Promote("dog")
    <2>1. CASE Refuse("dog")
      BY <1>0, <1>5, <2>1, Zenon DEF Promote, Asked
    <2>2. CASE /\ journal = "commit" /\ dlrow' = "none"
               /\ Reply("dog", "clearEnd") /\ UNCHANGED <<route, guard, service>>
      <3>1. /\ Replied("dog", "ctl", "clearEnd") /\ dlrow' = "none" /\ UNCHANGED <<route, guard, demoted, svc>>
            /\ ask["dog"] = "promote" /\ svc = "idle" /\ journal = "commit"
        BY <1>5, <2>2, Replies, Zenon DEF Promote, Asked, service
      <3> USE <3>1 DEF Replied, Turns, IInv, Shape
      <3>2. (Shape /\ Distinct /\ Waiting /\ Serving)'
        BY Zenon DEF Phases, Distinct, Waiting, Serving
      <3>3. (Know /\ RouteInv)'
        BY Zenon DEF Distinct, Waiting, Serving, Know, CtlKnows, DogKnows, RouteInv, StateCurrent,
           RouteCurrent, InFlight, Safe, ReceiptsAreTrue
      <3>4. GuardInv'
        BY Zenon DEF Waiting, Serving, Know, DogKnows, GuardInv, StateCurrent, RouteCurrent
      <3>5. Safe'
        BY Zenon DEF Serving, RouteInv, GuardInv, Safe, CandidateIsBounded, ReceiptsAreTrue,
           FailClosed, RouteCurrent
      <3> QED BY <3>2, <3>3, <3>4, <3>5, Zenon
    <2> QED BY <1>5, <2>1, <2>2, Zenon DEF Promote
  <1>6. ASSUME NEW op \in {"blockEnd", "block", "owned", "unowned"}, BlockRoute(op) PROVE IInv'
    <2>1. CASE Refuse("dog")
      BY <1>0, <1>6, <2>1, Zenon DEF BlockRoute, Asked
    <2>2. CASE Turn("block")
      <3>1. Turns("block") /\ ask["dog"] = op /\ svc = "idle"
        BY <1>6, <2>2, TurnsTo, Zenon DEF BlockRoute, Asked
      <3> USE <3>1 DEF Replied, Turns, IInv, Shape
      <3>2. (Shape /\ Distinct /\ Waiting /\ Serving)'
        BY Zenon DEF Phases, Distinct, Waiting, Serving
      <3>3. (Know /\ RouteInv)'
        BY Zenon DEF Distinct, Waiting, Serving, Know, CtlKnows, DogKnows, RouteInv, StateCurrent,
           RouteCurrent, InFlight, Safe, ReceiptsAreTrue
      <3>4. GuardInv'
        BY Zenon DEF Waiting, Serving, Know, DogKnows, GuardInv, StateCurrent, RouteCurrent
      <3>5. Safe'
        BY Zenon DEF Serving, RouteInv, GuardInv, Safe, CandidateIsBounded, ReceiptsAreTrue,
           FailClosed, RouteCurrent
      <3> QED BY <3>2, <3>3, <3>4, <3>5, Zenon
    <2> QED BY <1>6, <2>1, <2>2, Zenon DEF BlockRoute
  <1>7. CASE SetBlocked
    <2>1. /\ Replied("dog", "ctl", CASE ask["dog"] = "block" -> "auth"
                                       [] ask["dog"] = "blockEnd" -> "release"
                                       [] OTHER -> "stop")
          /\ guard' = IF guard = "clear" /\ RouteCurrent(askTok["dog"])
                      THEN IF ask["dog"] = "unowned" THEN "unowned" ELSE "owned" ELSE guard
          /\ svc = "block" /\ svc' = "idle" /\ UNCHANGED <<route, dlrow, demoted>>
      BY <1>7, Replies, Zenon DEF SetBlocked
    <2> USE <2>1 DEF Replied, Turns, IInv, Shape
    <2>2. (Shape /\ Distinct /\ Waiting /\ Serving)'
      BY Zenon DEF Phases, Distinct, Waiting, Serving
    <2>3. (Know /\ RouteInv)'
      BY Zenon DEF Distinct, Waiting, Serving, Know, CtlKnows, DogKnows, RouteInv, StateCurrent,
         RouteCurrent, InFlight, Safe, ReceiptsAreTrue
    <2>4. GuardInv'
      BY Zenon DEF Waiting, Serving, Know, DogKnows, GuardInv, StateCurrent, RouteCurrent
    <2>5. Safe'
      BY Zenon DEF Serving, RouteInv, GuardInv, Safe, CandidateIsBounded, ReceiptsAreTrue,
         FailClosed, RouteCurrent
    <2> QED BY <2>2, <2>3, <2>4, <2>5, Zenon
  <1>8. CASE UnblockOwned
    <2>1. CASE Refuse("dog")
      BY <1>0, <1>8, <2>1, Zenon DEF UnblockOwned, Asked
    <2>2. CASE journal \in {"watch", "commit", "disarm"} /\ Turn("clear")
      <3>1. /\ Turns("clear") /\ ask["dog"] = "clearEnd" /\ svc = "idle"
            /\ journal \in {"watch", "commit", "disarm"}
        BY <1>8, <2>2, TurnsTo, Zenon DEF UnblockOwned, Asked
      <3> USE <3>1 DEF Replied, Turns, IInv, Shape
      <3>2. (Shape /\ Distinct /\ Waiting /\ Serving)'
        BY Zenon DEF Phases, Distinct, Waiting, Serving
      <3>3. (Know /\ RouteInv)'
        BY Zenon DEF Distinct, Waiting, Serving, Know, CtlKnows, DogKnows, RouteInv, StateCurrent,
           RouteCurrent, InFlight, Safe, ReceiptsAreTrue
      <3>4. GuardInv'
        BY Zenon DEF Waiting, Serving, Know, DogKnows, GuardInv, StateCurrent, RouteCurrent
      <3>5. Safe'
        BY Zenon DEF Serving, RouteInv, GuardInv, Safe, CandidateIsBounded, ReceiptsAreTrue,
           FailClosed, RouteCurrent
      <3> QED BY <3>2, <3>3, <3>4, <3>5, Zenon
    <2> QED BY <1>8, <2>1, <2>2, Zenon DEF UnblockOwned
  <1>9. CASE ClearOwnedBlock
    <2>1. /\ Replied("dog", "ctl", "release")
          /\ guard' = IF guard = "owned" /\ RouteCurrent(askTok["dog"]) THEN "clear" ELSE guard
          /\ svc = "clear" /\ svc' = "idle" /\ UNCHANGED <<route, dlrow, demoted>>
      BY <1>9, Replies, Zenon DEF ClearOwnedBlock
    <2> USE <2>1 DEF Replied, Turns, IInv, Shape
    <2>2. (Shape /\ Distinct /\ Waiting /\ Serving)'
      BY DEF Phases, Distinct, Waiting, Serving
    <2>3. (Know /\ RouteInv)'
      BY Zenon DEF Distinct, Waiting, Serving, Know, CtlKnows, DogKnows, RouteInv, StateCurrent,
         RouteCurrent, InFlight, Safe, ReceiptsAreTrue
    <2>4. GuardInv'
      BY Zenon DEF Waiting, Serving, Know, DogKnows, GuardInv, StateCurrent, RouteCurrent
    <2>5. Safe'
      BY Zenon DEF Serving, RouteInv, GuardInv, Safe, CandidateIsBounded, ReceiptsAreTrue,
         FailClosed, RouteCurrent
    <2> QED BY <2>2, <2>3, <2>4, <2>5, Zenon
  <1>10. CASE Actuate
    <2>1. CASE Refuse("dog")
      BY <1>0, <1>10, <2>1, Zenon DEF Actuate, Asked
    <2>2. CASE Fenced("dog") /\ journal = "unknown" /\ Turn("restore")
      <3>1. /\ Turns("restore") /\ ask["dog"] = "actuate" /\ svc = "idle" /\ journal = "unknown"
            /\ RouteCurrent(askTok["dog"])
        BY <1>10, <2>2, TurnsTo, Zenon DEF Actuate, Asked, Fenced
      <3> USE <3>1 DEF Replied, Turns, IInv, Shape
      <3>2. (Shape /\ Distinct /\ Waiting /\ Serving)'
        BY Zenon DEF Phases, Distinct, Waiting, Serving
      <3>3. (Know /\ RouteInv)'
        BY Zenon DEF Distinct, Waiting, Serving, Know, CtlKnows, DogKnows, RouteInv, StateCurrent,
           RouteCurrent, InFlight, Safe, ReceiptsAreTrue
      <3>4. GuardInv'
        BY Zenon DEF Waiting, Serving, Know, DogKnows, GuardInv, StateCurrent, RouteCurrent
      <3>5. Safe'
        BY Zenon DEF Serving, RouteInv, GuardInv, Safe, CandidateIsBounded, ReceiptsAreTrue,
           FailClosed, RouteCurrent
      <3> QED BY <3>2, <3>3, <3>4, <3>5, Zenon
    <2>3. CASE /\ Fenced("dog") /\ journal = "unknown"
               /\ Reply("dog", IF route = "base" /\ reg # "failed" THEN "revert" ELSE "terminal")
               /\ UNCHANGED <<rdb, demoted, svc>>
      <3>1. /\ Replied("dog", "ctl", IF route = "base" /\ reg # "failed" THEN "revert" ELSE "terminal")
            /\ ask["dog"] = "actuate" /\ svc = "idle" /\ journal = "unknown"
            /\ RouteCurrent(askTok["dog"]) /\ UNCHANGED <<route, dlrow, guard, demoted, svc>>
        BY <1>10, <2>3, Replies, Zenon DEF Actuate, Asked, Fenced, rdb
      <3> USE <3>1 DEF Replied, Turns, IInv, Shape
      <3>2. (Shape /\ Distinct /\ Waiting /\ Serving)'
        BY Zenon DEF Phases, Distinct, Waiting, Serving
      <3>3. (Know /\ RouteInv)'
        <4>1. Know'
          BY Zenon DEF Distinct, Waiting, Serving, Know, CtlKnows, DogKnows, RouteInv,
             StateCurrent, RouteCurrent, InFlight, Safe, ReceiptsAreTrue
        <4>2. RouteInv'
          BY Zenon DEF Distinct, Waiting, Serving, Know, CtlKnows, DogKnows, RouteInv,
             StateCurrent, RouteCurrent, InFlight, Safe, ReceiptsAreTrue
        <4> QED BY <4>1, <4>2, Zenon
      <3>4. GuardInv'
        BY Zenon DEF Waiting, Serving, Know, DogKnows, GuardInv, StateCurrent, RouteCurrent
      <3>5. Safe'
        BY Zenon DEF Serving, RouteInv, GuardInv, Safe, CandidateIsBounded, ReceiptsAreTrue,
           FailClosed, RouteCurrent
      <3> QED BY <3>2, <3>3, <3>4, <3>5, Zenon
    <2> QED BY <1>10, <2>1, <2>2, <2>3, Zenon DEF Actuate
  <1>11. CASE RestoreExact
    <2>1. CASE RouteCurrent(askTok["dog"])
      <3>1. /\ UNCHANGED <<journal, srow, sfresh, rrow, rfresh, seen, stok, rtok, pc, ask, askTok, waits>>
            /\ route' = "base" /\ dlrow' = "none" /\ svc = "restore" /\ svc' = "consume" /\ UNCHANGED <<guard, demoted>>
        BY <1>11, <2>1, Zenon DEF RestoreExact, sdb, slease, rlease, proc, toks, req
      <3> USE <3>1 DEF Replied, Turns, IInv, Shape
      <3>2. (Shape /\ Distinct /\ Waiting /\ Serving)'
        BY Zenon DEF Phases, Distinct, Waiting, Serving
      <3>3. (Know /\ RouteInv)'
        BY Zenon DEF Distinct, Waiting, Serving, Know, CtlKnows, DogKnows, RouteInv, StateCurrent,
           RouteCurrent, InFlight, Safe, ReceiptsAreTrue
      <3>4. GuardInv'
        BY Zenon DEF Waiting, Serving, Know, DogKnows, GuardInv, StateCurrent, RouteCurrent
      <3>5. Safe'
        BY Zenon DEF Serving, RouteInv, GuardInv, Safe, CandidateIsBounded, ReceiptsAreTrue,
           FailClosed, RouteCurrent
      <3> QED BY <3>2, <3>3, <3>4, <3>5, Zenon
    <2>2. CASE ~RouteCurrent(askTok["dog"])
      <3>1. /\ Replied("dog", "ctl", "terminal") /\ UNCHANGED <<route, dlrow, guard, demoted>>
            /\ svc = "restore" /\ svc' = "idle"
        BY <1>11, <2>2, Replies, Zenon DEF RestoreExact, rdb
      <3> USE <3>1 DEF Replied, Turns, IInv, Shape
      <3>2. (Shape /\ Distinct /\ Waiting /\ Serving)'
        BY Zenon DEF Phases, Distinct, Waiting, Serving
      <3>3. (Know /\ RouteInv)'
        BY Zenon DEF Distinct, Waiting, Serving, Know, CtlKnows, DogKnows, RouteInv, StateCurrent,
           RouteCurrent, InFlight, Safe, ReceiptsAreTrue
      <3>4. GuardInv'
        BY Zenon DEF Waiting, Serving, Know, DogKnows, GuardInv, StateCurrent, RouteCurrent
      <3>5. Safe'
        BY Zenon DEF Serving, RouteInv, GuardInv, Safe, CandidateIsBounded, ReceiptsAreTrue,
           FailClosed, RouteCurrent
      <3> QED BY <3>2, <3>3, <3>4, <3>5, Zenon
    <2> QED BY <2>1, <2>2, Zenon
  <1>12. CASE Consume
    <2>1. /\ Replied("dog", "ctl", "revert") /\ UNCHANGED <<route, dlrow, guard, demoted>>
          /\ svc = "consume" /\ svc' = "idle"
      BY <1>12, Replies, Zenon DEF Consume, rdb
    <2> USE <2>1 DEF Replied, Turns, IInv, Shape
    <2>2. (Shape /\ Distinct /\ Waiting /\ Serving)'
      BY DEF Phases, Distinct, Waiting, Serving
    <2>3. (Know /\ RouteInv)'
      BY Zenon DEF Distinct, Waiting, Serving, Know, CtlKnows, DogKnows, RouteInv, StateCurrent,
         RouteCurrent, InFlight, Safe, ReceiptsAreTrue
    <2>4. GuardInv'
      BY Zenon DEF Waiting, Serving, Know, DogKnows, GuardInv, StateCurrent, RouteCurrent
    <2>5. Safe'
      BY Zenon DEF Serving, RouteInv, GuardInv, Safe, CandidateIsBounded, ReceiptsAreTrue,
         FailClosed, RouteCurrent
    <2> QED BY <2>2, <2>3, <2>4, <2>5, Zenon
  <1>13. CASE Demote
    <2>1. CASE Refuse("dog")
      BY <1>0, <1>13, <2>1, Zenon DEF Demote, Asked
    <2>2. CASE demoted' = TRUE /\ Reply("dog", "disarm") /\ UNCHANGED <<rdb, reg, svc>>
      <3>1. /\ Replied("dog", "ctl", "disarm") /\ demoted' = TRUE /\ UNCHANGED <<route, dlrow, guard, svc>>
            /\ ask["dog"] = "demote" /\ svc = "idle"
        BY <1>13, <2>2, Replies, Zenon DEF Demote, Asked, rdb
      <3> USE <3>1 DEF Replied, Turns, IInv, Shape
      <3>2. (Shape /\ Distinct /\ Waiting /\ Serving)'
        BY DEF Phases, Distinct, Waiting, Serving
      <3>3. (Know /\ RouteInv)'
        BY Zenon DEF Distinct, Waiting, Serving, Know, CtlKnows, DogKnows, RouteInv, StateCurrent,
           RouteCurrent, InFlight, Safe, ReceiptsAreTrue
      <3>4. GuardInv'
        BY Zenon DEF Waiting, Serving, Know, DogKnows, GuardInv, StateCurrent, RouteCurrent
      <3>5. Safe'
        BY Zenon DEF Serving, RouteInv, GuardInv, Safe, CandidateIsBounded, ReceiptsAreTrue,
           FailClosed, RouteCurrent
      <3> QED BY <3>2, <3>3, <3>4, <3>5, Zenon
    <2> QED BY <1>13, <2>1, <2>2, Zenon DEF Demote
  <1> QED BY <1>1, <1>2, <1>3, <1>4, <1>5, <1>6, <1>7, <1>8, <1>9, <1>10, <1>11, <1>12, <1>13,
      Zenon DEF ServiceStep

-----------------------------------------------------------------------------

\* The invariant holds in every state of every behaviour.
LEMMA Inductive == Spec => []IInv
  <1>1. IInv /\ UNCHANGED vars => IInv'
    <2> SUFFICES ASSUME IInv, UNCHANGED vars PROVE IInv'
      OBVIOUS
    <2> USE DEF IInv, StateCurrent, RouteCurrent, vars, sdb, slease, rdb, rlease, service, clock, toks, proc, req
    <2>1. (Shape /\ Distinct /\ Waiting /\ Serving)'
      BY Zenon DEF Shape, Distinct, Waiting, Serving
    <2>2. Know'
      BY Zenon DEF Know, CtlKnows, DogKnows
    <2>3. RouteInv'
      BY Zenon DEF RouteInv
    <2>4. GuardInv'
      BY Zenon DEF GuardInv
    <2>5. Safe'
      BY Zenon DEF Safe, CandidateIsBounded, ReceiptsAreTrue, FailClosed
    <2> QED BY <2>1, <2>2, <2>3, <2>4, <2>5, Zenon
  <1>2. IInv /\ [Next]_vars => IInv'
    BY <1>1, CtlInv, DogInv, ServiceInv, FaultInv, Zenon DEF Next, Faulty
  <1> QED BY InitInv, <1>2, PTL DEF Spec

\* A candidate without a serving deadline is a committed one, however many
\* processes die.
THEOREM Bounded == Spec => []CandidateIsBounded
  BY Inductive, PTL DEF IInv, Safe

\* Every receipt that says what the live route is, is true.
THEOREM Truthful == Spec => []ReceiptsAreTrue
  BY Inductive, PTL DEF IInv, Safe

\* Between a recovery receipt and the disarming nothing is served.
THEOREM Closed == Spec => []FailClosed
  BY Inductive, PTL DEF IInv, Safe

\* The receipts come in their order, whoever writes them.
THEOREM Ordered == Spec => JournalIsMonotone
  <1>1. IInv /\ [Next]_vars => [journal' # journal => Follows(journal, journal')]_vars
    BY Writes, Zenon
  <1> QED BY <1>1, Inductive, PTL DEF Spec, JournalIsMonotone

=============================================================================
