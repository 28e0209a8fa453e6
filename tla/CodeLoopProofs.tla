--------------------------- MODULE CodeLoopProofs ----------------------------
(***************************************************************************)
(* The proofs about CodeLoop for gateways that may overlap.  The lease     *)
(* theorem (SingleFlight) needs LInv alone.  The life cycle of a run needs *)
(* IInv: lemmas on the updates of the two machines of a gateway, what a    *)
(* step of a run has to show (AdvanceKeeps), the steps of a sweep, of a    *)
(* retry and of the renames they leave (SweepStepKeeps), the steps of a    *)
(* run, and the theorems.                                                  *)
(***************************************************************************)
EXTENDS CodeLoopInv, TLAPS

\* Records are told apart from no record, and have typed fields.
LEMMA RecordFacts ==
    /\ \A x \in Record : /\ IsRecord(x) /\ x # None /\ x.c \in Clients /\ x.w \in WorkIds
                         /\ x.status \in Status /\ x.result \in BOOLEAN /\ x.pending \in BOOLEAN
    /\ \A x \in Record \cup {None, Torn} : IsRecord(x) => x \in Record
    /\ \A x \in Record \cup {None} : x # None => x \in Record
    /\ \A x \in Write \cup {None} : x # None => x \in Write /\ x.rec \in Record /\ x.to \in {"client", "copy"}
<1>1. \A x \in Record : IsRecord(x) /\ x # None
  BY CodeLoopAssumption, Zenon DEF IsRecord
<1>2. \A x \in Record : /\ x.c \in Clients /\ x.w \in WorkIds
                        /\ x.status \in Status /\ x.result \in BOOLEAN /\ x.pending \in BOOLEAN
  BY Zenon DEF Record
<1>3. \A x \in Write : x.rec \in Record /\ x.to \in {"client", "copy"}
  BY Zenon DEF Write
<1> QED BY <1>1, <1>2, <1>3, Zenon DEF IsRecord

\* A record with other flags is a record of the same run.
LEMMA Variants ==
    ASSUME NEW x \in Record
    PROVE  /\ [x EXCEPT !.pending = FALSE] \in Record /\ [x EXCEPT !.result = FALSE] \in Record
           /\ [x EXCEPT !.status = "orphaned", !.result = FALSE] \in Record
           /\ [x EXCEPT !.pending = FALSE].c = x.c /\ [x EXCEPT !.pending = FALSE].w = x.w
           /\ [x EXCEPT !.pending = FALSE].status = x.status /\ [x EXCEPT !.pending = FALSE].result = x.result
           /\ ~[x EXCEPT !.pending = FALSE].pending
           /\ [x EXCEPT !.result = FALSE].c = x.c /\ [x EXCEPT !.result = FALSE].w = x.w
           /\ [x EXCEPT !.result = FALSE].status = x.status /\ [x EXCEPT !.result = FALSE].pending = x.pending
           /\ ~[x EXCEPT !.result = FALSE].result
           /\ [x EXCEPT !.status = "orphaned", !.result = FALSE].c = x.c
           /\ [x EXCEPT !.status = "orphaned", !.result = FALSE].w = x.w
           /\ [x EXCEPT !.status = "orphaned", !.result = FALSE].pending = x.pending
           /\ [x EXCEPT !.status = "orphaned", !.result = FALSE].status = "orphaned"
BY Zenon DEF Record, Status

\* The starting states of the two machines.
LEMMA Initial ==
    /\ Idle \in StartState /\ Asleep \in SweepState
    /\ Idle.pc = "idle" /\ Idle.w = 0 /\ ~Idle.freed /\ ~Idle.pend
    /\ Asleep.pc = "idle" /\ Asleep.rec = None
BY CodeLoopAssumption DEF Idle, Asleep, StartState, SweepState, StartLabel, SweepLabel

\* The part of Types that the updates of a run need.
LEMMA StTypes == ASSUME Types PROVE StTyped
BY Zenon DEF Types, StTyped

\* An assignment to the state of one gateway's start machine changes no other's.
LEMMA StUpdate ==
    ASSUME StTyped, NEW g \in Gateways, NEW s \in StartState, st' = [st EXCEPT ![g] = s]
    PROVE  StMoves(g, s)
BY Zenon DEF StTyped, StMoves

\* StGoto moves the start machine of g and keeps its fields.
LEMMA StGoes ==
    ASSUME StTyped, NEW g \in Gateways, NEW l \in StartLabel, StGoto(g, l)
    PROVE  /\ \E s \in StartState : StMoves(g, s)
           /\ st'[g].pc = l /\ st'[g].c = st[g].c /\ st'[g].w = st[g].w
           /\ st'[g].pend = st[g].pend /\ st'[g].freed = st[g].freed
<1>1. st[g] \in StartState
  BY Zenon DEF StTyped
<1>2. [st[g] EXCEPT !.pc = l] \in StartState
  BY <1>1, Zenon DEF StartState
<1>3. st' = [st EXCEPT ![g] = [st[g] EXCEPT !.pc = l]]
  BY Zenon DEF StGoto, StTyped
<1>4. StMoves(g, [st[g] EXCEPT !.pc = l])
  BY <1>2, <1>3, StUpdate, Zenon
<1>5. st'[g] = [st[g] EXCEPT !.pc = l]
  BY <1>4, Zenon DEF StMoves
<1> QED BY <1>1, <1>2, <1>4, <1>5, Zenon DEF StartState

\* The same, field by field.
LEMMA StSets ==
    ASSUME StTyped, NEW g \in Gateways, NEW u \in StartState, st' = [st EXCEPT ![g] = u]
    PROVE  StBecomes(g, u.pc, u.c, u.w, u.pend, u.freed)
BY StUpdate, Zenon DEF StMoves, StBecomes

\* g's start machine returns to its first state.
LEMMA StIdles ==
    ASSUME StTyped, NEW g \in Gateways, st' = [st EXCEPT ![g] = Idle]
    PROVE  StBecomes(g, "idle", None, 0, FALSE, FALSE)
<1>1. /\ Idle \in StartState /\ Idle.pc = "idle" /\ Idle.c = None /\ Idle.w = 0
      /\ Idle.pend = FALSE /\ Idle.freed = FALSE
  BY Initial, Zenon DEF Idle
<1>2. StBecomes(g, Idle.pc, Idle.c, Idle.w, Idle.pend, Idle.freed)
  BY <1>1, StSets, Zenon
<1> QED BY <1>1, <1>2, Zenon

\* An update of absent moves nothing.
LEMMA StNotes ==
    ASSUME StTyped, NEW g \in Gateways, st' = [st EXCEPT ![g].absent = TRUE]
    PROVE  StBecomes(g, st[g].pc, st[g].c, st[g].w, st[g].pend, st[g].freed)
<1>1. \A s \in StartState : LET u == [s EXCEPT !.absent = TRUE] IN
         u \in StartState /\ u.pc = s.pc /\ u.c = s.c /\ u.w = s.w /\ u.pend = s.pend /\ u.freed = s.freed
  BY Zenon DEF StartState
<1>2. st \in [Gateways -> StartState] /\ st' = [st EXCEPT ![g] = [st[g] EXCEPT !.absent = TRUE]]
  BY Zenon DEF StTyped
<1>3. PICK u \in StartState : /\ u = [st[g] EXCEPT !.absent = TRUE] /\ u.pc = st[g].pc /\ u.c = st[g].c
                             /\ u.w = st[g].w /\ u.pend = st[g].pend /\ u.freed = st[g].freed
  BY <1>1, <1>2, Zenon
<1>4. StBecomes(g, u.pc, u.c, u.w, u.pend, u.freed)
  BY <1>2, <1>3, StSets, Zenon
<1> QED BY <1>3, <1>4, Zenon

\* StGoto, field by field.
LEMMA StMovesOn ==
    ASSUME StTyped, NEW g \in Gateways, NEW l \in StartLabel, StGoto(g, l)
    PROVE  StBecomes(g, l, st[g].c, st[g].w, st[g].pend, st[g].freed)
BY StGoes, Zenon DEF StMoves, StBecomes

\* Admit gives the start its work id.
LEMMA StAdmits ==
    ASSUME StTyped, NEW g \in Gateways, NEW l \in StartLabel, NEW w \in 0..MaxStarts,
           st' = [st EXCEPT ![g].pc = l, ![g].w = w]
    PROVE  StBecomes(g, l, st[g].c, w, st[g].pend, st[g].freed)
<1>1. \A s \in StartState : LET u == [s EXCEPT !.pc = l, !.w = w] IN
         u \in StartState /\ u.pc = l /\ u.c = s.c /\ u.w = w /\ u.pend = s.pend /\ u.freed = s.freed
  BY Zenon DEF StartState
<1>2. st \in [Gateways -> StartState] /\ st' = [st EXCEPT ![g] = [st[g] EXCEPT !.pc = l, !.w = w]]
  BY Zenon DEF StTyped
<1>3. PICK u \in StartState : /\ u = [st[g] EXCEPT !.pc = l, !.w = w]
                             /\ u.pc = l /\ u.c = st[g].c /\ u.w = w /\ u.pend = st[g].pend
                             /\ u.freed = st[g].freed
  BY <1>1, <1>2, Zenon
<1>4. StBecomes(g, u.pc, u.c, u.w, u.pend, u.freed)
  BY <1>2, <1>3, StSets, Zenon
<1> QED BY <1>3, <1>4, Zenon

\* A cleanup is noted as owed, or as done.
LEMMA StPends ==
    ASSUME StTyped, NEW g \in Gateways, NEW l \in StartLabel, NEW p \in BOOLEAN,
           st' = [st EXCEPT ![g].pc = l, ![g].pend = p]
    PROVE  StBecomes(g, l, st[g].c, st[g].w, p, st[g].freed)
<1>1. \A s \in StartState : LET u == [s EXCEPT !.pc = l, !.pend = p] IN
         u \in StartState /\ u.pc = l /\ u.c = s.c /\ u.w = s.w /\ u.pend = p /\ u.freed = s.freed
  BY Zenon DEF StartState
<1>2. st \in [Gateways -> StartState] /\ st' = [st EXCEPT ![g] = [st[g] EXCEPT !.pc = l, !.pend = p]]
  BY Zenon DEF StTyped
<1>3. PICK u \in StartState : /\ u = [st[g] EXCEPT !.pc = l, !.pend = p]
                             /\ u.pc = l /\ u.c = st[g].c /\ u.w = st[g].w /\ u.pend = p
                             /\ u.freed = st[g].freed
  BY <1>1, <1>2, Zenon
<1>4. StBecomes(g, u.pc, u.c, u.w, u.pend, u.freed)
  BY <1>2, <1>3, StSets, Zenon
<1> QED BY <1>3, <1>4, Zenon

\* The lease is noted as given back.
LEMMA StFrees ==
    ASSUME StTyped, NEW g \in Gateways, NEW l \in StartLabel, NEW f \in BOOLEAN,
           st' = [st EXCEPT ![g].pc = l, ![g].freed = f]
    PROVE  StBecomes(g, l, st[g].c, st[g].w, st[g].pend, f)
<1>1. \A s \in StartState : LET u == [s EXCEPT !.pc = l, !.freed = f] IN
         u \in StartState /\ u.pc = l /\ u.c = s.c /\ u.w = s.w /\ u.pend = s.pend /\ u.freed = f
  BY Zenon DEF StartState
<1>2. st \in [Gateways -> StartState] /\ st' = [st EXCEPT ![g] = [st[g] EXCEPT !.pc = l, !.freed = f]]
  BY Zenon DEF StTyped
<1>3. PICK u \in StartState : /\ u = [st[g] EXCEPT !.pc = l, !.freed = f]
                             /\ u.pc = l /\ u.c = st[g].c /\ u.w = st[g].w /\ u.pend = st[g].pend /\ u.freed = f
  BY <1>1, <1>2, Zenon
<1>4. StBecomes(g, u.pc, u.c, u.w, u.pend, u.freed)
  BY <1>2, <1>3, StSets, Zenon
<1> QED BY <1>3, <1>4, Zenon

\* An assignment to the state of one gateway's sweep changes no other's.
LEMMA SwUpdate ==
    ASSUME Types, NEW g \in Gateways, NEW s \in SweepState, sw' = [sw EXCEPT ![g] = s]
    PROVE  SwMoves(g, s)
BY Zenon DEF Types, SwMoves

\* SwGoto moves the sweep of g and keeps its fields.
LEMMA SwGoes ==
    ASSUME Types, NEW g \in Gateways, NEW l \in SweepLabel, SwGoto(g, l)
    PROVE  /\ \E s \in SweepState : SwMoves(g, s)
           /\ sw'[g].pc = l /\ sw'[g].todo = sw[g].todo /\ sw'[g].rec = sw[g].rec
<1>1. sw[g] \in SweepState
  BY Zenon DEF Types
<1>2. [sw[g] EXCEPT !.pc = l] \in SweepState
  BY <1>1, Zenon DEF SweepState
<1>3. sw' = [sw EXCEPT ![g] = [sw[g] EXCEPT !.pc = l]]
  BY Zenon DEF SwGoto, Types
<1>4. SwMoves(g, [sw[g] EXCEPT !.pc = l])
  BY <1>2, <1>3, SwUpdate, Zenon
<1>5. sw'[g] = [sw[g] EXCEPT !.pc = l]
  BY <1>4, Zenon DEF SwMoves
<1> QED BY <1>1, <1>2, <1>4, <1>5, Zenon DEF SweepState

\* persist leaves one write under way in g, and none elsewhere.
LEMMA Persists ==
    ASSUME Types, NEW g \in Gateways, NEW r \in Record, Persist(g, r)
    PROVE  /\ wr' \in [Gateways -> Write \cup {None}]
           /\ wr'[g] # None /\ wr'[g].rec = r /\ wr'[g].to = "client"
           /\ \A h \in Gateways : h # g => wr'[h] = wr[h]
<1>1. [to |-> "client", rec |-> r] \in Write
  BY Zenon DEF Write
<1>2. [to |-> "client", rec |-> r] # None
  BY <1>1, CodeLoopAssumption, Zenon
<1>3. wr \in [Gateways -> Write \cup {None}]
  BY Zenon DEF Types
<1> QED BY <1>1, <1>2, <1>3, Zenon DEF Persist

\* A handler that resumes runs in none of the other's synchronous stretches.
LEMMA Resumes ==
    ASSUME NEW g \in Gateways, Place(g)
    PROVE  /\ Free(g) => alive[g] /\ wr[g] = None /\ st[g].pc \notin StartSync
           /\ \A l \in SweepLabel : SwAt(g, l) => /\ sw[g].pc = l /\ alive[g] /\ wr[g] = None
                                                  /\ st[g].pc \notin StartSync
           /\ \A l \in StartLabel : StAt(g, l) => /\ st[g].pc = l /\ alive[g] /\ wr[g] = None
                                                  /\ sw[g].pc \notin SweepSync
BY Zenon DEF Place, Free, SwAt, StAt

\* readDurableCodeLoopRunByWork returns a bound record, as it is on disk.
LEMMA ByWorkFacts ==
    ASSUME Types, Records, NEW w, ByWork(w) # None
    PROVE  /\ ByWork(w) \in Record /\ ByWork(w).w = w /\ IsRecord(ByWork(w))
           /\ ByWork(w) = client[ByWork(w).c] /\ Bound(ByWork(w)) /\ Known(ByWork(w))
<1> DEFINE P(c) == IsRecord(client[c]) /\ client[c].w = w
<1>1. \E c \in Clients : P(c)
  BY Zenon DEF ByWork
<1>2. ByWork(w) = client[CHOOSE c \in Clients : P(c)]
  BY Zenon DEF ByWork
<1>3. PICK c \in Clients : ByWork(w) = client[c] /\ P(c)
  BY <1>1, <1>2, Zenon
<1>4. client[c] \in Record
  <2>1. client[c] \in Record \cup {None, Torn}
    BY Zenon DEF Types
  <2> QED BY <1>3, <2>1, RecordFacts, Zenon
<1>5. client[c].c = c /\ Known(client[c])
  BY <1>3, Zenon DEF Records
<1> QED BY <1>3, <1>4, <1>5, Zenon DEF Bound

\* A bound run whose lease has no live owner will not start a unit.
LEMMA NotLive ==
    ASSUME IInv, NEW x \in Record, Bound(x), ~Live(x.w)
    PROVE  Ended(x.w)
<1> SUFFICES ASSUME NEW h \in Gateways, st[h].w = x.w, st[h].pc \notin Late PROVE FALSE
  BY Zenon DEF Ended
<1>1. x.c \in Clients /\ x.w \in WorkIds /\ IsRecord(client[x.c]) /\ client[x.c].w = x.w
  BY RecordFacts, Zenon DEF Bound
<1>2. x.w # 0
  BY <1>1, CodeLoopAssumption DEF WorkIds
<1>3. st[h].pc \notin {"idle", "read"}
  BY <1>2, Zenon DEF IInv, Ids, Numbered
<1>4. st[h].pc \notin {"lease", "admit", "fill", "backout"}
  BY <1>1, Zenon DEF IInv, Run
<1>5. st[h].pc \in StartLabel
  BY Zenon DEF IInv, Types, StartState
<1>6. Holds(h)
  BY <1>3, <1>4, <1>5, Zenon DEF Holds, StartLabel, Late
<1>7. alive[h] /\ lease = MyRow(h)
  BY <1>6, Zenon DEF IInv, Leased
<1>8. MyRow(h) \in Row
  BY <1>1, Zenon DEF MyRow, Row, IInv, Types
<1>9. lease # None
  BY <1>7, <1>8, CodeLoopAssumption, Zenon
<1>10. lease.w = x.w /\ lease.g = h /\ lease.i = inc[h]
  BY <1>7, Zenon DEF MyRow
<1> QED BY <1>7, <1>9, <1>10, Zenon DEF Live, OwnerAlive

\* A record on disk is bound, and true of its run.
LEMMA OnDisk ==
    ASSUME Types, Records, NEW c \in Clients, IsRecord(client[c])
    PROVE  client[c] \in Record /\ client[c].c = c /\ Bound(client[c]) /\ Known(client[c])
<1>1. client[c] \in Record \cup {None, Torn}
  BY Zenon DEF Types
<1>2. client[c] \in Record /\ client[c].c = c /\ Known(client[c])
  BY <1>1, RecordFacts, Zenon DEF Records
<1> QED BY <1>2, Zenon DEF Bound

\* The record that a sweep is handling is bound, and true of its run.
LEMMA InHand ==
    ASSUME Types, Records, NEW g \in Gateways, SweepPlace(g), sw[g].pc \in Handling
    PROVE  sw[g].rec \in Record /\ Bound(sw[g].rec) /\ Known(sw[g].rec)
<1>1. sw[g].rec # None /\ sw[g].rec \in Record \cup {None}
  BY Zenon DEF SweepPlace, Types, SweepState
<1>2. sw[g].rec \in Record
  BY <1>1, Zenon
<1> QED BY <1>1, <1>2, Zenon DEF Records, InMemory

\* The fault budgets stay within their bounds.
LEMMA Faulting ==
    ASSUME Types, Fault \/ StopFault \/ NoFault
    PROVE  faults' \in FaultType
BY CodeLoopAssumption DEF Types, Fault, StopFault, NoFault, FaultType

\* What is unchanged has the type it had.
LEMMA Unmoved ==
    ASSUME Types
    PROVE  /\ \A g \in Gateways : st' = st => StSame(g)
           /\ \A g \in Gateways : sw' = sw => SwOf(g)
           /\ \A g \in Gateways : wr' = wr => WrOf(g)
           /\ jobs' = jobs => jobs' \in JobType
           /\ faults' = faults => faults' \in FaultType
BY Zenon DEF Types, StSame, SwOf, WrOf, JobType, FaultType

\* An update of a sweep, field by field: all of its fields.
LEMMA SwSets ==
    ASSUME Types, NEW g \in Gateways, NEW u \in SweepState, sw' = [sw EXCEPT ![g] = u]
    PROVE  SwBecomes(g, u.pc, u.todo, u.rec)
BY SwUpdate, Zenon DEF SwMoves, SwOf, SwBecomes

\* An update of a sweep: its place and its list.
LEMMA SwLists ==
    ASSUME Types, NEW g \in Gateways,
           NEW l \in SweepLabel, NEW t \in SUBSET (Record \cup WorkIds \cup Clients),
           sw' = [sw EXCEPT ![g].pc = l, ![g].todo = t]
    PROVE  SwBecomes(g, l, t, sw[g].rec)
<1>1. \A s \in SweepState : LET u == [s EXCEPT !.pc = l, !.todo = t] IN
         u \in SweepState /\ u.pc = l /\ u.todo = t /\ u.rec = s.rec
  BY Zenon DEF SweepState
<1>2. sw \in [Gateways -> SweepState] /\ sw' = [sw EXCEPT ![g] = [sw[g] EXCEPT !.pc = l, !.todo = t]]
  BY Zenon DEF Types
<1>3. PICK u \in SweepState :
         u = [sw[g] EXCEPT !.pc = l, !.todo = t] /\ u.pc = l /\ u.todo = t /\ u.rec = sw[g].rec
  BY <1>1, <1>2, Zenon
<1>4. SwBecomes(g, u.pc, u.todo, u.rec)
  BY <1>2, <1>3, SwSets, Zenon
<1> QED BY <1>3, <1>4, Zenon

\* An update of a sweep: its list.
LEMMA SwDrops ==
    ASSUME Types, NEW g \in Gateways, NEW t \in SUBSET (Record \cup WorkIds \cup Clients),
           sw' = [sw EXCEPT ![g].todo = t]
    PROVE  SwBecomes(g, sw[g].pc, t, sw[g].rec)
<1>1. \A s \in SweepState : LET u == [s EXCEPT !.todo = t] IN
         u \in SweepState /\ u.pc = s.pc /\ u.todo = t /\ u.rec = s.rec
  BY Zenon DEF SweepState
<1>2. sw \in [Gateways -> SweepState] /\ sw' = [sw EXCEPT ![g] = [sw[g] EXCEPT !.todo = t]]
  BY Zenon DEF Types
<1>3. PICK u \in SweepState :
         u = [sw[g] EXCEPT !.todo = t] /\ u.pc = sw[g].pc /\ u.todo = t /\ u.rec = sw[g].rec
  BY <1>1, <1>2, Zenon
<1>4. SwBecomes(g, u.pc, u.todo, u.rec)
  BY <1>2, <1>3, SwSets, Zenon
<1> QED BY <1>3, <1>4, Zenon

\* An update of a sweep: its place, its list and the record it handles.
LEMMA SwTakes ==
    ASSUME Types, NEW g \in Gateways,
           NEW l \in SweepLabel, NEW t \in SUBSET (Record \cup WorkIds \cup Clients),
           NEW r \in Record \cup {None},
           sw' = [sw EXCEPT ![g].pc = l, ![g].todo = t, ![g].rec = r]
    PROVE  SwBecomes(g, l, t, r)
<1>1. \A s \in SweepState : LET u == [s EXCEPT !.pc = l, !.todo = t, !.rec = r] IN
         u \in SweepState /\ u.pc = l /\ u.todo = t /\ u.rec = r
  BY Zenon DEF SweepState
<1>2. sw \in [Gateways -> SweepState] /\ sw' = [sw EXCEPT ![g] = [sw[g] EXCEPT !.pc = l, !.todo = t, !.rec = r]]
  BY Zenon DEF Types
<1>3. PICK u \in SweepState :
         u = [sw[g] EXCEPT !.pc = l, !.todo = t, !.rec = r] /\ u.pc = l /\ u.todo = t /\ u.rec = r
  BY <1>1, <1>2, Zenon
<1>4. SwBecomes(g, u.pc, u.todo, u.rec)
  BY <1>2, <1>3, SwSets, Zenon
<1> QED BY <1>3, <1>4, Zenon

\* The same, written in another order.
LEMMA SwReads ==
    ASSUME Types, NEW g \in Gateways,
           NEW t \in SUBSET (Record \cup WorkIds \cup Clients), NEW r \in Record \cup {None},
           NEW l \in SweepLabel,
           sw' = [sw EXCEPT ![g].todo = t, ![g].rec = r, ![g].pc = l]
    PROVE  SwBecomes(g, l, t, r)
<1>1. \A s \in SweepState : LET u == [s EXCEPT !.todo = t, !.rec = r, !.pc = l] IN
         u \in SweepState /\ u.pc = l /\ u.todo = t /\ u.rec = r
  BY Zenon DEF SweepState
<1>2. sw \in [Gateways -> SweepState] /\ sw' = [sw EXCEPT ![g] = [sw[g] EXCEPT !.todo = t, !.rec = r, !.pc = l]]
  BY Zenon DEF Types
<1>3. PICK u \in SweepState :
         u = [sw[g] EXCEPT !.todo = t, !.rec = r, !.pc = l] /\ u.pc = l /\ u.todo = t /\ u.rec = r
  BY <1>1, <1>2, Zenon
<1>4. SwBecomes(g, u.pc, u.todo, u.rec)
  BY <1>2, <1>3, SwSets, Zenon
<1> QED BY <1>3, <1>4, Zenon

\* An update of a sweep: the record it handles, what it has seen and its place.
LEMMA SwStops ==
    ASSUME Types, NEW g \in Gateways,
           NEW r \in Record \cup {None}, NEW n \in SUBSET WorkIds, NEW l \in SweepLabel,
           sw' = [sw EXCEPT ![g].rec = r, ![g].seen = n, ![g].pc = l]
    PROVE  SwBecomes(g, l, sw[g].todo, r)
<1>1. \A s \in SweepState : LET u == [s EXCEPT !.rec = r, !.seen = n, !.pc = l] IN
         u \in SweepState /\ u.pc = l /\ u.todo = s.todo /\ u.rec = r
  BY Zenon DEF SweepState
<1>2. sw \in [Gateways -> SweepState] /\ sw' = [sw EXCEPT ![g] = [sw[g] EXCEPT !.rec = r, !.seen = n, !.pc = l]]
  BY Zenon DEF Types
<1>3. PICK u \in SweepState :
         u = [sw[g] EXCEPT !.rec = r, !.seen = n, !.pc = l] /\ u.pc = l /\ u.todo = sw[g].todo /\ u.rec = r
  BY <1>1, <1>2, Zenon
<1>4. SwBecomes(g, u.pc, u.todo, u.rec)
  BY <1>2, <1>3, SwSets, Zenon
<1> QED BY <1>3, <1>4, Zenon

\* An update of a sweep: its place and the record it handles.
LEMMA SwNotes ==
    ASSUME Types, NEW g \in Gateways, NEW l \in SweepLabel, NEW r \in Record \cup {None},
           sw' = [sw EXCEPT ![g].pc = l, ![g].rec = r]
    PROVE  SwBecomes(g, l, sw[g].todo, r)
<1>1. \A s \in SweepState : LET u == [s EXCEPT !.pc = l, !.rec = r] IN
         u \in SweepState /\ u.pc = l /\ u.todo = s.todo /\ u.rec = r
  BY Zenon DEF SweepState
<1>2. sw \in [Gateways -> SweepState] /\ sw' = [sw EXCEPT ![g] = [sw[g] EXCEPT !.pc = l, !.rec = r]]
  BY Zenon DEF Types
<1>3. PICK u \in SweepState :
         u = [sw[g] EXCEPT !.pc = l, !.rec = r] /\ u.pc = l /\ u.todo = sw[g].todo /\ u.rec = r
  BY <1>1, <1>2, Zenon
<1>4. SwBecomes(g, u.pc, u.todo, u.rec)
  BY <1>2, <1>3, SwSets, Zenon
<1> QED BY <1>3, <1>4, Zenon

\* An update of a sweep: its place and what it has seen.
LEMMA SwSees ==
    ASSUME Types, NEW g \in Gateways, NEW l \in SweepLabel, NEW n \in SUBSET WorkIds,
           sw' = [sw EXCEPT ![g].pc = l, ![g].seen = n]
    PROVE  SwBecomes(g, l, sw[g].todo, sw[g].rec)
<1>1. \A s \in SweepState : LET u == [s EXCEPT !.pc = l, !.seen = n] IN
         u \in SweepState /\ u.pc = l /\ u.todo = s.todo /\ u.rec = s.rec
  BY Zenon DEF SweepState
<1>2. sw \in [Gateways -> SweepState] /\ sw' = [sw EXCEPT ![g] = [sw[g] EXCEPT !.pc = l, !.seen = n]]
  BY Zenon DEF Types
<1>3. PICK u \in SweepState :
         u = [sw[g] EXCEPT !.pc = l, !.seen = n] /\ u.pc = l /\ u.todo = sw[g].todo /\ u.rec = sw[g].rec
  BY <1>1, <1>2, Zenon
<1>4. SwBecomes(g, u.pc, u.todo, u.rec)
  BY <1>2, <1>3, SwSets, Zenon
<1> QED BY <1>3, <1>4, Zenon

\* An update of a sweep: its place, its list and what it has seen.
LEMMA SwTurns ==
    ASSUME Types, NEW g \in Gateways,
           NEW l \in SweepLabel, NEW t \in SUBSET (Record \cup WorkIds \cup Clients), NEW n \in SUBSET WorkIds,
           sw' = [sw EXCEPT ![g].pc = l, ![g].todo = t, ![g].seen = n]
    PROVE  SwBecomes(g, l, t, sw[g].rec)
<1>1. \A s \in SweepState : LET u == [s EXCEPT !.pc = l, !.todo = t, !.seen = n] IN
         u \in SweepState /\ u.pc = l /\ u.todo = t /\ u.rec = s.rec
  BY Zenon DEF SweepState
<1>2. sw \in [Gateways -> SweepState] /\ sw' = [sw EXCEPT ![g] = [sw[g] EXCEPT !.pc = l, !.todo = t, !.seen = n]]
  BY Zenon DEF Types
<1>3. PICK u \in SweepState :
         u = [sw[g] EXCEPT !.pc = l, !.todo = t, !.seen = n] /\ u.pc = l /\ u.todo = t /\ u.rec = sw[g].rec
  BY <1>1, <1>2, Zenon
<1>4. SwBecomes(g, u.pc, u.todo, u.rec)
  BY <1>2, <1>3, SwSets, Zenon
<1> QED BY <1>3, <1>4, Zenon

\* What the sweep of g holds when it resumes.
LEMMA SweepAt ==
    ASSUME IInv, NEW g \in Gateways, NEW l \in SweepLabel, SwAt(g, l)
    PROVE  /\ Types /\ Records /\ SweepPlace(g)
           /\ sw[g].pc = l /\ alive[g] /\ wr[g] = None /\ st[g].pc \notin StartSync
           /\ l \in Listing => sw[g].todo \subseteq Record /\ \A x \in sw[g].todo : Bound(x) /\ Known(x)
           /\ IF l \in Handling THEN sw[g].rec \in Record /\ Bound(sw[g].rec) /\ Known(sw[g].rec)
                                ELSE sw[g].rec = None
<1>1. Types /\ Records /\ Place(g) /\ SweepPlace(g)
  BY Zenon DEF IInv
<1>2. sw[g].pc = l /\ alive[g] /\ wr[g] = None /\ st[g].pc \notin StartSync
  BY <1>1, Resumes, Zenon
<1>3. l \in Listing => sw[g].todo \subseteq Record
  BY <1>1, <1>2, Zenon DEF SweepPlace
<1>4. l \in Listing => \A x \in sw[g].todo : Bound(x) /\ Known(x)
  BY <1>1, <1>2, <1>3, Zenon DEF Records, InMemory
<1>5. l \notin Handling => sw[g].rec = None
  BY <1>1, <1>2, Zenon DEF SweepPlace
<1> QED BY <1>1, <1>2, <1>3, <1>4, <1>5, InHand, Zenon

\* What holds when the run of g resumes.
LEMMA RunAt ==
    ASSUME IInv, NEW g \in Gateways, NEW l \in StartLabel, StAt(g, l)
    PROVE  /\ Types /\ Ids /\ Records /\ Place(g) /\ SweepPlace(g) /\ Leased(g) /\ Run(g)
           /\ st[g].pc = l /\ alive[g] /\ wr[g] = None /\ sw[g].pc \notin SweepSync
           /\ l # "idle" => st[g].c \in Clients
           /\ l \notin {"idle", "read"} => st[g].w \in 1..minted /\ st[g].w \in WorkIds
<1>1. Types /\ Ids /\ Records /\ Place(g) /\ SweepPlace(g) /\ Leased(g) /\ Run(g)
  BY Zenon DEF IInv
<1>2. st[g].pc = l /\ alive[g] /\ wr[g] = None /\ sw[g].pc \notin SweepSync
  BY <1>1, Resumes, Zenon
<1>3. l # "idle" => st[g].c \in Clients
  BY <1>1, <1>2, Zenon DEF Place
<1>4. l \notin {"idle", "read"} => st[g].w \in 1..minted
  BY <1>1, <1>2, Zenon DEF Ids, Numbered
<1>5. 1..minted \subseteq WorkIds
  BY <1>1, CodeLoopAssumption DEF Types, WorkIds
<1> QED BY <1>1, <1>2, <1>3, <1>4, <1>5, Zenon

-----------------------------------------------------------------------------

\* Every step keeps the lease with the run that holds it.
LEMMA LeaseNext == LInv /\ [Next]_vars => LInv'
\* A release deletes no other gateway's row.
<1>KeepsOthers. ASSUME NEW g \in Gateways, NEW h \in Gateways, h # g, Holds(h), Leased(h)
      PROVE  Released(g) = lease
  <2> USE <1>KeepsOthers
  <2>1. lease = MyRow(h) /\ MyRow(h).g = h
    BY Zenon DEF Leased, MyRow
  <2>2. [g |-> g, i |-> inc[g], w |-> st[g].w].g = g
    OBVIOUS
  <2> QED BY <2>1, <2>2, Zenon DEF Released
<1>LeaseMoves. ASSUME LInv, NEW g \in Gateways, NEW l, NEW c, NEW w, NEW p, NEW f, StBecomes(g, l, c, w, p, f),
             UNCHANGED <<alive, inc, crashes>>, minted' \in 0..MaxStarts,
             l \notin {"idle", "read"} => w \in WorkIds,
             \A h \in Gateways : h # g /\ Holds(h) => lease' = lease, Leased(g)'
      PROVE  LInv'
  <2> USE <1>LeaseMoves
  <2>1. StTyped'
    BY Zenon DEF StBecomes, StTyped
  <2>2. \A h \in Gateways : st'[h].pc \notin {"idle", "read"} => st'[h].w \in WorkIds
    BY Zenon DEF StBecomes, LInv
  <2>3. \A h \in Gateways : Leased(h)'
    BY Zenon DEF StBecomes, LInv, Leased, Holds, MyRow
  <2> QED BY <2>1, <2>2, <2>3, Zenon DEF LInv
\* A step under the lease.
<1>LeaseStays. ASSUME LInv, NEW g \in Gateways, NEW l, NEW p, NEW f, StBecomes(g, l, st[g].c, st[g].w, p, f),
             UNCHANGED <<alive, inc, crashes, minted, lease>>, Holds(g)' => Holds(g),
             st[g].pc \notin {"idle", "read"}
      PROVE  LInv'
  <2> USE <1>LeaseStays
  <2>1. Leased(g)'
    BY Zenon DEF LInv, Leased, MyRow, StBecomes
  <2>2. st[g].w \in WorkIds /\ minted \in 0..MaxStarts
    BY Zenon DEF LInv
  <2> QED BY <2>1, <2>2, <1>LeaseMoves, Zenon
<1>LeaseEnds. ASSUME LInv, NEW g \in Gateways, st' = [st EXCEPT ![g] = Idle], lease' \in {lease, Released(g)},
             UNCHANGED <<alive, inc, crashes, minted>>
      PROVE  LInv'
  <2> USE <1>LeaseEnds
  <2>1. StBecomes(g, "idle", None, 0, FALSE, FALSE)
    BY StIdles, Zenon DEF LInv
  <2>2. \A h \in Gateways : h # g /\ Holds(h) => lease' = lease
    BY <1>KeepsOthers, Zenon DEF LInv
  <2>3. Leased(g)' /\ minted' \in 0..MaxStarts
    BY <2>1, Zenon DEF LInv, Leased, StBecomes, Holds, Late
  <2> QED BY <2>1, <2>2, <2>3, <1>LeaseMoves, Zenon
\* Every step that leaves the runs where they are.
<1>LeaseIdle. ASSUME LInv, UNCHANGED <<inc, crashes, minted, lease, st>>, alive' \in [Gateways -> BOOLEAN],
             \A g \in Gateways : alive[g] => alive'[g]
      PROVE  LInv'
  BY <1>LeaseIdle, Zenon DEF LInv, StTyped, Leased, Holds, MyRow
\* acquireDurableCodeLoopLease takes no live owner's row.
<1>LeaseWon. ASSUME LInv, NEW g \in Gateways, Acquire(g)
      PROVE  LInv'
  <2> USE <1>LeaseWon
  <2>1. StAt(g, "lease") /\ UNCHANGED <<alive, inc, crashes, minted>>
    BY Zenon DEF Acquire, budget
  <2>2. st[g].pc = "lease" /\ alive[g] /\ st[g].w \in WorkIds /\ StTyped /\ minted \in 0..MaxStarts
    BY <2>1, Zenon DEF StAt, LInv
  <2>3. CASE ~(lease = None \/ (lease.g = g /\ lease.i = inc[g]) \/ ~OwnerAlive)
    BY <2>1, <2>3, <1>LeaseEnds, Zenon DEF Acquire
  <2>4. CASE lease = None \/ (lease.g = g /\ lease.i = inc[g]) \/ ~OwnerAlive
    <3>1. lease' = MyRow(g) /\ StGoto(g, "admit")
      BY <2>4, Zenon DEF Acquire, MyRow
    <3>2. StBecomes(g, "admit", st[g].c, st[g].w, st[g].pend, st[g].freed)
      BY <2>2, <3>1, StMovesOn, Zenon DEF StartLabel
    <3>3. Leased(g)'
      BY <2>1, <2>2, <3>1, <3>2, Zenon DEF Leased, MyRow, StBecomes
    <3>4. ASSUME NEW h \in Gateways, h # g, Holds(h) PROVE FALSE
      <4>1. lease = MyRow(h) /\ alive[h] /\ st[h].w \in WorkIds /\ inc[h] \in 0..MaxCrash
        BY <3>4, Zenon DEF LInv, Leased, Holds, Late
      <4>2. MyRow(h) \in Row /\ MyRow(h).g = h /\ MyRow(h).i = inc[h]
        BY <4>1, Zenon DEF MyRow, Row
      <4>3. MyRow(h) # None
        BY <4>2, CodeLoopAssumption, Zenon
      <4> QED BY <2>4, <3>4, <4>1, <4>2, <4>3, Zenon DEF OwnerAlive
    <3> QED BY <2>1, <2>2, <3>2, <3>3, <3>4, <1>LeaseMoves, Zenon
  <2> QED BY <2>3, <2>4, Zenon
<1>LeaseRuns. ASSUME LInv, NEW g \in Gateways,
             Refuse(g) \/ Claim(g) \/ Fill(g) \/ Index(g) \/ EngineStart(g) \/ EngineEnd(g) \/ CheckEnd(g)
             \/ Harvest(g)
      PROVE  LInv'
  <2> USE <1>LeaseRuns
  <2>1. st[g].pc \in Holding /\ UNCHANGED <<alive, inc, crashes, minted, lease>>
    BY Zenon DEF Refuse, Claim, Fill, Index, EngineStart, EngineEnd, CheckEnd, Harvest, CleanupUnit, StAt,
       Holding, budget
  <2>2. \E l \in StartLabel : StGoto(g, l) \/ \E p \in BOOLEAN : st' = [st EXCEPT ![g].pc = l, ![g].pend = p]
    <3>1. CASE Refuse(g) \/ Claim(g) \/ Fill(g) \/ EngineStart(g) \/ Harvest(g)
      BY <3>1, Zenon DEF Refuse, Claim, Fill, EngineStart, Harvest, StartLabel
    <3>2. CASE Index(g) \/ EngineEnd(g) \/ CheckEnd(g)
      BY <3>2, Zenon DEF Index, EngineEnd, CheckEnd, CleanupUnit, StartLabel
    <3> QED BY <3>1, <3>2, Zenon
  <2>3. PICK l, p, f : l \in StartLabel /\ StBecomes(g, l, st[g].c, st[g].w, p, f)
    BY <2>2, StMovesOn, StPends, Zenon DEF LInv
  <2>4. Holds(g) /\ st[g].pc \notin {"idle", "read"}
    BY <2>1, Zenon DEF Holding, Holds
  <2> QED BY <2>1, <2>3, <2>4, <1>LeaseStays, Zenon
<1>LeaseCloses. ASSUME LInv, NEW g \in Gateways, Finalize(g) \/ Publish(g) \/ Settle(g) \/ Backout(g)
      PROVE  LInv'
  <2> USE <1>LeaseCloses
  <2>1. UNCHANGED <<alive, inc, crashes, minted>> /\ StTyped /\ minted \in 0..MaxStarts
    BY Zenon DEF Finalize, Publish, Settle, Backout, LInv
  <2>2. st[g].pc \in {"final", "publish", "settle", "backout"} /\ st[g].w \in WorkIds
    <3>1. st[g].pc \in {"final", "publish", "settle", "backout"}
      BY Zenon DEF Finalize, Publish, Settle, Backout, StAt
    <3> QED BY <3>1, Zenon DEF LInv
  <2>3. CASE (Settle(g) \/ Backout(g)) /\ st' = [st EXCEPT ![g] = Idle]
    <3>1. lease' \in {lease, Released(g)}
      BY <2>3, Zenon DEF Settle, Backout
    <3> QED BY <2>1, <2>3, <3>1, <1>LeaseEnds, Zenon
  <2>4. CASE Finalize(g) /\ lease' = Released(g) /\ st' = [st EXCEPT ![g].pc = "publish", ![g].freed = TRUE]
    <3>1. StBecomes(g, "publish", st[g].c, st[g].w, st[g].pend, TRUE)
      BY <2>1, <2>4, StFrees, Zenon DEF StartLabel
    <3>2. Leased(g)'
      BY <3>1, Zenon DEF Leased, Holds, Late, StBecomes
    <3>3. \A h \in Gateways : h # g /\ Holds(h) => lease' = lease
      BY <2>4, <1>KeepsOthers, Zenon DEF LInv
    <3> QED BY <2>1, <2>2, <3>1, <3>2, <3>3, <1>LeaseMoves, Zenon
  <2>5. CASE /\ lease' = lease /\ \E l \in Late : StGoto(g, l)
             /\ st[g].pc = "final" \/ st[g].pc \in Late
    <3>1. PICK l \in Late : StGoto(g, l)
      BY <2>5, Zenon
    <3>2. StBecomes(g, l, st[g].c, st[g].w, st[g].pend, st[g].freed)
      BY <2>1, <3>1, StMovesOn, Zenon DEF StartLabel, Late
    <3>3. Holds(g)' => Holds(g)
      BY <2>5, <3>2, Zenon DEF Holds, StBecomes, Late
    <3> QED BY <2>1, <2>2, <2>5, <3>2, <3>3, <1>LeaseStays, Zenon DEF Late
  <2> QED BY <2>3, <2>4, <2>5, Zenon DEF Finalize, Publish, Settle, Backout, StAt, Late
<1>LeaseStarts. ASSUME LInv, NEW g \in Gateways, Admit(g) \/ \E c \in Clients : Start(g, c)
      PROVE  LInv'
  <2> USE <1>LeaseStarts
  <2>1. UNCHANGED <<alive, inc, crashes, lease>> /\ StTyped /\ minted \in 0..MaxStarts
    BY Zenon DEF Admit, Start, LInv, budget
  <2>2. CASE \E c \in Clients : Start(g, c)
    <3>1. PICK c \in Clients : Start(g, c)
      BY <2>2, Zenon
    <3>2. PICK u \in StartState : u = [Idle EXCEPT !.pc = "read", !.c = c] /\ u.pc = "read"
      <4>1. \A s \in StartState : LET u == [s EXCEPT !.pc = "read", !.c = c] IN u \in StartState
            /\ u.pc = "read"
        BY Zenon DEF StartState, StartLabel
      <4> QED BY <4>1, Initial, Zenon
    <3>3. StBecomes(g, "read", u.c, u.w, u.pend, u.freed)
      BY <2>1, <3>1, <3>2, StSets, ZenonT(30) DEF Start
    <3>4. Leased(g)' /\ minted' = minted
      BY <3>1, <3>3, Zenon DEF Leased, Holds, Late, StBecomes, Start
    <3> QED BY <2>1, <3>3, <3>4, <1>LeaseMoves, Zenon
  <2>3. CASE Admit(g) /\ st' = [st EXCEPT ![g] = Idle] /\ minted' = minted
    BY <2>1, <2>3, <1>LeaseEnds, Zenon
  <2>4. CASE /\ minted < MaxStarts /\ minted' = minted + 1
             /\ st' = [st EXCEPT ![g].pc = "lease", ![g].w = minted + 1]
    <3>1. minted + 1 \in WorkIds /\ minted + 1 \in 0..MaxStarts /\ "lease" \in StartLabel
      BY <2>1, <2>4, CodeLoopAssumption DEF WorkIds, StartLabel
    <3>2. StBecomes(g, "lease", st[g].c, minted + 1, st[g].pend, st[g].freed)
      BY <2>1, <2>4, <3>1, StAdmits, Zenon
    <3>3. Leased(g)'
      BY <3>2, Zenon DEF Leased, Holds, Late, StBecomes
    <3> QED BY <2>1, <2>4, <3>1, <3>2, <3>3, <1>LeaseMoves, Zenon
  <2> QED BY <2>2, <2>3, <2>4, Zenon DEF Admit
<1>LeaseSwept. ASSUME LInv, NEW g \in Gateways,
             SweepHold(g) \/ SweepStop(g) \/ SweepRelease(g, "release", "list")
             \/ SweepRelease(g, "releaseNext", "again")
      PROVE  LInv'
  <2> USE <1>LeaseSwept
  <2>1. UNCHANGED <<alive, inc, crashes, minted>> /\ StTyped
    BY Zenon DEF SweepHold, SweepStop, SweepRelease, LInv
  <2>2. CASE UNCHANGED <<lease, st>>
    BY <2>1, <2>2, <1>LeaseIdle, Zenon DEF LInv
  <2>3. CASE lease' = lease /\ st' = [st EXCEPT ![g].absent = TRUE]
    <3>1. StBecomes(g, st[g].pc, st[g].c, st[g].w, st[g].pend, st[g].freed)
      BY <2>1, <2>3, StNotes, Zenon
    <3>2. Leased(g)' /\ minted' \in 0..MaxStarts /\ (st[g].pc \notin {"idle", "read"} => st[g].w \in WorkIds)
      BY <2>1, <2>3, <3>1, Zenon DEF LInv, Leased, Holds, MyRow, StBecomes
    <3> QED BY <2>1, <2>3, <3>1, <3>2, <1>LeaseMoves, Zenon
  <2>4. CASE lease' = Released(g) /\ st' = [st EXCEPT ![g] = Idle]
    BY <2>1, <2>4, <1>LeaseEnds, Zenon
  <2>5. SweepHold(g) \/ SweepStop(g) => lease' = lease /\ (st' = st \/ st' = [st EXCEPT ![g].absent = TRUE])
    BY Zenon DEF SweepHold, SweepStop, StopFails
  <2> QED BY <2>2, <2>3, <2>4, <2>5, Zenon DEF SweepRelease
\* No other step touches the lease or a run.
<1>LeaseUntouched. ASSUME LInv, NEW g \in Gateways,
             \/ \E c \in Clients : Retry(g, c) \/ FailClosed(g, c)
             \/ SweepStart(g) \/ SweepList(g) \/ SweepPending(g) \/ SweepNext(g) \/ SweepCompact(g)
             \/ SweepDirs(g) \/ SweepDir(g) \/ SweepDirStop(g) \/ SweepOrphan(g) \/ SweepOrphanStop(g)
             \/ SweepMark(g) \/ SweepReclaim(g) \/ SweepUnowned(g) \/ SweepUnownedLive(g)
             \/ WriteStep(g) \/ Boot(g)
      PROVE  LInv'
  <2> USE <1>LeaseUntouched
  <2>1. UNCHANGED <<inc, crashes, minted, lease, st>>
    BY Zenon DEF Retry, FailClosed, SweepStart, SweepList, SweepPending, SweepNext, SweepCompact, SweepDirs, SweepDir,
       SweepDirStop, StopFails, SweepOrphan, SweepOrphanStop, SweepMark, SweepReclaim, SweepUnowned,
       SweepUnownedLive, WriteStep, ReplaceClient, ReplaceCopy, Boot, budget
  <2>2. alive' = alive \/ alive' = [alive EXCEPT ![g] = TRUE]
    BY Zenon DEF Retry, FailClosed, SweepStart, SweepList, SweepPending, SweepNext, SweepCompact, SweepDirs, SweepDir,
       SweepDirStop, SweepOrphan, SweepOrphanStop, SweepMark, SweepReclaim, SweepUnowned, SweepUnownedLive,
       WriteStep, ReplaceClient, ReplaceCopy, Boot
  <2>3. alive' \in [Gateways -> BOOLEAN] /\ \A h \in Gateways : alive[h] => alive'[h]
    BY <2>2, Zenon DEF LInv
  <2> QED BY <2>1, <2>3, <1>LeaseIdle, Zenon
\* A unit that ends, time that passes, a step that changes nothing; a crash.
<1>LeaseOutside. ASSUME LInv, (\E w \in WorkIds : UnitExit(w) \/ Expire(w)) \/ UNCHANGED vars
      PROVE  LInv'
  <2> USE <1>LeaseOutside
  <2>1. UNCHANGED <<alive, inc, crashes, minted, lease, st>>
    BY Zenon DEF UnitExit, Expire, vars, budget
  <2> QED BY <2>1, <1>LeaseIdle, Zenon DEF LInv
<1>LeaseLost. ASSUME LInv, NEW g \in Gateways, Crash(g)
      PROVE  LInv'
  <2> USE <1>LeaseLost
  <2>1. StTyped /\ alive \in [Gateways -> BOOLEAN] /\ inc \in [Gateways -> 0..MaxCrash]
        /\ crashes \in 0..MaxCrash
    BY Zenon DEF LInv
  <2>2. StBecomes(g, "idle", None, 0, FALSE, FALSE)
    BY <2>1, StIdles, Zenon DEF Crash
  <2>3. /\ crashes < MaxCrash /\ crashes' = crashes + 1 /\ inc' = [inc EXCEPT ![g] = inc[g] + 1]
        /\ alive' = [alive EXCEPT ![g] = FALSE] /\ UNCHANGED <<lease, minted>>
    BY Zenon DEF Crash
  <2>4. /\ crashes' \in 0..MaxCrash /\ inc' \in [Gateways -> 0..MaxCrash] /\ alive' \in [Gateways -> BOOLEAN]
        /\ \A h \in Gateways : inc'[h] <= crashes'
    BY <2>1, <2>3, CodeLoopAssumption DEF LInv
  <2>5. \A h \in Gateways : h # g => inc'[h] = inc[h] /\ alive'[h] = alive[h]
    BY <2>1, <2>3, Zenon
  <2>6. \A h \in Gateways : Leased(h)' /\ (st'[h].pc \notin {"idle", "read"} => st'[h].w \in WorkIds)
    BY <2>2, <2>3, <2>5 DEF LInv, Leased, Holds, Late, MyRow, StBecomes
  <2> QED BY <2>2, <2>3, <2>4, <2>6, Zenon DEF LInv, StBecomes, StTyped
<1> QED BY <1>LeaseStarts, <1>LeaseWon, <1>LeaseRuns, <1>LeaseCloses, <1>LeaseSwept, <1>LeaseUntouched,
    <1>LeaseOutside, <1>LeaseLost, Zenon DEF Next, StartStep, SweepStep

\* At first nobody holds the lease.
LEMMA LeaseInit == Init => LInv
<1> SUFFICES ASSUME Init PROVE LInv
  OBVIOUS
<1>1. /\ StTyped /\ inc \in [Gateways -> 0..MaxCrash] /\ crashes \in 0..MaxCrash /\ minted \in 0..MaxStarts
      /\ alive \in [Gateways -> BOOLEAN]
  BY Initial, CodeLoopAssumption DEF Init, StTyped
<1>2. \A g \in Gateways : st[g].pc = "idle" /\ inc[g] <= crashes
  BY Initial DEF Init
<1> QED BY <1>1, <1>2, Zenon DEF LInv, Leased, Holds, Late

\* SingleFlight, for every value of the constants.
THEOREM OneGatewayPastTheLease == Spec => []SingleFlight
<1>1. LInv => SingleFlight
  <2> SUFFICES ASSUME LInv, NEW g \in Gateways, NEW h \in Gateways, Holds(g), Holds(h) PROVE g = h
    BY DEF SingleFlight, Holds
  <2>1. MyRow(g) = MyRow(h)
    BY Zenon DEF LInv, Leased
  <2> QED BY <2>1, Zenon DEF MyRow
<1> QED BY <1>1, LeaseNext, LeaseInit, PTL DEF Spec

-----------------------------------------------------------------------------

\* At most one gateway holds the lease.
LEMMA OneHolder ==
    ASSUME NEW g \in Gateways, NEW h \in Gateways, Leased(g), Leased(h), Holds(g), Holds(h)
    PROVE  g = h
<1>1. MyRow(g) = MyRow(h)
  BY Zenon DEF Leased
<1>2. MyRow(g).g = g /\ MyRow(h).g = h
  BY Zenon DEF MyRow
<1> QED BY <1>1, <1>2, Zenon

\* A run that is over stays so, and its unit is not started again.
LEMMA OverStays ==
    ASSUME Types, NEW g \in Gateways, Advance(g), NEW w \in 1..minted, Ended(w)
    PROVE  Ended(w)' /\ (w \notin units => w \notin units') /\ w <= minted'
<1>1. minted \in Nat /\ w \in Nat /\ w # 0 /\ w <= minted
  BY CodeLoopAssumption DEF Types
<1>2. ASSUME NEW h \in Gateways, st'[h].w = w PROVE st'[h].pc \in Late
  <2>1. CASE h = g
    <3>1. st'[g].w = st[g].w /\ (st[g].pc \in Late => st'[g].pc \in Late)
      BY <1>1, <1>2, <2>1 DEF Advance
    <3> QED BY <1>2, <2>1, <3>1, Zenon DEF Ended
  <2>2. CASE h # g
    BY <1>2, <2>2, Zenon DEF Advance, Ended
  <2> QED BY <2>1, <2>2, Zenon
<1>3. w \notin units => w \notin units'
  <2>1. st[g].w = w => st[g].pc \notin {"run", "harvest"}
    BY Zenon DEF Ended, Late
  <2> QED BY <2>1, Zenon DEF Advance
<1>4. w <= minted'
  BY <1>1 DEF Advance
<1> QED BY <1>2, <1>3, <1>4, Zenon DEF Ended

\* What a record says of its run stays true of it.
LEMMA KnownStays ==
    ASSUME Types, NEW g \in Gateways, Advance(g), NEW x \in Record, Known(x)
    PROVE  Known(x)' /\ x.w \in 1..minted
<1>1. x.w \in 1..minted
  BY RecordFacts, CodeLoopAssumption DEF Known, WorkIds, Types
<1>2. Ended(x.w) => Ended(x.w)' /\ (x.w \notin units => x.w \notin units')
  BY <1>1, OverStays, Zenon
<1>3. x.w <= minted'
  <2>1. minted \in Nat /\ (minted' = minted \/ minted' = minted + 1)
    BY CodeLoopAssumption DEF Types, Advance
  <2> QED BY <1>1, <2>1
<1> QED BY <1>1, <1>2, <1>3, Zenon DEF Known

\* What a step of a run has to show, for the invariant to be kept.
LEMMA AdvanceKeeps ==
    \A g \in Gateways :
        /\ IInv /\ Advance(g) /\ Types' /\ alive[g] /\ st'[g].pc # "index"
        /\ Numbered(g)' /\ Place(g)' /\ SweepPlace(g)' /\ Leased(g)' /\ Run(g)'
        /\ \A x \in Record : InMemory(g, x)' => InMemory(g, x) \/ (Bound(x)' /\ Known(x)')
        => IInv'
<1>SameRecords. ASSUME Types, NEW g \in Gateways, Advance(g)
      PROVE  /\ \A c \in Clients : IsRecord(client[c])' <=> IsRecord(client[c])
             /\ \A c \in Clients : IsRecord(client[c]) => client'[c] = client[c] /\ client[c] \in Record
             /\ \A x \in Record : Bound(x) => Bound(x)'
  <2> USE <1>SameRecords
  <2>1. \A c \in Clients : IsRecord(client[c]) => client'[c] = client[c]
    BY Zenon DEF Advance
  <2>2. \A c \in Clients : client[c] \in Record \cup {None, Torn}
    BY Zenon DEF Types
  <2>3. \A c \in Clients : IsRecord(client[c])' <=> IsRecord(client[c])
    BY Zenon DEF Advance, IsRecord
  <2>4. \A x \in Record : x.c \in Clients
    BY RecordFacts, Zenon
  <2>5. \A x \in Record : Bound(x) => Bound(x)'
    BY <2>1, <2>3, <2>4, Zenon DEF Bound
  <2> QED BY <2>1, <2>2, <2>3, <2>5, RecordFacts, Zenon
<1>AdvanceIds. ASSUME Types, Ids, NEW g \in Gateways, Advance(g), Numbered(g)'
      PROVE  Ids'
  <2> USE <1>AdvanceIds
  <2>1. minted \in Nat /\ (minted' = minted \/ minted' = minted + 1)
    BY CodeLoopAssumption DEF Types, Advance
  <2>2. \A h \in Gateways : h # g => st'[h] = st[h]
    BY Zenon DEF Advance
  <2>3. ran \subseteq 1..minted /\ units \subseteq ran
    BY Zenon DEF Ids
  <2>4. ASSUME NEW h \in Gateways PROVE Numbered(h)'
    <3>1. CASE h # g
      <4>1. Numbered(h)
        BY Zenon DEF Ids
      <4> QED BY <2>1, <2>2, <3>1, <4>1 DEF Numbered
    <3> QED BY <3>1, Zenon
  <2>5. ASSUME NEW h \in Gateways, NEW i \in Gateways, st'[h].w = st'[i].w PROVE h = i \/ st'[h].w = 0
    <3>1. \A j \in Gateways : st[j].w \in 0..minted
      BY <2>1 DEF Ids, Numbered
    <3>2. \A j \in Gateways : st[j].w = st[g].w => j = g \/ st[j].w = 0
      BY Zenon DEF Ids
    <3>3. ASSUME NEW j \in Gateways, j # g, st'[j].w = st'[g].w PROVE st'[g].w = 0
      <4>1. st'[j].w = st[j].w
        BY <2>2, <3>3, Zenon
      <4> QED BY <2>1, <3>1, <3>2, <3>3, <4>1 DEF Advance
    <3>4. CASE h # g /\ i # g
      BY <2>2, <2>5, <3>4, Zenon DEF Ids
    <3> QED BY <2>5, <3>3, <3>4, Zenon
  <2>6. \A w \in ran' : w \in 1..minted'
    <3>1. st[g].pc \in {"run", "harvest"} => st[g].w \in 1..minted
      BY Zenon DEF Ids, Numbered
    <3>2. \A w \in ran' : w \in 1..minted
      BY <2>3, <3>1, Zenon DEF Advance
    <3> QED BY <2>1, <3>2
  <2>7. units' \subseteq ran'
    BY <2>3, Zenon DEF Advance
  <2> QED BY <2>4, <2>5, <2>6, <2>7, Zenon DEF Ids
<1>AdvanceRecords. ASSUME Types, Records, NEW g \in Gateways, Advance(g),
             \A x \in Record : InMemory(g, x)' => InMemory(g, x) \/ (Bound(x)' /\ Known(x)')
      PROVE  Records'
  <2> USE <1>AdvanceRecords
  <2>1. \A x \in Record : (Known(x) => Known(x)') /\ (Bound(x) => Bound(x)')
    BY KnownStays, <1>SameRecords, Zenon
  <2>2. \A c \in Clients : IsRecord(client[c])' => IsRecord(client[c]) /\ client'[c] = client[c]
        /\ client[c] \in Record
    BY <1>SameRecords, Zenon
  <2>3. ASSUME NEW c \in Clients, IsRecord(client[c])' PROVE client'[c].c = c /\ Known(client[c])'
    <3>1. client'[c] = client[c] /\ client[c] \in Record /\ client[c].c = c /\ Known(client[c])
      BY <2>2, <2>3, Zenon DEF Records
    <3>2. ASSUME NEW x \in Record, Known(x), x = client'[c] PROVE Known(client[c])'
      BY <2>1, <3>2, Zenon DEF Known
    <3> QED BY <3>1, <3>2, Zenon
  <2>4. ASSUME NEW c \in Clients, NEW d \in Clients, IsRecord(client[c])', IsRecord(client[d])',
               client'[c].w = client'[d].w
        PROVE  c = d
    BY <2>2, <2>4, Zenon DEF Records
  <2>5. ASSUME NEW h \in Gateways, NEW x \in Record, InMemory(h, x)' PROVE Bound(x)' /\ Known(x)'
    <3>1. InMemory(h, x) \/ (Bound(x)' /\ Known(x)')
      <4>1. CASE h = g
        BY <2>5, <4>1, Zenon
      <4>2. CASE h # g
        BY <2>5, <4>2, Zenon DEF InMemory, Advance
      <4> QED BY <4>1, <4>2, Zenon
    <3> QED BY <2>1, <3>1, Zenon DEF Records
  <2> QED BY <2>3, <2>4, <2>5, Zenon DEF Records
<1>AdvanceBound. ASSUME Types, ExecutedIsBound, NEW g \in Gateways, Advance(g), Place(g), Run(g)
      PROVE  ExecutedIsBound'
  <2> USE <1>AdvanceBound
  <2>1. \A c \in Clients : IsRecord(client[c]) => IsRecord(client[c])' /\ client'[c] = client[c]
    BY <1>SameRecords, Zenon
  <2> SUFFICES ASSUME NEW w \in ran' PROVE \E c \in Clients : IsRecord(client[c])' /\ client'[c].w = w
    BY Zenon DEF ExecutedIsBound
  <2>2. CASE w \in ran
    BY <2>1, <2>2, Zenon DEF ExecutedIsBound
  <2>3. CASE w \notin ran
    <3>1. st[g].pc \in {"run", "harvest"} /\ w = st[g].w
      BY <2>3, Zenon DEF Advance
    <3>2. st[g].c \in Clients /\ IsRecord(client[st[g].c]) /\ client[st[g].c].w = w
      BY <3>1, Zenon DEF Run, Place, Started
    <3> QED BY <2>1, <3>2, Zenon
  <2> QED BY <2>2, <2>3, Zenon
\* What the step means for another gateway.
<1>AdvanceSweep. ASSUME Types, Records, NEW g \in Gateways, Advance(g),
             NEW h \in Gateways, h # g, Place(h), SweepPlace(h)
      PROVE  Place(h)' /\ SweepPlace(h)'
  <2> USE <1>AdvanceSweep
  <2>1. st'[h] = st[h] /\ sw'[h] = sw[h] /\ wr'[h] = wr[h] /\ alive' = alive
    BY Zenon DEF Advance
  <2>2. Place(h)'
    BY <2>1, Zenon DEF Place
  <2>3. ASSUME sw[h].pc \in {"stop", "dirStop", "orphanStop", "mark"} PROVE Ended(sw[h].rec.w)'
    <3>1. sw[h].rec # None /\ Ended(sw[h].rec.w)
      BY <2>3, Zenon DEF SweepPlace, Handling
    <3>2. sw[h].rec \in Record
      BY <3>1, Zenon DEF Types, SweepState
    <3>3. Known(sw[h].rec)
      BY <3>1, <3>2, Zenon DEF Records, InMemory
    <3>4. sw[h].rec.w \in 1..minted
      BY <3>2, <3>3, KnownStays, Zenon
    <3>5. \A w \in 1..minted : Ended(w) => Ended(w)'
      BY OverStays, Zenon
    <3>6. ASSUME NEW w \in 1..minted, Ended(w)', w = sw[h].rec.w PROVE Ended(sw[h].rec.w)'
      BY <2>1, <3>6, Zenon DEF Ended
    <3> QED BY <3>1, <3>4, <3>5, <3>6, Zenon
  <2>4. SweepPlace(h)'
    BY <2>1, <2>3, Zenon DEF SweepPlace
  <2> QED BY <2>2, <2>4, Zenon
<1>AdvanceRun. ASSUME Types, Ids, NEW g \in Gateways, Advance(g), Leased(g),
             NEW h \in Gateways, h # g, Place(h), Leased(h), Run(h)
      PROVE  Leased(h)' /\ Run(h)'
  <2> USE <1>AdvanceRun
  <2>1. st'[h] = st[h] /\ inc' = inc /\ alive' = alive /\ (Holds(h) => lease' = lease)
    BY Zenon DEF Advance
  <2>2. Leased(h)'
    BY <2>1, Zenon DEF Leased, Holds, MyRow
  <2>3. \A c \in Clients : IsRecord(client[c])' <=> IsRecord(client[c])
    BY <1>SameRecords, Zenon
  <2>4. \A c \in Clients : IsRecord(client[c]) => client'[c] = client[c]
    BY <1>SameRecords, Zenon
  <2>5. st[h].pc = "fill" => client'[st[h].c] = Torn
    <3>1. st[h].pc = "fill" => Holds(h)
      BY Zenon DEF Holds
    <3>2. st[h].pc = "fill" => client' = client
      BY <3>1, OneHolder, Zenon DEF Advance
    <3> QED BY <3>2, Zenon DEF Run
  <2>6. st[h].pc \notin {"idle", "read"} =>
           /\ st[h].w \notin ran => st[h].w \notin ran'
           /\ st[h].w \notin units => st[h].w \notin units'
    <3>1. st[h].pc \notin {"idle", "read"} => st[h].w # 0
      BY DEF Ids, Numbered
    <3>2. st[h].w = st[g].w => st[h].w = 0
      BY Zenon DEF Ids
    <3> QED BY <3>1, <3>2, Zenon DEF Advance
  <2>7. st[h].pc \in {"lease", "admit", "fill", "backout"} =>
           \A c \in Clients : IsRecord(client[c])' => client'[c].w # st[h].w
    BY <2>3, <2>4, Zenon DEF Run
  <2>8. st[h].pc \in Started => IsRecord(client'[st[h].c]) /\ client'[st[h].c].w = st[h].w
    <3>1. st[h].pc \in Started => st[h].c \in Clients /\ IsRecord(client[st[h].c])
          /\ client[st[h].c].w = st[h].w
      BY Zenon DEF Place, Started, Run
    <3> QED BY <2>4, <3>1, Zenon
  <2>9. Run(h)'
    BY <2>1, <2>5, <2>6, <2>7, <2>8, Zenon DEF Run
  <2> QED BY <2>2, <2>9, Zenon
<1>AdvanceAll. ASSUME IInv, NEW g \in Gateways, Advance(g), Types', alive[g], st'[g].pc # "index", Numbered(g)',
             Place(g)', SweepPlace(g)', Leased(g)', Run(g)',
             \A x \in Record : InMemory(g, x)' => InMemory(g, x) \/ (Bound(x)' /\ Known(x)')
      PROVE  IInv'
  <2> USE <1>AdvanceAll
  <2>1. Types /\ Ids /\ Records /\ Alone /\ ExecutedIsBound
    BY Zenon DEF IInv
  <2>2. \A h \in Gateways : Place(h) /\ SweepPlace(h) /\ Leased(h) /\ Run(h)
    BY Zenon DEF IInv
  <2>3. Ids' /\ Records' /\ ExecutedIsBound'
    <3>1. Ids'
      BY <2>1, <1>AdvanceIds, Zenon
    <3>2. Records'
      BY <2>1, <1>AdvanceRecords, Zenon
    <3>3. ExecutedIsBound'
      BY <2>1, <2>2, <1>AdvanceBound, Zenon
    <3> QED BY <3>1, <3>2, <3>3, Zenon
  <2>4. Alone'
    BY <2>1, Zenon DEF Alone, Advance
  <2>5. ASSUME NEW h \in Gateways PROVE Place(h)' /\ SweepPlace(h)' /\ Leased(h)' /\ Run(h)'
    <3>1. CASE h # g
      BY <2>1, <2>2, <3>1, <1>AdvanceSweep, <1>AdvanceRun, Zenon
    <3> QED BY <3>1, Zenon
  <2>6. ASSUME NEW h \in Gateways PROVE Unread(h)'
    <3> SUFFICES ASSUME ~Rolling, st'[h].pc = "index" PROVE FALSE
      BY Zenon DEF Unread
    <3>1. h # g
      BY Zenon
    <3>2. st[h].pc = "index"
      BY <3>1, Zenon DEF Advance
    <3>3. alive[h]
      BY <2>2, <3>2, Zenon DEF Leased, Holds
    <3> QED BY <2>1, <3>1, <3>3, Zenon DEF Alone
  <2> QED BY <2>3, <2>4, <2>5, <2>6, Zenon DEF IInv
<1> QED BY <1>AdvanceAll, Zenon

\* DurableCodeLoopLease.release takes no other gateway's row.
LEMMA Releasing ==
    ASSUME Types, NEW g \in Gateways
    PROVE  /\ Released(g) \in Row \cup {None}
           /\ \A h \in Gateways : h # g /\ Holds(h) /\ Leased(h) => Released(g) = lease
<1>1. Released(g) \in Row \cup {None}
  BY Zenon DEF Released, Types
<1>2. ASSUME NEW h \in Gateways, h # g, Holds(h), Leased(h) PROVE Released(g) = lease
  <2>1. lease = MyRow(h) /\ MyRow(h).g = h
    BY <1>2, Zenon DEF Leased, MyRow
  <2>2. [g |-> g, i |-> inc[g], w |-> st[g].w].g = g
    OBVIOUS
  <2> QED BY <1>2, <2>1, <2>2, Zenon DEF Released
<1> QED BY <1>1, <1>2, Zenon

\* A sweep, a retry and the renames they leave.
LEMMA SweepStepKeeps ==
    \A g \in Gateways : IInv /\ (SweepStep(g) \/ WriteStep(g) \/ \E c \in Clients : Retry(g, c) \/ FailClosed(g, c)) => IInv'
<1>AsideRecords. ASSUME Types, Records, ExecutedIsBound, NEW g \in Gateways, Aside(g),
             \A x \in Record : InMemory(g, x)' => InMemory(g, x) \/ (Bound(x) /\ Known(x)')
      PROVE  /\ Records' /\ ExecutedIsBound'
             /\ \A w : Ended(w)' <=> Ended(w)
             /\ \A c \in Clients : IsRecord(client[c])' <=> IsRecord(client[c])
             /\ \A c \in Clients : IsRecord(client[c]) => client'[c].w = client[c].w
             /\ \A c \in Clients : ~IsRecord(client[c]) => client'[c] = client[c]
  <2> USE <1>AsideRecords
  <2>1. \A w : Ended(w)' <=> Ended(w)
    BY Zenon DEF Aside, Ended
  <2>2. \A x : Known(x) => Known(x)'
    BY <2>1, Zenon DEF Aside, Known
  <2>3. \A c \in Clients : IsRecord(client[c])' <=> IsRecord(client[c])
    <3>1. \A c \in Clients : client'[c] = client[c] \/ (client'[c] \in Record /\ IsRecord(client[c]))
      BY Zenon DEF Aside
    <3>2. \A x \in Record : IsRecord(x)
      BY RecordFacts, Zenon
    <3> QED BY <3>1, <3>2, Zenon
  <2>4. \A c \in Clients : IsRecord(client[c]) => client'[c].w = client[c].w
    BY Zenon DEF Aside
  <2>5. \A x \in Record : Bound(x) => Bound(x)'
    <3>1. \A x \in Record : x.c \in Clients
      BY RecordFacts, Zenon
    <3> QED BY <2>3, <2>4, <3>1, Zenon DEF Bound
  <2>6. ASSUME NEW c \in Clients, IsRecord(client[c])' PROVE client'[c].c = c /\ Known(client[c])'
    <3>1. CASE client'[c] = client[c]
      <4>1. client[c].c = c /\ Known(client[c])
        BY <2>3, <2>6, Zenon DEF Records
      <4>2. Known(client'[c]) => Known(client[c])'
        BY <2>2, Zenon DEF Known
      <4> QED BY <3>1, <4>1, <4>2, Zenon
    <3>2. CASE client'[c] # client[c]
      BY <3>2, Zenon DEF Aside
    <3> QED BY <3>1, <3>2, Zenon
  <2>7. ASSUME NEW h \in Gateways, NEW x \in Record, InMemory(h, x)' PROVE Bound(x)' /\ Known(x)'
    <3>1. CASE h = g
      BY <2>2, <2>5, <2>7, <3>1, Zenon DEF Records
    <3>2. CASE h # g
      <4>1. InMemory(h, x)
        BY <2>7, <3>2, Zenon DEF InMemory, Aside
      <4> QED BY <2>2, <2>5, <4>1, Zenon DEF Records
    <3> QED BY <3>1, <3>2, Zenon
  <2>8. ASSUME NEW c \in Clients, NEW d \in Clients, IsRecord(client[c])', IsRecord(client[d])',
               client'[c].w = client'[d].w
        PROVE  c = d
    BY <2>3, <2>4, <2>8, Zenon DEF Records
  <2>9. Records'
    BY <2>6, <2>7, <2>8, Zenon DEF Records
  <2>10. ExecutedIsBound'
    <3>1. ran' = ran
      BY Zenon DEF Aside
    <3> QED BY <2>3, <2>4, <3>1, Zenon DEF ExecutedIsBound
  <2>11. \A c \in Clients : ~IsRecord(client[c]) => client'[c] = client[c]
    BY Zenon DEF Aside
  <2> QED BY <2>1, <2>3, <2>4, <2>9, <2>10, <2>11, Zenon
<1>AsideRun. ASSUME NEW g \in Gateways, Aside(g), NEW h \in Gateways, Place(h), Leased(h), Run(h),
             st[g].pc \notin StartSync, alive[g],
             \A c \in Clients : IsRecord(client[c])' <=> IsRecord(client[c]),
             \A c \in Clients : IsRecord(client[c]) => client'[c].w = client[c].w,
             \A c \in Clients : ~IsRecord(client[c]) => client'[c] = client[c]
      PROVE  Place(h)' /\ Leased(h)' /\ Run(h)'
  <2> USE <1>AsideRun
  <2>1. /\ st'[h].pc = st[h].pc /\ st'[h].c = st[h].c /\ st'[h].w = st[h].w
        /\ st'[h].pend = st[h].pend /\ st'[h].freed = st[h].freed
    BY Zenon DEF Aside
  <2>2. alive' = alive /\ inc' = inc /\ lease' = lease /\ ran' = ran /\ units' \subseteq units
    BY Zenon DEF Aside
  <2>3. Place(h)'
    <3>1. CASE h = g
      BY <2>1, <2>2, <3>1, Zenon DEF Place
    <3>2. CASE h # g
      <4>1. st'[h] = st[h] /\ sw'[h] = sw[h] /\ wr'[h] = wr[h]
        BY <3>2, Zenon DEF Aside
      <4> QED BY <2>2, <4>1, Zenon DEF Place
    <3> QED BY <3>1, <3>2, Zenon
  <2>4. Leased(h)'
    BY <2>1, <2>2, Zenon DEF Leased, Holds, MyRow
  <2>5. st[h].pc \in Started => st[h].c \in Clients
    BY Zenon DEF Place, Started
  <2>6. st[h].pc = "fill" => st[h].c \in Clients /\ client[st[h].c] = Torn
    BY Zenon DEF Place, Run
  <2>7. st[h].pc = "fill" => client'[st[h].c] = Torn
    BY <2>6, Zenon DEF IsRecord
  <2>8. st[h].pc \in {"lease", "admit", "fill", "backout"} =>
           \A c \in Clients : IsRecord(client[c])' => client'[c].w # st[h].w
    BY Zenon DEF Run
  <2>9. st[h].pc \in Started => IsRecord(client'[st[h].c]) /\ client'[st[h].c].w = st[h].w
    BY <2>5, Zenon DEF Run
  <2>10. Run(h)'
    BY <2>1, <2>2, <2>7, <2>8, <2>9, Zenon DEF Run
  <2> QED BY <2>3, <2>4, <2>10, Zenon
<1>AsideKeeps. ASSUME IInv, NEW g \in Gateways, Aside(g), Types', alive[g], st[g].pc \notin StartSync,
             SweepPlace(g)',
             \A x \in Record : InMemory(g, x)' => InMemory(g, x) \/ (Bound(x) /\ Known(x)')
      PROVE  IInv'
  <2> USE <1>AsideKeeps
  <2>1. Types /\ Ids /\ Records /\ Alone /\ ExecutedIsBound
    BY Zenon DEF IInv
  <2>2. \A h \in Gateways : Place(h) /\ SweepPlace(h) /\ Leased(h) /\ Run(h)
    BY Zenon DEF IInv
  <2>3. Records' /\ ExecutedIsBound' /\ \A w : Ended(w)' <=> Ended(w)
    BY <2>1, <1>AsideRecords, Zenon
  <2>4. Ids'
    BY <2>1 DEF Ids, Numbered, Aside
  <2>5. Alone'
    BY <2>1, Zenon DEF Alone, Aside
  <2>6. ASSUME NEW h \in Gateways PROVE SweepPlace(h)'
    <3>1. CASE h # g
      <4>1. SweepPlace(h) /\ sw'[h] = sw[h] /\ st'[h] = st[h]
        BY <2>2, <3>1, Zenon DEF Aside
      <4> QED BY <2>3, <4>1, Zenon DEF SweepPlace
    <3> QED BY <3>1, Zenon
  <2>7. ASSUME NEW h \in Gateways PROVE Place(h)' /\ Leased(h)' /\ Run(h)'
    <3>1. /\ \A c \in Clients : IsRecord(client[c])' <=> IsRecord(client[c])
          /\ \A c \in Clients : IsRecord(client[c]) => client'[c].w = client[c].w
          /\ \A c \in Clients : ~IsRecord(client[c]) => client'[c] = client[c]
      BY <2>1, <1>AsideRecords, Zenon
    <3> QED BY <2>2, <3>1, <1>AsideRun, Zenon
  <2>8. ASSUME NEW h \in Gateways PROVE Unread(h)'
    <3> SUFFICES ASSUME ~Rolling, st'[h].pc = "index" PROVE FALSE
      BY Zenon DEF Unread
    <3>1. st[h].pc = "index"
      BY Zenon DEF Aside
    <3>2. alive[h]
      BY <2>2, <3>1, Zenon DEF Leased, Holds
    <3>3. h = g
      BY <2>1, <3>2, Zenon DEF Alone
    <3> QED BY <3>1, <3>3, Zenon DEF StartSync
  <2> QED BY <2>3, <2>4, <2>5, <2>6, <2>7, <2>8, Zenon DEF IInv
(* What the handlers read.                                                 *)
<1>SweepFrame. ASSUME IInv, NEW g \in Gateways, alive[g], st[g].pc \notin StartSync,
             StSame(g), SwOf(g), WrOf(g), SweepPlace(g)',
             UNCHANGED <<alive, inc, store, lease, old, minted, ran, crashes>>,
             units' \subseteq units, sandboxes' \subseteq sandboxes,
             jobs' \in JobType, faults' \in FaultType,
             \A x \in Record : InMemory(g, x)' => InMemory(g, x) \/ (Bound(x) /\ Known(x)')
      PROVE  IInv'
  <2> USE <1>SweepFrame
  <2>1. Types'
    <3>1. Types
      BY Zenon DEF IInv
    <3> QED BY <3>1, Zenon DEF Types, StSame, SwOf, WrOf, JobType, FaultType, store
  <2>2. Aside(g)
    BY Zenon DEF Aside, StSame, SwOf, WrOf, store
  <2> QED BY <2>1, <2>2, <1>AsideKeeps, Zenon
<1>QuietFacts. ASSUME NEW g \in Gateways, Quiet(g)
      PROVE  (\A w : Ended(w)' <=> Ended(w)) /\ \A x : Known(x) => Known(x)'
  <2> USE <1>QuietFacts
  <2>1. \A w : Ended(w)' <=> Ended(w)
    BY Zenon DEF Quiet, StSame, Ended
  <2> QED BY <2>1, Zenon DEF Quiet, Known
<1>Quietly. ASSUME Types, NEW g \in Gateways,
             UNCHANGED <<alive, inc, store, lease, units, old, minted, st, jobs, ran, budget>>,
             sandboxes' \subseteq sandboxes
      PROVE  Quiet(g)
  <2> USE <1>Quietly
  <2>1. jobs' = jobs /\ st' = st /\ faults' = faults
    BY Zenon DEF budget
  <2> QED BY <2>1, Unmoved, Zenon DEF Quiet, budget
<1>SavesKept. ASSUME Types, NEW g \in Gateways, Saves(g)
      PROVE  /\ WrOf(g)
             /\ \A x \in Record : wr'[g] # None /\ x = wr'[g].rec => InMemory(g, x) \/ (Bound(x) /\ Known(x)')
  <2> USE <1>SavesKept
  <2>1. CASE wr' = wr
    BY <2>1, Unmoved, Zenon DEF InMemory
  <2>2. CASE wr' # wr
    <3>1. PICK x \in Record : Persist(g, x) /\ Bound(x) /\ Known(x)'
      BY <2>2, Zenon DEF Saves
    <3>2. WrOf(g) /\ wr'[g].rec = x
      BY <3>1, Persists, Zenon DEF WrOf
    <3> QED BY <3>1, <3>2, Zenon
  <2> QED BY <2>1, <2>2, Zenon
<1>SweepKeeps. ASSUME IInv, NEW g \in Gateways, alive[g], st[g].pc \notin StartSync, Quiet(g), Saves(g),
             NEW m \in SweepLabel, NEW t, NEW r, SwBecomes(g, m, t, r),
             m \in {"hold", "release", "releaseNext"} => st[g].pc = "held",
             m \in Listing => t \subseteq Record /\ \A x \in t : Bound(x) /\ Known(x),
             m \in {"unowned", "unownedLive"} => t \subseteq Clients,
             IF m \in Handling THEN r \in Record /\ Bound(r) /\ Known(r)' ELSE r = None,
             m \in {"stop", "dirStop", "orphanStop", "mark"} => Ended(r.w)
      PROVE  IInv'
  <2> USE <1>SweepKeeps
  <2>1. Types
    BY Zenon DEF IInv
  <2>2. SwOf(g) /\ sw'[g].pc = m /\ sw'[g].todo = t /\ sw'[g].rec = r
    BY Zenon DEF SwBecomes
  <2>3. (\A w : Ended(w)' <=> Ended(w)) /\ \A x : Known(x) => Known(x)'
    BY <1>QuietFacts, Zenon
  <2>4. StSame(g) /\ st'[g].pc = st[g].pc
    BY Zenon DEF Quiet, StSame
  <2>5. SweepPlace(g)'
    <3>1. r # None <=> m \in Handling
      BY RecordFacts, Zenon
    <3>2. m \in {"stop", "dirStop", "orphanStop", "mark"} => Ended(r.w)'
      BY <2>3, Zenon
    <3>3. Ended(r.w)' => Ended(sw[g].rec.w)'
      BY <2>2, Zenon DEF Ended
    <3> QED BY <2>2, <2>4, <3>1, <3>2, <3>3, Zenon DEF SweepPlace
  <2>6. WrOf(g) /\ \A x \in Record : wr'[g] # None /\ x = wr'[g].rec => InMemory(g, x) \/ (Bound(x)
        /\ Known(x)')
    BY <2>1, <1>SavesKept, Zenon
  <2>7. ASSUME NEW x \in Record, InMemory(g, x)' PROVE InMemory(g, x) \/ (Bound(x) /\ Known(x)')
    <3>1. CASE wr'[g] # None /\ x = wr'[g].rec
      BY <2>6, <3>1, Zenon
    <3>2. CASE r # None /\ x = r
      BY <3>2, Zenon
    <3>3. CASE m \in Listing /\ x \in t
      BY <2>3, <3>3, Zenon
    <3> QED BY <2>2, <2>7, <3>1, <3>2, <3>3, Zenon DEF InMemory
  <2> QED BY <2>2, <2>4, <2>5, <2>6, <2>7, <1>SweepFrame, Zenon DEF Quiet
<1>SwGotoKeeps. ASSUME IInv, NEW g \in Gateways, NEW l \in SweepLabel, NEW m \in SweepLabel, SwAt(g, l),
             SwGoto(g, m),
             Quiet(g), wr' = wr,
             m \in {"hold", "release", "releaseNext"} => st[g].pc = "held",
             m \in Listing => l \in Listing, m \in Handling <=> l \in Handling,
             m \notin {"unowned", "unownedLive"},
             m \in {"stop", "dirStop", "orphanStop", "mark"} => Ended(sw[g].rec.w)
      PROVE  IInv'
  <2> USE <1>SwGotoKeeps
  <2>1. /\ Types /\ alive[g] /\ st[g].pc \notin StartSync
        /\ l \in Listing => sw[g].todo \subseteq Record /\ \A x \in sw[g].todo : Bound(x) /\ Known(x)
        /\ IF l \in Handling THEN sw[g].rec \in Record /\ Bound(sw[g].rec) /\ Known(sw[g].rec)
                             ELSE sw[g].rec = None
    BY SweepAt, Zenon
  <2>2. PICK r : r = sw[g].rec
    OBVIOUS
  <2>3. SwBecomes(g, m, sw[g].todo, r)
    BY <2>1, <2>2, SwGoes, Zenon DEF SwBecomes, SwOf, SwMoves
  <2>4. Saves(g) /\ \A x : Known(x) => Known(x)'
    BY <1>QuietFacts, Zenon DEF Saves
  <2>5. IF m \in Handling THEN r \in Record /\ Bound(r) /\ Known(r)' ELSE r = None
    BY <2>1, <2>2, <2>4, Zenon
  <2> QED BY <2>1, <2>2, <2>3, <2>4, <2>5, <1>SweepKeeps, Zenon
<1>SweepStartKeeps. ASSUME IInv, NEW g \in Gateways, SweepStart(g)
      PROVE  IInv'
  <2> USE <1>SweepStartKeeps
  <2>1. PICK l \in {"list", "release", "hold"} : SwGoto(g, l) /\ (l # "list" => st[g].pc = "held")
    BY Zenon DEF SweepStart
  <2>2. Quiet(g) /\ wr' = wr /\ SwAt(g, "idle")
    BY <1>Quietly, Zenon DEF SweepStart, IInv
  <2> QED BY <2>1, <2>2, <1>SwGotoKeeps, Zenon DEF SweepLabel, Listing, Handling
<1>SweepNextKeeps. ASSUME IInv, NEW g \in Gateways, SweepNext(g)
      PROVE  IInv'
  <2> USE <1>SweepNextKeeps
  <2>1. Quiet(g) /\ wr' = wr /\ SwAt(g, "again") /\ SwGoto(g, "pending")
    BY <1>Quietly, Zenon DEF SweepNext, IInv
  <2> QED BY <2>1, <1>SwGotoKeeps, Zenon DEF SweepLabel, Listing, Handling
<1>SweepDirKeeps. ASSUME IInv, NEW g \in Gateways, SweepDir(g)
      PROVE  IInv'
  <2> USE <1>SweepDirKeeps
  <2>1. SwAt(g, "dir") /\ Quiet(g) /\ wr' = wr
    BY <1>Quietly, Zenon DEF SweepDir, IInv
  <2>2. sw[g].rec \in Record /\ Bound(sw[g].rec) /\ Known(sw[g].rec)
    BY <2>1, SweepAt, Zenon DEF SweepLabel, Handling
  <2>3. PICK m \in {"dirStop", "orphan"} :
           SwGoto(g, m) /\ (m = "dirStop" => sw[g].rec.status # "running" \/ ~Live(sw[g].rec.w))
    BY Zenon DEF SweepDir
  <2>4. m = "dirStop" => Ended(sw[g].rec.w)
    BY <2>2, <2>3, NotLive, Zenon DEF Known
  <2> QED BY <2>1, <2>3, <2>4, <1>SwGotoKeeps, Zenon DEF SweepLabel, Listing, Handling
<1>SweepOrphanKeeps. ASSUME IInv, NEW g \in Gateways, SweepOrphan(g)
      PROVE  IInv'
  <2> USE <1>SweepOrphanKeeps
  <2>1. SwAt(g, "orphan") /\ Quiet(g) /\ wr' = wr
    BY <1>Quietly, Zenon DEF SweepOrphan, IInv
  <2>2. sw[g].rec \in Record /\ Bound(sw[g].rec) /\ Known(sw[g].rec)
    BY <2>1, SweepAt, Zenon DEF SweepLabel, Handling
  <2>3. PICK m \in {"mark", "orphanStop", "reclaim"} : SwGoto(g, m) /\ (m # "reclaim" => ~Live(sw[g].rec.w))
    BY Zenon DEF SweepOrphan
  <2>4. m # "reclaim" => Ended(sw[g].rec.w)
    BY <2>2, <2>3, NotLive, Zenon
  <2> QED BY <2>1, <2>3, <2>4, <1>SwGotoKeeps, Zenon DEF SweepLabel, Listing, Handling
\* listDurableCodeLoopRunsPendingCleanup.
<1>SweepListKeeps. ASSUME IInv, NEW g \in Gateways, SweepList(g)
      PROVE  IInv'
  <2> USE <1>SweepListKeeps
  <2>1. SwAt(g, "list") /\ Types /\ Records
    BY Zenon DEF SweepList, IInv
  <2>2. alive[g] /\ st[g].pc \notin StartSync /\ sw[g].rec = None
    BY <2>1, SweepAt, Zenon DEF SweepLabel, Handling
  <2>3. Quiet(g) /\ Saves(g)
    BY <2>1, <1>Quietly, Zenon DEF SweepList, Saves
  <2>4. PICK T : T = {client[c] : c \in {d \in Clients : Pending(client[d])}}
    BY Zenon
  <2>5. \A x \in T : x \in Record /\ Bound(x) /\ Known(x)
    BY <2>1, <2>4, OnDisk, Zenon DEF Pending
  <2>6. sw' = [sw EXCEPT ![g].pc = "pending", ![g].todo = T]
    BY <2>4, Zenon DEF SweepList
  <2>7. T \in SUBSET (Record \cup WorkIds \cup Clients) /\ "pending" \in SweepLabel
    BY <2>5, Zenon DEF SweepLabel
  <2>8. SwBecomes(g, "pending", T, None)
    BY <2>1, <2>2, <2>6, <2>7, SwLists, Zenon
  <2> QED BY <2>2, <2>3, <2>5, <2>7, <2>8, <1>SweepKeeps, Zenon DEF Listing, Handling
\* An error ends the sweep.
<1>AbortKeeps. ASSUME IInv, NEW g \in Gateways, alive[g], st[g].pc \notin StartSync,
             sw' = [sw EXCEPT ![g] = Asleep],
             faults' \in FaultType,
             UNCHANGED <<alive, inc, store, lease, units, sandboxes, old, minted, st, jobs, wr, ran, crashes>>
      PROVE  IInv'
  <2> USE <1>AbortKeeps
  <2>1. Types
    BY Zenon DEF IInv
  <2>2. units' = units /\ st' = st /\ wr' = wr /\ jobs' = jobs
    BY Zenon
  <2>3. SwBecomes(g, "idle", Asleep.todo, None)
    BY <2>1, Initial, SwSets, Zenon
  <2>4. Quiet(g) /\ Saves(g)
    BY <2>1, <2>2, Unmoved, Zenon DEF Quiet, Saves
  <2> QED BY <2>3, <2>4, <1>SweepKeeps, Zenon DEF SweepLabel, Listing, Handling
<1>StopFailsKeeps. ASSUME IInv, NEW g \in Gateways, alive[g], st[g].pc \notin StartSync, StopFails(g),
             UNCHANGED <<alive, inc, store, lease, sandboxes, old, minted, jobs, ran, crashes>>
      PROVE  IInv'
  <2> USE <1>StopFailsKeeps
  <2>1. faults' \in FaultType
    BY Faulting, Zenon DEF IInv, StopFails
  <2> QED BY <2>1, <1>AbortKeeps, Zenon DEF StopFails
\* A run that is held is over.
<1>HeldEnds. ASSUME Ids, NEW g \in Gateways, st[g].pc = "held"
      PROVE  Ended(st[g].w)
  <2> USE <1>HeldEnds
  <2>1. st[g].w # 0
    BY DEF Ids, Numbered
  <2>2. \A h \in Gateways : st[h].w = st[g].w => h = g
    BY <2>1, Zenon DEF Ids
  <2> QED BY <2>2, Zenon DEF Ended, Late
\* What a sweep or a retry may write back of a record.
<1>Cleared. ASSUME NEW g \in Gateways, Quiet(g), NEW x \in Record, Bound(x), Known(x), Ended(x.w),
             x.w \notin units'
      PROVE  \E r \in Record : r = [x EXCEPT !.pending = FALSE] /\ r.w = x.w /\ Bound(r) /\ Known(r)'
  <2> USE <1>Cleared
  <2>1. PICK r \in Record : r = [x EXCEPT !.pending = FALSE] /\ r.c = x.c /\ r.w = x.w /\ r.status = x.status
    BY Variants, Zenon
  <2>2. minted' = minted /\ Ended(x.w)'
    BY <1>QuietFacts, Zenon DEF Quiet
  <2>3. Known(r)'
    BY <2>1, <2>2, Zenon DEF Known
  <2> QED BY <2>1, <2>3, Zenon DEF Bound
<1>Orphaned. ASSUME NEW g \in Gateways, Quiet(g), NEW x \in Record, Bound(x), Known(x), Ended(x.w)
      PROVE  \E r \in Record : /\ r = [x EXCEPT !.status = "orphaned", !.result = FALSE]
                               /\ r.w = x.w /\ Bound(r) /\ Known(r)'
  <2> USE <1>Orphaned
  <2>1. PICK r \in Record : /\ r = [x EXCEPT !.status = "orphaned", !.result = FALSE]
                            /\ r.c = x.c /\ r.w = x.w /\ r.pending = x.pending
    BY Variants, Zenon
  <2>2. Known(x)' /\ Ended(x.w)'
    BY <1>QuietFacts, Zenon
  <2>3. Known(r)'
    BY <2>1, <2>2, Zenon DEF Known
  <2> QED BY <2>1, <2>3, Zenon DEF Bound
<1>Stripped. ASSUME NEW g \in Gateways, Quiet(g), NEW x \in Record, Bound(x), Known(x)
      PROVE  \E r \in Record : r = [x EXCEPT !.result = FALSE] /\ Bound(r) /\ Known(r)'
  <2> USE <1>Stripped
  <2>1. PICK r \in Record : /\ r = [x EXCEPT !.result = FALSE] /\ r.c = x.c /\ r.w = x.w
                            /\ r.status = x.status /\ r.pending = x.pending
    BY Variants, Zenon
  <2>2. Known(x)'
    BY <1>QuietFacts, Zenon
  <2>3. Known(r)'
    BY <2>1, <2>2, Zenon DEF Known
  <2> QED BY <2>1, <2>3, Zenon DEF Bound
<1>Stopping. ASSUME Types, NEW g \in Gateways, NEW w, StopUnit(w),
             st' = st \/ st' = [st EXCEPT ![g].absent = TRUE],
             UNCHANGED <<alive, inc, store, lease, sandboxes, old, minted, jobs, ran, crashes>>
      PROVE  Quiet(g) /\ w \notin units'
  <2> USE <1>Stopping
  <2>1. units' \subseteq units /\ w \notin units' /\ jobs' \in JobType /\ faults' \in FaultType
    BY Unmoved, Zenon DEF StopUnit, NoFault
  <2>2. StSame(g)
    <3>1. CASE st' = st
      BY <3>1, Unmoved, Zenon
    <3>2. CASE st' = [st EXCEPT ![g].absent = TRUE]
      <4>1. st \in [Gateways -> StartState] /\ st' = [st EXCEPT ![g] = [st[g] EXCEPT !.absent = TRUE]]
        BY <3>2, Zenon DEF Types
      <4>2. \A s \in StartState : LET u == [s EXCEPT !.absent = TRUE] IN
               u \in StartState /\ u.pc = s.pc /\ u.c = s.c /\ u.w = s.w /\ u.pend = s.pend /\ u.freed = s.freed
        BY Zenon DEF StartState
      <4>3. PICK u \in StartState : /\ st' = [st EXCEPT ![g] = u] /\ u.pc = st[g].pc /\ u.c = st[g].c
                                    /\ u.w = st[g].w /\ u.pend = st[g].pend /\ u.freed = st[g].freed
        BY <4>1, <4>2, Zenon
      <4>4. StMoves(g, u)
        BY <4>3, StTypes, StUpdate, Zenon
      <4> QED BY <4>3, <4>4, Zenon DEF StMoves, StSame
    <3> QED BY <3>1, <3>2, Zenon
  <2> QED BY <2>1, <2>2, Zenon DEF Quiet
<1>SweepHoldKeeps. ASSUME IInv, NEW g \in Gateways, SweepHold(g)
      PROVE  IInv'
  <2> USE <1>SweepHoldKeeps
  <2>1. SwAt(g, "hold") /\ "hold" \in SweepLabel /\ Ids
    BY Zenon DEF SweepHold, SweepLabel, IInv
  <2>2. Types /\ Records /\ alive[g] /\ st[g].pc \notin StartSync /\ sw[g].rec = None /\ st[g].pc = "held"
    BY <2>1, SweepAt, Zenon DEF Handling, SweepPlace
  <2>3. CASE StopFails(g)
    BY <2>2, <2>3, <1>StopFailsKeeps, Zenon DEF SweepHold
  <2>4. CASE ~StopFails(g)
    <3>1. Quiet(g) /\ st[g].w \notin units'
      BY <2>2, <2>4, <1>Stopping, Zenon DEF SweepHold
    <3>2. sw' = [sw EXCEPT ![g].pc = "release", ![g].seen = sw[g].seen \cup {st[g].w}]
      BY <2>4, Zenon DEF SweepHold
    <3>3. sw[g].seen \cup {st[g].w} \in SUBSET WorkIds /\ "release" \in SweepLabel
      <4>1. st[g].w \in WorkIds
        BY <2>1, <2>2, CodeLoopAssumption DEF Ids, Numbered, Types, WorkIds
      <4>2. sw[g].seen \subseteq WorkIds
        BY <2>2, Zenon DEF Types, SweepState
      <4> QED BY <4>1, <4>2, Zenon DEF SweepLabel
    <3>4. SwBecomes(g, "release", sw[g].todo, None)
      BY <2>2, <3>2, <3>3, SwSees, Zenon
    <3>5. Saves(g)
      <4>1. CASE Pending(ByWork(st[g].w))
        <5>1. PICK x : x = ByWork(st[g].w)
          BY Zenon
        <5>2. x \in Record /\ x.w = st[g].w /\ Bound(x) /\ Known(x)
          BY <2>2, <4>1, <5>1, ByWorkFacts, Zenon DEF Pending, IsRecord
        <5>3. PICK r \in Record : r = [x EXCEPT !.pending = FALSE] /\ Bound(r) /\ Known(r)'
          BY <2>1, <2>2, <3>1, <5>2, <1>Cleared, <1>HeldEnds, Zenon
        <5>4. Persist(g, r)
          BY <2>4, <4>1, <5>1, <5>3, Zenon DEF SweepHold
        <5> QED BY <5>3, <5>4, Zenon DEF Saves
      <4>2. CASE ~Pending(ByWork(st[g].w))
        BY <2>4, <4>2, Zenon DEF SweepHold, Saves
      <4> QED BY <4>1, <4>2, Zenon
    <3> QED BY <2>2, <3>1, <3>3, <3>4, <3>5, <1>SweepKeeps, Zenon DEF Listing, Handling
  <2> QED BY <2>3, <2>4, Zenon
\* One pending record: left alone, or taken to be stopped.
<1>SweepPendingKeeps. ASSUME IInv, NEW g \in Gateways, SweepPending(g)
      PROVE  IInv'
  <2> USE <1>SweepPendingKeeps
  <2>1. SwAt(g, "pending") /\ "pending" \in SweepLabel /\ "stop" \in SweepLabel /\ "compact" \in SweepLabel
    BY Zenon DEF SweepPending, SweepLabel
  <2>2. /\ Types /\ alive[g] /\ st[g].pc \notin StartSync /\ sw[g].rec = None /\ sw[g].pc = "pending"
        /\ sw[g].todo \subseteq Record /\ \A x \in sw[g].todo : Bound(x) /\ Known(x)
    BY <2>1, SweepAt, Zenon DEF Handling, Listing
  <2>3. Quiet(g) /\ Saves(g) /\ wr' = wr
    BY <2>2, <1>Quietly, Zenon DEF SweepPending, Saves
  <2>4. CASE SwGoto(g, "compact")
    BY <2>1, <2>3, <2>4, <1>SwGotoKeeps, Zenon DEF Listing, Handling
  <2>5. CASE \E x \in sw[g].todo : sw' = [sw EXCEPT ![g].todo = @ \ {x}]
    <3>1. PICK x \in sw[g].todo : sw' = [sw EXCEPT ![g].todo = sw[g].todo \ {x}]
      BY <2>5, Zenon
    <3>2. SwBecomes(g, "pending", sw[g].todo \ {x}, None)
      BY <2>2, <3>1, SwDrops, Zenon
    <3> QED BY <2>1, <2>2, <2>3, <3>2, <1>SweepKeeps, Zenon DEF Listing, Handling
  <2>6. CASE \E x \in sw[g].todo : /\ sw' = [sw EXCEPT ![g].pc = "stop", ![g].todo = @ \ {x}, ![g].rec = x]
                                   /\ x.status # "running" \/ Held(g, x.w) \/ ~Live(x.w)
    <3>1. PICK x \in sw[g].todo :
                /\ sw' = [sw EXCEPT ![g].pc = "stop", ![g].todo = sw[g].todo \ {x}, ![g].rec = x]
                /\ x.status # "running" \/ Held(g, x.w) \/ ~Live(x.w)
      BY <2>6, Zenon
    <3>2. SwBecomes(g, "stop", sw[g].todo \ {x}, x)
      BY <2>1, <2>2, <3>1, SwTakes, Zenon
    <3>3. x \in Record /\ Bound(x) /\ Known(x) /\ Known(x)'
      BY <2>2, <2>3, <1>QuietFacts, Zenon
    <3>4. Ended(x.w)
      BY <3>1, <3>3, NotLive, <1>HeldEnds, Zenon DEF Known, Held, IInv
    <3> QED BY <2>1, <2>2, <2>3, <3>2, <3>3, <3>4, <1>SweepKeeps, Zenon DEF Listing, Handling
  <2> QED BY <2>4, <2>5, <2>6, Zenon DEF SweepPending, SwGoto
\* Its unit is stopped, and the record written back as it was listed.
<1>SweepStopKeeps. ASSUME IInv, NEW g \in Gateways, SweepStop(g)
      PROVE  IInv'
  <2> USE <1>SweepStopKeeps
  <2>1. SwAt(g, "stop") /\ "stop" \in SweepLabel
    BY Zenon DEF SweepStop, SweepLabel
  <2>2. /\ Types /\ SweepPlace(g) /\ sw[g].pc = "stop" /\ alive[g] /\ st[g].pc \notin StartSync
        /\ sw[g].todo \subseteq Record /\ \A x \in sw[g].todo : Bound(x) /\ Known(x)
        /\ sw[g].rec \in Record /\ Bound(sw[g].rec) /\ Known(sw[g].rec)
    BY <2>1, SweepAt, Zenon DEF Handling, Listing
  <2>3. PICK x : x = sw[g].rec
    BY Zenon
  <2>4. Ended(x.w)
    BY <2>2, <2>3, Zenon DEF SweepPlace
  <2>5. CASE StopFails(g)
    BY <2>2, <2>5, <1>StopFailsKeeps, Zenon DEF SweepStop
  <2>6. CASE ~StopFails(g)
    <3>1. StopUnit(x.w) /\ (st' = st \/ st' = [st EXCEPT ![g].absent = TRUE])
          /\ Persist(g, [x EXCEPT !.pending = FALSE])
      BY <2>3, <2>6, Zenon DEF SweepStop
    <3>2. Quiet(g) /\ x.w \notin units'
      BY <2>2, <3>1, <1>Stopping, Zenon DEF SweepStop
    <3>3. PICK r \in Record : r = [x EXCEPT !.pending = FALSE] /\ Bound(r) /\ Known(r)'
      BY <2>2, <2>3, <2>4, <3>2, <1>Cleared, Zenon
    <3>4. Saves(g)
      BY <3>1, <3>3, Zenon DEF Saves
    <3>5. PICK m \in {"releaseNext", "again"} :
             /\ sw' = [sw EXCEPT ![g].rec = None, ![g].seen = sw[g].seen \cup {x.w}, ![g].pc = m]
             /\ m = "releaseNext" => st[g].pc = "held"
      BY <2>3, <2>6, Zenon DEF SweepStop, Held
    <3>6. sw[g].seen \cup {x.w} \in SUBSET WorkIds
      <4>1. x.w \in WorkIds
        BY <2>2, <2>3, RecordFacts, Zenon
      <4> QED BY <2>2, <4>1, Zenon DEF Types, SweepState
    <3>7. m \in SweepLabel /\ m \in Listing /\ m \notin Handling
          /\ m \notin {"hold", "release", "unowned", "unownedLive"}
      BY Zenon DEF SweepLabel, Listing, Handling
    <3>8. SwBecomes(g, m, sw[g].todo, None)
      BY <2>2, <3>5, <3>6, <3>7, SwStops, Zenon
    <3> QED BY <2>2, <3>2, <3>4, <3>5, <3>7, <3>8, <1>SweepKeeps, Zenon DEF Handling
  <2> QED BY <2>5, <2>6, Zenon
\* A step that leaves the sweep where it is.
<1>SwStays. ASSUME Types, NEW g \in Gateways, sw' = sw
      PROVE  SwBecomes(g, sw[g].pc, sw[g].todo, sw[g].rec)
  BY <1>SwStays, Unmoved, Zenon DEF SwBecomes
<1>SweepCompactKeeps. ASSUME IInv, NEW g \in Gateways, SweepCompact(g)
      PROVE  IInv'
  <2> USE <1>SweepCompactKeeps
  <2>1. SwAt(g, "compact") /\ "compact" \in SweepLabel /\ "dirs" \in SweepLabel
    BY Zenon DEF SweepCompact, SweepLabel
  <2>2. Types /\ Records /\ sw[g].pc = "compact" /\ alive[g] /\ st[g].pc \notin StartSync /\ sw[g].rec = None
    BY <2>1, SweepAt, Zenon DEF Handling
  <2>3. jobs' \in JobType
    <3>1. CASE jobs' = jobs
      BY <2>2, <3>1, Unmoved, Zenon
    <3>2. CASE jobs' = [jobs EXCEPT ![g] = [w \in WorkIds |->
                          IF @[w] = "terminal" /\ w \in old THEN "none" ELSE @[w]]]
      BY <2>2, <3>2, Zenon DEF Types, JobType
    <3> QED BY <3>1, <3>2, Zenon DEF SweepCompact
  <2>4. Quiet(g)
    BY <2>2, <2>3, Unmoved, Zenon DEF SweepCompact, Quiet, budget
  <2>5. CASE \E c \in Clients : /\ Compactable(client[c]) /\ Persist(g, [client[c] EXCEPT !.result = FALSE])
                                /\ sw' = sw
    <3>1. PICK c \in Clients : Compactable(client[c]) /\ Persist(g, [client[c] EXCEPT !.result = FALSE])
      BY <2>5, Zenon
    <3>2. client[c] \in Record /\ Bound(client[c]) /\ Known(client[c])
      BY <2>2, <3>1, OnDisk, Zenon DEF Compactable
    <3>3. Saves(g)
      BY <2>4, <3>1, <3>2, <1>Stripped, Zenon DEF Saves
    <3>4. SwBecomes(g, "compact", sw[g].todo, None)
      BY <2>2, <2>5, <1>SwStays, Zenon
    <3> QED BY <2>1, <2>2, <2>4, <3>3, <3>4, <1>SweepKeeps, Zenon DEF Listing, Handling
  <2>6. CASE sw' = [sw EXCEPT ![g].pc = "dirs", ![g].todo = sandboxes] /\ wr' = wr
    <3>1. sandboxes \in SUBSET (Record \cup WorkIds \cup Clients)
      BY <2>2, Zenon DEF Types
    <3>2. SwBecomes(g, "dirs", sandboxes, None)
      BY <2>1, <2>2, <2>6, <3>1, SwLists, Zenon
    <3> QED BY <2>1, <2>2, <2>4, <2>6, <3>2, <1>SweepKeeps, Zenon DEF Listing, Handling, Saves
  <2> QED BY <2>5, <2>6, Zenon DEF SweepCompact
<1>SweepDirsKeeps. ASSUME IInv, NEW g \in Gateways, SweepDirs(g)
      PROVE  IInv'
  <2> USE <1>SweepDirsKeeps
  <2>1. SwAt(g, "dirs") /\ "dirs" \in SweepLabel /\ "dir" \in SweepLabel /\ "unowned" \in SweepLabel
    BY Zenon DEF SweepDirs, SweepLabel
  <2>2. Types /\ Records /\ alive[g] /\ st[g].pc \notin StartSync /\ sw[g].rec = None
    BY <2>1, SweepAt, Zenon DEF Handling
  <2>3. Quiet(g) /\ Saves(g)
    <3>1. sandboxes' \subseteq sandboxes
      BY Zenon DEF SweepDirs
    <3> QED BY <2>2, <3>1, <1>Quietly, Zenon DEF SweepDirs, Saves
  <2>4. sw[g].todo \subseteq Record \cup WorkIds \cup Clients
    BY <2>2, Zenon DEF Types, SweepState
  <2>5. CASE sw' = [sw EXCEPT ![g].pc = "unowned", ![g].todo = Clients, ![g].seen = {}]
    <3>1. {} \in SUBSET WorkIds /\ Clients \in SUBSET (Record \cup WorkIds \cup Clients)
      BY Zenon
    <3>2. SwBecomes(g, "unowned", Clients, None)
      BY <2>1, <2>2, <2>5, <3>1, SwTurns, Zenon
    <3> QED BY <2>1, <2>2, <2>3, <3>2, <1>SweepKeeps, Zenon DEF Listing, Handling
  <2>6. CASE \E w \in sw[g].todo : sw' = [sw EXCEPT ![g].todo = @ \ {w}, ![g].rec = ByWork(w),
                                                    ![g].pc = IF ByWork(w) = None THEN "dirs" ELSE "dir"]
    <3>1. PICK w \in sw[g].todo : sw' = [sw EXCEPT ![g].todo = sw[g].todo \ {w}, ![g].rec = ByWork(w),
                                                    ![g].pc = IF ByWork(w) = None THEN "dirs" ELSE "dir"]
      BY <2>6, Zenon
    <3>2. PICK r : r = ByWork(w)
      BY Zenon
    <3>3. r # None => r \in Record /\ Bound(r) /\ Known(r)
      BY <2>2, <3>2, ByWorkFacts, Zenon
    <3>4. r # None => Known(r)'
      BY <2>3, <3>3, <1>QuietFacts, Zenon
    <3>5. PICK m \in {"dirs", "dir"} : (m = "dirs" <=> r = None) /\ m = IF r = None THEN "dirs" ELSE "dir"
      OBVIOUS
    <3>6. SwBecomes(g, m, sw[g].todo \ {w}, r)
      BY <2>1, <2>2, <2>4, <3>1, <3>2, <3>3, <3>5, SwReads, Zenon
    <3> QED BY <2>1, <2>2, <2>3, <3>3, <3>4, <3>5, <3>6, <1>SweepKeeps, Zenon DEF Listing, Handling
  <2> QED BY <2>5, <2>6, Zenon DEF SweepDirs
<1>SweepDirStopKeeps. ASSUME IInv, NEW g \in Gateways, SweepDirStop(g)
      PROVE  IInv'
  <2> USE <1>SweepDirStopKeeps
  <2>1. SwAt(g, "dirStop") /\ "dirStop" \in SweepLabel /\ "orphan" \in SweepLabel
    BY Zenon DEF SweepDirStop, SweepLabel
  <2>2. /\ Types /\ SweepPlace(g) /\ sw[g].pc = "dirStop" /\ alive[g] /\ st[g].pc \notin StartSync
        /\ sw[g].rec \in Record /\ Bound(sw[g].rec) /\ Known(sw[g].rec)
    BY <2>1, SweepAt, Zenon DEF Handling
  <2>3. PICK x \in Record : x = sw[g].rec
    BY <2>2, Zenon
  <2>4. Ended(x.w)
    BY <2>2, <2>3, Zenon DEF SweepPlace
  <2>5. CASE StopFails(g)
    BY <2>2, <2>5, <1>StopFailsKeeps, Zenon DEF SweepDirStop
  <2>6. CASE ~StopFails(g)
    <3>1. PICK r \in Record : r = [x EXCEPT !.pending = FALSE] /\ r.w = x.w
      BY Variants, Zenon
    <3>2. r.w = x.w /\ r \in Record
      BY <3>1, Zenon
    <3>3. StopUnit(x.w) /\ st' = st /\ Persist(g, r)
      BY <2>3, <2>6, <3>1, <3>2, Zenon DEF SweepDirStop
    <3>4. Quiet(g) /\ x.w \notin units'
      BY <2>2, <3>3, <1>Stopping, Zenon DEF SweepDirStop
    <3>5. Bound(r) /\ Known(r)'
      BY <2>2, <2>3, <2>4, <3>1, <3>4, <1>Cleared, Zenon
    <3>6. sw' = [sw EXCEPT ![g].rec = r, ![g].seen = sw[g].seen \cup {x.w}, ![g].pc = "orphan"]
      BY <2>3, <2>6, <3>1, <3>2, Zenon DEF SweepDirStop
    <3>7. sw[g].seen \cup {x.w} \in SUBSET WorkIds
      <4>1. x.w \in WorkIds
        BY <2>2, <2>3, RecordFacts, Zenon
      <4> QED BY <2>2, <4>1, Zenon DEF Types, SweepState
    <3>8. SwBecomes(g, "orphan", sw[g].todo, r)
      BY <2>1, <2>2, <3>2, <3>6, <3>7, SwStops, Zenon
    <3>9. Saves(g)
      BY <3>2, <3>3, <3>5, Zenon DEF Saves
    <3> QED BY <2>1, <2>2, <3>2, <3>4, <3>5, <3>8, <3>9, <1>SweepKeeps, Zenon DEF Listing, Handling
  <2> QED BY <2>5, <2>6, Zenon
<1>SweepOrphanStopKeeps. ASSUME IInv, NEW g \in Gateways, SweepOrphanStop(g)
      PROVE  IInv'
  <2> USE <1>SweepOrphanStopKeeps
  <2>1. SwAt(g, "orphanStop") /\ "orphanStop" \in SweepLabel /\ "mark" \in SweepLabel
    BY Zenon DEF SweepOrphanStop, SweepLabel
  <2>2. /\ Types /\ SweepPlace(g) /\ sw[g].pc = "orphanStop" /\ alive[g] /\ st[g].pc \notin StartSync
    BY <2>1, SweepAt, Zenon
  <2>3. CASE StopFails(g)
    BY <2>2, <2>3, <1>StopFailsKeeps, Zenon DEF SweepOrphanStop
  <2>4. CASE ~StopFails(g)
    <3>1. Quiet(g) /\ SwGoto(g, "mark") /\ wr' = wr
      BY <2>2, <2>4, <1>Stopping, Zenon DEF SweepOrphanStop
    <3>2. Ended(sw[g].rec.w)
      BY <2>2, Zenon DEF SweepPlace
    <3> QED BY <2>1, <3>1, <3>2, <1>SwGotoKeeps, Zenon DEF Listing, Handling
  <2> QED BY <2>3, <2>4, Zenon
\* markDurableCodeLoopRunOrphaned.
<1>SweepMarkKeeps. ASSUME IInv, NEW g \in Gateways, SweepMark(g)
      PROVE  IInv'
  <2> USE <1>SweepMarkKeeps
  <2>1. SwAt(g, "mark") /\ "mark" \in SweepLabel /\ "reclaim" \in SweepLabel
    BY Zenon DEF SweepMark, SweepLabel
  <2>2. /\ Types /\ Records /\ SweepPlace(g) /\ sw[g].pc = "mark" /\ alive[g] /\ st[g].pc \notin StartSync
        /\ sw[g].rec \in Record /\ Bound(sw[g].rec) /\ Known(sw[g].rec)
    BY <2>1, SweepAt, Zenon DEF Handling
  <2>3. Quiet(g)
    BY <2>2, <1>Quietly, Zenon DEF SweepMark
  <2>4. PICK x, r : x = sw[g].rec /\ r = ByWork(x.w)
    BY Zenon
  <2>5. Ended(x.w)
    BY <2>2, <2>4, Zenon DEF SweepPlace
  <2>6. PICK o \in Record : o = [x EXCEPT !.status = "orphaned", !.result = FALSE] /\ Bound(o) /\ Known(o)'
    BY <2>2, <2>3, <2>4, <2>5, <1>Orphaned, Zenon
  <2>7. r # None => r \in Record /\ r.w = x.w /\ Bound(r) /\ Known(r) /\ Known(r)'
    BY <2>2, <2>3, <2>4, ByWorkFacts, <1>QuietFacts, Zenon
  <2>8. Saves(g)
    <3>1. CASE Running(r)
      <4>1. r # None
        BY <3>1, Zenon DEF Running, IsRecord
      <4>2. Persist(g, [r EXCEPT !.status = "orphaned", !.result = FALSE])
        BY <2>4, <3>1, Zenon DEF SweepMark
      <4>3. r \in Record /\ Bound(r) /\ Known(r) /\ Ended(r.w)
        BY <2>5, <2>7, <4>1, Zenon
      <4>4. PICK p \in Record : p = [r EXCEPT !.status = "orphaned", !.result = FALSE] /\ Bound(p) /\ Known(p)'
        BY <2>3, <4>3, <1>Orphaned, Zenon
      <4> QED BY <4>2, <4>4, Zenon DEF Saves
    <3>2. CASE ~Running(r)
      BY <2>4, <3>2, Zenon DEF SweepMark, Saves
    <3> QED BY <3>1, <3>2, Zenon
  <2>9. PICK y \in Record : Bound(y) /\ Known(y)' /\ sw' = [sw EXCEPT ![g].pc = "reclaim", ![g].rec = y]
    <3>1. CASE r = None \/ Running(r)
      BY <2>4, <2>6, <3>1, Zenon DEF SweepMark
    <3>2. CASE ~(r = None \/ Running(r))
      BY <2>4, <2>7, <3>2, Zenon DEF SweepMark
    <3> QED BY <3>1, <3>2, Zenon
  <2>10. SwBecomes(g, "reclaim", sw[g].todo, y)
    BY <2>1, <2>2, <2>9, SwNotes, Zenon
  <2> QED BY <2>1, <2>2, <2>3, <2>8, <2>9, <2>10, <1>SweepKeeps, Zenon DEF Listing, Handling
<1>SweepReclaimKeeps. ASSUME IInv, NEW g \in Gateways, SweepReclaim(g)
      PROVE  IInv'
  <2> USE <1>SweepReclaimKeeps
  <2>1. SwAt(g, "reclaim") /\ "reclaim" \in SweepLabel /\ "dirs" \in SweepLabel
    BY Zenon DEF SweepReclaim, SweepLabel
  <2>2. Types /\ Records /\ alive[g] /\ st[g].pc \notin StartSync
    BY <2>1, SweepAt, Zenon
  <2>3. Quiet(g)
    <3>1. sandboxes' \subseteq sandboxes
      BY Zenon DEF SweepReclaim
    <3> QED BY <2>2, <3>1, <1>Quietly, Zenon DEF SweepReclaim
  <2>4. PICK r : r = ByWork(sw[g].rec.w)
    BY Zenon
  <2>5. r # None => r \in Record /\ Bound(r) /\ Known(r)
    BY <2>2, <2>4, ByWorkFacts, Zenon
  <2>6. Saves(g)
    <3>1. wr' = wr \/ (r # None /\ Persist(g, [r EXCEPT !.result = FALSE]))
      BY <2>4, Zenon DEF SweepReclaim
    <3> QED BY <2>3, <2>5, <3>1, <1>Stripped, Zenon DEF Saves
  <2>7. SwBecomes(g, "dirs", sw[g].todo, None)
    BY <2>1, <2>2, SwNotes, Zenon DEF SweepReclaim
  <2> QED BY <2>1, <2>2, <2>3, <2>6, <2>7, <1>SweepKeeps, Zenon DEF Listing, Handling
<1>SweepUnownedKeeps. ASSUME IInv, NEW g \in Gateways, SweepUnowned(g)
      PROVE  IInv'
  <2> USE <1>SweepUnownedKeeps
  <2>1. SwAt(g, "unowned") /\ "unowned" \in SweepLabel /\ "unownedLive" \in SweepLabel /\ "idle" \in SweepLabel
    BY Zenon DEF SweepUnowned, SweepLabel
  <2>2. /\ Types /\ Records /\ alive[g] /\ st[g].pc \notin StartSync /\ sw[g].rec = None /\ sw[g].pc = "unowned"
        /\ sw[g].todo \subseteq Clients
    BY <2>1, SweepAt, Zenon DEF Handling, SweepPlace
  <2>3. Quiet(g) /\ Saves(g)
    BY <2>2, <1>Quietly, Zenon DEF SweepUnowned, Saves
  <2>4. sw[g].todo \subseteq Record \cup WorkIds \cup Clients
    BY <2>2, Zenon DEF Types, SweepState
  <2>5. CASE sw' = [sw EXCEPT ![g] = Asleep]
    <3>1. SwBecomes(g, "idle", Asleep.todo, None)
      BY <2>2, <2>5, Initial, SwSets, Zenon
    <3> QED BY <2>1, <2>2, <2>3, <3>1, <1>SweepKeeps, Zenon DEF Listing, Handling
  <2>6. CASE \E c \in sw[g].todo : sw' = [sw EXCEPT ![g].todo = @ \ {c}]
    <3>1. PICK c \in sw[g].todo : sw' = [sw EXCEPT ![g].todo = sw[g].todo \ {c}]
      BY <2>6, Zenon
    <3>2. SwBecomes(g, "unowned", sw[g].todo \ {c}, None)
      BY <2>2, <2>4, <3>1, SwDrops, Zenon
    <3> QED BY <2>1, <2>2, <2>3, <3>2, <1>SweepKeeps, Zenon DEF Listing, Handling
  <2>7. CASE \E c \in sw[g].todo : /\ Running(client[c])
                                   /\ sw' = [sw EXCEPT ![g].todo = @ \ {c}, ![g].rec = client[c], ![g].pc = "unownedLive"]
    <3>1. PICK c \in sw[g].todo :
             /\ Running(client[c])
             /\ sw' = [sw EXCEPT ![g].todo = sw[g].todo \ {c}, ![g].rec = client[c], ![g].pc = "unownedLive"]
      BY <2>7, Zenon
    <3>2. PICK x : x = client[c]
      BY Zenon
    <3>3. x \in Record /\ Bound(x) /\ Known(x)
      BY <2>2, <3>1, <3>2, OnDisk, Zenon DEF Running
    <3>4. Known(x)'
      BY <2>3, <3>3, <1>QuietFacts, Zenon
    <3>5. SwBecomes(g, "unownedLive", sw[g].todo \ {c}, x)
      BY <2>1, <2>2, <2>4, <3>1, <3>2, <3>3, SwReads, Zenon
    <3> QED BY <2>1, <2>2, <2>3, <3>3, <3>4, <3>5, <1>SweepKeeps, Zenon DEF Listing, Handling
  <2> QED BY <2>5, <2>6, <2>7, Zenon DEF SweepUnowned
<1>SweepUnownedLiveKeeps. ASSUME IInv, NEW g \in Gateways, SweepUnownedLive(g)
      PROVE  IInv'
  <2> USE <1>SweepUnownedLiveKeeps
  <2>1. SwAt(g, "unownedLive") /\ "unownedLive" \in SweepLabel /\ "unowned" \in SweepLabel
    BY Zenon DEF SweepUnownedLive, SweepLabel
  <2>2. /\ Types /\ alive[g] /\ st[g].pc \notin StartSync /\ sw[g].todo \subseteq Clients
        /\ sw[g].rec \in Record /\ Bound(sw[g].rec) /\ Known(sw[g].rec)
    BY <2>1, SweepAt, Zenon DEF Handling, SweepPlace
  <2>3. Quiet(g)
    BY <2>2, <1>Quietly, Zenon DEF SweepUnownedLive
  <2>4. Saves(g)
    <3>1. wr' = wr \/ (~Live(sw[g].rec.w)
          /\ Persist(g, [sw[g].rec EXCEPT !.status = "orphaned", !.result = FALSE]))
      BY Zenon DEF SweepUnownedLive
    <3>2. ~Live(sw[g].rec.w) => Ended(sw[g].rec.w)
      BY <2>2, NotLive, Zenon
    <3> QED BY <2>2, <2>3, <3>1, <3>2, <1>Orphaned, Zenon DEF Saves
  <2>5. SwBecomes(g, "unowned", sw[g].todo, None)
    BY <2>1, <2>2, SwNotes, Zenon DEF SweepUnownedLive
  <2> QED BY <2>1, <2>2, <2>3, <2>4, <2>5, <1>SweepKeeps, Zenon DEF Listing, Handling
\* A retry that finds no live owner.
<1>RetryKeeps. ASSUME IInv, NEW g \in Gateways, NEW c \in Clients, Retry(g, c)
      PROVE  IInv'
  <2> USE <1>RetryKeeps
  <2>1. Types /\ Records /\ Place(g) /\ SweepPlace(g)
    BY Zenon DEF IInv
  <2>2. alive[g] /\ st[g].pc \notin StartSync
    BY <2>1, Resumes, Zenon DEF Retry
  <2>3. client[c] \in Record /\ Bound(client[c]) /\ Known(client[c]) /\ ~Live(client[c].w)
    BY <2>1, OnDisk, Zenon DEF Retry, Running
  <2>4. Quiet(g) /\ sw' = sw
    BY <2>1, <1>Quietly, Zenon DEF Retry
  <2>5. PICK r \in Record : /\ r = [client[c] EXCEPT !.status = "orphaned", !.result = FALSE]
                            /\ Bound(r) /\ Known(r)'
    BY <2>3, <2>4, NotLive, <1>Orphaned, Zenon
  <2>6. Saves(g)
    BY <2>5, Zenon DEF Retry, Saves
  <2>7. WrOf(g) /\ \A x \in Record : wr'[g] # None /\ x = wr'[g].rec => InMemory(g, x) \/ (Bound(x)
        /\ Known(x)')
    BY <2>1, <2>6, <1>SavesKept, Zenon
  <2>8. SweepPlace(g)'
    <3>1. st'[g].pc = st[g].pc /\ \A w : Ended(w)' <=> Ended(w)
      BY <2>4, <1>QuietFacts, Zenon DEF Quiet, StSame
    <3> QED BY <2>1, <2>4, <3>1, Zenon DEF SweepPlace
  <2>9. \A x \in Record : InMemory(g, x)' => InMemory(g, x) \/ (Bound(x) /\ Known(x)')
    BY <2>4, <2>7, Zenon DEF InMemory
  <2>10. SwOf(g)
    BY <2>1, <2>4, Unmoved, Zenon
  <2> QED BY <2>2, <2>4, <2>7, <2>8, <2>9, <2>10, <1>SweepFrame, Zenon DEF Quiet
\* A retry or a poll that meets a result of another build.
<1>FailClosedKeeps. ASSUME IInv, NEW g \in Gateways, NEW c \in Clients, FailClosed(g, c)
      PROVE  IInv'
  <2> USE <1>FailClosedKeeps
  <2>1. Types /\ Records /\ Place(g) /\ SweepPlace(g)
    BY Zenon DEF IInv
  <2>2. alive[g] /\ st[g].pc \notin StartSync
    BY <2>1, Resumes, Zenon DEF FailClosed
  <2>3. client[c] \in Record /\ Bound(client[c]) /\ Known(client[c])
    BY <2>1, OnDisk, Zenon DEF FailClosed
  <2>4. Quiet(g) /\ sw' = sw
    BY <2>1, <1>Quietly, Zenon DEF FailClosed
  <2>6. Saves(g)
    BY <2>3, <2>4, <1>Stripped, Zenon DEF FailClosed, Saves
  <2>7. WrOf(g) /\ \A x \in Record : wr'[g] # None /\ x = wr'[g].rec => InMemory(g, x) \/ (Bound(x)
        /\ Known(x)')
    BY <2>1, <2>6, <1>SavesKept, Zenon
  <2>8. SweepPlace(g)'
    <3>1. st'[g].pc = st[g].pc /\ \A w : Ended(w)' <=> Ended(w)
      BY <2>4, <1>QuietFacts, Zenon DEF Quiet, StSame
    <3> QED BY <2>1, <2>4, <3>1, Zenon DEF SweepPlace
  <2>9. \A x \in Record : InMemory(g, x)' => InMemory(g, x) \/ (Bound(x) /\ Known(x)')
    BY <2>4, <2>7, Zenon DEF InMemory
  <2>10. SwOf(g)
    BY <2>1, <2>4, Unmoved, Zenon
  <2> QED BY <2>2, <2>4, <2>7, <2>8, <2>9, <2>10, <1>SweepFrame, Zenon DEF Quiet
\* persistDurableCodeLoopRun replaces the record of the same run.
<1>ReplaceClientKeeps. ASSUME IInv, NEW g \in Gateways, ReplaceClient(g)
      PROVE  IInv'
  <2> USE <1>ReplaceClientKeeps
  <2>1. Types /\ Records /\ Place(g) /\ SweepPlace(g)
    BY Zenon DEF IInv
  <2>2. alive[g] /\ wr[g] # None
    BY Zenon DEF ReplaceClient
  <2>3. st[g].pc \notin StartSync
    BY <2>1, <2>2, Zenon DEF Place
  <2>4. PICK r \in Record : r = wr[g].rec
    BY <2>1, <2>2, RecordFacts, Zenon DEF Types
  <2>5. Bound(r) /\ Known(r) /\ r.c \in Clients
    BY <2>1, <2>2, <2>4, RecordFacts, Zenon DEF Records, InMemory
  <2>6. /\ UNCHANGED <<alive, inc, copy, lease, units, sandboxes, old, minted, ran, crashes>>
        /\ st' = st /\ sw' = sw /\ jobs' = jobs /\ faults' = faults
        /\ client' = [client EXCEPT ![r.c] = r] /\ wr' = [wr EXCEPT ![g].to = "copy"]
    BY <2>4, Zenon DEF ReplaceClient, budget
  <2>7. WrOf(g) /\ wr'[g] # None /\ wr'[g].rec = r
    <3>1. wr[g] \in Write
      BY <2>1, <2>2, Zenon DEF Types
    <3>2. \A u \in Write : [u EXCEPT !.to = "copy"] \in Write /\ [u EXCEPT !.to = "copy"].rec = u.rec
      BY Zenon DEF Write
    <3>3. PICK u \in Write : u = [wr[g] EXCEPT !.to = "copy"] /\ u.rec = wr[g].rec
      BY <3>1, <3>2, Zenon
    <3>4. wr \in [Gateways -> Write \cup {None}] /\ wr' = [wr EXCEPT ![g] = u]
      BY <2>1, <2>6, <3>3, Zenon DEF Types
    <3>5. u # None
      BY RecordFacts, CodeLoopAssumption, Zenon
    <3> QED BY <2>4, <3>3, <3>4, <3>5, Zenon DEF WrOf
  <2>8. client' \in [Clients -> Record \cup {None, Torn}] /\ client'[r.c] = r
        /\ \A c \in Clients : c # r.c => client'[c] = client[c]
    BY <2>1, <2>5, <2>6, Zenon DEF Types
  <2>9. \A w : Ended(w)' <=> Ended(w)
    BY <2>6, Zenon DEF Ended
  <2>10. \A x : Known(x)' <=> Known(x)
    BY <2>6, <2>9, Zenon DEF Known
  <2>11. Known(client[r.c])'
    <3>1. Known(r)' => Known(client[r.c])'
      BY <2>8, Zenon DEF Known
    <3> QED BY <2>5, <2>10, <3>1, Zenon
  <2>12. Aside(g)
    <3>1. \A c \in Clients : \/ client'[c] = client[c]
                             \/ /\ client'[c] \in Record /\ client'[c].c = c /\ Known(client[c])'
                                /\ IsRecord(client[c]) /\ client'[c].w = client[c].w
      BY <2>5, <2>8, <2>11, Zenon DEF Bound
    <3> QED BY <2>6, <2>7, <3>1, Zenon DEF Aside, WrOf
  <2>13. Types'
    BY <2>1, <2>6, <2>7, <2>8, Zenon DEF Types, WrOf
  <2>14. SweepPlace(g)'
    BY <2>1, <2>6, <2>9, Zenon DEF SweepPlace
  <2>15. \A x \in Record : InMemory(g, x)' => InMemory(g, x)
    BY <2>2, <2>4, <2>6, <2>7, Zenon DEF InMemory
  <2> QED BY <2>2, <2>3, <2>12, <2>13, <2>14, <2>15, <1>AsideKeeps, Zenon
\* ...and then its copy under the work id.
<1>ReplaceCopyKeeps. ASSUME IInv, NEW g \in Gateways, ReplaceCopy(g)
      PROVE  IInv'
  <2> USE <1>ReplaceCopyKeeps
  <2>1. Types /\ Records /\ Place(g) /\ SweepPlace(g)
    BY Zenon DEF IInv
  <2>2. alive[g] /\ wr[g] # None
    BY Zenon DEF ReplaceCopy
  <2>3. st[g].pc \notin StartSync
    BY <2>1, <2>2, Zenon DEF Place
  <2>4. /\ UNCHANGED <<alive, inc, client, lease, units, sandboxes, old, minted, ran, crashes>>
        /\ st' = st /\ sw' = sw /\ jobs' = jobs /\ faults' = faults
        /\ copy' = [copy EXCEPT ![wr[g].rec.w] = Ok] /\ wr' = [wr EXCEPT ![g] = None]
    BY Zenon DEF ReplaceCopy, budget
  <2>5. WrOf(g) /\ wr'[g] = None
    BY <2>1, <2>4, Zenon DEF Types, WrOf
  <2>6. copy' \in [WorkIds -> {None, Torn, Ok}]
    BY <2>1, <2>4, Zenon DEF Types
  <2>7. Aside(g) /\ Types'
    BY <2>1, <2>4, <2>5, <2>6, Zenon DEF Aside, WrOf, Types
  <2>8. SweepPlace(g)'
    BY <2>1, <2>4, Zenon DEF SweepPlace, Ended
  <2>9. \A x \in Record : InMemory(g, x)' => InMemory(g, x)
    BY <2>4, <2>5, Zenon DEF InMemory
  <2> QED BY <2>2, <2>3, <2>7, <2>8, <2>9, <1>AsideKeeps, Zenon
\* releaseVerifiedCleanupResources.
<1>SweepReleaseKeeps. ASSUME IInv, NEW g \in Gateways,
             SweepRelease(g, "release", "list") \/ SweepRelease(g, "releaseNext", "again")
      PROVE  IInv'
  <2> USE <1>SweepReleaseKeeps
  <2>1. PICK l \in {"release", "releaseNext"}, m \in {"list", "again"} :
           SweepRelease(g, l, m) /\ (m = "again" => l = "releaseNext")
    BY Zenon
  <2>2. SwAt(g, l) /\ l \in SweepLabel /\ m \in SweepLabel /\ l \notin Handling
    BY <2>1, Zenon DEF SweepRelease, SweepLabel, Handling
  <2>3. /\ Types /\ SweepPlace(g) /\ Leased(g) /\ sw[g].pc = l /\ alive[g] /\ wr[g] = None
        /\ st[g].pc \notin StartSync
        /\ sw[g].rec = None
    BY <2>2, SweepAt, Zenon DEF IInv
  <2>4. UNCHANGED <<alive, inc, client, copy, units, sandboxes, old, minted, jobs, wr, ran, crashes>>
    BY <2>1, Zenon DEF SweepRelease, store
  <2>5. CASE sw' = [sw EXCEPT ![g] = Asleep] /\ Fault /\ UNCHANGED <<lease, st>>
    <3>1. faults' \in FaultType
      BY <2>3, <2>5, Faulting, Zenon
    <3> QED BY <2>3, <2>4, <2>5, <3>1, <1>AbortKeeps, Zenon DEF store
  <2>6. CASE lease' = Released(g) /\ st' = [st EXCEPT ![g] = Idle] /\ SwGoto(g, m) /\ NoFault
    <3>1. StBecomes(g, "idle", None, 0, FALSE, FALSE)
      BY <2>3, <2>6, StTypes, StIdles, Zenon
    <3>2. SwOf(g) /\ sw'[g].pc = m /\ sw'[g].todo = sw[g].todo /\ sw'[g].rec = None
      BY <2>2, <2>3, <2>6, SwGoes, Zenon DEF SwOf, SwMoves
    <3>3. lease' \in Row \cup {None} /\ \A h \in Gateways : h # g /\ Holds(h) => lease' = lease
      BY <2>3, <2>6, Releasing, Zenon DEF IInv
    <3>4. Types'
      BY <2>3, <2>4, <2>6, <3>1, <3>2, <3>3, Zenon DEF Types, StBecomes, SwOf, NoFault
    <3>5. Advance(g)
      BY <2>4, <3>1, <3>2, <3>3, Zenon DEF Advance, StBecomes, SwOf
    <3>6. Numbered(g)' /\ Leased(g)' /\ Run(g)'
      BY <3>1, Zenon DEF StBecomes, Numbered, Leased, Holds, Late, Run, Started
    <3>7. Place(g)'
      BY <2>3, <2>4, <3>1, Zenon DEF StBecomes, Place, StartSync
    <3>8. SweepPlace(g)'
      BY <2>1, <2>3, <3>2, Zenon DEF SweepPlace, Listing, Handling
    <3>9. \A x \in Record : InMemory(g, x)' => InMemory(g, x)
      BY <2>1, <2>3, <2>4, <3>2, Zenon DEF InMemory, Listing
    <3>10. st'[g].pc # "index"
      BY <3>1, Zenon DEF StBecomes
    <3> QED BY <2>3, <3>4, <3>5, <3>6, <3>7, <3>8, <3>9, <3>10, AdvanceKeeps, Zenon
  <2> QED BY <2>1, <2>5, <2>6, Zenon DEF SweepRelease
<1> QED BY <1>SweepStartKeeps, <1>SweepHoldKeeps, <1>SweepReleaseKeeps, <1>SweepListKeeps,
    <1>SweepPendingKeeps, <1>SweepStopKeeps, <1>SweepNextKeeps, <1>SweepCompactKeeps, <1>SweepDirsKeeps,
    <1>SweepDirKeeps, <1>SweepDirStopKeeps, <1>SweepOrphanKeeps, <1>SweepOrphanStopKeeps, <1>SweepMarkKeeps,
    <1>SweepReclaimKeeps, <1>SweepUnownedKeeps, <1>SweepUnownedLiveKeeps, <1>RetryKeeps, <1>FailClosedKeeps, <1>ReplaceClientKeeps,
    <1>ReplaceCopyKeeps, Zenon DEF SweepStep, WriteStep

-----------------------------------------------------------------------------

\* The steps of a run.
LEMMA StartStepKeeps ==
    ASSUME MaxFault = 0 \/ ~Rolling
    PROVE  \A g \in Gateways : IInv /\ (StartStep(g) \/ \E c \in Clients : Start(g, c)) => IInv'
\* What does not depend on the record.
<1>BindingFrame. ASSUME IInv, NEW g \in Gateways, NEW x, NEW l \in {"index", "backout"}, Binding(g, x, l),
             st[g].pc \in {"fill", "index"}
      PROVE  /\ Ids' /\ Alone'
             /\ \A w : Ended(w)' <=> Ended(w)
             /\ \A y : Known(y) => Known(y)'
             /\ \A h \in Gateways, y \in Record : InMemory(h, y)' <=> InMemory(h, y)
             /\ \A h \in Gateways : SweepPlace(h)' /\ Leased(h)' /\ Place(h)'
             /\ \A h \in Gateways : h # g => st[h].pc \notin {"fill", "index"}
             /\ st[g].c \in Clients /\ st[g].w \in 1..minted
  <2> USE <1>BindingFrame
  <2>1. Ids' /\ st[g].w \in 1..minted
    BY DEF IInv, Ids, Numbered, Binding
  <2>2. Alone'
    BY Zenon DEF IInv, Alone, Binding
  <2>3. \A w : Ended(w)' <=> Ended(w)
    <3>1. st[g].pc \notin Late /\ st'[g].pc \notin Late /\ st'[g].w = st[g].w
      BY Zenon DEF Late, Binding
    <3> QED BY <3>1, Zenon DEF Ended, Binding
  <2>4. \A y : Known(y) => Known(y)'
    BY <2>3, Zenon DEF Known, Binding
  <2>5. \A h \in Gateways, y \in Record : InMemory(h, y)' <=> InMemory(h, y)
    BY Zenon DEF Binding, InMemory
  <2>6. ASSUME NEW h \in Gateways PROVE SweepPlace(h)' /\ Leased(h)' /\ Place(h)'
    <3>1. SweepPlace(h) /\ Leased(h) /\ Place(h)
      BY Zenon DEF IInv
    <3>2. SweepPlace(h)'
      <4>1. sw'[h] = sw[h] /\ (st[h].pc = "held" => st'[h].pc = "held")
        BY Zenon DEF Binding
      <4> QED BY <2>3, <3>1, <4>1, Zenon DEF SweepPlace
    <3>3. Leased(h)'
      <4>1. /\ st'[h].w = st[h].w /\ st'[h].freed = st[h].freed
            /\ st'[h].pc = st[h].pc \/ (st[h].pc \in {"fill", "index"} /\ st'[h].pc \in {"index", "backout"})
            /\ alive' = alive /\ inc' = inc /\ lease' = lease
        BY Zenon DEF Binding
      <4> QED BY <3>1, <4>1, Zenon DEF Leased, Holds, MyRow, Late
    <3>4. Place(h)'
      <4>1. alive' = alive /\ sw' = sw /\ wr' = wr
        BY Zenon DEF Binding
      <4>2. CASE h = g
        <5>1. st[g].pc # Idle.pc
          BY Zenon DEF Idle
        <5>2. alive[g] /\ sw[g].pc \notin SweepSync /\ wr[g] = None /\ ~st[g].freed /\ st[g].c \in Clients
          BY <3>1, <4>2, <5>1, Zenon DEF Place, StartSync
        <5> QED BY <4>1, <4>2, <5>2, Zenon DEF Place, Binding
      <4>3. CASE h # g
        <5>1. st'[h] = st[h]
          BY <4>3, Zenon DEF Binding
        <5> QED BY <3>1, <4>1, <5>1, Zenon DEF Place
      <4> QED BY <4>2, <4>3, Zenon
    <3> QED BY <3>2, <3>3, <3>4, Zenon
  <2>7. ASSUME NEW h \in Gateways, h # g PROVE st[h].pc \notin {"fill", "index"}
    <3>1. st[g].pc \in {"fill", "index"} => Holds(g)
      BY Zenon DEF Holds
    <3>2. st[h].pc \in {"fill", "index"} => Holds(h)
      BY Zenon DEF Holds
    <3>3. Leased(g) /\ Leased(h)
      BY Zenon DEF IInv
    <3> QED BY <2>7, <3>1, <3>2, <3>3, OneHolder, Zenon
  <2>8. st[g].c \in Clients
    BY Zenon DEF IInv, Place
  <2> QED BY <2>1, <2>2, <2>3, <2>4, <2>5, <2>6, <2>7, <2>8, Zenon
<1>BindKeeps. ASSUME IInv, NEW g \in Gateways, st[g].pc = "fill", Types',
             NEW x \in Record, x.c = st[g].c, x.w = st[g].w, x.status = "running", x.pending,
             Binding(g, x, "index")
      PROVE  IInv'
  <2> USE <1>BindKeeps
  <2>1. Ids' /\ Alone' /\ \A h \in Gateways : SweepPlace(h)' /\ Leased(h)' /\ Place(h)'
    BY <1>BindingFrame, Zenon
  <2>2. \A y : Known(y) => Known(y)'
    BY <1>BindingFrame, Zenon
  <2>3. \A h \in Gateways, y \in Record : InMemory(h, y)' => Bound(y) /\ Known(y)
    BY <1>BindingFrame, Zenon DEF IInv, Records
  <2>4. st[g].c \in Clients /\ st[g].w \in 1..minted /\ minted' = minted
    BY <1>BindingFrame, Zenon DEF Binding
  <2>5. client[st[g].c] = Torn /\ ~IsRecord(client[st[g].c])
    BY Zenon DEF IInv, Run, IsRecord
  <2>6. client'[st[g].c] = x /\ IsRecord(x) /\ \A c \in Clients : c # st[g].c => client'[c] = client[c]
    BY RecordFacts, Zenon DEF Binding
  <2>7. \A y \in Record : Bound(y) => y.c # st[g].c /\ Bound(y)'
    <3>1. \A y \in Record : y.c \in Clients
      BY RecordFacts, Zenon
    <3> QED BY <2>5, <2>6, <3>1, Zenon DEF Bound
  <2>8. \A c \in Clients : c # st[g].c /\ IsRecord(client[c]) => client[c].w # st[g].w
    BY Zenon DEF IInv, Run
  <2>9. Records'
    <3>1. ASSUME NEW c \in Clients, IsRecord(client[c])' PROVE client'[c].c = c /\ Known(client[c])'
      <4>1. CASE c = st[g].c
        <5>1. client'[c] = x /\ x.w <= minted'
          BY <2>4, <2>6, <4>1
        <5>2. Known(x)'
          BY <5>1, Zenon DEF Known
        <5> QED BY <4>1, <5>1, <5>2, Zenon DEF Known
      <4>2. CASE c # st[g].c
        <5>1. client'[c] = client[c]
          BY <2>6, <4>2, Zenon
        <5>2. client[c].c = c /\ Known(client[c])
          BY <3>1, <5>1, Zenon DEF IInv, Records
        <5>3. Known(client'[c]) => Known(client[c])'
          BY <2>2, Zenon DEF Known
        <5> QED BY <5>1, <5>2, <5>3, Zenon
      <4> QED BY <4>1, <4>2, Zenon
    <3>2. ASSUME NEW c \in Clients, NEW d \in Clients, IsRecord(client[c])', IsRecord(client[d])',
                 client'[c].w = client'[d].w
          PROVE  c = d
      <4>1. \A e \in Clients : e # st[g].c /\ IsRecord(client[e])' => IsRecord(client[e])
            /\ client'[e] = client[e]
        BY <2>6, Zenon
      <4> QED BY <2>6, <2>8, <3>2, <4>1 DEF IInv, Records
    <3>3. \A h \in Gateways : \A y \in Record : InMemory(h, y)' => Bound(y)' /\ Known(y)'
      BY <2>2, <2>3, <2>7, Zenon
    <3> QED BY <3>1, <3>2, <3>3, Zenon DEF Records
  <2>10. ExecutedIsBound'
    <3>1. \A c \in Clients : IsRecord(client[c]) => IsRecord(client[c])' /\ client'[c] = client[c]
      BY <2>5, <2>6, Zenon
    <3>2. ran' = ran
      BY Zenon DEF Binding
    <3> QED BY <3>1, <3>2, Zenon DEF IInv, ExecutedIsBound
  <2>11. ASSUME NEW h \in Gateways PROVE Run(h)'
    <3>1. Run(h) /\ ran' = ran /\ units' = units /\ Place(h)
      BY Zenon DEF IInv, Binding
    <3>2. CASE h = g
      <4>1. st'[h].pc = "index" /\ st'[h].c = st[g].c /\ st'[h].w = st[g].w /\ st[h].w \notin ran
        BY <3>1, <3>2, Zenon DEF Binding, Run
      <4> QED BY <2>6, <3>1, <3>2, <4>1, Zenon DEF Run
    <3>3. CASE h # g
      <4>1. st'[h] = st[h] /\ st[h].pc # "fill"
        BY <3>3, <1>BindingFrame, Zenon DEF Binding
      <4>2. st[h].pc \in {"lease", "admit", "fill", "backout"} =>
               \A c \in Clients : IsRecord(client[c])' => client'[c].w # st[h].w
        <5>1. st[h].w # st[g].w
          BY <2>4, <3>3 DEF IInv, Ids
        <5>2. \A c \in Clients : c # st[g].c => client'[c] = client[c]
          BY <2>6, Zenon
        <5> QED BY <2>6, <3>1, <5>1, <5>2, Zenon DEF Run
      <4>3. st[h].pc \in Started => IsRecord(client'[st[h].c]) /\ client'[st[h].c].w = st[h].w
        <5>1. st[h].pc \in Started => st[h].c \in Clients /\ IsRecord(client[st[h].c])
              /\ client[st[h].c].w = st[h].w
          BY <3>1, Zenon DEF Place, Run, Started
        <5> QED BY <2>5, <2>6, <5>1, Zenon
      <4> QED BY <3>1, <4>1, <4>2, <4>3, Zenon DEF Run
    <3> QED BY <3>2, <3>3, Zenon
  <2>12. ASSUME NEW h \in Gateways PROVE Unread(h)'
    <3>1. CASE h = g
      <4>1. st'[g].c = st[g].c
        BY Zenon DEF Binding
      <4> QED BY <2>3, <2>7, <3>1, <4>1, Zenon DEF Unread
    <3>2. CASE h # g
      <4>1. st'[h].pc # "index"
        BY <3>2, <1>BindingFrame, Zenon DEF Binding
      <4> QED BY <4>1, Zenon DEF Unread
    <3> QED BY <3>1, <3>2, Zenon
  <2> QED BY <2>1, <2>9, <2>10, <2>11, <2>12, Zenon DEF IInv
<1>UnbindKeeps. ASSUME IInv, NEW g \in Gateways, st[g].pc = "index", ~Rolling, Types',
             Binding(g, None, "backout")
      PROVE  IInv'
  <2> USE <1>UnbindKeeps
  <2>1. Ids' /\ Alone' /\ \A h \in Gateways : SweepPlace(h)' /\ Leased(h)' /\ Place(h)'
    BY <1>BindingFrame, Zenon
  <2>2. \A y : Known(y) => Known(y)'
    BY <1>BindingFrame, Zenon
  <2>3. \A h \in Gateways, y \in Record : InMemory(h, y)' => Bound(y) /\ Known(y) /\ y.c # st[g].c
    <3>1. Unread(g)
      BY Zenon DEF IInv
    <3> QED BY <3>1, <1>BindingFrame, Zenon DEF IInv, Records, Unread
  <2>4. st[g].c \in Clients /\ st[g].w \in 1..minted /\ minted' = minted
    BY <1>BindingFrame, Zenon DEF Binding
  <2>5. IsRecord(client[st[g].c]) /\ client[st[g].c].w = st[g].w /\ st[g].w \notin ran
    BY Zenon DEF IInv, Run, Started
  <2>6. ~IsRecord(client[st[g].c])' /\ \A c \in Clients : c # st[g].c => client'[c] = client[c]
    BY Zenon DEF Binding, IsRecord
  <2>7. \A c \in Clients : IsRecord(client[c])' => c # st[g].c /\ client'[c] = client[c] /\ IsRecord(client[c])
    BY <2>6, Zenon DEF Binding
  <2>8. \A c \in Clients : c # st[g].c /\ IsRecord(client[c]) => client[c].w # st[g].w
    BY <2>4, <2>5, Zenon DEF IInv, Records
  <2>9. Records'
    <3>1. ASSUME NEW c \in Clients, IsRecord(client[c])' PROVE client'[c].c = c /\ Known(client[c])'
      <4>1. client'[c] = client[c] /\ client[c].c = c /\ Known(client[c])
        BY <2>7, <3>1, Zenon DEF IInv, Records
      <4>2. Known(client'[c]) => Known(client[c])'
        BY <2>2, Zenon DEF Known
      <4> QED BY <4>1, <4>2, Zenon
    <3>2. ASSUME NEW c \in Clients, NEW d \in Clients, IsRecord(client[c])', IsRecord(client[d])',
                 client'[c].w = client'[d].w
          PROVE  c = d
      BY <2>7, <3>2, Zenon DEF IInv, Records
    <3>3. \A y \in Record : Bound(y) /\ y.c # st[g].c => Bound(y)'
      <4>1. \A y \in Record : y.c \in Clients
        BY RecordFacts, Zenon
      <4> QED BY <2>6, <4>1, Zenon DEF Bound
    <3>4. \A h \in Gateways : \A y \in Record : InMemory(h, y)' => Bound(y)' /\ Known(y)'
      BY <2>2, <2>3, <3>3, Zenon
    <3> QED BY <3>1, <3>2, <3>4, Zenon DEF Records
  <2>10. ExecutedIsBound'
    <3>1. \A c \in Clients : IsRecord(client[c]) /\ client[c].w \in ran => IsRecord(client[c])'
          /\ client'[c] = client[c]
      BY <2>5, <2>6, Zenon
    <3>2. ran' = ran
      BY Zenon DEF Binding
    <3> QED BY <3>1, <3>2, Zenon DEF IInv, ExecutedIsBound
  <2>11. ASSUME NEW h \in Gateways PROVE Run(h)'
    <3>1. Run(h) /\ ran' = ran /\ units' = units /\ Place(h)
      BY Zenon DEF IInv, Binding
    <3>2. CASE h = g
      <4>1. st'[h].pc = "backout" /\ st'[h].w = st[g].w
        BY <3>2, Zenon DEF Binding
      <4>2. \A c \in Clients : IsRecord(client[c])' => client'[c].w # st[g].w
        BY <2>7, <2>8, Zenon
      <4> QED BY <4>1, <4>2, Zenon DEF Run, Started
    <3>3. CASE h # g
      <4>1. st'[h] = st[h] /\ st[h].pc # "fill"
        BY <3>3, <1>BindingFrame, Zenon DEF Binding
      <4>2. st[h].pc \in {"lease", "admit", "fill", "backout"} =>
               \A c \in Clients : IsRecord(client[c])' => client'[c].w # st[h].w
        BY <2>7, <3>1, Zenon DEF Run
      <4>3. st[h].pc \in Started => IsRecord(client'[st[h].c]) /\ client'[st[h].c].w = st[h].w
        <5>1. st[h].pc \in Started => st[h].c \in Clients /\ IsRecord(client[st[h].c])
              /\ client[st[h].c].w = st[h].w
          BY <3>1, Zenon DEF Place, Run, Started
        <5>2. st[h].w # st[g].w
          BY <2>4, <3>3 DEF IInv, Ids
        <5> QED BY <2>5, <2>6, <5>1, <5>2, Zenon
      <4> QED BY <3>1, <4>1, <4>2, <4>3, Zenon DEF Run
    <3> QED BY <3>2, <3>3, Zenon
  <2>12. ASSUME NEW h \in Gateways PROVE Unread(h)'
    <3>1. st'[h].pc # "index"
      BY <1>BindingFrame, Zenon DEF Binding
    <3> QED BY <3>1, Zenon DEF Unread
  <2> QED BY <2>1, <2>9, <2>10, <2>11, <2>12, Zenon DEF IInv
(* The steps of a run keep the invariant.                                  *)
<1>AdvanceEnded. ASSUME Types, Records, NEW g \in Gateways, Advance(g),
             NEW h \in Gateways, SweepPlace(h), sw'[h] = sw[h],
             sw[h].pc \in {"stop", "dirStop", "orphanStop", "mark"}
      PROVE  Ended(sw[h].rec.w)'
  <2> USE <1>AdvanceEnded
  <2>1. sw[h].rec # None /\ Ended(sw[h].rec.w)
    BY Zenon DEF SweepPlace, Handling
  <2>2. sw[h].rec \in Record
    BY <2>1, Zenon DEF Types, SweepState
  <2>3. Known(sw[h].rec)
    BY <2>1, <2>2, Zenon DEF Records, InMemory
  <2>4. sw[h].rec.w \in 1..minted
    BY <2>2, <2>3, KnownStays, Zenon
  <2>5. \A w \in 1..minted : Ended(w) => Ended(w)'
    BY OverStays, Zenon
  <2>6. ASSUME NEW w \in 1..minted, Ended(w)', w = sw[h].rec.w PROVE Ended(sw[h].rec.w)'
    BY <2>6, Zenon DEF Ended
  <2> QED BY <2>1, <2>4, <2>5, <2>6, Zenon
<1>RunKeeps. ASSUME IInv, NEW g \in Gateways, NEW l \in StartLabel, StAt(g, l), l # "held",
             NEW m, NEW c, NEW w, NEW p, NEW f, StBecomes(g, m, c, w, p, f), m # "index",
             Advance(g), Types', sw' = sw,
             Publishes(g, m), Sane(m, c, p, f), Numbered(g)', Leased(g)', Run(g)'
      PROVE  IInv'
  <2> USE <1>RunKeeps
  <2>1. /\ Types /\ Records /\ SweepPlace(g) /\ Place(g)
        /\ st[g].pc = l /\ alive[g] /\ wr[g] = None /\ sw[g].pc \notin SweepSync
    BY RunAt, Zenon
  <2>2. st'[g].pc = m /\ st'[g].c = c /\ st'[g].pend = p /\ st'[g].freed = f /\ alive'[g]
    BY <2>1, Zenon DEF StBecomes, Advance
  <2>3. Place(g)'
    <3>1. m \in StartSync => wr' = wr
      BY Zenon DEF StartSync, Publishes
    <3> QED BY <2>1, <2>2, <3>1, Zenon DEF Place, Sane
  <2>4. SweepPlace(g)'
    <3>1. sw[g].pc \notin {"hold", "release", "releaseNext"}
      BY <2>1, Zenon DEF SweepPlace
    <3>2. sw[g].pc \in {"stop", "dirStop", "orphanStop", "mark"} => Ended(sw[g].rec.w)'
      BY <2>1, <1>AdvanceEnded, Zenon
    <3> QED BY <2>1, <3>1, <3>2, Zenon DEF SweepPlace
  <2>5. \A x \in Record : InMemory(g, x)' => InMemory(g, x) \/ (Bound(x)' /\ Known(x)')
    <3>1. CASE wr' = wr
      BY <3>1, Zenon DEF InMemory
    <3>2. CASE wr' # wr
      <4>1. PICK y \in Record : Persist(g, y) /\ Bound(y)' /\ Known(y)'
        BY <3>2, Zenon DEF Publishes
      <4>2. wr'[g].rec = y
        BY <2>1, <4>1, Persists, Zenon
      <4> QED BY <4>1, <4>2, Zenon DEF InMemory
    <3> QED BY <3>1, <3>2, Zenon
  <2> QED BY <2>1, <2>2, <2>3, <2>4, <2>5, AdvanceKeeps, Zenon
\* The records a run writes.
<1>Made. ASSUME NEW g \in Gateways, st[g].c \in Clients, st[g].w \in WorkIds, st[g].pend \in BOOLEAN
      PROVE  /\ \E x \in Record : /\ x = [c |-> st[g].c, w |-> st[g].w, status |-> "running", result |-> FALSE,
                                          pending |-> TRUE]
                                  /\ x.c = st[g].c /\ x.w = st[g].w /\ x.status = "running" /\ x.pending
             /\ \E x \in Record : /\ x = [c |-> st[g].c, w |-> st[g].w, status |-> "terminal", result |-> TRUE,
                                          pending |-> st[g].pend]
                                  /\ x.c = st[g].c /\ x.w = st[g].w /\ x.status = "terminal"
                                  /\ x.pending = st[g].pend /\ x.result
  <2> USE <1>Made
  <2>1. /\ [c |-> st[g].c, w |-> st[g].w, status |-> "running", result |-> FALSE, pending |-> TRUE] \in Record
        /\ [c |-> st[g].c, w |-> st[g].w, status |-> "terminal", result |-> TRUE, pending |-> st[g].pend] \in Record
    BY Zenon DEF Record, Status
  <2> QED BY <2>1, Zenon
<1>MoveKeeps. ASSUME IInv, NEW g \in Gateways, NEW l \in StartLabel, StAt(g, l), l # "held",
             NEW m, NEW c, NEW w, NEW p, NEW f, StBecomes(g, m, c, w, p, f), m # "index",
             Frame,
             Publishes(g, m),
             Passing(g, l, m, w), Launching(g, l, w), \A h \in Gateways : h # g /\ Holds(h) => lease' = lease,
             Sane(m, c, p, f), Numbered(g)', Leased(g)', Run(g)'
      PROVE  IInv'
  <2> USE <1>MoveKeeps
  <2>1. Types /\ st[g].pc = l /\ (l \in {"run", "harvest"} => st[g].w \in WorkIds)
    BY RunAt, Zenon
  <2>2. /\ st' \in [Gateways -> StartState] /\ st'[g].pc = m /\ st'[g].w = w
        /\ \A h \in Gateways : h # g => st'[h] = st[h]
    BY Zenon DEF StBecomes
  <2>3. WrOf(g)
    BY <2>1, Unmoved, Persists, Zenon DEF WrOf, Publishes
  <2>4. units' \subseteq WorkIds /\ ran' \subseteq WorkIds /\ minted' \in 0..MaxStarts
    BY <2>1, Zenon DEF Types, Passing, Launching
  <2>5. Types'
    BY <2>1, <2>2, <2>3, <2>4, Zenon DEF Types, WrOf, FaultType, JobType, Frame
  <2>6. Advance(g)
    BY <2>1, <2>2, <2>3, Zenon DEF Advance, WrOf, Frame, Passing, Launching
  <2> QED BY <2>5, <2>6, <1>RunKeeps, Zenon DEF Frame
\* A run that is neither new nor over goes to its next place.
<1>GotoKeeps. ASSUME IInv, NEW g \in Gateways, NEW l \in StartLabel, StAt(g, l),
             l \notin {"idle", "read"} \cup Late,
             NEW m \in StartLabel, StGoto(g, m), m \notin {"idle", "read", "index"},
             Frame, wr' = wr, minted' = minted,
             Launching(g, l, st[g].w),
             \A h \in Gateways : h # g /\ Holds(h) => lease' = lease,
             Leased(g)', Run(g)'
      PROVE  IInv'
  <2> USE <1>GotoKeeps
  <2>1. Types /\ Place(g) /\ st[g].pc = l /\ st[g].c \in Clients /\ st[g].w \in 1..minted
    BY RunAt, Zenon
  <2>2. StBecomes(g, m, st[g].c, st[g].w, st[g].pend, st[g].freed)
    BY <2>1, StTypes, StMovesOn, Zenon
  <2>3. ~st[g].freed
    BY <2>1, Zenon DEF Place, Late
  <2>4. Numbered(g)'
    BY <2>1, <2>2, Zenon DEF Numbered, StBecomes
  <2>5. l # "held" /\ m # "index" /\ m # "idle"
    BY Zenon DEF Late
  <2>6. Passing(g, l, m, st[g].w) /\ Publishes(g, m) /\ Sane(m, st[g].c, st[g].pend, st[g].freed)
    BY <2>1, <2>3, Zenon DEF Passing, Publishes, Sane
  <2> QED BY <2>1, <2>2, <2>3, <2>4, <2>5, <2>6, <1>MoveKeeps, Zenon
<1>StartKeeps. ASSUME IInv, NEW g \in Gateways, NEW c \in Clients, Start(g, c)
      PROVE  IInv'
  <2> USE <1>StartKeeps
  <2>1. StAt(g, "idle") /\ "idle" \in StartLabel /\ "read" \in StartLabel
    BY Zenon DEF Start, StartLabel
  <2>2. Types /\ st[g].pc = "idle"
    BY <2>1, RunAt, Zenon
  <2>3. StBecomes(g, "read", c, 0, FALSE, FALSE)
    <3>0. \A s \in StartState : LET u == [s EXCEPT !.pc = "read", !.c = c] IN
             u \in StartState /\ u.pc = "read" /\ u.c = c /\ u.w = s.w /\ u.pend = s.pend /\ u.freed = s.freed
      BY <2>1, Zenon DEF StartState
    <3>1. PICK u \in StartState : /\ u = [Idle EXCEPT !.pc = "read", !.c = c] /\ u.pc = "read" /\ u.c = c
                                  /\ u.w = 0 /\ u.pend = FALSE /\ u.freed = FALSE
      BY <3>0, Initial, Zenon DEF Idle
    <3>2. StBecomes(g, u.pc, u.c, u.w, u.pend, u.freed)
      BY <2>2, <3>1, StTypes, StSets, Zenon DEF Start
    <3> QED BY <3>1, <3>2, Zenon
  <2>4. Frame
    BY <2>2, Zenon DEF Start, Types, JobType, FaultType, Frame, store, budget
  <2>5. Numbered(g)' /\ Leased(g)' /\ Run(g)'
    BY <2>3, Zenon DEF StBecomes, Numbered, Leased, Holds, Late, Run, Started
  <2> QED BY <2>1, <2>3, <2>4, <2>5, <1>MoveKeeps, Zenon DEF Start, store, budget, Passing, Launching, Sane,
      Publishes
\* startCodeLoop after the transport probe.
<1>AdmitKeeps. ASSUME IInv, NEW g \in Gateways, Admit(g)
      PROVE  IInv'
  <2> USE <1>AdmitKeeps
  <2>1. StAt(g, "read") /\ "read" \in StartLabel /\ "lease" \in StartLabel
    BY Zenon DEF Admit, StartLabel
  <2>2. Types /\ Ids /\ Records /\ Place(g) /\ st[g].pc = "read" /\ st[g].c \in Clients
    BY <2>1, RunAt, Zenon
  <2>3. Frame
    BY <2>2, Zenon DEF Admit, Types, JobType, FaultType, Frame, store, budget
  <2>4. CASE st' = [st EXCEPT ![g] = Idle] /\ minted' = minted
    <3>1. StBecomes(g, "idle", None, 0, FALSE, FALSE)
      BY <2>2, <2>4, StTypes, StIdles, Zenon
    <3>2. Numbered(g)' /\ Leased(g)' /\ Run(g)'
      BY <3>1, Zenon DEF StBecomes, Numbered, Leased, Holds, Late, Run, Started
    <3> QED BY <2>1, <2>2, <2>3, <2>4, <3>1, <3>2, <1>MoveKeeps, Zenon DEF Admit, Passing, Launching, Sane,
        Publishes
  <2>5. CASE /\ minted < MaxStarts /\ minted' = minted + 1
             /\ st' = [st EXCEPT ![g].pc = "lease", ![g].w = minted + 1]
    <3>1. minted + 1 \in 0..MaxStarts /\ minted + 1 \in 1..minted' /\ minted \in Nat
      BY <2>2, <2>5, CodeLoopAssumption DEF Types
    <3>2. StBecomes(g, "lease", st[g].c, minted + 1, st[g].pend, st[g].freed)
      BY <2>1, <2>2, <2>5, <3>1, StTypes, StAdmits, Zenon
    <3>3. ~st[g].freed
      BY <2>2, Zenon DEF Place
    <3>4. Numbered(g)' /\ Leased(g)'
      BY <3>1, <3>2, Zenon DEF StBecomes, Numbered, Leased, Holds, Late
    <3>5. ran' = ran /\ client' = client
      BY Zenon DEF Admit, store
    <3>6. minted + 1 \notin ran
      BY <2>2, <3>1 DEF Ids
    <3>7. \A d \in Clients : IsRecord(client[d]) => client[d].w # minted + 1
      BY <2>2, <3>1, OnDisk, RecordFacts DEF Known, WorkIds
    <3>8. Run(g)'
      BY <3>2, <3>5, <3>6, <3>7, Zenon DEF Run, StBecomes, Started
    <3> QED BY <2>1, <2>2, <2>3, <2>5, <3>1, <3>2, <3>3, <3>4, <3>8, <1>MoveKeeps DEF Admit, store, budget,
        Passing, Launching, Sane, Publishes
  <2> QED BY <2>4, <2>5, Zenon DEF Admit
<1>RowOf. ASSUME Types, Ids, NEW h \in Gateways, Holds(h)
      PROVE  /\ MyRow(h) \in Row /\ MyRow(h) # None
             /\ MyRow(h).g = h /\ MyRow(h).i = inc[h] /\ MyRow(h).w = st[h].w
  <2> USE <1>RowOf
  <2>1. st[h].pc \notin {"idle", "read"}
    BY Zenon DEF Holds, Late
  <2>2. st[h].w \in WorkIds
    BY <2>1, CodeLoopAssumption DEF Ids, Numbered, Types, WorkIds
  <2>3. MyRow(h) \in Row
    BY <2>2, Zenon DEF MyRow, Row, Types
  <2> QED BY <2>3, CodeLoopAssumption, Zenon DEF MyRow
\* acquireDurableCodeLoopLease.
<1>AcquireKeeps. ASSUME IInv, NEW g \in Gateways, Acquire(g)
      PROVE  IInv'
  <2> USE <1>AcquireKeeps
  <2>1. StAt(g, "lease") /\ "lease" \in StartLabel /\ "admit" \in StartLabel
    BY Zenon DEF Acquire, StartLabel
  <2>2. /\ Types /\ Place(g) /\ Run(g) /\ st[g].pc = "lease" /\ alive[g] /\ st[g].c \in Clients
        /\ st[g].w \in 1..minted /\ st[g].w \in WorkIds
    BY <2>1, RunAt, Zenon
  <2>3. lease' \in Row \cup {None} => Frame
    BY <2>2, Zenon DEF Acquire, Types, JobType, FaultType, Frame, store, budget
  <2>4. CASE st' = [st EXCEPT ![g] = Idle] /\ lease' = lease
    <3>1. StBecomes(g, "idle", None, 0, FALSE, FALSE)
      BY <2>2, <2>4, StTypes, StIdles, Zenon
    <3>2. Numbered(g)' /\ Leased(g)' /\ Run(g)'
      BY <3>1, Zenon DEF StBecomes, Numbered, Leased, Holds, Late, Run, Started
    <3>3. lease' \in Row \cup {None}
      BY <2>2, <2>4, Zenon DEF Types
    <3> QED BY <2>1, <2>2, <2>3, <2>4, <3>1, <3>2, <3>3, <1>MoveKeeps, Zenon DEF Acquire, Passing, Launching,
        Sane, Publishes
  <2>5. CASE /\ lease = None \/ (lease.g = g /\ lease.i = inc[g]) \/ ~OwnerAlive
             /\ lease' = [g |-> g, i |-> inc[g], w |-> st[g].w] /\ StGoto(g, "admit")
    <3>1. StBecomes(g, "admit", st[g].c, st[g].w, st[g].pend, st[g].freed)
      BY <2>1, <2>2, <2>5, StTypes, StMovesOn, Zenon
    <3>3. lease' \in Row
      BY <2>2, <2>5, Zenon DEF Row, Types
    <3>4. ASSUME NEW h \in Gateways, h # g, Holds(h) PROVE FALSE
      <4>1. alive[h] /\ lease = MyRow(h)
        BY <3>4, Zenon DEF IInv, Leased
      <4>2. lease # None /\ lease.g = h /\ lease.i = inc[h]
        BY <3>4, <4>1, <1>RowOf, Zenon DEF IInv
      <4> QED BY <2>5, <3>4, <4>1, <4>2, Zenon DEF OwnerAlive
    <3>5. UNCHANGED <<alive, inc, client, ran, minted>>
      BY Zenon DEF Acquire, store
    <3>6. Leased(g)' /\ Run(g)'
      BY <2>2, <2>5, <3>1, <3>5, Zenon DEF StBecomes, Leased, MyRow, Run, Started
    <3>7. Frame /\ UNCHANGED <<wr, units>> /\ "lease" \notin {"idle", "read"} \cup Late
      BY <2>3, <3>3, Zenon DEF Acquire, Late
    <3> QED BY <2>1, <2>5, <3>4, <3>5, <3>6, <3>7, <1>GotoKeeps, Zenon DEF Launching
  <2> QED BY <2>4, <2>5, Zenon DEF Acquire
<1>RefuseKeeps. ASSUME IInv, NEW g \in Gateways, Refuse(g)
      PROVE  IInv'
  <2> USE <1>RefuseKeeps
  <2>1. StAt(g, "admit") /\ "admit" \in StartLabel /\ "backout" \in StartLabel
    BY Zenon DEF Refuse, StartLabel
  <2>2. /\ Types /\ Place(g) /\ Run(g) /\ Leased(g) /\ st[g].pc = "admit" /\ st[g].c \in Clients
        /\ st[g].w \in 1..minted
    BY <2>1, RunAt, Zenon
  <2>3. Frame
    BY <2>2, Zenon DEF Refuse, Types, JobType, FaultType, Frame, store, budget
  <2>4. StBecomes(g, "backout", st[g].c, st[g].w, st[g].pend, st[g].freed) /\ StGoto(g, "backout")
    BY <2>1, <2>2, StTypes, StMovesOn, Zenon DEF Refuse
  <2>5. UNCHANGED <<alive, inc, client, lease, ran, units, minted, wr>>
        /\ "admit" \notin {"idle", "read"} \cup Late
    BY Zenon DEF Refuse, store, Late
  <2>6. Leased(g)' /\ Run(g)'
    BY <2>2, <2>4, <2>5, Zenon DEF StBecomes, Leased, Holds, MyRow, Run, Started
  <2> QED BY <2>1, <2>3, <2>4, <2>5, <2>6, <1>GotoKeeps, Zenon DEF Launching
\* rollbackAdmission.
<1>BackoutKeeps. ASSUME IInv, NEW g \in Gateways, Backout(g)
      PROVE  IInv'
  <2> USE <1>BackoutKeeps
  <2>1. StAt(g, "backout") /\ "backout" \in StartLabel
    BY Zenon DEF Backout, StartLabel
  <2>2. Types /\ st[g].pc = "backout"
    BY <2>1, RunAt, Zenon
  <2>3. lease' \in Row \cup {None} /\ \A h \in Gateways : h # g /\ Holds(h) => lease' = lease
    BY <2>2, Releasing, Zenon DEF Backout, IInv, Types
  <2>4. Frame
    BY <2>2, <2>3, Faulting, Zenon DEF Backout, Types, JobType, Frame, store
  <2>5. StBecomes(g, "idle", None, 0, FALSE, FALSE)
    BY <2>2, StTypes, StIdles, Zenon DEF Backout
  <2>6. Numbered(g)' /\ Leased(g)' /\ Run(g)'
    BY <2>5, Zenon DEF StBecomes, Numbered, Leased, Holds, Late, Run, Started
  <2> QED BY <2>1, <2>3, <2>4, <2>5, <2>6, <1>MoveKeeps, Zenon DEF Backout, Passing, Launching, Sane, Publishes
<1>EngineStartKeeps. ASSUME IInv, NEW g \in Gateways, EngineStart(g)
      PROVE  IInv'
  <2> USE <1>EngineStartKeeps
  <2>1. StAt(g, "run") /\ "run" \in StartLabel /\ "engine" \in StartLabel
    BY Zenon DEF EngineStart, StartLabel
  <2>2. Types /\ Run(g) /\ Leased(g) /\ st[g].pc = "run"
    BY <2>1, RunAt, Zenon
  <2>3. Frame
    BY <2>2, Zenon DEF EngineStart, Types, JobType, FaultType, Frame, store, budget
  <2>4. StBecomes(g, "engine", st[g].c, st[g].w, st[g].pend, st[g].freed) /\ StGoto(g, "engine")
    BY <2>1, <2>2, StTypes, StMovesOn, Zenon DEF EngineStart
  <2>5. UNCHANGED <<alive, inc, client, lease, minted, wr>> /\ "run" \notin {"idle", "read"} \cup Late
    BY Zenon DEF EngineStart, store, Late
  <2>6. Leased(g)' /\ Run(g)'
    BY <2>2, <2>4, <2>5, Zenon DEF StBecomes, Leased, Holds, MyRow, Run, Started
  <2> QED BY <2>1, <2>3, <2>4, <2>5, <2>6, <1>GotoKeeps, Zenon DEF EngineStart, Launching
\* The owner's check may follow a clean harvest.
<1>HarvestKeeps. ASSUME IInv, NEW g \in Gateways, Harvest(g)
      PROVE  IInv'
  <2> USE <1>HarvestKeeps
  <2>1. StAt(g, "harvest") /\ "harvest" \in StartLabel /\ "check" \in StartLabel /\ "final" \in StartLabel
    BY Zenon DEF Harvest, StartLabel
  <2>2. Types /\ Run(g) /\ Leased(g) /\ st[g].pc = "harvest"
    BY <2>1, RunAt, Zenon
  <2>3. Frame
    BY <2>2, Zenon DEF Harvest, Types, JobType, FaultType, Frame, store, budget
  <2>4. UNCHANGED <<alive, inc, client, lease, minted, wr>> /\ "harvest" \notin {"idle", "read"} \cup Late
    BY Zenon DEF Harvest, store, Late
  <2>5. PICK m \in {"check", "final"} :
           /\ StGoto(g, m)
           /\ IF m = "check" THEN units' = units \cup {st[g].w} /\ ran' = ran \cup {st[g].w}
                             ELSE units' = units /\ ran' = ran
    BY Zenon DEF Harvest
  <2>6. StBecomes(g, m, st[g].c, st[g].w, st[g].pend, st[g].freed) /\ m \in StartLabel
        /\ m \notin {"idle", "read", "index"}
    BY <2>1, <2>2, <2>5, StTypes, StMovesOn, Zenon
  <2>7. Leased(g)' /\ Run(g)'
    BY <2>2, <2>4, <2>5, <2>6 DEF StBecomes, Leased, Holds, MyRow, Run, Started
  <2> QED BY <2>1, <2>3, <2>4, <2>5, <2>6, <2>7, <1>GotoKeeps, Zenon DEF Launching
\* cleanupUnit after the engine and after the check.
<1>CleanupKeeps. ASSUME IInv, NEW g \in Gateways, EngineEnd(g) \/ CheckEnd(g)
      PROVE  IInv'
  <2> USE <1>CleanupKeeps
  <2>1. PICK l \in {"engine", "check"}, m \in {"harvest", "final"} : CleanupUnit(g, l, m)
    BY Zenon DEF EngineEnd, CheckEnd
  <2>2. StAt(g, l) /\ l \in StartLabel /\ m \in StartLabel /\ l # "held" /\ m # "index" /\ m # "idle"
        /\ l \notin Late
    BY <2>1, Zenon DEF CleanupUnit, StartLabel, Late
  <2>3. /\ Types /\ Place(g) /\ Run(g) /\ Leased(g) /\ st[g].pc = l
        /\ st[g].c \in Clients /\ st[g].w \in 1..minted
    BY <2>2, RunAt, Zenon
  <2>4. Frame
    BY <2>1, <2>3, Zenon DEF CleanupUnit, Types, JobType, FaultType, Frame, store, budget
  <2>5. UNCHANGED <<alive, inc, client, lease, minted, wr, ran>>
    BY <2>1, Zenon DEF CleanupUnit, store
  <2>6. PICK p \in BOOLEAN : /\ st' = [st EXCEPT ![g].pc = m, ![g].pend = p]
                             /\ units' \subseteq units /\ (~p => st[g].w \notin units')
    BY <2>1, Zenon DEF CleanupUnit
  <2>7. StBecomes(g, m, st[g].c, st[g].w, p, st[g].freed)
    BY <2>2, <2>3, <2>6, StTypes, StPends, Zenon
  <2>8. ~st[g].freed
    BY <2>3, Zenon DEF Place
  <2>9. Numbered(g)' /\ Leased(g)' /\ Run(g)'
    BY <2>3, <2>5, <2>6, <2>7, Zenon DEF StBecomes, Numbered, Leased, Holds, MyRow, Run, Started
  <2>10. Passing(g, l, m, st[g].w) /\ Launching(g, l, st[g].w) /\ Publishes(g, m)
         /\ Sane(m, st[g].c, p, st[g].freed)
    BY <2>2, <2>3, <2>5, <2>6, <2>8, Zenon DEF Passing, Launching, Publishes, Sane
  <2> QED BY <2>2, <2>4, <2>5, <2>7, <2>9, <2>10, <1>MoveKeeps, Zenon
\* A whole-job run gives its lease back before it publishes.
<1>FinalizeKeeps. ASSUME IInv, NEW g \in Gateways, Finalize(g)
      PROVE  IInv'
  <2> USE <1>FinalizeKeeps
  <2>1. StAt(g, "final") /\ "final" \in StartLabel /\ "publish" \in StartLabel
        /\ "final" \notin {"idle", "read"} \cup Late
    BY Zenon DEF Finalize, StartLabel, Late
  <2>2. /\ Types /\ Place(g) /\ Run(g) /\ Leased(g) /\ st[g].pc = "final"
        /\ st[g].c \in Clients /\ st[g].w \in 1..minted
    BY <2>1, RunAt, Zenon
  <2>3. lease' \in Row \cup {None} /\ \A h \in Gateways : h # g /\ Holds(h) => lease' = lease
    BY <2>2, Releasing, Zenon DEF Finalize, IInv, Types
  <2>4. Frame
    BY <2>2, <2>3, Faulting, Zenon DEF Finalize, Types, JobType, Frame, store
  <2>5. UNCHANGED <<alive, inc, client, minted, wr, ran, units>>
    BY Zenon DEF Finalize, store
  <2>6. CASE StGoto(g, "publish") /\ lease' = lease
    <3>1. StBecomes(g, "publish", st[g].c, st[g].w, st[g].pend, st[g].freed)
      BY <2>1, <2>2, <2>6, StTypes, StMovesOn, Zenon
    <3>2. Leased(g)' /\ Run(g)'
      BY <2>2, <2>5, <2>6, <3>1, Zenon DEF StBecomes, Leased, Holds, MyRow, Run, Started
    <3> QED BY <2>1, <2>3, <2>4, <2>5, <2>6, <3>2, <1>GotoKeeps, Zenon DEF Launching
  <2>7. CASE st' = [st EXCEPT ![g].pc = "publish", ![g].freed = TRUE] /\ ~st[g].pend
    <3>1. StBecomes(g, "publish", st[g].c, st[g].w, st[g].pend, TRUE)
      BY <2>1, <2>2, <2>7, StTypes, StFrees, Zenon
    <3>2. Numbered(g)' /\ Leased(g)' /\ Run(g)'
      BY <2>2, <2>5, <3>1, Zenon DEF StBecomes, Numbered, Leased, Holds, Run, Started
    <3>3. /\ Passing(g, "final", "publish", st[g].w) /\ Launching(g, "final", st[g].w)
          /\ Publishes(g, "publish") /\ Sane("publish", st[g].c, st[g].pend, TRUE)
      BY <2>1, <2>2, <2>5, <2>7, Zenon DEF Passing, Launching, Publishes, Sane
    <3> QED BY <2>1, <2>3, <2>4, <3>1, <3>2, <3>3, <1>MoveKeeps, Zenon
  <2> QED BY <2>6, <2>7, Zenon DEF Finalize
\* The terminal result is persisted.
<1>PublishKeeps. ASSUME IInv, NEW g \in Gateways, Publish(g)
      PROVE  IInv'
  <2> USE <1>PublishKeeps
  <2>1. StAt(g, "publish") /\ "publish" \in StartLabel /\ "settle" \in StartLabel /\ "settle" \in Late
    BY Zenon DEF Publish, StartLabel, Late
  <2>2. /\ Types /\ Ids /\ Place(g) /\ Run(g) /\ Leased(g) /\ st[g].pc = "publish"
        /\ st[g].c \in Clients /\ st[g].w \in 1..minted /\ st[g].w \in WorkIds
    BY <2>1, RunAt, Zenon
  <2>3. Frame
    BY <2>2, Faulting, Zenon DEF Publish, Types, JobType, Frame, store
  <2>4. UNCHANGED <<alive, inc, client, lease, minted, ran, units>>
    BY Zenon DEF Publish, store
  <2>5. StBecomes(g, "settle", st[g].c, st[g].w, st[g].pend, st[g].freed)
    BY <2>1, <2>2, StTypes, StMovesOn, Zenon DEF Publish
  <2>6. Numbered(g)' /\ Leased(g)' /\ Run(g)'
    BY <2>2, <2>4, <2>5, Zenon DEF StBecomes, Numbered, Leased, Holds, MyRow, Run, Started, Late
  <2>7. /\ Passing(g, "publish", "settle", st[g].w) /\ Launching(g, "publish", st[g].w)
        /\ Sane("settle", st[g].c, st[g].pend, st[g].freed)
    BY <2>1, <2>2, <2>4, Zenon DEF Passing, Launching, Sane, Place
  <2>8. Publishes(g, "settle")
    <3>1. CASE wr' = wr
      BY <3>1, Zenon DEF Publishes
    <3>2. CASE wr' # wr
      <4>1. PICK x \in Record : /\ x = [c |-> st[g].c, w |-> st[g].w, status |-> "terminal", result |-> TRUE,
                                        pending |-> st[g].pend]
                                /\ x.c = st[g].c /\ x.w = st[g].w /\ x.pending = st[g].pend
        <5>1. st[g].pend \in BOOLEAN
          BY <2>2, Zenon DEF Types, StartState
        <5> QED BY <2>2, <5>1, <1>Made, Zenon
      <4>2. Persist(g, x)
        BY <3>2, <4>1, Zenon DEF Publish
      <4>3. Bound(x)'
        BY <2>2, <2>4, <4>1, Zenon DEF Bound, Run, Started
      <4>4. Ended(x.w)'
        <5>1. \A h \in Gateways : st'[h].w = st[g].w => h = g
          BY <2>2, <2>5 DEF Ids, StBecomes
        <5>2. \A h \in Gateways : st'[h].w = x.w => st'[h].pc \in Late
          BY <2>1, <2>5, <4>1, <5>1, Zenon DEF StBecomes
        <5> QED BY <5>2, Zenon DEF Ended
      <4>5. x.w <= minted' /\ (~x.pending => x.w \notin units')
        BY <2>2, <2>4, <4>1 DEF Run
      <4>6. Known(x)'
        BY <4>4, <4>5, Zenon DEF Known
      <4> QED BY <4>2, <4>3, <4>6, Zenon DEF Publishes
    <3> QED BY <3>1, <3>2, Zenon
  <2> QED BY <2>1, <2>3, <2>4, <2>5, <2>6, <2>7, <2>8, <1>MoveKeeps, Zenon
\* The lease goes back, unless the unit may still run.
<1>SettleKeeps. ASSUME IInv, NEW g \in Gateways, Settle(g)
      PROVE  IInv'
  <2> USE <1>SettleKeeps
  <2>1. StAt(g, "settle") /\ "settle" \in StartLabel /\ "held" \in StartLabel /\ "held" \in Late
    BY Zenon DEF Settle, StartLabel, Late
  <2>2. /\ Types /\ Place(g) /\ Run(g) /\ Leased(g) /\ st[g].pc = "settle"
        /\ st[g].c \in Clients /\ st[g].w \in 1..minted
    BY <2>1, RunAt, Zenon
  <2>3. lease' \in Row \cup {None} /\ \A h \in Gateways : h # g /\ Holds(h) => lease' = lease
    <3>1. lease' = lease \/ lease' = Released(g)
      BY Zenon DEF Settle
    <3> QED BY <2>2, <3>1, Releasing, Zenon DEF IInv, Types
  <2>4. Frame
    BY <2>2, <2>3, Faulting, Zenon DEF Settle, Types, JobType, Frame, store
  <2>5. UNCHANGED <<alive, inc, client, minted, wr, ran, units>>
    BY Zenon DEF Settle, store
  <2>6. CASE st[g].pend
    <3>1. StBecomes(g, "held", st[g].c, st[g].w, st[g].pend, st[g].freed) /\ lease' = lease
      BY <2>1, <2>2, <2>6, StTypes, StMovesOn, Zenon DEF Settle
    <3>2. ~st[g].freed
      BY <2>2, <2>6, Zenon DEF Place
    <3>3. Numbered(g)' /\ Leased(g)' /\ Run(g)'
      BY <2>2, <2>5, <3>1, <3>2, Zenon DEF StBecomes, Numbered, Leased, Holds, MyRow, Run, Started, Late
    <3>4. /\ Passing(g, "settle", "held", st[g].w) /\ Launching(g, "settle", st[g].w)
          /\ Publishes(g, "held") /\ Sane("held", st[g].c, st[g].pend, st[g].freed)
      BY <2>1, <2>2, <2>5, <3>2, Zenon DEF Passing, Launching, Publishes, Sane
    <3> QED BY <2>1, <2>3, <2>4, <3>1, <3>3, <3>4, <1>MoveKeeps, Zenon
  <2>7. CASE ~st[g].pend
    <3>1. StBecomes(g, "idle", None, 0, FALSE, FALSE)
      BY <2>2, <2>7, StTypes, StIdles, Zenon DEF Settle
    <3>2. Numbered(g)' /\ Leased(g)' /\ Run(g)'
      BY <3>1, Zenon DEF StBecomes, Numbered, Leased, Holds, Late, Run, Started
    <3>3. /\ Passing(g, "settle", "idle", 0) /\ Launching(g, "settle", 0)
          /\ Publishes(g, "idle") /\ Sane("idle", None, FALSE, FALSE)
      BY <2>5, Zenon DEF Passing, Launching, Publishes, Sane
    <3> QED BY <2>1, <2>3, <2>4, <3>1, <3>2, <3>3, <1>MoveKeeps, Zenon
  <2> QED BY <2>6, <2>7, Zenon
\* claimDurableCodeLoopRun: an exclusive create, or the record that is there.
<1>ClaimKeeps. ASSUME IInv, NEW g \in Gateways, Claim(g)
      PROVE  IInv'
  <2> USE <1>ClaimKeeps
  <2>1. /\ StAt(g, "admit") /\ "admit" \in StartLabel /\ "backout" \in StartLabel /\ "fill" \in StartLabel
        /\ "admit" \notin {"idle", "read"} \cup Late
    BY Zenon DEF Claim, StartLabel, Late
  <2>2. /\ Types /\ Place(g) /\ Run(g) /\ Leased(g) /\ st[g].pc = "admit"
        /\ st[g].c \in Clients /\ st[g].w \in 1..minted /\ st[g].w \in WorkIds
    BY <2>1, RunAt, Zenon
  <2>3. UNCHANGED <<alive, inc, lease, ran, units, minted, wr, sw, old, jobs, crashes, faults>>
    BY Zenon DEF Claim, budget
  <2>4. CASE client' = client /\ StGoto(g, "backout") /\ sandboxes' = sandboxes
    <3>1. StBecomes(g, "backout", st[g].c, st[g].w, st[g].pend, st[g].freed)
      BY <2>1, <2>2, <2>4, StTypes, StMovesOn, Zenon
    <3>2. copy' \in [WorkIds -> {None, Torn, Ok}]
      BY <2>2, <2>4, Zenon DEF Claim, Types
    <3>3. Frame
      BY <2>2, <2>3, <2>4, <3>2, Zenon DEF Types, JobType, FaultType, Frame
    <3>4. Leased(g)' /\ Run(g)'
      BY <2>2, <2>3, <2>4, <3>1, Zenon DEF StBecomes, Leased, Holds, MyRow, Run, Started
    <3> QED BY <2>1, <2>3, <2>4, <3>3, <3>4, <1>GotoKeeps, Zenon DEF Launching
  <2>5. CASE /\ client[st[g].c] = None /\ client' = [client EXCEPT ![st[g].c] = Torn] /\ StGoto(g, "fill")
             /\ sandboxes' = sandboxes \cup {st[g].w} /\ copy' = copy
    <3>1. StBecomes(g, "fill", st[g].c, st[g].w, st[g].pend, st[g].freed)
      BY <2>1, <2>2, <2>5, StTypes, StMovesOn, Zenon
    <3>2. /\ client' \in [Clients -> Record \cup {None, Torn}] /\ client'[st[g].c] = Torn
          /\ \A c \in Clients : c # st[g].c => client'[c] = client[c]
      BY <2>2, <2>5, Zenon DEF Types
    <3>3. Types'
      BY <2>2, <2>3, <2>5, <3>1, <3>2, Zenon DEF Types, StBecomes
    <3>4. Holds(g) /\ ~st[g].freed
      BY <2>2, Zenon DEF Holds, Place
    <3>5. \A c \in Clients : IsRecord(client[c]) \/ IsRecord(client[c])' => c # st[g].c
          /\ client'[c] = client[c]
      BY <2>5, <3>2, Zenon DEF IsRecord
    <3>6. Advance(g)
      BY <2>1, <2>2, <2>3, <3>1, <3>4, <3>5, Zenon DEF Advance, StBecomes
    <3>7. Numbered(g)' /\ Leased(g)'
      BY <2>2, <2>3, <3>1, Zenon DEF StBecomes, Numbered, Leased, Holds, MyRow
    <3>8. Run(g)'
      BY <2>2, <2>3, <3>1, <3>2, <3>5, Zenon DEF StBecomes, Run, Started
    <3>9. Publishes(g, "fill") /\ Sane("fill", st[g].c, st[g].pend, st[g].freed)
      BY <2>2, <2>3, <3>4, Zenon DEF Publishes, Sane
    <3> QED BY <2>1, <2>3, <3>1, <3>3, <3>6, <3>7, <3>8, <3>9, <1>RunKeeps, Zenon
  <2> QED BY <2>4, <2>5, Zenon DEF Claim
\* The record is written, or the empty file unlinked.
<1>FillKeeps. ASSUME IInv, NEW g \in Gateways, Fill(g)
      PROVE  IInv'
  <2> USE <1>FillKeeps
  <2>1. StAt(g, "fill") /\ "fill" \in StartLabel /\ "index" \in StartLabel /\ "backout" \in StartLabel
    BY Zenon DEF Fill, StartLabel
  <2>2. /\ Types /\ Place(g) /\ Run(g) /\ Leased(g) /\ st[g].pc = "fill"
        /\ st[g].c \in Clients /\ st[g].w \in 1..minted /\ st[g].w \in WorkIds
    BY <2>1, RunAt, Zenon
  <2>3. UNCHANGED <<alive, inc, lease, ran, units, minted, wr, sw, old, jobs, crashes, copy>>
    BY Zenon DEF Fill
  <2>4. faults' \in FaultType
    BY <2>2, Faulting, Zenon DEF Fill
  <2>5. ASSUME NEW x, client' = [client EXCEPT ![st[g].c] = x], x \in Record \cup {None, Torn}
        PROVE  /\ client' \in [Clients -> Record \cup {None, Torn}] /\ client'[st[g].c] = x
               /\ \A c \in Clients : c # st[g].c => client'[c] = client[c]
    BY <2>2, <2>5, Zenon DEF Types
  <2>6. CASE /\ client' = [client EXCEPT ![st[g].c] =
                    [c |-> st[g].c, w |-> st[g].w, status |-> "running", result |-> FALSE, pending |-> TRUE]]
             /\ StGoto(g, "index") /\ sandboxes' = sandboxes
    <3>1. PICK x \in Record : /\ x = [c |-> st[g].c, w |-> st[g].w, status |-> "running", result |-> FALSE,
                                      pending |-> TRUE]
                              /\ x.c = st[g].c /\ x.w = st[g].w /\ x.status = "running" /\ x.pending
      <4>1. st[g].pend \in BOOLEAN
        BY <2>2, Zenon DEF Types, StartState
      <4> QED BY <2>2, <4>1, <1>Made, Zenon
    <3>2. StBecomes(g, "index", st[g].c, st[g].w, st[g].pend, st[g].freed)
      BY <2>1, <2>2, <2>6, StTypes, StMovesOn, Zenon
    <3>3. /\ client' \in [Clients -> Record \cup {None, Torn}] /\ client'[st[g].c] = x
          /\ \A c \in Clients : c # st[g].c => client'[c] = client[c]
      BY <2>5, <2>6, <3>1, Zenon
    <3>4. Types'
      BY <2>2, <2>3, <2>4, <2>6, <3>2, <3>3, Zenon DEF Types, StBecomes, FaultType
    <3>5. Binding(g, x, "index")
      BY <2>3, <3>2, <3>3, Zenon DEF Binding, StBecomes
    <3> QED BY <2>2, <3>1, <3>4, <3>5, <1>BindKeeps, Zenon
  <2>7. CASE /\ client' = [client EXCEPT ![st[g].c] = None] /\ sandboxes' = sandboxes \ {st[g].w}
             /\ StGoto(g, "backout")
    <3>1. StBecomes(g, "backout", st[g].c, st[g].w, st[g].pend, st[g].freed)
      BY <2>1, <2>2, <2>7, StTypes, StMovesOn, Zenon
    <3>2. /\ client' \in [Clients -> Record \cup {None, Torn}] /\ client'[st[g].c] = None
          /\ \A c \in Clients : c # st[g].c => client'[c] = client[c]
      BY <2>5, <2>7, Zenon
    <3>3. Types'
      BY <2>2, <2>3, <2>4, <2>7, <3>1, <3>2, Zenon DEF Types, StBecomes, FaultType
    <3>4. Holds(g) /\ ~st[g].freed /\ client[st[g].c] = Torn
      BY <2>2, Zenon DEF Holds, Place, Run
    <3>5. \A c \in Clients : IsRecord(client[c]) \/ IsRecord(client[c])' => c # st[g].c
          /\ client'[c] = client[c]
      BY <3>2, <3>4, Zenon DEF IsRecord
    <3>6. Advance(g)
      BY <2>2, <2>3, <3>1, <3>4, <3>5, Zenon DEF Advance, StBecomes, Late
    <3>7. Numbered(g)' /\ Leased(g)'
      BY <2>2, <2>3, <3>1, Zenon DEF StBecomes, Numbered, Leased, Holds, MyRow
    <3>8. Run(g)'
      BY <2>2, <2>3, <3>1, <3>5, Zenon DEF StBecomes, Run, Started
    <3>9. Publishes(g, "backout") /\ Sane("backout", st[g].c, st[g].pend, st[g].freed)
      BY <2>2, <2>3, <3>4, Zenon DEF Publishes, Sane
    <3> QED BY <2>1, <2>3, <3>1, <3>3, <3>6, <3>7, <3>8, <3>9, <1>RunKeeps, Zenon
  <2> QED BY <2>6, <2>7, Zenon DEF Fill
\* The copy is made, or the claim rolled back.
<1>IndexKeeps. ASSUME IInv, MaxFault = 0 \/ ~Rolling, NEW g \in Gateways, Index(g)
      PROVE  IInv'
  <2> USE <1>IndexKeeps
  <2>1. StAt(g, "index") /\ "index" \in StartLabel /\ "run" \in StartLabel /\ "backout" \in StartLabel
    BY Zenon DEF Index, StartLabel
  <2>2. /\ Types /\ Place(g) /\ Run(g) /\ Leased(g) /\ st[g].pc = "index"
        /\ st[g].c \in Clients /\ st[g].w \in 1..minted /\ st[g].w \in WorkIds
    BY <2>1, RunAt, Zenon
  <2>3. UNCHANGED <<alive, inc, lease, ran, units, minted, wr, sw, old, crashes>>
    BY Zenon DEF Index
  <2>4. faults' \in FaultType
    BY <2>2, Faulting, Zenon DEF Index
  <2>5. CASE /\ copy' = [copy EXCEPT ![st[g].w] = Ok] /\ jobs' = [jobs EXCEPT ![g][st[g].w] = "running"]
             /\ st' = [st EXCEPT ![g].pc = "run", ![g].pend = TRUE] /\ UNCHANGED <<client, sandboxes>>
    <3>1. StBecomes(g, "run", st[g].c, st[g].w, TRUE, st[g].freed)
      BY <2>1, <2>2, <2>5, StTypes, StPends, Zenon
    <3>2. copy' \in [WorkIds -> {None, Torn, Ok}] /\ jobs' \in JobType
      BY <2>2, <2>5, Zenon DEF Types, JobType
    <3>3. Frame
      BY <2>2, <2>3, <2>4, <2>5, <3>2, Zenon DEF Types, Frame
    <3>4. ~st[g].freed
      BY <2>2, Zenon DEF Place
    <3>5. Numbered(g)' /\ Leased(g)' /\ Run(g)'
      BY <2>2, <2>3, <2>5, <3>1 DEF StBecomes, Numbered, Leased, Holds, MyRow, Run, Started
    <3>6. /\ Passing(g, "index", "run", st[g].w) /\ Launching(g, "index", st[g].w)
          /\ Publishes(g, "run") /\ Sane("run", st[g].c, TRUE, st[g].freed)
      BY <2>2, <2>3, <3>4, Zenon DEF Passing, Launching, Publishes, Sane, Late
    <3> QED BY <2>1, <2>3, <3>1, <3>3, <3>5, <3>6, <1>MoveKeeps, Zenon
  <2>6. CASE /\ client' = [client EXCEPT ![st[g].c] = None] /\ sandboxes' = sandboxes \ {st[g].w}
             /\ StGoto(g, "backout") /\ Fault /\ UNCHANGED <<copy, jobs>>
    <3>1. StBecomes(g, "backout", st[g].c, st[g].w, st[g].pend, st[g].freed)
      BY <2>1, <2>2, <2>6, StTypes, StMovesOn, Zenon
    <3>2. /\ client' \in [Clients -> Record \cup {None, Torn}] /\ client'[st[g].c] = None
          /\ \A c \in Clients : c # st[g].c => client'[c] = client[c]
      BY <2>2, <2>6, Zenon DEF Types
    <3>3. Types'
      BY <2>2, <2>3, <2>4, <2>6, <3>1, <3>2, Zenon DEF Types, StBecomes, FaultType
    <3>4. ~Rolling
      BY <2>2, <2>6, CodeLoopAssumption DEF Fault, Types
    <3>5. Binding(g, None, "backout")
      BY <2>3, <3>1, <3>2, Zenon DEF Binding, StBecomes
    <3> QED BY <2>2, <3>3, <3>4, <3>5, <1>UnbindKeeps, Zenon
  <2> QED BY <2>5, <2>6, Zenon DEF Index
<1> QED BY <1>StartKeeps, <1>AdmitKeeps, <1>AcquireKeeps, <1>RefuseKeeps, <1>ClaimKeeps, <1>FillKeeps,
    <1>IndexKeeps, <1>BackoutKeeps, <1>EngineStartKeeps, <1>CleanupKeeps, <1>HarvestKeeps, <1>FinalizeKeeps,
    <1>PublishKeeps, <1>SettleKeeps, Zenon DEF StartStep

-----------------------------------------------------------------------------

\* Every step keeps the invariant.
LEMMA NextKeeps ==
    ASSUME MaxFault = 0 \/ ~Rolling
    PROVE  IInv /\ [Next]_vars => IInv'
(* The world around the gateways.                                          *)
\* A gateway boots, a unit ends, time passes.
<1>WorldKeeps. ASSUME IInv, Types', Alone', UNCHANGED <<inc, client, lease, minted, st, sw, wr, ran>>,
             units' \subseteq units,
             \A g \in Gateways : alive[g] => alive'[g]
      PROVE  IInv'
  <2> USE <1>WorldKeeps
  <2>1. \A w : Ended(w)' <=> Ended(w)
    BY Zenon DEF Ended
  <2>2. \A x : Known(x) => Known(x)'
    BY <2>1, Zenon DEF Known
  <2>3. Ids'
    BY Zenon DEF IInv, Ids, Numbered
  <2>4. \A g \in Gateways, x \in Record : InMemory(g, x)' <=> InMemory(g, x)
    BY Zenon DEF InMemory
  <2>5. Records'
    <3>1. ASSUME NEW c \in Clients, IsRecord(client[c])' PROVE client'[c].c = c /\ Known(client[c])'
      <4>1. client'[c] = client[c] /\ client[c].c = c /\ Known(client[c])
        BY <3>1, Zenon DEF IInv, Records
      <4>2. Known(client'[c]) => Known(client[c])'
        BY <2>2, Zenon DEF Known
      <4> QED BY <4>1, <4>2, Zenon
    <3>2. \A g \in Gateways : \A x \in Record : InMemory(g, x)' => Bound(x)' /\ Known(x)'
      BY <2>2, <2>4, Zenon DEF IInv, Records, Bound
    <3> QED BY <3>1, <3>2, Zenon DEF IInv, Records
  <2>6. ExecutedIsBound'
    BY Zenon DEF IInv, ExecutedIsBound
  <2>7. ASSUME NEW g \in Gateways PROVE Place(g)' /\ SweepPlace(g)' /\ Leased(g)' /\ Run(g)' /\ Unread(g)'
    <3>1. Place(g) /\ SweepPlace(g) /\ Leased(g) /\ Run(g) /\ Unread(g)
      BY Zenon DEF IInv
    <3>2. Place(g)'
      BY <3>1, Zenon DEF Place
    <3>3. SweepPlace(g)'
      BY <2>1, <3>1, Zenon DEF SweepPlace
    <3>4. Leased(g)'
      BY <3>1, Zenon DEF Leased, Holds, MyRow
    <3>5. Run(g)'
      BY <3>1, Zenon DEF Run
    <3>6. Unread(g)'
      BY <2>4, <3>1, Zenon DEF Unread
    <3> QED BY <3>2, <3>3, <3>4, <3>5, <3>6, Zenon
  <2> QED BY <2>3, <2>5, <2>6, <2>7, Zenon DEF IInv
<1>OutsideKeeps. ASSUME IInv, (\E g \in Gateways : Boot(g)) \/ (\E w \in WorkIds : UnitExit(w) \/ Expire(w))
                 \/ UNCHANGED vars
      PROVE  IInv'
  <2> USE <1>OutsideKeeps
  <2>1. Types /\ Alone
    BY Zenon DEF IInv
  <2>2. CASE \E g \in Gateways : Boot(g)
    <3>1. PICK g \in Gateways : Boot(g)
      BY <2>2, Zenon
    <3>2. Types' /\ \A h \in Gateways : alive[h] => alive'[h]
      BY <2>1, <3>1, Zenon DEF Boot, Types, store, budget
    <3>3. Alone'
      BY <2>1, <3>1, Zenon DEF Boot, Alone, Types
    <3> QED BY <3>1, <3>2, <3>3, <1>WorldKeeps, Zenon DEF Boot, store, budget
  <2>3. CASE \E w \in WorkIds : UnitExit(w)
    <3>1. Types' /\ Alone'
      BY <2>1, <2>3, Zenon DEF UnitExit, Types, Alone, store, budget
    <3> QED BY <2>3, <3>1, <1>WorldKeeps, Zenon DEF UnitExit, store, budget
  <2>4. CASE \E w \in WorkIds : Expire(w)
    <3>1. Types' /\ Alone'
      BY <2>1, <2>4 DEF Expire, Types, Alone, store, budget
    <3> QED BY <2>4, <3>1, <1>WorldKeeps, Zenon DEF Expire, store, budget
  <2>5. CASE UNCHANGED vars
    <3>1. Types' /\ Alone'
      BY <2>1, <2>5, Zenon DEF vars, Types, Alone, store, budget
    <3> QED BY <2>5, <3>1, <1>WorldKeeps, Zenon DEF vars, store, budget
  <2> QED BY <2>2, <2>3, <2>4, <2>5, Zenon
\* A crash forgets what g had in memory; what g held, nobody holds.
<1>CrashKeeps. ASSUME IInv, NEW g \in Gateways, Crash(g)
      PROVE  IInv'
  <2> USE <1>CrashKeeps
  <2>1. /\ Types /\ Ids /\ Records /\ Alone /\ ExecutedIsBound
        /\ \A h \in Gateways : Place(h) /\ SweepPlace(h) /\ Leased(h) /\ Run(h) /\ Unread(h)
    BY Zenon DEF IInv
  <2>2. StMoves(g, Idle) /\ SwMoves(g, Asleep)
    BY <2>1, Initial, StTypes, StUpdate, SwUpdate, Zenon DEF Crash
  <2>3. /\ UNCHANGED <<client, lease, units, sandboxes, old, minted, ran, faults>>
        /\ wr'[g] = None /\ ~alive'[g] /\ \A h \in Gateways : h # g => /\ wr'[h] = wr[h] /\ alive'[h] = alive[h]
                                                                      /\ inc'[h] = inc[h]
    BY <2>1, Zenon DEF Crash, Types
  <2>4. /\ st'[g].pc = "idle" /\ st'[g].w = 0 /\ ~st'[g].freed /\ ~st'[g].pend /\ st'[g] = Idle
        /\ sw'[g].pc = "idle" /\ sw'[g].rec = None /\ sw'[g] = Asleep
        /\ \A h \in Gateways : h # g => st'[h] = st[h] /\ sw'[h] = sw[h]
    BY <2>2, Initial, Zenon DEF StMoves, SwMoves
  <2>5. Types'
    <3>1. alive' \in [Gateways -> BOOLEAN] /\ wr' \in [Gateways -> Write \cup {None}]
      BY <2>1, Zenon DEF Crash, Types
    <3>2. inc \in [Gateways -> 0..MaxCrash] /\ crashes \in 0..MaxCrash /\ \A h \in Gateways : inc[h] <= crashes
      BY <2>1, Zenon DEF Types
    <3>5. crashes < MaxCrash /\ crashes' = crashes + 1 /\ inc' = [inc EXCEPT ![g] = inc[g] + 1]
      BY Zenon DEF Crash
    <3>6. crashes' \in 0..MaxCrash /\ inc[g] + 1 \in 0..MaxCrash /\ inc[g] + 1 <= crashes'
      BY <3>2, <3>5, CodeLoopAssumption
    <3>7. inc' \in [Gateways -> 0..MaxCrash] /\ \A h \in Gateways : inc'[h] <= crashes'
      BY <3>2, <3>5, <3>6
    <3>3. copy' \in [WorkIds -> {None, Torn, Ok}]
      BY <2>1, Zenon DEF Crash, Types
    <3>4. jobs' \in [Gateways -> [WorkIds -> {"none", "running", "terminal"}]]
      BY <2>1, Zenon DEF Crash, Types
    <3> QED BY <2>1, <2>2, <2>3, <3>1, <3>3, <3>4, <3>6, <3>7, Zenon DEF Types, StMoves, SwMoves
  <2>6. \A w \in WorkIds : Ended(w) => Ended(w)'
    <3>1. \A w \in WorkIds : w # 0
      BY CodeLoopAssumption DEF WorkIds
    <3> QED BY <2>4, <3>1, Zenon DEF Ended
  <2>7. \A x \in Record : Known(x) => Known(x)'
    <3>1. \A x \in Record : x.w \in WorkIds
      BY RecordFacts, Zenon
    <3> QED BY <2>3, <2>6, <3>1, Zenon DEF Known
  <2>8. Ids'
    BY <2>1, <2>3, <2>4 DEF Ids, Numbered
  <2>9. \A h \in Gateways : \A x : InMemory(h, x)' => h # g /\ InMemory(h, x)
    BY <2>3, <2>4, Zenon DEF InMemory, Listing
  <2>10. Records'
    <3>1. ASSUME NEW c \in Clients, IsRecord(client[c])' PROVE client'[c].c = c /\ Known(client[c])'
      <4>1. client'[c] = client[c] /\ client[c] \in Record /\ client[c].c = c /\ Known(client[c])
        BY <2>1, <2>3, <3>1, RecordFacts, Zenon DEF Records, Types
      <4>2. PICK r \in Record : r = client[c]
        BY <4>1, Zenon
      <4>3. Known(r)'
        BY <2>7, <4>1, <4>2, Zenon
      <4> QED BY <2>3, <4>1, <4>2, <4>3, Zenon DEF Known
    <3>2. \A h \in Gateways : \A x \in Record : InMemory(h, x)' => Bound(x)' /\ Known(x)'
      BY <2>1, <2>3, <2>7, <2>9 DEF Records, Bound
    <3> QED BY <2>1, <2>3, <3>1, <3>2, Zenon DEF Records
  <2>11. ExecutedIsBound'
    BY <2>1, <2>3, Zenon DEF ExecutedIsBound
  <2>12. Alone'
    BY <2>1, <2>3, Zenon DEF Alone
  <2>13. ASSUME NEW h \in Gateways PROVE Place(h)' /\ SweepPlace(h)' /\ Leased(h)' /\ Run(h)' /\ Unread(h)'
    <3>1. CASE h = g
      BY <2>3, <2>4, <3>1, Zenon
         DEF Place, SweepPlace, Leased, Holds, Late, Run, Started, Unread, StartSync, Listing, Handling
    <3>2. CASE h # g
      <4>1. Place(h) /\ SweepPlace(h) /\ Leased(h) /\ Run(h) /\ Unread(h)
        BY <2>1, Zenon
      <4>2. Place(h)'
        BY <2>3, <2>4, <3>2, <4>1, Zenon DEF Place
      <4>3. SweepPlace(h)'
        <5>1. sw[h].pc \in {"stop", "dirStop", "orphanStop", "mark"} => sw[h].rec.w \in WorkIds
          BY <2>1, <4>1, RecordFacts, Zenon DEF SweepPlace, Handling, Types, SweepState
        <5> QED BY <2>4, <2>6, <3>2, <4>1, <5>1, Zenon DEF SweepPlace
      <4>4. Leased(h)'
        BY <2>3, <2>4, <3>2, <4>1, Zenon DEF Leased, Holds, MyRow
      <4>5. Run(h)'
        BY <2>3, <2>4, <3>2, <4>1, Zenon DEF Run
      <4>6. Unread(h)'
        BY <2>4, <2>9, <3>2, <4>1, Zenon DEF Unread
      <4> QED BY <4>2, <4>3, <4>4, <4>5, <4>6, Zenon
    <3> QED BY <3>1, <3>2, Zenon
  <2> QED BY <2>5, <2>8, <2>10, <2>11, <2>12, <2>13, Zenon DEF IInv
<1> QED BY StartStepKeeps, SweepStepKeeps, <1>CrashKeeps, <1>OutsideKeeps, Zenon DEF Next

\* The first state: no gateway is up, and nothing is on disk.
LEMMA InitHolds == Init => IInv
<1> SUFFICES ASSUME Init PROVE IInv
  OBVIOUS
<1>1. /\ \A g \in Gateways : ~alive[g] /\ st[g] = Idle /\ sw[g] = Asleep /\ wr[g] = None
      /\ \A c \in Clients : ~IsRecord(client[c])
      /\ units = {} /\ ran = {}
  BY Zenon DEF Init, IsRecord
<1>2. Types
  BY Initial, CodeLoopAssumption DEF Init, Types
<1>3. \A g \in Gateways : /\ st[g].pc = "idle" /\ st[g].w = 0 /\ ~st[g].freed /\ ~st[g].pend
                          /\ sw[g].pc = "idle" /\ sw[g].rec = None
  BY <1>1, Initial, Zenon
<1>4. \A g \in Gateways : \A x : ~InMemory(g, x)
  BY <1>1, <1>3, Zenon DEF InMemory, Listing
<1>5. Ids /\ Alone /\ ExecutedIsBound
  BY <1>1, <1>3, Zenon DEF Ids, Numbered, Alone, ExecutedIsBound
<1>6. Records
  BY <1>1, <1>4, Zenon DEF Records
<1>7. ASSUME NEW g \in Gateways PROVE Place(g) /\ SweepPlace(g) /\ Leased(g) /\ Run(g) /\ Unread(g)
  BY <1>1, <1>3, Zenon DEF Place, SweepPlace, Leased, Holds, Late, Run, Started, Unread, StartSync, Listing,
     Handling
<1> QED BY <1>2, <1>5, <1>6, <1>7, Zenon DEF IInv

\* IInv holds throughout, for any set of gateways that overlap as long as no
\* write fails, and under failing writes as long as they do not overlap: a
\* claim that is backed out (codeLoopStart) may otherwise delete a record that
\* the sweep of another gateway has read.
THEOREM Invariance ==
    ASSUME MaxFault = 0 \/ ~Rolling
    PROVE  Spec => []IInv
<1>1. Init => IInv
  BY InitHolds, Zenon
<1>2. IInv /\ [Next]_vars => IInv'
  BY NextKeeps, Zenon
<1> QED BY <1>1, <1>2, PTL DEF Spec

\* A client id whose unit has run stays bound to that work id: a retry of the
\* call, after any crash, finds the record and starts no second unit.
THEOREM ExecutedStaysBound ==
    ASSUME MaxFault = 0 \/ ~Rolling
    PROVE  Spec => []ExecutedIsBound
<1>1. IInv => ExecutedIsBound
  BY Zenon DEF IInv
<1> QED BY <1>1, Invariance, PTL

\* A unit that runs has a record that owes its cleanup.
LEMMA UnitsAreOwed == IInv => NoForgottenUnit
<1> SUFFICES ASSUME IInv, NEW w \in units PROVE \E c \in Clients : Pending(client[c]) /\ client[c].w = w
  BY Zenon DEF NoForgottenUnit
<1>1. w \in ran
  BY Zenon DEF IInv, Ids
<1>2. PICK c \in Clients : IsRecord(client[c]) /\ client[c].w = w
  BY <1>1, Zenon DEF IInv, ExecutedIsBound
<1>3. Known(client[c])
  BY <1>2, Zenon DEF IInv, Records
<1> QED BY <1>2, <1>3, Zenon DEF Known, Pending

\* Every unit that runs has a record whose cleanup is pending: the next sweep
\* finds it and stops the unit, whatever crashed in between.
THEOREM UnitsAreWaitedFor ==
    ASSUME MaxFault = 0 \/ ~Rolling
    PROVE  Spec => []NoForgottenUnit
BY Invariance, UnitsAreOwed, PTL
=============================================================================
