---------------------------- MODULE CodeLoopInv -----------------------------
(***************************************************************************)
(* The inductive invariants of the code_loop life cycle, and the shapes of *)
(* the steps that their proofs tell apart.                                 *)
(***************************************************************************)
EXTENDS CodeLoop

StartState == [pc : StartLabel, c : Clients \cup {None}, w : 0..MaxStarts,
               pend : BOOLEAN, freed : BOOLEAN, absent : BOOLEAN]

SweepState == [pc : SweepLabel, todo : SUBSET (Record \cup WorkIds \cup Clients),
               rec : Record \cup {None}, seen : SUBSET WorkIds]

\* Where a sweep holds the records it has listed, and where it holds one record.
Listing == {"pending", "stop", "again", "releaseNext"}

Handling == {"stop", "dir", "dirStop", "orphan", "orphanStop", "mark", "reclaim", "unownedLive"}

Types ==
    /\ alive \in [Gateways -> BOOLEAN] /\ inc \in [Gateways -> 0..MaxCrash]
    /\ client \in [Clients -> Record \cup {None, Torn}]
    /\ copy \in [WorkIds -> {None, Torn, Ok}]
    /\ lease \in Row \cup {None}
    /\ units \subseteq WorkIds /\ sandboxes \subseteq WorkIds /\ old \subseteq WorkIds
    /\ minted \in 0..MaxStarts /\ ran \subseteq WorkIds
    /\ st \in [Gateways -> StartState] /\ sw \in [Gateways -> SweepState]
    /\ jobs \in [Gateways -> [WorkIds -> {"none", "running", "terminal"}]]
    /\ wr \in [Gateways -> Write \cup {None}]
    /\ crashes \in 0..MaxCrash /\ faults \in [disk : 0..MaxFault, stop : 0..MaxStopFault]
    /\ \A g \in Gateways : inc[g] <= crashes

\* Where a gateway's two machines can be together.
Place(g) ==
    /\ ~alive[g] => st[g] = Idle /\ sw[g] = Asleep /\ wr[g] = None
    /\ st[g].pc \in StartSync => sw[g].pc \notin SweepSync /\ wr[g] = None
    /\ st[g].pc # "idle" => st[g].c \in Clients
    /\ st[g].freed => st[g].pc \in {"publish", "settle"} /\ ~st[g].pend

\* Work ids are minted, and no two gateways have the same.
Numbered(g) == IF st[g].pc \in {"idle", "read"} THEN st[g].w = 0 ELSE st[g].w \in 1..minted

Ids ==
    /\ \A g \in Gateways : Numbered(g)
    /\ \A g, h \in Gateways : st[g].w = st[h].w => g = h \/ st[g].w = 0
    /\ ran \subseteq 1..minted /\ units \subseteq ran

Late == {"publish", "settle", "held"}

\* From winning the lease to giving it back.
Holds(g) ==
    \/ st[g].pc \in {"admit", "fill", "index", "run", "engine", "harvest", "check", "final", "backout"}
    \/ st[g].pc \in Late /\ ~st[g].freed

MyRow(g) == [g |-> g, i |-> inc[g], w |-> st[g].w]

\* The lease is the row of whoever is past it.
Leased(g) == Holds(g) => alive[g] /\ lease = MyRow(g)

\* No gateway will start a unit for w.
Ended(w) == \A g \in Gateways : st[g].w = w => st[g].pc \in Late

\* What the sweep holds where it is.
SweepPlace(g) ==
    /\ sw[g].pc \in {"hold", "release", "releaseNext"} => st[g].pc = "held"
    /\ sw[g].pc \in Listing => sw[g].todo \subseteq Record
    /\ sw[g].pc \in {"unowned", "unownedLive"} => sw[g].todo \subseteq Clients
    /\ sw[g].pc \in Handling <=> sw[g].rec # None
    /\ sw[g].pc \in {"stop", "dirStop", "orphanStop", "mark"} => Ended(sw[g].rec.w)

\* What a record that exists, on disk or in memory, says of its run.
Known(x) ==
    /\ x.w <= minted
    /\ x.status # "running" => Ended(x.w)
    /\ ~x.pending => Ended(x.w) /\ x.w \notin units

\* The client id of the record is bound to the work id in it.
Bound(x) == IsRecord(client[x.c]) /\ client[x.c].w = x.w

\* A record in the memory of g.
InMemory(g, x) ==
    \/ wr[g] # None /\ x = wr[g].rec
    \/ sw[g].rec # None /\ x = sw[g].rec
    \/ sw[g].pc \in Listing /\ x \in sw[g].todo

Records ==
    /\ \A c \in Clients : IsRecord(client[c]) => client[c].c = c /\ Known(client[c])
    /\ \A c, d \in Clients : IsRecord(client[c]) /\ IsRecord(client[d]) /\ client[c].w = client[d].w => c = d
    /\ \A g \in Gateways : \A x \in Record : InMemory(g, x) => Bound(x) /\ Known(x)

\* What a run has bound and started.
Started == {"index", "run", "engine", "harvest", "check", "final", "publish", "settle", "held"}

Run(g) ==
    /\ st[g].pc \in {"lease", "admit", "fill", "backout"} =>
          \A c \in Clients : IsRecord(client[c]) => client[c].w # st[g].w
    /\ st[g].pc = "fill" => client[st[g].c] = Torn
    /\ st[g].pc \in Started => IsRecord(client[st[g].c]) /\ client[st[g].c].w = st[g].w
    /\ st[g].pc \in {"lease", "admit", "fill", "index", "run"} => st[g].w \notin ran
    /\ st[g].pc \in {"harvest", "final", "publish", "settle"} /\ ~st[g].pend => st[g].w \notin units

\* Without overlap, nobody has read the record that is being claimed.
Unread(g) ==
    ~Rolling /\ st[g].pc = "index" => \A h \in Gateways : \A x \in Record : InMemory(h, x) => x.c # st[g].c

Alone == ~Rolling => \A g, h \in Gateways : alive[g] /\ alive[h] => g = h

IInv ==
    /\ Types /\ Ids /\ Records /\ Alone /\ ExecutedIsBound
    /\ \A g \in Gateways : Place(g) /\ SweepPlace(g) /\ Leased(g) /\ Run(g) /\ Unread(g)

\* The start machine of g goes on; the others' do not move.
StMoves(g, s) ==
    /\ st' \in [Gateways -> StartState] /\ st'[g] = s
    /\ \A h \in Gateways : h # g => st'[h] = st[h]

StTyped == st \in [Gateways -> StartState]

\* The run of g goes on; the others' do not move.
StBecomes(g, l, c, w, p, f) ==
    /\ st' \in [Gateways -> StartState] /\ \A h \in Gateways : h # g => st'[h] = st[h]
    /\ st'[g].pc = l /\ st'[g].c = c /\ st'[g].w = w /\ st'[g].pend = p /\ st'[g].freed = f

\* The sweep of g goes on; the others' do not move.
SwMoves(g, s) ==
    /\ sw' \in [Gateways -> SweepState] /\ sw'[g] = s
    /\ \A h \in Gateways : h # g => sw'[h] = sw[h]

\* The steps of a sweep.
StSame(g) ==
    /\ st' \in [Gateways -> StartState]
    /\ \A h \in Gateways : /\ st'[h].pc = st[h].pc /\ st'[h].c = st[h].c /\ st'[h].w = st[h].w
                           /\ st'[h].pend = st[h].pend /\ st'[h].freed = st[h].freed
    /\ \A h \in Gateways : h # g => st'[h] = st[h]

SwOf(g) == sw' \in [Gateways -> SweepState] /\ \A h \in Gateways : h # g => sw'[h] = sw[h]

WrOf(g) == wr' \in [Gateways -> Write \cup {None}] /\ \A h \in Gateways : h # g => wr'[h] = wr[h]

FaultType == [disk : 0..MaxFault, stop : 0..MaxStopFault]

JobType == [Gateways -> [WorkIds -> {"none", "running", "terminal"}]]

\* The sweep of g sets some of its fields: SwLists its place and its list, and so on.
SwBecomes(g, l, t, r) == SwOf(g) /\ sw'[g].pc = l /\ sw'[g].todo = t /\ sw'[g].rec = r

\* The lease of whoever holds it is theirs, and rows are told from no row.
LInv ==
    /\ StTyped /\ alive \in [Gateways -> BOOLEAN] /\ inc \in [Gateways -> 0..MaxCrash]
    /\ crashes \in 0..MaxCrash /\ minted \in 0..MaxStarts
    /\ \A g \in Gateways : /\ inc[g] <= crashes /\ Leased(g)
                           /\ st[g].pc \notin {"idle", "read"} => st[g].w \in WorkIds

\* A run that has the lease, and gives it back only when it is over.
Holding == {"admit", "fill", "index", "run", "engine", "harvest", "check", "final", "backout"}

(* Steps that bind no client id and move no run.                           *)
\* A step of g's sweep, of a retry or of a write.
Aside(g) ==
    /\ UNCHANGED <<alive, inc, lease, minted, ran>> /\ units' \subseteq units
    /\ \A h \in Gateways : /\ st'[h].pc = st[h].pc /\ st'[h].c = st[h].c /\ st'[h].w = st[h].w
                           /\ st'[h].pend = st[h].pend /\ st'[h].freed = st[h].freed
    /\ \A h \in Gateways : h # g => st'[h] = st[h] /\ sw'[h] = sw[h] /\ wr'[h] = wr[h]
    /\ \A c \in Clients : \/ client'[c] = client[c]
                          \/ /\ client'[c] \in Record /\ client'[c].c = c /\ Known(client[c])'
                             /\ IsRecord(client[c]) /\ client'[c].w = client[c].w

(* Steps of a run.                                                         *)
\* A step of g's start or run that binds and unbinds no client id.
Advance(g) ==
    /\ UNCHANGED <<alive, inc>>
    /\ \A h \in Gateways : h # g => st'[h] = st[h] /\ sw'[h] = sw[h] /\ wr'[h] = wr[h]
    /\ \/ st'[g].w = st[g].w /\ minted' = minted /\ (st[g].pc \in Late => st'[g].pc \in Late)
       \/ st'[g].w = 0 /\ minted' = minted
       \/ st'[g].w = minted + 1 /\ minted' = minted + 1
    /\ \/ units' \subseteq units /\ ran' = ran
       \/ /\ st[g].pc \in {"run", "harvest"} /\ st'[g].w = st[g].w
          /\ units' = units \cup {st[g].w} /\ ran' = ran \cup {st[g].w}
    /\ \A h \in Gateways : h # g /\ Holds(h) => lease' = lease
    /\ \A c \in Clients : IsRecord(client[c]) \/ IsRecord(client[c])' => client'[c] = client[c]
    /\ client' = client \/ Holds(g)

(* Binding and unbinding a client id.                                      *)
\* g writes the record of its run, or removes it again; nothing else changes.
Binding(g, x, l) ==
    /\ UNCHANGED <<alive, inc, lease, minted, ran, units, sw, wr>>
    /\ \A h \in Gateways : h # g => st'[h] = st[h]
    /\ st'[g].pc = l /\ st'[g].c = st[g].c /\ st'[g].w = st[g].w
    /\ st'[g].pend = st[g].pend /\ st'[g].freed = st[g].freed
    /\ client'[st[g].c] = x
    /\ \A c \in Clients : c # st[g].c => client'[c] = client[c]

\* A step that moves no run: it may end units, drop sandboxes and forget jobs.
Quiet(g) ==
    /\ StSame(g) /\ UNCHANGED <<alive, inc, store, lease, old, minted, ran, crashes>>
    /\ units' \subseteq units /\ sandboxes' \subseteq sandboxes
    /\ jobs' \in JobType /\ faults' \in FaultType

\* What a sweep saves is bound, and true of its run.
Saves(g) == wr' = wr \/ \E x \in Record : Persist(g, x) /\ Bound(x) /\ Known(x)'

\* What a run may save, and where it may be with what.
Sane(m, c, p, f) == (m # "idle" => c \in Clients) /\ (f => m \in {"publish", "settle"} /\ ~p)

Publishes(g, m) == wr' = wr \/ (m = "settle" /\ \E x \in Record : Persist(g, x) /\ Bound(x)' /\ Known(x)')

\* A step of a run that touches no record.
Frame ==
    /\ UNCHANGED <<alive, inc, client, sw, crashes, old, sandboxes>>
    /\ copy' \in [WorkIds -> {None, Torn, Ok}] /\ lease' \in Row \cup {None}
    /\ faults' \in FaultType /\ jobs' \in JobType

\* The work id from l to m, and the unit that may start.
Passing(g, l, m, w) ==
    \/ w = st[g].w /\ minted' = minted /\ (l \in Late => m \in Late)
    \/ w = 0 /\ minted' = minted
    \/ w = minted + 1 /\ minted' = minted + 1 /\ minted' \in 0..MaxStarts

Launching(g, l, w) ==
    \/ units' \subseteq units /\ ran' = ran
    \/ /\ l \in {"run", "harvest"} /\ w = st[g].w
       /\ units' = units \cup {st[g].w} /\ ran' = ran \cup {st[g].w}

(* Without overlap.                                                        *)
\* A record that the sweep will write back as it read it.
Duty(g, x) ==
    \/ sw[g].pc \in Listing /\ x \in sw[g].todo
    \/ sw[g].pc \in {"stop", "dirStop"} /\ x = sw[g].rec

\* No outcome is lost by writing x back.
Fresh(x) ==
    /\ x.status = "terminal" <=> client[x.c].status = "terminal"
    /\ x.status = "terminal" /\ client[x.c].result => x.result \/ x.w \in old \cup Outdated

\* It is not a run of this gateway that is still to publish.
Foreign(g, x) ==
    x.status = "running" /\ x.w = st[g].w =>
       st[g].pc = "held" \/ (sw[g].pc = "pending" /\ sw[g].todo = {x})

Duties(g) ==
    /\ \A x \in Record : Duty(g, x) => Fresh(x) /\ Foreign(g, x)
    /\ \A x, y \in Record : Duty(g, x) /\ Duty(g, y) /\ x.w = y.w => x = y
    /\ sw[g].pc = "stop" => sw[g].rec \notin sw[g].todo

\* The units and the owed cleanups while a run is under way.
Before == {"lease", "admit", "fill", "index", "run"}

During == {"engine", "harvest", "check"}

Flight == Before \cup During \cup {"final", "publish", "settle", "held"}

Owes(g) ==
    /\ st[g].pc \in Before => units = {}
    /\ st[g].pc \in During => units \subseteq {st[g].w}
    /\ st[g].pc \in Flight => \A c \in Clients : Pending(client[c]) => client[c].w = st[g].w

\* What is known of a run here, up to its publication.
Lasts(g) ==
    /\ st[g].pc \notin {"idle", "held"} => st[g].w \notin old
    /\ st[g].pc \in Started \ {"index", "held"} => jobs[g][st[g].w] # "none"
    /\ st[g].pc = "publish" =>
          /\ client[st[g].c].status = "running"
          /\ \A x \in Record : InMemory(g, x) /\ x.w = st[g].w => x.status = "running"

\* A record just read is the one on disk.
Reads(g) ==
    /\ sw[g].pc \in {"dir", "unownedLive"} => wr[g] = None /\ sw[g].rec = client[sw[g].rec.c]
    /\ sw[g].pc = "unownedLive" => sw[g].rec.status = "running"

\* The record r may be written by g.
May(g, r) ==
    LET x == client[r.c] IN
    /\ x.status = "terminal" => r.status = "terminal" /\ (x.result => r.result \/ x.w \in old \cup Outdated)
    /\ r.status = "terminal" => \/ x.status = "terminal" /\ (r.result => x.result)
                               \/ \A y \in Record : Duty(g, y) => y.w # r.w
    /\ r.pending => x.pending \/ r.w = st[g].w

Writes(g) == wr[g] # None /\ wr[g].to = "client" => May(g, wr[g].rec)

Solo(g) == Duties(g) /\ Owes(g) /\ Lasts(g) /\ Reads(g) /\ Writes(g)

SInv ==
    /\ \A v, w \in units : v = w
    /\ old \subseteq 1..minted
    /\ \A g \in Gateways : Solo(g)

\* What a sweep or a retry writes keeps a published outcome.
Gentle(r) ==
    LET x == client[r.c] IN
    /\ x.status = "terminal" => r.status = "terminal" /\ (x.result => r.result \/ x.w \in old \cup Outdated)
    /\ r.pending => x.pending

Pens(g) == wr'[g] = None \/ \E r \in Record : wr'[g].rec = r /\ Gentle(r)

\* What is in all the steps of a sweep.
Moves(g) ==
    /\ st'[g].pc = st[g].pc /\ st'[g].w = st[g].w /\ client' = client /\ old' = old /\ units' \subseteq units

\* A step of one gateway, not counting its birth and death.
Acts(g) ==
    \/ \E c \in Clients : Retry(g, c) \/ FailClosed(g, c) \/ Start(g, c)
    \/ StartStep(g) \/ SweepStep(g) \/ WriteStep(g)

\* What a step may not do to a published outcome.
Final(c) ==
    IsRecord(client[c]) /\ client[c].status = "terminal" =>
       /\ client'[c].status = "terminal"
       /\ client[c].result => client'[c].result \/ client[c].w \in old \cup Outdated
=============================================================================
