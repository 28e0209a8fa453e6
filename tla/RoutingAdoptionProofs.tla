----------------------- MODULE RoutingAdoptionProofs ------------------------
(***************************************************************************)
(* Proofs about adoption, for any number of ticks and commands, any tables *)
(* and any bounds.                                                         *)
(***************************************************************************)
EXTENDS RoutingAdoption, TLAPS

\* The local variables of a run.
Loc == [token : Nat, rec : BOOLEAN, cand : Table, base : Table, snap : Table,
        prior : Table, over : Table, read : Table, mine : Intent, wrote : BOOLEAN,
        status : {"pending", "finalized", "aborted"}, next : Label]

Shape ==
    /\ table \in Table /\ gateway \in Table
    /\ tableToken \in Nat /\ trial \in {"none", "tick", "first", "manual"}
    /\ lease \in [token : Nat, fresh : BOOLEAN]
    /\ nextToken \in Nat \ {0} /\ nextId \in Nat \ {0} /\ faults \in Nat
    /\ intent \in Intent /\ clobbered \in BOOLEAN
    /\ over \in [1..MaxId -> Table]
    /\ records \subseteq Record
    /\ pc \in [Proc -> Label]
    /\ loc \in [Proc -> Loc]

\* Before the lease; from the tick's own journal entry to its canary.
Outside == {"idle", "review", "snapshot", "acquire"}
Owning == {"write", "reload", "readBack", "canary"}

\* Where a run is, or where it goes on after the write of the journal that it is
\* about to make.
Stage(p) == IF pc[p] = "put" THEN loc[p].next ELSE pc[p]

\* What is on disk without looking at the processes: the row carries the newest
\* token, ids are below the counter, a finalized intent is watched once, and an
\* intent that passed its canary names the table that it replaced.
Shared ==
    /\ lease # NoLease => lease.token = nextToken - 1 /\ lease.token # 0
    /\ intent.id < nextId /\ intent.id <= MaxId
    /\ intent.status # "none" => intent.id # 0
    /\ intent.phase = "canary-passed" => intent.id # 0 /\ over[intent.id] = intent.prior
    /\ FinalizedIsWatchedOnce
    /\ \A r \in records : r.intentId < nextId

\* Copies of one intent agree on what it says for good.
Like(i, j) == i.id = j.id /\ i.cand = j.cand /\ i.prior = j.prior
Same(i, j) == i.id = j.id /\ i.id # 0 => Like(i, j)

\* A tick carries out the intent that it journalled itself.
Own(p) == p \in Tick /\ ~loc[p].rec /\ loc[p].mine.id # 0

\* Where each kind of process can be, and what it has there.
Place(p) ==
    /\ p \in Cli => pc[p] \notin {"load", "review", "journal", "put", "settle"}
                    /\ loc[p].mine.id = 0 /\ ~loc[p].rec
    /\ p \in Tick => pc[p] # "snapshot"
    /\ pc[p] = "put" => loc[p].next \in {"write", "reload", "readBack", "insert", "settle", "release"}
    /\ pc[p] \in Outside => loc[p].token = 0
    /\ pc[p] \in Outside \cup {"load", "check", "journal"} => loc[p].mine = NoIntent
    /\ Stage(p) \in Outside \cup Owning \cup {"check", "journal"} => ~loc[p].rec
    /\ pc[p] = "load" => loc[p].rec
    /\ Stage(p) \in {"snapshot", "acquire", "check", "journal", "write"} => loc[p].cand # NoTable
    /\ p \in Tick /\ Stage(p) \in Owning \cup {"insert", "restore", "restoreReload", "settle", "release"}
         => loc[p].mine.id # 0
    /\ Stage(p) = "settle" /\ loc[p].status = "finalized"
         => \E r \in records : r.intentId = loc[p].mine.id
    /\ pc[p] = "journal" => loc[p].snap = loc[p].prior
    /\ loc[p].wrote => Stage(p) \in {"restoreReload", "settle", "release"}

\* The intent a run works on, and the snapshots it keeps of it.
Mine(p) ==
    /\ loc[p].token < nextToken
    /\ loc[p].mine.id < nextId /\ loc[p].mine.id <= MaxId
    /\ Same(loc[p].mine, intent)
    /\ loc[p].mine.id # 0 => /\ loc[p].cand = loc[p].mine.cand
                             /\ loc[p].prior = loc[p].mine.prior
                             /\ loc[p].snap = loc[p].mine.prior
    /\ loc[p].mine.phase = "canary-passed" =>
          loc[p].mine.id # 0 /\ over[loc[p].mine.id] = loc[p].mine.prior
    /\ p \in Tick /\ Stage(p) \in {"reload", "readBack", "canary", "insert"} =>
          over[loc[p].mine.id] = loc[p].mine.prior
    /\ loc[p].mine.status = "finalized" => \E r \in records : r.intentId = loc[p].mine.id
    /\ p \in Tick /\ Stage(p) = "write" =>
          loc[p].mine.status = "pending" /\ loc[p].mine.phase = "unconfirmed"

\* No two runs share a token, and only one writes the candidate of an intent.
Apart(p, q) ==
    /\ Same(loc[p].mine, loc[q].mine)
    /\ p # q /\ loc[p].token = loc[q].token => loc[p].token = 0
    /\ p # q /\ Own(p) /\ Own(q) => loc[p].mine.id # loc[q].mine.id

\* What a run knows as long as the lease is its own.
Knows(p) ==
    /\ Stage(p) \in {"journal", "write"} => table = loc[p].prior
    /\ Stage(p) \in {"reload", "readBack", "canary", "insert"} => table = loc[p].cand
    /\ p \in Tick /\ Stage(p) \in Owning \cup {"insert"} =>
          \A r \in records : r.intentId # loc[p].mine.id

IInv ==
    /\ Shape
    /\ Shared
    /\ \A p \in Proc : Place(p) /\ Mine(p) /\ (Current(p) => Knows(p))
    /\ \A p, q \in Proc : Apart(p, q)

\* A tick that has the lease and is about to write its candidate finds its intent
\* in the journal, once it has put it there.
Ready(p) ==
    p \in Tick /\ Current(p) =>
        /\ pc[p] = "write" => intent = loc[p].mine
        /\ pc[p] = "put" /\ loc[p].next = "write" => intent.id # loc[p].mine.id

\* No other run has seen that intent confirmed or is about to write it.
Spares(p, q) ==
    p \in Tick /\ Current(p) /\ Stage(p) = "write" /\ p # q /\ loc[q].mine.id = loc[p].mine.id =>
        loc[q].mine.phase = "unconfirmed" /\ pc[q] # "put"

\* No run is about to close the intent of an unconfirmed candidate: none has seen
\* it confirmed, and one that still has the lease has not restored the table and
\* has one to restore.
Undoing(p) ==
    /\ loc[p].mine.id = intent.id =>
          loc[p].mine.phase = "unconfirmed" /\ (pc[p] = "put" => loc[p].mine.status = "pending")
    /\ p \in Tick /\ Current(p) =>
          /\ Stage(p) # "insert"
          /\ pc[p] = "restoreReload" => ~loc[p].wrote
          /\ Stage(p) = "settle" => loc[p].status = "pending"
          /\ ~loc[p].rec /\ Stage(p) \in Owning \cup {"journal", "restore"} => loc[p].prior # NoTable

Covered ==
    /\ intent.status = "pending" /\ intent.phase = "unconfirmed"
    /\ intent.cand = table /\ table # NoTable
    /\ \A p \in Proc : Undoing(p)

\* As long as no pending intent was overwritten.
JInv ==
    ~clobbered => /\ \A p, q \in Proc : Ready(p) /\ Spares(p, q)
                  /\ trial = "tick" => Covered

\* Every state the system starts in satisfies the invariant.
LEMMA InitInv == Init => IInv /\ JInv
<1> SUFFICES ASSUME Init PROVE IInv /\ JInv
  OBVIOUS
<1> USE ContentAssumption, BoundsAssumption
<1>1. \A p \in Proc : pc[p] = "idle" /\ loc[p] = NoLoc
  BY Zenon DEF Init
<1>2. intent = NoIntent /\ NoIntent \in Intent /\ NoIntent.id = 0 /\ NoIntent.status = "none"
      /\ NoIntent.phase = "unconfirmed" /\ nextId = 1 /\ nextToken = 1 /\ records = {} /\ lease = NoLease
  BY Zenon DEF Init, NoIntent, Intent, Table
<1>3. NoLoc \in Loc /\ NoLoc.token = 0 /\ NoLoc.mine = NoIntent /\ NoLoc.wrote = FALSE /\ NoLoc.rec = FALSE
  BY <1>2, Zenon DEF NoLoc, Loc, Table, Label
<1>4. Shape
  <2>1. clobbered \in BOOLEAN /\ lease \in [token : Nat, fresh : BOOLEAN]
    BY Zenon DEF Init, NoLease
  <2>2. over \in [1..MaxId -> Table] /\ pc \in [Proc -> Label] /\ loc \in [Proc -> Loc]
    BY <1>3, Zenon DEF Init, Table, Label
  <2> QED BY <1>2, <2>1, <2>2 DEF Init, Shape
<1>5. Shared
  BY <1>2 DEF Shared, FinalizedIsWatchedOnce
<1>6. ASSUME NEW p \in Proc PROVE Place(p) /\ Mine(p) /\ ~Current(p) /\ \A q \in Proc : Apart(p, q)
  BY <1>1, <1>2, <1>3, <1>6 DEF Place, Mine, Current, isLeaseCurrent, Apart, Same, Like, Own, Owning, Stage
<1>7. trial = "none"
  BY Zenon DEF Init
<1> QED
  BY <1>4, <1>5, <1>6, <1>7, Zenon DEF IInv, JInv, Ready, Spares

-----------------------------------------------------------------------------
(* What a step of p may do to the state of the others.                     *)

Others(p) == \A q \in Proc \ {p} : loc'[q] = loc[q] /\ pc'[q] = pc[q]

\* The intent that p works on after a step: the one before, the one in the
\* journal, or a new one of its own.  Only p's own canary confirms it.
Holds(p) ==
    \/ loc'[p].mine.id = nextId
    \/ \E i \in {NoIntent, loc[p].mine, intent} :
          /\ Like(loc'[p].mine, i)
          /\ \/ loc'[p].mine.phase \in {i.phase, "unconfirmed"}
             \/ Own(p) /\ i = loc[p].mine

\* p keeps, drops or gets a lease and an intent, and goes to write the journal only
\* for an intent of its own or with the lease.
Stepped(p) ==
    /\ Shape' /\ Others(p)
    /\ records \subseteq records' /\ nextToken <= nextToken' /\ nextId <= nextId'
    /\ loc'[p].token \in {0, loc[p].token, nextToken}
    /\ Holds(p)
    /\ Own(p)' => loc'[p].mine.id = nextId \/ (Own(p) /\ loc'[p].mine.id = loc[p].mine.id)
    /\ pc'[p] = "put" => \/ loc'[p].mine.id = nextId
                         \/ Own(p) /\ loc'[p].mine.id = loc[p].mine.id
                         \/ Current(p)

\* The step leaves q what it knows: the snapshot of its intent, and, while it has
\* the lease, the table and the records.
Gentle(q) ==
    /\ Same(loc[q].mine, intent')
    /\ loc[q].mine.id # 0 /\ over[loc[q].mine.id] = loc[q].mine.prior =>
          over'[loc[q].mine.id] = loc[q].mine.prior
    /\ Current(q)' => Current(q) /\ table' = table /\ records' = records

\* While p has the lease, nobody else has it.
LEMMA Alone ==
    ASSUME IInv, NEW p \in Proc, Current(p), NEW q \in Proc \ {p}
    PROVE  ~Current(q)
BY Zenon DEF IInv, Shared, Apart, Current, isLeaseCurrent

\* A step that leaves table, records, intent and snapshots alone is gentle.
LEMMA Calm ==
    ASSUME IInv, NEW q \in Proc, Current(q)' => Current(q), UNCHANGED <<table, over, intent, records>>
    PROVE  Gentle(q)
BY Zenon DEF Gentle, IInv, Mine

\* What the invariant says of another run stays true.
LEMMA Other ==
    ASSUME IInv, NEW p \in Proc, Stepped(p), NEW q \in Proc \ {p}, Gentle(q)
    PROVE  Place(q)' /\ Mine(q)' /\ (Current(q)' => Knows(q)')
<1>1. Place(q) /\ Mine(q) /\ (Current(q) => Knows(q)) /\ loc'[q] = loc[q] /\ pc'[q] = pc[q]
      /\ Stage(q)' = Stage(q)
  BY Zenon DEF IInv, Stepped, Others, Stage
<1>2. records \subseteq records' /\ nextToken <= nextToken' /\ nextId <= nextId'
  BY Zenon DEF Stepped
<1>3. Place(q)'
  BY <1>1, <1>2, Zenon DEF Place
<1>4. Current(q)' => Knows(q)'
  BY <1>1, Zenon DEF Knows, Gentle
<1>5. loc'[q].token < nextToken' /\ loc'[q].mine.id < nextId'
  <2>1. {nextToken, nextToken', nextId, nextId', loc[q].token, loc[q].mine.id} \subseteq Nat
    <3>1. Shape /\ Shape'
      BY Zenon DEF IInv, Stepped
    <3>2. loc[q].token \in Nat /\ loc[q].mine.id \in Nat
      BY <3>1, Zenon DEF Shape, Loc, Intent
    <3> QED BY <3>1, <3>2, Zenon DEF Shape
  <2> QED BY <1>1, <1>2, <2>1 DEF Mine
<1>6. q \in Tick /\ Stage(q) \in {"reload", "readBack", "canary", "insert"} => loc[q].mine.id # 0
  BY <1>1, Zenon DEF Place, Owning
<1>7. Mine(q)'
  BY <1>1, <1>2, <1>5, <1>6, Zenon DEF Mine, Gentle
<1> QED BY <1>3, <1>4, <1>7, Zenon

\* p stays apart from another run.
LEMMA Beside ==
    ASSUME IInv, NEW p \in Proc, Stepped(p), NEW q \in Proc \ {p}
    PROVE  Apart(p, q)' /\ Apart(q, p)'
<1>1. Mine(q) /\ Apart(p, q) /\ Apart(q, p) /\ loc'[q] = loc[q] /\ pc'[q] = pc[q]
      /\ loc[q].token < nextToken /\ loc[q].mine.id < nextId
  BY Zenon DEF IInv, Stepped, Others, Mine
<1>2. {nextToken, nextId, loc[q].token, loc[q].mine.id} \subseteq Nat
  BY DEF IInv, Shape, Loc, Intent
<1>3. NoIntent.id = 0
  BY Zenon DEF NoIntent
<1>4. Same(loc'[p].mine, loc[q].mine) /\ Same(loc[q].mine, loc'[p].mine)
  <2>1. CASE loc'[p].mine.id = nextId
    BY <1>1, <1>2, <2>1 DEF Same
  <2>2. CASE \E i \in {NoIntent, loc[p].mine, intent} : Like(loc'[p].mine, i)
    BY <1>1, <1>3, <2>2, Zenon DEF Same, Like, Mine, Apart
  <2> QED BY <2>1, <2>2, Zenon DEF Stepped, Holds
<1>5. loc'[p].token = loc[q].token => loc'[p].token = 0
  BY <1>1, <1>2 DEF Stepped, Apart
<1>6. Own(p)' /\ Own(q)' => loc'[p].mine.id # loc[q].mine.id
  <2>1. Own(q)' => Own(q)
    BY <1>1, Zenon DEF Own
  <2> QED BY <1>1, <1>2, <2>1 DEF Stepped, Apart
<1> QED BY <1>1, <1>4, <1>5, <1>6, Zenon DEF Apart

\* A step of one process preserves the invariant if it is gentle to the others and
\* keeps what the invariant says of the disk and of the process itself.
LEMMA Frame ==
    ASSUME IInv, NEW p \in Proc, Stepped(p), \A q \in Proc \ {p} : Gentle(q),
           Shared', Place(p)', Mine(p)', Current(p)' => Knows(p)'
    PROVE  IInv'
<1>1. ASSUME NEW q \in Proc \ {p}, NEW r \in Proc \ {p} PROVE Apart(q, r)'
  <2>1. Apart(q, r) /\ loc'[q] = loc[q] /\ loc'[r] = loc[r]
    BY Zenon DEF IInv, Stepped, Others
  <2> QED BY <2>1, Zenon DEF Apart, Own
<1>2. \A q \in Proc \ {p} : Place(q)' /\ Mine(q)' /\ (Current(q)' => Knows(q)')
  BY Other, Zenon
<1>3. \A q \in Proc \ {p} : Apart(p, q)' /\ Apart(q, p)'
  BY Beside, Zenon
<1>4. Apart(p, p)'
  BY Zenon DEF Apart, Same, Like
<1> QED BY <1>1, <1>2, <1>3, <1>4, Zenon DEF IInv, Stepped

\* A step that leaves the journal as it is keeps the intent of a tick that is about
\* to write its candidate from the others.
LEMMA Frame2 ==
    ASSUME IInv, JInv, NEW p \in Proc, Stepped(p), UNCHANGED <<intent, clobbered>>, ~clobbered,
           \A q \in Proc \ {p} : Current(q)' => Current(q),
           p \in Tick /\ Stage(p)' = "write" => pc'[p] = "put" /\ loc'[p].mine.id = nextId
    PROVE  \A q, r \in Proc : Ready(q)' /\ Spares(q, r)'
<1>1. ASSUME NEW q \in Proc \ {p}
      PROVE  loc'[q] = loc[q] /\ pc'[q] = pc[q] /\ Stage(q)' = Stage(q) /\ Ready(q) /\ Mine(q)
             /\ Place(q) /\ Apart(p, q) /\ (\A r \in Proc : Spares(q, r))
             /\ loc[q].mine.id \in Nat /\ loc[q].mine.id < nextId
  <2>1. loc'[q] = loc[q] /\ pc'[q] = pc[q]
    BY Zenon DEF Stepped, Others
  <2>2. Stage(q)' = Stage(q)
    BY <2>1, Zenon DEF Stage
  <2>3. Ready(q) /\ \A r \in Proc : Spares(q, r)
    BY Zenon DEF JInv
  <2>4. Mine(q) /\ Place(q) /\ Apart(p, q)
    BY Zenon DEF IInv
  <2>5. loc[q] \in Loc
    BY Zenon DEF IInv, Shape
  <2>6. loc[q].mine.id \in Nat
    BY <2>5, Zenon DEF Loc, Intent
  <2>7. loc[q].mine.id < nextId
    BY <2>4, Zenon DEF Mine
  <2> QED BY <2>1, <2>2, <2>3, <2>4, <2>6, <2>7, Zenon
<1>2. nextId \in Nat /\ intent.id \in Nat /\ intent.id < nextId /\ intent' = intent
  BY Zenon DEF IInv, Shape, Intent, Shared
<1>3. \A q \in Proc \ {p} : Ready(q)'
  BY <1>1, <1>2, Zenon DEF Ready
<1>4. ASSUME NEW q \in Proc \ {p}, NEW r \in Proc \ {p} PROVE Spares(q, r)'
  <2>1. Spares(q, r) /\ loc'[q] = loc[q] /\ Stage(q)' = Stage(q) /\ loc'[r] = loc[r] /\ pc'[r] = pc[r]
    BY <1>1, Zenon
  <2> QED BY <2>1, Zenon DEF Spares
<1>5. Ready(p)'
  BY <1>2 DEF Ready, Stage
<1>6. \A q \in Proc \ {p} : Spares(p, q)'
  BY <1>1, <1>2 DEF Spares
<1>7. ASSUME NEW q \in Proc \ {p}, q \in Tick, Current(q)', Stage(q)' = "write",
             loc'[p].mine.id = loc'[q].mine.id
      PROVE  loc'[p].mine.phase = "unconfirmed" /\ pc'[p] # "put"
  <2>1. Current(q) /\ Stage(q) = "write" /\ loc'[p].mine.id = loc[q].mine.id /\ loc[q].mine.id # nextId
        /\ ~Current(p)
    BY <1>1, <1>2, <1>7, Alone
  <2>2. Own(q)
    BY <1>1, <1>7, <2>1, Zenon DEF Own, Place, Owning
  <2>3. ~(Own(p) /\ loc[p].mine.id = loc[q].mine.id)
    BY <1>1, <2>2, Zenon DEF Apart
  <2>4. pc'[p] # "put"
    BY <2>1, <2>3, Zenon DEF Stepped
  <2>5. PICK i \in {NoIntent, loc[p].mine, intent} :
               Like(loc'[p].mine, i) /\ loc'[p].mine.phase \in {i.phase, "unconfirmed"}
    BY <2>1, <2>3, Zenon DEF Stepped, Holds, Like
  <2>6. CASE i = NoIntent
    BY <2>4, <2>5, <2>6, Zenon DEF NoIntent
  <2>7. CASE i = loc[p].mine
    BY <1>1, <1>7, <2>1, <2>4, <2>5, <2>7, Zenon DEF Spares, Like
  <2>8. CASE i = intent
    BY <1>1, <1>7, <2>1, <2>4, <2>5, <2>8, ZenonT(30) DEF Ready, Like, Mine, Stage
  <2> QED BY <2>4, <2>5, <2>6, <2>7, <2>8, Zenon
<1>8. \A q \in Proc \ {p} : Spares(q, p)'
  BY <1>7, Zenon DEF Spares
<1>9. Spares(p, p)'
  BY Zenon DEF Spares
<1> QED BY <1>3, <1>4, <1>5, <1>6, <1>8, <1>9, Zenon

\* Such a step preserves the rest of the invariant if it puts no candidate on disk
\* and p does not come to close the intent of an unconfirmed one.
LEMMA Frame3 ==
    ASSUME IInv, JInv, NEW p \in Proc, Stepped(p), UNCHANGED <<intent, clobbered>>,
           \A q \in Proc \ {p} : Current(q)' => Current(q),
           p \in Tick /\ Stage(p)' = "write" => pc'[p] = "put" /\ loc'[p].mine.id = nextId,
           ~clobbered /\ trial' = "tick" => trial = "tick" /\ table' = table /\ Undoing(p)'
    PROVE  JInv'
<1>1. SUFFICES ASSUME ~clobbered, trial' = "tick" PROVE Covered'
  BY Frame2, Zenon DEF JInv
<1>2. Covered /\ table' = table /\ Undoing(p)'
  BY <1>1, Zenon DEF JInv
<1>3. ASSUME NEW q \in Proc \ {p} PROVE Undoing(q)'
  <2>1. loc'[q] = loc[q] /\ pc'[q] = pc[q] /\ Stage(q)' = Stage(q) /\ Undoing(q)
    BY <1>2, Zenon DEF Stepped, Others, Stage, Covered
  <2> QED BY <2>1, Zenon DEF Undoing
<1> QED BY <1>2, <1>3, Zenon DEF Covered

-----------------------------------------------------------------------------
(* The kinds of step.                                                      *)

\* p ends its run, or goes on to a new attempt without a lease.
Left(p) ==
    /\ Shape' /\ Others(p)
    /\ UNCHANGED <<disk, intent, clobbered, records, nextToken>>
    /\ nextId <= nextId' /\ lease' \in {lease, NoLease}
    /\ loc'[p].token = 0 /\ loc'[p].mine = NoIntent /\ loc'[p].wrote = FALSE /\ loc'[p].rec = FALSE
    /\ pc'[p] \in Outside
    /\ p \in Cli => pc'[p] # "review"
    /\ p \in Tick => pc'[p] # "snapshot"
    /\ pc'[p] \in {"snapshot", "acquire"} => loc'[p].cand # NoTable

\* A run that ends preserves the invariant, whether or not it still had the lease.
LEMMA Leaves ==
    ASSUME IInv, NEW p \in Proc, Left(p)
    PROVE  IInv' /\ (JInv => JInv')
<1>1. table' = table /\ over' = over /\ trial' = trial /\ intent' = intent /\ records' = records
      /\ nextToken' = nextToken /\ clobbered' = clobbered /\ Shape' /\ Others(p)
  BY Zenon DEF Left, disk
<1>2. NoIntent.id = 0 /\ NoIntent.phase = "unconfirmed" /\ NoIntent.status = "none"
  BY Zenon DEF NoIntent
<1>3. {nextToken, nextId, nextId', intent.id} \subseteq Nat /\ 0 < nextToken /\ 0 < nextId /\ MaxId \in Nat
  BY <1>1, BoundsAssumption DEF IInv, Shape, Intent
<1>4. ~Current(p)' /\ \A q \in Proc \ {p} : Current(q)' => Current(q)
  BY Zenon DEF Left, Others, Current, isLeaseCurrent, IInv, Shared
<1>5. pc'[p] # "put" /\ Stage(p)' = pc'[p] /\ Stage(p)' \in Outside /\ ~Own(p)'
  BY <1>2, Zenon DEF Left, Outside, Stage, Own
<1>6. Stepped(p)
  <2>1. Holds(p)
    BY <1>2, Zenon DEF Left, Holds, Like
  <2> QED BY <1>1, <1>3, <1>5, <2>1 DEF Left, Stepped
<1>7. \A q \in Proc \ {p} : Gentle(q)
  BY <1>1, <1>4, Calm, Zenon
<1>8. \A r \in records : r.intentId \in Nat
  BY Zenon DEF IInv, Shape, Record
<1>9. Shared'
  BY <1>1, <1>3, <1>8 DEF Left, IInv, Shared, FinalizedIsWatchedOnce
<1>10. Place(p)'
  BY <1>2, <1>5, Zenon DEF Left, Place, Outside, Owning
<1>11. Mine(p)'
  BY <1>1, <1>2, <1>3, <1>5 DEF Left, Mine, Same, Outside
<1>12. IInv'
  BY <1>4, <1>6, <1>7, <1>9, <1>10, <1>11, Frame, Zenon
<1>13. Undoing(p)'
  BY <1>2, <1>4, <1>5, Zenon DEF Left, Undoing
<1>14. JInv => JInv'
  BY <1>1, <1>4, <1>5, <1>6, <1>13, Frame3, Zenon DEF Outside
<1> QED BY <1>12, <1>14, Zenon

\* The lease is taken.
Granted(p) ==
    /\ Shape' /\ Others(p)
    /\ UNCHANGED <<disk, journal, records>>
    /\ nextToken' = nextToken + 1
    /\ lease'.token = nextToken
    /\ loc'[p].token = nextToken /\ loc'[p].mine = NoIntent /\ loc'[p].wrote = FALSE
    /\ pc'[p] \in {"load", "check"} /\ (p \in Cli => pc'[p] = "check")
    /\ pc'[p] = "check" => pc[p] = "acquire" /\ loc'[p].cand = loc[p].cand /\ ~loc'[p].rec
    /\ pc'[p] = "load" => loc'[p].rec

\* A granted lease preserves the invariant: the holder before, if any, is no longer
\* current, and the new one has nothing to know yet.
LEMMA Grants ==
    ASSUME IInv, NEW p \in Proc, Granted(p)
    PROVE  IInv' /\ (JInv => JInv')
<1>1. table' = table /\ over' = over /\ trial' = trial /\ intent' = intent /\ records' = records
      /\ nextId' = nextId /\ clobbered' = clobbered /\ Shape' /\ Others(p)
  BY Zenon DEF Granted, disk, journal
<1>2. NoIntent.id = 0 /\ NoIntent.phase = "unconfirmed" /\ NoIntent.status = "none"
  BY Zenon DEF NoIntent
<1>3. {nextToken, nextId} \subseteq Nat /\ 0 < nextToken /\ 0 < nextId /\ MaxId \in Nat
  BY <1>1, BoundsAssumption DEF IInv, Shape
<1>4. ASSUME NEW q \in Proc \ {p} PROVE ~Current(q)'
  <2>1. loc'[q].token < nextToken /\ loc'[q].token \in Nat
    BY <1>1, Zenon DEF IInv, Mine, Shape, Loc, Others
  <2> QED BY <1>3, <2>1 DEF Granted, Current, isLeaseCurrent
<1>5. pc'[p] # "put" /\ Stage(p)' = pc'[p] /\ Stage(p)' \in {"load", "check"} /\ ~Own(p)'
  BY <1>2, Zenon DEF Granted, Stage, Own
<1>6. Stepped(p)
  <2>1. Holds(p)
    BY <1>2, Zenon DEF Granted, Holds, Like
  <2> QED BY <1>1, <1>3, <1>5, <2>1 DEF Granted, Stepped
<1>7. \A q \in Proc \ {p} : Gentle(q)
  BY <1>1, <1>4, Calm, Zenon
<1>8. Shared'
  BY <1>1, <1>3 DEF Granted, IInv, Shared, FinalizedIsWatchedOnce
<1>9. Place(p)' /\ Knows(p)'
  <2>1. pc'[p] = "check" => loc[p].cand # NoTable
    BY Zenon DEF Granted, IInv, Place, Stage
  <2> QED BY <1>2, <1>5, <2>1, Zenon DEF Granted, Place, Knows, Outside, Owning
<1>10. Mine(p)'
  BY <1>1, <1>2, <1>3, <1>5 DEF Granted, Mine, Same
<1>11. IInv'
  BY <1>6, <1>7, <1>8, <1>9, <1>10, Frame, Zenon
<1>12. Undoing(p)'
  BY <1>2, <1>5, Zenon DEF Granted, Undoing, Owning
<1>13. JInv => JInv'
  BY <1>1, <1>4, <1>5, <1>6, <1>12, Frame3, Zenon
<1> QED BY <1>11, <1>13, Zenon

\* p moves on and touches neither the disk nor the journal nor the row's token.
Moved(p) ==
    /\ Shape' /\ Others(p)
    /\ UNCHANGED <<disk, journal, records, nextToken>>
    /\ lease'.token = lease.token /\ (lease' # NoLease => lease # NoLease)
    /\ loc'[p].token = loc[p].token /\ loc'[p].rec = loc[p].rec
    /\ \E i \in {loc[p].mine, intent} :
          Like(loc'[p].mine, i) /\ loc'[p].mine.phase \in {i.phase, "unconfirmed"}
    /\ loc'[p].rec \/ loc'[p].mine.id = loc[p].mine.id
    /\ p \in Tick => Stage(p)' # "write"
    /\ pc'[p] = "put" => (Own(p) /\ loc'[p].mine.id = loc[p].mine.id) \/ Current(p)

\* A step that only moves one process preserves the invariant if what it says of
\* that process still holds.
LEMMA Moves ==
    ASSUME IInv, NEW p \in Proc, Moved(p), Place(p)', Mine(p)', Current(p)' => Knows(p)'
    PROVE  IInv' /\ (JInv /\ (~clobbered /\ trial = "tick" => Undoing(p)') => JInv')
<1>1. table' = table /\ over' = over /\ trial' = trial /\ intent' = intent /\ records' = records
      /\ nextId' = nextId /\ nextToken' = nextToken /\ clobbered' = clobbered /\ Shape' /\ Others(p)
  BY Zenon DEF Moved, disk, journal
<1>2. \A q \in Proc \ {p} : Current(q)' => Current(q)
  BY <1>1, Zenon DEF Moved, Others, Current, isLeaseCurrent
<1>3. nextToken \in Nat /\ nextId \in Nat
  BY Zenon DEF IInv, Shape
<1>4. Stepped(p)
  <2>1. Holds(p)
    BY Zenon DEF Moved, Holds
  <2>2. Own(p)' => Own(p) /\ loc'[p].mine.id = loc[p].mine.id
    BY Zenon DEF Moved, Own
  <2>3. records \subseteq records' /\ nextToken <= nextToken' /\ nextId <= nextId'
    BY <1>1, <1>3
  <2> QED BY <1>1, <2>1, <2>2, <2>3, Zenon DEF Moved, Stepped
<1>5. \A q \in Proc \ {p} : Gentle(q)
  BY <1>1, <1>2, Calm, Zenon
<1>6. Shared'
  BY <1>1, Zenon DEF Moved, IInv, Shared, FinalizedIsWatchedOnce
<1>7. IInv'
  BY <1>4, <1>5, <1>6, Frame, Zenon
<1>8. ASSUME JInv, ~clobbered /\ trial = "tick" => Undoing(p)' PROVE JInv'
  <2>1. ~(p \in Tick /\ Stage(p)' = "write")
    BY Zenon DEF Moved
  <2> QED BY <1>1, <1>2, <1>4, <1>8, <2>1, Frame3, Zenon
<1> QED BY <1>7, <1>8, Zenon

\* The local variables of p but for its intent and where it goes on.
Keeps(p, x) ==
    /\ loc'[p].token = x.token /\ loc'[p].rec = x.rec /\ loc'[p].cand = x.cand
    /\ loc'[p].prior = x.prior /\ loc'[p].snap = x.snap /\ loc'[p].wrote = x.wrote
    /\ loc'[p].status = x.status

\* What a phase mark does to p: it goes on at l, or is about to write its pending
\* intent with the phase.
Marked(p, x, l) ==
    /\ Keeps(p, x) /\ Like(loc'[p].mine, x.mine) /\ Stage(p)' = l
    /\ \/ pc'[p] = l /\ loc'[p].mine = x.mine
       \/ /\ pc'[p] = "put" /\ Own(p) /\ intent.status = "pending" /\ intent.id = x.mine.id
          /\ loc'[p].mine.status = "pending"
          /\ loc'[p].mine.phase = IF l = "insert" THEN "canary-passed" ELSE "unconfirmed"

\* The effect of moving one process.
LEMMA Goes ==
    ASSUME IInv, NEW p \in Proc, NEW l \in Label, NEW v \in Loc,
           Goto(p, l), loc' = [loc EXCEPT ![p] = v]
    PROVE  /\ pc' \in [Proc -> Label] /\ loc' \in [Proc -> Loc] /\ Others(p)
           /\ pc'[p] = l /\ loc'[p] = v
BY Zenon DEF Goto, IInv, Shape, Others

\* The effect of a phase mark.
LEMMA Marks ==
    ASSUME IInv, NEW p \in Proc, NEW l \in Label \ {"put"}, NEW x \in Loc, x.mine = loc[p].mine,
           p \in Tick => ~loc[p].rec, MarkPhase(p, x, l)
    PROVE  /\ pc' \in [Proc -> Label] /\ loc' \in [Proc -> Loc] /\ Others(p) /\ Marked(p, x, l)
<1>1. Mine(p) /\ Shared /\ intent \in Intent /\ x.mine \in Intent
  BY Zenon DEF IInv, Shape, Loc
<1>2. CASE p \in Tick /\ intent.id = x.mine.id /\ intent.status = "pending"
  <2> DEFINE i == [intent EXCEPT !.phase = IF l = "insert" THEN "canary-passed" ELSE "unconfirmed"]
             v == [x EXCEPT !.next = l, !.mine = i]
  <2>1. i \in Intent /\ Like(i, intent) /\ i.status = intent.status
        /\ i.phase = IF l = "insert" THEN "canary-passed" ELSE "unconfirmed"
    BY <1>1, Zenon DEF Intent, Like
  <2>2. loc' = [loc EXCEPT ![p] = v] /\ Goto(p, "put")
    BY <1>2, Zenon DEF MarkPhase
  <2> HIDE DEF i
  <2>3. v \in Loc /\ v.token = x.token /\ v.rec = x.rec /\ v.cand = x.cand /\ v.prior = x.prior
        /\ v.snap = x.snap /\ v.wrote = x.wrote /\ v.status = x.status /\ v.mine = i /\ v.next = l
    BY <2>1, Zenon DEF Loc
  <2> HIDE DEF v
  <2>4. pc' \in [Proc -> Label] /\ loc' \in [Proc -> Loc] /\ Others(p) /\ pc'[p] = "put" /\ loc'[p] = v
    BY <2>2, <2>3, Goes, Zenon DEF Label
  <2>5. loc[p].mine.id # 0 /\ Like(i, x.mine)
    BY <1>1, <1>2, <2>1, Zenon DEF Shared, Mine, Same, Like
  <2> QED BY <1>2, <2>1, <2>3, <2>4, <2>5, Zenon DEF Marked, Keeps, Stage, Own
<1>3. CASE ~(p \in Tick /\ intent.id = x.mine.id /\ intent.status = "pending")
  <2>1. loc' = [loc EXCEPT ![p] = x] /\ Goto(p, l)
    BY <1>3, Zenon DEF MarkPhase
  <2>2. pc' \in [Proc -> Label] /\ loc' \in [Proc -> Loc] /\ Others(p) /\ pc'[p] = l /\ loc'[p] = x
    BY <2>1, Goes, Zenon
  <2> QED BY <2>2, Zenon DEF Marked, Keeps, Stage, Like
<1> QED BY <1>2, <1>3, Zenon

\* The candidate reaches the disk, and p goes on or dies.
Landed(p) ==
    /\ Shape' /\ Others(p)
    /\ pc[p] = "write" /\ Current(p) /\ PutCandidate(p)
    /\ UNCHANGED <<leaseDb, journal, records>>
    /\ \/ Marked(p, loc[p], "reload")
       \/ pc'[p] = "restore" /\ loc'[p] = loc[p]
       \/ /\ loc'[p].token = 0 /\ loc'[p].mine = NoIntent /\ loc'[p].wrote = FALSE
          /\ loc'[p].rec = FALSE /\ pc'[p] = "idle"

\* The fenced write of a candidate preserves the invariant: the table it replaces
\* is the snapshot in the intent, and no other run may close that intent.
LEMMA Lands ==
    ASSUME IInv, NEW p \in Proc, Landed(p)
    PROVE  IInv' /\ (JInv => JInv')
<1>1. Others(p) /\ Shape' /\ lease' = lease /\ nextToken' = nextToken /\ intent' = intent
      /\ nextId' = nextId /\ clobbered' = clobbered /\ records' = records /\ table' = loc[p].cand
  BY Zenon DEF Landed, PutCandidate, leaseDb, journal
<1>2. pc[p] = "write" /\ Stage(p) = "write" /\ Current(p) /\ Place(p) /\ Mine(p) /\ Knows(p) /\ Shared
      /\ table = loc[p].prior /\ loc[p].cand # NoTable
  BY Zenon DEF Landed, IInv, Knows, Stage, Place
<1>3. \A q \in Proc \ {p} : loc'[q] = loc[q] /\ pc'[q] = pc[q] /\ ~Current(q)'
  BY <1>1, <1>2, Alone, Zenon DEF Others, Current, isLeaseCurrent
<1>4. NoIntent.id = 0 /\ NoIntent.phase = "unconfirmed" /\ NoIntent.status = "none"
  BY Zenon DEF NoIntent
<1>5. {nextToken, nextId} \subseteq Nat /\ 0 < nextToken /\ 0 < nextId /\ MaxId \in Nat
  BY <1>1, BoundsAssumption DEF IInv, Shape
<1>6. ASSUME p \in Tick
      PROVE  loc[p].mine.id \in 1..MaxId /\ table = loc[p].mine.prior /\ loc[p].cand = loc[p].mine.cand
             /\ loc[p].mine.phase = "unconfirmed" /\ ~loc[p].rec /\ Own(p)
  <2>1. loc[p].mine.id # 0 /\ loc[p].mine.id \in Nat /\ loc[p].mine.id <= MaxId /\ ~loc[p].rec
    BY <1>2, <1>6, Zenon DEF Place, Mine, Owning, IInv, Shape, Loc, Intent
  <2>2. loc[p].mine.id \in 1..MaxId
    BY <1>5, <2>1
  <2> QED BY <1>2, <1>6, <2>1, <2>2, Zenon DEF Mine, Own
<1>7. /\ p \in Tick => over' = [over EXCEPT ![loc[p].mine.id] = table]
      /\ p \notin Tick => over' = over
      /\ trial' = "tick" => p \in Tick /\ table # NoTable
  BY Zenon DEF Landed, PutCandidate, Proc
<1>8. p \in Tick => over'[loc[p].mine.id] = loc[p].mine.prior
  BY <1>6, <1>7, Zenon DEF IInv, Shape
<1>9. ASSUME NEW i \in Intent, i.id # 0, i.id <= MaxId, Same(loc[p].mine, i), over[i.id] = i.prior
      PROVE  over'[i.id] = i.prior
  <2>1. i.id \in 1..MaxId
    BY <1>5, <1>9 DEF Intent
  <2> QED BY <1>6, <1>7, <1>8, <1>9, <2>1, Zenon DEF Same, Like, IInv, Shape
<1>10. ASSUME NEW q \in Proc \ {p} PROVE Gentle(q)
  <2>1. Apart(p, q) /\ Mine(q) /\ loc[q].mine \in Intent
    BY Zenon DEF IInv, Shape, Loc
  <2>2. loc[q].mine.id # 0 /\ over[loc[q].mine.id] = loc[q].mine.prior => over'[loc[q].mine.id] = loc[q].mine.prior
    BY <1>9, <2>1, Zenon DEF Apart, Mine
  <2> QED BY <1>1, <1>3, <2>1, <2>2, Zenon DEF Gentle, Mine
<1>11. /\ Stage(p)' \in {"reload", "restore", "idle"}
       /\ IF Stage(p)' = "idle" THEN loc'[p].token = 0 /\ loc'[p].mine = NoIntent /\ ~loc'[p].wrote
                                     /\ ~loc'[p].rec /\ pc'[p] = "idle"
          ELSE /\ Keeps(p, loc[p]) /\ Like(loc'[p].mine, loc[p].mine)
               /\ pc'[p] \in {"put", "reload", "restore"}
               /\ loc'[p].mine.phase \in {loc[p].mine.phase, "unconfirmed"}
               /\ loc'[p].mine.status \in {loc[p].mine.status, "pending"}
               /\ pc'[p] = "put" => Own(p) /\ loc'[p].mine.status = "pending"
  <2>1. CASE Marked(p, loc[p], "reload")
    BY <2>1, Zenon DEF Marked
  <2>2. CASE pc'[p] = "restore" /\ loc'[p] = loc[p]
    BY <2>2, Zenon DEF Stage, Keeps, Like
  <2>3. CASE loc'[p].token = 0 /\ loc'[p].mine = NoIntent /\ loc'[p].wrote = FALSE
             /\ loc'[p].rec = FALSE /\ pc'[p] = "idle"
    BY <2>3, Zenon DEF Stage
  <2> QED BY <2>1, <2>2, <2>3, Zenon DEF Landed
<1>12. Stepped(p)
  <2>1. Holds(p)
    <3>1. CASE Stage(p)' = "idle"
      BY <1>11, <3>1, Zenon DEF Holds, Like
    <3>2. CASE Stage(p)' # "idle"
      BY <1>11, <3>2, Zenon DEF Holds
    <3> QED BY <3>1, <3>2, Zenon
  <2>2. records \subseteq records' /\ nextToken <= nextToken' /\ nextId <= nextId'
    BY <1>1, <1>5
  <2>3. Own(p)' => Own(p) /\ loc'[p].mine.id = loc[p].mine.id
    BY <1>4, <1>11, Zenon DEF Own, Keeps, Like
  <2>4. loc'[p].token \in {0, loc[p].token} /\ (pc'[p] = "put" => Own(p) /\ loc'[p].mine.id = loc[p].mine.id)
    BY <1>11, Zenon DEF Keeps, Like
  <2> QED BY <1>1, <2>1, <2>2, <2>3, <2>4, Zenon DEF Stepped
<1>13. Shared'
  <2>1. intent.phase = "canary-passed" => over'[intent.id] = intent.prior
    BY <1>2, <1>9, Zenon DEF Shared, Mine, IInv, Shape
  <2> QED BY <1>1, <1>2, <2>1, Zenon DEF Shared, FinalizedIsWatchedOnce
<1>14. Place(p)'
  <2>1. CASE Stage(p)' = "idle"
    BY <1>4, <1>11, <2>1, Zenon DEF Place, Outside, Owning
  <2>2. CASE Stage(p)' # "idle"
    <3>1. pc'[p] = "put" => loc'[p].next = "reload" /\ p \notin Cli
      BY <1>11, <2>2, ContentAssumption, Zenon DEF Landed, Marked, Stage, Own
    <3> QED BY <1>2, <1>6, <1>11, <2>2, <3>1, Zenon DEF Place, Keeps, Like, Outside, Owning
  <2> QED BY <2>1, <2>2, Zenon
<1>15. Mine(p)'
  <2>1. CASE Stage(p)' = "idle"
    BY <1>1, <1>4, <1>5, <1>11, <2>1 DEF Mine, Same
  <2>2. CASE Stage(p)' # "idle"
    <3>1. Like(loc'[p].mine, loc[p].mine) /\ Keeps(p, loc[p]) /\ Stage(p)' \in {"reload", "restore"}
          /\ loc'[p].mine.phase \in {loc[p].mine.phase, "unconfirmed"}
          /\ loc'[p].mine.status \in {loc[p].mine.status, "pending"}
      BY <1>11, <2>2, Zenon
    <3>2. loc[p].mine.phase = "canary-passed" => over'[loc[p].mine.id] = loc[p].mine.prior
      BY <1>2, <1>6, <1>7, Zenon DEF Mine
    <3> QED BY <1>1, <1>2, <1>8, <3>1, <3>2, Zenon DEF Mine, Same, Like, Keeps
  <2> QED BY <2>1, <2>2, Zenon
<1>16. Knows(p)'
  BY <1>1, <1>2, <1>11, Zenon DEF Knows, Keeps, Like, Owning
<1>17. IInv'
  BY <1>10, <1>12, <1>13, <1>14, <1>15, <1>16, Frame, Zenon
<1>18. ASSUME JInv, ~clobbered PROVE \A q, r \in Proc : Ready(q)' /\ Spares(q, r)'
  BY <1>1, <1>3, <1>11, <1>12, <1>18, Frame2, Zenon
<1>19. ASSUME JInv, ~clobbered, trial' = "tick" PROVE Covered'
  <2>1. intent = loc[p].mine /\ intent.status = "pending" /\ intent.phase = "unconfirmed"
        /\ intent.cand = table' /\ table' # NoTable /\ p \in Tick
    BY <1>1, <1>2, <1>6, <1>7, <1>19, Zenon DEF JInv, Ready, Mine
  <2>2. ASSUME NEW q \in Proc \ {p} PROVE Undoing(q)'
    <3>1. Spares(p, q)
      BY <1>19, Zenon DEF JInv
    <3> QED BY <1>1, <1>2, <1>3, <2>1, <3>1, Zenon DEF Undoing, Spares
  <2>3. Undoing(p)'
    <3>1. loc'[p].mine.phase = "unconfirmed"
      BY <1>4, <1>11, <2>1, Zenon
    <3>2. CASE Stage(p)' = "idle"
      BY <1>11, <3>1, <3>2, Zenon DEF Undoing, Owning
    <3>3. CASE Stage(p)' # "idle"
      <4>1. loc'[p].prior # NoTable
        BY <1>2, <1>7, <1>11, <1>19, <3>3, Zenon DEF Keeps
      <4> QED BY <1>11, <3>1, <3>3, <4>1, Zenon DEF Undoing
    <3> QED BY <3>2, <3>3, Zenon
  <2> QED BY <1>1, <2>1, <2>2, <2>3, Zenon DEF Covered
<1> QED BY <1>1, <1>17, <1>18, <1>19, Zenon DEF JInv


\* A rollback puts its snapshot back on disk.
Restored(p) ==
    /\ Shape' /\ Others(p)
    /\ pc[p] = "restore" /\ Current(p) /\ pc'[p] = "restoreReload"
    /\ table' = loc[p].prior /\ trial' = "none"
    /\ UNCHANGED <<over, leaseDb, journal, records>>
    /\ loc'[p].token = loc[p].token /\ loc'[p].mine = loc[p].mine /\ loc'[p].rec = loc[p].rec
    /\ loc'[p].cand = loc[p].cand /\ loc'[p].prior = loc[p].prior
    /\ loc'[p].snap = loc[p].snap

\* A fenced restore preserves the invariant.
LEMMA Restores ==
    ASSUME IInv, NEW p \in Proc, Restored(p)
    PROVE  IInv' /\ (JInv => JInv')
<1>1. Others(p) /\ Shape' /\ lease' = lease /\ nextToken' = nextToken /\ intent' = intent
      /\ nextId' = nextId /\ clobbered' = clobbered /\ records' = records /\ over' = over /\ trial' = "none"
  BY Zenon DEF Restored, leaseDb, journal
<1>2. Place(p) /\ Mine(p) /\ Shared /\ nextToken \in Nat /\ nextId \in Nat
  BY Zenon DEF IInv, Shape
<1>3. \A q \in Proc \ {p} : ~Current(q)'
  BY <1>1, Alone, Zenon DEF Restored, Others, Current, isLeaseCurrent
<1>4. \A q \in Proc \ {p} : Gentle(q)
  BY <1>1, <1>3, Zenon DEF Gentle, IInv, Mine
<1>5. pc'[p] = "restoreReload" /\ Stage(p)' = "restoreReload" /\ Stage(p) = "restore"
  BY Zenon DEF Restored, Stage
<1>6. Stepped(p)
  <2>1. Holds(p) /\ (Own(p)' => Own(p))
    BY Zenon DEF Restored, Holds, Like, Own
  <2> QED BY <1>1, <1>2, <1>5, <2>1 DEF Restored, Stepped
<1>7. Shared'
  BY <1>1, <1>2, Zenon DEF Shared, FinalizedIsWatchedOnce
<1>8. Place(p)' /\ Knows(p)'
  BY <1>1, <1>2, <1>5, Zenon DEF Restored, Place, Knows, Outside, Owning
<1>9. Mine(p)'
  BY <1>1, <1>2, <1>5, Zenon DEF Restored, Mine
<1>10. IInv'
  BY <1>4, <1>6, <1>7, <1>8, <1>9, Frame, Zenon
<1>11. JInv => JInv'
  BY <1>1, <1>3, <1>5, <1>6, Frame3, Zenon
<1> QED BY <1>10, <1>11, Zenon

\* A watch record is queued.
Inserted(p) ==
    /\ Shape' /\ Others(p)
    /\ pc[p] = "insert" /\ Current(p)
    /\ \E r \in Record : r.intentId = loc[p].mine.id /\ records' = records \cup {r}
    /\ pc'[p] = IF p \in Tick THEN "settle" ELSE "release"
    /\ UNCHANGED <<disk, leaseDb, journal>>
    /\ loc'[p].token = loc[p].token /\ loc'[p].mine = loc[p].mine /\ loc'[p].rec = loc[p].rec
    /\ loc'[p].cand = loc[p].cand /\ loc'[p].prior = loc[p].prior
    /\ loc'[p].snap = loc[p].snap

\* The insert of a watch record preserves the invariant: a tick that still has the
\* lease finds no record of its intent, and the intent's canary has passed.
LEMMA Inserts ==
    ASSUME IInv, NEW p \in Proc, Inserted(p)
    PROVE  IInv' /\ (JInv => JInv')
<1>1. Others(p) /\ Shape' /\ lease' = lease /\ nextToken' = nextToken /\ intent' = intent
      /\ nextId' = nextId /\ clobbered' = clobbered /\ table' = table /\ trial' = trial /\ over' = over
  BY Zenon DEF Inserted, leaseDb, journal, disk
<1>2. Place(p) /\ Mine(p) /\ Knows(p) /\ Shared /\ nextToken \in Nat /\ nextId \in Nat
  BY Zenon DEF Inserted, IInv, Shape
<1>3. \A q \in Proc \ {p} : ~Current(q)'
  BY <1>1, Alone, Zenon DEF Inserted, Others, Current, isLeaseCurrent
<1>4. PICK r \in Record : r.intentId = loc[p].mine.id /\ records' = records \cup {r}
  BY Zenon DEF Inserted
<1>5. Stage(p) = "insert" /\ pc'[p] \in {"settle", "release"} /\ Stage(p)' = pc'[p] /\ pc[p] = "insert"
  BY Zenon DEF Inserted, Stage
<1>6. loc[p].mine.id # 0 => \A s \in records : s.intentId # r.intentId
  BY <1>2, <1>4, <1>5, ZenonT(30) DEF Knows, Place, Proc
<1>7. \A q \in Proc \ {p} : Gentle(q)
  BY <1>1, <1>3, Zenon DEF Gentle, IInv, Mine
<1>8. Stepped(p)
  <2>1. records \subseteq records' /\ nextToken <= nextToken' /\ nextId <= nextId'
    BY <1>1, <1>2, <1>4
  <2>2. Holds(p) /\ (Own(p)' => Own(p)) /\ loc'[p].token = loc[p].token /\ loc'[p].mine = loc[p].mine
    BY Zenon DEF Inserted, Holds, Like, Own
  <2> QED BY <1>1, <1>5, <2>1, <2>2, Zenon DEF Stepped
<1>9. Shared'
  <2>1. FinalizedIsWatchedOnce'
    BY <1>1, <1>2, <1>4, <1>6, ZenonT(30) DEF Shared, FinalizedIsWatchedOnce
  <2>2. r.intentId < nextId
    BY <1>2, <1>4, Zenon DEF Mine
  <2> QED BY <1>1, <1>2, <1>4, <2>1, <2>2, Zenon DEF Shared
<1>10. Place(p)'
  BY <1>2, <1>4, <1>5, ContentAssumption, Zenon DEF Inserted, Place, Outside, Owning, Proc
<1>11. Mine(p)' /\ Knows(p)'
  BY <1>1, <1>2, <1>4, <1>5, Zenon DEF Inserted, Mine, Knows, Owning
<1>12. IInv'
  BY <1>7, <1>8, <1>9, <1>10, <1>11, Frame, Zenon
<1>13. ASSUME JInv PROVE JInv'
  <2>1. ASSUME ~clobbered, trial' = "tick" PROVE Undoing(p)'
    <3>1. intent.id # 0 /\ Undoing(p)
      BY <1>1, <1>2, <1>13, <2>1, Zenon DEF JInv, Shared, Covered
    <3>2. p \in Cli /\ loc[p].mine.id = 0
      BY <1>2, <1>5, <3>1, Zenon DEF Inserted, Undoing, Place, Proc
    <3> QED BY <1>1, <3>1, <3>2, ContentAssumption, Zenon DEF Inserted, Undoing
  <2> QED BY <1>1, <1>3, <1>5, <1>8, <1>13, <2>1, Frame3, Zenon
<1> QED BY <1>12, <1>13, Zenon

\* The canary passes: the table is confirmed if it is still the candidate.
Passed(p) ==
    /\ Shape' /\ Others(p)
    /\ pc[p] = "canary" /\ Marked(p, loc[p], "insert")
    /\ trial' = IF table = loc[p].cand THEN "none" ELSE trial
    /\ UNCHANGED <<table, over, leaseDb, journal, records>>

\* A passed canary preserves the invariant: a late run does not come to mark an
\* intent whose candidate is still unconfirmed.
LEMMA Passes ==
    ASSUME IInv, NEW p \in Proc, Passed(p)
    PROVE  IInv' /\ (JInv => JInv')
<1>1. Others(p) /\ Shape' /\ lease' = lease /\ nextToken' = nextToken /\ nextId' = nextId /\ table' = table
      /\ over' = over /\ records' = records /\ intent' = intent /\ clobbered' = clobbered
  BY Zenon DEF Passed, leaseDb, journal
<1>2. Place(p) /\ Mine(p) /\ (Current(p) => Knows(p)) /\ Shared /\ nextToken \in Nat /\ nextId \in Nat
  BY Zenon DEF IInv, Shape
<1>3. \A q \in Proc : Current(q)' <=> Current(q)
  BY <1>1, Zenon DEF Passed, Marked, Keeps, Others, Current, isLeaseCurrent
<1>4. /\ pc[p] = "canary" /\ Stage(p) = "canary" /\ Stage(p)' = "insert"
      /\ Keeps(p, loc[p]) /\ Like(loc'[p].mine, loc[p].mine)
      /\ pc'[p] \in {"put", "insert"} /\ (pc'[p] = "put" => Own(p) /\ intent.id = loc[p].mine.id)
      /\ loc'[p].mine.status \in {loc[p].mine.status, "pending"}
      /\ p \notin Tick => pc'[p] = "insert" /\ loc'[p].mine = loc[p].mine
      /\ pc'[p] # "put" => loc'[p].mine = loc[p].mine
  BY Zenon DEF Passed, Marked, Stage, Own
<1>5. Stepped(p)
  <2>1. Holds(p)
    <3>1. CASE Own(p)
      BY <1>4, <3>1, Zenon DEF Holds
    <3>2. CASE ~Own(p)
      BY <1>4, <3>2, Zenon DEF Holds, Like
    <3> QED BY <3>1, <3>2, Zenon
  <2>2. Own(p)' => Own(p) /\ loc'[p].mine.id = loc[p].mine.id
    BY <1>4, Zenon DEF Own, Keeps, Like
  <2>3. records \subseteq records' /\ nextToken <= nextToken' /\ nextId <= nextId'
    BY <1>1, <1>2
  <2> QED BY <1>1, <1>4, <2>1, <2>2, <2>3, Zenon DEF Stepped, Keeps, Like
<1>6. \A q \in Proc \ {p} : Gentle(q)
  BY <1>1, <1>3, Calm, Zenon
<1>7. Shared'
  BY <1>1, <1>2, Zenon DEF Shared, FinalizedIsWatchedOnce
<1>8. Place(p)'
  <2>1. pc'[p] = "put" => loc'[p].next = "insert" /\ p \notin Cli
    BY <1>4, ContentAssumption, Zenon DEF Stage, Own
  <2> QED BY <1>1, <1>2, <1>4, <2>1, Zenon DEF Place, Keeps, Like, Outside, Owning
<1>9. Mine(p)'
  <2>1. p \in Tick => loc[p].mine.id # 0 /\ over[loc[p].mine.id] = loc[p].mine.prior
    BY <1>2, <1>4, Zenon DEF Place, Mine, Owning
  <2>2. loc'[p].mine.phase = "canary-passed" => loc[p].mine.id # 0 /\ over[loc[p].mine.id] = loc[p].mine.prior
    BY <1>2, <1>4, <2>1, Zenon DEF Mine
  <2> QED BY <1>1, <1>2, <1>4, <2>1, <2>2, Zenon DEF Mine, Same, Like, Keeps
<1>10. Current(p)' => Knows(p)'
  BY <1>1, <1>2, <1>3, <1>4, Zenon DEF Knows, Keeps, Like, Owning
<1>11. IInv'
  BY <1>5, <1>6, <1>7, <1>8, <1>9, <1>10, Frame, Zenon
<1>12. ASSUME JInv PROVE JInv'
  <2>1. ASSUME ~clobbered, trial' = "tick" PROVE trial = "tick" /\ Undoing(p)'
    <3>1. trial = "tick" /\ table # loc[p].cand
      BY <2>1, Zenon DEF Passed
    <3>2. intent.cand = table /\ intent.id # 0 /\ Undoing(p)
      BY <1>2, <1>12, <2>1, <3>1, Zenon DEF JInv, Shared, Covered
    <3>3. intent.id # loc[p].mine.id
      BY <1>2, <3>1, <3>2, Zenon DEF Mine, Same, Like
    <3>4. ~Current(p)'
      BY <1>2, <1>3, <1>4, <3>1, Zenon DEF Knows
    <3> QED BY <1>1, <1>4, <3>1, <3>2, <3>3, <3>4, Zenon DEF Undoing, Like
  <2> QED BY <1>1, <1>3, <1>4, <1>5, <1>12, <2>1, Frame3, Zenon
<1> QED BY <1>11, <1>12, Zenon

\* A tick is about to journal its intent.
Journalled(p) ==
    /\ Shape' /\ Others(p)
    /\ pc[p] = "journal" /\ pc'[p] = "put" /\ loc'[p].next = "write"
    /\ nextId <= MaxId /\ nextId' = nextId + 1
    /\ UNCHANGED <<disk, leaseDb, intent, clobbered, records>>
    /\ loc'[p].mine.id = nextId /\ loc'[p].mine.cand = loc[p].cand /\ loc'[p].mine.prior = loc[p].prior
    /\ loc'[p].mine.phase = "unconfirmed" /\ loc'[p].mine.status = "pending"
    /\ Keeps(p, loc[p])

\* A new intent preserves the invariant: its id is new.
LEMMA Journals ==
    ASSUME IInv, NEW p \in Proc, Journalled(p)
    PROVE  IInv' /\ (JInv => JInv')
<1>1. Others(p) /\ Shape' /\ lease' = lease /\ nextToken' = nextToken /\ table' = table /\ trial' = trial
      /\ over' = over /\ records' = records /\ intent' = intent /\ clobbered' = clobbered
  BY Zenon DEF Journalled, leaseDb, disk
<1>2. Place(p) /\ Mine(p) /\ (Current(p) => Knows(p)) /\ Shared
  BY Zenon DEF IInv
<1>3. {nextToken, nextId, intent.id} \subseteq Nat /\ 0 < nextId /\ \A r \in records : r.intentId \in Nat
  BY DEF IInv, Shape, Record, Intent
<1>4. \A q \in Proc : Current(q)' <=> Current(q)
  BY <1>1, Zenon DEF Journalled, Others, Keeps, Current, isLeaseCurrent
<1>5. \A q \in Proc \ {p} : Gentle(q)
  BY <1>1, <1>4, Calm, Zenon
<1>6. /\ pc'[p] = "put" /\ Stage(p)' = "write" /\ Stage(p) = "journal" /\ pc[p] = "journal"
      /\ loc'[p].mine.id = nextId /\ nextId # 0 /\ nextId' = nextId + 1 /\ nextId <= MaxId /\ Keeps(p, loc[p])
      /\ loc'[p].mine.cand = loc[p].cand /\ loc'[p].mine.prior = loc[p].prior
      /\ loc'[p].mine.phase = "unconfirmed" /\ loc'[p].mine.status = "pending" /\ loc'[p].next = "write"
  BY <1>3 DEF Journalled, Stage
<1>7. ~loc[p].wrote /\ ~loc[p].rec /\ loc[p].cand # NoTable /\ loc[p].snap = loc[p].prior /\ p \notin Cli
      /\ (Current(p) => table = loc[p].prior)
  BY <1>2, <1>6, Zenon DEF Place, Knows
<1>8. Stepped(p)
  <2>1. Holds(p)
    BY <1>6, Zenon DEF Holds
  <2> QED BY <1>1, <1>3, <1>6, <2>1 DEF Stepped, Keeps
<1>9. Shared'
  BY <1>1, <1>2, <1>3, <1>6 DEF Shared, FinalizedIsWatchedOnce
<1>10. Place(p)'
  BY <1>6, <1>7, ZenonT(30) DEF Place, Keeps, Outside, Owning
<1>11. Mine(p)'
  <2>1. loc'[p].token < nextToken' /\ loc'[p].mine.id < nextId' /\ loc'[p].mine.id <= MaxId
        /\ loc'[p].mine.id # intent'.id
    BY <1>1, <1>2, <1>3, <1>6 DEF Mine, Keeps, Shared
  <2> QED BY <1>6, <1>7, <2>1, Zenon DEF Mine, Same, Keeps
<1>12. Current(p)' => Knows(p)'
  <2>1. \A r \in records' : r.intentId # loc'[p].mine.id
    BY <1>1, <1>2, <1>3, <1>6 DEF Shared
  <2> QED BY <1>1, <1>4, <1>6, <1>7, <2>1, Zenon DEF Knows, Keeps
<1>13. IInv'
  BY <1>5, <1>8, <1>9, <1>10, <1>11, <1>12, Frame, Zenon
<1>14. ASSUME JInv PROVE JInv'
  <2>1. ASSUME ~clobbered, trial = "tick" PROVE Undoing(p)'
    <3>1. table # NoTable
      BY <1>14, <2>1, Zenon DEF JInv, Covered
    <3>2. Current(p)' => loc'[p].prior # NoTable
      BY <1>4, <1>6, <1>7, <3>1, Zenon DEF Keeps
    <3> QED BY <1>6, <3>2, Zenon DEF Undoing
  <2> QED BY <1>1, <1>4, <1>6, <1>8, <1>14, <2>1, Frame3, Zenon
<1> QED BY <1>13, <1>14, Zenon

\* A write of the journal preserves the invariant, by a run whose lease is gone as
\* well: it finalizes only what is watched, and it closes no candidate still
\* unconfirmed unless it overwrites another intent that is pending.
LEMMA Stores ==
    ASSUME IInv, NEW p \in Proc, PutIntent(p)
    PROVE  IInv' /\ (JInv => JInv')
<1>1. /\ table' = table /\ trial' = trial /\ over' = over /\ records' = records /\ lease' = lease
      /\ nextToken' = nextToken /\ nextId' = nextId /\ loc' = loc /\ pc[p] = "put" /\ intent' = loc[p].mine
      /\ clobbered' = (clobbered \/ ~MaySave(loc[p].mine)) /\ Goto(p, loc[p].next)
      /\ tableToken' = tableToken /\ gateway' = gateway /\ faults' = faults
  BY Zenon DEF PutIntent, disk, leaseDb
<1>2. Place(p) /\ Mine(p) /\ (Current(p) => Knows(p)) /\ Shared /\ Shape /\ loc[p].mine \in Intent
      /\ loc[p].next \in Label /\ nextId \in Nat /\ nextToken \in Nat
  BY Zenon DEF IInv, Shape, Loc
<1>3. pc' \in [Proc -> Label] /\ pc'[p] = loc[p].next /\ \A q \in Proc \ {p} : pc'[q] = pc[q]
  BY <1>1, <1>2, Zenon DEF Goto, Shape
<1>4. pc'[p] \in {"write", "reload", "readBack", "insert", "settle", "release"} /\ p \in Tick
      /\ loc[p].mine.id # 0
  BY <1>1, <1>2, <1>3, Zenon DEF Place, Stage, Proc, Owning
<1>5. \A q \in Proc : Stage(q)' = Stage(q) /\ (Current(q)' <=> Current(q))
  BY <1>1, <1>3, <1>4, Zenon DEF Stage, Current, isLeaseCurrent
<1>6. Shape' /\ Others(p)
  BY <1>1, <1>2, <1>3, Zenon DEF Shape, Others
<1>7. Stepped(p)
  <2>1. Holds(p) /\ (Own(p)' => Own(p))
    BY <1>1, Zenon DEF Holds, Like, Own
  <2> QED BY <1>1, <1>2, <1>4, <1>6, <2>1 DEF Stepped
<1>8. ASSUME NEW q \in Proc PROVE Same(loc[q].mine, intent')
  BY <1>1, Zenon DEF IInv, Apart
<1>9. \A q \in Proc \ {p} : Gentle(q)
  BY <1>1, <1>5, <1>8, Zenon DEF Gentle
<1>10. Shared'
  <2>1. FinalizedIsWatchedOnce'
    BY <1>1, <1>2, Zenon DEF Shared, Mine, FinalizedIsWatchedOnce
  <2> QED BY <1>1, <1>2, <1>4, <2>1, Zenon DEF Shared, Mine
<1>11. Place(p)'
  <2>1. /\ loc'[p] = loc[p] /\ Stage(p)' = Stage(p) /\ pc'[p] # "put" /\ records' = records
        /\ pc'[p] \notin Outside \cup {"load", "check", "journal"} /\ p \notin Cli
    BY <1>1, <1>4, <1>5, ContentAssumption, Zenon DEF Outside
  <2> QED BY <1>2, <1>4, <2>1, Zenon DEF Place
<1>12. Mine(p)' /\ (Current(p)' => Knows(p)')
  BY <1>1, <1>2, <1>5, <1>8, Zenon DEF Mine, Knows
<1>13. IInv'
  BY <1>7, <1>9, <1>10, <1>11, <1>12, Frame, Zenon
<1>14. ASSUME JInv, ~clobbered' PROVE \A q, r \in Proc : Ready(q)' /\ Spares(q, r)'
  <2>1. MaySave(loc[p].mine) /\ ~clobbered
    BY <1>1, <1>14, Zenon
  <2>2. \A q, r \in Proc : Ready(q) /\ Spares(q, r)
    BY <1>14, <2>1, Zenon DEF JInv
  <2>3. Ready(p)'
    BY <1>1, <1>4, Zenon DEF Ready
  <2>4. ASSUME NEW q \in Proc \ {p} PROVE Ready(q)'
    <3>1. SUFFICES ASSUME q \in Tick, Current(q), Stage(q) = "write",
                          \/ pc[q] = "write"
                          \/ pc[q] = "put" /\ loc[p].mine.id = loc[q].mine.id
                   PROVE  FALSE
      BY <1>1, <1>3, <1>5, Zenon DEF Ready, Stage
    <3>2. loc[p].mine.id # loc[q].mine.id
      BY <1>1, <2>2, <3>1, Zenon DEF Spares
    <3>3. intent.id = loc[q].mine.id /\ intent.status = "pending"
      BY <2>2, <3>1, <3>2, Zenon DEF Ready, IInv, Mine
    <3> QED BY <2>1, <3>2, <3>3, Zenon DEF MaySave
  <2>5. ASSUME NEW q \in Proc, NEW r \in Proc PROVE Spares(q, r)'
    <3>1. pc'[r] = "put" => pc[r] = "put"
      BY <1>1, <1>3, <1>4, Zenon
    <3> QED BY <1>1, <1>5, <2>2, <3>1, Zenon DEF Spares
  <2> QED BY <2>3, <2>4, <2>5, Zenon
<1>15. ASSUME JInv, ~clobbered', trial' = "tick" PROVE Covered'
  <2>1. MaySave(loc[p].mine) /\ Covered /\ Undoing(p)
    BY <1>1, <1>15, Zenon DEF JInv, Covered
  <2>2. loc[p].mine.id = intent.id
    BY <2>1, Zenon DEF MaySave, Covered
  <2>3. loc[p].mine.phase = intent.phase /\ loc[p].mine.status = intent.status /\ Like(loc[p].mine, intent)
    BY <1>1, <1>2, <1>4, <2>1, <2>2, Zenon DEF Undoing, Covered, Mine, Same
  <2>4. intent' = intent
    <3>1. intent \in Intent
      BY Zenon DEF IInv, Shape
    <3> QED BY <1>1, <1>2, <2>3, <3>1 DEF Intent, Like
  <2>5. ASSUME NEW q \in Proc PROVE Undoing(q)'
    <3>1. Undoing(q) /\ (pc'[q] = "put" => pc[q] = "put") /\ (pc'[q] = "restoreReload" => pc[q] = "restoreReload")
      BY <1>1, <1>3, <1>4, <2>1, Zenon DEF Covered
    <3> QED BY <1>1, <1>5, <2>4, <3>1, Zenon DEF Undoing
  <2> QED BY <1>1, <2>1, <2>4, <2>5, Zenon DEF Covered
<1> QED BY <1>13, <1>14, <1>15, Zenon DEF JInv

\* A blank run is a run.
LEMMA Blank == NoLoc \in Loc /\ NoLoc.token = 0 /\ NoLoc.mine = NoIntent /\ NoLoc.wrote = FALSE /\ NoLoc.rec = FALSE
BY Zenon DEF NoLoc, Loc, NoIntent, Intent, Table, Label

\* A run that ends while the disk and the intent stay leaves.
LEMMA Finishes ==
    ASSUME IInv, NEW p \in Proc, NEW l \in {"idle", "review"}, l = "review" => p \in Tick,
           Goto(p, l), loc' = [loc EXCEPT ![p] = NoLoc], UNCHANGED <<disk, gateway, intent, clobbered, records>>,
           nextId' \in {nextId, nextId + 1}, faults' \in Nat, UNCHANGED leaseDb \/ Unlock(p)
    PROVE  IInv' /\ (JInv => JInv')
<1>1. pc' \in [Proc -> Label] /\ loc' \in [Proc -> Loc] /\ Others(p) /\ pc'[p] = l /\ loc'[p] = NoLoc
  <2>1. l \in Label
    BY Zenon DEF Label
  <2> QED BY <2>1, Goes, Blank, Zenon
<1>2. lease' \in {lease, NoLease} /\ nextToken' = nextToken /\ NoLease \in [token : Nat, fresh : BOOLEAN]
  BY Zenon DEF Unlock, leaseDb, NoLease
<1>3. nextId' \in Nat \ {0} /\ nextId <= nextId'
  BY DEF IInv, Shape
<1>4. Shape'
  BY <1>1, <1>2, <1>3, Zenon DEF IInv, Shape, disk
<1>5. Left(p)
  BY <1>1, <1>2, <1>3, <1>4, Blank, ContentAssumption, Zenon DEF Left, Outside, disk
<1> QED BY <1>5, Leaves, Zenon

\* So does one that goes on with the next axis.
LEMMA NextAxes ==
    ASSUME IInv, NEW p \in Proc, NextAxis(p), UNCHANGED <<disk, gateway, journal, records, faults>>,
           UNCHANGED leaseDb \/ Unlock(p)
    PROVE  IInv' /\ (JInv => JInv')
<1>1. CASE Finish(p)
  BY <1>1, Finishes, Zenon DEF Finish, journal, IInv, Shape
<1>2. CASE ~Finish(p)
  <2>1. PICK c \in Content : loc' = [loc EXCEPT ![p] = [NoLoc EXCEPT !.base = loc[p].base, !.cand = c]]
    BY <1>2, Zenon DEF NextAxis
  <2> DEFINE v == [NoLoc EXCEPT !.base = loc[p].base, !.cand = c]
  <2>2. loc[p].base \in Table /\ c \in Table /\ c # NoTable
    BY ContentAssumption, Zenon DEF IInv, Shape, Loc, Table
  <2>3. v \in Loc /\ v.token = 0 /\ v.mine = NoIntent /\ v.wrote = FALSE /\ v.rec = FALSE /\ v.cand = c
    BY <2>2, Blank, Zenon DEF Loc
  <2>4. Goto(p, "acquire") /\ loc' = [loc EXCEPT ![p] = v]
    BY <1>2, <2>1, Zenon DEF NextAxis
  <2> HIDE DEF v
  <2>5. pc' \in [Proc -> Label] /\ loc' \in [Proc -> Loc] /\ Others(p) /\ pc'[p] = "acquire" /\ loc'[p] = v
    BY <2>3, <2>4, Goes, Zenon DEF Label
  <2>6. lease' \in {lease, NoLease} /\ nextToken' = nextToken /\ NoLease \in [token : Nat, fresh : BOOLEAN]
    BY Zenon DEF Unlock, leaseDb, NoLease
  <2>7. Shape'
    BY <2>5, <2>6, Zenon DEF IInv, Shape, disk, journal
  <2>8. nextId <= nextId' /\ intent' = intent /\ clobbered' = clobbered
    <3>1. nextId' = nextId /\ intent' = intent /\ clobbered' = clobbered /\ nextId \in Nat
      BY Zenon DEF IInv, Shape, journal
    <3> QED BY <3>1
  <2>9. Left(p)
    BY <2>2, <2>3, <2>5, <2>6, <2>7, <2>8, Zenon DEF Left, Outside, disk
  <2> QED BY <2>9, Leaves, Zenon
<1> QED BY <1>1, <1>2, Zenon

\* At most the lease is renewed.
LeaseKept(p) == lease' = lease \/ (Current(p) /\ lease' = [lease EXCEPT !.fresh = TRUE])

Still ==
    /\ table' = table /\ over' = over /\ trial' = trial /\ intent' = intent /\ clobbered' = clobbered
    /\ records' = records /\ nextToken' = nextToken /\ nextId' = nextId

\* What a step that only moves p does.
LEMMA Proceeds ==
    ASSUME IInv, NEW p \in Proc, pc' \in [Proc -> Label], loc' \in [Proc -> Loc], Others(p),
           gateway' \in Table, faults' \in Nat, UNCHANGED <<disk, journal, records, nextToken>>,
           LeaseKept(p), loc'[p].token = loc[p].token, loc'[p].rec = loc[p].rec,
           \E i \in {loc[p].mine, intent} :
              Like(loc'[p].mine, i) /\ loc'[p].mine.phase \in {i.phase, "unconfirmed"},
           loc'[p].rec \/ loc'[p].mine.id = loc[p].mine.id,
           p \in Tick => Stage(p)' # "write",
           pc'[p] = "put" => (Own(p) /\ loc'[p].mine.id = loc[p].mine.id) \/ Current(p)
    PROVE  Moved(p) /\ Still /\ (Current(p)' => Current(p))
<1>1. lease' \in [token : Nat, fresh : BOOLEAN] /\ lease'.token = lease.token /\ (lease' # NoLease => lease # NoLease)
  BY Zenon DEF IInv, Shape, LeaseKept, Current, isLeaseCurrent
<1>2. Shape'
  BY <1>1, Zenon DEF IInv, Shape, disk, journal
<1>3. Moved(p)
  BY <1>1, <1>2, Zenon DEF Moved
<1> QED BY <1>1, <1>3, Zenon DEF Current, isLeaseCurrent, disk, journal, Still

\* The same for a step that goes to l and keeps its intent or loads the one in the
\* journal.
LEMMA Walks ==
    ASSUME IInv, NEW p \in Proc, NEW l \in Label \ {"put"}, NEW v \in Loc,
           Goto(p, l), loc' = [loc EXCEPT ![p] = v], gateway' \in Table, faults' \in Nat,
           UNCHANGED <<disk, journal, records, nextToken>>, LeaseKept(p),
           v.token = loc[p].token, v.rec = loc[p].rec,
           v.mine = loc[p].mine \/ (v.rec /\ v.mine = intent),
           p \in Tick => l # "write"
    PROVE  Moved(p) /\ Still /\ (Current(p)' => Current(p)) /\ pc'[p] = l /\ Stage(p)' = l /\ loc'[p] = v
<1>1. pc' \in [Proc -> Label] /\ loc' \in [Proc -> Loc] /\ Others(p) /\ pc'[p] = l /\ loc'[p] = v /\ Stage(p)' = l
  <2>1. pc' \in [Proc -> Label] /\ loc' \in [Proc -> Loc] /\ Others(p) /\ pc'[p] = l /\ loc'[p] = v
    BY Goes, Zenon
  <2> QED BY <2>1, Zenon DEF Stage
<1>2. \E i \in {loc[p].mine, intent} :
         Like(loc'[p].mine, i) /\ loc'[p].mine.phase \in {i.phase, "unconfirmed"}
  BY <1>1, Zenon DEF Like
<1> QED BY <1>1, <1>2, Proceeds, Zenon

\* The first half of the tick preserves the invariant.
LEMMA Begins ==
    ASSUME IInv, NEW p \in Proc, TickStart(p) \/ LoadNone(p) \/ LoadPending(p)
    PROVE  IInv' /\ (JInv => JInv')
<1>1. CASE TickStart(p)
  <2> DEFINE v == [loc[p] EXCEPT !.token = nextToken, !.rec = TRUE]
  <2>1. loc[p] \in Loc /\ nextToken \in Nat /\ Place(p) /\ pc[p] = "idle" /\ p \in Tick
    BY <1>1, Zenon DEF IInv, Shape, TickStart
  <2>2. v \in Loc /\ v.token = nextToken /\ v.mine = loc[p].mine /\ v.wrote = loc[p].wrote /\ v.rec
    BY <2>1, Zenon DEF Loc
  <2>3. loc[p].mine = NoIntent /\ loc[p].wrote = FALSE
    BY <2>1, Zenon DEF Place, Outside, Loc, Stage
  <2>4. Goto(p, "load") /\ loc' = [loc EXCEPT ![p] = v]
    BY <1>1, <2>1, Zenon DEF TickStart, IInv, Shape
  <2> HIDE DEF v
  <2>5. pc' \in [Proc -> Label] /\ loc' \in [Proc -> Loc] /\ Others(p) /\ pc'[p] = "load" /\ loc'[p] = v
    BY <2>2, <2>4, Goes, Zenon DEF Label
  <2>6. lease' = [token |-> nextToken, fresh |-> TRUE] /\ nextToken' = nextToken + 1
    BY <1>1, Zenon DEF TickStart, Grant
  <2>7. Shape'
    <3>1. nextToken' \in Nat \ {0}
      BY <2>1, <2>6
    <3>2. lease' \in [token : Nat, fresh : BOOLEAN]
      BY <2>1, <2>6, Zenon
    <3> QED BY <1>1, <2>5, <3>1, <3>2, Zenon DEF TickStart, IInv, Shape, disk, journal
  <2>8. Granted(p)
    BY <1>1, <2>1, <2>2, <2>3, <2>5, <2>6, <2>7, ContentAssumption, Zenon DEF TickStart, Granted
  <2> QED BY <2>8, Grants, Zenon
<1>2. CASE LoadNone(p)
  <2>1. p \in Tick /\ faults \in Nat
    BY <1>2, Zenon DEF LoadNone, IInv, Shape, Place, Proc
  <2> QED BY <1>2, <2>1, Finishes, Zenon DEF LoadNone, journal
<1>3. CASE LoadPending(p)
  <2> DEFINE live == table = intent.cand
             watched == \E r \in records : r.intentId = intent.id
             l == IF intent.phase # "canary-passed" THEN "restore"
                  ELSE IF live /\ ~watched THEN "insert" ELSE "settle"
             st == IF live THEN "finalized" ELSE "aborted"
             v == [loc[p] EXCEPT !.mine = intent, !.prior = intent.prior, !.snap = intent.prior,
                                 !.cand = intent.cand, !.status = st]
  <2>1. loc[p] \in Loc /\ intent \in Intent /\ Place(p) /\ Mine(p) /\ Shared /\ pc[p] = "load" /\ intent.status = "pending"
    BY <1>3, Zenon DEF IInv, Shape, LoadPending
  <2>2. v \in Loc /\ v.token = loc[p].token /\ v.mine = intent /\ v.prior = intent.prior /\ v.snap = intent.prior
        /\ v.cand = intent.cand /\ v.status = st /\ v.wrote = loc[p].wrote /\ v.rec = loc[p].rec
    BY <2>1, Zenon DEF Loc, Intent
  <2>3. Goto(p, l) /\ loc' = [loc EXCEPT ![p] = v] /\ l \in Label \ {"put"}
    BY <1>3, <2>1, Zenon DEF LoadPending, IInv, Shape, Label
  <2>4. l \in {"restore", "insert", "settle"} /\ (l = "restore" <=> intent.phase # "canary-passed")
        /\ (l = "insert" => live /\ ~watched) /\ (l = "settle" /\ st = "finalized" => watched)
    OBVIOUS
  <2> HIDE DEF v, l
  <2>5. LeaseKept(p) /\ gateway' \in Table /\ faults' \in Nat /\ UNCHANGED <<disk, journal, records, nextToken>>
    BY <1>3, Zenon DEF LoadPending, leaseDb, LeaseKept, IInv, Shape
  <2>6. loc[p].rec /\ ~loc[p].wrote
    BY <2>1, Zenon DEF Place, Stage
  <2>7. Moved(p) /\ Still /\ pc'[p] = l /\ Stage(p)' = l /\ loc'[p] = v
    BY <2>2, <2>3, <2>4, <2>5, <2>6, Walks, ZenonT(30)
  <2>8. Place(p)'
    BY <2>1, <2>2, <2>4, <2>6, <2>7, Zenon DEF Place, Shared, Outside, Owning, Still
  <2>9. Mine(p)'
    BY <2>1, <2>2, <2>4, <2>7, Zenon DEF Mine, Shared, Same, Like, Still, FinalizedIsWatchedOnce
  <2>10. Knows(p)'
    BY <2>2, <2>4, <2>7, Zenon DEF Knows, Owning, Still
  <2>11. ASSUME JInv, ~clobbered, trial = "tick" PROVE Undoing(p)'
    BY <2>1, <2>2, <2>4, <2>6, <2>7, <2>11, Zenon DEF JInv, Covered, Undoing, Still
  <2> QED BY <2>7, <2>8, <2>9, <2>10, <2>11, Moves, Zenon
<1> QED BY <1>1, <1>2, <1>3, Zenon

\* Rollback preserves the invariant.
LEMMA RollsBack ==
    ASSUME IInv, NEW p \in Proc, Restore(p) \/ RestoreReload(p)
    PROVE  IInv' /\ (JInv => JInv')
<1>1. Shape /\ loc[p] \in Loc /\ Place(p) /\ Mine(p) /\ gateway \in Table /\ faults \in Nat /\ table \in Table
  BY Zenon DEF IInv, Shape
<1>2. CASE Restore(p)
  <2> DEFINE v == [loc[p] EXCEPT !.wrote = TRUE]
  <2>1. v \in Loc /\ v.token = loc[p].token /\ v.mine = loc[p].mine /\ v.cand = loc[p].cand /\ v.prior = loc[p].prior
        /\ v.snap = loc[p].snap /\ v.status = loc[p].status /\ v.wrote /\ v.rec = loc[p].rec
    BY <1>1, Zenon DEF Loc
  <2>2. loc' = [loc EXCEPT ![p].wrote = TRUE] => loc' = [loc EXCEPT ![p] = v]
    BY <1>1, Zenon DEF Shape
  <2>3. pc[p] = "restore" /\ Stage(p) = "restore" /\ Goto(p, "restoreReload") /\ gateway' \in Table /\ LeaseKept(p)
        /\ UNCHANGED <<journal, records, leaseDb, nextToken>> /\ "restoreReload" \in Label \ {"put"}
    BY <1>1, <1>2, Zenon DEF Restore, leaseDb, LeaseKept, Stage, Label
  <2> HIDE DEF v
  <2>4. ASSUME NEW w \in {v, loc[p]}, loc' = [loc EXCEPT ![p] = w], UNCHANGED disk, faults' \in Nat
        PROVE  /\ Still /\ Moved(p) /\ pc'[p] = "restoreReload" /\ Stage(p)' = "restoreReload" /\ loc'[p] = w
               /\ (Current(p)' => Current(p)) /\ IInv' /\ (JInv /\ (~clobbered /\ trial = "tick" => Undoing(p)') => JInv')
    <3>1. w \in Loc /\ w.token = loc[p].token /\ w.mine = loc[p].mine /\ w.cand = loc[p].cand /\ w.prior = loc[p].prior
          /\ w.snap = loc[p].snap /\ w.rec = loc[p].rec
      BY <1>1, <2>1, Zenon
    <3>2. Still /\ Moved(p) /\ pc'[p] = "restoreReload" /\ Stage(p)' = "restoreReload" /\ loc'[p] = w
          /\ (Current(p)' => Current(p))
      BY <2>3, <2>4, <3>1, Walks, ZenonT(30)
    <3>3. Place(p)' /\ Mine(p)' /\ Knows(p)'
      BY <1>1, <2>3, <3>1, <3>2, Zenon DEF Place, Mine, Knows, Outside, Owning, Still
    <3> QED BY <3>2, <3>3, Moves, Zenon
  <2>5. CASE ~RestoreWrites(p) /\ loc' = [loc EXCEPT ![p].wrote = TRUE] /\ UNCHANGED <<disk, faults>>
    <3>1. /\ Still /\ pc'[p] = "restoreReload" /\ Stage(p)' = "restoreReload" /\ loc'[p] = v
          /\ (Current(p)' => Current(p)) /\ IInv' /\ (JInv /\ (~clobbered /\ trial = "tick" => Undoing(p)') => JInv')
      BY <1>1, <2>2, <2>4, <2>5, Zenon
    <3>2. ASSUME JInv, ~clobbered, trial = "tick" PROVE Undoing(p)'
      <4>1. Undoing(p) /\ (p \in Tick => ~Current(p))
        BY <2>3, <2>5, <3>2, Zenon DEF JInv, Covered, Undoing, RestoreWrites
      <4> QED BY <2>1, <3>1, <4>1, Zenon DEF Undoing, Still
    <3> QED BY <3>1, <3>2, Zenon
  <2>6. CASE /\ Current(p) /\ table' = loc[p].prior /\ tableToken' = loc[p].token /\ trial' = "none"
             /\ loc' = [loc EXCEPT ![p].wrote = TRUE] /\ UNCHANGED <<over, faults>>
    <3>1. pc' \in [Proc -> Label] /\ loc' \in [Proc -> Loc] /\ Others(p) /\ pc'[p] = "restoreReload" /\ loc'[p] = v
      <4>1. "restoreReload" \in Label
        BY Zenon DEF Label
      <4> QED BY <2>1, <2>2, <2>3, <2>6, <4>1, Goes, ZenonT(30)
    <3>2. loc[p].prior \in Table /\ loc[p].token \in Nat
      BY <1>1, Zenon DEF Loc
    <3>3. Shape'
      BY <1>1, <2>3, <2>6, <3>1, <3>2, Zenon DEF Shape, leaseDb, journal
    <3>4. Restored(p)
      BY <2>1, <2>3, <2>6, <3>1, <3>3, Zenon DEF Restored
    <3> QED BY <3>4, Restores, Zenon
  <2>7. CASE UNCHANGED <<disk, loc>> /\ faults' \in Nat
    <3>1. loc' = [loc EXCEPT ![p] = loc[p]]
      BY <1>1, <2>7, Zenon DEF Shape
    <3>2. /\ Still /\ pc'[p] = "restoreReload" /\ Stage(p)' = "restoreReload" /\ loc'[p] = loc[p]
          /\ (Current(p)' => Current(p)) /\ IInv' /\ (JInv /\ (~clobbered /\ trial = "tick" => Undoing(p)') => JInv')
      BY <2>4, <2>7, <3>1, Zenon
    <3>3. ASSUME JInv, ~clobbered, trial = "tick" PROVE Undoing(p)'
      <4>1. Undoing(p) /\ ~loc[p].wrote
        BY <1>1, <2>3, <3>3, Zenon DEF JInv, Covered, Place
      <4> QED BY <3>2, <4>1, Zenon DEF Undoing, Still, Owning
    <3> QED BY <3>2, <3>3, Zenon
  <2> QED BY <1>1, <1>2, <2>5, <2>6, <2>7 DEF Restore, Fault
<1>3. CASE RestoreReload(p)
  <2>1. PICK ok \in BOOLEAN :
          /\ Reload(p, ok)
          /\ LET x == [loc[p] EXCEPT !.status = IF loc[p].wrote /\ ok THEN "aborted" ELSE "pending"]
                 l == IF p \in Cli THEN "release" ELSE "settle"
             IN  IF ok /\ ~loc[p].rec THEN MarkPhase(p, x, l)
                                      ELSE Goto(p, l) /\ loc' = [loc EXCEPT ![p] = x]
    BY <1>3, Zenon DEF RestoreReload
  <2> DEFINE v == [loc[p] EXCEPT !.status = IF loc[p].wrote /\ ok THEN "aborted" ELSE "pending"]
             l == IF p \in Cli THEN "release" ELSE "settle"
  <2>2. v \in Loc /\ v.token = loc[p].token /\ v.mine = loc[p].mine /\ v.cand = loc[p].cand /\ v.prior = loc[p].prior
        /\ v.snap = loc[p].snap /\ v.wrote = loc[p].wrote /\ v.status # "finalized" /\ v.rec = loc[p].rec
        /\ (~loc[p].wrote => v.status = "pending")
    BY <1>1, Zenon DEF Loc
  <2>3. pc[p] = "restoreReload" /\ Stage(p) = "restoreReload"
        /\ IF ok /\ ~loc[p].rec THEN MarkPhase(p, v, l) ELSE Goto(p, l) /\ loc' = [loc EXCEPT ![p] = v]
    BY <1>3, <2>1, Zenon DEF RestoreReload, Stage
  <2>4. l \in {"release", "settle"} /\ (l = "release" <=> p \in Cli) /\ l \in Label \ {"put"}
    BY Zenon DEF Label
  <2> HIDE DEF v, l
  <2>5. gateway' \in Table /\ faults' \in Nat /\ UNCHANGED <<disk, journal, records, nextToken>>
        /\ LeaseKept(p)
    BY <1>1, <1>3, <2>1 DEF RestoreReload, Reload, Fault, LeaseKept
  <2>6. pc' \in [Proc -> Label] /\ loc' \in [Proc -> Loc] /\ Others(p) /\ Marked(p, v, l)
    <3>1. CASE ok /\ ~loc[p].rec
      BY <2>2, <2>3, <2>4, <3>1, Marks, Zenon
    <3>2. CASE ~(ok /\ ~loc[p].rec)
      <4>1. pc' \in [Proc -> Label] /\ loc' \in [Proc -> Loc] /\ Others(p) /\ pc'[p] = l /\ loc'[p] = v
        BY <2>2, <2>3, <2>4, <3>2, Goes, Zenon
      <4> QED BY <2>4, <4>1, Zenon DEF Marked, Keeps, Stage, Like
    <3> QED BY <3>1, <3>2, Zenon
  <2>7. /\ Keeps(p, v) /\ Like(loc'[p].mine, loc[p].mine) /\ Stage(p)' = l
        /\ pc'[p] \in {"put", l} /\ (pc'[p] = "put" => Own(p) /\ loc'[p].mine.status = "pending")
        /\ loc'[p].mine.phase \in {loc[p].mine.phase, "unconfirmed"}
        /\ loc'[p].mine.status \in {loc[p].mine.status, "pending"}
    BY <2>2, <2>4, <2>6, Zenon DEF Marked
  <2>8. Moved(p) /\ Still /\ (Current(p)' => Current(p))
    <3>1. loc'[p].token = loc[p].token /\ loc'[p].rec = loc[p].rec /\ loc'[p].mine.id = loc[p].mine.id
          /\ (p \in Tick => Stage(p)' # "write")
      BY <2>2, <2>4, <2>7, Zenon DEF Keeps, Like
    <3> QED BY <2>5, <2>6, <2>7, <3>1, Proceeds, ZenonT(30)
  <2>9. Place(p)'
    <3>1. pc'[p] = "put" => loc'[p].next = "settle" /\ p \notin Cli
      BY <2>4, <2>7, ContentAssumption, Zenon DEF Stage, Own
    <3> QED BY <1>1, <2>2, <2>3, <2>4, <2>7, <2>8, <3>1, ContentAssumption, ZenonT(30)
        DEF Place, Keeps, Like, Outside, Owning
  <2>10. Mine(p)' /\ Knows(p)'
    <3>1. Knows(p)'
      BY <2>2, <2>4, <2>7, Zenon DEF Knows, Owning
    <3>2. Mine(p)'
      BY <1>1, <2>2, <2>4, <2>7, <2>8, ZenonT(30) DEF Mine, Same, Keeps, Like, Owning, Still
    <3> QED BY <3>1, <3>2, Zenon
  <2>11. ASSUME JInv, ~clobbered, trial = "tick" PROVE Undoing(p)'
    <3>1. Undoing(p)
      BY <2>11, Zenon DEF JInv, Covered
    <3>2. p \in Tick /\ Current(p)' => loc'[p].status = "pending"
      BY <2>2, <2>3, <2>7, <2>8, <3>1, Zenon DEF Undoing, Keeps
    <3> QED BY <2>4, <2>7, <2>8, <3>1, <3>2, Zenon DEF Undoing, Like, Owning, Still
  <2> QED BY <2>8, <2>9, <2>10, <2>11, Moves, Zenon
<1> QED BY <1>2, <1>3, Zenon

\* The writes of the journal and of the watch record preserve the invariant.
LEMMA Settles ==
    ASSUME IInv, NEW p \in Proc, PutFails(p) \/ Settle(p) \/ Insert(p)
    PROVE  IInv' /\ (JInv => JInv')
<1>1. Shape /\ loc[p] \in Loc /\ Place(p) /\ Mine(p) /\ Shared /\ intent \in Intent
      /\ gateway \in Table /\ faults \in Nat /\ nextId \in Nat
  BY Zenon DEF IInv, Shape
<1>2. CASE PutFails(p)
  <2>1. pc[p] = "put" /\ Stage(p) = loc[p].next /\ faults' \in Nat /\ p \in Tick
        /\ UNCHANGED <<disk, gateway, journal, records>>
    BY <1>1, <1>2 DEF PutFails, Fault, Stage, Place, Proc
  <2>2. CASE Finish(p) /\ Unlock(p)
    BY <2>1, <2>2, Finishes, Zenon DEF Finish, journal
  <2>3. ASSUME NEW l \in {"restore", "settle"}, NEW v \in Loc, Goto(p, l), loc' = [loc EXCEPT ![p] = v],
               v.token = loc[p].token, v.rec = loc[p].rec, v.mine = loc[p].mine, v.cand = loc[p].cand,
               v.prior = loc[p].prior, v.snap = loc[p].snap, v.wrote = loc[p].wrote, UNCHANGED leaseDb,
               IF l = "restore" THEN loc[p].next \in {"reload", "readBack"}
                                ELSE loc[p].next = "settle" /\ v.status = "pending"
        PROVE  IInv' /\ (JInv => JInv')
    <3>1. l \in Label \ {"put"} /\ LeaseKept(p) /\ gateway' \in Table /\ UNCHANGED <<disk, journal, records, nextToken>>
      BY <1>1, <2>1, <2>3, Zenon DEF Label, LeaseKept, leaseDb
    <3>2. Moved(p) /\ Still /\ (Current(p)' => Current(p)) /\ pc'[p] = l /\ Stage(p)' = l /\ loc'[p] = v
      BY <2>1, <2>3, <3>1, Walks, ZenonT(30)
    <3>3. Place(p)'
      BY <1>1, <2>1, <2>3, <3>2, ContentAssumption, ZenonT(30) DEF Place, Outside, Owning
    <3>4. Mine(p)' /\ Knows(p)'
      BY <1>1, <2>3, <3>2, Zenon DEF Mine, Knows, Owning, Still
    <3>5. ASSUME JInv, ~clobbered, trial = "tick" PROVE Undoing(p)'
      <4>1. Undoing(p)
        BY <3>5, Zenon DEF JInv, Covered
      <4> QED BY <2>1, <2>3, <3>2, <4>1, Zenon DEF Undoing, Owning, Still
    <3> QED BY <3>2, <3>3, <3>4, <3>5, Moves, Zenon
  <2>4. CASE loc[p].next \in {"reload", "readBack"} /\ Goto(p, "restore") /\ UNCHANGED <<loc, leaseDb>>
    <3>1. loc' = [loc EXCEPT ![p] = loc[p]]
      BY <1>1, <2>4, Zenon DEF Shape
    <3> QED BY <1>1, <2>3, <2>4, <3>1, Zenon
  <2>5. CASE loc[p].next = "settle" /\ Goto(p, "settle") /\ loc' = [loc EXCEPT ![p].status = "pending"]
             /\ UNCHANGED leaseDb
    <3> DEFINE v == [loc[p] EXCEPT !.status = "pending"]
    <3>1. v \in Loc /\ v.token = loc[p].token /\ v.rec = loc[p].rec /\ v.mine = loc[p].mine /\ v.cand = loc[p].cand
          /\ v.prior = loc[p].prior /\ v.snap = loc[p].snap /\ v.wrote = loc[p].wrote /\ v.status = "pending"
      BY <1>1, Zenon DEF Loc
    <3>2. loc' = [loc EXCEPT ![p] = v]
      BY <1>1, <2>5, Zenon DEF Shape
    <3> HIDE DEF v
    <3> QED BY <2>3, <2>5, <3>1, <3>2, Zenon
  <2> QED BY <1>2, <2>2, <2>4, <2>5, Zenon DEF PutFails
<1>3. CASE Settle(p)
  <2> DEFINE j == IF loc[p].rec THEN loc[p].mine ELSE intent
             i == [j EXCEPT !.status = loc[p].status]
  <2>1. gateway' = gateway /\ faults' = faults /\ UNCHANGED <<disk, journal, records>>
        /\ pc[p] = "settle" /\ Stage(p) = "settle" /\ p \in Tick /\ p \notin Cli /\ loc[p].mine.id # 0
    BY <1>1, <1>3, ContentAssumption, Zenon DEF Settle, Stage, Place, Proc
  <2>2. IF i.id = loc[p].mine.id /\ Current(p) /\ MaySave(i)
          THEN WillPut(p, i, "release") /\ UNCHANGED leaseDb
          ELSE Finish(p) /\ Unlock(p)
    BY <1>3, Zenon DEF Settle
  <2>3. j \in {loc[p].mine, intent} /\ j \in Intent /\ loc[p].status \in {"pending", "finalized", "aborted"}
    BY <1>1, Zenon DEF Loc
  <2> HIDE DEF j
  <2>4. i \in Intent /\ i.id = j.id /\ i.cand = j.cand /\ i.prior = j.prior /\ i.phase = j.phase
        /\ i.status = loc[p].status
    BY <2>3, Zenon DEF Intent
  <2> HIDE DEF i
  <2>5. CASE i.id = loc[p].mine.id /\ Current(p) /\ MaySave(i)
    <3> DEFINE v == [loc[p] EXCEPT !.mine = i, !.next = "release"]
    <3>1. v \in Loc /\ v.token = loc[p].token /\ v.rec = loc[p].rec /\ v.mine = i /\ v.next = "release"
          /\ v.cand = loc[p].cand /\ v.prior = loc[p].prior /\ v.snap = loc[p].snap /\ v.wrote = loc[p].wrote
          /\ v.status = loc[p].status
      BY <1>1, <2>4, Zenon DEF Loc, Label
    <3>2. loc' = [loc EXCEPT ![p] = v] /\ Goto(p, "put") /\ UNCHANGED leaseDb
      BY <1>1, <2>2, <2>5, Zenon DEF WillPut, Shape
    <3> HIDE DEF v
    <3>3. pc' \in [Proc -> Label] /\ loc' \in [Proc -> Loc] /\ Others(p) /\ pc'[p] = "put" /\ loc'[p] = v
          /\ Stage(p)' = "release"
      <4>1. pc' \in [Proc -> Label] /\ loc' \in [Proc -> Loc] /\ Others(p) /\ pc'[p] = "put" /\ loc'[p] = v
        BY <3>1, <3>2, Goes, Zenon DEF Label
      <4> QED BY <3>1, <4>1, Zenon DEF Stage
    <3>4. Like(i, loc[p].mine)
      BY <1>1, <2>1, <2>3, <2>4, <2>5, Zenon DEF Mine, Same, Like
    <3>5. Moved(p) /\ Still /\ (Current(p)' => Current(p))
      <4>1. \E k \in {loc[p].mine, intent} :
               Like(loc'[p].mine, k) /\ loc'[p].mine.phase \in {k.phase, "unconfirmed"}
        BY <2>3, <2>4, <3>1, <3>3, Zenon DEF Like
      <4> QED BY <1>1, <2>1, <2>5, <3>1, <3>2, <3>3, <4>1, Proceeds, ZenonT(30) DEF LeaseKept, leaseDb
    <3>6. Place(p)'
      BY <1>1, <2>1, <2>5, <3>1, <3>3, <3>5, Zenon DEF Place, Outside, Owning
    <3>7. Mine(p)'
      <4>1. i.phase = "canary-passed" => over[i.id] = i.prior
        BY <1>1, <2>1, <2>3, <2>4, Zenon DEF Mine, Shared
      <4>2. i.status = "finalized" => \E r \in records : r.intentId = i.id
        BY <1>1, <2>1, <2>4, <2>5, Zenon DEF Place
      <4> QED BY <1>1, <2>1, <2>5, <3>1, <3>3, <3>4, <3>5, <4>1, <4>2, Zenon DEF Mine, Same, Like, Still
    <3>8. Knows(p)'
      BY <3>3, Zenon DEF Knows, Owning
    <3>9. ASSUME JInv, ~clobbered, trial = "tick" PROVE Undoing(p)'
      <4>1. Undoing(p) /\ intent.phase = "unconfirmed"
        BY <3>9, Zenon DEF JInv, Covered
      <4>2. i.status = "pending" /\ (i.id = intent.id => i.phase = "unconfirmed")
        BY <2>1, <2>3, <2>4, <2>5, <4>1, Zenon DEF Undoing
      <4> QED BY <3>1, <3>3, <3>5, <4>2, Zenon DEF Undoing, Owning, Still
    <3> QED BY <3>5, <3>6, <3>7, <3>8, <3>9, Moves, Zenon
  <2>6. CASE ~(i.id = loc[p].mine.id /\ Current(p) /\ MaySave(i))
    BY <1>1, <2>1, <2>2, <2>6, Finishes, Zenon DEF Finish, journal
  <2> QED BY <2>5, <2>6, Zenon
<1>4. CASE Insert(p)
  <2>1. gateway' = gateway /\ faults' = faults /\ UNCHANGED <<disk, journal>> /\ pc[p] = "insert" /\ Stage(p) = "insert"
    BY <1>4, Zenon DEF Insert, Stage
  <2>2. CASE Current(p)
    <3> DEFINE r == [intentId |-> loc[p].mine.id, cand |-> loc[p].cand, prior |-> loc[p].snap, token |-> loc[p].token,
                     over |-> IF p \in Tick THEN over[loc[p].mine.id] ELSE loc[p].over]
               v == [loc[p] EXCEPT !.status = "finalized"]
               l == IF p \in Cli THEN "release" ELSE "settle"
    <3>1. p \in Tick => loc[p].mine.id \in 1..MaxId
      BY <1>1, <2>1, BoundsAssumption DEF Place, Mine, Loc, Intent
    <3>2. r \in Record /\ r.intentId = loc[p].mine.id
      BY <1>1, <3>1, Zenon DEF Record, Loc, Intent, Shape
    <3>3. v \in Loc /\ v.token = loc[p].token /\ v.mine = loc[p].mine /\ v.cand = loc[p].cand /\ v.prior = loc[p].prior
          /\ v.snap = loc[p].snap /\ v.rec = loc[p].rec
      BY <1>1, Zenon DEF Loc
    <3>4. records' = records \cup {r} /\ loc' = [loc EXCEPT ![p] = v] /\ Goto(p, l) /\ UNCHANGED leaseDb
      BY <1>1, <1>4, <2>2, Zenon DEF Insert, Shape
    <3>5. l \in Label /\ l = IF p \in Tick THEN "settle" ELSE "release"
      BY ContentAssumption, Zenon DEF Label, Proc
    <3> HIDE DEF r, v, l
    <3>6. pc' \in [Proc -> Label] /\ loc' \in [Proc -> Loc] /\ Others(p) /\ pc'[p] = l /\ loc'[p] = v
      BY <3>3, <3>4, <3>5, Goes, Zenon
    <3>7. Shape'
      BY <1>1, <2>1, <3>2, <3>4, <3>6, Zenon DEF Shape, disk, journal, leaseDb
    <3>8. Inserted(p)
      BY <2>1, <2>2, <3>2, <3>3, <3>4, <3>5, <3>6, <3>7, Zenon DEF Inserted
    <3> QED BY <3>8, Inserts, Zenon
  <2>3. CASE ~Current(p)
    BY <1>1, <1>4, <2>1, <2>3, Finishes, Zenon DEF Insert, Finish, journal
  <2> QED BY <2>2, <2>3, Zenon
<1> QED BY <1>2, <1>3, <1>4, Zenon

\* Review and the steps up to the journal preserve the invariant.
LEMMA Adopts ==
    ASSUME IInv, NEW p \in Proc, Review(p) \/ Snapshot(p) \/ Acquire(p) \/ Check(p) \/ Journal(p)
    PROVE  IInv' /\ (JInv => JInv')
<1>1. Shape /\ loc[p] \in Loc /\ Place(p) /\ Mine(p) /\ Shared /\ table \in Table
      /\ gateway \in Table /\ faults \in Nat /\ nextId \in Nat \ {0} /\ nextToken \in Nat
  BY Zenon DEF IInv, Shape
<1>2. ASSUME NEW l \in {"snapshot", "acquire"}, NEW v \in Loc, pc[p] \in Outside, v.token = loc[p].token,
             v.mine = loc[p].mine, v.wrote = loc[p].wrote, v.rec = loc[p].rec, v.cand # NoTable, l = "snapshot" => p \in Cli,
             Goto(p, l), loc' = [loc EXCEPT ![p] = v], UNCHANGED <<disk, gateway, leaseDb, journal, records, faults>>
      PROVE  IInv' /\ (JInv => JInv')
  <2> l \in Label
    BY <1>2, SMT DEF Label
  <2>1. pc' \in [Proc -> Label] /\ loc' \in [Proc -> Loc] /\ Others(p) /\ pc'[p] = l /\ loc'[p] = v
    BY <1>2, Goes, Zenon
  <2>2. Shape'
    BY <1>1, <1>2, <2>1, Zenon DEF Shape, disk, journal, leaseDb
  <2>3. loc[p].token = 0 /\ loc[p].mine = NoIntent /\ loc[p].wrote = FALSE /\ loc[p].rec = FALSE
    BY <1>1, <1>2, Zenon DEF Place, Outside, Loc, Stage
  <2>4. Left(p)
    BY <1>1, <1>2, <2>1, <2>2, <2>3, ContentAssumption DEF Left, Outside, journal, leaseDb
  <2> QED BY <2>4, Leaves, Zenon
<1>3. CASE Review(p)
  <2>1. CASE p \in Tick /\ Finish(p)
    BY <1>1, <1>3, <2>1, Finishes, Zenon DEF Review, Finish, journal
  <2>2. CASE ~(p \in Tick /\ Finish(p))
    <3>1. PICK c \in Content : /\ loc' = [loc EXCEPT ![p].base = table, ![p].cand = c]
                               /\ Goto(p, IF p \in Cli THEN "snapshot" ELSE "acquire")
      BY <1>3, <2>2, Zenon DEF Review
    <3> DEFINE v == [loc[p] EXCEPT !.base = table, !.cand = c]
               l == IF p \in Cli THEN "snapshot" ELSE "acquire"
    <3>2. v \in Loc /\ v.token = loc[p].token /\ v.mine = loc[p].mine /\ v.wrote = loc[p].wrote /\ v.rec = loc[p].rec /\ v.cand = c
      BY <1>1, Zenon DEF Loc, Table
    <3>3. loc' = [loc EXCEPT ![p] = v] /\ pc[p] \in Outside /\ c # NoTable
      BY <1>1, <1>3, <3>1, ContentAssumption, Zenon DEF Review, Outside, Shape
    <3>4. UNCHANGED <<disk, gateway, leaseDb, journal, records, faults>> /\ l \in {"snapshot", "acquire"}
          /\ (l = "snapshot" => p \in Cli) /\ Goto(p, l)
      BY <1>3, <3>1, Zenon DEF Review
    <3> HIDE DEF v, l
    <3> QED BY <1>2, <3>2, <3>3, <3>4, Zenon
  <2> QED BY <2>1, <2>2, Zenon
<1>4. CASE Snapshot(p)
  <2> DEFINE v == [loc[p] EXCEPT !.snap = table]
  <2>1. v \in Loc /\ v.token = loc[p].token /\ v.mine = loc[p].mine /\ v.wrote = loc[p].wrote /\ v.rec = loc[p].rec /\ v.cand = loc[p].cand
    BY <1>1, Zenon DEF Loc
  <2>2. loc' = [loc EXCEPT ![p] = v] /\ pc[p] \in Outside /\ loc[p].cand # NoTable
    BY <1>1, <1>4, Zenon DEF Snapshot, Outside, Shape, Place, Stage
  <2>3. UNCHANGED <<disk, gateway, leaseDb, journal, records, faults>> /\ Goto(p, "acquire")
    BY <1>4, Zenon DEF Snapshot
  <2> HIDE DEF v
  <2> QED BY <1>2, <2>1, <2>2, <2>3, Zenon
<1>5. CASE Acquire(p)
  <2>1. CASE Refused /\ NextAxis(p) /\ UNCHANGED leaseDb
    BY <1>5, <2>1, NextAxes, Zenon DEF Acquire
  <2>2. CASE Grant(p) /\ loc' = [loc EXCEPT ![p].token = nextToken] /\ Goto(p, "check")
    <3> DEFINE v == [loc[p] EXCEPT !.token = nextToken]
    <3>1. v \in Loc /\ v.token = nextToken /\ v.mine = loc[p].mine /\ v.wrote = loc[p].wrote /\ v.rec = loc[p].rec /\ v.cand = loc[p].cand
      BY <1>1, Zenon DEF Loc
    <3>2. loc[p].mine = NoIntent /\ loc[p].wrote = FALSE /\ ~loc[p].rec /\ pc[p] = "acquire"
      BY <1>1, <1>5, Zenon DEF Acquire, Place, Outside, Loc, Stage
    <3>3. loc' = [loc EXCEPT ![p] = v]
      BY <1>1, <2>2, Zenon DEF Shape
    <3> HIDE DEF v
    <3>4. pc' \in [Proc -> Label] /\ loc' \in [Proc -> Loc] /\ Others(p) /\ pc'[p] = "check" /\ loc'[p] = v
      BY <2>2, <3>1, <3>3, Goes, Zenon DEF Label
    <3>5. lease' = [token |-> nextToken, fresh |-> TRUE] /\ nextToken' = nextToken + 1
      BY <2>2, Zenon DEF Grant
    <3>6. Shape'
      <4>1. nextToken' \in Nat \ {0}
        BY <1>1, <3>5
      <4>2. lease' \in [token : Nat, fresh : BOOLEAN]
        BY <1>1, <3>5, Zenon
      <4> QED BY <1>1, <1>5, <3>4, <4>1, <4>2, Zenon DEF Acquire, Shape, disk, journal
    <3>7. Granted(p)
      BY <1>5, <3>1, <3>2, <3>4, <3>5, <3>6, Zenon DEF Acquire, Granted
    <3> QED BY <3>7, Grants, Zenon
  <2> QED BY <1>5, <2>1, <2>2, Zenon DEF Acquire
<1>6. CASE Check(p)
  <2>1. UNCHANGED <<disk, gateway, journal, records, faults>> /\ pc[p] = "check" /\ Stage(p) = "check"
    BY <1>6, Zenon DEF Check, Stage
  <2>2. CASE table # loc[p].base
    BY <1>6, <2>1, <2>2, NextAxes, Zenon DEF Check
  <2>3. CASE table = loc[p].base
    <3> DEFINE v == [loc[p] EXCEPT !.prior = table, !.snap = IF p \in Tick THEN table ELSE @]
               l == IF p \in Tick THEN "journal" ELSE "write"
    <3>1. v \in Loc /\ v.token = loc[p].token /\ v.mine = loc[p].mine /\ v.wrote = loc[p].wrote /\ v.rec = loc[p].rec /\ v.cand = loc[p].cand
          /\ v.prior = table /\ (p \in Tick => v.snap = table)
      BY <1>1, Zenon DEF Loc
    <3>2. loc[p].mine = NoIntent /\ loc[p].wrote = FALSE /\ loc[p].rec = FALSE /\ loc[p].cand # NoTable
      BY <1>1, <2>1, Zenon DEF Place, Loc
    <3>3. loc' = [loc EXCEPT ![p] = v] /\ Goto(p, l) /\ LeaseKept(p) /\ nextToken' = nextToken
      BY <1>1, <1>6, <2>3, Zenon DEF Check, Shape, leaseDb, LeaseKept
    <3>4. l \in Label \ {"put"} /\ l \in {"journal", "write"} /\ (l = "journal" <=> p \in Tick)
      BY Zenon DEF Label
    <3> HIDE DEF v, l
    <3>5. Moved(p) /\ Still /\ (Current(p)' => Current(p)) /\ pc'[p] = l /\ Stage(p)' = l /\ loc'[p] = v
      BY <1>1, <2>1, <3>1, <3>3, <3>4, Walks, ZenonT(30)
    <3>6. NoIntent.id = 0 /\ NoIntent.phase = "unconfirmed" /\ NoIntent.status = "none"
      BY Zenon DEF NoIntent
    <3>7. Place(p)'
      BY <1>1, <3>1, <3>2, <3>4, <3>5, <3>6, ContentAssumption, Zenon DEF Place, Outside, Owning, Proc
    <3>8. Mine(p)' /\ Knows(p)'
      BY <1>1, <3>1, <3>2, <3>4, <3>5, <3>6, Zenon DEF Mine, Same, Knows, Owning, Still
    <3>9. ASSUME JInv, ~clobbered, trial = "tick" PROVE Undoing(p)'
      BY <3>1, <3>2, <3>4, <3>5, <3>6, <3>9, Zenon DEF JInv, Covered, Undoing
    <3> QED BY <3>5, <3>7, <3>8, <3>9, Moves, Zenon
  <2> QED BY <2>2, <2>3, Zenon
<1>7. CASE Journal(p)
  <2> DEFINE i == [id |-> nextId, cand |-> loc[p].cand, prior |-> loc[p].prior,
                   phase |-> "unconfirmed", status |-> "pending"]
             v == [loc[p] EXCEPT !.mine = i, !.next = "write"]
  <2>1. i \in Intent /\ i.id = nextId /\ i.cand = loc[p].cand /\ i.prior = loc[p].prior /\ i.phase = "unconfirmed"
        /\ i.status = "pending"
    BY <1>1, Zenon DEF Intent, Loc
  <2>2. pc[p] = "journal" /\ nextId <= MaxId /\ nextId' = nextId + 1
        /\ UNCHANGED <<disk, gateway, intent, clobbered, records, faults>>
        /\ IF MaySave(i) THEN WillPut(p, i, "write") /\ UNCHANGED leaseDb ELSE Finish(p) /\ Unlock(p)
    BY <1>7, Zenon DEF Journal
  <2>3. v \in Loc /\ v.token = loc[p].token /\ v.rec = loc[p].rec /\ v.mine = i /\ v.cand = loc[p].cand
        /\ v.prior = loc[p].prior /\ v.snap = loc[p].snap /\ v.wrote = loc[p].wrote /\ v.status = loc[p].status
        /\ v.next = "write"
    BY <1>1, <2>1, Zenon DEF Loc, Label
  <2>4. WillPut(p, i, "write") => loc' = [loc EXCEPT ![p] = v] /\ Goto(p, "put")
    BY <1>1, Zenon DEF WillPut, Shape
  <2> HIDE DEF i, v
  <2>5. CASE MaySave(i)
    <3>1. pc' \in [Proc -> Label] /\ loc' \in [Proc -> Loc] /\ Others(p) /\ pc'[p] = "put" /\ loc'[p] = v
      BY <2>2, <2>3, <2>4, <2>5, Goes, Zenon DEF Label
    <3>2. nextId' \in Nat \ {0}
      BY <1>1, <2>2
    <3>3. Shape'
      BY <1>1, <2>2, <2>5, <3>1, <3>2, Zenon DEF Shape, disk, leaseDb
    <3>4. Journalled(p)
      BY <2>1, <2>2, <2>3, <2>5, <3>1, <3>3, Zenon DEF Journalled, Keeps
    <3> QED BY <3>4, Journals, Zenon
  <2>6. CASE ~MaySave(i)
    BY <1>1, <2>2, <2>6, Finishes, Zenon DEF Finish
  <2> QED BY <2>5, <2>6, Zenon
<1> QED BY <1>3, <1>4, <1>5, <1>6, <1>7, Zenon

\* The candidate write and what follows it preserve the invariant.
LEMMA Carries ==
    ASSUME IInv, NEW p \in Proc,
           \/ Write(p) \/ WriteFails(p) \/ WriteStale(p) \/ ReloadCandidate(p) \/ ReadBack(p)
           \/ Canary(p) \/ Release(p) \/ Crash(p)
    PROVE  IInv' /\ (JInv => JInv')
<1>1. Shape /\ loc[p] \in Loc /\ Place(p) /\ Mine(p) /\ table \in Table /\ gateway \in Table /\ faults \in Nat
  BY Zenon DEF IInv, Shape
<1>2. ASSUME pc' \in [Proc -> Label], loc' \in [Proc -> Loc], Others(p), pc[p] = "write", Current(p), PutCandidate(p),
             UNCHANGED <<gateway, leaseDb, journal, records>>, faults' \in Nat,
             \/ Marked(p, loc[p], "reload")
             \/ pc'[p] = "restore" /\ loc'[p] = loc[p]
             \/ pc'[p] = "idle" /\ loc'[p] = NoLoc
      PROVE  IInv' /\ (JInv => JInv')
  <2>1. loc[p].cand \in Table /\ loc[p].token \in Nat
    BY <1>1, Zenon DEF Loc
  <2>2. table' \in Table /\ tableToken' \in Nat /\ over' \in [1..MaxId -> Table]
        /\ trial' \in {"none", "tick", "first", "manual"}
    BY <1>1, <1>2, <2>1, Zenon DEF PutCandidate, Shape
  <2>3. Shape'
    BY <1>1, <1>2, <2>2, Zenon DEF Shape, leaseDb, journal
  <2>4. Landed(p)
    BY <1>2, <2>3, Blank, Zenon DEF Landed
  <2> QED BY <2>4, Lands, Zenon
<1>3. ASSUME NEW l \in {"readBack", "canary", "restore"}, pc' \in [Proc -> Label], loc' \in [Proc -> Loc], Others(p),
             Marked(p, loc[p], l), pc'[p] = "put" => l = "readBack",
             pc[p] \in Owning, LeaseKept(p), gateway' \in Table, faults' \in Nat,
             UNCHANGED <<disk, journal, records, nextToken>>, l # "restore" => pc[p] # "write"
      PROVE  IInv' /\ (JInv => JInv')
  <2>1. /\ Keeps(p, loc[p]) /\ Like(loc'[p].mine, loc[p].mine) /\ Stage(p)' = l /\ Stage(p) = pc[p]
        /\ (pc'[p] = "put" => Own(p) /\ loc'[p].mine.status = "pending" /\ loc'[p].next = "readBack")
        /\ pc'[p] \in {"put", l}
        /\ loc'[p].mine.phase \in {loc[p].mine.phase, "unconfirmed"}
        /\ loc'[p].mine.status \in {loc[p].mine.status, "pending"}
    BY <1>3, Zenon DEF Marked, Stage, Owning
  <2>2. Moved(p) /\ Still /\ (Current(p)' => Current(p))
    <3>1. loc'[p].token = loc[p].token /\ loc'[p].rec = loc[p].rec /\ loc'[p].mine.id = loc[p].mine.id
          /\ (p \in Tick => Stage(p)' # "write")
      BY <2>1, Zenon DEF Keeps, Like
    <3> QED BY <1>3, <2>1, <3>1, Proceeds, ZenonT(30)
  <2>3. Place(p)'
    <3>1. pc'[p] = "put" => p \notin Cli
      BY <2>1, ContentAssumption, Zenon DEF Own
    <3> QED BY <1>1, <1>3, <2>1, <2>2, <3>1, ZenonT(30) DEF Place, Keeps, Like, Outside, Owning
  <2>4. Mine(p)'
    BY <1>1, <1>3, <2>1, <2>2, ZenonT(30) DEF Mine, Same, Keeps, Like, Owning, Still
  <2>5. Current(p)' => Knows(p)'
    <3>1. Current(p) => Knows(p)
      BY Zenon DEF IInv
    <3> QED BY <1>3, <2>1, <2>2, <3>1, Zenon DEF Knows, Keeps, Like, Owning, Still
  <2>6. ASSUME JInv, ~clobbered, trial = "tick" PROVE Undoing(p)'
    <3>1. Undoing(p)
      BY <2>6, Zenon DEF JInv, Covered
    <3>2. p \in Tick /\ Current(p)' => loc'[p].prior # NoTable
      BY <1>1, <1>3, <2>1, <2>2, <3>1, Zenon DEF Undoing, Place, Keeps
    <3> QED BY <2>1, <2>2, <3>1, <3>2, Zenon DEF Undoing, Like, Still
  <2> QED BY <2>2, <2>3, <2>4, <2>5, <2>6, Moves, Zenon
<1>4. ASSUME NEW l \in {"canary", "restore"}, NEW v \in Loc, Goto(p, l), loc' = [loc EXCEPT ![p] = v],
             v.token = loc[p].token, v.rec = loc[p].rec, v.mine = loc[p].mine, v.cand = loc[p].cand,
             v.prior = loc[p].prior, v.snap = loc[p].snap, v.wrote = loc[p].wrote, v.status = loc[p].status
      PROVE  pc' \in [Proc -> Label] /\ loc' \in [Proc -> Loc] /\ Others(p) /\ Marked(p, loc[p], l)
             /\ pc'[p] = l /\ loc'[p] = v
  <2>1. l \in Label
    BY Zenon DEF Label
  <2>2. pc' \in [Proc -> Label] /\ loc' \in [Proc -> Loc] /\ Others(p) /\ pc'[p] = l /\ loc'[p] = v
    BY <1>4, <2>1, Goes, Zenon
  <2> QED BY <1>4, <2>2, Zenon DEF Marked, Keeps, Like, Stage
<1>5. CASE Write(p)
  <2> DEFINE v == [loc[p] EXCEPT !.over = table]
  <2>1. v \in Loc /\ v.token = loc[p].token /\ v.mine = loc[p].mine /\ v.cand = loc[p].cand /\ v.rec = loc[p].rec
        /\ v.prior = loc[p].prior /\ v.snap = loc[p].snap /\ v.wrote = loc[p].wrote /\ v.status = loc[p].status
    BY <1>1, Zenon DEF Loc
  <2>2. pc[p] = "write" /\ MarkPhase(p, v, "reload") /\ "reload" \in Label \ {"put"} /\ ~loc[p].rec
        /\ faults' = faults
    BY <1>1, <1>5, Zenon DEF Write, Label, Place, Stage, Owning
  <2> HIDE DEF v
  <2>3. pc' \in [Proc -> Label] /\ loc' \in [Proc -> Loc] /\ Others(p) /\ Marked(p, v, "reload")
    BY <2>1, <2>2, Marks, Zenon
  <2>4. Marked(p, loc[p], "reload")
    BY <2>1, <2>3, Zenon DEF Marked, Keeps
  <2> QED BY <1>1, <1>2, <1>5, <2>2, <2>3, <2>4, Zenon DEF Write
<1>6. CASE WriteFails(p)
  <2>1. loc' = [loc EXCEPT ![p] = loc[p]] /\ faults' \in Nat /\ Goto(p, "restore")
    BY <1>1, <1>6 DEF WriteFails, Shape, Fault
  <2>2. pc' \in [Proc -> Label] /\ loc' \in [Proc -> Loc] /\ Others(p) /\ Marked(p, loc[p], "restore")
        /\ pc'[p] = "restore" /\ loc'[p] = loc[p]
    BY <1>1, <1>4, <2>1, Zenon
  <2>3. CASE PutCandidate(p)
    BY <1>1, <1>2, <1>6, <2>1, <2>2, <2>3, Zenon DEF WriteFails
  <2>4. CASE UNCHANGED disk
    BY <1>1, <1>3, <1>6, <2>1, <2>2, <2>4, Zenon DEF WriteFails, Owning, LeaseKept, leaseDb
  <2> QED BY <1>6, <2>3, <2>4, Zenon DEF WriteFails
<1>7. CASE WriteStale(p)
  BY <1>7, NextAxes, Zenon DEF WriteStale
<1>8. CASE ReloadCandidate(p)
  <2>1. pc[p] = "reload" /\ UNCHANGED <<disk, journal, records>> /\ ~loc[p].rec /\ "readBack" \in Label \ {"put"}
    BY <1>1, <1>8, Zenon DEF ReloadCandidate, Place, Stage, Owning, Label
  <2>2. gateway' \in Table /\ faults' \in Nat /\ LeaseKept(p) /\ nextToken' = nextToken
    BY <1>1, <1>8 DEF ReloadCandidate, Reload, Fault, LeaseKept
  <2>3. CASE MarkPhase(p, loc[p], "readBack")
    <3>1. pc' \in [Proc -> Label] /\ loc' \in [Proc -> Loc] /\ Others(p) /\ Marked(p, loc[p], "readBack")
      BY <1>1, <2>1, <2>3, Marks, Zenon
    <3> QED BY <1>3, <2>1, <2>2, <3>1, Zenon DEF Owning
  <2>4. CASE Goto(p, "restore") /\ UNCHANGED loc
    <3>1. loc' = [loc EXCEPT ![p] = loc[p]]
      BY <1>1, <2>4, Zenon DEF Shape
    <3>2. pc' \in [Proc -> Label] /\ loc' \in [Proc -> Loc] /\ Others(p) /\ Marked(p, loc[p], "restore")
          /\ pc'[p] = "restore"
      BY <1>1, <1>4, <2>4, <3>1, Zenon
    <3> QED BY <1>3, <2>1, <2>2, <3>2, Zenon DEF Owning
  <2> QED BY <1>8, <2>3, <2>4, Zenon DEF ReloadCandidate
<1>9. CASE ReadBack(p)
  <2> DEFINE v == [loc[p] EXCEPT !.read = table]
             l == IF table = NoTable THEN "restore" ELSE "canary"
  <2>1. v \in Loc /\ v.token = loc[p].token /\ v.mine = loc[p].mine /\ v.cand = loc[p].cand /\ v.rec = loc[p].rec
        /\ v.prior = loc[p].prior /\ v.snap = loc[p].snap /\ v.wrote = loc[p].wrote /\ v.status = loc[p].status
    BY <1>1, Zenon DEF Loc
  <2>2. loc' = [loc EXCEPT ![p] = v] /\ Goto(p, l) /\ l \in {"canary", "restore"} /\ pc[p] = "readBack"
    BY <1>1, <1>9, Zenon DEF ReadBack, Shape
  <2>3. LeaseKept(p) /\ gateway' \in Table /\ faults' \in Nat /\ UNCHANGED <<disk, journal, records, nextToken>>
    BY <1>1, <1>9, Zenon DEF ReadBack, LeaseKept, leaseDb
  <2> HIDE DEF v, l
  <2>4. pc' \in [Proc -> Label] /\ loc' \in [Proc -> Loc] /\ Others(p) /\ Marked(p, loc[p], l) /\ pc'[p] = l
    BY <1>4, <2>1, <2>2, Zenon
  <2> QED BY <1>3, <2>2, <2>3, <2>4, Zenon DEF Owning
<1>10. CASE Canary(p)
  <2>1. pc[p] = "canary" /\ LeaseKept(p) /\ gateway' \in Table /\ faults' \in Nat /\ ~loc[p].rec
        /\ UNCHANGED <<table, tableToken, over, gateway, leaseDb, journal, records, faults>>
        /\ "insert" \in Label \ {"put"}
    BY <1>1, <1>10, Zenon DEF Canary, Place, Stage, Owning, LeaseKept, leaseDb, Label
  <2>2. CASE Goto(p, "restore") /\ UNCHANGED <<loc, trial>>
    <3>1. loc' = [loc EXCEPT ![p] = loc[p]]
      BY <1>1, <2>2, Zenon DEF Shape
    <3>2. pc' \in [Proc -> Label] /\ loc' \in [Proc -> Loc] /\ Others(p) /\ Marked(p, loc[p], "restore")
          /\ pc'[p] = "restore"
      BY <1>1, <1>4, <2>2, <3>1, Zenon
    <3> QED BY <1>3, <2>1, <2>2, <3>2, Zenon DEF Owning, disk, leaseDb
  <2>3. CASE MarkPhase(p, loc[p], "insert") /\ trial' = IF table = loc[p].cand THEN "none" ELSE trial
    <3>1. pc' \in [Proc -> Label] /\ loc' \in [Proc -> Loc] /\ Others(p) /\ Marked(p, loc[p], "insert")
      BY <1>1, <2>1, <2>3, Marks, Zenon
    <3>2. trial' \in {"none", "tick", "first", "manual"}
      BY <1>1, <2>3, Zenon DEF Shape
    <3>3. Shape'
      BY <1>1, <2>1, <3>1, <3>2, Zenon DEF Shape, leaseDb, journal
    <3>4. Passed(p)
      BY <2>1, <2>3, <3>1, <3>3, Zenon DEF Passed
    <3> QED BY <3>4, Passes, Zenon
  <2> QED BY <1>10, <2>2, <2>3, Zenon DEF Canary
<1>11. CASE Release(p)
  <2> DEFINE l == IF loc[p].rec /\ loc[p].status # "pending" THEN "review" ELSE "idle"
  <2>1. Goto(p, l) /\ l \in {"idle", "review"} /\ (l = "review" => p \in Tick)
    <3>1. p \in Cli => ~loc[p].rec
      BY <1>1, <1>11, Zenon DEF Release, Place
    <3> QED BY <1>11, <3>1, Zenon DEF Release, Proc
  <2> HIDE DEF l
  <2> QED BY <1>1, <1>11, <2>1, Finishes, Zenon DEF Release, journal
<1>12. CASE Crash(p)
  <2>1. faults' \in Nat /\ Finish(p) /\ UNCHANGED <<gateway, leaseDb, journal, records>>
    BY <1>1, <1>12 DEF Crash, Fault
  <2>2. CASE UNCHANGED disk
    BY <2>1, <2>2, Finishes, Zenon DEF Finish, journal
  <2>3. CASE pc[p] = "write" /\ Current(p) /\ PutCandidate(p)
    <3>1. pc' \in [Proc -> Label] /\ loc' \in [Proc -> Loc] /\ Others(p) /\ pc'[p] = "idle" /\ loc'[p] = NoLoc
      BY <2>1, Goes, Blank, Zenon DEF Finish, Label
    <3> QED BY <1>2, <2>1, <2>3, <3>1, Zenon
  <2> QED BY <1>12, <2>2, <2>3, ZenonT(30) DEF Crash
<1> QED BY <1>5, <1>6, <1>7, <1>8, <1>9, <1>10, <1>11, <1>12, Zenon

\* The ageing of a lease preserves the invariant.
LEMMA Ages ==
    ASSUME IInv, LeaseAges
    PROVE  IInv' /\ (JInv => JInv')
<1>1. /\ pc' = pc /\ loc' = loc /\ table' = table /\ over' = over /\ trial' = trial /\ intent' = intent
      /\ records' = records /\ nextToken' = nextToken /\ nextId' = nextId /\ clobbered' = clobbered
      /\ lease # NoLease /\ lease' = [lease EXCEPT !.fresh = FALSE]
  BY Zenon DEF LeaseAges, Refused, disk, journal
<1>2. Shape' /\ lease'.token = lease.token
  BY <1>1, Zenon DEF IInv, Shape, LeaseAges, disk, journal
<1>3. Shared'
  BY <1>1, <1>2, Zenon DEF IInv, Shared, FinalizedIsWatchedOnce
<1>4. \A p \in Proc : Current(p)' => Current(p)
  BY <1>1, <1>2, Zenon DEF Current, isLeaseCurrent
<1>5. ASSUME NEW p \in Proc PROVE Place(p)' /\ Mine(p)' /\ (Current(p)' => Knows(p)')
  <2>1. Place(p) /\ Mine(p) /\ (Current(p) => Knows(p))
    BY Zenon DEF IInv
  <2>2. Stage(p)' = Stage(p)
    BY <1>1, Zenon DEF Stage
  <2>3. Place(p)'
    BY <1>1, <2>1, <2>2 DEF Place
  <2>4. Mine(p)'
    BY <1>1, <2>1, <2>2 DEF Mine, Same, Like
  <2>5. Current(p)' => Knows(p)'
    BY <1>1, <1>4, <2>1, <2>2, Zenon DEF Knows
  <2> QED BY <2>3, <2>4, <2>5, Zenon
<1>6. ASSUME NEW p \in Proc, NEW q \in Proc PROVE Apart(p, q)'
  <2>1. Apart(p, q)
    BY Zenon DEF IInv
  <2> QED BY <1>1, <2>1, Zenon DEF Apart, Own
<1>7. IInv'
  BY <1>2, <1>3, <1>5, <1>6, Zenon DEF IInv
<1>8. ASSUME NEW p \in Proc, NEW q \in Proc
      PROVE  (Ready(p) => Ready(p)') /\ (Spares(p, q) => Spares(p, q)') /\ (Undoing(p) => Undoing(p)')
  BY <1>1, <1>4, Zenon DEF Ready, Spares, Undoing, Stage
<1> QED BY <1>1, <1>7, <1>8, Zenon DEF JInv, Covered

-----------------------------------------------------------------------------
(* The theorems.                                                           *)

\* The invariant is inductive.
LEMMA Inductive == IInv /\ [Next]_vars => IInv' /\ (JInv => JInv')
<1> SUFFICES ASSUME IInv, [Next]_vars PROVE IInv' /\ (JInv => JInv')
  OBVIOUS
<1>1. CASE LeaseAges
  BY <1>1, Ages, Zenon
<1>2. ASSUME NEW p \in Proc, Step(p) PROVE IInv' /\ (JInv => JInv')
  BY <1>2, Begins, RollsBack, Stores, Settles, Adopts, Carries, Zenon DEF Step
<1>3. CASE UNCHANGED vars
  <2>1. /\ pc' = pc /\ loc' = loc /\ table' = table /\ over' = over /\ trial' = trial /\ intent' = intent
        /\ records' = records /\ nextToken' = nextToken /\ nextId' = nextId /\ lease' = lease
        /\ clobbered' = clobbered /\ tableToken' = tableToken /\ gateway' = gateway /\ faults' = faults
    BY <1>3, Zenon DEF vars, disk, leaseDb, journal
  <2>2. Shape' <=> Shape
    BY <2>1, Zenon DEF Shape
  <2>3. Shared' <=> Shared
    BY <2>1, Zenon DEF Shared, FinalizedIsWatchedOnce
  <2>4. ASSUME NEW p \in Proc
        PROVE  /\ Current(p)' <=> Current(p)
               /\ Place(p)' <=> Place(p)
               /\ Mine(p)' <=> Mine(p)
               /\ Knows(p)' <=> Knows(p)
               /\ Ready(p)' <=> Ready(p)
               /\ Undoing(p)' <=> Undoing(p)
    <3>1. Stage(p)' = Stage(p) /\ (Current(p)' <=> Current(p))
      BY <2>1, Zenon DEF Stage, Current, isLeaseCurrent
    <3>2. Place(p)' <=> Place(p)
      BY <2>1, <3>1 DEF Place
    <3>3. Mine(p)' <=> Mine(p)
      BY <2>1, <3>1 DEF Mine, Same, Like
    <3>4. (Knows(p)' <=> Knows(p)) /\ (Ready(p)' <=> Ready(p)) /\ (Undoing(p)' <=> Undoing(p))
      BY <2>1, <3>1, Zenon DEF Knows, Ready, Undoing
    <3> QED BY <3>1, <3>2, <3>3, <3>4, Zenon
  <2>5. ASSUME NEW p \in Proc, NEW q \in Proc PROVE (Apart(p, q)' <=> Apart(p, q)) /\ (Spares(p, q)' <=> Spares(p, q))
    BY <2>1, <2>4, Zenon DEF Apart, Own, Spares, Stage
  <2> QED BY <2>1, <2>2, <2>3, <2>4, <2>5, Zenon DEF IInv, JInv, Covered
<1> QED
  BY <1>1, <1>2, <1>3, Zenon DEF Next

\* It holds throughout every run.
THEOREM Invariance == Spec => []IInv
<1>1. Init => IInv
  BY InitInv, Zenon
<1>2. IInv /\ [Next]_vars => IInv'
  BY Inductive, Zenon
<1> QED BY <1>1, <1>2, PTL DEF Spec

\* The types of table, lease, journal, records and processes are kept.
THEOREM TypeCorrect == Spec => []TypeOK
<1>1. IInv => TypeOK
  BY Zenon DEF IInv, Shape, TypeOK, Loc, Mine
<1> QED BY Invariance, <1>1, PTL

\* A finalized intent has exactly one watch record, however the journal write, the
\* insert, a crash and a reconcile that takes over are interleaved.
THEOREM WatchedOnce == Spec => []FinalizedIsWatchedOnce
<1>1. IInv => FinalizedIsWatchedOnce
  BY Zenon DEF IInv, Shared
<1> QED BY Invariance, <1>1, PTL

\* A tick's candidate that replaced a table and has not passed its canary is covered
\* by a pending intent, as long as no stalled tick overwrote another's pending intent.
THEOREM Undoable == Spec => []UnconfirmedIsJournalled
<1>1. Init => IInv /\ JInv
  BY InitInv, Zenon
<1>2. (IInv /\ JInv) /\ [Next]_vars => (IInv /\ JInv)'
  BY Inductive, Zenon
<1>3. IInv /\ JInv => UnconfirmedIsJournalled
  BY Zenon DEF JInv, Covered, UnconfirmedIsJournalled
<1> QED BY <1>1, <1>2, <1>3, PTL DEF Spec

\* A watch record is queued only for the live table and keeps what it replaced.
THEOREM TrueRecords == Spec => RecordsAreTrue
<1>1. ASSUME IInv, [Next]_vars, NEW r \in records' \ records
      PROVE  r.cand = table /\ (r.intentId # 0 => r.prior = r.over)
  <2>1. PICK p \in Proc : Insert(p) /\ Current(p)
    BY <1>1, ZenonT(40) DEF Next, Step, vars, LeaseAges, TickStart, LoadNone, LoadPending, Restore,
       RestoreReload, PutIntent, PutFails, Settle, Insert, Review, Snapshot, Acquire, Check,
       Journal, Write, WriteFails, WriteStale, ReloadCandidate, ReadBack, Canary, Release, Crash
  <2>2. r = [intentId |-> loc[p].mine.id, cand |-> loc[p].cand, prior |-> loc[p].snap, token |-> loc[p].token,
             over |-> IF p \in Tick THEN over[loc[p].mine.id] ELSE loc[p].over] /\ Stage(p) = "insert"
    BY <1>1, <2>1, Zenon DEF Insert, Stage
  <2>3. Place(p) /\ Mine(p) /\ Knows(p)
    BY <1>1, <2>1, Zenon DEF IInv
  <2>4. r.cand = table
    BY <2>2, <2>3, Zenon DEF Knows
  <2>5. r.intentId # 0 => r.prior = r.over
    BY <2>2, <2>3, Zenon DEF Place, Mine, Proc
  <2> QED BY <2>4, <2>5, Zenon
<1>2. IInv /\ [Next]_vars => [\A r \in records' \ records : r.cand = table /\ (r.intentId # 0 => r.prior = r.over)]_vars
  BY <1>1, Zenon
<1> QED BY Invariance, <1>2, PTL DEF Spec, RecordsAreTrue

\* Every write of the table, candidate or rollback, is made under the newest lease:
\* adoption implements the fenced resource.
THEOREM Refinement == Spec => TableWritesAreFenced
<1>1. Init => Fenced!Init
  BY DEF Init, Fenced!Init
<1>2. ASSUME IInv, [Next]_vars PROVE [Fenced!Next]_<<nextToken - 1, tableToken>>
  <2>1. nextToken \in Nat
    BY <1>2, Zenon DEF IInv, Shape
  <2>2. ASSUME NEW p \in Proc, Current(p), tableToken' = loc[p].token, nextToken' = nextToken
        PROVE  Fenced!Write
    BY <1>2, <2>1, <2>2 DEF IInv, Shape, Shared, Current, isLeaseCurrent, Fenced!Write
  <2>3. ASSUME nextToken' = nextToken + 1, tableToken' = tableToken PROVE Fenced!Mint
    BY <2>1, <2>3 DEF Fenced!Mint
  <2>4. \/ nextToken' = nextToken /\ tableToken' = tableToken
        \/ nextToken' = nextToken + 1 /\ tableToken' = tableToken
        \/ \E p \in Proc : Current(p) /\ tableToken' = loc[p].token /\ nextToken' = nextToken
    <3> USE DEF disk, leaseDb
    <3>1. ASSUME NEW p \in Proc, Step(p)
          PROVE  \/ nextToken' = nextToken /\ tableToken' = tableToken
                 \/ nextToken' = nextToken + 1 /\ tableToken' = tableToken
                 \/ Current(p) /\ tableToken' = loc[p].token /\ nextToken' = nextToken
      <4>1. CASE TickStart(p) \/ LoadNone(p) \/ LoadPending(p) \/ Restore(p) \/ RestoreReload(p)
        BY <4>1, Zenon DEF TickStart, Grant, LoadNone, Unlock, LoadPending, Restore, RestoreReload,
           Reload
      <4>2. CASE PutIntent(p) \/ PutFails(p) \/ Settle(p) \/ Insert(p)
        BY <4>2, Zenon DEF PutIntent, PutFails, Settle, Insert, Unlock
      <4>3. CASE Review(p) \/ Snapshot(p) \/ Acquire(p) \/ Check(p) \/ Journal(p)
        BY <4>3, Zenon DEF Review, Snapshot, Acquire, Grant, Check, Journal, Unlock
      <4>4. CASE Write(p) \/ WriteFails(p) \/ WriteStale(p) \/ Crash(p)
        BY <4>4, Zenon DEF Write, WriteFails, WriteStale, Crash, PutCandidate
      <4>5. CASE ReloadCandidate(p) \/ ReadBack(p) \/ Canary(p) \/ Release(p)
        BY <4>5, Zenon DEF ReloadCandidate, Reload, ReadBack, Canary, Release, Unlock
      <4> QED BY <3>1, <4>1, <4>2, <4>3, <4>4, <4>5, Zenon DEF Step
    <3> QED BY <1>2, <3>1, Zenon DEF Next, LeaseAges, vars
  <2> QED BY <2>1, <2>2, <2>3, <2>4, Zenon DEF Fenced!Next
<1> QED BY <1>1, <1>2, Invariance, PTL DEF Spec, TableWritesAreFenced, Fenced!Spec

=============================================================================
