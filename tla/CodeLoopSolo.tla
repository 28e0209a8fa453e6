---------------------------- MODULE CodeLoopSolo ----------------------------
(***************************************************************************)
(* The deployment the repository ships, one gateway at a time: SInv        *)
(* relates what a sweep has read to what is on disk when it writes it      *)
(* back.  It carries two theorems: no two units run at once, and a         *)
(* published outcome is not taken back.                                    *)
(***************************************************************************)
EXTENDS CodeLoopProofs

-----------------------------------------------------------------------------

\* What the sweep will write back is bound, and true of its run.
LEMMA DutyFacts ==
    ASSUME IInv, NEW g \in Gateways, NEW x \in Record, Duty(g, x)
    PROVE  InMemory(g, x) /\ Bound(x) /\ Known(x) /\ x.c \in Clients /\ x.w \in 1..minted
<1>1. sw[g].pc \in {"stop", "dirStop"} => sw[g].rec # None
  BY Zenon DEF IInv, SweepPlace, Handling
<1>2. InMemory(g, x)
  BY <1>1, Zenon DEF Duty, InMemory
<1>3. Bound(x) /\ Known(x)
  BY <1>2, Zenon DEF IInv, Records
<1>4. x.c \in Clients /\ x.w \in WorkIds /\ minted \in 0..MaxStarts
  BY RecordFacts, Zenon DEF IInv, Types
<1> QED BY <1>2, <1>3, <1>4, CodeLoopAssumption DEF Known, WorkIds

\* A gateway that is down has nothing to answer for.
LEMMA DownIsSolo ==
    ASSUME NEW g \in Gateways, st'[g].pc = "idle", sw'[g].pc = "idle", wr'[g] = None
    PROVE  Solo(g)'
<1>1. \A x : ~Duty(g, x)'
  BY Zenon DEF Duty, Listing
<1>2. Duties(g)'
  BY <1>1, Zenon DEF Duties
<1>3. Owes(g)' /\ Lasts(g)' /\ Reads(g)' /\ Writes(g)'
  BY Zenon DEF Owes, Lasts, Reads, Writes, Before, During, Flight, Started
<1> QED BY <1>2, <1>3, Zenon DEF Solo

\* A step of a sweep or of a retry: the run stays, and so do the records.
LEMMA SweepIsSolo ==
    ASSUME NEW g \in Gateways, Solo(g), st[g].pc # "publish",
           st'[g].pc = st[g].pc, st'[g].w = st[g].w, client' = client, old' = old, units' \subseteq units,
           st[g].pc \in Started \ {"index", "held"} => jobs'[g][st[g].w] # "none",
           Duties(g)', Reads(g)', Writes(g)'
    PROVE  Solo(g)'
<1>1. Owes(g)'
  BY Zenon DEF Solo, Owes
<1>2. Lasts(g)'
  BY Zenon DEF Solo, Lasts
<1> QED BY <1>1, <1>2, Zenon DEF Solo

\* The sweep holds no record to write back, or the ones it held.
LEMMA NoDuty ==
    ASSUME NEW g \in Gateways, sw'[g].pc \notin Listing \cup {"dirStop"}
    PROVE  Duties(g)' /\ \A y : ~Duty(g, y)'
<1>1. \A x : ~Duty(g, x)'
  BY Zenon DEF Duty, Listing
<1> QED BY <1>1, Zenon DEF Duties, Listing

\* A sweep that does not move holds the records it held.
LEMMA SameDuty ==
    ASSUME NEW g \in Gateways, Duties(g), st'[g].pc = st[g].pc, st'[g].w = st[g].w, client' = client,
           old' = old,
           sw'[g] = sw[g]
    PROVE  Duties(g)' /\ \A y \in Record : Duty(g, y)' => Duty(g, y)
<1>1. \A x \in Record : Duty(g, x)' <=> Duty(g, x)
  BY Zenon DEF Duty
<1>2. \A x \in Record : (Fresh(x)' <=> Fresh(x)) /\ (Foreign(g, x)' <=> Foreign(g, x))
  BY Zenon DEF Fresh, Foreign
<1> QED BY <1>1, <1>2, Zenon DEF Duties

\* A write to one client's record leaves the others.
LEMMA OtherFiles ==
    ASSUME Types, NEW c \in Clients, NEW v, client' = [client EXCEPT ![c] = v]
    PROVE  client'[c] = v /\ \A d \in Clients : d # c => client'[d] = client[d]
BY Zenon DEF Types

\* The steps of a start and of its run.
LEMMA StartStepIsSolo ==
    ASSUME ~Rolling
    PROVE  \A g \in Gateways : /\ IInv /\ Solo(g) /\ old \subseteq 1..minted
                               /\ StartStep(g) \/ \E c \in Clients : Start(g, c)
                               => Solo(g)'
\* A step of a run: the sweep stays, and so do the records it holds.
<1>RunIsSolo. ASSUME IInv, NEW g \in Gateways, Solo(g), NEW l \in StartLabel, StAt(g, l), l # "held",
             sw' = sw, old' = old, \A x \in Record : Duty(g, x) => client'[x.c] = client[x.c],
             st'[g].w \in {0, st[g].w, minted + 1}, Owes(g)', Lasts(g)', Writes(g)'
      PROVE  Solo(g)'
  <2> USE <1>RunIsSolo
  <2>1. st[g].pc = l /\ sw[g].pc \notin SweepSync /\ minted \in Nat
    BY RunAt DEF Types
  <2>2. \A x \in Record : Duty(g, x)' <=> Duty(g, x)
    BY Zenon DEF Duty
  <2>3. ASSUME NEW x \in Record, Duty(g, x) PROVE Fresh(x)' /\ Foreign(g, x)'
    <3>1. client'[x.c] = client[x.c] /\ Fresh(x) /\ Foreign(g, x) /\ x.w \in 1..minted
      BY <2>3, DutyFacts, Zenon DEF Solo, Duties
    <3>2. Fresh(x)'
      BY <3>1, Zenon DEF Fresh
    <3>3. x.status = "running" => x.w # st[g].w
      BY <2>1, <3>1, Zenon DEF Foreign, SweepSync
    <3>4. Foreign(g, x)'
      BY <2>1, <3>1, <3>3 DEF Foreign
    <3> QED BY <3>2, <3>4, Zenon
  <2>4. Duties(g)'
    <3>1. \A x, y \in Record : Duty(g, x) /\ Duty(g, y) /\ x.w = y.w => x = y
      BY Zenon DEF Solo, Duties
    <3>2. sw'[g].pc = "stop" => sw'[g].rec \notin sw'[g].todo
      BY Zenon DEF Solo, Duties
    <3> QED BY <2>2, <2>3, <3>1, <3>2, Zenon DEF Duties
  <2>5. Reads(g)'
    BY <2>1, Zenon DEF Reads, SweepSync
  <2> QED BY <2>4, <2>5, Zenon DEF Solo
\* The run goes on, and nothing else moves.
<1>GoesOnSolo. ASSUME IInv, NEW g \in Gateways, Solo(g), NEW l \in StartLabel, StAt(g, l),
             l \notin {"idle", "held"},
             NEW m, st'[g].pc = m, st'[g].w = st[g].w, m # "publish",
             m \in Before => l \in Before, m \in During => l \in Before \cup During,
             m \in Flight => l \in Flight,
             m \in Started \ {"index", "held"} => l \in Started \ {"index", "held"},
             UNCHANGED <<client, old, jobs, wr, sw>>, units' \subseteq units
      PROVE  Solo(g)'
  <2> USE <1>GoesOnSolo
  <2>1. st[g].pc = l /\ wr[g] = None
    BY RunAt, Zenon
  <2>2. Owes(g)'
    BY <2>1, Zenon DEF Solo, Owes
  <2>3. Lasts(g)'
    BY <2>1, Zenon DEF Solo, Lasts
  <2>4. Writes(g)'
    BY <2>1, Zenon DEF Writes
  <2> QED BY <2>2, <2>3, <2>4, <1>RunIsSolo, Zenon
\* The run is over, or was never bound.
<1>EndsSolo. ASSUME IInv, NEW g \in Gateways, Solo(g), old \subseteq 1..minted, NEW l \in StartLabel,
             StAt(g, l), l # "held",
             NEW m \in {"idle", "read", "backout"}, st'[g].pc = m,
             st'[g].w = IF m = "backout" THEN st[g].w ELSE 0, m = "backout" => l # "idle",
             \A x \in Record : Duty(g, x) => client'[x.c] = client[x.c], UNCHANGED <<old, wr, sw>>
      PROVE  Solo(g)'
  <2> USE <1>EndsSolo
  <2>1. st[g].pc = l /\ wr[g] = None
    BY RunAt, Zenon
  <2>2. Owes(g)'
    BY Zenon DEF Owes, Before, During, Flight
  <2>3. Lasts(g)'
    BY <2>1 DEF Solo, Lasts, Started
  <2>4. Writes(g)'
    BY <2>1, Zenon DEF Writes
  <2> QED BY <2>2, <2>3, <2>4, <1>RunIsSolo, Zenon
<1>StartIsSolo. ASSUME IInv, NEW g \in Gateways, Solo(g), old \subseteq 1..minted, NEW c \in Clients,
             Start(g, c)
      PROVE  Solo(g)'
  <2> USE <1>StartIsSolo
  <2>1. StAt(g, "idle") /\ "idle" \in StartLabel /\ UNCHANGED <<client, old, wr, sw>>
    BY Zenon DEF Start, StartLabel, store
  <2>2. Types
    BY Zenon DEF IInv
  <2>3. PICK u \in StartState : u = [Idle EXCEPT !.pc = "read", !.c = c] /\ u.pc = "read" /\ u.w = 0
    <3>1. \A s \in StartState : LET u == [s EXCEPT !.pc = "read", !.c = c] IN
             u \in StartState /\ u.pc = "read" /\ u.w = s.w
      BY Zenon DEF StartState, StartLabel
    <3> QED BY <3>1, Initial, Zenon
  <2>4. st'[g].pc = "read" /\ st'[g].w = 0
    BY <2>2, <2>3, StTypes, StUpdate, Zenon DEF Start, StMoves
  <2> QED BY <2>1, <2>4, <1>EndsSolo, Zenon
<1>AdmitIsSolo. ASSUME IInv, NEW g \in Gateways, Solo(g), old \subseteq 1..minted, Admit(g)
      PROVE  Solo(g)'
  <2> USE <1>AdmitIsSolo
  <2>1. StAt(g, "read") /\ "read" \in StartLabel /\ UNCHANGED <<client, old, wr, sw, units>>
    BY Zenon DEF Admit, StartLabel, store
  <2>2. Types /\ ExecutedIsBound /\ wr[g] = None /\ st[g].pc = "read"
    BY <2>1, RunAt, Zenon DEF IInv
  <2>3. CASE st' = [st EXCEPT ![g] = Idle]
    <3>1. st'[g].pc = "idle" /\ st'[g].w = 0
      BY <2>2, <2>3, StTypes, StIdles, Zenon DEF StBecomes
    <3> QED BY <2>1, <3>1, <1>EndsSolo, Zenon
  <2>4. CASE /\ \A c \in Clients : ~Pending(client[c])
             /\ minted < MaxStarts /\ st' = [st EXCEPT ![g].pc = "lease", ![g].w = minted + 1]
    <3>1. minted + 1 \in 0..MaxStarts /\ "lease" \in StartLabel
      <4>1. minted \in 0..MaxStarts
        BY <2>2, Zenon DEF Types
      <4> QED BY <2>4, <4>1, CodeLoopAssumption DEF StartLabel
    <3>2. st'[g].pc = "lease" /\ st'[g].w = minted + 1
      BY <2>2, <2>4, <3>1, StTypes, StAdmits, Zenon DEF StBecomes
    <3>3. units = {}
      BY <2>4, UnitsAreOwed, Zenon DEF NoForgottenUnit
    <3>4. Owes(g)'
      BY <2>1, <2>4, <3>2, <3>3, Zenon DEF Owes, Before, During
    <3>5. Lasts(g)'
      BY <2>1, <2>2, <3>2 DEF Lasts, Started, Types
    <3>6. Writes(g)'
      BY <2>1, <2>2, Zenon DEF Writes
    <3> QED BY <2>1, <3>2, <3>4, <3>5, <3>6, <1>RunIsSolo, Zenon
  <2> QED BY <2>3, <2>4, Zenon DEF Admit
<1>AcquireIsSolo. ASSUME IInv, NEW g \in Gateways, Solo(g), old \subseteq 1..minted, Acquire(g)
      PROVE  Solo(g)'
  <2> USE <1>AcquireIsSolo
  <2>1. StAt(g, "lease") /\ "lease" \in StartLabel /\ "admit" \in StartLabel
        /\ UNCHANGED <<client, old, wr, sw, units, jobs>>
    BY Zenon DEF Acquire, StartLabel, store
  <2>2. Types
    BY Zenon DEF IInv
  <2>3. CASE st' = [st EXCEPT ![g] = Idle]
    <3>1. st'[g].pc = "idle" /\ st'[g].w = 0
      BY <2>2, <2>3, StTypes, StIdles, Zenon DEF StBecomes
    <3> QED BY <2>1, <3>1, <1>EndsSolo, Zenon
  <2>4. CASE StGoto(g, "admit")
    <3>1. st'[g].pc = "admit" /\ st'[g].w = st[g].w
      BY <2>1, <2>2, <2>4, StTypes, StMovesOn, Zenon DEF StBecomes
    <3> QED BY <2>1, <3>1, <1>GoesOnSolo, Zenon DEF Before, During, Flight, Started
  <2> QED BY <2>3, <2>4, Zenon DEF Acquire
<1>BackoutIsSolo. ASSUME IInv, NEW g \in Gateways, Solo(g), old \subseteq 1..minted, Refuse(g) \/ Backout(g)
      PROVE  Solo(g)'
  <2> USE <1>BackoutIsSolo
  <2>1. UNCHANGED <<client, old, wr, sw>> /\ Types
    BY Zenon DEF Refuse, Backout, store, IInv
  <2>2. CASE Refuse(g)
    <3>1. StAt(g, "admit") /\ "admit" \in StartLabel /\ "backout" \in StartLabel
      BY <2>2, Zenon DEF Refuse, StartLabel
    <3>2. st'[g].pc = "backout" /\ st'[g].w = st[g].w
      BY <2>1, <2>2, <3>1, StTypes, StMovesOn, Zenon DEF StBecomes, Refuse
    <3> QED BY <2>1, <3>1, <3>2, <1>EndsSolo, Zenon
  <2>3. CASE Backout(g)
    <3>1. StAt(g, "backout") /\ "backout" \in StartLabel
      BY <2>3, Zenon DEF Backout, StartLabel
    <3>2. st'[g].pc = "idle" /\ st'[g].w = 0
      BY <2>1, <2>3, StTypes, StIdles, Zenon DEF StBecomes, Backout
    <3> QED BY <2>1, <3>1, <3>2, <1>EndsSolo, Zenon
  <2> QED BY <2>2, <2>3, Zenon
\* What the sweep will write back is not the file being bound.
<1>NotItsFile. ASSUME IInv, ~Rolling, NEW g \in Gateways, st[g].pc = "index" \/ ~IsRecord(client[st[g].c]),
             NEW x \in Record, Duty(g, x)
      PROVE  x.c # st[g].c
  <2> USE <1>NotItsFile
  <2>1. InMemory(g, x) /\ Bound(x)
    BY DutyFacts, Zenon
  <2>2. CASE ~IsRecord(client[st[g].c])
    BY <2>1, <2>2, Zenon DEF Bound
  <2>3. CASE st[g].pc = "index"
    BY <2>1, <2>3, Zenon DEF IInv, Unread
  <2> QED BY <2>2, <2>3, Zenon
<1>ClaimIsSolo. ASSUME IInv, ~Rolling, NEW g \in Gateways, Solo(g), old \subseteq 1..minted, Claim(g)
      PROVE  Solo(g)'
  <2> USE <1>ClaimIsSolo
  <2>1. /\ StAt(g, "admit") /\ "admit" \in StartLabel /\ "fill" \in StartLabel /\ "backout" \in StartLabel
        /\ UNCHANGED <<old, wr, sw, units, jobs>>
    BY Zenon DEF Claim, StartLabel
  <2>2. Types /\ wr[g] = None /\ st[g].pc = "admit" /\ st[g].c \in Clients
    BY <2>1, RunAt, Zenon
  <2>3. CASE client[st[g].c] = None
    <3>1. StGoto(g, "fill") /\ client' = [client EXCEPT ![st[g].c] = Torn] /\ ~IsRecord(client[st[g].c])
      BY <2>3, Zenon DEF Claim, IsRecord
    <3>2. st'[g].pc = "fill" /\ st'[g].w = st[g].w
      BY <2>1, <2>2, <3>1, StTypes, StMovesOn, Zenon DEF StBecomes
    <3>3. client'[st[g].c] = Torn /\ \A d \in Clients : d # st[g].c => client'[d] = client[d]
      BY <2>2, <3>1, OtherFiles, Zenon
    <3>4. \A x \in Record : Duty(g, x) => client'[x.c] = client[x.c]
      BY <3>1, <3>3, <1>NotItsFile, DutyFacts, Zenon
    <3>5. Owes(g)'
      BY <2>1, <2>2, <3>2, <3>3, Zenon DEF Solo, Owes, Before, During, Flight, Pending, IsRecord
    <3>6. Lasts(g)'
      BY <2>1, <2>2, <3>2, Zenon DEF Solo, Lasts, Started
    <3>7. Writes(g)'
      BY <2>1, <2>2, Zenon DEF Writes
    <3> QED BY <2>1, <3>2, <3>4, <3>5, <3>6, <3>7, <1>RunIsSolo, Zenon
  <2>4. CASE client[st[g].c] # None
    <3>1. StGoto(g, "backout") /\ client' = client
      BY <2>4, Zenon DEF Claim
    <3>2. st'[g].pc = "backout" /\ st'[g].w = st[g].w
      BY <2>1, <2>2, <3>1, StTypes, StMovesOn, Zenon DEF StBecomes
    <3> QED BY <2>1, <3>1, <3>2, <1>EndsSolo, Zenon
  <2> QED BY <2>3, <2>4, Zenon
<1>FillIsSolo. ASSUME IInv, ~Rolling, NEW g \in Gateways, Solo(g), old \subseteq 1..minted, Fill(g)
      PROVE  Solo(g)'
  <2> USE <1>FillIsSolo
  <2>1. /\ StAt(g, "fill") /\ "fill" \in StartLabel /\ "index" \in StartLabel /\ "backout" \in StartLabel
        /\ UNCHANGED <<old, wr, sw, units, jobs>>
    BY Zenon DEF Fill, StartLabel
  <2>2. /\ Types /\ wr[g] = None /\ st[g].pc = "fill" /\ st[g].c \in Clients
        /\ client[st[g].c] = Torn
    BY <2>1, RunAt DEF Run
  <2>3. PICK v : /\ client' = [client EXCEPT ![st[g].c] = v]
                 /\ \/ StGoto(g, "index") /\ v.w = st[g].w
                    \/ StGoto(g, "backout")
    BY Zenon DEF Fill
  <2>4. client'[st[g].c] = v /\ \A d \in Clients : d # st[g].c => client'[d] = client[d]
    BY <2>2, <2>3, OtherFiles, Zenon
  <2>5. \A x \in Record : Duty(g, x) => client'[x.c] = client[x.c]
    <3>1. ~IsRecord(client[st[g].c])
      BY <2>2, Zenon DEF IsRecord
    <3> QED BY <2>4, <3>1, <1>NotItsFile, DutyFacts, Zenon
  <2>6. CASE StGoto(g, "index") /\ v.w = st[g].w
    <3>1. st'[g].pc = "index" /\ st'[g].w = st[g].w
      BY <2>1, <2>2, <2>6, StTypes, StMovesOn, Zenon DEF StBecomes
    <3>2. Owes(g)'
      BY <2>1, <2>2, <2>4, <2>6, <3>1, Zenon DEF Solo, Owes, Before, During, Flight, Pending
    <3>3. Lasts(g)'
      BY <2>1, <2>2, <3>1, Zenon DEF Solo, Lasts, Started
    <3>4. Writes(g)'
      BY <2>1, <2>2, Zenon DEF Writes
    <3> QED BY <2>1, <2>5, <3>1, <3>2, <3>3, <3>4, <1>RunIsSolo, Zenon
  <2>7. CASE StGoto(g, "backout")
    <3>1. st'[g].pc = "backout" /\ st'[g].w = st[g].w
      BY <2>1, <2>2, <2>7, StTypes, StMovesOn, Zenon DEF StBecomes
    <3> QED BY <2>1, <2>5, <3>1, <1>EndsSolo, Zenon
  <2> QED BY <2>3, <2>6, <2>7, Zenon
<1>IndexIsSolo. ASSUME IInv, ~Rolling, NEW g \in Gateways, Solo(g), old \subseteq 1..minted, Index(g)
      PROVE  Solo(g)'
  <2> USE <1>IndexIsSolo
  <2>1. /\ StAt(g, "index") /\ "index" \in StartLabel /\ "run" \in StartLabel /\ "backout" \in StartLabel
        /\ UNCHANGED <<old, wr, sw, units>>
    BY Zenon DEF Index, StartLabel
  <2>2. Types /\ wr[g] = None /\ st[g].pc = "index" /\ st[g].c \in Clients /\ st[g].w \in WorkIds
    BY <2>1, RunAt, Zenon
  <2>3. CASE /\ st' = [st EXCEPT ![g].pc = "run", ![g].pend = TRUE] /\ client' = client
             /\ jobs' = [jobs EXCEPT ![g][st[g].w] = "running"]
    <3>1. st'[g].pc = "run" /\ st'[g].w = st[g].w
      BY <2>1, <2>2, <2>3, StTypes, StPends, Zenon DEF StBecomes
    <3>2. Owes(g)'
      BY <2>1, <2>2, <2>3, <3>1, Zenon DEF Solo, Owes, Before, During, Flight
    <3>3. jobs'[g][st[g].w] # "none"
      BY <2>2, <2>3, Zenon DEF Types
    <3>4. Lasts(g)'
      BY <2>1, <2>2, <3>1, <3>3, Zenon DEF Solo, Lasts
    <3>5. Writes(g)'
      BY <2>1, <2>2, Zenon DEF Writes
    <3> QED BY <2>1, <2>3, <3>1, <3>2, <3>4, <3>5, <1>RunIsSolo, Zenon
  <2>4. CASE client' = [client EXCEPT ![st[g].c] = None] /\ StGoto(g, "backout")
    <3>1. st'[g].pc = "backout" /\ st'[g].w = st[g].w
      BY <2>1, <2>2, <2>4, StTypes, StMovesOn, Zenon DEF StBecomes
    <3>2. \A d \in Clients : d # st[g].c => client'[d] = client[d]
      BY <2>2, <2>4, OtherFiles, Zenon
    <3>3. \A x \in Record : Duty(g, x) => client'[x.c] = client[x.c]
      BY <2>2, <3>2, <1>NotItsFile, DutyFacts, Zenon
    <3> QED BY <2>1, <3>1, <3>3, <1>EndsSolo, Zenon
  <2> QED BY <2>3, <2>4, Zenon DEF Index
<1>EngineStartIsSolo. ASSUME IInv, NEW g \in Gateways, Solo(g), EngineStart(g)
      PROVE  Solo(g)'
  <2> USE <1>EngineStartIsSolo
  <2>1. /\ StAt(g, "run") /\ "run" \in StartLabel /\ "engine" \in StartLabel /\ StGoto(g, "engine")
        /\ UNCHANGED <<client, old, wr, sw, jobs>> /\ units' \subseteq units \cup {st[g].w}
    BY Zenon DEF EngineStart, StartLabel, store
  <2>2. Types /\ wr[g] = None /\ st[g].pc = "run"
    BY <2>1, RunAt, Zenon
  <2>3. st'[g].pc = "engine" /\ st'[g].w = st[g].w
    BY <2>1, <2>2, StTypes, StMovesOn, Zenon DEF StBecomes
  <2>4. Owes(g)'
    BY <2>1, <2>2, <2>3, Zenon DEF Solo, Owes, Before, During, Flight
  <2>5. Lasts(g)'
    BY <2>1, <2>2, <2>3, Zenon DEF Solo, Lasts, Started
  <2>6. Writes(g)'
    BY <2>1, <2>2, Zenon DEF Writes
  <2> QED BY <2>1, <2>3, <2>4, <2>5, <2>6, <1>RunIsSolo, Zenon
<1>CleanupIsSolo. ASSUME IInv, NEW g \in Gateways, Solo(g), EngineEnd(g) \/ CheckEnd(g)
      PROVE  Solo(g)'
  <2> USE <1>CleanupIsSolo
  <2>1. PICK l, m : CleanupUnit(g, l, m) /\ <<l, m>> \in {<<"engine", "harvest">>, <<"check", "final">>}
    BY Zenon DEF EngineEnd, CheckEnd
  <2>2. /\ l \in {"engine", "check"} /\ m \in {"harvest", "final"} /\ l \in StartLabel /\ m \in StartLabel
        /\ m = "harvest" => l = "engine"
    BY <2>1, Zenon DEF StartLabel
  <2>3. StAt(g, l) /\ UNCHANGED <<client, old, wr, sw, jobs>> /\ units' \subseteq units /\ Types
    BY <2>1, Zenon DEF CleanupUnit, store, IInv
  <2>4. st'[g].pc = m /\ st'[g].w = st[g].w
    <3>1. CASE st' = [st EXCEPT ![g].pc = m, ![g].pend = FALSE]
      BY <2>2, <2>3, <3>1, StTypes, StPends, Zenon DEF StBecomes
    <3>2. CASE st' = [st EXCEPT ![g].pc = m, ![g].pend = TRUE]
      BY <2>2, <2>3, <3>2, StTypes, StPends, Zenon DEF StBecomes
    <3> QED BY <2>1, <3>1, <3>2, Zenon DEF CleanupUnit
  <2>5. CASE m = "harvest"
    BY <2>2, <2>3, <2>4, <2>5, <1>GoesOnSolo, Zenon DEF Before, During, Flight, Started
  <2>6. CASE m = "final"
    BY <2>2, <2>3, <2>4, <2>6, <1>GoesOnSolo, Zenon DEF Before, During, Flight, Started
  <2> QED BY <2>2, <2>5, <2>6, Zenon
<1>HarvestIsSolo. ASSUME IInv, NEW g \in Gateways, Solo(g), Harvest(g)
      PROVE  Solo(g)'
  <2> USE <1>HarvestIsSolo
  <2>1. /\ StAt(g, "harvest") /\ {"harvest", "check", "final"} \subseteq StartLabel
        /\ UNCHANGED <<client, old, wr, sw, jobs>>
    BY Zenon DEF Harvest, StartLabel, store
  <2>2. Types /\ wr[g] = None /\ st[g].pc = "harvest"
    BY <2>1, RunAt, Zenon
  <2>3. CASE units' = units \cup {st[g].w} /\ StGoto(g, "check")
    <3>1. st'[g].pc = "check" /\ st'[g].w = st[g].w
      BY <2>1, <2>2, <2>3, StTypes, StMovesOn, Zenon DEF StBecomes
    <3>2. Owes(g)'
      BY <2>1, <2>2, <2>3, <3>1, Zenon DEF Solo, Owes, Before, During, Flight
    <3>3. Lasts(g)'
      BY <2>1, <2>2, <3>1, Zenon DEF Solo, Lasts, Started
    <3>4. Writes(g)'
      BY <2>1, <2>2, Zenon DEF Writes
    <3> QED BY <2>1, <3>1, <3>2, <3>3, <3>4, <1>RunIsSolo, Zenon
  <2>4. CASE StGoto(g, "final") /\ units' = units
    <3>1. st'[g].pc = "final" /\ st'[g].w = st[g].w
      BY <2>1, <2>2, <2>4, StTypes, StMovesOn, Zenon DEF StBecomes
    <3> QED BY <2>1, <2>4, <3>1, <1>GoesOnSolo DEF Before, During, Flight, Started
  <2> QED BY <2>3, <2>4, Zenon DEF Harvest
<1>FinalizeIsSolo. ASSUME IInv, NEW g \in Gateways, Solo(g), Finalize(g)
      PROVE  Solo(g)'
  <2> USE <1>FinalizeIsSolo
  <2>1. StAt(g, "final") /\ {"final", "publish"} \subseteq StartLabel
        /\ UNCHANGED <<client, old, wr, sw, units, jobs>>
    BY Zenon DEF Finalize, StartLabel, store
  <2>2. Types /\ Records /\ Run(g) /\ wr[g] = None /\ st[g].pc = "final" /\ st[g].c \in Clients
    BY <2>1, RunAt, Zenon
  <2>3. st'[g].pc = "publish" /\ st'[g].w = st[g].w /\ st'[g].c = st[g].c
    <3>1. CASE st' = [st EXCEPT ![g].pc = "publish", ![g].freed = TRUE]
      BY <2>1, <2>2, <3>1, StTypes, StFrees, Zenon DEF StBecomes
    <3>2. CASE StGoto(g, "publish")
      BY <2>1, <2>2, <3>2, StTypes, StMovesOn, Zenon DEF StBecomes
    <3> QED BY <3>1, <3>2, Zenon DEF Finalize
  <2>4. Owes(g)'
    BY <2>1, <2>2, <2>3, Zenon DEF Solo, Owes, Before, During, Flight
  <2>5. \A x : Known(x) /\ x.w = st[g].w => x.status = "running"
    BY <2>2, Zenon DEF Known, Ended, Late
  <2>6. client[st[g].c].status = "running"
    <3>1. IsRecord(client[st[g].c]) /\ client[st[g].c].w = st[g].w
      BY <2>2, Zenon DEF Run, Started
    <3>2. Known(client[st[g].c])
      BY <2>2, <3>1, Zenon DEF Records
    <3> QED BY <2>5, <3>1, <3>2, Zenon
  <2>7. \A x \in Record : InMemory(g, x)' /\ x.w = st[g].w => x.status = "running"
    <3>1. \A x \in Record : InMemory(g, x)' => InMemory(g, x)
      BY <2>1, Zenon DEF InMemory
    <3> QED BY <2>2, <2>5, <3>1, Zenon DEF Records
  <2>8. Lasts(g)'
    <3>1. st'[g].w \notin old' /\ jobs'[g][st'[g].w] # "none"
      BY <2>1, <2>2, <2>3, Zenon DEF Solo, Lasts, Started
    <3> QED BY <2>1, <2>3, <2>6, <2>7, <3>1, Zenon DEF Lasts
  <2>9. Writes(g)'
    BY <2>1, <2>2, Zenon DEF Writes
  <2> QED BY <2>1, <2>3, <2>4, <2>8, <2>9, <1>RunIsSolo, Zenon
<1>PublishIsSolo. ASSUME IInv, NEW g \in Gateways, Solo(g), Publish(g)
      PROVE  Solo(g)'
  <2> USE <1>PublishIsSolo
  <2>1. /\ StAt(g, "publish") /\ {"publish", "settle"} \subseteq StartLabel
        /\ UNCHANGED <<client, old, sw, units>> /\ StGoto(g, "settle")
        /\ jobs' = [jobs EXCEPT ![g][st[g].w] = "terminal"]
    BY Zenon DEF Publish, StartLabel, store
  <2>2. /\ Types /\ Run(g) /\ wr[g] = None /\ st[g].pc = "publish" /\ st[g].c \in Clients
        /\ st[g].w \in WorkIds /\ sw[g].pc \notin SweepSync
    BY <2>1, RunAt, Zenon
  <2>3. st'[g].pc = "settle" /\ st'[g].w = st[g].w
    BY <2>1, <2>2, StTypes, StMovesOn, Zenon DEF StBecomes
  <2>4. Owes(g)'
    BY <2>1, <2>2, <2>3, Zenon DEF Solo, Owes, Before, During, Flight
  <2>5. Lasts(g)'
    <3>1. st'[g].w \notin old'
      BY <2>1, <2>2, <2>3, Zenon DEF Solo, Lasts
    <3>2. jobs'[g][st[g].w] # "none"
      BY <2>1, <2>2, Zenon DEF Types
    <3> QED BY <2>3, <3>1, <3>2, Zenon DEF Lasts
  <2>6. \A y \in Record : Duty(g, y) => y.w # st[g].w
    <3> SUFFICES ASSUME NEW y \in Record, Duty(g, y), y.w = st[g].w PROVE FALSE
      OBVIOUS
    <3>1. y.status = "running"
      BY <2>2, DutyFacts, Zenon DEF Solo, Lasts
    <3>2. Foreign(g, y)
      BY Zenon DEF Solo, Duties
    <3> QED BY <2>2, <3>1, <3>2, Zenon DEF Foreign, SweepSync
  <2>7. Writes(g)'
    <3>1. CASE wr' = wr
      BY <2>2, <3>1, Zenon DEF Writes
    <3>2. CASE Persist(g, [c |-> st[g].c, w |-> st[g].w, status |-> "terminal", result |-> TRUE,
                           pending |-> st[g].pend])
      <4>1. PICK r \in Record : /\ Persist(g, r) /\ r.c = st[g].c /\ r.w = st[g].w /\ r.status = "terminal"
        <5>1. st[g].pend \in BOOLEAN
          BY <2>2, Zenon DEF Types, StartState
        <5>2. LET r == [c |-> st[g].c, w |-> st[g].w, status |-> "terminal", result |-> TRUE,
                        pending |-> st[g].pend] IN
              r \in Record /\ r.c = st[g].c /\ r.w = st[g].w /\ r.status = "terminal"
          BY <2>2, <5>1, Zenon DEF Record, Status
        <5> QED BY <3>2, <5>2, Zenon
      <4>2. wr'[g].rec = r
        BY <2>2, <4>1, Persists, Zenon
      <4>3. client[r.c].status = "running"
        BY <2>2, <4>1, Zenon DEF Solo, Lasts
      <4>4. \A y \in Record : Duty(g, y)' => y.w # r.w
        BY <2>1, <2>6, <4>1, Zenon DEF Duty
      <4>5. May(g, r)'
        BY <2>1, <2>3, <4>1, <4>3, <4>4, Zenon DEF May
      <4> QED BY <4>2, <4>5, Zenon DEF Writes
    <3> QED BY <3>1, <3>2, Zenon DEF Publish
  <2> QED BY <2>1, <2>3, <2>4, <2>5, <2>7, <1>RunIsSolo, Zenon
<1>SettleIsSolo. ASSUME IInv, NEW g \in Gateways, Solo(g), old \subseteq 1..minted, Settle(g)
      PROVE  Solo(g)'
  <2> USE <1>SettleIsSolo
  <2>1. /\ StAt(g, "settle") /\ {"settle", "held"} \subseteq StartLabel
        /\ UNCHANGED <<client, old, wr, sw, units, jobs>> /\ Types
    BY Zenon DEF Settle, StartLabel, store, IInv
  <2>2. CASE StGoto(g, "held")
    <3>1. st'[g].pc = "held" /\ st'[g].w = st[g].w
      BY <2>1, <2>2, StTypes, StMovesOn, Zenon DEF StBecomes
    <3> QED BY <2>1, <3>1, <1>GoesOnSolo, Zenon DEF Before, During, Flight, Started
  <2>3. CASE st' = [st EXCEPT ![g] = Idle]
    <3>1. st'[g].pc = "idle" /\ st'[g].w = 0
      BY <2>1, <2>3, StTypes, StIdles, Zenon DEF StBecomes
    <3> QED BY <2>1, <3>1, <1>EndsSolo, Zenon
  <2> QED BY <2>2, <2>3, Zenon DEF Settle
<1> QED BY <1>StartIsSolo, <1>AdmitIsSolo, <1>AcquireIsSolo, <1>BackoutIsSolo, <1>ClaimIsSolo, <1>FillIsSolo,
    <1>IndexIsSolo, <1>EngineStartIsSolo, <1>CleanupIsSolo, <1>HarvestIsSolo, <1>FinalizeIsSolo,
    <1>PublishIsSolo, <1>SettleIsSolo, Zenon DEF StartStep

\* A sweep, a retry and the renames they leave.
LEMMA SweepStepIsSolo ==
    \A g \in Gateways : /\ IInv /\ Solo(g)
                        /\ SweepStep(g) \/ WriteStep(g) \/ \E c \in Clients : Retry(g, c) \/ FailClosed(g, c)
                        => Solo(g)'
\* A run of g that is bound is in the job table until it is held.
<1>OwnIsMine. ASSUME IInv, NEW g \in Gateways, Lasts(g), st[g].pc \notin StartSync, NEW x, Bound(x),
             x.c \in Clients,
             x.w \in WorkIds, x.w = st[g].w
      PROVE  st[g].pc \in Flight /\ (st[g].pc = "held" \/ Mine(g, x.w))
  <2> USE <1>OwnIsMine
  <2>1. st[g].pc \notin {"idle", "read"}
    BY CodeLoopAssumption DEF IInv, Ids, Numbered, WorkIds
  <2>2. st[g].pc \notin {"lease", "admit", "fill", "backout"}
    BY Zenon DEF IInv, Run, Bound
  <2>3. st[g].pc \in StartLabel
    BY Zenon DEF IInv, Types, StartState
  <2>4. st[g].pc \in Started \ {"index"}
    BY <2>1, <2>2, <2>3, Zenon DEF StartLabel, StartSync, Started
  <2>5. st[g].pc \in Flight
    BY <2>4, Zenon DEF Started, Flight, Before, During
  <2> QED BY <2>4, <2>5, Zenon DEF Lasts, Mine
<1>SweepGoesSolo. ASSUME IInv, NEW g \in Gateways, Solo(g), NEW l \in SweepLabel, SwAt(g, l), Moves(g),
             jobs' = jobs,
             sw'[g].pc \notin Listing \cup {"dirStop", "dir", "unownedLive"}, Pens(g)
      PROVE  Solo(g)'
  <2> USE <1>SweepGoesSolo
  <2>1. st[g].pc # "publish"
    BY SweepAt, Zenon DEF StartSync
  <2>2. Duties(g)' /\ \A y : ~Duty(g, y)'
    BY NoDuty, Zenon
  <2>3. Reads(g)'
    BY Zenon DEF Reads
  <2>4. Writes(g)'
    BY <2>2, Zenon DEF Pens, Gentle, Moves, Writes, May
  <2>5. st[g].pc \in Started \ {"index", "held"} => jobs'[g][st[g].w] # "none"
    BY Zenon DEF Solo, Lasts
  <2> QED BY <2>1, <2>2, <2>3, <2>4, <2>5, SweepIsSolo, Zenon DEF Moves
\* One of the steps that only moves on.
<1>SweepMovesSolo. ASSUME IInv, NEW g \in Gateways, Solo(g),
             SweepStart(g) \/ SweepOrphan(g) \/ SweepOrphanStop(g)
      PROVE  Solo(g)'
  <2> USE <1>SweepMovesSolo
  <2>1. UNCHANGED <<client, old, wr, jobs>> /\ st' = st /\ Types /\ units' \subseteq units
    BY Zenon DEF SweepStart, SweepOrphan, SweepOrphanStop, StopUnit, StopFails, store, IInv
  <2>2. PICK l \in SweepLabel : SwAt(g, l)
    BY Zenon DEF SweepStart, SweepOrphan, SweepOrphanStop, SweepLabel
  <2>3. wr'[g] = None
    BY <2>1, <2>2, SweepAt, Zenon
  <2>4. sw'[g].pc \in {"idle", "list", "release", "hold", "mark", "orphanStop", "reclaim"}
    <3>1. CASE sw' = [sw EXCEPT ![g] = Asleep]
      BY <2>1, <3>1, Initial, SwUpdate, Zenon DEF SwMoves
    <3>2. ASSUME NEW m \in {"list", "release", "hold", "mark", "orphanStop", "reclaim"}, SwGoto(g, m)
          PROVE  sw'[g].pc = m
      <4>1. m \in SweepLabel
        BY Zenon DEF SweepLabel
      <4> QED BY <2>1, <3>2, <4>1, SwGoes, Zenon
    <3>3. \/ sw' = [sw EXCEPT ![g] = Asleep]
          \/ \E m \in {"list", "release", "hold", "mark", "orphanStop", "reclaim"} : SwGoto(g, m)
      BY Zenon DEF SweepStart, SweepOrphan, SweepOrphanStop, StopFails
    <3> QED BY <3>1, <3>2, <3>3, Zenon
  <2>5. sw'[g].pc \notin Listing \cup {"dirStop", "dir", "unownedLive"}
    BY <2>4, Zenon DEF Listing
  <2> QED BY <2>1, <2>2, <2>3, <2>5, <1>SweepGoesSolo, Zenon DEF Moves, Pens
\* An error ends the sweep.
<1>FailsSolo. ASSUME IInv, NEW g \in Gateways, Solo(g), NEW l \in SweepLabel, SwAt(g, l),
             sw' = [sw EXCEPT ![g] = Asleep],
             UNCHANGED <<client, old, jobs, units, st, wr>>
      PROVE  Solo(g)'
  <2> USE <1>FailsSolo
  <2>1. Types /\ wr[g] = None
    BY SweepAt, Zenon
  <2>2. sw'[g].pc = "idle"
    BY <2>1, Initial, SwUpdate, Zenon DEF SwMoves
  <2>3. sw'[g].pc \notin Listing \cup {"dirStop", "dir", "unownedLive"}
    BY <2>2, Zenon DEF Listing
  <2> QED BY <2>1, <2>3, <1>SweepGoesSolo, Zenon DEF Moves, Pens
\* The variants of a record that the sweep writes.
<1>GentleVariants. ASSUME NEW x \in Record, x = client[x.c]
      PROVE  /\ Gentle([x EXCEPT !.pending = FALSE])
             /\ x.w \in old \cup Outdated => Gentle([x EXCEPT !.result = FALSE])
             /\ x.status # "terminal" => Gentle([x EXCEPT !.status = "orphaned", !.result = FALSE])
  <2> USE <1>GentleVariants
  <2>1. PICK r : /\ r = [x EXCEPT !.pending = FALSE] /\ r.c = x.c /\ r.status = x.status
                 /\ r.result = x.result /\ ~r.pending
    BY Variants, Zenon
  <2>2. PICK s : /\ s = [x EXCEPT !.result = FALSE] /\ s.c = x.c /\ s.status = x.status /\ s.pending = x.pending
    <3>1. /\ [x EXCEPT !.result = FALSE].c = x.c /\ [x EXCEPT !.result = FALSE].status = x.status
          /\ [x EXCEPT !.result = FALSE].pending = x.pending
      BY Variants, Zenon
    <3> QED BY <3>1, Zenon
  <2>3. PICK t : /\ t = [x EXCEPT !.status = "orphaned", !.result = FALSE] /\ t.c = x.c /\ t.pending = x.pending
    <3>1. /\ [x EXCEPT !.status = "orphaned", !.result = FALSE].c = x.c
          /\ [x EXCEPT !.status = "orphaned", !.result = FALSE].pending = x.pending
      BY Variants, Zenon
    <3> QED BY <3>1, Zenon
  <2>4. Gentle(r) /\ (x.w \in old \cup Outdated => Gentle(s)) /\ (x.status # "terminal" => Gentle(t))
    BY <2>1, <2>2, <2>3, Zenon DEF Gentle
  <2> QED BY <2>1, <2>2, <2>3, <2>4, Zenon
<1>SweepHoldIsSolo. ASSUME IInv, NEW g \in Gateways, Solo(g), SweepHold(g)
      PROVE  Solo(g)'
  <2> USE <1>SweepHoldIsSolo
  <2>1. SwAt(g, "hold") /\ {"hold", "release"} \subseteq SweepLabel /\ UNCHANGED <<client, old, jobs>>
    BY Zenon DEF SweepHold, SweepLabel, store
  <2>2. Types /\ Records /\ SweepPlace(g) /\ sw[g].pc = "hold" /\ wr[g] = None
    BY <2>1, SweepAt, Zenon
  <2>3. CASE StopFails(g)
    BY <2>1, <2>3, <1>FailsSolo, Zenon DEF StopFails
  <2>4. CASE /\ StopUnit(st[g].w) /\ st' = [st EXCEPT ![g].absent = TRUE]
             /\ LET r == ByWork(st[g].w) IN
                IF Pending(r) THEN Persist(g, [r EXCEPT !.pending = FALSE]) ELSE UNCHANGED wr
             /\ sw' = [sw EXCEPT ![g].pc = "release", ![g].seen = @ \cup {st[g].w}]
    <3>1. PICK n : n = sw[g].seen \cup {st[g].w}
      BY Zenon
    <3>2. n \in SUBSET WorkIds
      <4>1. st[g].pc = "held"
        BY <2>2, Zenon DEF SweepPlace
      <4>2. sw[g].seen \subseteq WorkIds /\ minted \in 0..MaxStarts
        BY <2>2, Zenon DEF Types, SweepState
      <4>3. st[g].w \in 1..minted
        BY <4>1, Zenon DEF IInv, Ids, Numbered
      <4> QED BY <3>1, <4>2, <4>3, CodeLoopAssumption DEF WorkIds
    <3>3. sw' = [sw EXCEPT ![g].pc = "release", ![g].seen = n]
      BY <2>2, <2>4, <3>1, Zenon DEF Types
    <3>4. sw'[g].pc = "release"
      BY <2>1, <2>2, <3>2, <3>3, SwSees, Zenon DEF SwBecomes
    <3>5. Moves(g)
      <4>1. st'[g].pc = st[g].pc /\ st'[g].w = st[g].w
        BY <2>2, <2>4, StTypes, StNotes, Zenon DEF StBecomes
      <4> QED BY <2>1, <2>4, <4>1, Zenon DEF Moves, StopUnit
    <3>6. Pens(g)
      <4>1. PICK r : r = ByWork(st[g].w)
        BY Zenon
      <4>2. CASE Pending(r)
        <5>1. r \in Record /\ r = client[r.c]
          BY <2>2, <4>1, <4>2, ByWorkFacts, Zenon DEF Pending, IsRecord
        <5>2. [r EXCEPT !.pending = FALSE] \in Record /\ Persist(g, [r EXCEPT !.pending = FALSE])
          BY <2>4, <4>1, <4>2, <5>1, Variants, Zenon
        <5>3. Gentle([r EXCEPT !.pending = FALSE])
          BY <5>1, <1>GentleVariants, Zenon
        <5> QED BY <2>2, <5>2, <5>3, Persists, Zenon DEF Pens
      <4>3. CASE ~Pending(r)
        BY <2>2, <2>4, <4>1, <4>3, Zenon DEF Pens
      <4> QED BY <4>2, <4>3, Zenon
    <3>7. sw'[g].pc \notin Listing \cup {"dirStop", "dir", "unownedLive"}
      BY <3>4, Zenon DEF Listing
    <3> QED BY <2>1, <3>5, <3>6, <3>7, <1>SweepGoesSolo, Zenon
  <2> QED BY <2>3, <2>4, Zenon DEF SweepHold
\* The sweep writes a gentle variant of a record it has in hand, or nothing.
<1>PensOf. ASSUME Types, NEW g \in Gateways, NEW r \in Record, Persist(g, r), Gentle(r)
      PROVE  Pens(g)
  BY <1>PensOf, Persists, Zenon DEF Pens
<1>SweepCompactIsSolo. ASSUME IInv, NEW g \in Gateways, Solo(g), SweepCompact(g)
      PROVE  Solo(g)'
  <2> USE <1>SweepCompactIsSolo
  <2>1. /\ SwAt(g, "compact") /\ {"compact", "dirs"} \subseteq SweepLabel
        /\ Moves(g)
    BY Zenon DEF SweepCompact, SweepLabel, store, Moves
  <2>2. Types /\ Records /\ sw[g].pc = "compact" /\ wr[g] = None /\ st[g].pc \notin StartSync
    BY <2>1, SweepAt, Zenon
  <2>3. CASE \E c \in Clients : /\ Compactable(client[c]) /\ Persist(g, [client[c] EXCEPT !.result = FALSE])
                                /\ sw' = sw /\ jobs' = jobs
    <3>1. PICK c \in Clients : Compactable(client[c]) /\ Persist(g, [client[c] EXCEPT !.result = FALSE])
      BY <2>3, Zenon
    <3>2. PICK x : x = client[c]
      BY Zenon
    <3>3. x \in Record /\ x = client[x.c] /\ x.w \in old
      BY <2>2, <3>1, <3>2, OnDisk, Zenon DEF Compactable
    <3>4. Gentle([x EXCEPT !.result = FALSE]) /\ [x EXCEPT !.result = FALSE] \in Record
      BY <3>3, <1>GentleVariants, Variants, Zenon
    <3>5. Pens(g)
      BY <2>2, <3>1, <3>2, <3>4, <1>PensOf, Zenon
    <3>6. sw'[g].pc \notin Listing \cup {"dirStop", "dir", "unownedLive"} /\ jobs' = jobs
      BY <2>2, <2>3, Zenon DEF Listing
    <3> QED BY <2>1, <3>5, <3>6, <1>SweepGoesSolo, Zenon
  <2>4. CASE /\ sw' = [sw EXCEPT ![g].pc = "dirs", ![g].todo = sandboxes] /\ wr' = wr
             /\ jobs' = [jobs EXCEPT ![g] = [w \in WorkIds |->
                           IF @[w] = "terminal" /\ w \in old THEN "none" ELSE @[w]]]
    <3>1. sandboxes \in SUBSET (Record \cup WorkIds \cup Clients)
      BY <2>2, Zenon DEF Types
    <3>2. sw'[g].pc = "dirs"
      BY <2>1, <2>2, <2>4, <3>1, SwLists, Zenon DEF SwBecomes
    <3>3. Duties(g)'
      BY <3>2, NoDuty, Zenon DEF Listing
    <3>4. Reads(g)' /\ Writes(g)'
      BY <2>2, <2>4, <3>2, Zenon DEF Reads, Writes
    <3>5. ASSUME st[g].pc \in Started \ {"index", "held"} PROVE jobs'[g][st[g].w] # "none"
      <4>1. st[g].w \notin old /\ jobs[g][st[g].w] # "none"
        BY <3>5, Zenon DEF Solo, Lasts, Started
      <4>2. st[g].w \in WorkIds
        <5>1. st[g].w \in 1..minted /\ minted \in 0..MaxStarts
          <6>1. st[g].pc \notin {"idle", "read"}
            BY <3>5, Zenon DEF Started
          <6> QED BY <2>2, <6>1, Zenon DEF IInv, Ids, Numbered, Types
        <5> QED BY <5>1, CodeLoopAssumption DEF WorkIds
      <4> QED BY <2>2, <2>4, <4>1, <4>2, Zenon DEF Types
    <3> QED BY <2>1, <2>2, <3>3, <3>4, <3>5, SweepIsSolo, Zenon DEF Moves, StartSync
  <2> QED BY <2>3, <2>4, Zenon DEF SweepCompact
<1>SweepDirsIsSolo. ASSUME IInv, NEW g \in Gateways, Solo(g), SweepDirs(g)
      PROVE  Solo(g)'
  <2> USE <1>SweepDirsIsSolo
  <2>1. /\ SwAt(g, "dirs") /\ {"dirs", "dir", "unowned"} \subseteq SweepLabel
        /\ Moves(g) /\ jobs' = jobs /\ wr' = wr
    BY Zenon DEF SweepDirs, SweepLabel, store, Moves
  <2>2. Types /\ Records /\ wr[g] = None /\ st[g].pc \notin StartSync
    BY <2>1, SweepAt, Zenon
  <2>3. sw[g].todo \subseteq Record \cup WorkIds \cup Clients
    BY <2>2, Zenon DEF Types, SweepState
  <2>4. CASE sw' = [sw EXCEPT ![g].pc = "unowned", ![g].todo = Clients, ![g].seen = {}]
    <3>1. {} \in SUBSET WorkIds /\ Clients \in SUBSET (Record \cup WorkIds \cup Clients)
      BY Zenon
    <3>2. sw'[g].pc = "unowned"
      BY <2>1, <2>2, <2>4, <3>1, SwTurns, Zenon DEF SwBecomes
    <3>3. sw'[g].pc \notin Listing \cup {"dirStop", "dir", "unownedLive"}
      BY <3>2, Zenon DEF Listing
    <3> QED BY <2>1, <2>2, <3>3, <1>SweepGoesSolo, Zenon DEF Pens
  <2>5. CASE \E w \in sw[g].todo : sw' = [sw EXCEPT ![g].todo = @ \ {w}, ![g].rec = ByWork(w),
                                                    ![g].pc = IF ByWork(w) = None THEN "dirs" ELSE "dir"]
    <3>1. PICK w \in sw[g].todo : sw' = [sw EXCEPT ![g].todo = sw[g].todo \ {w}, ![g].rec = ByWork(w),
                                                    ![g].pc = IF ByWork(w) = None THEN "dirs" ELSE "dir"]
      BY <2>5, Zenon
    <3>2. PICK r : r = ByWork(w)
      BY Zenon
    <3>3. r # None => r \in Record /\ r = client[r.c]
      BY <2>2, <3>2, ByWorkFacts, Zenon
    <3>4. PICK m \in {"dirs", "dir"} : (m = "dirs" <=> r = None) /\ m = IF r = None THEN "dirs" ELSE "dir"
      BY Zenon
    <3>5. sw'[g].pc = m /\ sw'[g].rec = r
      <4>1. SwBecomes(g, m, sw[g].todo \ {w}, r)
        BY <2>1, <2>2, <2>3, <3>1, <3>2, <3>3, <3>4, SwReads, Zenon
      <4> QED BY <4>1, Zenon DEF SwBecomes
    <3>6. Duties(g)'
      BY <3>5, NoDuty, Zenon DEF Listing
    <3>7. Reads(g)' /\ Writes(g)'
      BY <2>1, <2>2, <3>3, <3>4, <3>5, Zenon DEF Reads, Writes, Moves
    <3>8. st[g].pc \in Started \ {"index", "held"} => jobs'[g][st[g].w] # "none"
      BY <2>1, Zenon DEF Solo, Lasts
    <3> QED BY <2>1, <2>2, <3>6, <3>7, <3>8, SweepIsSolo, Zenon DEF Moves, StartSync
  <2> QED BY <2>4, <2>5, Zenon DEF SweepDirs
\* A record in the hand of the sweep that it will write back.
<1>HandDuty. ASSUME IInv, NEW g \in Gateways, Solo(g), NEW x \in Record, Duty(g, x)
      PROVE  Gentle([x EXCEPT !.pending = FALSE])
  <2> USE <1>HandDuty
  <2>1. Fresh(x) /\ Bound(x)
    BY DutyFacts, Zenon DEF Solo, Duties
  <2>2. PICK r : /\ r = [x EXCEPT !.pending = FALSE] /\ r.c = x.c /\ r.status = x.status
                 /\ r.result = x.result /\ ~r.pending
    BY Variants, Zenon
  <2>3. Gentle(r)
    BY <2>1, <2>2, Zenon DEF Gentle, Fresh, Bound
  <2> QED BY <2>2, <2>3, Zenon
<1>SweepDirStopIsSolo. ASSUME IInv, NEW g \in Gateways, Solo(g), SweepDirStop(g)
      PROVE  Solo(g)'
  <2> USE <1>SweepDirStopIsSolo
  <2>1. SwAt(g, "dirStop") /\ {"dirStop", "orphan"} \subseteq SweepLabel /\ UNCHANGED <<client, old, jobs>>
    BY Zenon DEF SweepDirStop, SweepLabel, store
  <2>2. Types /\ sw[g].pc = "dirStop" /\ sw[g].rec \in Record
    BY <2>1, SweepAt, Zenon DEF Handling
  <2>3. CASE StopFails(g)
    BY <2>1, <2>3, <1>FailsSolo, Zenon DEF StopFails
  <2>4. CASE ~StopFails(g)
    <3>1. PICK x \in Record : x = sw[g].rec
      BY <2>2, Zenon
    <3>2. PICK r \in Record : r = [x EXCEPT !.pending = FALSE] /\ r.w = x.w
      BY Variants, Zenon
    <3>3. StopUnit(x.w) /\ st' = st /\ Persist(g, r)
      BY <2>4, <3>1, <3>2, Zenon DEF SweepDirStop
    <3>4. sw' = [sw EXCEPT ![g].rec = r, ![g].seen = sw[g].seen \cup {x.w}, ![g].pc = "orphan"]
      BY <2>4, <3>1, <3>2, Zenon DEF SweepDirStop
    <3>5. sw[g].seen \cup {x.w} \in SUBSET WorkIds
      <4>1. x.w \in WorkIds
        BY <3>1, RecordFacts, Zenon
      <4> QED BY <2>2, <4>1, Zenon DEF Types, SweepState
    <3>6. sw'[g].pc = "orphan"
      <4>1. SwBecomes(g, "orphan", sw[g].todo, r)
        BY <2>1, <2>2, <3>2, <3>4, <3>5, SwStops, Zenon
      <4> QED BY <4>1, Zenon DEF SwBecomes
    <3>7. Duty(g, x)
      BY <2>2, <3>1, Zenon DEF Duty
    <3>8. Pens(g)
      BY <2>2, <3>2, <3>3, <3>7, <1>HandDuty, <1>PensOf, Zenon
    <3>9. Moves(g)
      BY <2>1, <3>3, Zenon DEF Moves, StopUnit
    <3>10. sw'[g].pc \notin Listing \cup {"dirStop", "dir", "unownedLive"}
      BY <3>6, Zenon DEF Listing
    <3> QED BY <2>1, <3>8, <3>9, <3>10, <1>SweepGoesSolo, Zenon
  <2> QED BY <2>3, <2>4, Zenon
<1>SweepMarkIsSolo. ASSUME IInv, NEW g \in Gateways, Solo(g), SweepMark(g)
      PROVE  Solo(g)'
  <2> USE <1>SweepMarkIsSolo
  <2>1. SwAt(g, "mark") /\ {"mark", "reclaim"} \subseteq SweepLabel /\ Moves(g) /\ jobs' = jobs
    BY Zenon DEF SweepMark, SweepLabel, store, Moves
  <2>2. Types /\ Records /\ sw[g].rec \in Record /\ wr[g] = None
    BY <2>1, SweepAt, Zenon DEF Handling
  <2>3. PICK x, r : x = sw[g].rec /\ r = ByWork(x.w)
    BY Zenon
  <2>4. r # None => r \in Record /\ r = client[r.c]
    BY <2>2, <2>3, ByWorkFacts, Zenon
  <2>5. Pens(g)
    <3>1. CASE Running(r)
      <4>1. r \in Record /\ r = client[r.c] /\ r.status # "terminal"
        BY <2>4, <3>1, Zenon DEF Running, IsRecord
      <4>2. PICK p \in Record : p = [r EXCEPT !.status = "orphaned", !.result = FALSE]
        BY <4>1, Variants, Zenon
      <4>3. Gentle(p)
        BY <4>1, <4>2, <1>GentleVariants, Zenon
      <4>4. Persist(g, p)
        BY <2>3, <3>1, <4>2, Zenon DEF SweepMark
      <4> QED BY <2>2, <4>3, <4>4, <1>PensOf, Zenon
    <3>2. CASE ~Running(r)
      BY <2>2, <2>3, <3>2, Zenon DEF SweepMark, Pens
    <3> QED BY <3>1, <3>2, Zenon
  <2>6. PICK y \in Record : sw' = [sw EXCEPT ![g].pc = "reclaim", ![g].rec = y]
    <3>1. PICK o \in Record : o = [x EXCEPT !.status = "orphaned", !.result = FALSE]
      BY <2>2, <2>3, Variants, Zenon
    <3>2. CASE r = None \/ Running(r)
      BY <2>3, <3>1, <3>2, Zenon DEF SweepMark
    <3>3. CASE ~(r = None \/ Running(r))
      BY <2>3, <2>4, <3>3, Zenon DEF SweepMark
    <3> QED BY <3>2, <3>3, Zenon
  <2>7. sw'[g].pc = "reclaim"
    BY <2>1, <2>2, <2>6, SwNotes, Zenon DEF SwBecomes
  <2>8. sw'[g].pc \notin Listing \cup {"dirStop", "dir", "unownedLive"}
    BY <2>7, Zenon DEF Listing
  <2> QED BY <2>1, <2>5, <2>8, <1>SweepGoesSolo, Zenon
<1>SweepReclaimIsSolo. ASSUME IInv, NEW g \in Gateways, Solo(g), SweepReclaim(g)
      PROVE  Solo(g)'
  <2> USE <1>SweepReclaimIsSolo
  <2>1. SwAt(g, "reclaim") /\ {"reclaim", "dirs"} \subseteq SweepLabel /\ Moves(g) /\ jobs' = jobs
    BY Zenon DEF SweepReclaim, SweepLabel, store, Moves
  <2>2. Types /\ Records /\ wr[g] = None
    BY <2>1, SweepAt, Zenon
  <2>3. PICK r : r = ByWork(sw[g].rec.w)
    BY Zenon
  <2>4. r # None => r \in Record /\ r = client[r.c] /\ r.w = sw[g].rec.w
    BY <2>2, <2>3, ByWorkFacts, Zenon
  <2>5. Pens(g)
    <3>1. CASE wr' = wr
      BY <2>2, <3>1, Zenon DEF Pens
    <3>2. CASE r # None /\ Persist(g, [r EXCEPT !.result = FALSE]) /\ sw[g].rec.w \in old
      <4>1. r \in Record /\ r = client[r.c] /\ r.w \in old
        BY <2>4, <3>2, Zenon
      <4>2. PICK p \in Record : p = [r EXCEPT !.result = FALSE]
        BY <4>1, Variants, Zenon
      <4>3. Gentle(p)
        BY <4>1, <4>2, <1>GentleVariants, Zenon
      <4> QED BY <2>2, <3>2, <4>2, <4>3, <1>PensOf, Zenon
    <3> QED BY <2>3, <3>1, <3>2, Zenon DEF SweepReclaim
  <2>6. sw'[g].pc = "dirs"
    BY <2>1, <2>2, SwNotes, Zenon DEF SwBecomes, SweepReclaim
  <2>7. sw'[g].pc \notin Listing \cup {"dirStop", "dir", "unownedLive"}
    BY <2>6, Zenon DEF Listing
  <2> QED BY <2>1, <2>5, <2>7, <1>SweepGoesSolo, Zenon
<1>SweepUnownedIsSolo. ASSUME IInv, NEW g \in Gateways, Solo(g), SweepUnowned(g)
      PROVE  Solo(g)'
  <2> USE <1>SweepUnownedIsSolo
  <2>1. /\ SwAt(g, "unowned") /\ {"unowned", "unownedLive"} \subseteq SweepLabel /\ Moves(g)
        /\ UNCHANGED <<client, old, jobs, units, st, wr>>
    BY Zenon DEF SweepUnowned, SweepLabel, store, Moves
  <2>2. /\ Types /\ Records /\ sw[g].pc = "unowned" /\ sw[g].todo \subseteq Clients /\ wr[g] = None
        /\ st[g].pc \notin StartSync
    BY <2>1, SweepAt, Zenon DEF SweepPlace
  <2>3. sw[g].todo \subseteq Record \cup WorkIds \cup Clients
    BY <2>2, Zenon
  <2>4. CASE sw' = [sw EXCEPT ![g] = Asleep]
    BY <2>1, <2>4, <1>FailsSolo, Zenon
  <2>5. CASE \E c \in sw[g].todo : sw' = [sw EXCEPT ![g].todo = @ \ {c}]
    <3>1. PICK c \in sw[g].todo : sw' = [sw EXCEPT ![g].todo = sw[g].todo \ {c}]
      BY <2>5, Zenon
    <3>2. sw'[g].pc = "unowned"
      <4>1. SwBecomes(g, "unowned", sw[g].todo \ {c}, sw[g].rec)
        BY <2>2, <2>3, <3>1, SwDrops, Zenon
      <4> QED BY <4>1, Zenon DEF SwBecomes
    <3>3. sw'[g].pc \notin Listing \cup {"dirStop", "dir", "unownedLive"}
      BY <3>2, Zenon DEF Listing
    <3> QED BY <2>1, <2>2, <3>3, <1>SweepGoesSolo, Zenon DEF Pens
  <2>6. CASE \E c \in sw[g].todo : /\ Running(client[c])
                                   /\ sw' = [sw EXCEPT ![g].todo = @ \ {c}, ![g].rec = client[c], ![g].pc = "unownedLive"]
    <3>1. PICK c \in sw[g].todo :
             /\ Running(client[c])
             /\ sw' = [sw EXCEPT ![g].todo = sw[g].todo \ {c}, ![g].rec = client[c], ![g].pc = "unownedLive"]
      BY <2>6, Zenon
    <3>2. PICK x : x = client[c]
      BY Zenon
    <3>3. x \in Record /\ x = client[x.c] /\ x.status = "running"
      BY <2>2, <3>1, <3>2, OnDisk, Zenon DEF Running
    <3>4. sw'[g].pc = "unownedLive" /\ sw'[g].rec = x
      <4>1. SwBecomes(g, "unownedLive", sw[g].todo \ {c}, x)
        BY <2>1, <2>2, <2>3, <3>1, <3>2, <3>3, SwReads, Zenon
      <4> QED BY <4>1, Zenon DEF SwBecomes
    <3>5. Duties(g)'
      BY <3>4, NoDuty, Zenon DEF Listing
    <3>6. Reads(g)' /\ Writes(g)'
      BY <2>1, <2>2, <3>3, <3>4, Zenon DEF Reads, Writes
    <3>7. st[g].pc \in Started \ {"index", "held"} => jobs'[g][st[g].w] # "none"
      BY <2>1, Zenon DEF Solo, Lasts
    <3> QED BY <2>1, <2>2, <3>5, <3>6, <3>7, SweepIsSolo, Zenon DEF Moves, StartSync
  <2> QED BY <2>4, <2>5, <2>6, Zenon DEF SweepUnowned
<1>SweepUnownedLiveIsSolo. ASSUME IInv, NEW g \in Gateways, Solo(g), SweepUnownedLive(g)
      PROVE  Solo(g)'
  <2> USE <1>SweepUnownedLiveIsSolo
  <2>1. SwAt(g, "unownedLive") /\ {"unowned", "unownedLive"} \subseteq SweepLabel /\ Moves(g) /\ jobs' = jobs
    BY Zenon DEF SweepUnownedLive, SweepLabel, store, Moves
  <2>2. Types /\ sw[g].pc = "unownedLive" /\ sw[g].rec \in Record /\ wr[g] = None
    BY <2>1, SweepAt, Zenon DEF Handling
  <2>3. PICK x \in Record : x = sw[g].rec
    BY <2>2, Zenon
  <2>4. x = client[x.c] /\ x.status = "running"
    BY <2>2, <2>3, Zenon DEF Solo, Reads
  <2>5. Pens(g)
    <3>1. CASE wr' = wr
      BY <2>2, <3>1, Zenon DEF Pens
    <3>2. CASE Persist(g, [x EXCEPT !.status = "orphaned", !.result = FALSE])
      <4>1. PICK p \in Record : p = [x EXCEPT !.status = "orphaned", !.result = FALSE]
        BY Variants, Zenon
      <4>2. x.status # "terminal"
        BY <2>4, Zenon
      <4>3. Gentle(p)
        BY <2>4, <4>1, <4>2, <1>GentleVariants, Zenon
      <4> QED BY <2>2, <3>2, <4>1, <4>3, <1>PensOf, Zenon
    <3> QED BY <2>3, <3>1, <3>2, Zenon DEF SweepUnownedLive
  <2>6. sw'[g].pc = "unowned"
    BY <2>1, <2>2, SwNotes, Zenon DEF SwBecomes, SweepUnownedLive
  <2>7. sw'[g].pc \notin Listing \cup {"dirStop", "dir", "unownedLive"}
    BY <2>6, Zenon DEF Listing
  <2> QED BY <2>1, <2>5, <2>7, <1>SweepGoesSolo, Zenon
\* A step that changes what the sweep will write back.
<1>SweepTurnsSolo. ASSUME IInv, NEW g \in Gateways, Solo(g), NEW l \in SweepLabel, SwAt(g, l), Moves(g),
             jobs' = jobs,
             sw'[g].pc \notin {"dir", "unownedLive"}, Duties(g)', Writes(g)'
      PROVE  Solo(g)'
  <2> USE <1>SweepTurnsSolo
  <2>1. st[g].pc # "publish"
    BY SweepAt, Zenon DEF StartSync
  <2>2. Reads(g)'
    BY Zenon DEF Reads
  <2>3. st[g].pc \in Started \ {"index", "held"} => jobs'[g][st[g].w] # "none"
    BY Zenon DEF Solo, Lasts
  <2> QED BY <2>1, <2>2, <2>3, SweepIsSolo, Zenon DEF Moves
\* The cleanup of a run that another process left, or that is over.
<1>SweepDirIsSolo. ASSUME IInv, NEW g \in Gateways, Solo(g), SweepDir(g)
      PROVE  Solo(g)'
  <2> USE <1>SweepDirIsSolo
  <2>1. SwAt(g, "dir") /\ {"dir", "dirStop", "orphan"} \subseteq SweepLabel /\ Moves(g) /\ jobs' = jobs
        /\ wr' = wr
    BY Zenon DEF SweepDir, SweepLabel, store, Moves
  <2>2. /\ Types /\ sw[g].pc = "dir" /\ wr[g] = None /\ st[g].pc \notin StartSync
        /\ sw[g].rec \in Record /\ Bound(sw[g].rec)
    BY <2>1, SweepAt, Zenon DEF Handling
  <2>3. PICK x \in Record : x = sw[g].rec
    BY <2>2, Zenon
  <2>4. x = client[x.c]
    BY <2>2, <2>3, Zenon DEF Solo, Reads
  <2>5. PICK m \in {"dirStop", "orphan"} :
           SwGoto(g, m) /\ (m = "dirStop" => x.status # "running" \/ ~Mine(g, x.w))
    BY <2>3, Zenon DEF SweepDir
  <2>6. sw'[g].pc = m /\ sw'[g].rec = x
    <3>1. m \in SweepLabel
      BY <2>1, Zenon
    <3> QED BY <2>2, <2>3, <2>5, <3>1, SwGoes, Zenon
  <2>7. Writes(g)'
    BY <2>1, <2>2, Zenon DEF Writes
  <2>8. Duties(g)'
    <3>1. CASE m = "orphan"
      BY <2>6, <3>1, NoDuty, Zenon DEF Listing
    <3>2. CASE m = "dirStop"
      <4>1. \A y : Duty(g, y)' <=> y = x
        BY <2>6, <3>2, Zenon DEF Duty, Listing
      <4>2. Fresh(x)'
        BY <2>1, <2>4, Zenon DEF Fresh, Moves
      <4>3. Foreign(g, x)'
        <5>1. x.status = "running" /\ x.w = st[g].w => st[g].pc = "held"
          BY <2>2, <2>3, <2>5, <3>2, <1>OwnIsMine, RecordFacts, Zenon DEF Solo
        <5> QED BY <2>1, <5>1, Zenon DEF Foreign, Moves
      <4>4. sw'[g].pc # "stop"
        BY <2>6, <3>2, Zenon
      <4> QED BY <4>1, <4>2, <4>3, <4>4, Zenon DEF Duties
    <3> QED BY <3>1, <3>2, Zenon
  <2>9. sw'[g].pc \notin {"dir", "unownedLive"}
    BY <2>6, Zenon
  <2> QED BY <2>1, <2>7, <2>8, <2>9, <1>SweepTurnsSolo, Zenon
\* listDurableCodeLoopRunsPendingCleanup, while a run here is under way: its own record only.
<1>SweepListIsSolo. ASSUME IInv, NEW g \in Gateways, Solo(g), SweepList(g)
      PROVE  Solo(g)'
  <2> USE <1>SweepListIsSolo
  <2>1. SwAt(g, "list") /\ {"list", "pending"} \subseteq SweepLabel /\ Moves(g) /\ jobs' = jobs /\ wr' = wr
    BY Zenon DEF SweepList, SweepLabel, store, Moves
  <2>2. Types /\ Records /\ wr[g] = None /\ st[g].pc \notin StartSync
    BY <2>1, SweepAt, Zenon
  <2>3. PICK T : T = {client[c] : c \in {d \in Clients : Pending(client[d])}}
    BY Zenon
  <2>4. \A x \in T : /\ x \in Record /\ x = client[x.c] /\ Bound(x) /\ Pending(x) /\ x.c \in Clients
                     /\ x.w \in WorkIds
    <3> SUFFICES ASSUME NEW x \in T
                 PROVE  x \in Record /\ x = client[x.c] /\ Bound(x) /\ Pending(x) /\ x.c \in Clients
                        /\ x.w \in WorkIds
      OBVIOUS
    <3>1. PICK c \in Clients : x = client[c] /\ Pending(client[c])
      BY <2>3, Zenon
    <3>2. IsRecord(client[c])
      BY <3>1, Zenon DEF Pending
    <3> QED BY <2>2, <3>1, <3>2, OnDisk, RecordFacts, Zenon
  <2>5. \A x, y \in T : x.w = y.w => x = y
    <3> SUFFICES ASSUME NEW x \in T, NEW y \in T, x.w = y.w PROVE x = y
      BY Zenon
    <3>1. /\ x.c \in Clients /\ IsRecord(client[x.c]) /\ client[x.c].w = x.w /\ x = client[x.c]
          /\ y.c \in Clients /\ IsRecord(client[y.c]) /\ client[y.c].w = y.w /\ y = client[y.c]
      BY <2>4, Zenon DEF Bound
    <3>2. x.c = y.c
      BY <2>2, <3>1, Zenon DEF Records
    <3> QED BY <3>1, <3>2, Zenon
  <2>6. sw'[g].pc = "pending" /\ sw'[g].todo = T
    <3>1. T \in SUBSET (Record \cup WorkIds \cup Clients)
      BY <2>4, Zenon
    <3>2. sw' = [sw EXCEPT ![g].pc = "pending", ![g].todo = T]
      BY <2>3, Zenon DEF SweepList
    <3>3. SwBecomes(g, "pending", T, sw[g].rec)
      BY <2>1, <2>2, <3>1, <3>2, SwLists, Zenon
    <3> QED BY <3>3, Zenon DEF SwBecomes
  <2>7. \A x : Duty(g, x)' <=> x \in T
    BY <2>6, Zenon DEF Duty, Listing
  <2>8. ASSUME NEW x \in T PROVE Fresh(x)' /\ Foreign(g, x)'
    <3>1. Fresh(x)'
      BY <2>1, <2>4, Zenon DEF Fresh, Moves
    <3>2. ASSUME x.w = st[g].w PROVE T = {x}
      <4>1. st[g].pc \in Flight
        BY <2>2, <2>4, <3>2, <1>OwnIsMine, Zenon DEF Solo
      <4>2. \A y \in T : y.w = st[g].w
        <5> SUFFICES ASSUME NEW y \in T PROVE y.w = st[g].w
          BY Zenon
        <5>1. y.c \in Clients /\ Pending(client[y.c]) /\ y = client[y.c]
          BY <2>4, Zenon
        <5>2. client[y.c].w = st[g].w
          BY <4>1, <5>1, Zenon DEF Solo, Owes
        <5> QED BY <5>1, <5>2, Zenon
      <4> QED BY <2>5, <3>2, <4>2, Zenon
    <3>3. Foreign(g, x)'
      BY <2>1, <2>6, <3>2, Zenon DEF Foreign, Moves
    <3> QED BY <3>1, <3>3, Zenon
  <2>9. Duties(g)'
    BY <2>5, <2>6, <2>7, <2>8, Zenon DEF Duties
  <2>10. Writes(g)'
    BY <2>1, <2>2, Zenon DEF Writes
  <2>11. sw'[g].pc \notin {"dir", "unownedLive"}
    BY <2>6, Zenon
  <2> QED BY <2>1, <2>9, <2>10, <2>11, <1>SweepTurnsSolo, Zenon
\* The sweep keeps some of the records it holds.
<1>FewerDuties. ASSUME NEW g \in Gateways, Duties(g), Moves(g),
             \A x \in Record : Duty(g, x)' => Duty(g, x) /\ Foreign(g, x)',
             sw'[g].pc = "stop" => sw'[g].rec \notin sw'[g].todo
      PROVE  Duties(g)'
  <2> USE <1>FewerDuties
  <2>1. \A x \in Record : Fresh(x)' <=> Fresh(x)
    BY Zenon DEF Fresh, Moves
  <2> QED BY <2>1, Zenon DEF Duties
<1>SweepPendingIsSolo. ASSUME IInv, NEW g \in Gateways, Solo(g), SweepPending(g)
      PROVE  Solo(g)'
  <2> USE <1>SweepPendingIsSolo
  <2>1. SwAt(g, "pending") /\ {"pending", "compact", "stop"} \subseteq SweepLabel /\ Moves(g)
        /\ jobs' = jobs /\ wr' = wr
    BY Zenon DEF SweepPending, SweepLabel, store, Moves
  <2>2. /\ Types /\ sw[g].pc = "pending" /\ wr[g] = None /\ st[g].pc \notin StartSync
        /\ sw[g].todo \subseteq Record /\ \A x \in sw[g].todo : Bound(x)
    BY <2>1, SweepAt, Zenon DEF Listing
  <2>3. sw[g].todo \subseteq Record \cup WorkIds \cup Clients
    BY <2>2, Zenon
  <2>4. Writes(g)'
    BY <2>1, <2>2, Zenon DEF Writes
  <2>5. \A x : Duty(g, x) <=> x \in sw[g].todo
    BY <2>2, Zenon DEF Duty, Listing
  <2>6. Duties(g)
    BY Zenon DEF Solo
  <2>7. CASE sw' = [sw EXCEPT ![g].pc = "compact"]
    <3>1. sw'[g].pc = "compact"
      BY <2>1, <2>2, <2>7, SwGoes, Zenon DEF SwGoto
    <3>2. sw'[g].pc \notin Listing \cup {"dirStop", "dir", "unownedLive"}
      BY <3>1, Zenon DEF Listing
    <3> QED BY <2>1, <2>2, <3>2, <1>SweepGoesSolo, Zenon DEF Pens
  <2>8. CASE \E x \in sw[g].todo : sw' = [sw EXCEPT ![g].todo = @ \ {x}]
    <3>1. PICK x \in sw[g].todo : sw' = [sw EXCEPT ![g].todo = sw[g].todo \ {x}]
      BY <2>8, Zenon
    <3>2. SwBecomes(g, sw[g].pc, sw[g].todo \ {x}, sw[g].rec)
      BY <2>2, <2>3, <3>1, SwDrops, Zenon
    <3>3. sw'[g].pc = "pending" /\ sw'[g].todo = sw[g].todo \ {x}
      BY <2>2, <3>2, Zenon DEF SwBecomes
    <3>4. \A y : Duty(g, y)' <=> y \in sw[g].todo \ {x}
      BY <3>3, Zenon DEF Duty, Listing
    <3>5. \A y \in Record : Duty(g, y)' => Foreign(g, y)'
      <4> SUFFICES ASSUME NEW y \in Record, y \in sw[g].todo \ {x} PROVE Foreign(g, y)'
        BY <3>4, Zenon
      <4>1. Foreign(g, y) /\ sw[g].todo # {y}
        BY <2>5, <2>6, Zenon DEF Duties
      <4> QED BY <2>1, <4>1, Zenon DEF Foreign, Moves
    <3>6. Duties(g)'
      BY <2>1, <2>5, <2>6, <3>3, <3>4, <3>5, <1>FewerDuties, Zenon
    <3>7. sw'[g].pc \notin {"dir", "unownedLive"}
      BY <3>3, Zenon
    <3> QED BY <2>1, <2>4, <3>6, <3>7, <1>SweepTurnsSolo, Zenon
  <2>9. CASE \E x \in sw[g].todo :
                /\ ~(x.status = "running" /\ ~Held(g, x.w) /\ (Mine(g, x.w) \/ Live(x.w)))
                /\ sw' = [sw EXCEPT ![g].pc = "stop", ![g].todo = @ \ {x}, ![g].rec = x]
    <3>1. PICK x \in sw[g].todo :
                /\ x.status = "running" => Held(g, x.w) \/ ~Mine(g, x.w)
                /\ sw' = [sw EXCEPT ![g].pc = "stop", ![g].todo = sw[g].todo \ {x}, ![g].rec = x]
      BY <2>9, Zenon
    <3>2. SwBecomes(g, "stop", sw[g].todo \ {x}, x)
      <4>1. sw[g].todo \ {x} \in SUBSET (Record \cup WorkIds \cup Clients) /\ x \in Record \cup {None}
        BY <2>2, <2>3, Zenon
      <4> QED BY <2>1, <2>2, <3>1, <4>1, SwTakes, Zenon
    <3>3. sw'[g].pc = "stop" /\ sw'[g].todo = sw[g].todo \ {x} /\ sw'[g].rec = x
      BY <3>2, Zenon DEF SwBecomes
    <3>4. \A y : Duty(g, y)' => y \in sw[g].todo
      BY <3>3, Zenon DEF Duty, Listing
    <3>5. \A y \in Record : Duty(g, y)' => Foreign(g, y)'
      <4> SUFFICES ASSUME NEW y \in Record, y \in sw[g].todo, y.status = "running", y.w = st[g].w,
                          st[g].pc # "held"
                   PROVE  FALSE
        BY <2>1, <3>4, Zenon DEF Foreign, Moves
      <4>1. sw[g].todo = {y}
        BY <2>2, <2>5, <2>6, Zenon DEF Duties, Foreign
      <4>2. x = y /\ ~Held(g, x.w)
        BY <4>1, Zenon DEF Held
      <4>3. Mine(g, y.w)
        BY <2>2, <1>OwnIsMine, RecordFacts, Zenon DEF Solo
      <4> QED BY <3>1, <4>2, <4>3, Zenon
    <3>6. Duties(g)'
      BY <2>1, <2>5, <2>6, <3>3, <3>4, <3>5, <1>FewerDuties, Zenon
    <3>7. sw'[g].pc \notin {"dir", "unownedLive"}
      BY <3>3, Zenon
    <3> QED BY <2>1, <2>4, <3>6, <3>7, <1>SweepTurnsSolo, Zenon
  <2> QED BY <2>7, <2>8, <2>9, Zenon DEF SweepPending
\* The record written back is no longer one of those the sweep holds.
<1>SweepStopIsSolo. ASSUME IInv, NEW g \in Gateways, Solo(g), SweepStop(g)
      PROVE  Solo(g)'
  <2> USE <1>SweepStopIsSolo
  <2>1. SwAt(g, "stop") /\ {"stop", "releaseNext", "again"} \subseteq SweepLabel
        /\ UNCHANGED <<client, old, jobs>>
    BY Zenon DEF SweepStop, SweepLabel, store
  <2>2. Types /\ sw[g].pc = "stop" /\ sw[g].rec \in Record
    BY <2>1, SweepAt, Zenon DEF Handling
  <2>3. CASE StopFails(g)
    BY <2>1, <2>3, <1>FailsSolo, Zenon DEF StopFails
  <2>4. CASE ~StopFails(g)
    <3>1. PICK x \in Record : x = sw[g].rec
      BY <2>2, Zenon
    <3>2. PICK r \in Record : r = [x EXCEPT !.pending = FALSE] /\ r.w = x.w /\ ~r.pending
      BY Variants, Zenon
    <3>3. StopUnit(x.w) /\ (st' = st \/ st' = [st EXCEPT ![g].absent = TRUE]) /\ Persist(g, r)
      BY <2>4, <3>1, <3>2, Zenon DEF SweepStop
    <3>4. PICK m \in {"releaseNext", "again"} :
             sw' = [sw EXCEPT ![g].rec = None, ![g].seen = sw[g].seen \cup {x.w}, ![g].pc = m]
      BY <2>4, <3>1, Zenon DEF SweepStop
    <3>5. sw[g].seen \cup {x.w} \in SUBSET WorkIds
      <4>1. x.w \in WorkIds
        BY <3>1, RecordFacts, Zenon
      <4> QED BY <2>2, <4>1, Zenon DEF Types, SweepState
    <3>6. sw'[g].pc = m /\ sw'[g].todo = sw[g].todo
      <4>1. m \in SweepLabel /\ None \in Record \cup {None}
        BY <2>1, Zenon
      <4>2. SwBecomes(g, m, sw[g].todo, None)
        BY <2>2, <3>4, <3>5, <4>1, SwStops, Zenon
      <4> QED BY <4>2, Zenon DEF SwBecomes
    <3>7. Moves(g)
      <4>1. st'[g].pc = st[g].pc /\ st'[g].w = st[g].w
        BY <2>2, <3>3, StTypes, StNotes, Zenon DEF StBecomes
      <4> QED BY <2>1, <3>3, <4>1, Zenon DEF Moves, StopUnit
    <3>8. \A y : (Duty(g, y)' <=> y \in sw[g].todo) /\ (Duty(g, y) <=> y \in sw[g].todo \/ y = x)
      BY <2>2, <3>1, <3>6, Zenon DEF Duty, Listing
    <3>9. Duties(g) /\ x \notin sw[g].todo
      BY <2>2, <3>1, Zenon DEF Solo, Duties
    <3>10. Duties(g)'
      <4>1. \A y \in Record : Duty(g, y)' => Duty(g, y) /\ Foreign(g, y)'
        <5> SUFFICES ASSUME NEW y \in Record, y \in sw[g].todo PROVE Foreign(g, y)'
          BY <3>8, Zenon
        <5>1. Foreign(g, y)
          BY <3>8, <3>9, Zenon DEF Duties
        <5> QED BY <2>2, <3>7, <5>1, Zenon DEF Foreign, Moves
      <4> QED BY <3>6, <3>7, <3>9, <4>1, <1>FewerDuties, Zenon
    <3>11. Writes(g)'
      <4>1. \A y \in Record : Duty(g, y)' => y.w # r.w
        BY <3>2, <3>8, <3>9, Zenon DEF Duties
      <4>2. Gentle(r)
        BY <3>2, <3>8, <1>HandDuty, Zenon
      <4>3. May(g, r)'
        BY <3>2, <3>7, <4>1, <4>2, Zenon DEF May, Gentle, Moves
      <4> QED BY <2>2, <3>3, <4>3, Persists, Zenon DEF Writes
    <3>12. sw'[g].pc \notin {"dir", "unownedLive"}
      BY <3>6, Zenon
    <3> QED BY <2>1, <3>7, <3>10, <3>11, <3>12, <1>SweepTurnsSolo, Zenon
  <2> QED BY <2>3, <2>4, Zenon
<1>SweepNextIsSolo. ASSUME IInv, NEW g \in Gateways, Solo(g), SweepNext(g)
      PROVE  Solo(g)'
  <2> USE <1>SweepNextIsSolo
  <2>1. SwAt(g, "again") /\ {"again", "pending"} \subseteq SweepLabel /\ Moves(g) /\ jobs' = jobs /\ wr' = wr
    BY Zenon DEF SweepNext, SweepLabel, store, Moves
  <2>2. Types /\ sw[g].pc = "again" /\ wr[g] = None
    BY <2>1, SweepAt, Zenon
  <2>3. sw'[g].pc = "pending" /\ sw'[g].todo = sw[g].todo
    BY <2>1, <2>2, SwGoes, Zenon DEF SweepNext
  <2>4. \A y : Duty(g, y)' <=> Duty(g, y)
    BY <2>2, <2>3, Zenon DEF Duty, Listing
  <2>5. Duties(g)
    BY Zenon DEF Solo
  <2>6. \A y \in Record : Duty(g, y) => Foreign(g, y)'
    <3>1. \A y \in Record : Duty(g, y) => Foreign(g, y)
      BY <2>5, Zenon DEF Duties
    <3> QED BY <2>1, <2>2, <3>1, Zenon DEF Foreign, Moves
  <2>7. Duties(g)'
    BY <2>1, <2>3, <2>4, <2>5, <2>6, <1>FewerDuties, Zenon
  <2>8. Writes(g)'
    BY <2>1, <2>2, Zenon DEF Writes
  <2>9. sw'[g].pc \notin {"dir", "unownedLive"}
    BY <2>3, Zenon
  <2> QED BY <2>1, <2>7, <2>8, <2>9, <1>SweepTurnsSolo, Zenon
<1>SweepReleaseIsSolo. ASSUME IInv, NEW g \in Gateways, Solo(g),
             SweepRelease(g, "release", "list") \/ SweepRelease(g, "releaseNext", "again")
      PROVE  Solo(g)'
  <2> USE <1>SweepReleaseIsSolo
  <2>1. PICK l, m : SweepRelease(g, l, m) /\ <<l, m>> \in {<<"release", "list">>, <<"releaseNext", "again">>}
    BY Zenon
  <2>2. /\ l \in {"release", "releaseNext"} /\ m \in {"list", "again"} /\ (m = "again" => l = "releaseNext")
        /\ l \in SweepLabel /\ m \in SweepLabel
    BY <2>1, Zenon DEF SweepLabel
  <2>3. SwAt(g, l) /\ UNCHANGED <<client, old, jobs, units, wr>>
    BY <2>1, Zenon DEF SweepRelease, store
  <2>4. Types /\ sw[g].pc = l /\ wr[g] = None
    BY <2>2, <2>3, SweepAt, Zenon
  <2>5. CASE sw' = [sw EXCEPT ![g] = Asleep] /\ st' = st
    BY <2>2, <2>3, <2>5, <1>FailsSolo, Zenon
  <2>6. CASE st' = [st EXCEPT ![g] = Idle] /\ SwGoto(g, m)
    <3>1. st'[g].pc = "idle" /\ st'[g].w = 0
      BY <2>4, <2>6, StTypes, StIdles, Zenon DEF StBecomes
    <3>2. sw'[g].pc = m /\ sw'[g].todo = sw[g].todo
      BY <2>2, <2>4, <2>6, SwGoes, Zenon
    <3>3. Owes(g)' /\ Lasts(g)'
      BY <3>1, Zenon DEF Owes, Lasts, Before, During, Flight, Started
    <3>4. Reads(g)' /\ Writes(g)'
      BY <2>2, <2>3, <2>4, <3>2, Zenon DEF Reads, Writes
    <3>5. Duties(g)'
      <4>1. CASE m = "list"
        BY <3>2, <4>1, NoDuty, Zenon DEF Listing
      <4>2. CASE m = "again"
        <5>1. \A y : Duty(g, y)' <=> Duty(g, y)
          BY <2>2, <2>4, <3>2, <4>2, Zenon DEF Duty, Listing
        <5>2. ASSUME NEW y \in Record, Duty(g, y) PROVE Fresh(y)' /\ Foreign(g, y)'
          <6>1. Fresh(y) /\ y.w \in WorkIds
            BY <5>2, RecordFacts, Zenon DEF Solo, Duties
          <6>2. Foreign(g, y)'
            BY <3>1, <6>1, CodeLoopAssumption DEF Foreign, WorkIds
          <6>3. Fresh(y)'
            BY <2>3, <6>1, Zenon DEF Fresh
          <6> QED BY <6>2, <6>3, Zenon
        <5>3. \A x, y \in Record : Duty(g, x) /\ Duty(g, y) /\ x.w = y.w => x = y
          BY Zenon DEF Solo, Duties
        <5>4. sw'[g].pc # "stop"
          BY <3>2, <4>2, Zenon
        <5> QED BY <5>1, <5>2, <5>3, <5>4, Zenon DEF Duties
      <4> QED BY <2>2, <4>1, <4>2, Zenon
    <3> QED BY <3>3, <3>4, <3>5, Zenon DEF Solo
  <2> QED BY <2>1, <2>5, <2>6, Zenon DEF SweepRelease
<1>RetryIsSolo. ASSUME IInv, NEW g \in Gateways, Solo(g), NEW c \in Clients, Retry(g, c)
      PROVE  Solo(g)'
  <2> USE <1>RetryIsSolo
  <2>1. /\ Free(g) /\ Running(client[c]) /\ UNCHANGED <<client, old, jobs, units, st, sw>>
        /\ Types /\ Records
    BY Zenon DEF Retry, store, IInv
  <2>2. PICK x \in Record : x = client[c] /\ x = client[x.c] /\ x.status = "running"
    BY <2>1, OnDisk, Zenon DEF Running
  <2>3. PICK r \in Record : r = [x EXCEPT !.status = "orphaned", !.result = FALSE] /\ r.status = "orphaned"
    <3>1. /\ [x EXCEPT !.status = "orphaned", !.result = FALSE] \in Record
          /\ [x EXCEPT !.status = "orphaned", !.result = FALSE].status = "orphaned"
      BY Variants, Zenon
    <3> QED BY <3>1, Zenon
  <2>4. Gentle(r)
    <3>1. x.status # "terminal"
      BY <2>2, Zenon
    <3> QED BY <2>2, <2>3, <3>1, <1>GentleVariants, Zenon
  <2>5. Persist(g, r)
    BY <2>2, <2>3, Zenon DEF Retry
  <2>6. May(g, r)'
    BY <2>1, <2>3, <2>4, Zenon DEF May, Gentle
  <2>7. Writes(g)'
    BY <2>1, <2>5, <2>6, Persists, Zenon DEF Writes
  <2>8. Duties(g)'
    BY <2>1, SameDuty, Zenon DEF Solo
  <2>9. Reads(g)'
    BY <2>1, Zenon DEF Reads, Free, SweepSync
  <2>10. st[g].pc # "publish" /\ (st[g].pc \in Started \ {"index", "held"} => jobs'[g][st[g].w] # "none")
    BY <2>1, Zenon DEF Free, StartSync, Solo, Lasts
  <2> QED BY <2>1, <2>7, <2>8, <2>9, <2>10, SweepIsSolo, Zenon
<1>FailClosedIsSolo. ASSUME IInv, NEW g \in Gateways, Solo(g), NEW c \in Clients, FailClosed(g, c)
      PROVE  Solo(g)'
  <2> USE <1>FailClosedIsSolo
  <2>1. /\ Free(g) /\ UNCHANGED <<client, old, jobs, units, st, sw>>
        /\ Types /\ Records
    BY Zenon DEF FailClosed, store, IInv
  <2>2. PICK x \in Record : x = client[c] /\ x = client[x.c] /\ x.w \in Outdated
    BY <2>1, OnDisk, Zenon DEF FailClosed
  <2>3. PICK r \in Record : r = [x EXCEPT !.result = FALSE] /\ r.status = x.status /\ ~r.result /\ r.c = x.c
    <3>1. /\ [x EXCEPT !.result = FALSE] \in Record /\ [x EXCEPT !.result = FALSE].status = x.status
          /\ [x EXCEPT !.result = FALSE].c = x.c
      BY Variants, Zenon
    <3>2. [x EXCEPT !.result = FALSE].result = FALSE
      BY DEF Record
    <3> QED BY <3>1, <3>2, Zenon
  <2>4. Gentle(r)
    BY <2>2, <2>3, <1>GentleVariants, Zenon
  <2>5. Persist(g, r)
    BY <2>2, <2>3, Zenon DEF FailClosed
  <2>6. May(g, r)'
    <3>1. client'[r.c] = x /\ client[r.c] = x
      BY <2>1, <2>2, <2>3, Zenon
    <3> QED BY <2>1, <2>3, <2>4, <3>1, Zenon DEF May, Gentle
  <2>7. Writes(g)'
    BY <2>1, <2>5, <2>6, Persists, Zenon DEF Writes
  <2>8. Duties(g)'
    BY <2>1, SameDuty, Zenon DEF Solo
  <2>9. Reads(g)'
    BY <2>1, Zenon DEF Reads, Free, SweepSync
  <2>10. st[g].pc # "publish" /\ (st[g].pc \in Started \ {"index", "held"} => jobs'[g][st[g].w] # "none")
    BY <2>1, Zenon DEF Free, StartSync, Solo, Lasts
  <2> QED BY <2>1, <2>7, <2>8, <2>9, <2>10, SweepIsSolo, Zenon
\* Replacing the record of a client.
<1>ReplaceClientIsSolo. ASSUME IInv, NEW g \in Gateways, Solo(g), ReplaceClient(g)
      PROVE  Solo(g)'
  <2> USE <1>ReplaceClientIsSolo
  <2>1. wr[g] # None /\ wr[g].to = "client" /\ UNCHANGED <<old, jobs, units, st, sw>> /\ Types /\ Records
        /\ Place(g)
    BY Zenon DEF ReplaceClient, IInv
  <2>2. PICK r \in Record : r = wr[g].rec
    BY <2>1, RecordFacts, Zenon DEF Types
  <2>3. May(g, r) /\ Bound(r) /\ r.c \in Clients
    BY <2>1, <2>2, RecordFacts, Zenon DEF Solo, Writes, Records, InMemory
  <2>4. client'[r.c] = r /\ \A d \in Clients : d # r.c => client'[d] = client[d]
    BY <2>1, <2>2, <2>3, OtherFiles, Zenon DEF ReplaceClient
  <2>5. wr'[g].to = "copy"
    <3>1. wr[g] \in Write /\ wr \in [Gateways -> Write \cup {None}]
      BY <2>1, RecordFacts, Zenon DEF Types
    <3>2. wr' = [wr EXCEPT ![g].to = "copy"]
      BY Zenon DEF ReplaceClient
    <3> QED BY <3>1, <3>2, Zenon DEF Write
  <2>6. \A y : Duty(g, y)' <=> Duty(g, y)
    BY <2>1, Zenon DEF Duty
  <2>7. ASSUME NEW y \in Record, Duty(g, y) PROVE Fresh(y)' /\ Foreign(g, y)'
    <3>1. Fresh(y) /\ Foreign(g, y) /\ Bound(y) /\ y.c \in Clients
      BY <2>7, DutyFacts, Zenon DEF Solo, Duties
    <3>2. Foreign(g, y)'
      BY <2>1, <3>1, Zenon DEF Foreign
    <3>3. CASE y.c # r.c
      <4>1. client'[y.c] = client[y.c]
        BY <2>4, <3>1, <3>3, Zenon
      <4>2. Fresh(y)'
        BY <2>1, <3>1, <4>1, Zenon DEF Fresh
      <4> QED BY <3>2, <4>2, Zenon
    <3>4. CASE y.c = r.c
      <4>1. y.w = r.w
        BY <2>3, <3>1, <3>4, Zenon DEF Bound
      <4> QED BY <2>1, <2>3, <2>4, <2>7, <3>1, <3>2, <3>4, <4>1, Zenon DEF Fresh, May, Bound
    <3> QED BY <3>2, <3>3, <3>4, Zenon
  <2>8. Duties(g)'
    <3>1. \A x, y \in Record : Duty(g, x) /\ Duty(g, y) /\ x.w = y.w => x = y
      BY Zenon DEF Solo, Duties
    <3>2. sw'[g].pc = "stop" => sw'[g].rec \notin sw'[g].todo
      BY <2>1, Zenon DEF Solo, Duties
    <3> QED BY <2>6, <2>7, <3>1, <3>2, Zenon DEF Duties
  <2>9. Owes(g)'
    <3>1. ASSUME st[g].pc \in Flight, NEW c \in Clients, Pending(client'[c]) PROVE client'[c].w = st[g].w
      <4>1. CASE c # r.c
        BY <2>4, <3>1, <4>1, Zenon DEF Solo, Owes
      <4>2. CASE c = r.c
        <5>1. r.pending => Pending(client[r.c]) \/ r.w = st[g].w
          BY <2>3, Zenon DEF May, Pending, Bound
        <5>2. Pending(client[r.c]) => client[r.c].w = st[g].w
          BY <2>3, <3>1, Zenon DEF Solo, Owes
        <5> QED BY <2>3, <2>4, <3>1, <4>2, <5>1, <5>2, Zenon DEF Bound, Pending
      <4> QED BY <4>1, <4>2, Zenon
    <3> QED BY <2>1, <3>1, Zenon DEF Solo, Owes
  <2>10. st[g].pc # "publish"
    BY <2>1, Zenon DEF Place, StartSync
  <2>11. Lasts(g)'
    BY <2>1, <2>10, Zenon DEF Solo, Lasts
  <2>12. Reads(g)' /\ Writes(g)'
    BY <2>1, <2>5, Zenon DEF Solo, Reads, Writes
  <2> QED BY <2>8, <2>9, <2>11, <2>12, Zenon DEF Solo
<1>ReplaceCopyIsSolo. ASSUME IInv, NEW g \in Gateways, Solo(g), ReplaceCopy(g)
      PROVE  Solo(g)'
  <2> USE <1>ReplaceCopyIsSolo
  <2>1. wr[g] # None /\ UNCHANGED <<client, old, jobs, units, st, sw>> /\ Types /\ Place(g)
    BY Zenon DEF ReplaceCopy, IInv
  <2>2. wr'[g] = None
    BY <2>1, Zenon DEF ReplaceCopy, Types
  <2>3. Duties(g)'
    BY <2>1, SameDuty, Zenon DEF Solo
  <2>4. Reads(g)' /\ Writes(g)'
    BY <2>1, <2>2, Zenon DEF Solo, Reads, Writes
  <2>5. st[g].pc # "publish" /\ (st[g].pc \in Started \ {"index", "held"} => jobs'[g][st[g].w] # "none")
    BY <2>1, Zenon DEF Place, StartSync, Solo, Lasts
  <2> QED BY <2>1, <2>3, <2>4, <2>5, SweepIsSolo, Zenon
<1> QED BY <1>SweepMovesSolo, <1>SweepHoldIsSolo, <1>SweepReleaseIsSolo, <1>SweepListIsSolo,
    <1>SweepPendingIsSolo, <1>SweepStopIsSolo, <1>SweepNextIsSolo, <1>SweepCompactIsSolo, <1>SweepDirsIsSolo,
    <1>SweepDirIsSolo, <1>SweepDirStopIsSolo, <1>SweepMarkIsSolo, <1>SweepReclaimIsSolo, <1>SweepUnownedIsSolo,
    <1>SweepUnownedLiveIsSolo, <1>RetryIsSolo, <1>FailClosedIsSolo, <1>ReplaceClientIsSolo, <1>ReplaceCopyIsSolo, Zenon
    DEF SweepStep, WriteStep

\* Every step keeps SInv.
LEMMA NextSolo ==
    ASSUME ~Rolling
    PROVE  IInv /\ IInv' /\ SInv /\ [Next]_vars => SInv'
\* A unit ends, time passes, or nothing happens.
<1>WorldIsSolo. ASSUME NEW g \in Gateways, Solo(g), UNCHANGED <<client, st, sw, jobs, wr>>,
             units' \subseteq units, old \subseteq old',
             st[g].pc \notin {"idle", "held"} => st[g].w \notin old'
      PROVE  Solo(g)'
  <2> USE <1>WorldIsSolo
  <2>1. \A y : (Duty(g, y)' <=> Duty(g, y)) /\ (Fresh(y) => Fresh(y)') /\ (Foreign(g, y)' <=> Foreign(g, y))
    BY Zenon DEF Duty, Fresh, Foreign
  <2>2. Duties(g)'
    BY <2>1, Zenon DEF Solo, Duties
  <2>3. Owes(g)' /\ Reads(g)'
    BY Zenon DEF Solo, Owes, Reads
  <2>4. Lasts(g)'
    BY Zenon DEF Solo, Lasts, InMemory
  <2>5. Writes(g)'
    <3>1. \A r : May(g, r) => May(g, r)'
      BY <2>1, Zenon DEF May
    <3> QED BY <3>1, Zenon DEF Solo, Writes
  <2> QED BY <2>2, <2>3, <2>4, <2>5, Zenon DEF Solo
<1>ActsAlone. ASSUME NEW g \in Gateways, Acts(g)
      PROVE  alive[g] /\ alive' = alive /\ old' = old
  <2> USE <1>ActsAlone
  <2>1. ASSUME NEW c \in Clients, Retry(g, c) \/ FailClosed(g, c) \/ Start(g, c) PROVE alive[g] /\ alive' = alive /\ old' = old
    BY <2>1, Zenon DEF Retry, FailClosed, Start, Free, StAt
  <2>2. CASE StartStep(g)
    BY <2>2, Zenon DEF StartStep, Admit, Acquire, Refuse, Claim, Fill, Index, Backout, EngineStart, EngineEnd,
       CheckEnd, CleanupUnit, Harvest, Finalize, Publish, Settle, StAt
  <2>3. CASE SweepStep(g)
    BY <2>3, Zenon DEF SweepStep, SweepStart, SweepHold, SweepRelease, SweepList, SweepPending, SweepStop,
       SweepNext, SweepCompact, SweepDirs, SweepDir, SweepDirStop, SweepOrphan, SweepOrphanStop, SweepMark,
       SweepReclaim, SweepUnowned, SweepUnownedLive, SwAt
  <2>4. CASE WriteStep(g)
    BY <2>4, Zenon DEF WriteStep, ReplaceClient, ReplaceCopy
  <2> QED BY <2>1, <2>2, <2>3, <2>4, Zenon DEF Acts
\* Only two of its steps start a unit, and only one mints a work id.
<1>ActsOnUnits. ASSUME NEW g \in Gateways, Acts(g)
      PROVE  units' \subseteq units \/ EngineStart(g) \/ Harvest(g)
  <2> USE <1>ActsOnUnits
  <2>1. ASSUME NEW c \in Clients, Retry(g, c) \/ FailClosed(g, c) \/ Start(g, c) PROVE units' = units
    BY <2>1, Zenon DEF Retry, FailClosed, Start
  <2>2. ASSUME StartStep(g), ~EngineStart(g), ~Harvest(g) PROVE units' \subseteq units
    BY <2>2, Zenon DEF StartStep, Admit, Acquire, Refuse, Claim, Fill, Index, Backout, EngineEnd, CheckEnd,
       CleanupUnit, Finalize, Publish, Settle
  <2>3. CASE SweepStep(g)
    <3>1. units' = units \/ \E w : units' = units \ {w}
      BY <2>3, Zenon DEF SweepStep, SweepStart, SweepHold, SweepRelease, SweepList, SweepPending, SweepStop,
         SweepNext, SweepCompact, SweepDirs, SweepDir, SweepDirStop, SweepOrphan, SweepOrphanStop, SweepMark,
         SweepReclaim, SweepUnowned, SweepUnownedLive, StopUnit, StopFails
    <3> QED BY <3>1, Zenon
  <2>4. CASE WriteStep(g)
    BY <2>4, Zenon DEF WriteStep, ReplaceClient, ReplaceCopy
  <2> QED BY <2>1, <2>2, <2>3, <2>4, Zenon DEF Acts
<1>ActsOnIds. ASSUME NEW g \in Gateways, Acts(g)
      PROVE  minted' = minted \/ minted' = minted + 1
  <2> USE <1>ActsOnIds
  <2>1. ASSUME NEW c \in Clients, Retry(g, c) \/ FailClosed(g, c) \/ Start(g, c) PROVE minted' = minted
    BY <2>1, Zenon DEF Retry, FailClosed, Start
  <2>2. CASE StartStep(g)
    BY <2>2, Zenon DEF StartStep, Admit, Acquire, Refuse, Claim, Fill, Index, Backout, EngineStart, EngineEnd,
       CheckEnd, CleanupUnit, Harvest, Finalize, Publish, Settle
  <2>3. CASE SweepStep(g)
    BY <2>3, Zenon DEF SweepStep, SweepStart, SweepHold, SweepRelease, SweepList, SweepPending, SweepStop,
       SweepNext, SweepCompact, SweepDirs, SweepDir, SweepDirStop, SweepOrphan, SweepOrphanStop, SweepMark,
       SweepReclaim, SweepUnowned, SweepUnownedLive
  <2>4. CASE WriteStep(g)
    BY <2>4, Zenon DEF WriteStep, ReplaceClient, ReplaceCopy
  <2> QED BY <2>1, <2>2, <2>3, <2>4, Zenon DEF Acts
\* A gateway that is down.
<1>DownStays. ASSUME IInv', NEW h \in Gateways, ~alive'[h]
      PROVE  Solo(h)'
  <2> USE <1>DownStays
  <2>1. st'[h] = Idle /\ sw'[h] = Asleep /\ wr'[h] = None
    BY Zenon DEF IInv, Place
  <2> QED BY <2>1, Initial, DownIsSolo, Zenon
<1>ActsSolo. ASSUME IInv, IInv', SInv, ~Rolling, NEW g \in Gateways, Acts(g)
      PROVE  SInv'
  <2> USE <1>ActsSolo
  <2>1. alive[g] /\ alive' = alive /\ old' = old /\ Solo(g) /\ old \subseteq 1..minted /\ Types
    BY <1>ActsAlone, Zenon DEF SInv, IInv
  <2>2. Solo(g)'
    BY <2>1, StartStepIsSolo, SweepStepIsSolo, Zenon DEF Acts
  <2>3. \A h \in Gateways : h # g => ~alive'[h]
    BY <2>1, Zenon DEF IInv, Alone
  <2>4. \A h \in Gateways : Solo(h)'
    BY <2>2, <2>3, <1>DownStays, Zenon
  <2>5. old' \subseteq 1..minted'
    <3>1. minted \in Nat /\ (minted' = minted \/ minted' = minted + 1)
      BY <2>1, <1>ActsOnIds DEF Types
    <3> QED BY <2>1, <3>1
  <2>6. \A v, w \in units' : v = w
    <3>1. CASE units' \subseteq units
      BY <3>1, Zenon DEF SInv
    <3>2. CASE (EngineStart(g) \/ Harvest(g)) /\ ~(units' \subseteq units)
      <4>1. st'[g].pc \in {"engine", "check"}
        <5>1. "engine" \in StartLabel /\ "check" \in StartLabel
          BY Zenon DEF StartLabel
        <5>2. StGoto(g, "engine") \/ StGoto(g, "check")
          BY <3>2, Zenon DEF EngineStart, Harvest
        <5>3. st'[g].pc = "engine" \/ st'[g].pc = "check"
          BY <2>1, <5>1, <5>2, StTypes, StMovesOn, Zenon DEF StBecomes
        <5> QED BY <5>3, Zenon
      <4>2. units' \subseteq {st'[g].w}
        BY <2>2, <4>1, Zenon DEF Solo, Owes, During
      <4> QED BY <4>2, Zenon
    <3> QED BY <3>1, <3>2, <1>ActsOnUnits, Zenon
  <2> QED BY <2>4, <2>5, <2>6, Zenon DEF SInv
<1>OutsideSolo. ASSUME IInv, IInv', SInv, ~Rolling,
             \/ \E g \in Gateways : Boot(g) \/ Crash(g)
             \/ \E w \in WorkIds : UnitExit(w) \/ Expire(w)
             \/ UNCHANGED vars
      PROVE  SInv'
  <2> USE <1>OutsideSolo
  <2>1. CASE \E g \in Gateways : Boot(g) \/ Crash(g)
    <3>1. PICK g \in Gateways : Boot(g) \/ Crash(g)
      BY <2>1, Zenon
    <3>2. old' = old /\ units' = units /\ minted' = minted /\ Types
      BY <3>1, Zenon DEF Boot, Crash, IInv
    <3>3. \A h \in Gateways : Solo(h)'
      <4>1. CASE Boot(g)
        <5>1. UNCHANGED <<st, sw, wr>> /\ alive'[g] /\ ~alive[g]
          BY <3>2, <4>1, Zenon DEF Boot, Types
        <5>2. Solo(g)'
          <6>1. st[g] = Idle /\ sw[g] = Asleep /\ wr[g] = None
            BY <5>1, Zenon DEF IInv, Place
          <6> QED BY <5>1, <6>1, Initial, DownIsSolo, Zenon
        <5>3. \A h \in Gateways : h # g => ~alive'[h]
          BY <5>1, Zenon DEF IInv, Alone
        <5> QED BY <5>2, <5>3, <1>DownStays, Zenon
      <4>2. CASE Crash(g)
        <5>1. alive[g] /\ alive' = [alive EXCEPT ![g] = FALSE]
          BY <4>2, Zenon DEF Crash
        <5>2. \A h \in Gateways : h # g => ~alive[h]
          BY <5>1, Zenon DEF IInv, Alone
        <5>3. \A h \in Gateways : ~alive'[h]
          BY <3>2, <5>1, <5>2, Zenon DEF Types
        <5> QED BY <5>3, <1>DownStays, Zenon
      <4> QED BY <3>1, <4>1, <4>2, Zenon
    <3> QED BY <3>2, <3>3, Zenon DEF SInv
  <2>2. ASSUME NEW w \in WorkIds, UnitExit(w) \/ Expire(w) PROVE SInv'
    <3>1. UNCHANGED <<client, st, sw, jobs, wr, minted>> /\ units' \subseteq units
          /\ (old' = old \/ (Expire(w) /\ old' = old \cup {w}))
      BY <2>2, Zenon DEF UnitExit, Expire, store
    <3>2. old' \subseteq 1..minted' /\ old \subseteq old'
      BY <3>1, Zenon DEF SInv, Expire
    <3>3. \A g \in Gateways : st[g].pc \notin {"idle", "held"} => st[g].w \notin old'
      BY <3>1, Zenon DEF SInv, Solo, Lasts, Expire
    <3>4. \A g \in Gateways : Solo(g)'
      BY <3>1, <3>2, <3>3, <1>WorldIsSolo, Zenon DEF SInv
    <3>5. \A x, y \in units' : x = y
      BY <3>1, Zenon DEF SInv
    <3> QED BY <3>2, <3>4, <3>5, Zenon DEF SInv
  <2>3. CASE UNCHANGED vars
    <3>1. UNCHANGED <<client, st, sw, jobs, wr, minted, units, old>>
      BY <2>3, Zenon DEF vars, store
    <3>2. \A g \in Gateways : st[g].pc \notin {"idle", "held"} => st[g].w \notin old'
      BY <3>1, Zenon DEF SInv, Solo, Lasts
    <3>3. \A g \in Gateways : Solo(g)'
      BY <3>1, <3>2, <1>WorldIsSolo, Zenon DEF SInv
    <3> QED BY <3>1, <3>3, Zenon DEF SInv
  <2> QED BY <2>1, <2>2, <2>3, Zenon
<1> QED BY <1>ActsSolo, <1>OutsideSolo, Zenon DEF Next, Acts

\* The first state: no unit runs and no sweep holds a record.
LEMMA SoloAtFirst == Init => SInv
<1> SUFFICES ASSUME Init PROVE SInv
  OBVIOUS
<1>1. units = {} /\ old = {}
  BY Zenon DEF Init
<1>2. ASSUME NEW g \in Gateways PROVE Solo(g)
  <2>1. st[g].pc = "idle" /\ sw[g].pc = "idle" /\ wr[g] = None
    BY Initial, Zenon DEF Init
  <2>2. \A x : ~Duty(g, x)
    BY <2>1, Zenon DEF Duty, Listing
  <2>3. Duties(g)
    BY <2>1, <2>2, Zenon DEF Duties
  <2>4. Owes(g) /\ Lasts(g) /\ Reads(g) /\ Writes(g)
    BY <2>1, Zenon DEF Owes, Lasts, Reads, Writes, Before, During, Flight, Started
  <2> QED BY <2>3, <2>4, Zenon DEF Solo
<1> QED BY <1>1, <1>2, Zenon DEF SInv

\* SInv, the invariant of one gateway at a time, holds throughout.
THEOREM SoloInvariance ==
    ASSUME ~Rolling
    PROVE  Spec => []SInv
<1>1. Init => SInv
  BY SoloAtFirst, Zenon
<1>2. IInv /\ IInv' /\ SInv /\ [Next]_vars => SInv'
  BY NextSolo, Zenon
<1> QED BY <1>1, <1>2, Invariance, PTL DEF Spec

\* The files that a step of g may change.
LEMMA ActsOnFiles ==
    ASSUME NEW g \in Gateways, Acts(g)
    PROVE  client' = client \/ Claim(g) \/ Fill(g) \/ Index(g) \/ ReplaceClient(g)
<1>1. ASSUME NEW c \in Clients, Retry(g, c) \/ FailClosed(g, c) \/ Start(g, c) PROVE client' = client
  BY <1>1, Zenon DEF Retry, FailClosed, Start, store
<1>2. ASSUME StartStep(g), ~Claim(g), ~Fill(g), ~Index(g) PROVE client' = client
  BY <1>2, Zenon DEF StartStep, Admit, Acquire, Refuse, Backout, EngineStart, EngineEnd, CheckEnd,
     CleanupUnit, Harvest, Finalize, Publish, Settle, store
<1>3. CASE SweepStep(g)
  BY <1>3, Zenon DEF SweepStep, SweepStart, SweepHold, SweepRelease, SweepList, SweepPending, SweepStop,
     SweepNext, SweepCompact, SweepDirs, SweepDir, SweepDirStop, SweepOrphan, SweepOrphanStop, SweepMark,
     SweepReclaim, SweepUnowned, SweepUnownedLive, store
<1>4. CASE WriteStep(g)
  BY <1>4, Zenon DEF WriteStep, ReplaceCopy
<1> QED BY <1>1, <1>2, <1>3, <1>4, Zenon DEF Acts

\* Binding and unbinding touch no published record.
LEMMA StartIsFinal ==
    ASSUME IInv, NEW g \in Gateways, Claim(g) \/ Fill(g) \/ Index(g), NEW c \in Clients
    PROVE  Final(c)
<1>1. PICK l \in {"admit", "fill", "index"} :
         StAt(g, l) /\ (l = "admit" => Claim(g)) /\ (l = "fill" => Fill(g)) /\ (l = "index" => Index(g))
  BY Zenon DEF Claim, Fill, Index
<1>2. l \in StartLabel /\ l \notin {"idle", "read"}
  BY Zenon DEF StartLabel
<1>3. Types /\ Records /\ Run(g) /\ st[g].pc = l /\ st[g].c \in Clients
  BY <1>1, <1>2, RunAt, Zenon
<1>4. client' = client \/ \E v : client' = [client EXCEPT ![st[g].c] = v]
  BY Zenon DEF Claim, Fill, Index
<1>5. client' = client \/ ~IsRecord(client[st[g].c]) \/ client[st[g].c].status # "terminal"
  <2>1. CASE l = "admit"
    BY <1>1, <2>1, Zenon DEF Claim, IsRecord
  <2>2. CASE l = "fill"
    BY <1>3, <2>2, Zenon DEF Run, IsRecord
  <2>3. CASE l = "index"
    <3>1. IsRecord(client[st[g].c]) /\ client[st[g].c].w = st[g].w
      BY <1>3, <2>3, Zenon DEF Run, Started
    <3>2. Known(client[st[g].c]) /\ ~Ended(st[g].w)
      <4>1. Known(client[st[g].c])
        BY <1>3, <3>1, Zenon DEF Records
      <4>2. ~Ended(st[g].w)
        BY <1>3, <2>3, Zenon DEF Ended, Late
      <4> QED BY <4>1, <4>2, Zenon
    <3> QED BY <3>1, <3>2, Zenon DEF Known
  <2> QED BY <2>1, <2>2, <2>3, Zenon
<1>6. client'[c] = client[c] \/ c = st[g].c
  BY <1>3, <1>4, OtherFiles, Zenon
<1>7. CASE client'[c] = client[c]
  BY <1>7, Zenon DEF Final
<1>8. CASE c = st[g].c /\ ~(client' = client)
  BY <1>5, <1>8, Zenon DEF Final
<1> QED BY <1>6, <1>7, <1>8, Zenon

\* A write keeps a published outcome.
LEMMA WriteIsFinal ==
    ASSUME IInv, NEW g \in Gateways, Solo(g), ReplaceClient(g), NEW c \in Clients
    PROVE  Final(c)
<1>1. wr[g] # None /\ wr[g].to = "client" /\ Types /\ Records
  BY Zenon DEF ReplaceClient, IInv
<1>2. PICK r \in Record : r = wr[g].rec
  BY <1>1, RecordFacts, Zenon DEF Types
<1>3. May(g, r) /\ r.c \in Clients
  BY <1>1, <1>2, RecordFacts, Zenon DEF Solo, Writes
<1>4. client'[r.c] = r /\ \A d \in Clients : d # r.c => client'[d] = client[d]
  BY <1>1, <1>2, <1>3, OtherFiles, Zenon DEF ReplaceClient
<1>5. CASE c = r.c
  BY <1>3, <1>4, <1>5, Zenon DEF Final, May
<1>6. CASE c # r.c
  BY <1>4, <1>6, Zenon DEF Final
<1> QED BY <1>5, <1>6, Zenon

\* No step takes back a published outcome.
LEMMA NextIsFinal ==
    ASSUME IInv, SInv, [Next]_vars
    PROVE  \A c \in Clients : Final(c)
<1> SUFFICES ASSUME NEW c \in Clients PROVE Final(c)
  BY Zenon
<1>1. client' = client => Final(c)
  BY Zenon DEF Final
<1>2. ASSUME NEW g \in Gateways, Acts(g) PROVE Final(c)
  BY <1>1, <1>2, ActsOnFiles, StartIsFinal, WriteIsFinal, Zenon DEF SInv
<1>3. ASSUME NEW g \in Gateways, Boot(g) \/ Crash(g) PROVE client' = client
  BY <1>3, Zenon DEF Boot, Crash, store
<1>4. ASSUME NEW w \in WorkIds, UnitExit(w) \/ Expire(w) PROVE client' = client
  BY <1>4, Zenon DEF UnitExit, Expire, store
<1>5. UNCHANGED vars => client' = client
  BY Zenon DEF vars, store
<1> QED BY <1>1, <1>2, <1>3, <1>4, <1>5, Zenon DEF Next, Acts

\* With one gateway at a time, a terminal record stays terminal and keeps its
\* result until it is past the retention window or met by a build that does not accept
\* it: no sweep, retry or late write puts an older copy of the record over it.
THEOREM OutcomesStay ==
    ASSUME ~Rolling
    PROVE  Spec => TerminalIsFinal
<1>1. IInv /\ SInv /\ [Next]_vars => [\A c \in Clients : Final(c)]_vars
  BY NextIsFinal, Zenon
<1>2. (\A c \in Clients : Final(c)) =>
         \A c \in Clients :
            IsRecord(client[c]) /\ client[c].status = "terminal" =>
               /\ client'[c].status = "terminal"
               /\ client[c].result => client'[c].result \/ client[c].w \in old \cup Outdated
  BY Zenon DEF Final
<1> QED BY <1>1, <1>2, Invariance, SoloInvariance, PTL DEF Spec, TerminalIsFinal

\* A set whose members are one member: its cardinality, from its definition.
LEMMA SmallCount ==
    ASSUME NEW S, \A v, w \in S : v = w
    PROVE  Cardinality(S) <= 1
<1> DEFINE Counts(f) == f = [T \in SUBSET S |-> IF T = {} THEN 0 ELSE 1 + f[T \ {CHOOSE x : x \in T}]]
<1>1. \A T \in SUBSET S : T # {} => T \ {CHOOSE x : x \in T} = {}
  <2> TAKE T \in SUBSET S
  <2> HAVE T # {}
  <2>1. (CHOOSE x : x \in T) \in T
    OBVIOUS
  <2> QED BY <2>1, Zenon
<1>2. \E f : Counts(f)
  <2> DEFINE F == [T \in SUBSET S |-> IF T = {} THEN 0 ELSE 1]
  <2>1. \A T \in SUBSET S : F[T] = IF T = {} THEN 0 ELSE 1 + F[T \ {CHOOSE x : x \in T}]
    BY <1>1
  <2>2. Counts(F)
    BY <2>1, Zenon
  <2> QED BY <2>2, Zenon
<1>3. PICK f : Counts(f) /\ Cardinality(S) = f[S]
  <2>1. Cardinality(S) = (CHOOSE f : Counts(f))[S]
    BY Zenon DEF Cardinality
  <2>2. Counts(CHOOSE f : Counts(f))
    BY <1>2, Zenon
  <2> QED BY <2>1, <2>2, Zenon
<1>4. \A T \in SUBSET S : f[T] = IF T = {} THEN 0 ELSE 1 + f[T \ {CHOOSE x : x \in T}]
  BY <1>3, Zenon
<1> QED BY <1>1, <1>3, <1>4

\* Two units that are one unit.
LEMMA OneAtMost == SInv => OneUnit
<1> SUFFICES ASSUME SInv PROVE OneUnit
  OBVIOUS
<1>1. \A v, w \in units : v = w
  BY Zenon DEF SInv
<1> QED BY <1>1, SmallCount, Zenon DEF OneUnit

\* With one gateway at a time, at most one sandbox unit runs: the sweep at boot
\* stops what a crash left before a new start gets past the lease.
THEOREM OneUnitAtATime ==
    ASSUME ~Rolling
    PROVE  Spec => []OneUnit
BY SoloInvariance, OneAtMost, PTL
=============================================================================
