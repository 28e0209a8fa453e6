------------------------------ MODULE Metering ------------------------------
(***************************************************************************)
(* What a request costs its key.  Three ledgers are charged with an        *)
(* estimate before any work is done and corrected afterwards:              *)
(*   - the lifetime credits of the key (api_keys.credits_used, durable);   *)
(*   - the daily counter of the key's alias (key_usage_daily, durable, one *)
(*     row per UTC day);                                                   *)
(*   - the in-memory ring of the last minute's requests (RPM and TPM).     *)
(*                                                                         *)
(* This module has the ledgers, their operations and the life of a request *)
(* that is served while its client waits (chat, delegate, embedding, fast  *)
(* images: admitAndMeterLogged and the synchronous image path).  ImageJobs *)
(* adds the asynchronous jobs, which share the ledgers, and the process.   *)
(*                                                                         *)
(* Definitions named X_bug are wrong variants of X; no specification uses  *)
(* them, they show that the properties can fail.                           *)
(***************************************************************************)
EXTENDS Integers, FiniteSets, FiniteSetsExt

CONSTANTS
    Live,         \* requests served while the client waits
    Job,          \* asynchronous image jobs
    Free,         \* the requests and jobs whose key has no credit limit
    Est,          \* the estimate of a request: estTokens, or n images
    Price,        \* creditsPerImage
    CreditLimit,  \* credit_limit of the capped key
    Rpm,          \* limits.rpm, 0 blocks every request
    Tpm,          \* limits.tpm, 0 for no limit
    DailyBudget,  \* limits.dailyTokenBudget, 0 for no limit
    Actual,       \* the units a live request may really use, 0 when it fails
    MaxDay        \* bound of the model: last day

ASSUME MeteringAssumption ==
    /\ Free \subseteq Live \cup Job
    /\ Live \cap Job = {}
    /\ {Est, Price, CreditLimit, MaxDay} \subseteq Nat \ {0}
    /\ {Rpm, Tpm, DailyBudget} \subseteq Nat
    /\ Actual \subseteq Nat /\ 0 \in Actual

VARIABLES
    used,         \* credits_used of each key
    daily,        \* key_usage_daily: tokens of each key's alias on each day
    ring,         \* windows: tokens of each request's event, or Gone
    today,        \* dayKey(Date.now())
    live          \* each live request: pc, day of its reservation, actual use

meters == <<used, daily, ring, today, live>>

Req == Live \cup Job

Key == {"capped", "free"}

KeyOf(r) == IF r \in Free THEN "free" ELSE "capped"

Day == 1..MaxDay

Gone == -1

\* "lost", "unreturned" and "uncharged" are ends in which an operation is missing.
LivePc == {"new", "waiting", "running", "refused", "done", "lost", "unreturned", "uncharged"}

MeteringInit ==
    /\ used = [k \in Key |-> 0]
    /\ daily = [k \in Key |-> [d \in Day |-> 0]]
    /\ ring = [r \in Req |-> Gone]
    /\ today = 1
    /\ live = [r \in Live |-> [pc |-> "new", day |-> 1, actual |-> 0]]

MeteringTypeOK ==
    /\ used \in [Key -> Nat]
    /\ daily \in [Key -> [Day -> Nat]]
    /\ ring \in [Req -> Nat \cup {Gone}]
    /\ today \in Day
    /\ live \in [Live -> [pc : LivePc, day : Day, actual : Actual]]

-----------------------------------------------------------------------------
\* The lifetime credits of a key.

AtLeastZero(x) == Max({0, x})

\* What `units` of request r cost: images have a price, tokens are credits.
Cost(r, units) == IF r \in Job THEN Price * units ELSE units

\* The gateway reserves the worst case, and only for a key with a limit.
Reserved(r) == IF r \in Free THEN 0 ELSE Cost(r, Est)

\* reserveCredits: one conditional UPDATE.
reserveCreditsOk(r) ==
    r \notin Free => used[KeyOf(r)] + Reserved(r) <= CreditLimit

\* reconcileCredits for a key with a limit, recordUsage for one without; a
\* refund is a settlement with no units.
settleCredits(u, r, units) ==
    [u EXCEPT ![KeyOf(r)] = AtLeastZero(@ + Cost(r, units) - Reserved(r))]

-----------------------------------------------------------------------------
\* The daily counter and the ring.

\* The events of a key's alias that are still in the window.
Window(k) == {r \in Req : KeyOf(r) = k /\ ring[r] # Gone}

\* checkQuota, up to the daily reservation: requests and tokens per minute.
WindowOk(r) ==
    LET w == Window(KeyOf(r)) IN
    /\ Cardinality(w) + 1 <= Rpm
    /\ Tpm > 0 => MapThenSumSet(LAMBDA e : ring[e], w) + Est <= Tpm

\* checkQuota's daily check, after the reservation; on overflow it takes the
\* reservation back.
DailyOk(r) == DailyBudget > 0 => daily[KeyOf(r)][today] + Est <= DailyBudget

checkQuotaOk(r) == WindowOk(r) /\ DailyOk(r)

reserveDaily(d, r) == [d EXCEPT ![KeyOf(r)][today] = @ + Est]

adjustDaily_bug(d, r, day, units) ==
    [d EXCEPT ![KeyOf(r)][today] = AtLeastZero(@ + units - Est)]

\* recordUsage, daily part: the reservation of `day` is corrected to what was
\* really used.
adjustDaily(d, r, day, units) ==
    [d EXCEPT ![KeyOf(r)][day] = AtLeastZero(@ + units - Est)]

recordEvent_bug(g, r, units) ==
    LET w == {e \in Req : KeyOf(e) = KeyOf(r) /\ g[e] # Gone} IN
    IF w = {} THEN g ELSE [g EXCEPT ![CHOOSE e \in w : TRUE] = units]

\* recordUsage, ring part: the request's own event, if it is still there.
recordEvent(g, r, units) ==
    IF g[r] = Gone THEN g ELSE [g EXCEPT ![r] = units]

-----------------------------------------------------------------------------
\* A request that is served while its client waits.

\* Credits and quota are reserved and the request waits for admission.  With
\* too few credits or over quota it is refused and nothing is kept, which
\* leaves every variable alone.  (A crash between the two reservations: SubmitCut.)
Admit(r) ==
    /\ live[r].pc = "new"
    /\ reserveCreditsOk(r)
    /\ checkQuotaOk(r)
    /\ used' = [used EXCEPT ![KeyOf(r)] = @ + Reserved(r)]
    /\ daily' = reserveDaily(daily, r)
    /\ ring' = [ring EXCEPT ![r] = Est]
    /\ live' = [live EXCEPT ![r] = [@ EXCEPT !.pc = "waiting", !.day = today]]
    /\ UNCHANGED today

\* Admission is refused, or the client is gone before or at the grant
\* (AdmissionRejected, AdmissionCancelled): credits, then quota are given back.
\* `ops` is how many of these two durable operations are made: one that throws
\* ends the handler.  recordUsage changes the ring before it can throw.
Refuse(r, ops) ==
    /\ live[r].pc = "waiting"
    /\ used' = IF ops >= 1 THEN settleCredits(used, r, 0) ELSE used
    /\ ring' = IF ops >= 1 THEN recordEvent(ring, r, 0) ELSE ring
    /\ daily' = IF ops = 2 THEN adjustDaily(daily, r, live[r].day, 0) ELSE daily
    /\ live' = [live EXCEPT ![r].pc = <<"lost", "unreturned", "refused">>[ops + 1]]
    /\ UNCHANGED today

Run(r) ==
    /\ live[r].pc = "waiting"
    /\ live' = [live EXCEPT ![r].pc = "running"]
    /\ UNCHANGED <<used, daily, ring, today>>

\* The finally block after the handler: `units` is what the answer reports, zero
\* when the handler failed, and may exceed the estimate.  Quota is settled first,
\* credits second.  (The credits of an answer with billableTokens may be fewer.)
Settle(r, units, ops) ==
    /\ live[r].pc = "running"
    /\ ring' = recordEvent(ring, r, units)
    /\ daily' = IF ops >= 1 THEN adjustDaily(daily, r, live[r].day, units) ELSE daily
    /\ used' = IF ops = 2 THEN settleCredits(used, r, units) ELSE used
    /\ live' = [live EXCEPT ![r] = [@ EXCEPT !.pc = <<"lost", "uncharged", "done">>[ops + 1],
                                             !.actual = units]]
    /\ UNCHANGED today

\* pruned: an event leaves the ring a minute after it was pushed.
EventExpires(r) ==
    /\ ring[r] # Gone
    /\ ring' = [ring EXCEPT ![r] = Gone]
    /\ UNCHANGED <<used, daily, today, live>>

\* UTC midnight.
Midnight ==
    /\ today < MaxDay
    /\ today' = today + 1
    /\ UNCHANGED <<used, daily, ring, live>>

\* A request or a day begins.
LiveBegins == Midnight \/ \E r \in Live : Admit(r)

LiveStep ==
    \/ \E r \in Live : Refuse(r, 2) \/ Run(r)
    \/ \E r \in Live, units \in Actual : Settle(r, units, 2)
    \/ \E r \in Req : EventExpires(r)

\* A durable operation of the end of live request r throws.
LiveThrows(r) ==
    \E ops \in 0..1 : Refuse(r, ops) \/ \E units \in Actual : Settle(r, units, ops)

\* The process ends: the ring is gone, and so is the knowledge of the requests
\* in flight.  Nothing durable tells what they had reserved.
LiveLost ==
    /\ ring' = [r \in Req |-> Gone]
    /\ live' = [r \in Live |->
                  IF live[r].pc \in {"waiting", "running"}
                    THEN [live[r] EXCEPT !.pc = "lost"] ELSE live[r]]

\* The units of a live request that the ledgers should hold.
LiveUnits(r) ==
    CASE live[r].pc \in {"waiting", "running", "lost", "unreturned"} -> Est
      [] live[r].pc \in {"done", "uncharged"} -> live[r].actual
      [] OTHER -> 0

\* The credits of a live request that the key should have been charged.
LiveCredits(r) ==
    CASE live[r].pc \in {"waiting", "running", "lost", "uncharged"} -> Reserved(r)
      [] live[r].pc = "done" -> Cost(r, live[r].actual)
      [] OTHER -> 0

=============================================================================
