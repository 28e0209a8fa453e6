-------------------------- MODULE AdmissionProofs ---------------------------
(***************************************************************************)
(* Proofs about admission and the maintenance window, for any requests,    *)
(* keys, caps and budgets.                                                 *)
(***************************************************************************)
EXTENDS MaintenanceWindow, FiniteSetTheorems, SequenceTheorems, TLAPS

-----------------------------------------------------------------------------
(* The queue.                                                              *)

\* The place of i among the numbers K.
Rank(K, i) == Cardinality({j \in K : j <= i})

\* The places of a finite set of numbers are 1 up to its size, in order.
LEMMA Ranks ==
    ASSUME NEW K, K \subseteq Nat, IsFiniteSet(K)
    PROVE  /\ Cardinality(K) \in Nat
           /\ \A i \in K : Rank(K, i) \in 1..Cardinality(K)
           /\ \A i, j \in K : i < j => Rank(K, i) < Rank(K, j)
           /\ \A n \in 1..Cardinality(K) : \E i \in K : Rank(K, i) = n
<1>1. Cardinality(K) \in Nat
  BY FS_CardinalityType, Zenon
<1>2. ASSUME NEW i \in K PROVE IsFiniteSet({j \in K : j <= i}) /\ Rank(K, i) \in 1..Cardinality(K)
  <2> DEFINE T == {j \in K : j <= i}
  <2>1. T \in SUBSET K /\ i \in T
    BY <1>2
  <2> HIDE DEF T
  <2>2. IsFiniteSet(T) /\ Cardinality(T) <= Cardinality(K)
    BY <2>1, FS_Subset, Zenon
  <2>3. Cardinality(T) \in Nat /\ Cardinality(T) # 0
    BY <2>1, <2>2, FS_CardinalityType, FS_EmptySet, Zenon
  <2> QED BY <1>1, <2>2, <2>3 DEF Rank, T
<1>3. ASSUME NEW i \in K, NEW j \in K, i < j PROVE Rank(K, i) < Rank(K, j)
  <2> DEFINE T == {k \in K : k <= i}
             U == {k \in K : k <= j}
  <2>1. T \in SUBSET U /\ j \in U /\ j \notin T
    <3>1. \A k \in K : k \in Nat
      OBVIOUS
    <3>2. \A k \in K : k <= i => k <= j
      BY <1>3, <3>1
    <3>3. ~(j <= i) /\ j <= j
      BY <1>3, <3>1
    <3> QED BY <3>2, <3>3, Zenon
  <2>2. IsFiniteSet(U) /\ Cardinality(U) \in Nat /\ Cardinality(T) \in Nat
    BY <1>2 DEF Rank
  <2> HIDE DEF T, U
  <2>3. Cardinality(T) <= Cardinality(U) /\ Cardinality(T) # Cardinality(U)
    BY <2>1, <2>2, FS_Subset, Zenon
  <2> QED BY <2>2, <2>3 DEF Rank, T, U
<1>4. \A n \in 1..Cardinality(K) : \E i \in K : Rank(K, i) = n
  <2> DEFINE f == [i \in K |-> Rank(K, i)]
             N == 1..Cardinality(K)
  <2>1. f \in Injection(K, N)
    <3>1. f \in [K -> N]
      BY <1>2, Zenon
    <3>2. ASSUME NEW i \in K, NEW j \in K, f[i] = f[j] PROVE i = j
      <4>1. Rank(K, i) = Rank(K, j) /\ Rank(K, i) \in Nat /\ i \in Nat /\ j \in Nat
        <5>1. \A k \in K : k \in Nat
          OBVIOUS
        <5>2. Rank(K, i) \in Nat
          <6>1. Rank(K, i) \in 1..Cardinality(K)
            BY <1>2, Zenon
          <6> QED BY <1>1, <6>1
        <5> QED BY <3>2, <5>1, <5>2, Zenon
      <4> QED BY <1>3, <4>1
    <3> QED BY <3>1, <3>2, Zenon DEF Injection, IsInjective
  <2>2. IsFiniteSet(N) /\ Cardinality(N) = Cardinality(K)
    BY <1>1, FS_Interval
  <2> HIDE DEF N
  <2>3. f \in Surjection(K, N)
    BY <2>1, <2>2, FS_Injection, Zenon
  <2> QED BY <2>3, Zenon DEF Surjection, N
<1> QED BY <1>1, <1>2, <1>3, <1>4, Zenon

\* The queue without some positions is the rest of it, each once and in order.
LEMMA Splices ==
    ASSUME NEW S, NEW q \in Seq(S), NEW G
    PROVE  /\ Without(q, G) \in Seq(S)
           /\ \E f \in [DOMAIN Without(q, G) -> DOMAIN q \ G] :
                 /\ \A n \in DOMAIN Without(q, G) : Without(q, G)[n] = q[f[n]]
                 /\ \A i \in DOMAIN q \ G : \E n \in DOMAIN Without(q, G) : f[n] = i
                 /\ \A m, n \in DOMAIN Without(q, G) : m < n => f[m] < f[n]
<1> DEFINE K == DOMAIN q \ G
           N == Cardinality(K)
           f == [n \in 1..N |-> CHOOSE i \in K : Rank(K, i) = n]
<1>1. Len(q) \in Nat /\ DOMAIN q = 1..Len(q)
  BY LenProperties, Zenon
<1>2. K \in SUBSET (1..Len(q)) /\ K \subseteq Nat /\ \A i \in K : i \in Nat
  BY <1>1
<1>3. Without(q, G) = [n \in 1..N |-> q[f[n]]]
  BY DEF Without, Rank
<1> HIDE DEF K
<1>4. IsFiniteSet(K)
  <2>1. IsFiniteSet(1..Len(q))
    BY <1>1, FS_Interval
  <2> QED BY <1>2, <2>1, FS_Subset, Zenon
<1>5. /\ N \in Nat
      /\ \A i \in K : Rank(K, i) \in 1..N
      /\ \A i, j \in K : i < j => Rank(K, i) < Rank(K, j)
      /\ \A n \in 1..N : \E i \in K : Rank(K, i) = n
  BY <1>2, <1>4, Ranks, Zenon
<1> HIDE DEF N
<1>6. \A n \in 1..N : f[n] \in K /\ Rank(K, f[n]) = n
  BY <1>5, Zenon
<1> HIDE DEF f
<1>7. \A i \in K : \E n \in 1..N : f[n] = i
  <2> SUFFICES ASSUME NEW i \in K PROVE f[Rank(K, i)] = i
    BY <1>5, Zenon
  <2>1. f[Rank(K, i)] \in K /\ Rank(K, f[Rank(K, i)]) = Rank(K, i) /\ Rank(K, i) \in 1..N
    BY <1>5, <1>6, Zenon
  <2>2. \A j \in K : ~(i < j /\ Rank(K, i) = Rank(K, j)) /\ ~(j < i /\ Rank(K, i) = Rank(K, j))
    BY <1>5
  <2>3. i \in Nat /\ f[Rank(K, i)] \in Nat
    BY <1>2, <2>1, Zenon
  <2> QED BY <2>1, <2>2, <2>3
<1>8. \A m, n \in 1..N : m < n => f[m] < f[n]
  <2> SUFFICES ASSUME NEW m \in 1..N, NEW n \in 1..N, m < n PROVE f[m] < f[n]
    OBVIOUS
  <2>1. f[m] \in K /\ f[n] \in K /\ Rank(K, f[m]) < Rank(K, f[n])
    BY <1>6, Zenon
  <2>2. ~(f[n] < f[m]) /\ f[n] # f[m]
    BY <1>5, <2>1
  <2>3. f[m] \in Nat /\ f[n] \in Nat
    BY <1>2, <2>1, Zenon
  <2> QED BY <2>2, <2>3
<1>9. f \in [1..N -> K]
  BY <1>6, Zenon DEF f
<1>10. Without(q, G) \in Seq(S)
  <2>1. \A n \in 1..N : q[f[n]] \in S
    BY <1>1, <1>2, <1>6, ElementOfSeq, Zenon
  <2> QED BY <1>3, <1>5, <2>1, IsASeq
<1> QED BY <1>3, <1>7, <1>8, <1>9, <1>10, ZenonT(30) DEF K

\* The queue q holds exactly the requests S, each once.
Waiting(q, S) ==
    /\ q \in Seq(Request)
    /\ \A i \in DOMAIN q : q[i] \in S
    /\ \A r \in S : \E i \in DOMAIN q : q[i] = r
    /\ \A i, j \in DOMAIN q : q[i] = q[j] => i = j

\* The requests whose positions are taken out are the ones that no longer wait.
LEMMA WaitingWithout ==
    ASSUME NEW q, NEW S, Waiting(q, S), NEW G
    PROVE  Waiting(Without(q, G), {r \in S : \A i \in G \cap DOMAIN q : q[i] # r})
<1> DEFINE w == Without(q, G)
           U == {r \in S : \A i \in G \cap DOMAIN q : q[i] # r}
<1>1. q \in Seq(Request) /\ DOMAIN q \subseteq Nat
  BY LenProperties DEF Waiting
<1>2. /\ w \in Seq(Request)
      /\ \E f \in [DOMAIN w -> DOMAIN q \ G] :
            /\ \A n \in DOMAIN w : w[n] = q[f[n]]
            /\ \A i \in DOMAIN q \ G : \E n \in DOMAIN w : f[n] = i
            /\ \A m, n \in DOMAIN w : m < n => f[m] < f[n]
  BY <1>1, Splices, Zenon
<1> HIDE DEF w
<1>3. PICK f \in [DOMAIN w -> DOMAIN q \ G] :
            /\ \A n \in DOMAIN w : w[n] = q[f[n]]
            /\ \A i \in DOMAIN q \ G : \E n \in DOMAIN w : f[n] = i
            /\ \A m, n \in DOMAIN w : m < n => f[m] < f[n]
  BY <1>2, Zenon
<1>4. ASSUME NEW n \in DOMAIN w PROVE w[n] \in U
  <2>1. w[n] = q[f[n]] /\ f[n] \in DOMAIN q /\ f[n] \notin G
    BY <1>3, Zenon
  <2> QED BY <2>1, Zenon DEF Waiting
<1>5. ASSUME NEW r \in U PROVE \E n \in DOMAIN w : w[n] = r
  <2>1. PICK i \in DOMAIN q : q[i] = r
    BY <1>5, Zenon DEF Waiting
  <2>2. i \in DOMAIN q \ G
    BY <1>5, <2>1, Zenon
  <2>3. PICK n \in DOMAIN w : f[n] = i
    BY <1>3, <2>2, Zenon
  <2> QED BY <1>3, <2>1, <2>3, Zenon
<1>6. ASSUME NEW m \in DOMAIN w, NEW n \in DOMAIN w, w[m] = w[n] PROVE m = n
  <2>1. f[m] \in DOMAIN q /\ f[n] \in DOMAIN q /\ q[f[m]] = q[f[n]]
    BY <1>3, <1>6, Zenon
  <2>2. f[m] = f[n] /\ f[m] \in Nat
    BY <1>1, <2>1, ZenonT(40) DEF Waiting
  <2>3. ~(m < n) /\ ~(n < m)
    BY <1>3, <2>2
  <2>4. m \in Nat /\ n \in Nat
    BY <1>2, LenProperties
  <2> QED BY <2>3, <2>4
<1> QED BY <1>2, <1>4, <1>5, <1>6, Zenon DEF Waiting, w

\* A request that joins the queue waits, behind the others.
LEMMA WaitingAppend ==
    ASSUME NEW q, NEW S, Waiting(q, S), NEW r \in Request, r \notin S
    PROVE  Waiting(Append(q, r), S \cup {r})
<1>1. q \in Seq(Request) /\ Len(q) \in Nat /\ DOMAIN q = 1..Len(q)
  BY LenProperties, Zenon DEF Waiting
<1>2. /\ Append(q, r) \in Seq(Request) /\ DOMAIN Append(q, r) = 1..Len(q) + 1
      /\ \A i \in 1..Len(q) : Append(q, r)[i] = q[i]
      /\ Append(q, r)[Len(q) + 1] = r
  BY <1>1, AppendProperties
<1>3. \A i \in 1..Len(q) + 1 : i = Len(q) + 1 \/ i \in 1..Len(q)
  BY <1>1
<1>4. Len(q) + 1 \in 1..Len(q) + 1 /\ 1..Len(q) \subseteq 1..Len(q) + 1
  BY <1>1
<1> DEFINE w == Append(q, r)
           n == Len(q) + 1
<1> HIDE DEF w, n
<1>5. /\ w \in Seq(Request) /\ n \in DOMAIN w /\ w[n] = r /\ DOMAIN q \subseteq DOMAIN w
      /\ \A i \in DOMAIN q : w[i] = q[i]
      /\ \A i \in DOMAIN w : i = n \/ i \in DOMAIN q
  BY <1>1, <1>2, <1>3, <1>4, Zenon DEF w, n
<1>6. \A i \in DOMAIN w : w[i] \in S \cup {r}
  BY <1>5, Zenon DEF Waiting
<1>7. \A s \in S \cup {r} : \E i \in DOMAIN w : w[i] = s
  BY <1>5, Zenon DEF Waiting
<1>8. ASSUME NEW i \in DOMAIN w, NEW j \in DOMAIN w, w[i] = w[j] PROVE i = j
  <2>1. \A k \in DOMAIN q : w[k] # r
    BY <1>5, Zenon DEF Waiting
  <2> QED BY <1>5, <1>8, <2>1, Zenon DEF Waiting
<1> QED BY <1>5, <1>6, <1>7, <1>8, Zenon DEF Waiting, w

\* An empty queue is one in which nobody waits.
LEMMA WaitingNone ==
    ASSUME NEW q, NEW S, Waiting(q, S)
    PROVE  q = <<>> <=> S = {}
<1>1. q \in Seq(Request) /\ Len(q) \in Nat /\ DOMAIN q = 1..Len(q)
  BY LenProperties, Zenon DEF Waiting
<1>2. q = <<>> <=> DOMAIN q = {}
  <2>1. DOMAIN q = {} <=> Len(q) = 0
    <3>1. Len(q) # 0 => 1 \in DOMAIN q
      BY <1>1
    <3>2. Len(q) = 0 => \A i \in DOMAIN q : FALSE
      BY <1>1
    <3> QED BY <3>1, <3>2, Zenon
  <2> QED BY <1>1, <2>1, EmptySeq, Zenon
<1> QED BY <1>2, Zenon DEF Waiting

-----------------------------------------------------------------------------
(* What drainQueue admits.                                                 *)

\* A count of admitted positions is a number, and grows with the set.
LEMMA Counts ==
    ASSUME NEW q \in Seq(Request), NEW G \in SUBSET DOMAIN q
    PROVE  /\ IsFiniteSet(G) /\ G \subseteq Nat
           /\ \A T \in SUBSET G : Cardinality(T) \in Nat /\ IsFiniteSet(T)
           /\ \A T \in SUBSET G, U \in SUBSET G : T \subseteq U => Cardinality(T) <= Cardinality(U)
<1>1. Len(q) \in Nat /\ DOMAIN q = 1..Len(q)
  BY LenProperties, Zenon
<1>2. IsFiniteSet(DOMAIN q)
  BY <1>1, FS_Interval
<1>3. IsFiniteSet(G)
  BY <1>2, FS_Subset, Zenon
<1>4. ASSUME NEW T \in SUBSET G PROVE Cardinality(T) \in Nat /\ IsFiniteSet(T)
  BY <1>3, FS_Subset, FS_CardinalityType, Zenon
<1>5. ASSUME NEW T \in SUBSET G, NEW U \in SUBSET G, T \subseteq U PROVE Cardinality(T) <= Cardinality(U)
  BY <1>4, <1>5, FS_Subset, Zenon
<1>6. G \subseteq Nat
  BY <1>1
<1> QED BY <1>3, <1>4, <1>5, <1>6, Zenon

\* As many requests are granted as positions are admitted.
LEMMA Images ==
    ASSUME NEW q \in Seq(Request), NEW G \in SUBSET DOMAIN q,
           \A i, j \in DOMAIN q : q[i] = q[j] => i = j
    PROVE  IsFiniteSet({q[i] : i \in G}) /\ Cardinality({q[i] : i \in G}) = Cardinality(G)
<1> DEFINE T == {q[i] : i \in G}
           f == [i \in G |-> q[i]]
<1>1. f \in Surjection(G, T) /\ f \in Injection(G, T)
  <2>1. f \in [G -> T]
    OBVIOUS
  <2>2. \A x \in T : \E i \in G : f[i] = x
    OBVIOUS
  <2>3. \A i, j \in G : f[i] = f[j] => i = j
    OBVIOUS
  <2> QED BY <2>1, <2>2, <2>3, Zenon DEF Surjection, Injection, IsInjective
<1>2. IsFiniteSet(G)
  BY Counts, Zenon
<1> HIDE DEF T, f
<1>3. IsFiniteSet(T) /\ Cardinality(T) = Cardinality(G)
  BY <1>1, <1>2, FS_Surjection, Zenon
<1> QED BY <1>3, Zenon DEF T

\* The last position admitted found all the others before it.
LEMMA LastOne ==
    ASSUME NEW q \in Seq(Request), NEW G \in SUBSET DOMAIN q, G # {}
    PROVE  \E i \in G : Cardinality({j \in G : j < i}) + 1 = Cardinality(G)
<1>1. /\ IsFiniteSet(G) /\ G \subseteq Nat /\ Cardinality(G) \in Nat
      /\ \A T \in SUBSET G : Cardinality(T) \in Nat /\ IsFiniteSet(T)
  BY Counts, Zenon
<1>2. Cardinality(G) # 0
  BY <1>1, FS_EmptySet, Zenon
<1>3. PICK i \in G : Rank(G, i) = Cardinality(G)
  <2>1. \A n \in 1..Cardinality(G) : \E i \in G : Rank(G, i) = n
    BY <1>1, Ranks, Zenon
  <2> QED BY <1>1, <1>2, <2>1
<1>4. G = {j \in G : j <= i}
  <2> DEFINE T == {j \in G : j <= i}
  <2>1. T \in SUBSET G /\ Cardinality(G) = Cardinality(T)
    BY <1>3, Zenon DEF Rank
  <2> QED BY <1>1, <2>1, FS_Subset, Zenon
<1>5. \A j \in G : j \in Nat /\ j <= i
  BY <1>1, <1>4, Zenon
<1>6. {j \in G : j < i} = G \ {i}
  BY <1>5
<1>7. Cardinality(G \ {i}) = Cardinality(G) - 1
  BY <1>1, FS_RemoveElement, Zenon
<1>8. Cardinality({j \in G : j < i}) = Cardinality(G) - 1
  BY <1>6, <1>7, Zenon
<1>9. Cardinality({j \in G : j < i}) + 1 = Cardinality(G)
  BY <1>1, <1>8
<1> QED BY <1>9, Zenon

\* drainQueue stays within the budget.
LEMMA WithinBudget ==
    ASSUME NEW q \in Seq(Request), NEW G \in SUBSET DOMAIN q, NEW used \in Nat, NEW keyUsed,
           used <= maxInflight, Admitted(q, used, keyUsed, G)
    PROVE  used + Cardinality(G) \in Nat /\ used + Cardinality(G) <= maxInflight
<1>1. Cardinality(G) \in Nat
  BY Counts, Zenon
<1>2. CASE G = {}
  BY <1>2, FS_EmptySet, AdmissionAssumption
<1>3. CASE G # {}
  <2>1. PICK i \in G : Cardinality({j \in G : j < i}) + 1 = Cardinality(G)
    BY <1>3, LastOne, Zenon
  <2>2. used + Cardinality({j \in G : j < i}) < maxInflight
    BY Zenon DEF Admitted
  <2>3. Cardinality({j \in G : j < i}) \in Nat
    BY Counts, Zenon
  <2> QED BY <1>1, <2>1, <2>2, <2>3, AdmissionAssumption
<1> QED BY <1>2, <1>3, Zenon

\* A waiter that is passed over while its key stays below its cap found the slots
\* used up, so all that were admitted stood before it.
LEMMA InOrder ==
    ASSUME NEW q \in Seq(Request), NEW G \in SUBSET DOMAIN q, NEW used \in Nat,
           NEW keyUsed \in [Key -> Nat], Admitted(q, used, keyUsed, G), NEW i \in DOMAIN q \ G,
           keyUsed[keyId[q[i]]] + Cardinality({j \in G : keyId[q[j]] = keyId[q[i]]}) < maxParallel[keyId[q[i]]]
    PROVE  used + Cardinality(G) >= maxInflight /\ \A j \in G : j < i
<1> DEFINE k == keyId[q[i]]
           before == {j \in G : j < i}
           same == {j \in before : keyId[q[j]] = k}
           all == {j \in G : keyId[q[j]] = k}
<1>1. q[i] \in Request /\ k \in Key /\ maxParallel[k] \in Nat /\ keyUsed[k] \in Nat /\ maxInflight \in Nat
  <2>1. q[i] \in Request
    BY ElementOfSeq, LenProperties, Zenon
  <2> QED BY <2>1, AdmissionAssumption, Zenon
<1>2. /\ Cardinality(same) \in Nat /\ Cardinality(all) \in Nat /\ Cardinality(before) \in Nat
      /\ Cardinality(same) <= Cardinality(all) /\ Cardinality(before) <= Cardinality(G)
      /\ Cardinality(G) \in Nat
  <2>1. same \in SUBSET G /\ all \in SUBSET G /\ before \in SUBSET G /\ same \subseteq all /\ G \in SUBSET G
    OBVIOUS
  <2> HIDE DEF same, all, before
  <2> QED BY <2>1, Counts, Zenon
<1>3. ~(used + Cardinality(before) < maxInflight /\ keyUsed[k] + Cardinality(same) < maxParallel[k])
  BY Zenon DEF Admitted
<1>4. keyUsed[k] + Cardinality(all) < maxParallel[k]
  OBVIOUS
<1> HIDE DEF k, same, all
<1>5. used + Cardinality(before) >= maxInflight
  BY <1>1, <1>2, <1>3, <1>4
<1>6. ASSUME NEW j \in G PROVE j < i
  <2>1. used + Cardinality({l \in G : l < j}) < maxInflight
    BY Zenon DEF Admitted
  <2>2. i \in Nat /\ i # j /\ \A l \in G : l \in Nat
    BY LenProperties
  <2>3. ASSUME i < j PROVE FALSE
    <3>1. before \in SUBSET G /\ {l \in G : l < j} \in SUBSET G /\ before \subseteq {l \in G : l < j}
      BY <2>2, <2>3
    <3> DEFINE T == {l \in G : l < j}
    <3>2. Cardinality(before) <= Cardinality(T) /\ Cardinality(T) \in Nat
      <4> HIDE DEF before, T
      <4> QED BY <3>1, Counts, Zenon DEF T
    <3> QED BY <1>1, <1>2, <1>5, <2>1, <3>2
  <2> QED BY <2>2, <2>3
<1> QED BY <1>1, <1>2, <1>5, <1>6, Zenon

\* The slots held, of any key and of one, when the requests are at at.
Hold(at) == {r \in Request : at[r] \in {"granted", "running"}}
HoldOf(at, k) == {r \in Hold(at) : keyId[r] = k}

\* The controller's queue and counts are those of the requests at at and of b slots
\* of background work, within the budget.
Steady(q, used, keyUsed, at, b) ==
    /\ at \in [Request -> {"idle", "draining", "ready", "queued", "granted", "running"}]
    /\ Waiting(q, {r \in Request : at[r] = "queued"})
    /\ used = Cardinality(Hold(at)) + b /\ used <= maxInflight
    /\ keyUsed \in [Key -> Nat]
    /\ \A k \in Key : keyUsed[k] = Cardinality(HoldOf(at, k))

\* There are finitely many holders.
LEMMA Holds ==
    ASSUME NEW at
    PROVE  /\ IsFiniteSet(Hold(at)) /\ Cardinality(Hold(at)) \in Nat
           /\ \A k : IsFiniteSet(HoldOf(at, k)) /\ Cardinality(HoldOf(at, k)) \in Nat
<1>1. Hold(at) \in SUBSET Request /\ \A k : HoldOf(at, k) \in SUBSET Request
  BY Zenon DEF Hold, HoldOf
<1>2. \A T \in SUBSET Request : IsFiniteSet(T) /\ Cardinality(T) \in Nat
  BY AdmissionAssumption, FS_Subset, FS_CardinalityType, Zenon
<1> QED BY <1>1, <1>2, Zenon

\* Grants keep queue, counts and requests in step: the requests at the positions G
\* leave the queue, and each of them takes one slot.
LEMMA Grants ==
    ASSUME NEW q, NEW used, NEW keyUsed, NEW at, NEW b \in Nat, Steady(q, used, keyUsed, at, b),
           NEW G \in SUBSET DOMAIN q, used + Cardinality(G) <= maxInflight, Grant(q, used, keyUsed, at, G)
    PROVE  /\ Steady(ownerWaiters', inflight', keyInflight', pc', b)
           /\ \A r \in Request : pc'[r] = at[r] \/ (at[r] = "queued" /\ pc'[r] = "granted")
<1> DEFINE T == {q[i] : i \in G}
           W == {r \in Request : at[r] = "queued"}
<1>1. /\ q \in Seq(Request) /\ (\A i \in DOMAIN q : q[i] \in W)
      /\ \A i, j \in DOMAIN q : q[i] = q[j] => i = j
  BY Zenon DEF Steady, Waiting
<1>2. /\ ownerWaiters' = Without(q, G) /\ inflight' = used + Cardinality(G)
      /\ keyInflight' = [k \in Key |-> keyUsed[k] + Cardinality({i \in G : keyId[q[i]] = k})]
      /\ pc' = [r \in Request |-> IF r \in T THEN "granted" ELSE at[r]]
  BY Zenon DEF Grant
<1>3. T \subseteq W
  BY <1>1, Zenon
<1>4. \A r \in Request : pc'[r] = IF r \in T THEN "granted" ELSE at[r]
  BY <1>2, Zenon
<1>5. /\ at \in [Request -> {"idle", "draining", "ready", "queued", "granted", "running"}]
      /\ keyUsed \in [Key -> Nat] /\ used = Cardinality(Hold(at)) + b
      /\ \A k \in Key : keyUsed[k] = Cardinality(HoldOf(at, k))
  BY Zenon DEF Steady
<1>6. pc' \in [Request -> {"idle", "draining", "ready", "queued", "granted", "running"}]
  BY <1>2, <1>5, Zenon
<1>7. Waiting(ownerWaiters', {r \in Request : pc'[r] = "queued"})
  <2>1. Waiting(Without(q, G), {r \in W : \A i \in G \cap DOMAIN q : q[i] # r})
    BY WaitingWithout DEF Steady
  <2>2. {r \in W : \A i \in G \cap DOMAIN q : q[i] # r} = {r \in Request : pc'[r] = "queued"}
    BY <1>3, <1>4, Zenon
  <2> QED BY <1>2, <2>1, <2>2, Zenon
<1>8. IsFiniteSet(T) /\ Cardinality(T) = Cardinality(G) /\ Cardinality(G) \in Nat
  BY <1>1, Images, Counts, Zenon
<1>9. Cardinality(Hold(pc')) = Cardinality(Hold(at)) + Cardinality(G)
  <2>1. Hold(pc') = Hold(at) \cup T /\ Hold(at) \cap T = {}
    BY <1>3, <1>4, Zenon DEF Hold
  <2> HIDE DEF T
  <2>2. Cardinality(Hold(at) \cup T) = Cardinality(Hold(at)) + Cardinality(T) - Cardinality({})
    BY <1>8, <2>1, Holds, FS_Union
  <2> QED BY <1>8, <2>1, <2>2, Holds, FS_EmptySet
<1>10. ASSUME NEW k \in Key
       PROVE  /\ keyInflight'[k] = Cardinality(HoldOf(pc', k)) /\ keyInflight'[k] \in Nat
  <2> DEFINE P == {i \in G : keyId[q[i]] = k}
             U == {q[i] : i \in P}
  <2>1. U = {r \in T : keyId[r] = k} /\ P \in SUBSET DOMAIN q
    OBVIOUS
  <2>2. HoldOf(pc', k) = HoldOf(at, k) \cup U /\ HoldOf(at, k) \cap U = {}
    BY <1>3, <1>4, <2>1, Zenon DEF Hold, HoldOf
  <2>3. keyInflight'[k] = Cardinality(HoldOf(at, k)) + Cardinality(P)
    BY <1>2, <1>5, Zenon
  <2> HIDE DEF P
  <2>4. IsFiniteSet(U) /\ Cardinality(U) = Cardinality(P) /\ Cardinality(P) \in Nat
    BY <1>1, <2>1, Images, Counts, Zenon
  <2> HIDE DEF U
  <2>5. Cardinality(HoldOf(at, k) \cup U) = Cardinality(HoldOf(at, k)) + Cardinality(U) - Cardinality({})
    BY <2>2, <2>4, Holds, FS_Union, Zenon
  <2>6. Cardinality({}) = 0 /\ Cardinality(HoldOf(at, k)) \in Nat
    BY Holds, FS_EmptySet, Zenon
  <2>7. Cardinality(HoldOf(pc', k)) = Cardinality(HoldOf(at, k)) + Cardinality(P)
    BY <2>2, <2>4, <2>5, <2>6
  <2> QED BY <2>3, <2>4, <2>6, <2>7
<1>11. inflight' = Cardinality(Hold(pc')) + b /\ inflight' <= maxInflight
  BY <1>2, <1>5, <1>8, <1>9, Holds
<1>12. keyInflight' \in [Key -> Nat]
  BY <1>2, <1>10, Zenon
<1>13. Steady(ownerWaiters', inflight', keyInflight', pc', b)
  BY <1>6, <1>7, <1>10, <1>11, <1>12, Zenon DEF Steady
<1>14. \A r \in Request : pc'[r] = at[r] \/ (at[r] = "queued" /\ pc'[r] = "granted")
  BY <1>3, <1>4, Zenon
<1> QED BY <1>13, <1>14, Zenon

\* What drainQueue does: it keeps queue, counts and requests in step, it turns
\* waiters into holders and nothing else, it leaves no slot to a waiter below its
\* cap, and it passes over none of those; behind the fence it does nothing.
LEMMA Drains ==
    ASSUME NEW q, NEW used, NEW keyUsed, NEW at, NEW b \in Nat, NEW m,
           Steady(q, used, keyUsed, at, b), drainQueue(q, used, keyUsed, at, m)
    PROVE  /\ Steady(ownerWaiters', inflight', keyInflight', pc', b)
           /\ \A r \in Request : pc'[r] = at[r] \/ (at[r] = "queued" /\ pc'[r] = "granted")
           /\ WorkConserving'
           /\ \A i, j \in DOMAIN q :
                 pc'[q[i]] = "granted" /\ pc'[q[j]] = "queued"
                   /\ keyInflight'[keyId[q[j]]] < maxParallel[keyId[q[j]]] => i < j
           /\ effectiveMaintenanceScope(m) = "exclusive" => pc' = at
<1>1. q \in Seq(Request) /\ used \in Nat /\ keyUsed \in [Key -> Nat] /\ used <= maxInflight
      /\ (\A i, j \in DOMAIN q : q[i] = q[j] => i = j) /\ (\A i \in DOMAIN q : q[i] \in Request /\ at[q[i]] = "queued")
  BY Holds DEF Steady, Waiting
<1>2. PICK G \in SUBSET DOMAIN q :
         /\ IF effectiveMaintenanceScope(m) = "exclusive" THEN G = {} ELSE Admitted(q, used, keyUsed, G)
         /\ Grant(q, used, keyUsed, at, G)
  BY Zenon DEF drainQueue
<1>3. skipped' <=> effectiveMaintenanceScope(m) = "exclusive"
  BY Zenon DEF drainQueue
<1>4. used + Cardinality(G) <= maxInflight /\ Cardinality(G) \in Nat
  <2>1. CASE effectiveMaintenanceScope(m) = "exclusive"
    <3>1. G = {} /\ Cardinality(G) = 0
      BY <1>2, <2>1, FS_EmptySet, Zenon
    <3> QED BY <1>1, <3>1
  <2>2. CASE effectiveMaintenanceScope(m) # "exclusive"
    BY <1>1, <1>2, <2>2, WithinBudget, Counts, Zenon
  <2> QED BY <2>1, <2>2, Zenon
<1>5. /\ Steady(ownerWaiters', inflight', keyInflight', pc', b)
      /\ \A r \in Request : pc'[r] = at[r] \/ (at[r] = "queued" /\ pc'[r] = "granted")
  BY <1>2, <1>4, Grants, Zenon
<1>6. /\ inflight' = used + Cardinality(G)
      /\ \A k \in Key : keyInflight'[k] = keyUsed[k] + Cardinality({i \in G : keyId[q[i]] = k})
      /\ \A r \in Request : pc'[r] = IF \E i \in G : q[i] = r THEN "granted" ELSE at[r]
      /\ pc' = [r \in Request |-> IF \E i \in G : q[i] = r THEN "granted" ELSE at[r]]
  BY <1>2, Zenon DEF Grant
<1>7. \A i \in DOMAIN q : (pc'[q[i]] = "granted" <=> i \in G) /\ (pc'[q[i]] = "queued" <=> i \notin G)
  BY <1>1, <1>6, Zenon
<1>8. ASSUME effectiveMaintenanceScope(m) # "exclusive", NEW i \in DOMAIN q, pc'[q[i]] = "queued",
             keyInflight'[keyId[q[i]]] < maxParallel[keyId[q[i]]]
      PROVE  inflight' >= maxInflight /\ \A j \in G : j < i
  <2>1. i \in DOMAIN q \ G /\ Admitted(q, used, keyUsed, G) /\ keyId[q[i]] \in Key
    BY <1>1, <1>2, <1>7, <1>8, AdmissionAssumption, Zenon
  <2>2. keyUsed[keyId[q[i]]] + Cardinality({j \in G : keyId[q[j]] = keyId[q[i]]}) < maxParallel[keyId[q[i]]]
    BY <1>6, <1>8, <2>1, Zenon
  <2> QED BY <1>1, <1>6, <2>1, <2>2, InOrder, Zenon
<1>9. WorkConserving'
  <2> SUFFICES ASSUME ~skipped', inflight' < maxInflight, NEW n \in DOMAIN ownerWaiters',
                      ~(keyInflight'[keyId[ownerWaiters'[n]]] >= maxParallel[keyId[ownerWaiters'[n]]])
               PROVE  FALSE
    BY Zenon DEF WorkConserving
  <2> DEFINE r == ownerWaiters'[n]
  <2>1. r \in Request /\ pc'[r] = "queued"
    BY <1>5, Zenon DEF Steady, Waiting
  <2>2. at[r] = "queued"
    BY <1>5, <2>1, Zenon
  <2>3. PICK i \in DOMAIN q : q[i] = r
    BY <2>1, <2>2, Zenon DEF Steady, Waiting
  <2>4. keyInflight'[keyId[r]] \in Nat /\ maxParallel[keyId[r]] \in Nat /\ inflight' \in Nat /\ maxInflight \in Nat
    <3>1. keyInflight' \in [Key -> Nat]
      BY <1>5, Zenon DEF Steady
    <3>2. inflight' \in Nat
      BY <1>1, <1>4, <1>6
    <3> QED BY <2>1, <3>1, <3>2, AdmissionAssumption, Zenon
  <2>5. keyInflight'[keyId[r]] < maxParallel[keyId[r]]
    BY <2>4
  <2>6. inflight' >= maxInflight
    BY <1>3, <1>8, <2>1, <2>3, <2>5, Zenon
  <2> QED BY <2>4, <2>6
<1>10. ASSUME NEW i \in DOMAIN q, NEW j \in DOMAIN q, pc'[q[i]] = "granted", pc'[q[j]] = "queued",
              keyInflight'[keyId[q[j]]] < maxParallel[keyId[q[j]]]
       PROVE  i < j
  <2>1. i \in G
    BY <1>7, <1>10, Zenon
  <2>2. effectiveMaintenanceScope(m) # "exclusive"
    BY <1>2, <2>1, Zenon
  <2> QED BY <1>8, <1>10, <2>1, <2>2, Zenon
<1>11. ASSUME effectiveMaintenanceScope(m) = "exclusive" PROVE pc' = at
  <2>1. G = {} /\ at = [r \in Request |-> at[r]]
    BY <1>2, <1>11, Zenon DEF Steady
  <2> QED BY <1>6, <2>1, Zenon
<1> QED BY <1>5, <1>9, <1>10, <1>11, Zenon

-----------------------------------------------------------------------------
(* The invariant of admission.                                             *)

\* One request more, one more to count.
LEMMA OneMore ==
    ASSUME NEW S \in SUBSET Request, NEW T \in SUBSET Request, NEW r \in Request,
           T = S \cup {r}, r \notin S
    PROVE  Cardinality(S) \in Nat /\ Cardinality(T) = Cardinality(S) + 1
<1>1. IsFiniteSet(S)
  BY AdmissionAssumption, FS_Subset, Zenon
<1> QED BY <1>1, FS_AddElement, FS_CardinalityType, Zenon

Running(at, k) == {r \in Request : at[r] = "running" /\ keyId[r] = k}

\* The gateway counts the requests that run.
Ran(gw, at) ==
    /\ gw \in [Key -> Nat]
    /\ \A k \in Key : gw[k] = Cardinality(Running(at, k))

\* While background work has its slot every request that came awaits its drain, and
\* only then does one.
Alone(bg, at) ==
    /\ bg # "none" => \A r \in Request : at[r] \in {"idle", "draining"}
    /\ bg # "aborting" => \A r \in Request : at[r] # "draining"

Slot(bg) == IF bg = "none" THEN 0 ELSE 1

Misc ==
    /\ snapshot \in [Request -> Nat] /\ background \in {"none", "running", "aborting"}
    /\ maintenance \in Maintenance /\ startup \in BOOLEAN

AInv ==
    /\ Misc /\ skipped \in BOOLEAN
    /\ Steady(ownerWaiters, inflight, keyInflight, pc, Slot(background))
    /\ Ran(gwInflight, pc)
    /\ Alone(background, pc)
    /\ WorkConserving

\* An action that ends in drainQueue preserves the invariant if it calls it on a
\* queue and counts that are in step with the requests.
LEMMA AfterDrain ==
    ASSUME NEW q, NEW used, NEW keyUsed, NEW at, NEW m, Misc', Ran(gwInflight', at), Alone(background', at),
           Steady(q, used, keyUsed, at, Slot(background')), drainQueue(q, used, keyUsed, at, m)
    PROVE  AInv'
<1>1. Slot(background') \in Nat
  BY Zenon DEF Slot
<1>2. /\ Steady(ownerWaiters', inflight', keyInflight', pc', Slot(background'))
      /\ \A r \in Request : pc'[r] = at[r] \/ (at[r] = "queued" /\ pc'[r] = "granted")
      /\ WorkConserving'
  BY <1>1, Drains, Zenon
<1>3. \A k : Running(pc', k) = Running(at, k)
  BY <1>2, Zenon DEF Running
<1>4. Ran(gwInflight', pc')
  BY <1>3, Zenon DEF Ran
<1>5. Alone(background', pc')
  BY <1>2, Zenon DEF Alone
<1>6. skipped' \in BOOLEAN
  BY Zenon DEF drainQueue
<1> QED BY <1>2, <1>4, <1>5, <1>6, Zenon DEF AInv

\* An action that does not drain preserves the invariant if what it leaves is in step
\* and it frees no slot for a waiter.
LEMMA AfterOther ==
    ASSUME AInv, Misc', Ran(gwInflight', pc'), Alone(background', pc'),
           Steady(ownerWaiters', inflight', keyInflight', pc', Slot(background')), skipped' = skipped,
           WorkConserving'
    PROVE  AInv'
  BY Zenon DEF AInv

\* The holder r gives its slot back.
LEMMA Frees ==
    ASSUME NEW b \in Nat, Steady(ownerWaiters, inflight, keyInflight, pc, b), NEW r \in Request,
           pc[r] \in {"granted", "running"}
    PROVE  Steady(ownerWaiters, inflight - 1, [keyInflight EXCEPT ![keyId[r]] = @ - 1],
                  [pc EXCEPT ![r] = "idle"], b)
<1> DEFINE at == [pc EXCEPT ![r] = "idle"]
           ku == [keyInflight EXCEPT ![keyId[r]] = @ - 1]
<1>1. /\ pc \in [Request -> {"idle", "draining", "ready", "queued", "granted", "running"}]
      /\ Waiting(ownerWaiters, {s \in Request : pc[s] = "queued"})
      /\ inflight = Cardinality(Hold(pc)) + b /\ inflight <= maxInflight
      /\ keyInflight \in [Key -> Nat]
      /\ \A k \in Key : keyInflight[k] = Cardinality(HoldOf(pc, k))
  BY Zenon DEF Steady
<1>2. keyId[r] \in Key /\ maxInflight \in Nat
  BY AdmissionAssumption, Zenon
<1>3. at \in [Request -> {"idle", "draining", "ready", "queued", "granted", "running"}]
      /\ at[r] = "idle" /\ \A s \in Request \ {r} : at[s] = pc[s]
  BY <1>1, Zenon
<1>4. (\A k \in Key \ {keyId[r]} : ku[k] = keyInflight[k]) /\ ku[keyId[r]] = keyInflight[keyId[r]] - 1
      /\ DOMAIN ku = Key /\ ku = [k \in Key |-> ku[k]]
  BY <1>1, <1>2, Zenon
<1> HIDE DEF at, ku
<1>5. {s \in Request : at[s] = "queued"} = {s \in Request : pc[s] = "queued"}
  BY <1>3, Zenon
<1>6. Cardinality(Hold(at)) \in Nat /\ Cardinality(Hold(pc)) = Cardinality(Hold(at)) + 1
  <2>1. Hold(at) \in SUBSET Request /\ Hold(pc) \in SUBSET Request /\ r \notin Hold(at) /\ Hold(pc) = Hold(at) \cup {r}
    BY <1>3, Zenon DEF Hold
  <2> QED BY <2>1, OneMore, Zenon
<1>7. Cardinality(HoldOf(at, keyId[r])) \in Nat
      /\ Cardinality(HoldOf(pc, keyId[r])) = Cardinality(HoldOf(at, keyId[r])) + 1
  <2>1. /\ HoldOf(at, keyId[r]) \in SUBSET Request /\ HoldOf(pc, keyId[r]) \in SUBSET Request
        /\ r \notin HoldOf(at, keyId[r]) /\ HoldOf(pc, keyId[r]) = HoldOf(at, keyId[r]) \cup {r}
    BY <1>3, Zenon DEF Hold, HoldOf
  <2> QED BY <2>1, OneMore, Zenon
<1>8. \A k \in Key \ {keyId[r]} : HoldOf(at, k) = HoldOf(pc, k)
  BY <1>3, Zenon DEF Hold, HoldOf
<1>9. \A k \in Key : ku[k] = Cardinality(HoldOf(at, k)) /\ ku[k] \in Nat
  <2>1. ku[keyId[r]] = Cardinality(HoldOf(at, keyId[r])) /\ ku[keyId[r]] \in Nat
    BY <1>1, <1>2, <1>4, <1>7
  <2>2. ASSUME NEW k \in Key \ {keyId[r]} PROVE ku[k] = Cardinality(HoldOf(at, k)) /\ ku[k] \in Nat
    BY <1>1, <1>4, <1>8, Zenon
  <2> QED BY <2>1, <2>2, Zenon
<1>10. inflight - 1 = Cardinality(Hold(at)) + b /\ inflight - 1 <= maxInflight
  BY <1>1, <1>2, <1>6
<1>11. ku \in [Key -> Nat]
  BY <1>4, <1>9, Zenon
<1>12. Waiting(ownerWaiters, {s \in Request : at[s] = "queued"})
  BY <1>1, <1>5, Zenon
<1>13. Steady(ownerWaiters, inflight - 1, ku, at, b)
  BY <1>3, <1>9, <1>10, <1>11, <1>12, Zenon DEF Steady
<1> QED BY <1>13, Zenon DEF at, ku

\* A request that neither waits nor holds a slot changes nothing by moving on.
LEMMA Shifts ==
    ASSUME NEW b, Steady(ownerWaiters, inflight, keyInflight, pc, b), Ran(gwInflight, pc), NEW r \in Request,
           pc[r] \in {"idle", "draining", "ready"}, NEW l \in {"idle", "draining", "ready"}
    PROVE  /\ Steady(ownerWaiters, inflight, keyInflight, [pc EXCEPT ![r] = l], b)
           /\ Ran(gwInflight, [pc EXCEPT ![r] = l])
<1> DEFINE at == [pc EXCEPT ![r] = l]
<1>1. at \in [Request -> {"idle", "draining", "ready", "queued", "granted", "running"}]
      /\ at[r] = l /\ \A s \in Request \ {r} : at[s] = pc[s]
  BY Zenon DEF Steady
<1> HIDE DEF at
<1>2. {s \in Request : at[s] = "queued"} = {s \in Request : pc[s] = "queued"}
  BY <1>1, Zenon
<1>3. Hold(at) = Hold(pc)
  BY <1>1, Zenon DEF Hold
<1>4. \A k : HoldOf(at, k) = HoldOf(pc, k)
  BY <1>3, Zenon DEF HoldOf
<1>5. \A k : Running(at, k) = Running(pc, k)
  BY <1>1, Zenon DEF Running
<1>6. Steady(ownerWaiters, inflight, keyInflight, at, b)
  BY <1>1, <1>2, <1>3, <1>4, Zenon DEF Steady
<1>7. Ran(gwInflight, at)
  BY <1>5, Zenon DEF Ran
<1> QED BY <1>6, <1>7, Zenon DEF at

\* Arrivals, rejections and clients that leave while they await the drain.
LEMMA Arrivals ==
    ASSUME AInv, NEW r \in Request, Arrive(r) \/ Reject(r) \/ CancelDraining(r)
    PROVE  AInv'
<1>1. PICK l \in {"idle", "draining", "ready"} :
         /\ pc' = [pc EXCEPT ![r] = l] /\ pc[r] \in {"idle", "draining", "ready"}
         /\ l = "ready" => background = "none"
         /\ l = "draining" => background' = "aborting"
  BY Zenon DEF Arrive, Reject, CancelDraining
<1>2. UNCHANGED <<inflight, keyInflight, ownerWaiters, skipped, gwInflight, maintenance, startup>>
  BY Zenon DEF Arrive, Reject, CancelDraining, fence
<1>3. background' \in {background, "aborting"} /\ (background = "none" <=> background' = "none")
  BY Zenon DEF Arrive, Reject, CancelDraining
<1>4. Misc /\ Steady(ownerWaiters, inflight, keyInflight, pc, Slot(background)) /\ Ran(gwInflight, pc)
      /\ Alone(background, pc) /\ WorkConserving
  BY Zenon DEF AInv
<1>5. gwInflight \in [Key -> Nat] /\ keyId[r] \in Key
  BY <1>4, AdmissionAssumption, Zenon DEF Ran
<1>6. snapshot' \in [Request -> Nat]
  BY <1>4, <1>5, Zenon DEF Arrive, Reject, CancelDraining, Misc
<1>7. Slot(background') = Slot(background)
  BY <1>3, Zenon DEF Slot
<1>8. /\ Steady(ownerWaiters, inflight, keyInflight, pc', Slot(background))
      /\ Ran(gwInflight, pc')
  BY <1>1, <1>4, Shifts, Zenon
<1>9. /\ Steady(ownerWaiters', inflight', keyInflight', pc', Slot(background'))
      /\ Ran(gwInflight', pc')
  BY <1>2, <1>7, <1>8, Zenon
<1>10. pc'[r] = l /\ \A s \in Request \ {r} : pc'[s] = pc[s]
  BY <1>1, <1>4, Zenon DEF Steady
<1>11. Alone(background', pc')
  BY <1>1, <1>3, <1>4, <1>10, Zenon DEF Alone
<1>12. Misc'
  BY <1>2, <1>3, <1>4, <1>6, Zenon DEF Misc
<1>13. WorkConserving'
  BY <1>2, <1>4, Zenon DEF WorkConserving
<1> QED BY <1>2, <1>9, <1>11, <1>12, <1>13, AfterOther, Zenon

\* Admission to a free slot.
LEMMA Admissions ==
    ASSUME AInv, NEW r \in Request, AdmitNow(r)
    PROVE  AInv'
<1>1. /\ pc[r] = "ready" /\ pc' = [pc EXCEPT ![r] = "granted"] /\ inflight' = inflight + 1
      /\ keyInflight' = [keyInflight EXCEPT ![keyId[r]] = @ + 1]
      /\ UNCHANGED <<ownerWaiters, skipped, snapshot, gwInflight, background, maintenance, startup>>
  BY Zenon DEF AdmitNow, fence
<1>2. inflight < maxInflight
  BY Zenon DEF AdmitNow, admit
<1>3. Misc /\ Steady(ownerWaiters, inflight, keyInflight, pc, Slot(background)) /\ Ran(gwInflight, pc)
      /\ Alone(background, pc) /\ WorkConserving
  BY Zenon DEF AInv
<1>4. /\ pc \in [Request -> {"idle", "draining", "ready", "queued", "granted", "running"}]
      /\ Waiting(ownerWaiters, {s \in Request : pc[s] = "queued"})
      /\ inflight = Cardinality(Hold(pc)) + Slot(background)
      /\ keyInflight \in [Key -> Nat]
      /\ \A k \in Key : keyInflight[k] = Cardinality(HoldOf(pc, k))
  BY <1>3, Zenon DEF Steady
<1>5. keyId[r] \in Key /\ maxInflight \in Nat /\ Slot(background) \in Nat
  BY AdmissionAssumption, Zenon DEF Slot
<1>6. pc' \in [Request -> {"idle", "draining", "ready", "queued", "granted", "running"}]
      /\ pc'[r] = "granted" /\ \A s \in Request \ {r} : pc'[s] = pc[s]
  BY <1>1, <1>4, Zenon
<1>7. (\A k \in Key \ {keyId[r]} : keyInflight'[k] = keyInflight[k])
      /\ keyInflight'[keyId[r]] = keyInflight[keyId[r]] + 1 /\ keyInflight' \in [Key -> Nat]
  BY <1>1, <1>4, <1>5
<1>8. {s \in Request : pc'[s] = "queued"} = {s \in Request : pc[s] = "queued"}
  BY <1>1, <1>6, Zenon
<1>9. Cardinality(Hold(pc)) \in Nat /\ Cardinality(Hold(pc')) = Cardinality(Hold(pc)) + 1
  <2>1. Hold(pc) \in SUBSET Request /\ Hold(pc') \in SUBSET Request /\ r \notin Hold(pc) /\ Hold(pc') = Hold(pc) \cup {r}
    BY <1>1, <1>6, Zenon DEF Hold
  <2> QED BY <2>1, OneMore, Zenon
<1>10. Cardinality(HoldOf(pc', keyId[r])) = Cardinality(HoldOf(pc, keyId[r])) + 1
  <2>1. /\ HoldOf(pc, keyId[r]) \in SUBSET Request /\ HoldOf(pc', keyId[r]) \in SUBSET Request
        /\ r \notin HoldOf(pc, keyId[r]) /\ HoldOf(pc', keyId[r]) = HoldOf(pc, keyId[r]) \cup {r}
    BY <1>1, <1>6, Zenon DEF Hold, HoldOf
  <2> QED BY <2>1, OneMore, Zenon
<1>11. \A k \in Key \ {keyId[r]} : HoldOf(pc', k) = HoldOf(pc, k)
  BY <1>1, <1>6, Zenon DEF Hold, HoldOf
<1>12. \A k \in Key : keyInflight'[k] = Cardinality(HoldOf(pc', k))
  BY <1>4, <1>5, <1>7, <1>10, <1>11, Zenon
<1>13. inflight' = Cardinality(Hold(pc')) + Slot(background) /\ inflight' <= maxInflight
       /\ inflight \in Nat
  BY <1>1, <1>2, <1>4, <1>5, <1>9
<1>14. Steady(ownerWaiters', inflight', keyInflight', pc', Slot(background'))
  BY <1>1, <1>4, <1>6, <1>7, <1>8, <1>12, <1>13, Zenon DEF Steady
<1>15. Ran(gwInflight', pc')
  <2>1. \A k : Running(pc', k) = Running(pc, k)
    BY <1>1, <1>6, Zenon DEF Running
  <2> QED BY <1>1, <1>3, <2>1, Zenon DEF Ran
<1>16. Alone(background', pc')
  BY <1>1, <1>3, <1>6, Zenon DEF Alone
<1>17. WorkConserving'
  <2> SUFFICES ASSUME ~skipped, NEW i \in DOMAIN ownerWaiters
               PROVE  keyInflight'[keyId[ownerWaiters[i]]] >= maxParallel[keyId[ownerWaiters[i]]]
    BY <1>1, Zenon DEF WorkConserving
  <2>1. keyId[ownerWaiters[i]] \in Key /\ maxParallel[keyId[ownerWaiters[i]]] \in Nat
    BY <1>4, AdmissionAssumption, Zenon DEF Waiting
  <2>2. keyInflight[keyId[ownerWaiters[i]]] >= maxParallel[keyId[ownerWaiters[i]]]
    BY <1>2, <1>3, Zenon DEF WorkConserving
  <2> QED BY <1>4, <1>7, <2>1, <2>2
<1>18. Misc'
  BY <1>1, <1>3, Zenon DEF Misc
<1> QED BY <1>1, <1>14, <1>15, <1>16, <1>17, <1>18, AfterOther, Zenon

\* An owner that finds no slot joins the queue.
LEMMA Enqueues ==
    ASSUME AInv, NEW r \in Request, Enqueue(r)
    PROVE  AInv'
<1>1. /\ pc[r] = "ready" /\ pc' = [pc EXCEPT ![r] = "queued"] /\ ownerWaiters' = Append(ownerWaiters, r)
      /\ UNCHANGED <<inflight, keyInflight, skipped, snapshot, gwInflight, background, maintenance, startup>>
  BY Zenon DEF Enqueue, fence
<1>2. ~(inflight < maxInflight)
  BY Zenon DEF Enqueue, admit
<1>3. Misc /\ Steady(ownerWaiters, inflight, keyInflight, pc, Slot(background)) /\ Ran(gwInflight, pc)
      /\ Alone(background, pc)
  BY Zenon DEF AInv
<1>4. pc' \in [Request -> {"idle", "draining", "ready", "queued", "granted", "running"}]
      /\ pc'[r] = "queued" /\ \A s \in Request \ {r} : pc'[s] = pc[s]
  BY <1>1, <1>3, Zenon DEF Steady
<1>5. Waiting(ownerWaiters', {s \in Request : pc'[s] = "queued"})
  <2> DEFINE S == {s \in Request : pc[s] = "queued"}
  <2>1. Waiting(ownerWaiters, S) /\ r \notin S
    BY <1>1, <1>3, Zenon DEF Steady
  <2>2. S \cup {r} = {s \in Request : pc'[s] = "queued"}
    BY <1>4, Zenon
  <2> HIDE DEF S
  <2>3. Waiting(Append(ownerWaiters, r), S \cup {r})
    BY <2>1, WaitingAppend, Zenon
  <2> QED BY <1>1, <2>2, <2>3, Zenon
<1>6. Hold(pc') = Hold(pc)
  BY <1>1, <1>4, Zenon DEF Hold
<1>7. \A k : HoldOf(pc', k) = HoldOf(pc, k) /\ Running(pc', k) = Running(pc, k)
  BY <1>1, <1>4, <1>6, Zenon DEF HoldOf, Running
<1>8. Steady(ownerWaiters', inflight', keyInflight', pc', Slot(background'))
  BY <1>1, <1>3, <1>4, <1>5, <1>6, <1>7, Zenon DEF Steady
<1>9. Ran(gwInflight', pc')
  BY <1>1, <1>3, <1>7, Zenon DEF Ran
<1>10. Alone(background', pc')
  BY <1>1, <1>3, <1>4, Zenon DEF Alone
<1>11. WorkConserving'
  BY <1>1, <1>2, Zenon DEF WorkConserving
<1>12. Misc'
  BY <1>1, <1>3, Zenon DEF Misc
<1> QED BY <1>1, <1>8, <1>9, <1>10, <1>11, <1>12, AfterOther, Zenon

\* The handler of a granted request starts, and the gateway counts it.
LEMMA Starts ==
    ASSUME AInv, NEW r \in Request, Start(r)
    PROVE  AInv'
<1>1. /\ pc[r] = "granted" /\ pc' = [pc EXCEPT ![r] = "running"]
      /\ gwInflight' = [gwInflight EXCEPT ![keyId[r]] = @ + 1]
      /\ UNCHANGED <<inflight, keyInflight, ownerWaiters, skipped, snapshot, background, maintenance, startup>>
  BY Zenon DEF Start, fence
<1>2. Misc /\ Steady(ownerWaiters, inflight, keyInflight, pc, Slot(background)) /\ Ran(gwInflight, pc)
      /\ Alone(background, pc) /\ WorkConserving
  BY Zenon DEF AInv
<1>3. pc' \in [Request -> {"idle", "draining", "ready", "queued", "granted", "running"}]
      /\ pc'[r] = "running" /\ \A s \in Request \ {r} : pc'[s] = pc[s]
  BY <1>1, <1>2, Zenon DEF Steady
<1>4. Hold(pc') = Hold(pc) /\ {s \in Request : pc'[s] = "queued"} = {s \in Request : pc[s] = "queued"}
  BY <1>1, <1>3, Zenon DEF Hold
<1>5. \A k : HoldOf(pc', k) = HoldOf(pc, k)
  BY <1>4, Zenon DEF HoldOf
<1>6. Steady(ownerWaiters', inflight', keyInflight', pc', Slot(background'))
  BY <1>1, <1>2, <1>3, <1>4, <1>5, Zenon DEF Steady
<1>7. Ran(gwInflight', pc')
  <2>1. gwInflight \in [Key -> Nat] /\ keyId[r] \in Key
    BY <1>2, AdmissionAssumption, Zenon DEF Ran
  <2>2. gwInflight' \in [Key -> Nat] /\ gwInflight'[keyId[r]] = gwInflight[keyId[r]] + 1
        /\ \A k \in Key \ {keyId[r]} : gwInflight'[k] = gwInflight[k]
    BY <1>1, <2>1
  <2>3. Cardinality(Running(pc', keyId[r])) = Cardinality(Running(pc, keyId[r])) + 1
    <3>1. /\ Running(pc, keyId[r]) \in SUBSET Request /\ Running(pc', keyId[r]) \in SUBSET Request
          /\ r \notin Running(pc, keyId[r]) /\ Running(pc', keyId[r]) = Running(pc, keyId[r]) \cup {r}
      BY <1>1, <1>3, Zenon DEF Running
    <3> QED BY <3>1, OneMore, Zenon
  <2>4. \A k \in Key \ {keyId[r]} : Running(pc', k) = Running(pc, k)
    BY <1>1, <1>3, Zenon DEF Running
  <2>5. \A k \in Key : gwInflight[k] = Cardinality(Running(pc, k))
    BY <1>2, Zenon DEF Ran
  <2>6. \A k \in Key : gwInflight'[k] = Cardinality(Running(pc', k))
    BY <2>1, <2>2, <2>3, <2>4, <2>5, Zenon
  <2> QED BY <2>2, <2>6, Zenon DEF Ran
<1>8. Alone(background', pc')
  BY <1>1, <1>2, <1>3, ZenonT(30) DEF Alone
<1>9. WorkConserving'
  BY <1>1, <1>2, Zenon DEF WorkConserving
<1>10. Misc'
  BY <1>1, <1>2, Zenon DEF Misc
<1> QED BY <1>1, <1>6, <1>7, <1>8, <1>9, <1>10, AfterOther, Zenon

\* A slot given back, by a handler that settled or for a client that left before its
\* handler started.
LEMMA Releases ==
    ASSUME AInv, NEW r \in Request, CancelGrant(r) \/ Finish(r)
    PROVE  AInv'
<1> DEFINE at == [pc EXCEPT ![r] = "idle"]
           ku == [keyInflight EXCEPT ![keyId[r]] = @ - 1]
<1>1. /\ drainQueue(ownerWaiters, inflight - 1, ku, at, maintenance)
      /\ UNCHANGED <<snapshot, background, maintenance, startup>>
  BY Zenon DEF CancelGrant, Finish, releaseSlot, fence
<1>2. \/ pc[r] = "granted" /\ gwInflight' = gwInflight
      \/ pc[r] = "running" /\ gwInflight' = [gwInflight EXCEPT ![keyId[r]] = @ - 1]
  BY Zenon DEF CancelGrant, Finish
<1>3. Misc /\ Steady(ownerWaiters, inflight, keyInflight, pc, Slot(background)) /\ Ran(gwInflight, pc)
      /\ Alone(background, pc) /\ Slot(background) \in Nat
  BY Zenon DEF AInv, Slot
<1>4. at[r] = "idle" /\ \A s \in Request \ {r} : at[s] = pc[s]
  BY <1>3, Zenon DEF Steady
<1>5. Steady(ownerWaiters, inflight - 1, ku, at, Slot(background'))
  BY <1>1, <1>2, <1>3, Frees, Zenon
<1> HIDE DEF at, ku
<1>6. Ran(gwInflight', at)
  <2>1. CASE pc[r] = "granted" /\ gwInflight' = gwInflight
    <3>1. \A k : Running(at, k) = Running(pc, k)
      BY <1>4, <2>1, Zenon DEF Running
    <3> QED BY <1>3, <2>1, <3>1, Zenon DEF Ran
  <2>2. CASE pc[r] = "running" /\ gwInflight' = [gwInflight EXCEPT ![keyId[r]] = @ - 1]
    <3>1. gwInflight \in [Key -> Nat] /\ keyId[r] \in Key
      BY <1>3, AdmissionAssumption, Zenon DEF Ran
    <3>2. gwInflight'[keyId[r]] = gwInflight[keyId[r]] - 1 /\ DOMAIN gwInflight' = Key
          /\ (\A k \in Key \ {keyId[r]} : gwInflight'[k] = gwInflight[k])
          /\ gwInflight' = [k \in Key |-> gwInflight'[k]]
      BY <2>2, <3>1, Zenon
    <3>3. /\ Cardinality(Running(pc, keyId[r])) = Cardinality(Running(at, keyId[r])) + 1
          /\ Cardinality(Running(at, keyId[r])) \in Nat
      <4>1. /\ Running(pc, keyId[r]) \in SUBSET Request /\ Running(at, keyId[r]) \in SUBSET Request
            /\ r \notin Running(at, keyId[r]) /\ Running(pc, keyId[r]) = Running(at, keyId[r]) \cup {r}
        BY <1>4, <2>2, Zenon DEF Running
      <4> QED BY <4>1, OneMore, Zenon
    <3>4. \A k \in Key \ {keyId[r]} : Running(at, k) = Running(pc, k)
      BY <1>4, <2>2, Zenon DEF Running
    <3>5. \A k \in Key : gwInflight[k] = Cardinality(Running(pc, k))
      BY <1>3, Zenon DEF Ran
    <3>6. gwInflight'[keyId[r]] = Cardinality(Running(at, keyId[r])) /\ gwInflight'[keyId[r]] \in Nat
      BY <3>1, <3>2, <3>3, <3>5
    <3>7. \A k \in Key : gwInflight'[k] = Cardinality(Running(at, k)) /\ gwInflight'[k] \in Nat
      BY <3>1, <3>2, <3>4, <3>5, <3>6, Zenon
    <3>8. gwInflight' \in [Key -> Nat]
      BY <3>2, <3>7, Zenon
    <3> QED BY <3>7, <3>8, Zenon DEF Ran
  <2> QED BY <1>2, <2>1, <2>2, Zenon
<1>7. Alone(background', at)
  BY <1>1, <1>3, <1>4, Zenon DEF Alone
<1>8. Misc'
  BY <1>1, <1>3, Zenon DEF Misc
<1> QED BY <1>1, <1>5, <1>6, <1>7, <1>8, AfterDrain, Zenon

\* A waiter taken out of the queue leaves it in step.
LEMMA Leaves ==
    ASSUME NEW b, Steady(ownerWaiters, inflight, keyInflight, pc, b), NEW r \in Request, pc[r] = "queued"
    PROVE  Steady(Without(ownerWaiters, {i \in DOMAIN ownerWaiters : ownerWaiters[i] = r}),
                  inflight, keyInflight, [pc EXCEPT ![r] = "idle"], b)
<1> DEFINE at == [pc EXCEPT ![r] = "idle"]
           S == {s \in Request : pc[s] = "queued"}
           G == {i \in DOMAIN ownerWaiters : ownerWaiters[i] = r}
           U == {s \in S : \A i \in G \cap DOMAIN ownerWaiters : ownerWaiters[i] # s}
<1>1. at \in [Request -> {"idle", "draining", "ready", "queued", "granted", "running"}]
      /\ at[r] = "idle" /\ \A s \in Request \ {r} : at[s] = pc[s]
  BY Zenon DEF Steady
<1> HIDE DEF at
<1>2. Waiting(ownerWaiters, S)
  BY Zenon DEF Steady
<1>3. U = {s \in Request : at[s] = "queued"}
  <2>1. ASSUME NEW s \in U PROVE s \in Request /\ at[s] = "queued"
    <3>1. s \in S /\ \E i \in DOMAIN ownerWaiters : ownerWaiters[i] = s
      BY <1>2, Zenon DEF Waiting
    <3> QED BY <1>1, <3>1, Zenon
  <2>2. ASSUME NEW s \in Request, at[s] = "queued" PROVE s \in U
    BY <1>1, <2>2, Zenon
  <2> QED BY <2>1, <2>2, Zenon
<1> HIDE DEF S
<1>4. Waiting(Without(ownerWaiters, G), {s \in Request : at[s] = "queued"})
  BY <1>2, <1>3, WaitingWithout
<1>5. Hold(at) = Hold(pc)
  BY <1>1, Zenon DEF Hold
<1>6. \A k : HoldOf(at, k) = HoldOf(pc, k)
  BY <1>5, Zenon DEF HoldOf
<1> HIDE DEF G
<1>7. Steady(Without(ownerWaiters, G), inflight, keyInflight, at, b)
  BY <1>1, <1>4, <1>5, <1>6, Zenon DEF Steady
<1> QED BY <1>7, Zenon DEF at, G

\* A waiter leaves the queue: its timer fired or its client left.
LEMMA Discards ==
    ASSUME AInv, NEW r \in Request, Discard(r)
    PROVE  AInv'
<1> DEFINE at == [pc EXCEPT ![r] = "idle"]
           q == Without(ownerWaiters, {i \in DOMAIN ownerWaiters : ownerWaiters[i] = r})
<1>1. /\ pc[r] = "queued" /\ drainQueue(q, inflight, keyInflight, at, maintenance)
      /\ UNCHANGED <<snapshot, gwInflight, background, maintenance, startup>>
  BY Zenon DEF Discard, fence
<1>2. Misc /\ Steady(ownerWaiters, inflight, keyInflight, pc, Slot(background)) /\ Ran(gwInflight, pc)
      /\ Alone(background, pc)
  BY Zenon DEF AInv
<1>3. at[r] = "idle" /\ \A s \in Request \ {r} : at[s] = pc[s]
  BY <1>2, Zenon DEF Steady
<1>4. Steady(q, inflight, keyInflight, at, Slot(background'))
  BY <1>1, <1>2, Leaves, Zenon
<1> HIDE DEF at, q
<1>5. \A k : Running(at, k) = Running(pc, k)
  BY <1>1, <1>3, Zenon DEF Running
<1>6. Ran(gwInflight', at)
  BY <1>1, <1>2, <1>5, Zenon DEF Ran
<1>7. Alone(background', at)
  BY <1>1, <1>2, <1>3, Zenon DEF Alone
<1>8. Misc'
  BY <1>1, <1>2, Zenon DEF Misc
<1> QED BY <1>1, <1>4, <1>6, <1>7, <1>8, AfterDrain, Zenon

\* Background work starts on an idle controller.
LEMMA BackgroundStarts ==
    ASSUME AInv, StartBackground
    PROVE  AInv'
<1>1. /\ ~MicrotaskPending /\ background = "none" /\ inflight = 0 /\ ownerWaiters = <<>>
      /\ background' = "running" /\ inflight' = 1
      /\ UNCHANGED <<keyInflight, ownerWaiters, skipped, pc, snapshot, gwInflight, maintenance, startup>>
  BY Zenon DEF StartBackground, fence
<1>2. Misc /\ Steady(ownerWaiters, inflight, keyInflight, pc, 0) /\ Ran(gwInflight, pc)
      /\ Alone(background, pc) /\ WorkConserving
  BY <1>1, Zenon DEF AInv, Slot
<1>3. Hold(pc) = {} /\ Cardinality(Hold(pc)) = 0
  <2>1. inflight = Cardinality(Hold(pc)) + 0
    BY <1>2, Zenon DEF Steady
  <2>2. Cardinality(Hold(pc)) = 0
    BY <1>1, <2>1, Holds
  <2> QED BY <2>2, Holds, FS_EmptySet, Zenon
<1>4. {r \in Request : pc[r] = "queued"} = {}
  BY <1>1, <1>2, WaitingNone, Zenon DEF Steady
<1>5. \A r \in Request : pc[r] = "idle"
  <2> SUFFICES ASSUME NEW r \in Request PROVE pc[r] = "idle"
    OBVIOUS
  <2>1. pc[r] \notin {"granted", "running"} /\ pc[r] # "queued"
    BY <1>3, <1>4, Zenon DEF Hold
  <2>2. pc[r] # "ready" /\ pc[r] # "draining"
    BY <1>1, <1>2, Zenon DEF MicrotaskPending, Alone
  <2>3. pc[r] \in {"idle", "draining", "ready", "queued", "granted", "running"}
    BY <1>2, Zenon DEF Steady
  <2> QED BY <2>1, <2>2, <2>3, Zenon
<1>6. Alone(background', pc')
  BY <1>1, <1>5, Zenon DEF Alone
<1>7. Steady(ownerWaiters', inflight', keyInflight', pc', Slot(background'))
  <2>1. inflight' = Cardinality(Hold(pc')) + Slot(background') /\ inflight' <= maxInflight
    BY <1>1, <1>3, AdmissionAssumption DEF Slot
  <2> QED BY <1>1, <1>2, <2>1, Zenon DEF Steady
<1>8. Misc' /\ Ran(gwInflight', pc')
  BY <1>1, <1>2, Zenon DEF Misc, Ran
<1>9. WorkConserving'
  BY <1>1 DEF WorkConserving
<1> QED BY <1>1, <1>6, <1>7, <1>8, <1>9, AfterOther, Zenon

\* The requests that awaited the drain find the controller in step, its slot free.
LEMMA Resumes ==
    ASSUME Steady(ownerWaiters, inflight, keyInflight, pc, 1), \A r \in Request : pc[r] \in {"idle", "draining"}
    PROVE  Steady(ownerWaiters, inflight - 1, keyInflight,
                  [r \in Request |-> IF pc[r] = "draining" THEN "ready" ELSE pc[r]], 0)
<1> DEFINE at == [r \in Request |-> IF pc[r] = "draining" THEN "ready" ELSE pc[r]]
<1>1. \A r \in Request : at[r] = IF pc[r] = "draining" THEN "ready" ELSE "idle"
  OBVIOUS
<1>2. at \in [Request -> {"idle", "draining", "ready", "queued", "granted", "running"}]
  BY <1>1, Zenon
<1> HIDE DEF at
<1>3. {r \in Request : at[r] = "queued"} = {r \in Request : pc[r] = "queued"}
  BY <1>1, Zenon
<1>4. Hold(at) = Hold(pc)
  BY <1>1, Zenon DEF Hold
<1>5. \A k : HoldOf(at, k) = HoldOf(pc, k)
  BY <1>4, Zenon DEF HoldOf
<1>6. inflight - 1 = Cardinality(Hold(at)) + 0 /\ inflight - 1 <= maxInflight
  <2>1. inflight = Cardinality(Hold(pc)) + 1 /\ inflight <= maxInflight /\ Cardinality(Hold(pc)) \in Nat
    BY Holds, Zenon DEF Steady
  <2> QED BY <1>4, <2>1, AdmissionAssumption
<1>7. Steady(ownerWaiters, inflight - 1, keyInflight, at, 0)
  BY <1>2, <1>3, <1>5, <1>6, Zenon DEF Steady
<1> QED BY <1>7, Zenon DEF at

\* Background work settles, and the requests that awaited it go on.
LEMMA BackgroundEnds ==
    ASSUME AInv, BackgroundSettles
    PROVE  AInv'
<1> DEFINE at == [r \in Request |-> IF pc[r] = "draining" THEN "ready" ELSE pc[r]]
<1>1. /\ background # "none" /\ background' = "none"
      /\ drainQueue(ownerWaiters, inflight - 1, keyInflight, at, maintenance)
      /\ UNCHANGED <<snapshot, gwInflight, maintenance, startup>>
  BY Zenon DEF BackgroundSettles, fence
<1>2. Misc /\ Steady(ownerWaiters, inflight, keyInflight, pc, 1) /\ Ran(gwInflight, pc)
      /\ Alone(background, pc) /\ Slot(background') = 0
  BY <1>1, Zenon DEF AInv, Slot
<1>3. \A r \in Request : pc[r] \in {"idle", "draining"} /\ at[r] \in {"idle", "ready"}
  BY <1>1, <1>2, Zenon DEF Alone
<1>4. Steady(ownerWaiters, inflight - 1, keyInflight, at, Slot(background'))
  BY <1>2, <1>3, Resumes, Zenon
<1> HIDE DEF at
<1>5. \A k : Running(at, k) = Running(pc, k)
  BY <1>3, Zenon DEF Running
<1>6. Ran(gwInflight', at)
  BY <1>1, <1>2, <1>5, Zenon DEF Ran
<1>7. Alone(background', at)
  BY <1>1, <1>3, Zenon DEF Alone
<1>8. Misc'
  BY <1>1, <1>2, Zenon DEF Misc
<1> QED BY <1>1, <1>4, <1>6, <1>7, <1>8, AfterDrain, Zenon

\* The end of a maintenance setting drains the queue.
LEMMA DrainsInPlace ==
    ASSUME AInv, NEW m, drainQueue(ownerWaiters, inflight, keyInflight, pc, m),
           snapshot' = snapshot, gwInflight' = gwInflight, background' = background, startup' = startup,
           maintenance' \in Maintenance
    PROVE  AInv'
<1>1. Misc /\ Steady(ownerWaiters, inflight, keyInflight, pc, Slot(background)) /\ Ran(gwInflight, pc)
      /\ Alone(background, pc)
  BY Zenon DEF AInv
<1>2. Misc'
  BY <1>1, Zenon DEF Misc
<1> QED BY <1>1, <1>2, AfterDrain, Zenon

\* A fence raised or expired moves no request.
LEMMA FenceMoves ==
    ASSUME AInv, UNCHANGED <<slots, snapshot, gwInflight, background>>, maintenance' \in Maintenance,
           startup' \in BOOLEAN
    PROVE  AInv'
<1>1. UNCHANGED <<inflight, keyInflight, ownerWaiters, pc, skipped, snapshot, gwInflight, background>>
  BY Zenon DEF slots
<1>2. WorkConserving'
  BY <1>1, Zenon DEF AInv, WorkConserving
<1>3. Misc'
  BY <1>1, Zenon DEF AInv, Misc
<1> QED BY <1>1, <1>2, <1>3, Zenon DEF AInv

\* What requests and background work do preserves the invariant.
LEMMA Works ==
    ASSUME AInv, (\E r \in Request : RequestStep(r)) \/ StartBackground \/ BackgroundSettles
    PROVE  AInv'
<1>1. ASSUME NEW r \in Request, RequestStep(r) PROVE AInv'
  BY <1>1, Arrivals, Admissions, Enqueues, Starts, Releases, Discards, Zenon DEF RequestStep
<1> QED BY <1>1, BackgroundStarts, BackgroundEnds, Zenon

\* The settings that the controller can have.
LEMMA Settings ==
    /\ [on |-> FALSE, scope |-> "guest", deadline |-> "none"] \in Maintenance
    /\ [on |-> TRUE, scope |-> "exclusive", deadline |-> "ahead"] \in Maintenance
    /\ \A s \in Scope, d \in {"none", "ahead"} : [on |-> TRUE, scope |-> s, deadline |-> d] \in Maintenance
    /\ maintenance \in Maintenance => [maintenance EXCEPT !.deadline = "past"] \in Maintenance
<1>1. \A s \in Scope, d \in {"none", "ahead"} : [on |-> TRUE, scope |-> s, deadline |-> d] \in Maintenance
  BY Zenon DEF Maintenance
<1>2. maintenance \in Maintenance => [maintenance EXCEPT !.deadline = "past"] \in Maintenance
  BY Zenon DEF Maintenance
<1> QED BY <1>1, <1>2, Zenon DEF Maintenance, Scope

\* So do the fences.
LEMMA Fences ==
    ASSUME AInv, FenceStep
    PROVE  AInv'
<1>1. maintenance \in Maintenance /\ startup \in BOOLEAN
  BY Zenon DEF AInv, Misc
<1>2. ASSUME NEW s \in Scope, NEW d \in {"none", "ahead"}, MaintenanceOn(s, d) PROVE AInv'
  <2>1. UNCHANGED <<slots, snapshot, gwInflight, background, startup>> /\ maintenance' \in Maintenance
    BY <1>2, Settings, Zenon DEF MaintenanceOn
  <2> QED BY <1>1, <2>1, FenceMoves, Zenon
<1>3. CASE MaintenanceOff
  <2>1. drainQueue(ownerWaiters, inflight, keyInflight, pc, maintenance') /\ maintenance' \in Maintenance
        /\ UNCHANGED <<snapshot, gwInflight, background, startup>>
    BY <1>3, Settings, Zenon DEF MaintenanceOff
  <2> QED BY <2>1, DrainsInPlace, Zenon
<1>4. CASE WindowExpires
  <2>1. UNCHANGED <<slots, snapshot, gwInflight, background, startup>> /\ maintenance' \in Maintenance
    BY <1>1, <1>4, Settings, Zenon DEF WindowExpires
  <2> QED BY <1>1, <2>1, FenceMoves, Zenon
<1>5. CASE StartupFenceEnds
  <2>1. UNCHANGED <<slots, snapshot, gwInflight, background, maintenance>> /\ startup' \in BOOLEAN
    BY <1>5, Zenon DEF StartupFenceEnds
  <2> QED BY <1>1, <2>1, FenceMoves, Zenon
<1> QED BY <1>2, <1>3, <1>4, <1>5, Zenon DEF FenceStep

\* The controller starts idle.
LEMMA InitInv == Init => AInv
<1> SUFFICES ASSUME Init PROVE AInv
  OBVIOUS
<1>1. \A r \in Request : pc[r] = "idle"
  BY Zenon DEF Init
<1>2. Hold(pc) = {} /\ \A k : HoldOf(pc, k) = {} /\ Running(pc, k) = {}
  BY <1>1, Zenon DEF Hold, HoldOf, Running
<1>3. Cardinality({}) = 0
  BY FS_EmptySet, Zenon
<1>4. Waiting(ownerWaiters, {r \in Request : pc[r] = "queued"})
  BY <1>1, EmptySeq DEF Init, Waiting
<1>5. Steady(ownerWaiters, inflight, keyInflight, pc, Slot(background))
  <2>1. pc \in [Request -> {"idle", "draining", "ready", "queued", "granted", "running"}]
    BY Zenon DEF Init
  <2>2. inflight = 0 /\ Slot(background) = 0 /\ 0 <= maxInflight
    BY AdmissionAssumption DEF Init, Slot
  <2>3. keyInflight \in [Key -> Nat] /\ \A k \in Key : keyInflight[k] = 0
    BY Zenon DEF Init
  <2>4. inflight = Cardinality(Hold(pc)) + Slot(background) /\ inflight <= maxInflight
    BY <1>2, <1>3, <2>2
  <2>5. \A k \in Key : keyInflight[k] = Cardinality(HoldOf(pc, k))
    BY <1>2, <1>3, <2>3, Zenon
  <2> QED BY <1>4, <2>1, <2>3, <2>4, <2>5, Zenon DEF Steady
<1>6. Ran(gwInflight, pc)
  BY <1>2, <1>3, Zenon DEF Init, Ran
<1>7. Alone(background, pc)
  BY <1>1, Zenon DEF Init, Alone
<1>8. Misc /\ skipped \in BOOLEAN
  BY Zenon DEF Init, Misc, Maintenance, Scope
<1>9. WorkConserving
  BY DEF Init, WorkConserving
<1> QED BY <1>5, <1>6, <1>7, <1>8, <1>9, Zenon DEF AInv

\* The invariant implies the accounting of the slots.
LEMMA Accounts == AInv => SlotAccounting /\ BackgroundAlone /\ TypeOK
<1> SUFFICES ASSUME AInv PROVE SlotAccounting /\ BackgroundAlone /\ TypeOK
  OBVIOUS
<1>1. Misc /\ Steady(ownerWaiters, inflight, keyInflight, pc, Slot(background)) /\ Ran(gwInflight, pc)
      /\ Alone(background, pc) /\ skipped \in BOOLEAN
  BY Zenon DEF AInv
<1>2. Holders = Hold(pc) /\ \A k : HoldersOf(k) = HoldOf(pc, k)
  BY Zenon DEF Holders, HoldersOf, Hold, HoldOf
<1>3. inflight = Cardinality(Holders) + (IF background = "none" THEN 0 ELSE 1) /\ inflight <= maxInflight
  BY <1>1, <1>2, Zenon DEF Steady, Slot
<1>4. \A k \in Key : keyInflight[k] = Cardinality(HoldersOf(k))
  BY <1>1, <1>2, Zenon DEF Steady
<1>5. ASSUME NEW r \in Request
      PROVE  Cardinality({i \in DOMAIN ownerWaiters : ownerWaiters[i] = r}) = (IF pc[r] = "queued" THEN 1 ELSE 0)
  <2> DEFINE P == {i \in DOMAIN ownerWaiters : ownerWaiters[i] = r}
  <2>1. Waiting(ownerWaiters, {s \in Request : pc[s] = "queued"})
    BY <1>1, Zenon DEF Steady
  <2>2. CASE pc[r] = "queued"
    <3>1. PICK i \in DOMAIN ownerWaiters : ownerWaiters[i] = r
      BY <2>1, <2>2, Zenon DEF Waiting
    <3>2. P = {i}
      BY <2>1, <3>1 DEF Waiting
    <3> QED BY <2>2, <3>2, FS_Singleton, Zenon
  <2>3. CASE pc[r] # "queued"
    <3>1. P = {}
      BY <2>1, <2>3 DEF Waiting
    <3> QED BY <2>3, <3>1, FS_EmptySet, Zenon
  <2> QED BY <2>2, <2>3, Zenon
<1>6. ASSUME ~MicrotaskPending PROVE gwInflight = keyInflight
  <2>1. \A k : HoldOf(pc, k) = Running(pc, k)
    BY <1>6, Zenon DEF MicrotaskPending, Hold, HoldOf, Running
  <2>2. gwInflight \in [Key -> Nat] /\ keyInflight \in [Key -> Nat] /\ \A k \in Key : gwInflight[k] = keyInflight[k]
    BY <1>1, <2>1, Zenon DEF Ran, Steady
  <2> QED BY <2>2
<1>7. SlotAccounting
  BY <1>3, <1>4, <1>5, <1>6, Zenon DEF SlotAccounting
<1>8. BackgroundAlone
  <2> SUFFICES ASSUME background # "none" PROVE Holders = {} /\ ownerWaiters = <<>>
    BY Zenon DEF BackgroundAlone
  <2>1. Holders = {} /\ {s \in Request : pc[s] = "queued"} = {}
    BY <1>1, Zenon DEF Alone, Holders
  <2>2. Waiting(ownerWaiters, {s \in Request : pc[s] = "queued"})
    BY <1>1, Zenon DEF Steady
  <2> QED BY <2>1, <2>2, WaitingNone, Zenon
<1>9. TypeOK
  <2>1. inflight \in Nat
    BY <1>1, Holds DEF Steady, Slot
  <2> QED BY <1>1, <2>1, Zenon DEF TypeOK, Misc, Steady, Ran, Waiting
<1> QED BY <1>7, <1>8, <1>9, Zenon


\* The invariant is inductive.
LEMMA Inductive == AInv /\ [Next]_vars => AInv'
<1> SUFFICES ASSUME AInv, [Next]_vars PROVE AInv'
  OBVIOUS
<1>1. CASE Next
  BY <1>1, Works, Fences, Zenon DEF Next
<1>2. CASE UNCHANGED vars
  <2>1. UNCHANGED <<slots, snapshot, gwInflight, background>> /\ UNCHANGED <<maintenance, startup>>
    BY <1>2, Zenon DEF vars, fence
  <2>2. maintenance \in Maintenance /\ startup \in BOOLEAN
    BY Zenon DEF AInv, Misc
  <2> QED BY <2>1, <2>2, FenceMoves, Zenon
<1> QED BY <1>1, <1>2, Zenon

\* It holds throughout every run of the controller.
THEOREM Invariance == Spec => []AInv
<1>1. Init => AInv
  BY InitInv, Zenon
<1>2. AInv /\ [Next]_vars => AInv'
  BY Inductive, Zenon
<1> QED BY <1>1, <1>2, PTL DEF Spec

\* The controller's counts are exactly the slots held, by key and in total, within
\* the budget, and the queue holds exactly the requests that wait, each once.
THEOREM Accounted == Spec => []SlotAccounting
<1>1. AInv => SlotAccounting
  BY Accounts, Zenon
<1> QED BY Invariance, <1>1, PTL

\* Background work runs alone, however it starts, is aborted and drains.
THEOREM Exclusive == Spec => []BackgroundAlone
<1>1. AInv => BackgroundAlone
  BY Accounts, Zenon
<1> QED BY Invariance, <1>1, PTL

\* No drain leaves a free slot to an owner below its cap who waits.
THEOREM Conserving == Spec => []WorkConserving
<1>1. AInv => WorkConserving
  BY Zenon DEF AInv
<1> QED BY Invariance, <1>1, PTL

\* The types of queue, counts and settings are kept.
THEOREM TypeCorrect == Spec => []TypeOK
<1>1. AInv => TypeOK
  BY Accounts, Zenon
<1> QED BY Invariance, <1>1, PTL

-----------------------------------------------------------------------------
(* What the controller does to the order of the queue.                     *)

\* The waiters of q wait in the order of the queue.
InLine(q) ==
    \A i, j \in DOMAIN q : \E m, n \in DOMAIN ownerWaiters :
        ownerWaiters[m] = q[i] /\ ownerWaiters[n] = q[j] /\ (i < j => m < n)

\* r gets a slot while w, whom its cap would allow one, is left waiting.
Passes(r, w) ==
    /\ r \in Holders' \ Holders /\ pc[w] = "queued" /\ pc'[w] = "queued"
    /\ keyInflight'[keyId[w]] < maxParallel[keyId[w]]

Ahead(r, w) == pc[r] = "queued" /\ Position(r) < Position(w)

\* A request has one place in the queue.
LEMMA Places ==
    ASSUME AInv, NEW n \in DOMAIN ownerWaiters
    PROVE  Position(ownerWaiters[n]) = n
<1>1. \A i, j \in DOMAIN ownerWaiters : ownerWaiters[i] = ownerWaiters[j] => i = j
  BY Zenon DEF AInv, Steady, Waiting
<1> QED BY <1>1, Zenon DEF Position

\* A drain serves the queue in order.
LEMMA DrainsInOrder ==
    ASSUME AInv, NEW q, NEW used, NEW keyUsed, NEW at, NEW b \in Nat, NEW m,
           Steady(q, used, keyUsed, at, b), drainQueue(q, used, keyUsed, at, m),
           InLine(q), \A s \in Request : at[s] = pc[s] \/ at[s] = "idle",
           NEW r \in Request, NEW w \in Request, Passes(r, w)
    PROVE  Ahead(r, w)
<1>1. /\ \A s \in Request : pc'[s] = at[s] \/ (at[s] = "queued" /\ pc'[s] = "granted")
      /\ \A i, j \in DOMAIN q :
            pc'[q[i]] = "granted" /\ pc'[q[j]] = "queued"
              /\ keyInflight'[keyId[q[j]]] < maxParallel[keyId[q[j]]] => i < j
  BY Drains, Zenon
<1>2. pc'[r] \in {"granted", "running"} /\ pc[r] \notin {"granted", "running"}
      /\ pc'[w] = "queued" /\ keyInflight'[keyId[w]] < maxParallel[keyId[w]]
  BY Zenon DEF Passes, Holders
<1>3. at[r] = "queued" /\ pc[r] = "queued" /\ pc'[r] = "granted" /\ at[w] = "queued"
  BY <1>1, <1>2, Zenon
<1>4. (\E i \in DOMAIN q : q[i] = r) /\ (\E j \in DOMAIN q : q[j] = w)
  BY <1>3, Zenon DEF Steady, Waiting
<1>5. PICK i \in DOMAIN q, j \in DOMAIN q : q[i] = r /\ q[j] = w
  BY <1>4, Zenon
<1>6. i < j
  BY <1>1, <1>2, <1>3, <1>5, Zenon
<1>7. PICK x \in DOMAIN ownerWaiters, y \in DOMAIN ownerWaiters :
         ownerWaiters[x] = r /\ ownerWaiters[y] = w /\ x < y
  BY <1>5, <1>6, ZenonT(30) DEF InLine
<1>8. Position(r) = x /\ Position(w) = y
  BY <1>7, Places, Zenon
<1> QED BY <1>3, <1>7, <1>8, Zenon DEF Ahead

\* The queue is in its own order, and stays so when a waiter leaves it.
LEMMA InOwnLine == InLine(ownerWaiters)
BY Zenon DEF InLine

LEMMA StillInLine ==
    ASSUME AInv, NEW G
    PROVE  InLine(Without(ownerWaiters, G))
<1> DEFINE q == Without(ownerWaiters, G)
<1>1. ownerWaiters \in Seq(Request)
  BY Zenon DEF AInv, Steady, Waiting
<1>2. PICK f \in [DOMAIN q -> DOMAIN ownerWaiters \ G] :
         /\ \A n \in DOMAIN q : q[n] = ownerWaiters[f[n]]
         /\ \A m, n \in DOMAIN q : m < n => f[m] < f[n]
  BY <1>1, Splices, Zenon
<1> HIDE DEF q
<1>3. ASSUME NEW i \in DOMAIN q, NEW j \in DOMAIN q
      PROVE  \E m, n \in DOMAIN ownerWaiters :
                 ownerWaiters[m] = q[i] /\ ownerWaiters[n] = q[j] /\ (i < j => m < n)
  <2>1. f[i] \in DOMAIN ownerWaiters /\ f[j] \in DOMAIN ownerWaiters
    BY <1>2, Zenon
  <2> QED BY <1>2, <2>1, Zenon
<1>4. InLine(q)
  BY <1>3, Zenon DEF InLine
<1> QED BY <1>4, Zenon DEF q

\* A slot that comes free is handed on in the order of the queue.
LEMMA ReleasesInOrder ==
    ASSUME AInv, NEW s \in Request, CancelGrant(s) \/ Finish(s),
           NEW r \in Request, NEW w \in Request, Passes(r, w)
    PROVE  Ahead(r, w)
<1> DEFINE at == [pc EXCEPT ![s] = "idle"]
           ku == [keyInflight EXCEPT ![keyId[s]] = @ - 1]
<1>1. pc[s] \in {"granted", "running"} /\ drainQueue(ownerWaiters, inflight - 1, ku, at, maintenance)
  BY Zenon DEF CancelGrant, Finish, releaseSlot
<1>2. Steady(ownerWaiters, inflight, keyInflight, pc, Slot(background)) /\ Slot(background) \in Nat
  BY Zenon DEF AInv, Slot
<1>3. Steady(ownerWaiters, inflight - 1, ku, at, Slot(background))
  BY <1>1, <1>2, Frees, Zenon
<1>4. \A t \in Request : at[t] = pc[t] \/ at[t] = "idle"
  BY <1>2, Zenon DEF Steady
<1> HIDE DEF at, ku
<1> QED BY <1>1, <1>2, <1>3, <1>4, InOwnLine, DrainsInOrder, Zenon

\* So is the one that a waiter who leaves might have got.
LEMMA DiscardsInOrder ==
    ASSUME AInv, NEW s \in Request, Discard(s), NEW r \in Request, NEW w \in Request, Passes(r, w)
    PROVE  Ahead(r, w)
<1> DEFINE at == [pc EXCEPT ![s] = "idle"]
           q == Without(ownerWaiters, {i \in DOMAIN ownerWaiters : ownerWaiters[i] = s})
<1>1. pc[s] = "queued" /\ drainQueue(q, inflight, keyInflight, at, maintenance)
  BY Zenon DEF Discard
<1>2. Steady(ownerWaiters, inflight, keyInflight, pc, Slot(background)) /\ Slot(background) \in Nat
  BY Zenon DEF AInv, Slot
<1>3. Steady(q, inflight, keyInflight, at, Slot(background))
  BY <1>1, <1>2, Leaves, Zenon
<1>4. \A t \in Request : at[t] = pc[t] \/ at[t] = "idle"
  BY <1>2, Zenon DEF Steady
<1>5. InLine(q)
  BY StillInLine, Zenon
<1> HIDE DEF at, q
<1> QED BY <1>1, <1>2, <1>3, <1>4, <1>5, DrainsInOrder, Zenon

\* And those that the end of a maintenance setting hands out.
LEMMA ResumesInOrder ==
    ASSUME AInv, MaintenanceOff, NEW r \in Request, NEW w \in Request, Passes(r, w)
    PROVE  Ahead(r, w)
<1>1. drainQueue(ownerWaiters, inflight, keyInflight, pc, maintenance')
  BY Zenon DEF MaintenanceOff
<1>2. Steady(ownerWaiters, inflight, keyInflight, pc, Slot(background)) /\ Slot(background) \in Nat
  BY Zenon DEF AInv, Slot
<1> QED BY <1>1, <1>2, InOwnLine, DrainsInOrder, Zenon

\* A newcomer takes a slot past no waiter below its cap: were there one, the slot
\* would not be free.
LEMMA AdmitsInOrder ==
    ASSUME AInv, NEW s \in Request, AdmitNow(s), ~skipped, NEW r \in Request, NEW w \in Request, Passes(r, w)
    PROVE  FALSE
<1>1. /\ keyInflight \in [Key -> Nat] /\ Waiting(ownerWaiters, {t \in Request : pc[t] = "queued"})
      /\ WorkConserving
  BY Zenon DEF AInv, Steady
<1>2. keyId[w] \in Key /\ keyId[s] \in Key /\ maxParallel[keyId[w]] \in Nat
  BY AdmissionAssumption, Zenon
<1>3. pc[w] = "queued" /\ keyInflight'[keyId[w]] < maxParallel[keyId[w]]
  BY Zenon DEF Passes
<1>4. inflight < maxInflight /\ keyInflight' = [keyInflight EXCEPT ![keyId[s]] = @ + 1]
  BY Zenon DEF AdmitNow, admit
<1>5. keyInflight[keyId[w]] < maxParallel[keyId[w]]
  <2>1. keyInflight[keyId[w]] \in Nat
        /\ keyInflight'[keyId[w]] \in {keyInflight[keyId[w]], keyInflight[keyId[w]] + 1}
    BY <1>1, <1>2, <1>4, Zenon
  <2> QED BY <1>2, <1>3, <2>1
<1>6. PICK i \in DOMAIN ownerWaiters : ownerWaiters[i] = w
  BY <1>1, <1>3, Zenon DEF Waiting
<1>7. keyInflight[keyId[w]] >= maxParallel[keyId[w]]
  BY <1>1, <1>4, <1>6, Zenon DEF WorkConserving
<1>8. keyInflight[keyId[w]] \in Nat
  BY <1>1, <1>2, Zenon
<1> QED BY <1>2, <1>5, <1>7, <1>8

\* The other steps of a request give nobody a slot.
LEMMA KeepsSlots ==
    ASSUME AInv, NEW s \in Request, Arrive(s) \/ Reject(s) \/ Enqueue(s) \/ Start(s) \/ CancelDraining(s)
    PROVE  Holders' \subseteq Holders /\ (background = "none" => background' = "none")
<1>1. pc \in [Request -> {"idle", "draining", "ready", "queued", "granted", "running"}]
  BY Zenon DEF AInv, Steady
<1>2. CASE Arrive(s)
  BY <1>1, <1>2, Zenon DEF Arrive, Holders
<1>3. CASE Reject(s)
  BY <1>1, <1>3, Zenon DEF Reject, Holders
<1>4. CASE Enqueue(s)
  BY <1>1, <1>4, Zenon DEF Enqueue, Holders
<1>5. CASE Start(s)
  BY <1>1, <1>5, Zenon DEF Start, Holders
<1>6. CASE CancelDraining(s)
  BY <1>1, <1>6, Zenon DEF CancelDraining, Holders
<1> QED BY <1>2, <1>3, <1>4, <1>5, <1>6, Zenon

\* Fences that move no request give nobody a slot either, nor does the start of
\* background work.
LEMMA FencesKeepSlots ==
    ASSUME StartBackground \/ (\E c \in Scope, d \in {"none", "ahead"} : MaintenanceOn(c, d))
             \/ WindowExpires \/ StartupFenceEnds \/ UNCHANGED vars
    PROVE  Holders' = Holders
<1>1. pc' = pc
  BY Zenon DEF StartBackground, MaintenanceOn, WindowExpires, StartupFenceEnds, vars, slots
<1> QED BY <1>1, Zenon DEF Holders

\* Nobody is overtaken in a step of the controller.
LEMMA StepsInOrder ==
    ASSUME AInv, [Next]_vars, ~skipped, NEW r \in Request, NEW w \in Request, Passes(r, w)
    PROVE  Ahead(r, w)
<1>1. ~(Holders' \subseteq Holders) /\ pc[w] = "queued"
  BY Zenon DEF Passes
<1>2. ASSUME NEW s \in Request, RequestStep(s) PROVE Ahead(r, w)
  BY <1>1, <1>2, KeepsSlots, AdmitsInOrder, ReleasesInOrder, DiscardsInOrder, Zenon DEF RequestStep
<1>3. CASE BackgroundSettles
  BY <1>1, <1>3, Zenon DEF BackgroundSettles, AInv, Alone
<1>4. CASE StartBackground \/ UNCHANGED vars
  BY <1>1, <1>4, FencesKeepSlots, Zenon
<1>5. CASE FenceStep
  BY <1>1, <1>5, FencesKeepSlots, ResumesInOrder, Zenon DEF FenceStep
<1> QED BY <1>2, <1>3, <1>4, <1>5, Zenon DEF Next

\* Nobody overtakes: unless a fence held a drain back, a slot goes past no owner
\* who waits and whose key is below its cap.
THEOREM Fair == Spec => NoOvertaking
<1> DEFINE A == \A r, w \in Request :
                  (/\ ~skipped
                   /\ r \in Holders' \ Holders
                   /\ pc[w] = "queued" /\ pc'[w] = "queued"
                   /\ keyInflight'[keyId[w]] < maxParallel[keyId[w]])
                     => pc[r] = "queued" /\ Position(r) < Position(w)
<1>1. AInv /\ [Next]_vars => A
  <2> SUFFICES ASSUME AInv, [Next]_vars, NEW r \in Request, NEW w \in Request, ~skipped, Passes(r, w)
               PROVE  Ahead(r, w)
    BY Zenon DEF Passes, Ahead
  <2> QED BY StepsInOrder, Zenon
<1>2. NoOvertaking <=> [][A]_vars
  BY Zenon DEF NoOvertaking
<1> HIDE DEF A
<1>3. AInv /\ [Next]_vars => [A]_vars
  BY <1>1, Zenon
<1> QED BY Invariance, <1>2, <1>3, PTL DEF Spec

-----------------------------------------------------------------------------
(* What the exclusive fence keeps out.                                     *)

\* Behind the fence a drain hands out nothing.
LEMMA DrainsNothing ==
    ASSUME AInv, effectiveMaintenanceScope(maintenance) = "exclusive",
           (\E r \in Request : CancelGrant(r) \/ Finish(r) \/ Discard(r)) \/ BackgroundSettles
    PROVE  Holders' \subseteq Holders /\ (background = "none" => background' = "none")
<1>1. pc \in [Request -> {"idle", "draining", "ready", "queued", "granted", "running"}]
      /\ Steady(ownerWaiters, inflight, keyInflight, pc, Slot(background)) /\ Slot(background) \in Nat
  BY Zenon DEF AInv, Steady, Slot
<1>2. ASSUME NEW r \in Request, CancelGrant(r) \/ Finish(r)
      PROVE  pc' = [pc EXCEPT ![r] = "idle"] /\ background' = background
  <2> DEFINE at == [pc EXCEPT ![r] = "idle"]
             ku == [keyInflight EXCEPT ![keyId[r]] = @ - 1]
  <2>1. pc[r] \in {"granted", "running"} /\ drainQueue(ownerWaiters, inflight - 1, ku, at, maintenance)
        /\ background' = background
    BY <1>2, Zenon DEF CancelGrant, Finish, releaseSlot
  <2>2. Steady(ownerWaiters, inflight - 1, ku, at, Slot(background))
    BY <1>1, <2>1, Frees, Zenon
  <2> HIDE DEF at, ku
  <2>3. pc' = at
    BY <1>1, <2>1, <2>2, Drains
  <2> QED BY <2>1, <2>3, Zenon DEF at
<1>3. ASSUME NEW r \in Request, Discard(r)
      PROVE  pc' = [pc EXCEPT ![r] = "idle"] /\ background' = background
  <2> DEFINE at == [pc EXCEPT ![r] = "idle"]
             q == Without(ownerWaiters, {i \in DOMAIN ownerWaiters : ownerWaiters[i] = r})
  <2>1. pc[r] = "queued" /\ drainQueue(q, inflight, keyInflight, at, maintenance)
        /\ background' = background
    BY <1>3, Zenon DEF Discard
  <2>2. Steady(q, inflight, keyInflight, at, Slot(background))
    BY <1>1, <2>1, Leaves, Zenon
  <2> HIDE DEF at, q
  <2>3. pc' = at
    BY <1>1, <2>1, <2>2, Drains
  <2> QED BY <2>1, <2>3, Zenon DEF at
<1>4. CASE BackgroundSettles
  <2> DEFINE at == [r \in Request |-> IF pc[r] = "draining" THEN "ready" ELSE pc[r]]
  <2>1. drainQueue(ownerWaiters, inflight - 1, keyInflight, at, maintenance)
        /\ background # "none" /\ Slot(background) = 1 /\ \A r \in Request : pc[r] \in {"idle", "draining"}
    BY <1>4, Zenon DEF BackgroundSettles, AInv, Alone, Slot
  <2>2. Steady(ownerWaiters, inflight - 1, keyInflight, at, 0)
    BY <1>1, <2>1, Resumes, Zenon
  <2>3. \A r \in Request : at[r] \in {"idle", "ready"}
    BY <2>1, Zenon
  <2> HIDE DEF at
  <2>4. pc' = at
    BY <2>1, <2>2, Drains
  <2> QED BY <2>1, <2>3, <2>4, Zenon DEF Holders
<1>5. ASSUME NEW r \in Request, pc' = [pc EXCEPT ![r] = "idle"] PROVE Holders' \subseteq Holders
  BY <1>1, <1>5, Zenon DEF Holders
<1> QED BY <1>2, <1>3, <1>4, <1>5, Zenon

\* Nothing new gets a slot in a step behind the fence.
LEMMA StepsFenced ==
    ASSUME AInv, [Next]_vars, effectiveMaintenanceScope(maintenance) = "exclusive",
           effectiveMaintenanceScope(maintenance)' = "exclusive"
    PROVE  Holders' \subseteq Holders /\ (background = "none" => background' = "none")
<1>1. ASSUME NEW r \in Request, RequestStep(r)
      PROVE  Holders' \subseteq Holders /\ (background = "none" => background' = "none")
  <2>1. ~AdmitNow(r)
    BY Zenon DEF AdmitNow, admit
  <2> QED BY <1>1, <2>1, KeepsSlots, DrainsNothing, Zenon DEF RequestStep
<1>2. CASE BackgroundSettles
  BY <1>2, DrainsNothing, Zenon
<1>3. CASE StartBackground
  BY <1>3, Zenon DEF StartBackground
<1>4. CASE MaintenanceOff
  <2>1. drainQueue(ownerWaiters, inflight, keyInflight, pc, maintenance') /\ background' = background
        /\ startup' = startup
    BY <1>4, Zenon DEF MaintenanceOff
  <2>2. effectiveMaintenanceScope(maintenance') = "exclusive"
    BY <2>1, Zenon DEF effectiveMaintenanceScope
  <2>3. Steady(ownerWaiters, inflight, keyInflight, pc, Slot(background)) /\ Slot(background) \in Nat
    BY Zenon DEF AInv, Slot
  <2>4. pc' = pc
    BY <2>1, <2>2, <2>3, Drains
  <2> QED BY <2>1, <2>4, Zenon DEF Holders
<1>5. CASE (\E c \in Scope, d \in {"none", "ahead"} : MaintenanceOn(c, d)) \/ WindowExpires
             \/ StartupFenceEnds \/ UNCHANGED vars
  <2>1. background' = background
    BY <1>5, Zenon DEF MaintenanceOn, WindowExpires, StartupFenceEnds, vars
  <2> QED BY <1>5, <2>1, FencesKeepSlots, Zenon
<1> QED BY <1>1, <1>2, <1>3, <1>4, <1>5, Zenon DEF Next, FenceStep

\* Behind an exclusive window or the startup fence no request, no parked owner and
\* no background work gets a slot.
THEOREM Fenced == Spec => ExclusiveFence
<1> DEFINE A == (effectiveMaintenanceScope(maintenance) = "exclusive"
                   /\ effectiveMaintenanceScope(maintenance)' = "exclusive")
                  => /\ Holders' \subseteq Holders
                     /\ background = "none" => background' = "none"
<1>1. AInv /\ [Next]_vars => A
  BY StepsFenced, Zenon
<1>2. ExclusiveFence <=> [][A]_vars
  BY Zenon DEF ExclusiveFence
<1> HIDE DEF A
<1>3. AInv /\ [Next]_vars => [A]_vars
  BY <1>1, Zenon
<1> QED BY Invariance, <1>2, <1>3, PTL DEF Spec

-----------------------------------------------------------------------------
(* The exclusive maintenance window.                                       *)

\* The composition with the window keeps the controller's invariant.
LEMMA WindowSteady == AInv /\ [WNext]_wvars => AInv'
<1> SUFFICES ASSUME AInv, [WNext]_wvars PROVE AInv'
  OBVIOUS
<1>1. maintenance \in Maintenance /\ startup \in BOOLEAN
  BY Zenon DEF AInv, Misc
<1>2. ASSUME UNCHANGED <<slots, snapshot, gwInflight, background>>, maintenance' \in Maintenance,
             startup' \in BOOLEAN
      PROVE  AInv'
  BY <1>2, FenceMoves, Zenon
<1>3. ASSUME UNCHANGED vars PROVE AInv'
  BY <1>1, <1>2, <1>3, Zenon DEF vars, fence
<1>4. CASE (\E r \in Request : RequestStep(r)) \/ StartBackground \/ BackgroundSettles
  BY <1>4, Works, Zenon
<1>5. CASE StartupFenceEnds
  BY <1>5, Fences, Zenon DEF FenceStep
<1>6. CASE OpenFenced \/ OpenActive
  <2>1. UNCHANGED <<slots, snapshot, gwInflight, background>> /\ startup' = startup
        /\ maintenance' = [on |-> TRUE, scope |-> "exclusive", deadline |-> "ahead"]
    BY <1>6, Zenon DEF OpenFenced, OpenActive, RaiseFence
  <2> QED BY <1>1, <1>2, <2>1, Settings, Zenon
<1>7. CASE OpenFails /\ phase = "lease"
  BY <1>1, <1>2, <1>7, Zenon DEF OpenFails
<1>8. CASE (OpenFails /\ phase # "lease") \/ \E w \in 1..MaxWindow : Restore(w)
  <2>1. /\ drainQueue(ownerWaiters, inflight, keyInflight, pc, maintenance')
        /\ snapshot' = snapshot /\ gwInflight' = gwInflight /\ background' = background /\ startup' = startup
        /\ maintenance' = [on |-> FALSE, scope |-> "guest", deadline |-> "none"]
    BY <1>8, Zenon DEF OpenFails, Restore
  <2>2. maintenance' \in Maintenance
    BY <2>1, Settings, Zenon
  <2> QED BY <2>1, <2>2, DrainsInPlace, Zenon
<1>9. CASE (\E c \in Scope, d \in {"none", "ahead"} : OperatorOn(c, d)) \/ OperatorOff \/ FenceExpires
  <2>1. FenceStep
    BY <1>9, Zenon DEF OperatorOn, OperatorOff, FenceExpires, FenceStep
  <2> QED BY <2>1, Fences, Zenon
<1>10. CASE \/ Open \/ OpenDrained \/ OpenFailed \/ Close \/ OperatorAsks \/ OperatorGone
            \/ LeaseElsewhere \/ UNCHANGED wvars
  <2>1. UNCHANGED vars
    BY <1>10, Zenon DEF Open, OpenDrained, OpenFailed, Close, OperatorAsks, OperatorGone,
       LeaseElsewhere, wvars
  <2> QED BY <1>3, <2>1, Zenon
<1> QED BY <1>4, <1>5, <1>6, <1>7, <1>8, <1>9, <1>10, ZenonT(30) DEF WNext

\* The controller's accounts stay exact whatever windows open, fail and close.
THEOREM WindowAccounted == WSpec => [](SlotAccounting /\ BackgroundAlone)
<1>1. WInit => AInv
  BY InitInv, Zenon DEF WInit
<1>2. AInv /\ [WNext]_wvars => AInv'
  BY WindowSteady, Zenon
<1>3. AInv => SlotAccounting /\ BackgroundAlone
  BY Accounts, Zenon
<1> QED BY <1>1, <1>2, <1>3, PTL DEF WSpec

\* No request and no background work holds a slot, and nobody waits for one.
Quiet == Holders = {} /\ background = "none" /\ ownerWaiters = <<>>

Raised == maintenance = [on |-> TRUE, scope |-> "exclusive", deadline |-> "ahead"]

\* A raised fence is effective, with the startup fence or without it.
LEMMA RaisedIsExclusive == Raised => effectiveMaintenanceScope(maintenance) = "exclusive"
BY DEF Raised, effectiveMaintenanceScope

\* Behind a raised fence an idle controller stays idle.
LEMMA StaysQuiet ==
    ASSUME AInv, Quiet, Raised,
           \/ (\E r \in Request : RequestStep(r)) \/ StartBackground \/ BackgroundSettles
           \/ StartupFenceEnds
    PROVE  Quiet' /\ Raised'
<1>1. pc \in [Request -> {"idle", "draining", "ready", "queued", "granted", "running"}]
      /\ Waiting(ownerWaiters, {r \in Request : pc[r] = "queued"})
  BY Zenon DEF AInv, Steady
<1>2. effectiveMaintenanceScope(maintenance) = "exclusive"
  BY RaisedIsExclusive, Zenon
<1>3. DOMAIN ownerWaiters = {}
  BY EmptySeq DEF Quiet
<1>4. \A r \in Request : pc[r] \in {"idle", "draining", "ready"}
  BY <1>1, <1>3, Zenon DEF Quiet, Holders, Waiting
<1>5. ASSUME NEW r \in Request, RequestStep(r)
      PROVE  /\ Arrive(r) \/ Reject(r) \/ CancelDraining(r)
             /\ UNCHANGED <<ownerWaiters, background, maintenance>>
  <2>1. ~Start(r) /\ ~CancelGrant(r) /\ ~Finish(r) /\ ~Discard(r)
    BY <1>4, Zenon DEF Start, CancelGrant, Finish, Discard
  <2>2. ~AdmitNow(r) /\ ~Enqueue(r)
    BY <1>2, Zenon DEF AdmitNow, Enqueue, admit
  <2>3. Arrive(r) \/ Reject(r) \/ CancelDraining(r)
    BY <1>5, <2>1, <2>2, Zenon DEF RequestStep
  <2> QED BY <2>3, Zenon DEF Arrive, Reject, CancelDraining, fence, Quiet
<1>6. ASSUME NEW r \in Request, RequestStep(r) PROVE Quiet' /\ Raised'
  <2>1. Holders' \subseteq Holders
    BY <1>5, <1>6, KeepsSlots, Zenon
  <2> QED BY <1>5, <1>6, <2>1, Zenon DEF Quiet, Raised
<1>7. ~StartBackground /\ ~BackgroundSettles
  BY <1>2, Zenon DEF StartBackground, BackgroundSettles, Quiet
<1>8. CASE StartupFenceEnds
  BY <1>8, Zenon DEF StartupFenceEnds, slots, Quiet, Raised, Holders
<1> QED BY <1>6, <1>7, <1>8, Zenon

\* A controller that counts no slot has nobody in it.
LEMMA CountsNobody ==
    ASSUME AInv, inflight = 0, ownerWaiters = <<>>
    PROVE  Quiet
<1>1. inflight = Cardinality(Hold(pc)) + Slot(background) /\ Hold(pc) = Holders
  BY Zenon DEF AInv, Steady, Hold, Holders
<1>2. IsFiniteSet(Hold(pc)) /\ Cardinality(Hold(pc)) \in Nat
  BY Holds, Zenon
<1>3. Slot(background) \in {0, 1} /\ (background # "none" => Slot(background) = 1)
  BY Zenon DEF Slot
<1>4. Cardinality(Hold(pc)) = 0 /\ Slot(background) = 0
  BY <1>1, <1>2, <1>3
<1>5. Hold(pc) = {}
  BY <1>2, <1>4, FS_EmptySet, Zenon
<1> QED BY <1>1, <1>3, <1>4, <1>5 DEF Quiet

Phases == {"none", "lease", "drain", "residency", "active", "failed"}

\* Windows are opened one after the other; those that close are earlier ones.
Numbered ==
    /\ opened \in 0..MaxWindow /\ phase \in Phases
    /\ \A w \in closing : w \in 1..opened
    /\ phase # "none" => window = opened /\ opened # 0 /\ window \notin closing
    /\ phase = "none" => window = 0

\* The lease of a window that has raised its fence is not one of a window that closes.
Leased ==
    /\ lease \in {Free, Other} \cup 1..MaxWindow
    /\ phase \in {"drain", "residency", "active"} => \A w \in closing : lease # w

\* From the time the lease is won an intact fence is up.
Guarded == phase \in {"drain", "residency", "active"} /\ intact => Raised

\* Once drained, the controller is idle as long as the fence is intact.
Drained == phase \in {"residency", "active"} /\ intact => Quiet

WInv == AInv /\ Numbered /\ Leased /\ Guarded /\ Drained

Settled == Numbered /\ Leased /\ Guarded /\ Drained

\* What goes on in the gateway leaves the window as it is.
LEMMA GatewaySteps ==
    ASSUME WInv, UNCHANGED windowVars,
           \/ (\E r \in Request : RequestStep(r)) \/ StartBackground \/ BackgroundSettles
           \/ StartupFenceEnds
    PROVE  Settled'
<1>1. UNCHANGED <<window, phase, closing, lease, intact, opened>>
  BY Zenon DEF windowVars
<1>2. ASSUME NEW r \in Request, RequestStep(r) PROVE maintenance' = maintenance
  BY <1>2, Zenon DEF RequestStep, Arrive, AdmitNow, Reject, Enqueue, Start, CancelGrant, Finish,
     Discard, CancelDraining, fence
<1>3. maintenance' = maintenance
  BY <1>2, Zenon DEF StartBackground, BackgroundSettles, StartupFenceEnds, fence
<1>4. Numbered' /\ Leased' /\ Guarded'
  BY <1>1, <1>3, Zenon DEF WInv, Numbered, Leased, Guarded, Raised
<1>5. Drained'
  <2>1. phase \in {"residency", "active"} /\ intact => AInv /\ Quiet /\ Raised
    BY Zenon DEF WInv, Drained, Guarded
  <2>2. phase \in {"residency", "active"} /\ intact => Quiet'
    BY <2>1, StaysQuiet, Zenon
  <2> QED BY <1>1, <2>2, Zenon DEF Drained
<1> QED BY <1>4, <1>5, Zenon DEF Settled

\* A window begins: earlier ones may still be closing.
LEMMA Opens ==
    ASSUME WInv, Open
    PROVE  Settled'
<1>1. /\ phase = "none" /\ opened' = opened + 1 /\ window' = opened + 1 /\ phase' = "lease" /\ opened < MaxWindow
      /\ UNCHANGED <<closing, lease>>
  BY Zenon DEF Open, isBusy
<1>2. opened \in Nat /\ MaxWindow \in Nat /\ \A w \in closing : w \in 1..opened
  BY WindowAssumption DEF WInv, Numbered
<1>3. /\ opened' \in 0..MaxWindow /\ opened' # 0 /\ opened + 1 \notin closing
      /\ \A w \in closing : w \in 1..opened + 1
  BY <1>1, <1>2
<1>4. Numbered'
  BY <1>1, <1>3, Zenon DEF Numbered, Phases
<1>5. Leased' /\ Guarded' /\ Drained'
  BY <1>1, Zenon DEF WInv, Leased, Guarded, Drained
<1> QED BY <1>4, <1>5, Zenon DEF Settled

\* The lease is won, by a window that is not one of those that close.
LEMMA WinsLease ==
    ASSUME WInv, OpenFenced
    PROVE  Settled'
<1>1. /\ phase = "lease" /\ lease' = window /\ phase' = "drain"
      /\ maintenance' = [on |-> TRUE, scope |-> "exclusive", deadline |-> "ahead"]
      /\ UNCHANGED <<window, closing, opened>>
  BY Zenon DEF OpenFenced, RaiseFence
<1>2. window \notin closing /\ window \in 1..MaxWindow
  BY <1>1, WindowAssumption DEF WInv, Numbered
<1>3. Numbered'
  BY <1>1, Zenon DEF WInv, Numbered, Phases
<1>4. Leased' /\ Guarded' /\ Drained'
  BY <1>1, <1>2, Zenon DEF Leased, Guarded, Drained, Raised
<1> QED BY <1>3, <1>4, Zenon DEF Settled

\* The first wait of open() keeps the fence, and the controller is idle after it.
LEMMA Waits ==
    ASSUME WInv, OpenDrained
    PROVE  Settled'
<1>1. /\ phase = "drain" /\ phase' = "residency" /\ UNCHANGED vars
      /\ UNCHANGED <<window, closing, lease, intact, opened>>
      /\ inflight = 0 /\ ownerWaiters = <<>>
  BY Zenon DEF OpenDrained
<1>2. UNCHANGED <<pc, ownerWaiters, background, maintenance>>
  BY <1>1, Zenon DEF vars, slots, fence
<1>3. Numbered' /\ Leased' /\ Guarded'
  BY <1>1, <1>2, Zenon DEF WInv, Numbered, Phases, Leased, Guarded, Raised
<1>4. Quiet
  BY <1>1, CountsNobody, Zenon DEF WInv
<1>5. Drained'
  BY <1>2, <1>4, Zenon DEF Drained, Quiet, Holders
<1> QED BY <1>3, <1>5, Zenon DEF Settled

\* The window is handed out on an idle controller.
LEMMA Activates ==
    ASSUME WInv, OpenActive
    PROVE  Settled'
<1>1. /\ phase = "residency" /\ phase' = "active"
      /\ maintenance' = [on |-> TRUE, scope |-> "exclusive", deadline |-> "ahead"]
      /\ UNCHANGED <<window, closing, lease, intact, opened, pc, ownerWaiters, background>>
  BY Zenon DEF OpenActive, RaiseFence, slots
<1>2. Numbered' /\ Leased' /\ Guarded'
  BY <1>1, Zenon DEF WInv, Numbered, Phases, Leased, Guarded, Raised
<1>3. Drained'
  BY <1>1, Zenon DEF WInv, Drained, Quiet, Holders
<1> QED BY <1>2, <1>3, Zenon DEF Settled

\* A window that could not be opened lets its lease go.
LEMMA Fails ==
    ASSUME WInv, OpenFails \/ OpenFailed
    PROVE  Settled'
<1>1. CASE OpenFails
  <2>1. phase # "none" /\ phase' = "failed" /\ UNCHANGED <<window, closing, lease, opened>>
    BY <1>1, Zenon DEF OpenFails
  <2> QED BY <2>1, Zenon DEF WInv, Settled, Numbered, Phases, Leased, Guarded, Drained
<1>2. CASE OpenFailed
  <2>1. /\ phase' = "none" /\ window' = 0 /\ UNCHANGED <<closing, opened>>
        /\ lease' = IF lease = window THEN Free ELSE lease
    BY <1>2, Zenon DEF OpenFailed
  <2> QED BY <2>1, Zenon DEF WInv, Settled, Numbered, Phases, Leased, Guarded, Drained
<1> QED BY <1>1, <1>2, Zenon

\* While a fence is up, a window that closes has lost its lease: one that has it keeps
\* it until its release, and the lease of the later window would not have been won.
LEMMA Ends ==
    ASSUME WInv, Close \/ \E w \in 1..MaxWindow : Restore(w)
    PROVE  Settled'
<1>1. CASE Close
  <2>1. /\ phase = "active" /\ phase' = "none" /\ window' = 0 /\ closing' = closing \cup {window}
        /\ UNCHANGED <<lease, opened>>
    BY <1>1, Zenon DEF Close
  <2>2. opened \in Nat /\ opened # 0 /\ window = opened /\ \A w \in closing : w \in 1..opened
    BY <2>1 DEF WInv, Numbered
  <2>3. \A w \in closing' : w \in 1..opened
    BY <2>1, <2>2
  <2> QED BY <2>1, <2>3, Zenon DEF WInv, Settled, Numbered, Phases, Leased, Guarded, Drained
<1>2. ASSUME NEW w \in 1..MaxWindow, Restore(w) PROVE Settled'
  <2>1. /\ w \in closing /\ closing' = closing \ {w} /\ lease' = IF lease = w THEN Free ELSE lease
        /\ intact' = (intact /\ lease = w)
        /\ UNCHANGED <<window, phase, opened>>
    BY <1>2, Zenon DEF Restore
  <2>2. Numbered'
    BY <2>1, Zenon DEF WInv, Numbered
  <2>3. phase \in {"drain", "residency", "active"} => ~intact' /\ lease' = lease
    BY <2>1, Zenon DEF WInv, Leased
  <2>4. Leased'
    BY <2>1, <2>3, Zenon DEF WInv, Leased
  <2> QED BY <2>1, <2>2, <2>3, <2>4, Zenon DEF Settled, Guarded, Drained
<1> QED BY <1>1, <1>2, Zenon

\* What comes from outside either leaves the fence as it is or is the end of an intact
\* fence, and another process that takes the lease is no window.
LEMMA Meddles ==
    ASSUME WInv,
           \/ (\E c \in Scope, d \in {"none", "ahead"} : OperatorOn(c, d)) \/ OperatorOff
           \/ OperatorAsks \/ OperatorGone \/ FenceExpires \/ LeaseElsewhere
    PROVE  Settled'
<1>1. CASE (\E c \in Scope, d \in {"none", "ahead"} : OperatorOn(c, d)) \/ OperatorOff \/ FenceExpires
  <2>1. ~intact' /\ UNCHANGED <<window, phase, closing, lease, opened>>
    BY <1>1, Zenon DEF OperatorOn, OperatorOff, OperatorSets, FenceExpires
  <2> QED BY <2>1, Zenon DEF WInv, Settled, Numbered, Leased, Guarded, Drained
<1>2. CASE OperatorAsks \/ OperatorGone \/ LeaseElsewhere
  <2>1. UNCHANGED <<window, phase, closing, intact, opened>> /\ UNCHANGED vars
        /\ (lease' = lease \/ lease' = Free \/ lease' = Other)
    BY <1>2, Zenon DEF OperatorAsks, OperatorGone, LeaseElsewhere
  <2>2. UNCHANGED <<pc, ownerWaiters, background, maintenance>>
    BY <2>1, Zenon DEF vars, slots, fence
  <2>3. \A w \in closing : w # Free /\ w # Other
    BY DEF WInv, Numbered, Free, Other
  <2> QED BY <2>1, <2>2, <2>3, Zenon DEF WInv, Settled, Numbered, Leased, Guarded, Drained,
      Raised, Quiet, Holders
<1> QED BY <1>1, <1>2, Zenon

\* For every set of requests and keys and every number of windows and operator
\* requests: an active window is exclusive until it is closed, unless a late operator
\* request, the fence's deadline or a window that had lost its lease took its fence
\* down.
THEOREM WindowExclusive == WSpec => []WindowIsExclusive
<1>1. WInit => WInv
  <2> SUFFICES ASSUME WInit PROVE WInv
    OBVIOUS
  <2>1. AInv
    BY InitInv, Zenon DEF WInit
  <2>2. Numbered /\ Leased /\ Guarded /\ Drained
    BY WindowAssumption DEF WInit, Numbered, Phases, Leased, Guarded, Drained
  <2> QED BY <2>1, <2>2, Zenon DEF WInv
<1>2. WInv /\ [WNext]_wvars => WInv'
  <2> SUFFICES ASSUME WInv, [WNext]_wvars PROVE WInv'
    OBVIOUS
  <2>1. AInv'
    BY WindowSteady, Zenon DEF WInv
  <2>2. ASSUME WNext PROVE Settled'
    BY <2>2, GatewaySteps, Opens, WinsLease, Waits, Activates, Fails, Ends, Meddles, ZenonT(30)
       DEF WNext
  <2>3. ASSUME UNCHANGED wvars PROVE Settled'
    <3>1. UNCHANGED <<window, phase, closing, lease, intact, opened, pc, ownerWaiters, background, maintenance>>
      BY <2>3, Zenon DEF wvars, windowVars, vars, slots, fence
    <3> QED BY <3>1, Zenon DEF WInv, Settled, Numbered, Leased, Guarded, Drained, Raised, Quiet,
        Holders
  <2> QED BY <2>1, <2>2, <2>3, Zenon DEF WInv, Settled
<1>3. WInv => WindowIsExclusive
  BY RaisedIsExclusive, Zenon DEF WInv, Guarded, Drained, Quiet, WindowIsExclusive
<1> QED BY <1>1, <1>2, <1>3, PTL DEF WSpec

=============================================================================
