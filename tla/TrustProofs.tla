---------------------------- MODULE TrustProofs -----------------------------
(***************************************************************************)
(* Proofs about the kernel's records of trust, each for any values of its  *)
(* constants: the audit chain discloses what is missing from it and keeps  *)
(* a place for every class (AuditChain), a token opens what it was issued  *)
(* for and no more (Tokens), and what is loaded was allowed by an entry    *)
(* signed for it (Allowlist).                                              *)
(***************************************************************************)
EXTENDS AuditChain, Tokens, Allowlist, FiniteSetTheorems, WellFoundedInduction, TLAPS

(* The audit chain.                                                        *)

(* Every coalesced event leaves its class below the next threshold, or at  *)
(* the saturated count with a summary that says so.                        *)
Disclosed(c) ==
    \E i \in DOMAIN log : /\ log[i].class = c
                          /\ log[i].count <= dropped[c]
                          /\ dropped[c] < SUMMARY_GROWTH * log[i].count
                          /\ next_commit_at[c] <= SUMMARY_GROWTH * log[i].count

Threshold(c) ==
    /\ dropped[c] = 0 => next_commit_at[c] = 1
    /\ summaries[c] < MAX_SUMMARY_COMMITS =>
         /\ dropped[c] < next_commit_at[c] \/ dropped[c] = MAX_U64
         /\ dropped[c] > 0 => Disclosed(c)

(* The inductive strengthening of DropsDisclosed.                          *)
AuditInv == AuditTypeOK /\ \A c \in AuditClass : Threshold(c)

(* The chain starts empty, with every threshold at 1 (BoundedAudit::new).  *)
LEMMA InitEstablishes == AuditInit => AuditInv
  BY AuditAssumption DEF AuditInit, AuditInv, AuditTypeOK, Threshold, Entry

(* An append keeps every disclosure of another class.                      *)
LEMMA AppendKeeps ==
    ASSUME log \in Seq(Entry), NEW e \in Entry, log' = Append(log, e)
    PROVE  /\ log' \in Seq(Entry)
           /\ \A i \in DOMAIN log : i \in DOMAIN log' /\ log'[i] = log[i]
           /\ Len(log) + 1 \in DOMAIN log' /\ log'[Len(log) + 1] = e
  OBVIOUS

(* One counted event (coalesce) preserves the invariant.                   *)
LEMMA CoalescePreserves ==
    ASSUME AuditInv, NEW c \in AuditClass, coalesce(c)
    PROVE  AuditInv'
<1> DEFINE n == saturating(dropped[c] + 1)
           commit == summaries[c] < MAX_SUMMARY_COMMITS /\ n >= next_commit_at[c]
           e == [class |-> c, count |-> n]
<1>1. /\ log \in Seq(Entry)
      /\ recorded \in [AuditClass -> Nat]
      /\ dropped \in [AuditClass -> 0 .. MAX_U64]
      /\ summaries \in [AuditClass -> 0 .. MAX_SUMMARY_COMMITS]
      /\ next_commit_at \in [AuditClass -> 1 .. MAX_U64]
      /\ \A d \in AuditClass : recorded[d] <= Quota[d]
      /\ \A d \in AuditClass : Threshold(d)
  BY Zenon DEF AuditInv, AuditTypeOK
<1>2. /\ n \in 1 .. MAX_U64 /\ n <= dropped[c] + 1
      /\ n = dropped[c] + 1 \/ (n = MAX_U64 /\ dropped[c] = MAX_U64)
  BY <1>1, AuditAssumption DEF saturating
<1>3. /\ dropped' = [dropped EXCEPT ![c] = n]
      /\ recorded' = recorded
      /\ commit => /\ summaries' = [summaries EXCEPT ![c] = @ + 1]
                   /\ next_commit_at' = [next_commit_at EXCEPT ![c] = saturating(@ * SUMMARY_GROWTH)]
                   /\ log' = Append(log, e)
      /\ ~commit => UNCHANGED <<summaries, next_commit_at, log>>
  BY Zenon DEF coalesce
<1>4. CASE commit
  <2> DEFINE m == saturating(next_commit_at[c] * SUMMARY_GROWTH)
  <2>1. /\ m \in 1 .. MAX_U64 /\ m <= 4 * next_commit_at[c]
        /\ m = 4 * next_commit_at[c] \/ m = MAX_U64
    BY <1>1, AuditAssumption DEF saturating, SUMMARY_GROWTH
  <2>2. e \in Entry /\ e.class = c /\ e.count = n
    BY <1>2 DEF Entry
  <2>3. /\ log' \in Seq(Entry)
        /\ \A i \in DOMAIN log : i \in DOMAIN log' /\ log'[i] = log[i]
        /\ Len(log) + 1 \in DOMAIN log' /\ log'[Len(log) + 1] = e
    <3> HIDE DEF e
    <3> QED BY Zenon, <1>1, <1>3, <1>4, <2>2, AppendKeeps
  <2>4. /\ dropped'[c] = n
        /\ summaries'[c] = summaries[c] + 1
        /\ next_commit_at'[c] = m
        /\ \A d \in AuditClass \ {c} : /\ dropped'[d] = dropped[d]
                                       /\ summaries'[d] = summaries[d]
                                       /\ next_commit_at'[d] = next_commit_at[d]
    BY Zenon, <1>1, <1>3, <1>4
  <2>5. AuditTypeOK'
    <3>1. dropped' \in [AuditClass -> 0 .. MAX_U64]
      BY <1>1, <1>2, <1>3, AuditAssumption
    <3>2. summaries' \in [AuditClass -> 0 .. MAX_SUMMARY_COMMITS]
      <4>1. summaries[c] + 1 \in 0 .. MAX_SUMMARY_COMMITS
        BY <1>1, <1>4, AuditAssumption
      <4>2. summaries' = [summaries EXCEPT ![c] = summaries[c] + 1]
        BY Zenon, <1>3, <1>4
      <4> HIDE DEF n
      <4> QED BY Zenon, <1>1, <4>1, <4>2
    <3>3. next_commit_at' \in [AuditClass -> 1 .. MAX_U64]
      BY Zenon, <1>1, <1>3, <1>4, <2>1
    <3> QED BY Zenon, <1>1, <1>3, <2>3, <3>1, <3>2, <3>3 DEF AuditTypeOK
  <2>6. Threshold(c)'
    <3>1. dropped[c] < next_commit_at[c] \/ dropped[c] = MAX_U64
      BY Zenon, <1>1, <1>4 DEF Threshold
    <3>2. dropped'[c] < next_commit_at'[c] \/ dropped'[c] = MAX_U64
      BY <1>1, <1>2, <2>1, <2>4, <3>1
    <3>3. Disclosed(c)'
      <4> DEFINE i == Len(log) + 1
      <4>1. /\ i \in DOMAIN log' /\ log'[i].class = c /\ log'[i].count = n
        BY Zenon, <2>2, <2>3
      <4>2. /\ n <= dropped'[c] /\ dropped'[c] < 4 * n
            /\ next_commit_at'[c] <= 4 * n
        BY <1>1, <1>2, <1>4, <2>1, <2>4
      <4> HIDE DEF i, n
      <4> QED BY Zenon, <4>1, <4>2 DEF Disclosed, SUMMARY_GROWTH
    <3> QED BY <1>2, <2>4, <3>2, <3>3 DEF Threshold
  <2>7. ASSUME NEW d \in AuditClass \ {c} PROVE Threshold(d)'
    <3>1. Disclosed(d) => Disclosed(d)'
      BY Zenon, <2>3, <2>4 DEF Disclosed
    <3> QED BY Zenon, <1>1, <2>4, <3>1 DEF Threshold
  <2> QED BY Zenon, <2>5, <2>6, <2>7 DEF AuditInv
<1>5. CASE ~commit
  <2>1. /\ dropped'[c] = n
        /\ \A d \in AuditClass \ {c} : dropped'[d] = dropped[d]
        /\ summaries' = summaries /\ next_commit_at' = next_commit_at /\ log' = log
    BY Zenon, <1>1, <1>3, <1>5
  <2>2. AuditTypeOK'
    BY <1>1, <1>2, <1>3, <2>1 DEF AuditTypeOK
  <2>3. Threshold(c)'
    <3> SUFFICES ASSUME summaries[c] < MAX_SUMMARY_COMMITS
                 PROVE  n < next_commit_at[c] /\ Disclosed(c)'
      BY <1>2, <2>1 DEF Threshold
    <3>1. n < next_commit_at[c]
      BY <1>1, <1>2, <1>5
    <3>2. dropped[c] # 0
      BY <1>1, <1>2, <3>1 DEF Threshold
    <3>3. PICK i \in DOMAIN log :
             /\ log[i].class = c
             /\ log[i].count <= dropped[c]
             /\ dropped[c] < SUMMARY_GROWTH * log[i].count
             /\ next_commit_at[c] <= SUMMARY_GROWTH * log[i].count
      <4>1. Threshold(c) /\ dropped[c] > 0
        BY <1>1, <3>2
      <4>2. Disclosed(c)
        BY Zenon, <4>1 DEF Threshold
      <4> QED BY Zenon, <4>2 DEF Disclosed
    <3>4. log[i].count \in Nat
      <4>1. log[i] \in Entry
        BY <1>1
      <4> QED BY Zenon, <4>1 DEF Entry
    <3>5. log[i].count <= n /\ n < 4 * log[i].count
      BY <1>1, <1>2, <3>1, <3>3, <3>4 DEF SUMMARY_GROWTH
    <3> QED BY Zenon, <2>1, <3>1, <3>3, <3>5 DEF Disclosed, SUMMARY_GROWTH
  <2>4. ASSUME NEW d \in AuditClass \ {c} PROVE Threshold(d)'
    BY ZenonT(30), <1>1, <2>1 DEF Threshold, Disclosed
  <2> QED BY Zenon, <2>2, <2>3, <2>4 DEF AuditInv
<1> QED BY Zenon, <1>4, <1>5

(* An event that is appended (record within the quota) preserves it too.   *)
LEMMA RecordPreserves ==
    ASSUME AuditInv, NEW c \in AuditClass, record(c)
    PROVE  AuditInv'
<1>1. CASE ~can_record(c) /\ coalesce(c)
  BY Zenon, <1>1, CoalescePreserves
<1>2. CASE /\ can_record(c)
           /\ log' = Append(log, [class |-> c, count |-> 0])
           /\ recorded' = [recorded EXCEPT ![c] = @ + 1]
           /\ UNCHANGED <<dropped, summaries, next_commit_at>>
  <2>1. /\ log' \in Seq(Entry)
        /\ \A i \in DOMAIN log : i \in DOMAIN log' /\ log'[i] = log[i]
    BY ZenonT(30), <1>2, AppendKeeps DEF AuditInv, AuditTypeOK, Entry
  <2>2. recorded[c] < Quota[c]
    BY Zenon, <1>2 DEF can_record
  <2>3. AuditTypeOK'
    <3>1. recorded \in [AuditClass -> Nat] /\ Quota \in [AuditClass -> Nat]
          /\ \A d \in AuditClass : recorded[d] <= Quota[d]
      BY Zenon, AuditAssumption DEF AuditInv, AuditTypeOK
    <3>2. recorded' \in [AuditClass -> Nat] /\ \A d \in AuditClass : recorded'[d] <= Quota[d]
      BY <1>2, <2>2, <3>1
    <3> QED BY Zenon, <1>2, <2>1, <3>2 DEF AuditInv, AuditTypeOK
  <2>4. ASSUME NEW d \in AuditClass PROVE Threshold(d)'
    <3>1. Disclosed(d) => Disclosed(d)'
      BY Zenon, <1>2, <2>1 DEF Disclosed
    <3> QED BY Zenon, <1>2, <3>1 DEF AuditInv, Threshold
  <2> QED BY Zenon, <2>3, <2>4 DEF AuditInv
<1> QED BY Zenon, <1>1, <1>2 DEF record

(* The strengthened invariant holds in every reachable state of the chain. *)
THEOREM AuditInvariant == AuditSpec => []AuditInv
<1>1. AuditInv /\ [AuditNext]_auditVars => AuditInv'
  <2> SUFFICES ASSUME AuditInv, [AuditNext]_auditVars PROVE AuditInv'
    BY Zenon
  <2>1. CASE AuditNext
    BY Zenon, <2>1, RecordPreserves, CoalescePreserves DEF AuditNext, note_coalesced
  <2>2. CASE UNCHANGED auditVars
    BY Zenon, <2>2 DEF auditVars, AuditInv, AuditTypeOK, Threshold, Disclosed
  <2> QED BY Zenon, <2>1, <2>2
<1> QED BY <1>1, InitEstablishes, PTL DEF AuditSpec

(* No class exceeds its quota or its summaries, in any chain of            *)
(* BoundedAudit::record and note_coalesced calls.                          *)
THEOREM AuditTypes == AuditSpec => []AuditTypeOK
<1>1. AuditInv => AuditTypeOK
  BY Zenon DEF AuditInv
<1> QED BY <1>1, AuditInvariant, PTL

(* coalesce's summaries at 1, 4, 16, ... disclose the number of dropped    *)
(* events of a class to within SUMMARY_GROWTH, saturated counters included.*)
THEOREM DropsAreDisclosed == AuditSpec => []DropsDisclosed
<1>1. AuditInv => DropsDisclosed
  BY Zenon DEF AuditInv, Threshold, Disclosed, DropsDisclosed
<1> QED BY <1>1, AuditInvariant, PTL

(* The reserved places a class has filled: events from the first, then,    *)
(* past its quota, summaries.                                              *)
Filled ==
    {p \in Reserved : \/ p[2] <= recorded[p[1]]
                      \/ Quota[p[1]] < p[2] /\ p[2] <= Quota[p[1]] + summaries[p[1]]}

(* The books balance with the chain, class by class, and an entry of the   *)
(* chain is a reserved place that has been filled.                         *)
BooksInv ==
    /\ AuditTypeOK
    /\ \A c \in AuditClass : /\ Cardinality(Entries(c)) = recorded[c]
                             /\ Cardinality(Summaries(c)) = summaries[c]
    /\ Len(log) = Cardinality(Filled)

(* What the classes have reserved is finite (total_capacity).              *)
LEMMA ReservedFinite ==
    /\ IsFiniteSet(Reserved)
    /\ \A c \in AuditClass : \A k : <<c, k>> \in Reserved <=> k \in 1 .. Quota[c] + MAX_SUMMARY_COMMITS
    /\ \A p \in Reserved : p[1] \in AuditClass /\ p[2] \in Nat \ {0} /\ p = <<p[1], p[2]>>
<1> DEFINE room == [c \in AuditClass |-> {c} \X (1 .. Quota[c] + MAX_SUMMARY_COMMITS)]
           rooms == {room[c] : c \in AuditClass}
<1>1. rooms = {{c} \X (1 .. Quota[c] + MAX_SUMMARY_COMMITS) : c \in AuditClass}
  BY Zenon
<1>2. IsFiniteSet(rooms)
  <2>1. room \in Surjection(AuditClass, rooms)
    <3>1. room \in [AuditClass -> rooms] /\ \A r \in rooms : \E c \in AuditClass : room[c] = r
      BY Zenon
    <3> HIDE DEF room, rooms
    <3> QED
      BY Zenon, <3>1 DEF Surjection
  <2> QED
    BY Zenon, <2>1, FS_Surjection, AuditAssumption
<1>3. \A r \in rooms : IsFiniteSet(r)
  <2> SUFFICES ASSUME NEW c \in AuditClass PROVE IsFiniteSet({c} \X (1 .. Quota[c] + MAX_SUMMARY_COMMITS))
    BY Zenon, <1>1
  <2>1. IsFiniteSet({c}) /\ IsFiniteSet(1 .. Quota[c] + MAX_SUMMARY_COMMITS)
    <3>1. 1 \in Int /\ Quota[c] + MAX_SUMMARY_COMMITS \in Int
      BY AuditAssumption
    <3> QED
      BY ZenonT(30), <3>1, FS_Singleton, FS_Interval
  <2> QED
    BY ZenonT(30), <2>1, FS_Product
<1>4. IsFiniteSet(Reserved)
  BY ZenonT(30), <1>1, <1>2, <1>3, FS_UNION DEF Reserved
<1>5. \A c \in AuditClass : \A k : <<c, k>> \in Reserved <=> k \in 1 .. Quota[c] + MAX_SUMMARY_COMMITS
  BY DEF Reserved
<1>6. \A p \in Reserved : p[1] \in AuditClass /\ p[2] \in Nat \ {0} /\ p = <<p[1], p[2]>>
  BY AuditAssumption DEF Reserved
<1> QED
  BY Zenon, <1>4, <1>5, <1>6

(* An entry appended to the chain counts for its own class and kind, and   *)
(* for nothing else.                                                       *)
LEMMA AppendCounts ==
    ASSUME log \in Seq(Entry), NEW e \in Entry, log' = Append(log, e), NEW c \in AuditClass
    PROVE  /\ Cardinality(Entries(c)') = Cardinality(Entries(c)) + (IF e.class = c /\ e.count = 0 THEN 1 ELSE 0)
           /\ Cardinality(Summaries(c)') = Cardinality(Summaries(c)) + (IF e.class = c /\ e.count > 0 THEN 1 ELSE 0)
           /\ Len(log') = Len(log) + 1
<1> DEFINE n == Len(log) + 1
<1>1. /\ DOMAIN log = 1 .. Len(log) /\ DOMAIN log' = 1 .. n /\ Len(log') = n /\ Len(log) \in Nat
      /\ \A i \in DOMAIN log : log'[i] = log[i]
      /\ log'[n] = e
  OBVIOUS
<1>2. IsFiniteSet(DOMAIN log)
  <2>1. 1 \in Int /\ Len(log) \in Int
    BY <1>1
  <2> QED
    BY Zenon, <1>1, <2>1, FS_Interval
<1>3. /\ IsFiniteSet(Entries(c)) /\ Cardinality(Entries(c)) \in Nat /\ n \notin Entries(c)
      /\ IsFiniteSet(Summaries(c)) /\ Cardinality(Summaries(c)) \in Nat /\ n \notin Summaries(c)
  <2>1. Entries(c) \in SUBSET DOMAIN log /\ Summaries(c) \in SUBSET DOMAIN log
    BY Zenon DEF Entries, Summaries
  <2>2. IsFiniteSet(Entries(c)) /\ IsFiniteSet(Summaries(c))
    BY Zenon, <1>2, <2>1, FS_Subset
  <2> QED
    BY <1>1, <2>1, <2>2, FS_CardinalityType
<1>4. /\ Entries(c)' = IF e.class = c /\ e.count = 0 THEN Entries(c) \cup {n} ELSE Entries(c)
      /\ Summaries(c)' = IF e.class = c /\ e.count > 0 THEN Summaries(c) \cup {n} ELSE Summaries(c)
  BY <1>1 DEF Entries, Summaries
<1>5. /\ Cardinality(Entries(c) \cup {n}) = Cardinality(Entries(c)) + 1
      /\ Cardinality(Summaries(c) \cup {n}) = Cardinality(Summaries(c)) + 1
  BY ZenonT(30), <1>3, FS_AddElement
<1> QED
  BY <1>1, <1>3, <1>4, <1>5

(* One class's books change by one entry, and the chain grows by it: the   *)
(* next place of that class is filled, and no other.                       *)
LEMMA FillsOnePlace ==
    ASSUME BooksInv, AuditTypeOK', NEW c \in AuditClass, NEW k \in Nat,
           Len(log') = Len(log) + 1,
           \A d \in AuditClass \ {c} : recorded'[d] = recorded[d] /\ summaries'[d] = summaries[d],
           \/ k = recorded[c] + 1 /\ recorded'[c] = k /\ summaries'[c] = summaries[c]
           \/ /\ k = Quota[c] + summaries[c] + 1
              /\ summaries'[c] = summaries[c] + 1 /\ recorded'[c] = recorded[c]
    PROVE  Len(log') = Cardinality(Filled')
<1> DEFINE p == <<c, k>>
<1>1. /\ recorded \in [AuditClass -> Nat] /\ summaries \in [AuditClass -> 0 .. MAX_SUMMARY_COMMITS]
      /\ recorded' \in [AuditClass -> Nat] /\ summaries' \in [AuditClass -> 0 .. MAX_SUMMARY_COMMITS]
      /\ \A d \in AuditClass : recorded[d] <= Quota[d] /\ recorded'[d] <= Quota[d]
      /\ Quota \in [AuditClass -> Nat] /\ MAX_SUMMARY_COMMITS \in Nat
  BY Zenon, AuditAssumption DEF BooksInv, AuditTypeOK
<1>2. p \in Reserved /\ p \notin Filled
  <2>1. k \in 1 .. Quota[c] + MAX_SUMMARY_COMMITS
    BY <1>1
  <2>2. ~(k <= recorded[c]) /\ ~(Quota[c] < k /\ k <= Quota[c] + summaries[c])
    BY <1>1
  <2> QED
    BY Zenon, <2>1, <2>2, ReservedFinite DEF Filled
<1>3. Filled' = Filled \cup {p}
  <2>1. p \in Filled'
    BY <1>1, <1>2 DEF Filled
  <2>2. ASSUME NEW q \in Reserved, q # p
        PROVE  q \in Filled' <=> q \in Filled
    <3>1. q[1] \in AuditClass /\ q[2] \in Nat \ {0} /\ (q[1] = c => q[2] # k)
      BY Zenon, <2>2, ReservedFinite
    <3>2. CASE q[1] = c
      <4>1. q[2] \in Nat /\ q[2] # k
        BY Zenon, <3>1, <3>2
      <4>2. \/ /\ q[2] <= recorded'[c] <=> q[2] <= recorded[c]
               /\ summaries'[c] = summaries[c]
            \/ /\ recorded'[c] = recorded[c]
               /\ q[2] <= Quota[c] + summaries'[c] <=> q[2] <= Quota[c] + summaries[c]
        BY SMTT(30), <1>1, <4>1
      <4> QED
        BY Zenon, <2>2, <3>2, <4>2 DEF Filled
    <3>3. CASE q[1] # c
      BY Zenon, <2>2, <3>1, <3>3 DEF Filled
    <3> QED
      BY Zenon, <3>2, <3>3
  <2> QED
    BY Zenon, <1>2, <2>1, <2>2 DEF Filled
<1>4. IsFiniteSet(Filled) /\ Cardinality(Filled) \in Nat
  <2>1. Filled \in SUBSET Reserved
    BY Zenon DEF Filled
  <2> QED
    BY Zenon, <2>1, ReservedFinite, FS_Subset, FS_CardinalityType
<1> HIDE DEF p
<1>5. Cardinality(Filled \cup {p}) = Cardinality(Filled) + 1
  BY ZenonT(30), <1>2, <1>4, FS_AddElement
<1> QED
  BY Zenon, <1>3, <1>4, <1>5 DEF BooksInv

(* A counted event adds at most a summary to the books and to the chain.   *)
LEMMA CoalesceBalances ==
    ASSUME BooksInv, AuditTypeOK', NEW c \in AuditClass, coalesce(c)
    PROVE  BooksInv'
<1> DEFINE n == saturating(dropped[c] + 1)
           e == [class |-> c, count |-> n]
<1>1. /\ log \in Seq(Entry) /\ dropped \in [AuditClass -> 0 .. MAX_U64]
      /\ recorded \in [AuditClass -> Nat] /\ summaries \in [AuditClass -> 0 .. MAX_SUMMARY_COMMITS]
      /\ Quota \in [AuditClass -> Nat] /\ MAX_SUMMARY_COMMITS \in Nat
  BY Zenon, AuditAssumption DEF BooksInv, AuditTypeOK
<1>2. n \in 1 .. MAX_U64 /\ e \in Entry /\ e.class = c /\ e.count = n
  BY <1>1, AuditAssumption DEF saturating, Entry
<1>3. CASE UNCHANGED <<summaries, recorded, log>>
  BY ZenonT(30), <1>3 DEF BooksInv, Entries, Summaries, Filled
<1>4. CASE /\ summaries' = [summaries EXCEPT ![c] = @ + 1] /\ recorded' = recorded
           /\ log' = Append(log, e)
  <2> HIDE DEF n, e
  <2>1. \A d \in AuditClass :
           /\ Cardinality(Entries(d)') = Cardinality(Entries(d))
                                           + (IF e.class = d /\ e.count = 0 THEN 1 ELSE 0)
           /\ Cardinality(Summaries(d)') = Cardinality(Summaries(d))
                                           + (IF e.class = d /\ e.count > 0 THEN 1 ELSE 0)
           /\ Len(log') = Len(log) + 1
    BY Zenon, <1>1, <1>2, <1>4, AppendCounts
  <2>2. \A d \in AuditClass : summaries'[d] = IF d = c THEN summaries[d] + 1 ELSE summaries[d]
    BY Zenon, <1>1, <1>4
  <2>3. \A d \in AuditClass : /\ Cardinality(Entries(d)') = recorded'[d]
                              /\ Cardinality(Summaries(d)') = summaries'[d]
    BY SMTT(30), <1>1, <1>2, <1>4, <2>1, <2>2 DEF BooksInv
  <2>4. Len(log') = Cardinality(Filled')
    <3> DEFINE k == Quota[c] + summaries[c] + 1
    <3>1. k \in Nat
      BY <1>1
    <3> HIDE DEF k
    <3>2. /\ k = Quota[c] + summaries[c] + 1
          /\ summaries'[c] = summaries[c] + 1 /\ recorded'[c] = recorded[c]
          /\ \A d \in AuditClass \ {c} : recorded'[d] = recorded[d] /\ summaries'[d] = summaries[d]
      BY Zenon, <1>4, <2>2 DEF k
    <3> QED
      BY Zenon, <2>1, <3>1, <3>2, FillsOnePlace
  <2> QED
    BY Zenon, <2>3, <2>4 DEF BooksInv
<1> QED
  BY Zenon, <1>3, <1>4 DEF coalesce

(* A recorded event adds one to its class's books and to the chain.        *)
LEMMA RecordBalances ==
    ASSUME BooksInv, AuditTypeOK', NEW c \in AuditClass, record(c)
    PROVE  BooksInv'
<1> DEFINE e == [class |-> c, count |-> 0]
<1>1. /\ log \in Seq(Entry) /\ recorded \in [AuditClass -> Nat]
  BY Zenon DEF BooksInv, AuditTypeOK
<1>2. e \in Entry /\ e.class = c /\ e.count = 0
  BY Zenon DEF Entry
<1>3. CASE ~can_record(c) /\ coalesce(c)
  BY Zenon, <1>3, CoalesceBalances
<1>4. CASE /\ log' = Append(log, e)
           /\ recorded' = [recorded EXCEPT ![c] = @ + 1] /\ summaries' = summaries
  <2> HIDE DEF e
  <2>1. \A d \in AuditClass :
           /\ Cardinality(Entries(d)') = Cardinality(Entries(d))
                                           + (IF e.class = d /\ e.count = 0 THEN 1 ELSE 0)
           /\ Cardinality(Summaries(d)') = Cardinality(Summaries(d))
                                           + (IF e.class = d /\ e.count > 0 THEN 1 ELSE 0)
           /\ Len(log') = Len(log) + 1
    BY Zenon, <1>1, <1>2, <1>4, AppendCounts
  <2>2. \A d \in AuditClass : recorded'[d] = IF d = c THEN recorded[d] + 1 ELSE recorded[d]
    BY Zenon, <1>1, <1>4
  <2>3. \A d \in AuditClass : /\ Cardinality(Entries(d)') = recorded'[d]
                              /\ Cardinality(Summaries(d)') = summaries'[d]
    BY SMTT(30), <1>1, <1>2, <1>4, <2>1, <2>2 DEF BooksInv, AuditTypeOK
  <2>4. Len(log') = Cardinality(Filled')
    <3> DEFINE k == recorded[c] + 1
    <3>1. k \in Nat
      BY <1>1
    <3> HIDE DEF k
    <3>2. /\ k = recorded[c] + 1 /\ recorded'[c] = k /\ summaries'[c] = summaries[c]
          /\ \A d \in AuditClass \ {c} : recorded'[d] = recorded[d] /\ summaries'[d] = summaries[d]
      BY Zenon, <1>4, <2>2 DEF k
    <3> QED
      BY Zenon, <2>1, <3>1, <3>2, FillsOnePlace
  <2> QED
    BY Zenon, <2>3, <2>4 DEF BooksInv
<1> QED
  BY Zenon, <1>3, <1>4 DEF record

(* The chain's books balance with its entries, and a class with quota left *)
(* can append, whatever the other classes have appended: the room a class  *)
(* has reserved is its own, summaries included (BoundedAudit::verify and   *)
(* record's test against TOTAL_CAPACITY).                                  *)
THEOREM AuditStaysSound == AuditSpec => []AuditSound
<1>1. AuditInit => BooksInv
  <2> SUFFICES ASSUME AuditInit PROVE BooksInv
    BY Zenon
  <2>1. AuditTypeOK
    BY Zenon, InitEstablishes DEF AuditInv
  <2>2. \A c \in AuditClass : Entries(c) = {} /\ Summaries(c) = {}
    BY DEF AuditInit, Entries, Summaries
  <2>3. Filled = {}
    BY ReservedFinite, AuditAssumption DEF AuditInit, Filled
  <2> QED
    BY ZenonT(30), <2>1, <2>2, <2>3, FS_EmptySet DEF AuditInit, BooksInv
<1>2. BooksInv /\ AuditInv' /\ [AuditNext]_auditVars => BooksInv'
  <2> SUFFICES ASSUME BooksInv, AuditTypeOK', [AuditNext]_auditVars PROVE BooksInv'
    BY Zenon DEF AuditInv
  <2>1. CASE AuditNext
    BY Zenon, <2>1, RecordBalances, CoalesceBalances DEF AuditNext, note_coalesced
  <2>2. CASE UNCHANGED auditVars
    BY ZenonT(30), <2>2 DEF auditVars, BooksInv, AuditTypeOK, Entries, Summaries, Filled
  <2> QED
    BY Zenon, <2>1, <2>2
<1>3. BooksInv => AuditSound
  <2> SUFFICES ASSUME BooksInv PROVE AuditSound
    BY Zenon
  <2>1. Filled \in SUBSET Reserved
    BY Zenon DEF Filled
  <2>2. /\ Cardinality(Filled) \in Nat /\ Cardinality(Reserved) \in Nat
        /\ Cardinality(Filled) <= Cardinality(Reserved)
        /\ Cardinality(Filled) = Cardinality(Reserved) => Filled = Reserved
    BY Zenon, <2>1, ReservedFinite, FS_Subset, FS_CardinalityType
  <2>3. verify
    BY Zenon, <2>2 DEF BooksInv, verify, total_capacity
  <2>4. ASSUME NEW c \in AuditClass, recorded[c] < Quota[c]
        PROVE  Len(log) < total_capacity
    <3>1. <<c, Quota[c]>> \in Reserved /\ <<c, Quota[c]>> \notin Filled
      <4>1. /\ Quota[c] \in 1 .. Quota[c] + MAX_SUMMARY_COMMITS
            /\ ~(Quota[c] <= recorded[c]) /\ ~(Quota[c] < Quota[c])
        BY <2>4, AuditAssumption DEF BooksInv, AuditTypeOK
      <4> QED
        BY Zenon, <4>1, ReservedFinite DEF Filled
    <3> QED
      BY <2>2, <3>1 DEF BooksInv, total_capacity
  <2>5. RoomReserved
    BY Zenon, <2>4 DEF RoomReserved, can_record
  <2> QED
    BY Zenon, <2>3, <2>5 DEF BooksInv, AuditSound
<1> QED
  BY <1>1, <1>2, <1>3, AuditInvariant, PTL DEF AuditSpec

-----------------------------------------------------------------------------
(* Capability tokens.                                                      *)

(* What issue_token puts in a token: a resource for the range asked for, or *)
(* the port's, and an expiry LIFETIME after its issue.                     *)
Issued(t) ==
    /\ t.base \in Word /\ t.len \in Nat
    /\ t.issued_at \in Nat /\ t.expires_at = t.issued_at + LIFETIME
    /\ \/ t.resource = ioport_range_resource(t.base, t.len)
       \/ t.resource = mmio_window_resource(t.base, t.len)
       \/ t.resource = port_resource

(* The inductive invariant: the last answer is still the one the check     *)
(* would give now, and every revoked signature has its fingerprint listed. *)
Answered ==
    /\ access.on = "ports" =>
         /\ access.token \in issued /\ access.at \in Word /\ access.len \in Nat
         /\ access.ok <=> authorized_for_ioport(access.token, access.at, access.len)
    /\ access.on = "memory" =>
         /\ access.token \in issued /\ access.at \in Word /\ access.len \in Nat
         /\ access.ok <=> check_mmio_window(access.token, access.at, access.len)
    /\ access.on = "query" =>
         (access.ok <=> is_fingerprint_revoked(signature_fingerprint(signature(access.token))))

TokensInv ==
    /\ ticks \in Nat
    /\ \A t \in issued : Issued(t)
    /\ \A s \in revocations.signatures : signature_fingerprint(s) \in revocations.fingerprints
    /\ Answered

(* The check on a range of ports is the inclusion of the ports asked for   *)
(* in the ones the token was issued for, provided these exist              *)
(* (ioport_access_within, parse_ioport_range).                             *)
LEMMA PortsAreInclusion ==
    ASSUME NEW t, Issued(t), NEW port \in Word, NEW width \in Nat
    PROVE  ioport_access_within(t.resource, port, width) <=>
             /\ t.resource.kind = "ioport"
             /\ width > 0 /\ {port + k : k \in 0 .. width - 1} \subseteq Granted(t)
             /\ Granted(t) \subseteq Word
<1> DEFINE asked == {port + k : k \in 0 .. width - 1}
           last == t.base + t.len - 1
<1>1. CASE t.resource.kind # "ioport"
  BY Zenon, <1>1 DEF ioport_access_within, parse_ioport_range
<1>2. CASE t.resource.kind = "ioport"
  <2>1. /\ t.resource = [kind |-> "ioport", first |-> t.base, second |-> last]
        /\ t.len # 0
    BY <1>2 DEF Issued, ioport_range_resource, mmio_window_resource, port_resource
  <2>2. /\ t.base \in Nat /\ t.len \in Nat /\ last \in Nat /\ last >= t.base /\ t.base <= MAX_PORT
        /\ MAX_PORT \in Nat /\ port \in Nat /\ port <= MAX_PORT
    BY <2>1, TokensAssumption DEF Issued, Word
  <2>3. \A x : x \in Granted(t) <=> x \in Nat /\ t.base <= x /\ x <= last
    <3>1. ASSUME NEW x \in t.base .. last PROVE x \in Granted(t)
      <4>1. x - t.base \in 0 .. t.len - 1 /\ x = t.base + (x - t.base)
        BY <2>2
      <4> QED
        BY Zenon, <4>1 DEF Granted
    <3>2. ASSUME NEW x \in Granted(t) PROVE x \in Nat /\ t.base <= x /\ x <= last
      BY <2>2 DEF Granted
    <3> QED
      BY <2>2, <3>1, <3>2
  <2>4. Granted(t) \subseteq Word <=> last \in Word
    BY <2>2, <2>3 DEF Word
  <2>5. ASSUME width > 0 PROVE asked \subseteq Granted(t) <=> t.base <= port /\ port + width - 1 <= last
    <3>1. port + 0 \in asked /\ port + (width - 1) \in asked
      BY <2>5
    <3>2. \A x \in asked : x \in Nat /\ port <= x /\ x <= port + width - 1
      BY <2>2
    <3> HIDE DEF asked
    <3> QED
      BY <2>2, <2>3, <2>5, <3>1, <3>2
  <2>6. parse_ioport_range(t.resource) = IF last \in Word THEN {<<t.base, last>>} ELSE {}
    BY <2>1, <2>2 DEF parse_ioport_range, Word
  <2>7. ioport_access_within(t.resource, port, width) <=>
          /\ last \in Word /\ width > 0
          /\ port + (width - 1) \in Word /\ t.base <= port /\ port + (width - 1) <= last
    <3>1. checked_add(port, width - 1) = IF port + (width - 1) \in Word THEN {port + (width - 1)} ELSE {}
      BY Zenon DEF checked_add
    <3>2. CASE last \in Word
      <4>1. parse_ioport_range(t.resource) = {<<t.base, last>>} /\ <<t.base, last>>[1] = t.base
               /\ <<t.base, last>>[2] = last
        BY Zenon, <2>6, <3>2
      <4> HIDE DEF last
      <4> QED
        BY Zenon, <3>1, <3>2, <4>1 DEF ioport_access_within
    <3>3. CASE last \notin Word
      BY Zenon, <2>6, <3>3 DEF ioport_access_within
    <3> QED
      BY Zenon, <3>2, <3>3
  <2> HIDE DEF asked, last
  <2>8. last \in Word /\ width > 0 /\ port + (width - 1) <= last => port + (width - 1) \in Word
    BY <2>2 DEF Word
  <2>9. width > 0 => port + (width - 1) = port + width - 1
    BY Zenon, <2>2
  <2> QED
    BY Zenon, <1>2, <2>4, <2>5, <2>7, <2>8, <2>9 DEF asked
<1> QED
  BY Zenon, <1>1, <1>2

(* A window that is mapped lies inside the one the token names, and both   *)
(* end short of the top of the address space (mmio_window_contains).       *)
LEMMA WindowsAreInside ==
    ASSUME NEW t, Issued(t), NEW at \in Word, NEW len \in Nat,
           t.resource.kind = "mmio", mmio_window_contains(t.resource.first, t.resource.second, at, len)
    PROVE  {at + k : k \in 0 .. len - 1} \subseteq Granted(t) \cap Word
<1>1. t.resource.first = t.base /\ t.resource.second = t.len
  BY DEF Issued, ioport_range_resource, mmio_window_resource, port_resource
<1>2. /\ t.base \in Nat /\ t.len \in Nat /\ at \in Nat /\ MAX_PORT \in Nat
      /\ t.base <= at /\ at + len <= t.base + t.len /\ at + len <= MAX_PORT
  BY <1>1, TokensAssumption DEF Issued, Word, mmio_window_contains, checked_add
<1> SUFFICES ASSUME NEW k \in 0 .. len - 1 PROVE at + k \in Granted(t) /\ at + k \in Word
  BY Zenon
<1>3. (at - t.base) + k \in 0 .. t.len - 1 /\ at + k = t.base + ((at - t.base) + k) /\ at + k \in Word
  BY <1>2 DEF Word
<1> QED
  BY Zenon, <1>3 DEF Granted

(* Each action keeps the invariant: a change of the clock, the tokens or   *)
(* the revocations leaves no answer behind, and a use records its own.     *)
LEMMA TokensInvNext == TokensInv /\ [TokensNext]_tokenVars => TokensInv'
<1> SUFFICES ASSUME TokensInv, [TokensNext]_tokenVars PROVE TokensInv'
  BY Zenon
<1>1. NoAccess.on = "none"
  BY Zenon DEF NoAccess
<1>2. ASSUME access' = NoAccess PROVE Answered'
  BY Zenon, <1>1, <1>2 DEF Answered
<1>3. CASE UNCHANGED tokenVars
  <2>1. \A t, port, width : authorized_for_ioport(t, port, width)' <=> authorized_for_ioport(t, port, width)
    BY Zenon, <1>3 DEF authorized_for_ioport, is_revoked, verify_token, tokenVars
  <2>2. \A t, at, len : check_mmio_window(t, at, len)' <=> check_mmio_window(t, at, len)
    BY Zenon, <1>3 DEF check_mmio_window, verify_token, tokenVars
  <2>3. \A fp : is_fingerprint_revoked(fp)' <=> is_fingerprint_revoked(fp)
    BY Zenon, <1>3 DEF is_fingerprint_revoked, tokenVars
  <2> QED
    BY Zenon, <1>3, <2>1, <2>2, <2>3 DEF TokensInv, Answered, tokenVars
<1>4. ASSUME NEW resource, NEW base \in Word, NEW len \in Nat, issue_token(resource, base, len),
             \/ resource = ioport_range_resource(base, len)
             \/ resource = mmio_window_resource(base, len)
             \/ resource = port_resource
      PROVE  TokensInv'
  <2> DEFINE t == [resource |-> resource, issued_at |-> ticks, expires_at |-> ticks + LIFETIME,
                   base |-> base, len |-> len]
  <2>1. Issued(t)
    <3>1. /\ t.resource = resource /\ t.issued_at = ticks /\ t.expires_at = ticks + LIFETIME
          /\ t.base = base /\ t.len = len
      BY Zenon
    <3> HIDE DEF t
    <3> QED
      BY Zenon, <1>4, <3>1 DEF TokensInv, Issued
  <2>2. issued' = issued \cup {t} /\ access' = NoAccess /\ UNCHANGED <<ticks, revocations>>
    BY Zenon, <1>4 DEF issue_token
  <2> HIDE DEF t
  <2> QED
    BY Zenon, <1>2, <2>1, <2>2 DEF TokensInv
<1>5. ASSUME NEW t \in issued, revoke_token(t)
      PROVE  TokensInv'
  <2>1. /\ revocations'.signatures = revocations.signatures \cup {signature(t)}
        /\ revocations'.fingerprints = revocations.fingerprints \cup {signature_fingerprint(signature(t))}
        /\ access' = NoAccess /\ UNCHANGED <<ticks, issued>>
    BY Zenon, <1>5 DEF revoke_token, WithRevoked
  <2> QED
    BY Zenon, <1>2, <2>1 DEF TokensInv
<1>6. ASSUME NEW t \in issued, Use(t)
      PROVE  TokensInv'
  <2>1. /\ UNCHANGED <<ticks, issued, revocations>>
        /\ \A u, port, width : authorized_for_ioport(u, port, width)' <=> authorized_for_ioport(u, port, width)
        /\ \A u, at, len : check_mmio_window(u, at, len)' <=> check_mmio_window(u, at, len)
        /\ \A fp : is_fingerprint_revoked(fp)' <=> is_fingerprint_revoked(fp)
    BY Zenon, <1>6 DEF Use, authorized_for_ioport, is_revoked, verify_token, check_mmio_window, is_fingerprint_revoked
  <2>2. CASE port_io(t)
    <3>1. PICK port \in Word, width \in Widths :
             access' = [on |-> "ports", token |-> t, at |-> port, len |-> width,
                        ok |-> authorized_for_ioport(t, port, width)]
      BY Zenon, <2>2 DEF port_io
    <3>2. /\ access'.on = "ports" /\ access'.token = t /\ access'.at = port /\ access'.len = width
          /\ access'.ok <=> authorized_for_ioport(t, port, width)
      BY Zenon, <3>1
    <3>3. width \in Nat
      BY Zenon, TokensAssumption
    <3> QED
      BY Zenon, <2>1, <3>2, <3>3 DEF TokensInv, Answered
  <2>3. CASE map_window(t)
    <3>1. PICK base \in Word, len \in Lengths :
             access' = [on |-> "memory", token |-> t, at |-> base, len |-> len,
                        ok |-> check_mmio_window(t, base, len)]
      BY Zenon, <2>3 DEF map_window
    <3>2. /\ access'.on = "memory" /\ access'.token = t /\ access'.at = base /\ access'.len = len
          /\ access'.ok <=> check_mmio_window(t, base, len)
      BY Zenon, <3>1
    <3>3. len \in Nat
      BY Zenon, TokensAssumption
    <3> QED
      BY Zenon, <2>1, <3>2, <3>3 DEF TokensInv, Answered
  <2>4. CASE ask_revoked(t)
    <3>1. /\ access'.on = "query" /\ access'.token = t
          /\ access'.ok <=> is_fingerprint_revoked(signature_fingerprint(signature(t)))
      BY Zenon, <2>4 DEF ask_revoked
    <3> QED
      BY Zenon, <2>1, <3>1 DEF TokensInv, Answered
  <2> QED
    BY Zenon, <1>6, <2>2, <2>3, <2>4 DEF Use
<1>7. CASE TimePasses
  <2>1. ticks' = ticks + 1 /\ access' = NoAccess /\ UNCHANGED <<issued, revocations>>
    BY Zenon, <1>7 DEF TimePasses
  <2> QED
    BY <1>2, <2>1 DEF TokensInv
<1>8. 0 \in Word /\ 0 \in Nat /\ Lengths \subseteq Nat
  BY TokensAssumption DEF Word
<1> QED
  BY Zenon, <1>3, <1>4, <1>5, <1>6, <1>7, <1>8 DEF TokensNext

(* For every size of the port space, every range and every access: a token *)
(* opens exactly the ports it was issued for, until it expires or is       *)
(* revoked, and only the window it names, until it expires, and the        *)
(* fingerprint query never passes a revoked one (authorized_for_ioport,    *)
(* check_mmio_window, is_fingerprint_revoked).                             *)
THEOREM TokensStayHeld == TokensSpec => []TokensHold
<1>1. TokensInit => TokensInv
  BY DEF TokensInit, TokensInv, Answered, NoAccess
<1>2. TokensInv => TokensHold
  <2> SUFFICES ASSUME TokensInv PROVE TokensHold
    BY Zenon
  <2>1. ASSUME access.on = "ports"
        PROVE  PortAccessExact
    <3> DEFINE t == access.token
    <3>1. t \in issued /\ Issued(t) /\ access.at \in Word /\ access.len \in Nat
      BY Zenon, <2>1 DEF TokensInv, Answered
    <3>2. access.ok <=> authorized_for_ioport(t, access.at, access.len)
      BY Zenon, <2>1 DEF TokensInv, Answered
    <3>3. verify_token(t) <=> ticks <= t.issued_at + LIFETIME
      BY Zenon, <3>1 DEF verify_token, Issued
    <3>4. ioport_access_within(t.resource, access.at, access.len) <=>
             /\ t.resource.kind = "ioport"
             /\ access.len > 0 /\ Asked(access) \subseteq Granted(t)
             /\ Granted(t) \subseteq Word
      BY Zenon, <3>1, PortsAreInclusion DEF Asked
    <3> HIDE DEF t
    <3>5. access.ok <=> /\ t.resource.kind = "ioport"
                        /\ access.len > 0 /\ Asked(access) \subseteq Granted(t)
                        /\ Granted(t) \subseteq Word
                        /\ ticks <= t.issued_at + LIFETIME
                        /\ <<t.resource, t.issued_at, t.expires_at>> \notin revocations.signatures
      BY Zenon, <3>2, <3>3, <3>4 DEF authorized_for_ioport, is_revoked, signature, canonical_token
    <3> QED
      BY Zenon, <3>5 DEF PortAccessExact, t
  <2>2. ASSUME access.on = "memory", access.ok
        PROVE  WindowInside
    <3> DEFINE t == access.token
    <3>1. t \in issued /\ Issued(t) /\ access.at \in Word /\ access.len \in Nat
      BY Zenon, <2>2 DEF TokensInv, Answered
    <3>2. check_mmio_window(t, access.at, access.len)
      BY Zenon, <2>2 DEF TokensInv, Answered
    <3>3. t.resource.kind = "mmio" /\ ticks <= t.issued_at + LIFETIME
      BY Zenon, <3>1, <3>2 DEF check_mmio_window, verify_token, Issued
    <3>4. Asked(access) \subseteq Granted(t) \cap Word
      BY Zenon, <3>1, <3>2, WindowsAreInside DEF check_mmio_window, Asked
    <3> QED
      BY ZenonT(30), <3>3, <3>4 DEF WindowInside
  <2>3. QueryFailsClosed
    BY Zenon DEF TokensInv, Answered, QueryFailsClosed, is_revoked, is_fingerprint_revoked
  <2>4. access.on # "ports" => PortAccessExact
    BY Zenon DEF PortAccessExact
  <2>5. ~(access.on = "memory" /\ access.ok) => WindowInside
    BY Zenon DEF WindowInside
  <2> QED
    BY Zenon, <2>1, <2>2, <2>3, <2>4, <2>5 DEF TokensHold
<1> QED
  BY <1>1, <1>2, TokensInvNext, PTL DEF TokensSpec

-----------------------------------------------------------------------------
(* The allowlists.                                                         *)

(* The inductive invariant adds to what the run checks the types, that     *)
(* each entry's signature is over the fields it was signed with, and that  *)
(* every decision but one for want of an entry is what evaluate_load would *)
(* still decide.                                                           *)
Kinds == {"BootAllowlist", "InstanceAllowlist"}
EntryOK(e) ==
    /\ e.fields \in ManifestFields(list_kind)
    /\ e.kind \in Kinds
    /\ e.signed \in ManifestFields(e.kind)
    /\ e.signature.over = canonical_string(e.kind, e.signed)
WasAsked(d) == d.module_id \in Modules /\ d.instance_id \in InstancesOf(list_kind)
DecidedNow(d) ==
    Evidence1(d.module_id, d.instance_id, d.bytes, evaluate_load(d.module_id, d.instance_id, d.bytes))
Standing(d) == d.reason # "NotAllowlisted" => d = DecidedNow(d)

Records == {evidence[k] : k \in DOMAIN evidence}
AllowInv ==
    /\ list_kind \in Kinds
    /\ \E S : manifest \in Seq(S)
    /\ \E S : evidence \in Seq(S)
    /\ \A n \in DOMAIN manifest : EntryOK(manifest[n])
    /\ \A x \in Records : WasAsked(x) /\ Standing(x) /\ (x.authorized => x.reason = "none")
    /\ DecisionsStand

(* A sequence t that is s with one element more at the end.                *)
Appended(s, t, e) ==
    /\ \E T : t \in Seq(T)
    /\ Len(t) = Len(s) + 1 /\ Len(s) \in Nat
    /\ DOMAIN s = 1 .. Len(s) /\ DOMAIN t = DOMAIN s \cup {Len(s) + 1}
    /\ \A k \in DOMAIN s : t[k] = s[k]
    /\ t[Len(s) + 1] = e

(* A sequence of whatever elements can be appended to.                     *)
LEMMA AppendsAnything == \A S, s, e : s \in Seq(S) => Appended(s, Append(s, e), e)
<1> SUFFICES ASSUME NEW S, NEW s \in Seq(S), NEW e PROVE Appended(s, Append(s, e), e)
  BY Zenon
<1>1. s \in Seq(S \cup {e})
  OBVIOUS
<1>2. Append(s, e) \in Seq(S \cup {e})
  BY <1>1
<1>3. /\ Len(Append(s, e)) = Len(s) + 1 /\ Len(s) \in Nat
      /\ DOMAIN s = 1 .. Len(s) /\ DOMAIN Append(s, e) = DOMAIN s \cup {Len(s) + 1}
      /\ \A k \in DOMAIN s : Append(s, e)[k] = s[k]
      /\ Append(s, e)[Len(s) + 1] = e
  BY <1>1, <1>2
<1> QED
  BY Zenon, <1>2, <1>3 DEF Appended

(* A set of natural numbers that is not empty has a least element.         *)
LEMMA LeastExists ==
    ASSUME NEW I \in SUBSET Nat, I # {}
    PROVE  \E x \in I : \A k \in I : x <= k
<1>1. PICK x \in I : \A y \in I : ~(<<y, x>> \in OpToRel(<, Nat))
  BY ZenonT(30), NatLessThanWellFounded, WFMin
<1>2. ASSUME NEW y \in I, y < x
      PROVE  <<y, x>> \in OpToRel(<, Nat)
  <2>1. <<y, x>> \in Nat \X Nat /\ <<y, x>>[1] < <<y, x>>[2]
    BY Zenon, <1>2
  <2> QED
    BY Zenon, <2>1 DEF OpToRel
<1>3. \A y \in I : ~(y < x)
  BY Zenon, <1>1, <1>2
<1>4. \A y \in I : x <= y
  BY <1>3
<1> QED
  BY Zenon, <1>4

(* find returns the first entry of the name.                               *)
LEMMA FindsTheFirst ==
    ASSUME NEW S, manifest \in Seq(S), NEW m, NEW i, find(m, i) # 0
    PROVE  /\ find(m, i) \in DOMAIN manifest
           /\ Named1(manifest[find(m, i)], m, i)
           /\ \A p \in 1 .. find(m, i) - 1 : ~Named1(manifest[p], m, i)
<1> DEFINE I == {n \in DOMAIN manifest : Named1(manifest[n], m, i)}
<1>1. I # {} /\ find(m, i) = CHOOSE n \in I : \A k \in I : n <= k
  BY Zenon DEF find
<1>2. I \in SUBSET Nat
  OBVIOUS
<1>3. \E n \in I : \A k \in I : n <= k
  BY ZenonT(30), <1>1, <1>2, LeastExists
<1>4. DOMAIN manifest = 1 .. Len(manifest) /\ Len(manifest) \in Nat
  OBVIOUS
<1>5. find(m, i) \in I /\ \A k \in I : find(m, i) <= k
  BY Zenon, <1>1, <1>3
<1>6. ASSUME NEW p \in 1 .. find(m, i) - 1, Named1(manifest[p], m, i)
      PROVE  FALSE
  <2>1. p \in 1 .. Len(manifest) /\ p < find(m, i) /\ p \in Nat /\ find(m, i) \in Nat
    BY <1>4, <1>5
  <2>2. p \in I
    BY <1>6, <2>1
  <2> QED
    BY <1>5, <2>1, <2>2
<1> QED
  BY Zenon, <1>4, <1>5, <1>6

(* Sequences of one length with the same elements are one.                 *)
LEMMA SameSequence ==
    ASSUME NEW S, NEW s \in Seq(S), NEW t \in Seq(S), Len(s) = Len(t), \A k \in 1 .. Len(s) : s[k] = t[k]
    PROVE  s = t
  OBVIOUS

(* Where the elements of two joined sequences are.                         *)
JoinOf(S, a, b, c) ==
    /\ c \in Seq(S) /\ Len(c) = Len(a) + Len(b)
    /\ \A k \in 1 .. Len(a) : c[k] = a[k]
    /\ \A k \in 1 .. Len(b) : c[Len(a) + k] = b[k]
LEMMA Joined == \A S, a, b : a \in Seq(S) /\ b \in Seq(S) => JoinOf(S, a, b, a \o b)
<1> SUFFICES ASSUME NEW S, NEW a \in Seq(S), NEW b \in Seq(S) PROVE JoinOf(S, a, b, a \o b)
  BY Zenon
<1>1. /\ a \o b \in Seq(S) /\ Len(a \o b) = Len(a) + Len(b)
      /\ \A k \in 1 .. Len(a) : (a \o b)[k] = a[k]
      /\ \A k \in 1 .. Len(b) : (a \o b)[Len(a) + k] = b[k]
  OBVIOUS
<1> QED
  BY Zenon, <1>1 DEF JoinOf

(* Where the parts of a signed string are.                                 *)
SignedString(v, p, a, s, t, A) ==
    /\ Len(A) = Len(a) + 6 /\ A[1] = v /\ A[Len(a) + 4] = s /\ A[Len(a) + 6] = t
    /\ \A k \in 1 .. Len(a) : A[k + 2] = a[k]
LEMMA Around ==
    ASSUME NEW S, NEW v \in S, NEW p \in S, NEW a \in Seq(S), NEW s \in S, NEW t \in S
    PROVE  SignedString(v, p, a, s, t, <<v, p>> \o a \o <<p, s, p, t>>)
<1> DEFINE h == <<v, p>>
           u == <<p, s, p, t>>
           g == h \o a
           A == g \o u
<1>1. h \in Seq(S) /\ u \in Seq(S) /\ Len(h) = 2 /\ Len(u) = 4 /\ h[1] = v /\ u[2] = s /\ u[4] = t
  OBVIOUS
<1>2. Len(a) \in Nat
  OBVIOUS
<1> HIDE DEF h, u
<1>3. JoinOf(S, h, a, g)
  BY Zenon, <1>1, Joined
<1>4. /\ g \in Seq(S) /\ Len(g) = 2 + Len(a) /\ g[1] = v
      /\ \A k \in 1 .. Len(a) : g[2 + k] = a[k]
  <2> HIDE DEF g
  <2> QED
    BY <1>1, <1>3 DEF JoinOf
<1> HIDE DEF g
<1>5. JoinOf(S, g, u, A)
  BY Zenon, <1>1, <1>4, Joined
<1> HIDE DEF A
<1>6. A[Len(g) + 2] = s /\ A[Len(g) + 4] = t /\ A[1] = v /\ Len(A) = Len(g) + 4
  BY <1>1, <1>2, <1>4, <1>5 DEF JoinOf
<1>7. Len(g) + 2 = Len(a) + 4 /\ Len(g) + 4 = Len(a) + 6
  BY <1>2, <1>4
<1>8. ASSUME NEW k \in 1 .. Len(a) PROVE A[k + 2] = a[k]
  <2>1. k + 2 = 2 + k /\ 2 + k \in 1 .. Len(g)
    BY <1>2, <1>4
  <2> QED
    BY Zenon, <1>4, <1>5, <2>1 DEF JoinOf
<1>9. Len(A) = Len(a) + 6 /\ A[1] = v /\ A[Len(a) + 4] = s /\ A[Len(a) + 6] = t
  BY Zenon, <1>6, <1>7
<1>10. SignedString(v, p, a, s, t, A)
  BY Zenon, <1>8, <1>9 DEF SignedString
<1> QED
  BY Zenon, <1>10 DEF A, g, h, u

(* Where the two joined ids are.                                           *)
SplitAt(S, p, a, b, A) ==
    /\ A \in Seq(S)
    /\ Len(A) = Len(a) + 1 + Len(b) /\ A[Len(a) + 1] = p
    /\ \A k \in 1 .. Len(a) : A[k] = a[k]
    /\ \A k \in 1 .. Len(b) : A[Len(a) + 1 + k] = b[k]
LEMMA Between ==
    ASSUME NEW S, NEW p \in S, NEW a \in Seq(S), NEW b \in Seq(S)
    PROVE  SplitAt(S, p, a, b, a \o <<p>> \o b)
<1> DEFINE h == <<p>>
           g == a \o h
           A == g \o b
<1>1. h \in Seq(S) /\ Len(h) = 1 /\ h[1] = p /\ Len(a) \in Nat /\ Len(b) \in Nat
  OBVIOUS
<1> HIDE DEF h
<1>2. JoinOf(S, a, h, g)
  BY Zenon, <1>1, Joined
<1> HIDE DEF g
<1>3. g \in Seq(S) /\ Len(g) = Len(a) + 1 /\ g[Len(a) + 1] = p /\ \A k \in 1 .. Len(a) : g[k] = a[k]
  BY <1>1, <1>2 DEF JoinOf
<1>4. JoinOf(S, g, b, A)
  BY Zenon, <1>3, Joined
<1> HIDE DEF A
<1>5. A[Len(a) + 1] = p /\ \A k \in 1 .. Len(a) : A[k] = a[k]
  BY <1>1, <1>3, <1>4 DEF JoinOf
<1>6. /\ A \in Seq(S) /\ Len(A) = Len(a) + 1 + Len(b)
      /\ \A k \in 1 .. Len(b) : A[Len(a) + 1 + k] = b[k]
  BY Zenon, <1>3, <1>4 DEF JoinOf
<1>7. SplitAt(S, p, a, b, A)
  BY Zenon, <1>5, <1>6 DEF SplitAt
<1> QED
  BY Zenon, <1>7 DEF A, g, h

(* Joined ids are split in one way when no module id holds the separator.  *)
LEMMA JoinSplits ==
    ASSUME NEW S, PIPE \in S, NEW a \in Seq(S), NEW b \in Seq(S), NEW c \in Seq(S), NEW d \in Seq(S),
           Plain(a), Plain(c), a \o <<PIPE>> \o b = c \o <<PIPE>> \o d
    PROVE  a = c /\ b = d
<1> DEFINE A == a \o <<PIPE>> \o b
           C == c \o <<PIPE>> \o d
<1>1. SplitAt(S, PIPE, a, b, A)
  BY Zenon, Between
<1>2. SplitAt(S, PIPE, c, d, C)
  BY Zenon, Between
<1>3. A = C
  OBVIOUS
<1> HIDE DEF A, C
<1>4. (\A k \in 1 .. Len(a) : a[k] # PIPE) /\ (\A k \in 1 .. Len(c) : c[k] # PIPE)
  BY DEF Plain
<1>5. ~(Len(a) < Len(c)) /\ ~(Len(c) < Len(a))
  <2>1. ASSUME Len(a) < Len(c) PROVE FALSE
    <3>1. Len(a) + 1 \in 1 .. Len(c)
      BY <2>1
    <3> QED
      BY Zenon, <1>1, <1>2, <1>3, <1>4, <3>1 DEF SplitAt
  <2>2. ASSUME Len(c) < Len(a) PROVE FALSE
    <3>1. Len(c) + 1 \in 1 .. Len(a)
      BY <2>2
    <3> QED
      BY Zenon, <1>1, <1>2, <1>3, <1>4, <3>1 DEF SplitAt
  <2> QED
    BY Zenon, <2>1, <2>2
<1>6. Len(a) = Len(c) /\ Len(b) = Len(d)
  BY <1>1, <1>2, <1>3, <1>5 DEF SplitAt
<1>7. (\A k \in 1 .. Len(a) : a[k] = c[k]) /\ (\A k \in 1 .. Len(b) : b[k] = d[k])
  BY Zenon, <1>1, <1>2, <1>3, <1>6 DEF SplitAt
<1>8. a = c
  BY Zenon, <1>6, <1>7, SameSequence
<1>9. b = d
  BY Zenon, <1>6, <1>7, SameSequence
<1> QED
  BY Zenon, <1>8, <1>9

(* The characters signed strings are made of.                              *)
Chars == STRING \cup {PIPE, "v2", "vi1"}

(* The parts of an entry's signed string are made of them.                 *)
LEMMA FieldsAreStrings ==
    ASSUME NEW kind \in Kinds, NEW e \in ManifestFields(kind)
    PROVE  /\ e.module_id \in Seq(Chars) /\ e.instance_id \in Seq(Chars)
           /\ Ids(kind, e) \in Seq(Chars)
           /\ e.sha256 \in Chars /\ e.tier \in Chars
           /\ kind = "BootAllowlist" => e.instance_id = NoInstance
<1>1. /\ e.module_id \in Modules /\ e.instance_id \in InstancesOf(kind)
      /\ e.sha256 \in Contents /\ e.tier \in Tiers
  BY DEF ManifestFields
<1>2. \A q \in Seq(STRING) : q \in Seq(Chars)
  BY DEF Chars
<1>3. e.module_id \in Seq(Chars) /\ e.sha256 \in Chars /\ e.tier \in Chars
  BY Zenon, <1>1, <1>2, AllowAssumption DEF Chars
<1>4. e.instance_id \in Seq(Chars) /\ (kind = "BootAllowlist" => e.instance_id = NoInstance)
  <2>1. CASE kind = "BootAllowlist"
    <3>1. e.instance_id = NoInstance
      BY Zenon, <1>1, <2>1 DEF InstancesOf
    <3>2. NoInstance \in Seq(Chars)
      BY DEF NoInstance
    <3> QED
      BY Zenon, <3>1, <3>2
  <2>2. CASE kind # "BootAllowlist"
    BY Zenon, <1>1, <1>2, <2>2, AllowAssumption DEF InstancesOf
  <2> QED
    BY Zenon, <2>1, <2>2
<1>5. e.module_id \o <<PIPE>> \o e.instance_id \in Seq(Chars)
  <2>1. PIPE \in Chars
    BY Zenon DEF Chars
  <2> QED
    BY Zenon, <1>3, <1>4, <2>1, Between DEF SplitAt
<1>6. Ids(kind, e) \in Seq(Chars)
  BY Zenon, <1>3, <1>5 DEF Ids
<1> QED
  BY Zenon, <1>3, <1>4, <1>6

(* An entry that verifies was signed by the root as an entry of this list, *)
(* for the ids, the content and the tier it now has (verify_entry over     *)
(* canonical_string).                                                      *)
LEMMA VerifiedIsSigned ==
    ASSUME list_kind \in Kinds, NEW e, EntryOK(e), NEW m, NEW i \in InstancesOf(list_kind), NEW bytes,
           verify_entry(e, m, i, bytes) = "ok",
           NEW d, d.module_id = m, d.instance_id = i, d.bytes = bytes, d.tier = e.fields.tier
    PROVE  SignedFor(e, d)
<1>1. /\ e.fields.module_id = m
      /\ list_kind = "InstanceAllowlist" => e.fields.instance_id = i
      /\ e.fields.sha256 = bytes
      /\ e.signature = [over |-> canonical_string(list_kind, e.fields), by |-> Root]
  BY Zenon DEF verify_entry
<1>2. e.signature.by = Root /\ canonical_string(e.kind, e.signed) = canonical_string(list_kind, e.fields)
  BY <1>1 DEF EntryOK
<1>3. /\ e.fields \in ManifestFields(list_kind) /\ e.kind \in Kinds /\ e.signed \in ManifestFields(e.kind)
  BY Zenon DEF EntryOK
<1>4. /\ e.fields.module_id \in Seq(Chars) /\ e.fields.instance_id \in Seq(Chars)
      /\ Ids(list_kind, e.fields) \in Seq(Chars) /\ e.fields.sha256 \in Chars /\ e.fields.tier \in Chars
      /\ list_kind = "BootAllowlist" => e.fields.instance_id = NoInstance
  BY Zenon, <1>3, FieldsAreStrings
<1>5. /\ e.signed.module_id \in Seq(Chars) /\ e.signed.instance_id \in Seq(Chars)
      /\ Ids(e.kind, e.signed) \in Seq(Chars) /\ e.signed.sha256 \in Chars /\ e.signed.tier \in Chars
      /\ e.kind = "BootAllowlist" => e.signed.instance_id = NoInstance
  BY Zenon, <1>3, FieldsAreStrings
<1>6. /\ Version(e.kind) = Version(list_kind) /\ Ids(e.kind, e.signed) = Ids(list_kind, e.fields)
      /\ e.signed.sha256 = e.fields.sha256 /\ e.signed.tier = e.fields.tier
  <2>1. Version(e.kind) \in Chars /\ Version(list_kind) \in Chars /\ PIPE \in Chars
    BY Zenon DEF Version, Chars
  <2>2. <<Version(e.kind), PIPE>> \o Ids(e.kind, e.signed) \o <<PIPE, e.signed.sha256, PIPE, e.signed.tier>>
           = <<Version(list_kind), PIPE>> \o Ids(list_kind, e.fields) \o <<PIPE, e.fields.sha256, PIPE, e.fields.tier>>
    BY Zenon, <1>2 DEF canonical_string
  <2> DEFINE v == Version(e.kind)
             w == Version(list_kind)
             a == Ids(e.kind, e.signed)
             b == Ids(list_kind, e.fields)
             s == e.signed.sha256
             t == e.signed.tier
             x == e.fields.sha256
             y == e.fields.tier
  <2>3. <<v, PIPE>> \o a \o <<PIPE, s, PIPE, t>> = <<w, PIPE>> \o b \o <<PIPE, x, PIPE, y>>
    BY Zenon, <2>2
  <2>4. /\ v \in Chars /\ w \in Chars /\ a \in Seq(Chars) /\ b \in Seq(Chars) /\ PIPE \in Chars
        /\ s \in Chars /\ t \in Chars /\ x \in Chars /\ y \in Chars
    BY Zenon, <1>4, <1>5, <2>1
  <2> HIDE DEF v, w, a, b, s, t, x, y
  <2>5. SignedString(v, PIPE, a, s, t, <<v, PIPE>> \o a \o <<PIPE, s, PIPE, t>>)
    BY Zenon, <2>4, Around
  <2>6. SignedString(w, PIPE, b, x, y, <<w, PIPE>> \o b \o <<PIPE, x, PIPE, y>>)
    BY Zenon, <2>4, Around
  <2>7. v = w /\ a = b /\ s = x /\ t = y
    <3> DEFINE X == <<v, PIPE>> \o a \o <<PIPE, s, PIPE, t>>
    <3>1. SignedString(v, PIPE, a, s, t, X) /\ SignedString(w, PIPE, b, x, y, X)
      BY Zenon, <2>3, <2>5, <2>6
    <3> HIDE DEF X
    <3>2. Len(a) = Len(b)
      BY <2>4, <3>1 DEF SignedString
    <3>3. v = w /\ s = x /\ t = y /\ \A k \in 1 .. Len(a) : a[k] = b[k]
      BY Zenon, <3>1, <3>2 DEF SignedString
    <3>4. a = b
      BY Zenon, <2>4, <3>2, <3>3, SameSequence
    <3> QED
      BY Zenon, <3>3, <3>4
  <2> QED
    BY Zenon, <2>7 DEF v, w, a, b, s, t, x, y
<1>7. e.kind = list_kind
  BY <1>3, <1>6 DEF Kinds, Version
<1>8. e.fields.instance_id = i
  BY Zenon, <1>1, <1>4 DEF Kinds, InstancesOf
<1>9. Ids(list_kind, e.fields) = Ids(list_kind, d)
  BY Zenon, <1>1, <1>8 DEF Ids
<1>10. \/ e.signed.module_id = d.module_id /\ e.signed.instance_id = d.instance_id
       \/ list_kind = "InstanceAllowlist" /\ (~Plain(e.signed.module_id) \/ ~Plain(d.module_id))
  <2>1. CASE list_kind = "BootAllowlist"
    BY Zenon, <1>1, <1>4, <1>5, <1>6, <1>7, <1>8, <2>1 DEF Ids
  <2>2. CASE list_kind # "BootAllowlist" /\ Plain(e.signed.module_id) /\ Plain(e.fields.module_id)
    <3>1. e.signed.module_id \o <<PIPE>> \o e.signed.instance_id
             = e.fields.module_id \o <<PIPE>> \o e.fields.instance_id
      BY Zenon, <1>6, <1>7, <2>2 DEF Ids
    <3>2. PIPE \in Chars
      BY Zenon DEF Chars
    <3>3. e.signed.module_id = e.fields.module_id /\ e.signed.instance_id = e.fields.instance_id
      BY Zenon, <1>4, <1>5, <2>2, <3>1, <3>2, JoinSplits
    <3> QED
      BY Zenon, <1>1, <1>8, <3>3
  <2>3. CASE list_kind # "BootAllowlist" /\ (~Plain(e.signed.module_id) \/ ~Plain(e.fields.module_id))
    BY Zenon, <1>1, <2>3 DEF Kinds
  <2> QED
    BY Zenon, <2>1, <2>2, <2>3
<1> QED
  BY Zenon, <1>1, <1>2, <1>6, <1>7, <1>9, <1>10 DEF SignedFor

(* evaluate_load refuses for want of an entry exactly when find finds      *)
(* none, and answers yes only for an entry that verifies.                  *)
LEMMA Evaluates ==
    ASSUME NEW m, NEW i, NEW bytes
    PROVE  /\ evaluate_load(m, i, bytes).reason # "NotAllowlisted" => find(m, i) # 0
           /\ evaluate_load(m, i, bytes).reason = "none" =>
                 /\ find(m, i) # 0
                 /\ verify_entry(manifest[find(m, i)], m, i, bytes) = "ok"
                 /\ evaluate_load(m, i, bytes).tier = manifest[find(m, i)].fields.tier
<1> DEFINE n == find(m, i)
           verdict == verify_entry(manifest[n], m, i, bytes)
<1>0. verdict # "none"
  BY Zenon DEF verify_entry
<1>1. CASE n = 0
  <2>1. evaluate_load(m, i, bytes) = [tier |-> "none", reason |-> "NotAllowlisted"]
    BY Zenon, <1>1 DEF evaluate_load
  <2>2. evaluate_load(m, i, bytes).reason = "NotAllowlisted"
    BY <2>1
  <2>3. "NotAllowlisted" # "none"
    OBVIOUS
  <2> QED
    BY Zenon, <2>2, <2>3
<1>2. CASE n # 0 /\ verdict # "ok"
  <2>1. evaluate_load(m, i, bytes) = [tier |-> "none", reason |-> verdict]
    BY Zenon, <1>2 DEF evaluate_load
  <2> HIDE DEF verdict
  <2>2. evaluate_load(m, i, bytes).reason = verdict
    BY <2>1
  <2> QED
    BY Zenon, <1>0, <1>2, <2>2
<1>3. CASE n # 0 /\ verdict = "ok"
  <2>1. evaluate_load(m, i, bytes) = [tier |-> manifest[n].fields.tier, reason |-> "none"]
    BY Zenon, <1>3 DEF evaluate_load
  <2> HIDE DEF n
  <2>2. evaluate_load(m, i, bytes).tier = manifest[n].fields.tier
    BY <2>1
  <2> QED
    BY Zenon, <1>3, <2>2 DEF n
<1> QED
  BY Zenon, <1>1, <1>2, <1>3

(* A decision that stands and lets in was signed for.                      *)
LEMMA StandingIsSigned == AllowInv => LoadedAsSigned
<1> SUFFICES ASSUME AllowInv, NEW k \in DOMAIN evidence, evidence[k].authorized
             PROVE  \E n \in DOMAIN manifest :
                       /\ SignedFor(manifest[n], evidence[k])
                       /\ \A p \in 1 .. n - 1 : ~Named1(manifest[p], evidence[k].module_id, evidence[k].instance_id)
  BY Zenon DEF LoadedAsSigned
<1> DEFINE d == evidence[k]
           m == d.module_id
           i == d.instance_id
           r == evaluate_load(m, i, d.bytes)
           n == find(m, i)
<1>1. d.reason = "none" /\ WasAsked(d) /\ Standing(d)
  BY Zenon DEF AllowInv, Records
<1>2. "none" # "NotAllowlisted"
  OBVIOUS
<1>3. d = Evidence1(m, i, d.bytes, r)
  BY Zenon, <1>1, <1>2 DEF Standing, DecidedNow
<1> HIDE DEF r
<1>4. r.reason = "none" /\ d.tier = r.tier
  <2> DEFINE b == d.bytes
             q == Evidence1(m, i, b, r)
  <2>1. q.reason = r.reason /\ q.tier = r.tier
    <3> HIDE DEF m, i, b, d
    <3> QED
      BY Zenon DEF Evidence1
  <2>2. d = q
    BY Zenon, <1>3
  <2> HIDE DEF d, q
  <2> QED
    BY Zenon, <1>1, <2>1, <2>2
<1>5. n # 0 /\ verify_entry(manifest[n], m, i, d.bytes) = "ok" /\ r.tier = manifest[n].fields.tier
  <2> DEFINE b == d.bytes
  <2> HIDE DEF m, i, b
  <2>1. evaluate_load(m, i, b).reason = "none"
    BY Zenon, <1>4 DEF r, b
  <2>2. n # 0 /\ verify_entry(manifest[n], m, i, b) = "ok" /\ evaluate_load(m, i, b).tier = manifest[n].fields.tier
    BY Zenon, <2>1, Evaluates
  <2> QED
    BY Zenon, <2>2 DEF r, b
<1>6. PICK S : manifest \in Seq(S)
  BY Zenon DEF AllowInv
<1>7. n \in DOMAIN manifest /\ \A p \in 1 .. n - 1 : ~Named1(manifest[p], m, i)
  BY Zenon, <1>5, <1>6, FindsTheFirst
<1>8. EntryOK(manifest[n]) /\ list_kind \in Kinds /\ i \in InstancesOf(list_kind)
  BY Zenon, <1>1, <1>7 DEF AllowInv, WasAsked
<1>9. SignedFor(manifest[n], d)
  <2>1. d.tier = manifest[n].fields.tier
    BY Zenon, <1>4, <1>5
  <2> HIDE DEF n, d
  <2> QED
    BY Zenon, <1>5, <1>8, <2>1, VerifiedIsSigned
<1> QED
  BY Zenon, <1>7, <1>9

(* What find found it still finds after an insert at the end.              *)
LEMMA FoundStaysFound ==
    ASSUME NEW S, manifest \in Seq(S), NEW e, Appended(manifest, manifest', e),
           list_kind' = list_kind, NEW m, NEW i, find(m, i) # 0
    PROVE  find(m, i)' = find(m, i) /\ manifest'[find(m, i)] = manifest[find(m, i)]
<1> DEFINE x == find(m, i)
           I == {n \in DOMAIN manifest' : Named1(manifest'[n], m, i)}
<1>1. /\ x \in DOMAIN manifest /\ Named1(manifest[x], m, i)
      /\ \A p \in 1 .. x - 1 : ~Named1(manifest[p], m, i)
  BY Zenon, FindsTheFirst
<1>2. /\ DOMAIN manifest = 1 .. Len(manifest) /\ Len(manifest) \in Nat
      /\ DOMAIN manifest' = DOMAIN manifest \cup {Len(manifest) + 1}
      /\ \A k \in DOMAIN manifest : manifest'[k] = manifest[k]
  BY Zenon DEF Appended
<1>3. find(m, i)' = IF I = {} THEN 0 ELSE CHOOSE n \in I : \A k \in I : n <= k
  <2> DEFINE J == {n \in DOMAIN manifest' : Named1(manifest[n], m, i)'}
  <2>1. find(m, i)' = IF J = {} THEN 0 ELSE CHOOSE n \in J : \A k \in J : n <= k
    BY Zenon DEF find
  <2>2. \A n : Named1(manifest[n], m, i)' <=> Named1(manifest'[n], m, i)
    BY Zenon DEF Named1
  <2>3. J = I
    BY Zenon, <2>2
  <2> HIDE DEF I, J
  <2> QED
    BY Zenon, <2>1, <2>3
<1> HIDE DEF x
<1>4. x \in I /\ x \in Nat
  BY <1>1, <1>2
<1>5. ASSUME NEW k \in I PROVE x <= k /\ k \in Nat
  <2>1. k \in 1 .. Len(manifest) + 1 /\ Named1(manifest'[k], m, i)
    BY <1>2
  <2>2. CASE k < x
    <3>1. k \in 1 .. x - 1 /\ k \in DOMAIN manifest
      BY <1>1, <1>2, <2>1, <2>2
    <3> QED
      BY Zenon, <1>1, <1>2, <2>1, <3>1
  <2> QED
    BY <1>4, <2>1, <2>2
<1> HIDE DEF I
<1>6. (CHOOSE n \in I : \A k \in I : n <= k) = x
  <2> DEFINE y == CHOOSE n \in I : \A k \in I : n <= k
  <2>1. y \in I /\ \A k \in I : y <= k
    BY Zenon, <1>4, <1>5
  <2> HIDE DEF y
  <2>2. y = x
    BY <1>4, <1>5, <2>1
  <2> QED
    BY Zenon, <2>2 DEF y
<1> QED
  BY Zenon, <1>1, <1>2, <1>3, <1>4, <1>6 DEF x

(* A decision that stands stands after an insert.                          *)
LEMMA StandsOn ==
    ASSUME NEW S, manifest \in Seq(S), NEW e, Appended(manifest, manifest', e),
           list_kind' = list_kind, NEW d, Standing(d), d.reason # "NotAllowlisted"
    PROVE  d = DecidedNow(d)'
<1> DEFINE m == d.module_id
           i == d.instance_id
           b == d.bytes
           r == evaluate_load(m, i, b)
<1>1. d = Evidence1(m, i, b, r)
  BY Zenon DEF Standing, DecidedNow
<1>2. r.reason # "NotAllowlisted"
  <2> DEFINE q == Evidence1(m, i, b, r)
  <2>1. q.reason = r.reason
    <3> HIDE DEF m, i, b, r
    <3> QED
      BY Zenon DEF Evidence1
  <2>2. d = q
    BY Zenon, <1>1
  <2> HIDE DEF q
  <2> QED
    BY Zenon, <2>1, <2>2
<1>3. find(m, i) # 0
  BY Zenon, <1>2, Evaluates
<1>4. find(m, i)' = find(m, i) /\ manifest'[find(m, i)] = manifest[find(m, i)]
  BY Zenon, <1>3, FoundStaysFound
<1>5. \A f : verify_entry(f, m, i, b)' = verify_entry(f, m, i, b)
  BY Zenon DEF verify_entry
<1>6. evaluate_load(m, i, b)' = evaluate_load(m, i, b)
  BY Zenon, <1>4, <1>5 DEF evaluate_load
<1> QED
  BY Zenon, <1>1, <1>6 DEF DecidedNow, Evidence1

(* While the list stays as it is, so do its answers.                       *)
LEMMA SameAnswers ==
    ASSUME manifest' = manifest, list_kind' = list_kind
    PROVE  \A x : (WasAsked(x)' <=> WasAsked(x)) /\ (Standing(x)' <=> Standing(x))
<1> SUFFICES ASSUME NEW x PROVE (WasAsked(x)' <=> WasAsked(x)) /\ (Standing(x)' <=> Standing(x))
  BY Zenon
<1>1. WasAsked(x)' <=> WasAsked(x)
  BY Zenon DEF WasAsked, InstancesOf
<1>2. \A m, i : find(m, i)' = find(m, i)
  <2> SUFFICES ASSUME NEW m, NEW i PROVE find(m, i)' = find(m, i)
    BY Zenon
  <2> DEFINE I == {n \in DOMAIN manifest : Named1(manifest[n], m, i)}
             J == {n \in DOMAIN manifest' : Named1(manifest[n], m, i)'}
  <2>1. find(m, i)' = IF J = {} THEN 0 ELSE CHOOSE n \in J : \A k \in J : n <= k
    BY Zenon DEF find
  <2>2. find(m, i) = IF I = {} THEN 0 ELSE CHOOSE n \in I : \A k \in I : n <= k
    BY Zenon DEF find
  <2>3. \A n : Named1(manifest[n], m, i)' <=> Named1(manifest[n], m, i)
    BY Zenon DEF Named1
  <2>4. J = I
    BY Zenon, <2>3
  <2> HIDE DEF I, J
  <2> QED
    BY Zenon, <2>1, <2>2, <2>4
<1>3. \A e, m, i, b : verify_entry(e, m, i, b)' = verify_entry(e, m, i, b)
  BY Zenon DEF verify_entry
<1>4. \A m, i, b : evaluate_load(m, i, b)' = evaluate_load(m, i, b)
  <2> SUFFICES ASSUME NEW m, NEW i, NEW b PROVE evaluate_load(m, i, b)' = evaluate_load(m, i, b)
    BY Zenon
  <2>1. find(m, i)' = find(m, i)
    BY Zenon, <1>2
  <2>2. verify_entry(manifest[find(m, i)], m, i, b)' = verify_entry(manifest[find(m, i)], m, i, b)
    BY Zenon, <2>1 DEF verify_entry
  <2> QED
    BY Zenon, <2>1, <2>2 DEF evaluate_load
<1> QED
  BY Zenon, <1>1, <1>4 DEF Standing, DecidedNow

(* Each step keeps the invariant: an insert finds the decisions standing   *)
(* and leaves them so, and a decision is recorded as it is made.           *)
LEMMA AllowInvNext == AllowInv /\ [AllowNext]_allowVars => AllowInv'
<1> SUFFICES ASSUME AllowInv, [AllowNext]_allowVars PROVE AllowInv'
  BY Zenon
<1>1. PICK M : manifest \in Seq(M)
  BY Zenon DEF AllowInv
<1>2. PICK E : evidence \in Seq(E)
  BY Zenon DEF AllowInv
<1>3. CASE UNCHANGED allowVars
  <2>1. list_kind' = list_kind /\ manifest' = manifest /\ evidence' = evidence
    BY Zenon, <1>3 DEF allowVars
  <2>2. \A x \in Records' : WasAsked(x)' /\ Standing(x)' /\ (x.authorized => x.reason = "none")
    BY Zenon, <2>1, SameAnswers DEF AllowInv, Records
  <2>3. DecisionsStand' /\ \A n \in DOMAIN manifest' : EntryOK(manifest[n])'
    BY Zenon, <2>1 DEF AllowInv, DecisionsStand, EntryOK
  <2> QED
    BY Zenon, <2>1, <2>2, <2>3 DEF AllowInv
<1>4. CASE insert
  <2>1. /\ list_kind' = list_kind /\ evidence' = evidence
        /\ Len(manifest) < Len(Insertions)
    BY Zenon, <1>4 DEF insert
  <2>2. PICK c \in Insertions[Len(manifest) + 1] :
           /\ c.list = list_kind
           /\ manifest' = Append(manifest, [issue(c.kind, c.signed, c.by) EXCEPT !.fields = c.fields])
    BY Zenon, <1>4 DEF insert
  <2>3. Len(manifest) + 1 \in 1 .. Len(Insertions)
    BY <1>1, <2>1, AllowAssumption
  <2> DEFINE e == [issue(c.kind, c.signed, c.by) EXCEPT !.fields = c.fields]
  <2>4. /\ e.fields = c.fields /\ e.kind = c.kind /\ e.signed = c.signed
        /\ e.signature.over = canonical_string(c.kind, c.signed)
    BY Zenon DEF issue
  <2>5. manifest' = Append(manifest, e)
    BY Zenon, <2>2
  <2> HIDE DEF e
  <2>6. Appended(manifest, manifest', e)
    BY Zenon, <1>1, <2>5, AppendsAnything
  <2>7. EntryOK(e)
    BY Zenon, <2>2, <2>3, <2>4, AllowAssumption DEF EntryOK, Kinds
  <2>8. \A n \in DOMAIN manifest' : EntryOK(manifest'[n])
    BY Zenon, <2>6, <2>7 DEF AllowInv, Appended
  <2>9. \A n \in DOMAIN manifest' : EntryOK(manifest[n])'
    BY Zenon, <2>1, <2>8 DEF EntryOK
  <2>10. ASSUME NEW x \in Records'
         PROVE  WasAsked(x)' /\ Standing(x)' /\ (x.authorized => x.reason = "none")
    <3>1. WasAsked(x) /\ Standing(x) /\ (x.authorized => x.reason = "none")
      BY Zenon, <2>1 DEF AllowInv, Records
    <3>2. x.reason # "NotAllowlisted" => x = DecidedNow(x)'
      BY Zenon, <1>1, <2>1, <2>6, <3>1, StandsOn
    <3> QED
      BY Zenon, <2>1, <3>1, <3>2 DEF WasAsked, Standing
  <2>11. DecisionsStand'
    BY Zenon, <2>1 DEF AllowInv, DecisionsStand
  <2> QED
    BY Zenon, <2>1, <2>6, <2>9, <2>10, <2>11, <1>2 DEF AllowInv, Appended
<1>5. CASE authorize_load
  <2>1. PICK m \in Modules, i \in InstancesOf(list_kind), b \in Contents :
           evidence' = Append(evidence, Evidence1(m, i, b, evaluate_load(m, i, b)))
    BY Zenon, <1>5 DEF authorize_load
  <2>2. list_kind' = list_kind /\ manifest' = manifest
    BY Zenon, <1>5 DEF authorize_load
  <2> DEFINE r == evaluate_load(m, i, b)
             d == Evidence1(m, i, b, r)
             n == Len(evidence) + 1
  <2>3. /\ d.module_id = m /\ d.instance_id = i /\ d.bytes = b /\ d.reason = r.reason
        /\ d.authorized => d.reason = "none"
    <3> HIDE DEF r
    <3> QED
      BY Zenon DEF Evidence1
  <2>4. d = DecidedNow(d)
    BY Zenon, <2>3 DEF DecidedNow
  <2> HIDE DEF d, r
  <2>5. Appended(evidence, evidence', d)
    BY Zenon, <1>2, <2>1, AppendsAnything DEF d, r
  <2>6. /\ Len(evidence) \in Nat /\ DOMAIN evidence = 1 .. Len(evidence)
        /\ DOMAIN evidence' = DOMAIN evidence \cup {n} /\ evidence'[n] = d
        /\ \A k \in DOMAIN evidence : evidence'[k] = evidence[k]
    BY Zenon, <2>5 DEF Appended
  <2>7. ASSUME NEW x \in Records'
        PROVE  WasAsked(x)' /\ Standing(x)' /\ (x.authorized => x.reason = "none")
    <3>1. x \in Records \/ x = d
      BY Zenon, <2>6 DEF Records
    <3>2. WasAsked(d) /\ Standing(d)
      BY Zenon, <2>3, <2>4 DEF WasAsked, Standing
    <3>3. WasAsked(x) /\ Standing(x) /\ (x.authorized => x.reason = "none")
      BY Zenon, <2>3, <3>1, <3>2 DEF AllowInv
    <3> QED
      BY Zenon, <2>2, <3>3, SameAnswers
  <2>10. DecisionsStand'
    <3>1. ASSUME NEW j \in DOMAIN evidence', NEW k \in DOMAIN evidence', j < k,
                 evidence'[j].module_id = evidence'[k].module_id,
                 evidence'[j].instance_id = evidence'[k].instance_id,
                 evidence'[j].bytes = evidence'[k].bytes
          PROVE  evidence'[j].reason = "NotAllowlisted" \/ evidence'[k] = evidence'[j]
      <4>1. j \in DOMAIN evidence
        BY <2>6, <3>1
      <4>2. CASE k \in DOMAIN evidence
        BY Zenon, <2>6, <3>1, <4>1, <4>2 DEF AllowInv, DecisionsStand
      <4>3. CASE k = n /\ evidence[j].reason # "NotAllowlisted"
        <5> DEFINE x == evidence[j]
        <5>1. x = DecidedNow(x)
          BY Zenon, <4>1, <4>3 DEF AllowInv, Records, Standing
        <5>2. x.module_id = d.module_id /\ x.instance_id = d.instance_id /\ x.bytes = d.bytes
          BY Zenon, <2>6, <3>1, <4>1, <4>3
        <5>3. DecidedNow(x) = DecidedNow(d)
          BY Zenon, <5>2 DEF DecidedNow
        <5> QED
          BY Zenon, <2>4, <2>6, <4>1, <4>3, <5>1, <5>3
      <4> QED
        BY Zenon, <2>6, <4>1, <4>2, <4>3
    <3> QED
      BY Zenon, <3>1 DEF DecisionsStand
  <2>11. \A p \in DOMAIN manifest' : EntryOK(manifest[p])'
    BY Zenon, <2>2 DEF AllowInv, EntryOK
  <2> QED
    BY Zenon, <1>1, <2>2, <2>5, <2>7, <2>10, <2>11 DEF AllowInv, Appended
<1> QED
  BY Zenon, <1>3, <1>4, <1>5 DEF AllowNext

(* For any modules, instances, contents, tiers and entries, altered,       *)
(* relisted or signed by whom they may be, inserted at any time: what is   *)
(* loaded is what the trust root signed, id by id unless a module id of an *)
(* instance's entry holds the separator of canonical_string, and a         *)
(* decision other than for want of an entry stands                         *)
(* (authorize_module_load, authorize_instance_load).                       *)
THEOREM AllowlistStaysHeld == AllowSpec => []AllowlistHolds
<1>1. AllowInit => AllowInv
  <2> SUFFICES ASSUME AllowInit PROVE AllowInv
    BY Zenon
  <2>1. manifest = <<>> /\ evidence = <<>> /\ list_kind \in Kinds
    BY Zenon, AllowAssumption DEF AllowInit, Kinds
  <2>2. <<>> \in Seq({}) /\ DOMAIN <<>> = {}
    OBVIOUS
  <2> QED
    BY Zenon, <2>1, <2>2 DEF AllowInv, DecisionsStand, Records
<1>2. AllowInv => AllowlistHolds
  BY Zenon, StandingIsSigned DEF AllowInv, AllowlistHolds
<1> QED
  BY <1>1, <1>2, AllowInvNext, PTL DEF AllowSpec
=============================================================================
