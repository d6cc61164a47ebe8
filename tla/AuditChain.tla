----------------------------- MODULE AuditChain -----------------------------
(***************************************************************************)
(* The bounded audit chain of kernel-arm (kernel-arm/src/audit_chain.rs):  *)
(* an append-only log in which each class of events has a quota of entries *)
(* of its own.  An event over the quota is counted instead, and the count  *)
(* is committed to the log as a summary at 1, 4, 16, ... dropped events,   *)
(* at most MAX_SUMMARY_COMMITS times.                                      *)
(***************************************************************************)
EXTENDS Naturals, Sequences, FiniteSets

CONSTANTS
    AuditClass,
    Quota,                  \* QUOTAS, by class
    MAX_SUMMARY_COMMITS,
    MAX_U64                 \* the value at which the counters saturate

ASSUME AuditAssumption ==
    /\ IsFiniteSet(AuditClass)
    /\ Quota \in [AuditClass -> Nat]
    /\ MAX_SUMMARY_COMMITS \in Nat
    /\ MAX_U64 \in Nat \ {0}

VARIABLES
    log,                    \* the WormLog: [class, count], count 0 for an event
    recorded,               \* the ClassStates, one function for each field
    dropped,
    summaries,
    next_commit_at

auditVars == <<log, recorded, dropped, summaries, next_commit_at>>

SUMMARY_GROWTH == 4

(* TOTAL_CAPACITY, the sum of what the classes have reserved, counted as   *)
(* places: of each class its quota, then its summaries.                    *)
Reserved == UNION {{c} \X (1 .. Quota[c] + MAX_SUMMARY_COMMITS) : c \in AuditClass}
total_capacity == Cardinality(Reserved)

saturating(n) == IF n > MAX_U64 THEN MAX_U64 ELSE n

AuditInit ==
    /\ log = << >>
    /\ recorded = [c \in AuditClass |-> 0]
    /\ dropped = [c \in AuditClass |-> 0]
    /\ summaries = [c \in AuditClass |-> 0]
    /\ next_commit_at = [c \in AuditClass |-> 1]

(* coalesce that tests the threshold before it counts the event.           *)
coalesce_late(c) ==
    LET commit == summaries[c] < MAX_SUMMARY_COMMITS /\ dropped[c] >= next_commit_at[c] IN
    /\ dropped' = [dropped EXCEPT ![c] = saturating(@ + 1)]
    /\ IF commit
       THEN /\ summaries' = [summaries EXCEPT ![c] = @ + 1]
            /\ next_commit_at' = [next_commit_at EXCEPT ![c] = saturating(@ * SUMMARY_GROWTH)]
            /\ log' = Append(log, [class |-> c, count |-> dropped'[c]])
       ELSE UNCHANGED <<summaries, next_commit_at, log>>
    /\ UNCHANGED recorded

(* Count the event, and commit a summary when the count has grown enough.  *)
coalesce(c) ==
    LET n == saturating(dropped[c] + 1) IN
    /\ dropped' = [dropped EXCEPT ![c] = n]
    /\ IF summaries[c] < MAX_SUMMARY_COMMITS /\ n >= next_commit_at[c]
       THEN /\ summaries' = [summaries EXCEPT ![c] = @ + 1]
            /\ next_commit_at' = [next_commit_at EXCEPT ![c] = saturating(@ * SUMMARY_GROWTH)]
            /\ log' = Append(log, [class |-> c, count |-> n])
       ELSE UNCHANGED <<summaries, next_commit_at, log>>
    /\ UNCHANGED recorded

(* record with one quota for all the classes, as before ADR 0009.          *)
can_record_shared(c) == Len(log) < total_capacity

can_record(c) == recorded[c] < Quota[c] /\ Len(log) < total_capacity

record(c) ==
    \/ /\ can_record(c)
       /\ log' = Append(log, [class |-> c, count |-> 0])
       /\ recorded' = [recorded EXCEPT ![c] = @ + 1]
       /\ UNCHANGED <<dropped, summaries, next_commit_at>>
    \/ ~can_record(c) /\ coalesce(c)

note_coalesced(c) == coalesce(c)

AuditNext == \E c \in AuditClass : record(c) \/ note_coalesced(c)

AuditSpec == AuditInit /\ [][AuditNext]_auditVars

-----------------------------------------------------------------------------
Entry == [class : AuditClass, count : Nat]

(* The types of the chain and of the per-class books; no class is over its *)
(* quota or over its number of summaries.                                  *)
AuditTypeOK ==
    /\ log \in Seq(Entry)
    /\ recorded \in [AuditClass -> Nat]
    /\ dropped \in [AuditClass -> 0 .. MAX_U64]
    /\ summaries \in [AuditClass -> 0 .. MAX_SUMMARY_COMMITS]
    /\ next_commit_at \in [AuditClass -> 1 .. MAX_U64]
    /\ \A c \in AuditClass : recorded[c] <= Quota[c]

Entries(c) == {i \in DOMAIN log : log[i].class = c /\ log[i].count = 0}
Summaries(c) == {i \in DOMAIN log : log[i].class = c /\ log[i].count > 0}

(***************************************************************************)
(* verify(): the books balance with the chain, class by class, and the     *)
(* chain stays within TOTAL_CAPACITY although coalesce never looks at it.  *)
(***************************************************************************)
verify ==
    /\ \A c \in AuditClass : /\ Cardinality(Entries(c)) = recorded[c]
                             /\ Cardinality(Summaries(c)) = summaries[c]
    /\ Len(log) <= total_capacity

(***************************************************************************)
(* Reserved room: a class that has quota left can always append, however   *)
(* many events of other classes came before.                               *)
(***************************************************************************)
RoomReserved == \A c \in AuditClass : recorded[c] < Quota[c] => can_record(c)

(***************************************************************************)
(* The chain alone tells how much is missing from it: until a class has    *)
(* used up its summaries, one of them gives its number of dropped events   *)
(* to within a factor of SUMMARY_GROWTH, and no class has dropped events   *)
(* without one.                                                            *)
(***************************************************************************)
DropsDisclosed ==
    \A c \in AuditClass :
        summaries[c] < MAX_SUMMARY_COMMITS /\ dropped[c] > 0 =>
            \E i \in DOMAIN log : /\ log[i].class = c
                                  /\ log[i].count <= dropped[c]
                                  /\ dropped[c] < SUMMARY_GROWTH * log[i].count

(* The chain's books balance, and no class can take the room of another.   *)
AuditSound ==
    /\ AuditTypeOK
    /\ verify
    /\ RoomReserved
=============================================================================
