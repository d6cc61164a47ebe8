----------------------------- MODULE DataState -----------------------------
(***************************************************************************)
(* The data-policy state of kernel-arm (kernel-arm/src/data_state.rs and   *)
(* data.rs), with the policy engine (mobile/src/policy.rs) and the billing *)
(* periods (mobile/src/period.rs) it evaluates.  DATA is one lock held for *)
(* the whole of each function, so each is one step.                        *)
(***************************************************************************)
EXTENDS Account, FiniteSetsExt

CONSTANTS
    MAX_DATA_ACCOUNTS,
    MAX_DATA_SESSIONS,
    MAX_USAGE,          \* u64::MAX, at which the usage counter saturates
    Entitlement         \* demo_entitlement: by account, a record or None

VARIABLES
    usage,          \* by account: None or [used, last_used]
    sessions,       \* the open sessions
    periods,        \* by account: None or [start, length, requested_since]
    last_resets     \* by account: None or the tick of its last applied reset

dataVars == <<usage, sessions, periods, last_resets>>

Session == [account : Account, key : ProfileKey, roaming : BOOLEAN]
UsageRow == [used : 0 .. MAX_USAGE, last_used : 0 .. MAX_USAGE \cup {None}]
Period == [start : Nat, length : Nat, requested_since : Nat \cup {None}]

Rows(table) == {a \in Account : table[a] # None}
RoomFor(table, a) == a \in Rows(table) \/ Cardinality(Rows(table)) < MAX_DATA_ACCOUNTS

-----------------------------------------------------------------------------
(* policy.rs                                                               *)

(* saturating_add                                                          *)
apply_usage(used, bytes) == Min({used + bytes, MAX_USAGE})

share_reached(used, cap, percent) == used * 100 >= cap * percent

(* evaluate_usage: the band, from which the engine's request follows.      *)
usage_band(e, used) ==
    IF e.cap = None THEN "Normal"
    ELSE IF e.cap = 0 THEN "CapReached"
    ELSE IF share_reached(used, e.cap, e.escalate) THEN "Anomalous"
    ELSE IF used >= e.cap THEN "CapReached"
    ELSE IF share_reached(used, e.cap, e.throttle) THEN "Throttled"
    ELSE "Normal"

(* evaluate_session: whether a session may run.                            *)
session_allowed(standing, lifecycle, e, used, roaming) ==
    /\ standing = "Active"
    /\ lifecycle = "Enabled"
    /\ roaming => e.roaming
    /\ usage_band(e, used) \in {"Normal", "Throttled"}

-----------------------------------------------------------------------------
(* period.rs                                                               *)

assess_period(p, now) ==
    CASE p = None -> "NoPeriod"
      [] p # None /\ now < p.start -> "ClockBeforeStart"
      [] p # None /\ now >= p.start /\ now - p.start < p.length -> "Active"
      [] OTHER -> "Elapsed"

reset_permitted_no_cooldown(assessment, early, last, now, cooldown) ==
    \/ assessment \in {"NoPeriod", "Elapsed"}
    \/ assessment = "Active" /\ early

(***************************************************************************)
(* reset_permitted_at: the period gate, then for an early reset the        *)
(* cooldown since the last applied reset.                                  *)
(***************************************************************************)
reset_permitted_at(assessment, early, last, now, cooldown) ==
    /\ \/ assessment \in {"NoPeriod", "Elapsed"}
       \/ assessment = "Active" /\ early
    /\ early /\ last # None => now >= last /\ now - last >= cooldown

-----------------------------------------------------------------------------
(* data_state.rs                                                           *)

DataInit(demo_period) ==
    /\ usage = [a \in Account |-> None]
    /\ sessions = {}
    /\ periods = [a \in Account |->
         IF demo_period[a] = None THEN None
         ELSE [start |-> 0, length |-> demo_period[a], requested_since |-> None]]
    /\ last_resets = [a \in Account |-> None]

usage_of(a) == IF usage[a] = None THEN 0 ELSE usage[a].used

feed_usage(a, bytes) ==
    /\ usage' = [usage EXCEPT ![a] =
         [used |-> apply_usage(usage_of(a), bytes),
          last_used |-> IF usage[a] = None THEN None ELSE usage[a].last_used]]
    /\ UNCHANGED <<sessions, periods, last_resets>>

(* reset_usage without the clearing of last_used.                          *)
reset_row_remembers(a) ==
    IF usage[a] = None THEN None ELSE [used |-> 0, last_used |-> usage[a].last_used]

(* reset_usage: an account never fed has no row and gets none.             *)
reset_row(a) == IF usage[a] = None THEN None ELSE [used |-> 0, last_used |-> None]

(***************************************************************************)
(* start_next_period: the next period starts at the reset and has the      *)
(* length of the old one; an account that had none gets its first; a reset *)
(* before the old start is rejected and changes nothing.                   *)
(***************************************************************************)
start_next_period(a, now, install_len) ==
    CASE periods[a] = None /\ RoomFor(periods, a) ->
           [start |-> now, length |-> install_len, requested_since |-> None]
      [] periods[a] # None /\ now >= periods[a].start ->
           [start |-> now, length |-> periods[a].length, requested_since |-> None]
      [] OTHER -> periods[a]

(* reset_usage_and_period: counter, period and last_resets in one section. *)
reset_usage_and_period(a, now, install_len) ==
    /\ usage' = [usage EXCEPT ![a] = reset_row(a)]
    /\ periods' = [periods EXCEPT ![a] = start_next_period(a, now, install_len)]
    /\ last_resets' = [last_resets EXCEPT ![a] = IF RoomFor(last_resets, a) THEN now ELSE @]
    /\ UNCHANGED sessions

(* advise_period: the first request of a period is remembered.             *)
advise_period(a, now) ==
    /\ periods' = [periods EXCEPT ![a].requested_since =
         IF assess_period(periods[a], now) = "Elapsed" /\ @ = None THEN now ELSE @]
    /\ UNCHANGED <<usage, sessions, last_resets>>

SameSession(s, a, k) == s.account = a /\ s.key = k

(* record_session refuses a new row when the table is full.                *)
can_record(a, k) ==
    \/ \E s \in sessions : SameSession(s, a, k)
    \/ Cardinality(sessions) < MAX_DATA_SESSIONS

record_session(a, k, roaming) ==
    /\ sessions' = {s \in sessions : ~SameSession(s, a, k)}
                     \cup {[account |-> a, key |-> k, roaming |-> roaming]}
    /\ UNCHANGED <<usage, periods, last_resets>>

(* drain_sessions: the rows in `closed' leave the table.                   *)
close_sessions(closed) ==
    /\ sessions' = sessions \ closed
    /\ UNCHANGED <<usage, periods, last_resets>>

sessions_for_account(a) == {s \in sessions : s.account = a}
sessions_for_profile(k) == {s \in sessions : s.key = k}

(* mark_observed: the reconciler remembers the counters it saw.            *)
mark_observed ==
    /\ usage' = [a \in Account |->
         IF usage[a] = None THEN None ELSE [usage[a] EXCEPT !.last_used = usage[a].used]]
    /\ UNCHANGED <<sessions, periods, last_resets>>
=============================================================================
