----------------------------- MODULE Reconcile -----------------------------
(***************************************************************************)
(* The reconciler (mobile/src/reconcile.rs, and check_periods of           *)
(* mobile/src/period.rs): a read-only comparison of the accounts, profiles *)
(* and sessions with what the policy intends.  An incident is a triple     *)
(* <<kind, subject, facts>>.                                               *)
(*                                                                         *)
(* The kernel builds the snapshot from tables whose keys are unique and    *)
(* whose bounds are below the reconciler's, so SnapshotTooLarge and the     *)
(* Duplicate kinds have no counterpart here.                               *)
(***************************************************************************)
EXTENDS DataState

ProfileIncidents ==
    {<<"EnabledProfileUnbound", k, "">> : k \in {q \in EnabledProfiles : owner[q] = None}}
    \cup
    {<<"ProfileOwnerUnknown", k, owner[k]>> :
        k \in {q \in ProfileKey : owner[q] # None /\ ~has_account(owner[q])}}
    \cup
    {<<"EnabledProfileUnderInactiveAccount", k, status[owner[k]]>> :
        k \in {q \in EnabledProfiles :
                 /\ owner[q] # None
                 /\ status[owner[q]] \in {"Suspended", "Closed"}}}

EnabledIn(slot) == {k \in EnabledProfiles : k[1] = slot}

SlotIncidents ==
    {<<"MultipleEnabledInSlot", slot, Cardinality(EnabledIn(slot))>> :
        slot \in {s \in Slot : Cardinality(EnabledIn(s)) > 1}}

Cap(a) == IF Entitlement[a] = None THEN None ELSE Entitlement[a].cap

UsageIncidents ==
    {<<"UsageRegression", a, <<usage[a].last_used, usage[a].used>> >> :
        a \in {b \in Rows(usage) : /\ usage[b].last_used # None
                                   /\ usage[b].used < usage[b].last_used}}
    \cup
    {<<"UsageOverCapNotRestricted", a, usage_of(a)>> :
        a \in {b \in Account : /\ status[b] = "Active"
                               /\ Cap(b) # None /\ usage_of(b) >= Cap(b)
                               /\ sessions_for_account(b) # {}}}
    \cup
    {<<"AnomalousUsageNoEscalation", a, usage_of(a)>> :
        a \in {b \in Account :
                 /\ status[b] = "Active"
                 /\ Cap(b) # None
                 /\ share_reached(usage_of(b), Cap(b), Entitlement[b].escalate)}}

SessionIncidents ==
    {<<"SessionWithoutEnabledProfile", <<s.account, s.key>>, profile_state(s.key)>> :
        s \in {t \in sessions : profile_state(t.key) # "Enabled"}}
    \cup
    {<<"SessionAccountMismatch", <<s.account, s.key>>, owner[s.key]>> :
        s \in {t \in sessions : owner[t.key] # t.account}}
    \cup
    {<<"RoamingSessionNotPermitted", <<s.account, s.key>>, "">> :
        s \in {t \in sessions : t.roaming /\ ~Entitlement[t.account].roaming}}

(* reconcile(observed) on the live state.                                  *)
reconcile == ProfileIncidents \cup SlotIncidents \cup UsageIncidents \cup SessionIncidents

(* The tick by which an elapsed period should have been reset.             *)
reset_deadline(p, grace) ==
    LET end == p.start + p.length IN
    Max({end, IF p.requested_since = None THEN 0 ELSE p.requested_since}) + grace

check_periods(now, grace) ==
    {<<"ClockBeforeStart", a, periods[a].start>> :
        a \in {b \in Rows(periods) : assess_period(periods[b], now) = "ClockBeforeStart"}}
    \cup
    {<<"PeriodElapsedNoReset", a, reset_deadline(periods[a], grace)>> :
        a \in {b \in Rows(periods) : /\ assess_period(periods[b], now) = "Elapsed"
                                     /\ now > reset_deadline(periods[b], grace)}}
=============================================================================
