-------------------------------- MODULE Svc --------------------------------
(***************************************************************************)
(* The telephony syscalls of kernel-arm (kernel-arm/src/svc.rs): the SIM,  *)
(* MVNO and data calls over the profile store, the account registry and    *)
(* the data state.                                                         *)
(*                                                                         *)
(* There is one EL0 context and the SVC handler runs with IRQs masked, so  *)
(* a syscall is one step.  A MARSHAL evaluation runs a network excursion   *)
(* in the middle of it; that changes none of this state, but takes time,   *)
(* which matters to SYS_DATA_RESET alone.                                  *)
(*                                                                         *)
(* audited is the set of audit_event calls of the last syscall: what it    *)
(* hands to the WORM chain (module AuditChain).  The capability check can  *)
(* fail at any call, since tokens expire with time.                        *)
(***************************************************************************)
EXTENDS Reconcile

CONSTANTS
    DemoPeriod,         \* demo_period: by account, its period's length or None
    INSTALL_PERIOD,     \* demo_install_period_ticks
    COOLDOWN,           \* demo_early_reset_cooldown_ticks
    GRACE,              \* DEMO_GRACE_MILLIS in ticks
    MAX_TICK,           \* the last tick of this instance
    Bytes,              \* the byte counts SYS_DATA_ACCOUNT is called with
    SVC_CALLS           \* the syscalls of this instance

(* What boot and the types of the code give: quantities are unsigned, the  *)
(* data tables have a row for every account the registry can hold, and the *)
(* periods installed at boot are for accounts opened at boot.              *)
ASSUME SvcAssumption ==
    /\ {INSTALL_PERIOD, COOLDOWN, GRACE, MAX_TICK, MAX_USAGE, MAX_DATA_ACCOUNTS} \subseteq Nat
    /\ Bytes \subseteq Nat
    /\ DemoPeriod \in [Account -> Nat \cup {None}]
    /\ \A a \in Account : DemoPeriod[a] # None => a \in OpenedAccounts
    /\ IsFiniteSet(OpenedAccounts) /\ Cardinality(OpenedAccounts) <= MAX_DATA_ACCOUNTS
    /\ None \notin Period

VARIABLES
    clock,              \* CNTPCT_EL0
    prev, last_clean,   \* RECONCILE_MEMORY
    audited

memVars == <<prev, last_clean>>
stateVars == <<profiles, regVars, dataVars, memVars>>
svcVars == <<stateVars, clock, audited>>

-----------------------------------------------------------------------------
(* marshal_action.rs                                                       *)

GateOutcome == {"Execute", "Refuse", "HardStop", "Unreachable", "Faulty", "LocalFailure"}

GatedAction == {"esim.enable", "esim.delete", "mvno.bind_profile",
                "mvno.suspend_account", "mvno.reactivate_account", "data.reset_usage"}

unreachable_policy_open(action) == "FailOpen"

unreachable_policy(action) ==
    IF action \in {"esim.enable", "mvno.bind_profile", "mvno.suspend_account"}
    THEN "FailOpen" ELSE "FailClosed"

enforce(policy, outcome) ==
    outcome = "Execute" \/ (outcome = "Unreachable" /\ policy = "FailOpen")

-----------------------------------------------------------------------------
(* The shape of a handler.                                                 *)

Sim(k) == <<"sim", k>>
Mvno(a) == <<"account", a>>
Data(a) == <<"data", a>>

Event(class, subject, to, verdict) ==
    [class |-> class, subject |-> subject, to |-> to, verdict |-> verdict]

(* A handler that returns early: it audits why, and changes nothing.  Whom *)
(* a refusal was about is left out.                                        *)
Refused(class) ==
    /\ audited' = {Event(class, <<"refused">>, "", None)}
    /\ UNCHANGED <<stateVars, clock>>

(* enforce_gate's class for a block.                                       *)
blocked_class(outcome) ==
    IF outcome \in {"Refuse", "HardStop"} THEN "GateBlocked" ELSE "GateFailClosed"

(* marshal_gate: evaluate, enforce, and Apply with the verdict if allowed. *)
Gated(action, Apply(_)) ==
    \E outcome \in GateOutcome :
        IF enforce(unreachable_policy(action), outcome)
        THEN Apply(outcome)
        ELSE Refused(blocked_class(outcome))

Applied(subject, to, verdict) == audited' = {Event("Applied", subject, to, verdict)}

(* audit_closed_sessions                                                   *)
ClosedEvents(closed) ==
    {Event("DataActivity", Data(s.account), <<"Closed", s.key>>, None) : s \in closed}

-----------------------------------------------------------------------------
(* The SIM syscalls.                                                       *)

SYS_SIM_CREATE(slot) ==
    /\ "SYS_SIM_CREATE" \in SVC_CALLS
    /\ \/ Refused("CapDenialEsim")
       \/ \E id \in ProfileId :
            /\ create(slot, id)
            /\ audited' = {}
            /\ UNCHANGED <<regVars, dataVars, memVars, clock>>

SYS_SIM_INSTALL(k, identity) ==
    /\ "SYS_SIM_INSTALL" \in SVC_CALLS
    /\ \/ Refused("CapDenialEsim")
       \/ ~legal("Install", k) /\ Refused("Rejected")
       \/ /\ legal("Install", k)
          /\ install(k, identity)
          /\ Applied(Sim(k), "Disabled", None)
          /\ UNCHANGED <<regVars, dataVars, memVars, clock>>

SYS_SIM_ENABLE(k) ==
    LET Apply(verdict) ==
          \/ ~legal("Enable", k) /\ Refused("Rejected")
          \/ /\ legal("Enable", k)
             /\ transition("Enable", k)
             /\ Applied(Sim(k), "Enabled", verdict)
             /\ UNCHANGED <<regVars, dataVars, memVars, clock>>
    IN
    /\ "SYS_SIM_ENABLE" \in SVC_CALLS
    /\ \/ Refused("CapDenialEsim")
       \/ ~gate_enable(k) /\ Refused("Rejected")
       \/ gate_enable(k) /\ Gated("esim.enable", Apply)

SYS_SIM_DISABLE(k) ==
    /\ "SYS_SIM_DISABLE" \in SVC_CALLS
    /\ \/ Refused("CapDenialEsim")
       \/ ~legal("Disable", k) /\ Refused("Rejected")
       \/ /\ legal("Disable", k)
          /\ transition("Disable", k)
          /\ close_sessions(sessions_for_profile(k))
          /\ audited' = {Event("Applied", Sim(k), "Disabled", None)}
                          \cup ClosedEvents(sessions_for_profile(k))
          /\ UNCHANGED <<regVars, memVars, clock>>

(* release_binding_after_delete without the cleanup of sessions.           *)
release_binding_only(k) == unbind(k) /\ UNCHANGED dataVars

(* The delete's tail: unbind, whatever that says, and close the sessions.  *)
release_binding_after_delete(k) ==
    /\ unbind(k)
    /\ close_sessions(sessions_for_profile(k))

ReleaseEvents(k) ==
    (IF owner[k] = None THEN {} ELSE {Event("Applied", Sim(k), "Unbound", None)})
      \cup ClosedEvents(sessions_for_profile(k))

SYS_SIM_DELETE(k) ==
    LET Apply(verdict) ==
          \/ ~legal("Delete", k) /\ Refused("Rejected")
          \/ /\ legal("Delete", k)
             /\ transition("Delete", k)
             /\ release_binding_after_delete(k)
             /\ audited' = {Event("Applied", Sim(k), "Deleted", verdict)} \cup ReleaseEvents(k)
             /\ UNCHANGED <<memVars, clock>>
    IN
    /\ "SYS_SIM_DELETE" \in SVC_CALLS
    /\ \/ Refused("CapDenialEsim")
       \/ Gated("esim.delete", Apply)

-----------------------------------------------------------------------------
(* The MVNO syscalls.                                                      *)

SYS_MVNO_BIND(a, k) ==
    LET Apply(verdict) ==
          \/ ~can_bind(a, k) /\ Refused("Rejected")
          \/ /\ can_bind(a, k)
             /\ bind(a, k)
             /\ Applied(Sim(k), "Bound", verdict)
             /\ UNCHANGED <<profiles, dataVars, memVars, clock>>
    IN
    /\ "SYS_MVNO_BIND" \in SVC_CALLS
    /\ \/ Refused("CapDenialMvno")
       \/ Gated("mvno.bind_profile", Apply)

(* suspend_account without the entries for the forced disables.            *)
suspend_account_quiet(a, verdict) ==
    /\ set_status(a, "Suspended")
    /\ disable_all(force_disable(a))
    /\ close_sessions(sessions_for_account(a))
    /\ Applied(Mvno(a), "Suspended", verdict)
    /\ UNCHANGED <<memVars, clock>>

(* The suspend handshake: the account, its Enabled profiles, its sessions. *)
suspend_account(a, verdict) ==
    /\ set_status(a, "Suspended")
    /\ disable_all(force_disable(a))
    /\ close_sessions(sessions_for_account(a))
    /\ audited' = {Event("Applied", Mvno(a), "Suspended", verdict)}
                    \cup {Event("Applied", Sim(k), "Disabled", None) : k \in force_disable(a)}
                    \cup ClosedEvents(sessions_for_account(a))
    /\ UNCHANGED <<memVars, clock>>

SYS_MVNO_SUSPEND(a) ==
    LET Apply(verdict) ==
          \/ ~can_suspend(a) /\ Refused("Rejected")
          \/ can_suspend(a) /\ suspend_account(a, verdict)
    IN
    /\ "SYS_MVNO_SUSPEND" \in SVC_CALLS
    /\ \/ Refused("CapDenialMvno")
       \/ Gated("mvno.suspend_account", Apply)

SYS_MVNO_REACTIVATE(a) ==
    LET Apply(verdict) ==
          \/ ~can_reactivate(a) /\ Refused("Rejected")
          \/ /\ can_reactivate(a)
             /\ set_status(a, "Active")
             /\ Applied(Mvno(a), "Active", verdict)
             /\ UNCHANGED <<profiles, dataVars, memVars, clock>>
    IN
    /\ "SYS_MVNO_REACTIVATE" \in SVC_CALLS
    /\ \/ Refused("CapDenialMvno")
       \/ Gated("mvno.reactivate_account", Apply)

-----------------------------------------------------------------------------
(* The data syscalls.                                                      *)

(* The account has an entitlement and is in the registry.                  *)
Entitled(a) == Entitlement[a] # None /\ has_account(a)

(* usage_feed_refusal is None.                                             *)
can_meter(a) == status[a] = "Active" /\ has_bound_profile(a)

SYS_DATA_ACCOUNT(a, bytes) ==
    LET metered == Entitled(a) /\ can_meter(a) /\ RoomFor(usage, a)
        band == usage_band(Entitlement[a], apply_usage(usage_of(a), bytes))
        request == IF band = "Normal" THEN {}
                   ELSE {Event("DataActivity", Data(a), <<"Request", band>>, None)}
    IN
    /\ "SYS_DATA_ACCOUNT" \in SVC_CALLS
    /\ \/ Refused("CapDenialData")
       \/ ~metered /\ Refused("Rejected")
       \/ /\ metered
          /\ feed_usage(a, bytes)
          /\ audited' = {Event("DataActivity", Data(a), <<"Used">>, None)} \cup request
          /\ UNCHANGED <<profiles, regVars, memVars, clock>>

SYS_DATA_SESSION_OPEN(a, k, roaming) ==
    LET allowed == /\ Entitled(a)
                   /\ owner[k] = a
                   /\ session_allowed(status[a], profile_state(k), Entitlement[a],
                                      usage_of(a), roaming)
                   /\ can_record(a, k)
    IN
    /\ "SYS_DATA_SESSION_OPEN" \in SVC_CALLS
    /\ \/ Refused("CapDenialData")
       \/ ~allowed /\ Refused("Rejected")
       \/ /\ allowed
          /\ record_session(a, k, roaming)
          /\ audited' = {Event("DataActivity", Data(a), <<"Open", k>>, None)}
          /\ UNCHANGED <<profiles, regVars, memVars, clock>>

SYS_DATA_SESSION_CLOSE(a, k) ==
    LET open == {s \in sessions : SameSession(s, a, k)} IN
    /\ "SYS_DATA_SESSION_CLOSE" \in SVC_CALLS
    /\ \/ Refused("CapDenialData")
       \/ open = {} /\ Refused("Rejected")
       \/ /\ open # {}
          /\ close_sessions(open)
          /\ audited' = ClosedEvents(open)
          /\ UNCHANGED <<profiles, regVars, memVars, clock>>

(***************************************************************************)
(* SYS_DATA_RECONCILE: report what was not reported by the previous pass,  *)
(* a clean pass once, and remember the counters seen.                      *)
(***************************************************************************)
SYS_DATA_RECONCILE ==
    LET keys == reconcile \cup check_periods(clock, GRACE)
        clean == keys = {}
    IN
    /\ "SYS_DATA_RECONCILE" \in SVC_CALLS
    /\ \/ Refused("CapDenialData")
       \/ /\ prev' = keys
          /\ last_clean' = clean
          /\ audited' = {Event("Incident", <<"reconcile">>, key, None) : key \in keys \ prev}
                          \cup (IF clean /\ ~last_clean
                                THEN {Event("CleanPass", <<"reconcile">>, <<>>, None)} ELSE {})
          /\ mark_observed
          /\ UNCHANGED <<profiles, regVars, clock>>

(* SYS_DATA_PERIOD: advice; only the first request of a period is audited. *)
SYS_DATA_PERIOD(a) ==
    /\ "SYS_DATA_PERIOD" \in SVC_CALLS
    /\ \/ Refused("CapDenialData")
       \/ /\ periods[a] # None
          /\ advise_period(a, clock)
          /\ audited' = IF periods'[a] = periods[a] THEN {}
                        ELSE {Event("DataActivity", Data(a), <<"Request", "ResetUsage">>, None)}
          /\ UNCHANGED <<profiles, regVars, memVars, clock>>

(***************************************************************************)
(* SYS_DATA_RESET: the period gate at the tick of the call, MARSHAL, then  *)
(* the reset at the tick at which MARSHAL has answered.                    *)
(***************************************************************************)
SYS_DATA_RESET(a, early) ==
    LET permitted == reset_permitted_at(assess_period(periods[a], clock), early,
                                        last_resets[a], clock, COOLDOWN)
        Apply(verdict) ==
          \E now \in clock .. MAX_TICK :
             /\ clock' = now
             /\ reset_usage_and_period(a, now, INSTALL_PERIOD)
             /\ Applied(Data(a), IF early THEN "EarlyReset" ELSE "Reset", verdict)
             /\ UNCHANGED <<profiles, regVars, memVars>>
    IN
    /\ "SYS_DATA_RESET" \in SVC_CALLS
    /\ \/ Refused("CapDenialData")
       \/ ~(Entitled(a) /\ permitted) /\ Refused("Rejected")
       \/ Entitled(a) /\ permitted /\ Gated("data.reset_usage", Apply)

ClockTick ==
    /\ clock < MAX_TICK
    /\ clock' = clock + 1
    /\ UNCHANGED <<stateVars, audited>>

-----------------------------------------------------------------------------
SvcInit ==
    /\ SimInit
    /\ RegInit
    /\ DataInit(DemoPeriod)
    /\ clock = 0
    /\ prev = {}
    /\ last_clean = FALSE
    /\ audited = {}

SvcNext ==
    \/ \E slot \in Slot : SYS_SIM_CREATE(slot)
    \/ \E k \in ProfileKey :
         \/ \E i \in Identity : SYS_SIM_INSTALL(k, i)
         \/ SYS_SIM_ENABLE(k)
         \/ SYS_SIM_DISABLE(k)
         \/ SYS_SIM_DELETE(k)
    \/ \E a \in Account :
         \/ SYS_MVNO_SUSPEND(a)
         \/ SYS_MVNO_REACTIVATE(a)
         \/ SYS_DATA_PERIOD(a)
         \/ \E bytes \in Bytes : SYS_DATA_ACCOUNT(a, bytes)
         \/ \E early \in BOOLEAN : SYS_DATA_RESET(a, early)
         \/ \E k \in ProfileKey :
              \/ SYS_MVNO_BIND(a, k)
              \/ SYS_DATA_SESSION_CLOSE(a, k)
              \/ \E roaming \in BOOLEAN : SYS_DATA_SESSION_OPEN(a, k, roaming)
    \/ SYS_DATA_RECONCILE
    \/ ClockTick

SvcSpec == SvcInit /\ [][SvcNext]_svcVars

-----------------------------------------------------------------------------
(* What the handlers promise together.                                     *)

(* The types of the state; a slot's profiles occupy the first places of    *)
(* its vector, so an id handed out by create is never handed out again.    *)
SvcTypeOK ==
    /\ profiles \in [ProfileKey -> EsimProfile]
    /\ \A slot \in Slot, i \in ProfileId : \A j \in 0 .. i :
         profile_state(<<slot, i>>) # "Absent" => profile_state(<<slot, j>>) # "Absent"
    /\ status \in [Account -> AccountStatus \cup {"Unopened"}]
    /\ owner \in [ProfileKey -> Account \cup {None}]
    /\ \A a \in Account : usage[a] # None =>
         /\ usage[a].used \in 0 .. MAX_USAGE
         /\ usage[a].last_used \in 0 .. MAX_USAGE \cup {None}
    /\ sessions \subseteq Session
    /\ clock \in 0 .. MAX_TICK
    /\ last_clean \in BOOLEAN

(***************************************************************************)
(* A profile is Enabled only while it is installed and bound to an Active  *)
(* account, and at most one profile of a slot is: across enables that      *)
(* demote, suspends that force a disable, binds and deletes, each of which *)
(* checks only its own part.  (mvno::audit is the code's check of this.)   *)
(***************************************************************************)
EnabledIsServed ==
    /\ \A k \in EnabledProfiles :
         /\ profiles[k].identity # None
         /\ owner[k] # None
         /\ status[owner[k]] = "Active"
    /\ \A slot \in Slot : Cardinality(EnabledIn(slot)) <= 1

(***************************************************************************)
(* An open data session belongs to an Active account that still owns the   *)
(* session's profile, and the profile is installed and not deleted; a      *)
(* profile carries at most one session, whatever accounts it has belonged  *)
(* to; so with a row for each profile the table never fills.               *)
(***************************************************************************)
SessionsOwned ==
    /\ \A s \in sessions :
         /\ status[s.account] = "Active"
         /\ owner[s.key] = s.account
         /\ profile_state(s.key) \in {"Enabled", "Disabled"}
         /\ s.roaming => Entitlement[s.account].roaming
    /\ \A s, t \in sessions : s.key = t.key => s = t

(***************************************************************************)
(* Whatever the callers do, the reconciler finds nothing but what it is    *)
(* meant to find in a system of advisory policy: usage over the cap that   *)
(* nobody acted on, an elapsed period nobody reset, and the session of a   *)
(* profile that another one displaced.  Every other incident kind would    *)
(* show that two parts of the kernel disagree.                             *)
(***************************************************************************)
OnlyAdvisoryDrift ==
    \A incident \in reconcile \cup check_periods(clock, GRACE) :
        incident[1] \in {"UsageOverCapNotRestricted", "AnomalousUsageNoEscalation",
                         "PeriodElapsedNoReset", "SessionWithoutEnabledProfile"}

(***************************************************************************)
(* A session runs on an Enabled profile: "A session cannot outlive the     *)
(* Enabled profile it runs on (ADR 0010)".                                 *)
(***************************************************************************)
SessionRunsOnEnabled == \A s \in sessions : profile_state(s.key) = "Enabled"

(* The profile whose enable in this step displaced k.                      *)
Displaced(k) ==
    \E q \in ProfileKey : /\ q[1] = k[1] /\ q # k
                          /\ \E e \in audited' : e.subject = Sim(q) /\ e.to = "Enabled"

Recorded(subject, to) == \E e \in audited' : e.subject = subject /\ e.to = to

(***************************************************************************)
(* The audit chain can be replayed: every change of a lifecycle, a         *)
(* binding, a standing, a session or a usage counter is in the events of   *)
(* the syscall that made it, and every Applied event says what is true     *)
(* after it.  Two changes have no event: a profile's creation, and the     *)
(* disable of a profile that an enable displaced.                          *)
(***************************************************************************)
ChangesAudited ==
    [][/\ \A k \in ProfileKey :
            /\ \/ profiles'[k].state = profiles[k].state
               \/ profiles[k].state = "Absent"
               \/ Displaced(k)
               \/ Recorded(Sim(k), profiles'[k].state)
            /\ owner'[k] = owner[k] \/ Recorded(Sim(k), IF owner'[k] = None THEN "Unbound" ELSE "Bound")
       /\ \A a \in Account :
            /\ status'[a] = status[a] \/ Recorded(Mvno(a), status'[a])
            /\ usage'[a] # None /\ usage'[a].used # usage_of(a) =>
                 \E e \in audited' : e.subject = Data(a) /\ e.class \in {"Applied", "DataActivity"}
       /\ \A s \in sessions \ sessions' :
            \/ Recorded(Data(s.account), <<"Closed", s.key>>)
            \/ Recorded(Data(s.account), <<"Open", s.key>>)
       /\ \A s \in sessions' \ sessions : Recorded(Data(s.account), <<"Open", s.key>>)
       /\ \A e \in audited' : e.class = "Applied" /\ e.subject[1] = "sim" /\ e.to \in ProfileState =>
            profiles'[e.subject[2]].state = e.to
    ]_svcVars

(***************************************************************************)
(* What restores service or cannot be undone happens only on MARSHAL's     *)
(* Execute, never on its silence: a delete, a reactivation, and whatever   *)
(* lowers a usage counter or restarts a billing period.                    *)
(***************************************************************************)
Verdict(subject, verdict) == \E e \in audited' : e.subject = subject /\ e.verdict = verdict

RestoredOnlyByVerdict ==
    [][/\ \A k \in ProfileKey :
            profiles'[k].state = "Deleted" /\ profiles[k].state # "Deleted"
              => Verdict(Sim(k), "Execute")
       /\ \A a \in Account :
            /\ status[a] = "Suspended" /\ status'[a] = "Active" => Verdict(Mvno(a), "Execute")
            /\ \/ usage[a] # None /\ usage'[a].used < usage[a].used
               \/ last_resets'[a] # last_resets[a]
               => Verdict(Data(a), "Execute")
    ]_svcVars

(***************************************************************************)
(* Two resets of one account are a whole billing period apart, or the      *)
(* second is an early one and the cooldown apart, although the gate reads  *)
(* the clock before MARSHAL is asked and the reset after it answered.      *)
(***************************************************************************)
ResetSpacing ==
    [][\A a \in Account :
         Recorded(Data(a), "Reset") \/ Recorded(Data(a), "EarlyReset") =>
           \/ UNCHANGED last_resets
           \/ last_resets[a] = None
           \/ last_resets'[a] - last_resets[a] >=
                IF Recorded(Data(a), "EarlyReset") THEN COOLDOWN ELSE periods[a].length
      ]_svcVars

(***************************************************************************)
(* A billing period is asked to be reset after its end and once: the       *)
(* marker advise_period leaves stays put until a reset ends the period, so *)
(* PeriodElapsedNoReset's deadline cannot be pushed back by asking again.  *)
(***************************************************************************)
DeadlineNeverRecedes ==
    [][\A a \in Account :
         /\ periods[a] # None
         /\ periods[a].requested_since # None
         /\ periods'[a] # periods[a]
         => periods'[a].requested_since = None /\ periods'[a].start >= periods[a].requested_since
      ]_svcVars

(* The stores agree after every syscall: profiles, bindings, standings,    *)
(* sessions, usage and periods describe one service, so that the           *)
(* reconciler has only advisory drift to report.                           *)
StoresAgree ==
    /\ SvcTypeOK
    /\ EnabledIsServed
    /\ SessionsOwned
    /\ OnlyAdvisoryDrift

(* No syscall changes a store silently, or restores service without a      *)
(* verdict that says so.                                                   *)
StepsAccounted ==
    /\ ChangesAudited
    /\ RestoredOnlyByVerdict

(* The billing period's rules hold across the gate, the question to        *)
(* MARSHAL and the reset: resets keep their spacing, and the deadline of a *)
(* period that was asked about is not pushed back.                         *)
PeriodRules ==
    /\ ResetSpacing
    /\ DeadlineNeverRecedes
=============================================================================
