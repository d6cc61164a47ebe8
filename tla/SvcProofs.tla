----------------------------- MODULE SvcProofs -----------------------------
(***************************************************************************)
(* Proofs about the service process, for any number of slots, profiles and *)
(* accounts: what always holds of its stores, and what single steps may    *)
(* not do (the rules of the billing period hold, no store changes          *)
(* silently, and none is restored without a verdict that says so).         *)
(***************************************************************************)
EXTENDS Svc, FiniteSetTheorems, TLAPS

(* What always holds.                                                      *)

(* The rows of the data tables.                                            *)
TablesTyped ==
    /\ usage \in [Account -> UsageRow \cup {None}]
    /\ periods \in [Account -> Period \cup {None}]
    /\ last_resets \in [Account -> Nat \cup {None}]

(* What the profile store, the registry and the sessions know of each      *)
(* other: the parts of EnabledIsServed, and what the handlers that do not  *)
(* check them rely on.                                                     *)
ProfilesServed ==
    /\ \A k \in ProfileKey : profile_state(k) \in {"Disabled", "Enabled"} =>
         profiles[k].identity # None
    /\ \A k \in ProfileKey : owner[k] # None =>
         /\ status[owner[k]] # "Unopened"
         /\ profile_state(k) \notin {"Absent", "Deleted"}
    /\ \A k \in ProfileKey : profile_state(k) = "Enabled" =>
         owner[k] # None /\ status[owner[k]] = "Active"
    /\ \A k, q \in ProfileKey :
         k[1] = q[1] /\ profile_state(k) = "Enabled" /\ profile_state(q) = "Enabled" => k = q

(* No account is opened after boot.                                        *)
AccountsFixed == \A a \in Account : has_account(a) => a \in OpenedAccounts

(* Counters never fall behind what the reconciler saw; a period started,   *)
(* and was asked to be reset, in the past; an account whose reset was      *)
(* recorded has a period, and it started no earlier than that reset.       *)
TablesOrdered ==
    /\ \A a \in Rows(usage) : usage[a].last_used # None => usage[a].last_used <= usage[a].used
    /\ \A a \in Rows(periods) :
         /\ periods[a].start <= clock
         /\ periods[a].requested_since # None => periods[a].requested_since <= clock
         /\ a \in OpenedAccounts
    /\ \A a \in Rows(last_resets) :
         periods[a] # None /\ last_resets[a] <= periods[a].start

(* The profile store, the registry and the sessions have their types, and  *)
(* the places of a slot's vector are taken in order.                       *)
ServiceTyped ==
    /\ profiles \in [ProfileKey -> EsimProfile]
    /\ \A slot \in Slot, i \in ProfileId : \A j \in 0 .. i :
         profile_state(<<slot, i>>) # "Absent" => profile_state(<<slot, j>>) # "Absent"
    /\ status \in [Account -> AccountStatus \cup {"Unopened"}]
    /\ owner \in [ProfileKey -> Account \cup {None}]
    /\ sessions \subseteq Session

ServiceInv ==
    /\ ServiceTyped
    /\ ProfilesServed
    /\ SessionsOwned
    /\ AccountsFixed

TablesInv ==
    /\ clock \in 0 .. MAX_TICK
    /\ TablesTyped
    /\ TablesOrdered

(* The inductive invariant.                                                *)
SvcInv == ServiceInv /\ TablesInv /\ last_clean \in BOOLEAN

-----------------------------------------------------------------------------
(* A syscall either refuses or has the effect of its last branch.          *)

RefusalClass == {"CapDenialEsim", "CapDenialMvno", "CapDenialData", "Rejected",
                 "GateBlocked", "GateFailClosed"}

Refusal == \E class \in RefusalClass : Refused(class)

CreateEffect(slot, id) ==
    /\ create(slot, id)
    /\ audited' = {}
    /\ UNCHANGED <<regVars, dataVars, memVars, clock>>

InstallEffect(k, identity) ==
    /\ legal("Install", k)
    /\ install(k, identity)
    /\ Applied(Sim(k), "Disabled", None)
    /\ UNCHANGED <<regVars, dataVars, memVars, clock>>

EnableEffect(k, verdict) ==
    /\ gate_enable(k)
    /\ legal("Enable", k)
    /\ transition("Enable", k)
    /\ Applied(Sim(k), "Enabled", verdict)
    /\ UNCHANGED <<regVars, dataVars, memVars, clock>>

DisableEffect(k) ==
    /\ legal("Disable", k)
    /\ transition("Disable", k)
    /\ close_sessions(sessions_for_profile(k))
    /\ audited' = {Event("Applied", Sim(k), "Disabled", None)}
                    \cup ClosedEvents(sessions_for_profile(k))
    /\ UNCHANGED <<regVars, memVars, clock>>

DeleteEffect(k) ==
    /\ legal("Delete", k)
    /\ transition("Delete", k)
    /\ release_binding_after_delete(k)
    /\ audited' = {Event("Applied", Sim(k), "Deleted", "Execute")} \cup ReleaseEvents(k)
    /\ UNCHANGED <<memVars, clock>>

BindEffect(a, k, verdict) ==
    /\ can_bind(a, k)
    /\ bind(a, k)
    /\ Applied(Sim(k), "Bound", verdict)
    /\ UNCHANGED <<profiles, dataVars, memVars, clock>>

SuspendEffect(a, verdict) == can_suspend(a) /\ suspend_account(a, verdict)

ReactivateEffect(a) ==
    /\ can_reactivate(a)
    /\ set_status(a, "Active")
    /\ Applied(Mvno(a), "Active", "Execute")
    /\ UNCHANGED <<profiles, dataVars, memVars, clock>>

AccountEffect(a, bytes) ==
    /\ Entitled(a)
    /\ feed_usage(a, bytes)
    /\ Event("DataActivity", Data(a), <<"Used">>, None) \in audited'
    /\ \A e \in audited' : e.class = "DataActivity"
    /\ UNCHANGED <<profiles, regVars, memVars, clock>>

OpenEffect(a, k, roaming) ==
    /\ owner[k] = a /\ status[a] = "Active" /\ profile_state(k) = "Enabled"
    /\ roaming => Entitlement[a].roaming
    /\ record_session(a, k, roaming)
    /\ audited' = {Event("DataActivity", Data(a), <<"Open", k>>, None)}
    /\ UNCHANGED <<profiles, regVars, memVars, clock>>

CloseEffect(closed) ==
    /\ close_sessions(closed)
    /\ audited' = ClosedEvents(closed)
    /\ UNCHANGED <<profiles, regVars, memVars, clock>>

ReconcileEffect ==
    /\ last_clean' \in BOOLEAN
    /\ \A e \in audited' : e.class \in {"Incident", "CleanPass"}
    /\ mark_observed
    /\ UNCHANGED <<profiles, regVars, clock>>

PeriodEffect(a) ==
    /\ periods[a] # None
    /\ advise_period(a, clock)
    /\ \A e \in audited' : e.class = "DataActivity"
    /\ UNCHANGED <<profiles, regVars, memVars, clock>>

ResetEffect(a, early, now) ==
    /\ Entitled(a)
    /\ reset_permitted_at(assess_period(periods[a], clock), early,
                          last_resets[a], clock, COOLDOWN)
    /\ clock' = now
    /\ reset_usage_and_period(a, now, INSTALL_PERIOD)
    /\ Applied(Data(a), IF early THEN "EarlyReset" ELSE "Reset", "Execute")
    /\ UNCHANGED <<profiles, regVars, memVars>>

Effect ==
    \/ \E slot \in Slot, id \in ProfileId : CreateEffect(slot, id)
    \/ \E k \in ProfileKey, i \in Identity : InstallEffect(k, i)
    \/ \E k \in ProfileKey, v \in GateOutcome : EnableEffect(k, v)
    \/ \E k \in ProfileKey : DisableEffect(k)
    \/ \E k \in ProfileKey : DeleteEffect(k)
    \/ \E a \in Account, k \in ProfileKey, v \in GateOutcome : BindEffect(a, k, v)
    \/ \E a \in Account, v \in GateOutcome : SuspendEffect(a, v)
    \/ \E a \in Account : ReactivateEffect(a)
    \/ \E a \in Account, bytes \in Bytes : AccountEffect(a, bytes)
    \/ \E a \in Account, k \in ProfileKey, roaming \in BOOLEAN : OpenEffect(a, k, roaming)
    \/ \E closed \in SUBSET sessions : CloseEffect(closed)
    \/ ReconcileEffect
    \/ \E a \in Account : PeriodEffect(a)
    \/ \E a \in Account, early \in BOOLEAN, now \in clock .. MAX_TICK :
         ResetEffect(a, early, now)
    \/ ClockTick

(* What the gate lets through: an action that fails closed only on         *)
(* Execute.                                                                *)
LEMMA FailClosedNeedsExecute ==
    ASSUME NEW action \in {"esim.delete", "mvno.reactivate_account", "data.reset_usage"},
           NEW outcome, enforce(unreachable_policy(action), outcome)
    PROVE  outcome = "Execute"
  BY Zenon DEF enforce, unreachable_policy

(* Every syscall of kernel-arm/src/svc.rs refuses, auditing why, or has    *)
(* the effect of its last branch, with the verdict that let it through.    *)
LEMMA SyscallsRefuseOrAct == SvcNext => Refusal \/ Effect
  <1> SUFFICES ASSUME SvcNext PROVE Refusal \/ Effect
    BY Zenon
  <1>b. \A outcome : blocked_class(outcome) \in RefusalClass
    BY Zenon DEF blocked_class, RefusalClass
  <1>r. \A class \in RefusalClass : Refused(class) => Refusal
    BY Zenon DEF Refusal
  <1>c. {"CapDenialEsim", "CapDenialMvno", "CapDenialData", "Rejected"} \subseteq RefusalClass
    BY Zenon DEF RefusalClass
  <1>1. ASSUME NEW slot \in Slot, SYS_SIM_CREATE(slot) PROVE Refusal \/ Effect
    BY Zenon, <1>1, <1>r, <1>c DEF SYS_SIM_CREATE, Effect, CreateEffect
  <1>2. ASSUME NEW k \in ProfileKey, NEW i \in Identity, SYS_SIM_INSTALL(k, i)
        PROVE Refusal \/ Effect
    BY Zenon, <1>2, <1>r, <1>c DEF SYS_SIM_INSTALL, Effect, InstallEffect
  <1>3. ASSUME NEW k \in ProfileKey, SYS_SIM_ENABLE(k) PROVE Refusal \/ Effect
    BY Zenon, <1>3, <1>r, <1>c, <1>b DEF SYS_SIM_ENABLE, Gated, Effect, EnableEffect
  <1>4. ASSUME NEW k \in ProfileKey, SYS_SIM_DISABLE(k) PROVE Refusal \/ Effect
    BY Zenon, <1>4, <1>r, <1>c DEF SYS_SIM_DISABLE, Effect, DisableEffect
  <1>5. ASSUME NEW k \in ProfileKey, SYS_SIM_DELETE(k) PROVE Refusal \/ Effect
    BY Zenon, <1>5, <1>r, <1>c, <1>b, FailClosedNeedsExecute
    DEF SYS_SIM_DELETE, Gated, Effect, DeleteEffect
  <1>6. ASSUME NEW a \in Account, SYS_MVNO_SUSPEND(a) PROVE Refusal \/ Effect
    BY Zenon, <1>6, <1>r, <1>c, <1>b DEF SYS_MVNO_SUSPEND, Gated, Effect, SuspendEffect
  <1>7. ASSUME NEW a \in Account, SYS_MVNO_REACTIVATE(a) PROVE Refusal \/ Effect
    BY Zenon, <1>7, <1>r, <1>c, <1>b, FailClosedNeedsExecute
    DEF SYS_MVNO_REACTIVATE, Gated, Effect, ReactivateEffect
  <1>8. ASSUME NEW a \in Account, SYS_DATA_PERIOD(a) PROVE Refusal \/ Effect
    BY <1>8, <1>r, <1>c DEF SYS_DATA_PERIOD, Effect, PeriodEffect, Event
  <1>9. ASSUME NEW a \in Account, NEW bytes \in Bytes, SYS_DATA_ACCOUNT(a, bytes)
        PROVE Refusal \/ Effect
    <2> DEFINE band == usage_band(Entitlement[a], apply_usage(usage_of(a), bytes))
               used == Event("DataActivity", Data(a), <<"Used">>, None)
               request == Event("DataActivity", Data(a), <<"Request", band>>, None)
    <2>1. \/ Refusal
          \/ /\ Entitled(a)
             /\ feed_usage(a, bytes)
             /\ audited' = {used} \cup (IF band = "Normal" THEN {} ELSE {request})
             /\ UNCHANGED <<profiles, regVars, memVars, clock>>
      BY Zenon, <1>9, <1>r, <1>c DEF SYS_DATA_ACCOUNT
    <2>2. used.class = "DataActivity" /\ request.class = "DataActivity"
      BY Zenon DEF Event
    <2> HIDE DEF band, used, request
    <2>3. Refusal \/ AccountEffect(a, bytes)
      BY Zenon, <2>1, <2>2 DEF AccountEffect, used
    <2> QED
      BY Zenon, <2>3 DEF Effect
  <1>10. ASSUME NEW a \in Account, NEW early \in BOOLEAN, SYS_DATA_RESET(a, early)
         PROVE Refusal \/ Effect
    BY Zenon, <1>10, <1>r, <1>c, <1>b, FailClosedNeedsExecute
    DEF SYS_DATA_RESET, Gated, Effect, ResetEffect
  <1>11. ASSUME NEW a \in Account, NEW k \in ProfileKey, SYS_MVNO_BIND(a, k)
         PROVE Refusal \/ Effect
    BY Zenon, <1>11, <1>r, <1>c, <1>b DEF SYS_MVNO_BIND, Gated, Effect, BindEffect
  <1>12. ASSUME NEW a \in Account, NEW k \in ProfileKey, SYS_DATA_SESSION_CLOSE(a, k)
         PROVE Refusal \/ Effect
    BY Zenon, <1>12, <1>r, <1>c DEF SYS_DATA_SESSION_CLOSE, Effect, CloseEffect
  <1>13. ASSUME NEW a \in Account, NEW k \in ProfileKey, NEW roaming \in BOOLEAN,
                SYS_DATA_SESSION_OPEN(a, k, roaming)
         PROVE Refusal \/ Effect
    BY Zenon, <1>13, <1>r, <1>c DEF SYS_DATA_SESSION_OPEN, Effect, OpenEffect, session_allowed
  <1>14. ASSUME SYS_DATA_RECONCILE PROVE Refusal \/ Effect
    <2> DEFINE keys == reconcile \cup check_periods(clock, GRACE)
    <2> HIDE DEF keys
    <2>1. \/ Refusal
          \/ /\ last_clean' = (keys = {})
             /\ audited' = {Event("Incident", <<"reconcile">>, key, None) : key \in keys \ prev}
                          \cup (IF keys = {} /\ ~last_clean
                                THEN {Event("CleanPass", <<"reconcile">>, <<>>, None)} ELSE {})
             /\ mark_observed
             /\ UNCHANGED <<profiles, regVars, clock>>
      BY <1>14, <1>r, <1>c, Zenon DEF SYS_DATA_RECONCILE, keys
    <2>2. ASSUME last_clean' = (keys = {}) PROVE last_clean' \in BOOLEAN
      BY <2>2, Zenon
    <2>3. ASSUME audited' = {Event("Incident", <<"reconcile">>, key, None) : key \in keys \ prev}
                          \cup (IF keys = {} /\ ~last_clean
                                THEN {Event("CleanPass", <<"reconcile">>, <<>>, None)} ELSE {}),
                 NEW e \in audited'
          PROVE  e.class \in {"Incident", "CleanPass"}
      BY <2>3 DEF Event
    <2> QED
      BY <2>1, <2>2, <2>3, Zenon DEF Effect, ReconcileEffect
  <1>15. ASSUME ClockTick PROVE Refusal \/ Effect
    BY Zenon, <1>15 DEF Effect
  <1> QED
    BY Zenon, <1>1, <1>2, <1>3, <1>4, <1>5, <1>6, <1>7, <1>8, <1>9, <1>10, <1>11, <1>12,
       <1>13, <1>14, <1>15 DEF SvcNext

-----------------------------------------------------------------------------
(* The profile store, the registry and the sessions.                       *)

(* A step that leaves the three stores alone keeps what ties them.         *)
LEMMA ServiceQuiet ==
    ASSUME ServiceInv, UNCHANGED <<profiles, status, owner, sessions>>
    PROVE  ServiceInv'
  BY ZenonT(30) DEF ServiceInv, ServiceTyped, ProfilesServed, SessionsOwned, AccountsFixed,
         profile_state, has_account

(* A step that leaves the data tables and the clock alone keeps their      *)
(* order.                                                                  *)
LEMMA TablesQuiet ==
    ASSUME TablesInv, UNCHANGED <<usage, periods, last_resets, clock>>
    PROVE  TablesInv'
  BY Zenon DEF TablesInv, TablesTyped, TablesOrdered, Rows

(* Profile lifecycles as a step leaves them: what SimSlot::transition does *)
(* to every profile of the store.                                          *)
LEMMA TransitionTells ==
    ASSUME ServiceTyped, NEW k \in ProfileKey, NEW op \in {"Enable", "Disable", "Delete"},
           transition(op, k)
    PROVE  /\ profiles' \in [ProfileKey -> EsimProfile]
           /\ \A q \in ProfileKey :
                /\ profiles'[q].identity = profiles[q].identity
                /\ profiles'[q].state =
                     IF q = k THEN target_state(op)
                     ELSE IF /\ target_state(op) = "Enabled" /\ q[1] = k[1]
                             /\ profiles[q].state = "Enabled"
                     THEN "Disabled" ELSE profiles[q].state
  <1>1. target_state(op) \in ProfileState
    BY Zenon DEF target_state, ProfileState
  <1>2. \A q \in ProfileKey : profiles[q] \in EsimProfile
    BY Zenon DEF ServiceTyped
  <1>3. ASSUME NEW q \in ProfileKey, NEW st \in ProfileState
        PROVE  /\ [profiles[q] EXCEPT !.state = st] \in EsimProfile
               /\ [profiles[q] EXCEPT !.state = st].state = st
               /\ [profiles[q] EXCEPT !.state = st].identity = profiles[q].identity
    BY Zenon, <1>2 DEF EsimProfile
  <1>4. "Disabled" \in ProfileState
    BY Zenon DEF ProfileState
  <1> QED
    BY <1>1, <1>2, <1>3, <1>4 DEF transition, profile_state

(* The same of suspend's forced disables.                                  *)
LEMMA DisableAllTells ==
    ASSUME ServiceTyped, NEW ks, disable_all(ks)
    PROVE  /\ profiles' \in [ProfileKey -> EsimProfile]
           /\ \A q \in ProfileKey :
                /\ profiles'[q].identity = profiles[q].identity
                /\ profiles'[q].state =
                     IF q \in ks /\ profiles[q].state = "Enabled" THEN "Disabled"
                     ELSE profiles[q].state
  <1>1. target_state("Disable") = "Disabled" /\ "Disabled" \in ProfileState
    BY Zenon DEF target_state, ProfileState
  <1>2. \A q \in ProfileKey : profiles[q] \in EsimProfile
    BY Zenon DEF ServiceTyped
  <1>3. ASSUME NEW q \in ProfileKey, NEW st \in ProfileState
        PROVE  /\ [profiles[q] EXCEPT !.state = st] \in EsimProfile
               /\ [profiles[q] EXCEPT !.state = st].state = st
               /\ [profiles[q] EXCEPT !.state = st].identity = profiles[q].identity
    BY Zenon, <1>2 DEF EsimProfile
  <1>4. \A q \in ProfileKey : legal("Disable", q) <=> profiles[q].state = "Enabled"
    BY Zenon DEF legal, profile_state, source_state
  <1> QED
    BY <1>1, <1>2, <1>3, <1>4 DEF disable_all

(* The places of a vector stay taken in order when a step creates no       *)
(* profile and removes none.                                               *)
LEMMA IdsStayInOrder ==
    ASSUME ServiceTyped,
           \A q \in ProfileKey : profiles'[q].state = "Absent" <=> profiles[q].state = "Absent"
    PROVE  \A slot \in Slot, i \in ProfileId : \A j \in 0 .. i :
             profiles'[<<slot, i>>].state # "Absent" => profiles'[<<slot, j>>].state # "Absent"
  <1> SUFFICES ASSUME NEW slot \in Slot, NEW i \in ProfileId, NEW j \in 0 .. i
               PROVE  profiles'[<<slot, i>>].state # "Absent" =>
                        profiles'[<<slot, j>>].state # "Absent"
    BY Zenon
  <1>1. j \in ProfileId
    BY SimAssumption DEF ProfileId
  <1>2. <<slot, i>> \in ProfileKey /\ <<slot, j>> \in ProfileKey
    BY Zenon, <1>1 DEF ProfileKey
  <1> QED
    BY Zenon, <1>2 DEF ServiceTyped, profile_state

(* SYS_SIM_CREATE.                                                         *)
LEMMA CreateKeepsService ==
    ASSUME ServiceInv, NEW slot \in Slot, NEW id \in ProfileId, CreateEffect(slot, id)
    PROVE  ServiceInv'
  <1> DEFINE k == <<slot, id>>
  <1>1. k \in ProfileKey
    BY Zenon DEF ProfileKey
  <1>2. profiles[k].state = "Absent" /\ \A j \in 0 .. id - 1 : profiles[<<slot, j>>].state # "Absent"
    BY Zenon DEF CreateEffect, create, create_id, profile_state
  <1>3. /\ profiles' \in [ProfileKey -> EsimProfile]
        /\ \A q \in ProfileKey :
             /\ profiles'[q].identity = profiles[q].identity
             /\ profiles'[q].state = IF q = k THEN "Created" ELSE profiles[q].state
    BY ZenonT(30), <1>1 DEF CreateEffect, create, ServiceInv, ServiceTyped, EsimProfile, ProfileState
  <1>4. UNCHANGED <<status, owner, sessions>>
    BY Zenon DEF CreateEffect, regVars, dataVars
  <1>5. ASSUME NEW s \in Slot, NEW i \in ProfileId, NEW j \in 0 .. i,
               profiles'[<<s, i>>].state # "Absent"
        PROVE  profiles'[<<s, j>>].state # "Absent"
    <2>1. j \in ProfileId
      BY SimAssumption DEF ProfileId
    <2>2. <<s, i>> \in ProfileKey /\ <<s, j>> \in ProfileKey
      BY Zenon, <2>1 DEF ProfileKey
    <2>3. CASE <<s, i>> = k
      <3>1. s = slot /\ i = id
        BY Zenon, <2>3
      <3>2. j = id \/ j \in 0 .. id - 1
        BY <3>1 DEF ProfileId
      <3> QED
        BY Zenon, <1>2, <1>3, <2>2, <3>1, <3>2
    <2>4. CASE <<s, i>> # k
      <3>1. profiles[<<s, i>>].state # "Absent"
        BY Zenon, <1>3, <1>5, <2>2, <2>4
      <3>2. profiles[<<s, j>>].state # "Absent"
        BY Zenon, <3>1 DEF ServiceInv, ServiceTyped, profile_state
      <3> QED
        BY Zenon, <1>3, <2>2, <3>2
    <2> QED
      BY Zenon, <2>3, <2>4
  <1> HIDE DEF k
  <1>6. ServiceTyped'
    BY Zenon, <1>3, <1>4, <1>5 DEF ServiceInv, ServiceTyped, profile_state
  <1>7. ProfilesServed'
    BY <1>1, <1>2, <1>3, <1>4 DEF ServiceInv, ProfilesServed, profile_state
  <1>8. \A s \in sessions : s.key \in ProfileKey
    BY Zenon DEF ServiceInv, ServiceTyped, Session
  <1>9. SessionsOwned'
    BY Zenon, <1>2, <1>3, <1>4, <1>8 DEF ServiceInv, SessionsOwned, profile_state
  <1> QED
    BY Zenon, <1>4, <1>6, <1>7, <1>9 DEF ServiceInv, AccountsFixed, has_account

(* SYS_SIM_INSTALL.                                                        *)
LEMMA InstallKeepsService ==
    ASSUME ServiceInv, NEW k \in ProfileKey, NEW i \in Identity, InstallEffect(k, i)
    PROVE  ServiceInv'
  <1>1. profiles[k].state = "Created"
    BY Zenon DEF InstallEffect, legal, source_state, profile_state
  <1>2. /\ profiles' \in [ProfileKey -> EsimProfile]
        /\ \A q \in ProfileKey :
             /\ profiles'[q].identity = IF q = k THEN i ELSE profiles[q].identity
             /\ profiles'[q].state = IF q = k THEN "Disabled" ELSE profiles[q].state
    BY Zenon DEF InstallEffect, install, target_state, ServiceInv, ServiceTyped, EsimProfile, ProfileState
  <1>3. UNCHANGED <<status, owner, sessions>>
    BY Zenon DEF InstallEffect, regVars, dataVars
  <1>4. ServiceTyped'
    BY Zenon, <1>1, <1>2, <1>3, IdsStayInOrder DEF ServiceInv, ServiceTyped, profile_state
  <1>5. ProfilesServed'
    BY <1>1, <1>2, <1>3, SimAssumption DEF ServiceInv, ProfilesServed, profile_state
  <1>6. \A s \in sessions : s.key \in ProfileKey
    BY Zenon DEF ServiceInv, ServiceTyped, Session
  <1>7. SessionsOwned'
    BY Zenon, <1>1, <1>2, <1>3, <1>6 DEF ServiceInv, SessionsOwned, profile_state
  <1> QED
    BY Zenon, <1>3, <1>4, <1>5, <1>7 DEF ServiceInv, AccountsFixed, has_account

(* SYS_SIM_ENABLE: the enable gate and the demotion of whatever the slot   *)
(* had Enabled.                                                            *)
LEMMA EnableKeepsService ==
    ASSUME ServiceInv, NEW k \in ProfileKey, NEW v, EnableEffect(k, v)
    PROVE  ServiceInv'
  <1>1. profiles[k].state = "Disabled" /\ owner[k] # None /\ status[owner[k]] = "Active"
    BY Zenon DEF EnableEffect, legal, source_state, profile_state, gate_enable
  <1>2. /\ profiles' \in [ProfileKey -> EsimProfile]
        /\ \A q \in ProfileKey :
             /\ profiles'[q].identity = profiles[q].identity
             /\ profiles'[q].state = IF q = k THEN "Enabled"
                                     ELSE IF q[1] = k[1] /\ profiles[q].state = "Enabled"
                                     THEN "Disabled" ELSE profiles[q].state
    BY TransitionTells DEF EnableEffect, target_state, ServiceInv
  <1>3. UNCHANGED <<status, owner, sessions>>
    BY Zenon DEF EnableEffect, regVars, dataVars
  <1>4. ServiceTyped'
    BY Zenon, <1>1, <1>2, <1>3, IdsStayInOrder DEF ServiceInv, ServiceTyped, profile_state
  <1>5. ProfilesServed'
    BY <1>1, <1>2, <1>3 DEF ServiceInv, ProfilesServed, profile_state
  <1>6. \A s \in sessions : s.key \in ProfileKey
    BY Zenon DEF ServiceInv, ServiceTyped, Session
  <1>7. SessionsOwned'
    BY Zenon, <1>1, <1>2, <1>3, <1>6 DEF ServiceInv, SessionsOwned, profile_state
  <1> QED
    BY Zenon, <1>3, <1>4, <1>5, <1>7 DEF ServiceInv, AccountsFixed, has_account

(* SYS_SIM_DISABLE.                                                        *)
LEMMA DisableKeepsService ==
    ASSUME ServiceInv, NEW k \in ProfileKey, DisableEffect(k)
    PROVE  ServiceInv'
  <1>1. profiles[k].state = "Enabled"
    BY Zenon DEF DisableEffect, legal, source_state, profile_state
  <1>2. /\ profiles' \in [ProfileKey -> EsimProfile]
        /\ \A q \in ProfileKey :
             /\ profiles'[q].identity = profiles[q].identity
             /\ profiles'[q].state = IF q = k THEN "Disabled" ELSE profiles[q].state
    BY ZenonT(30), TransitionTells DEF DisableEffect, target_state, ServiceInv
  <1>3. UNCHANGED <<status, owner>> /\ sessions' \subseteq sessions
    BY Zenon DEF DisableEffect, regVars, close_sessions
  <1>4. ServiceTyped'
    BY Zenon, <1>1, <1>2, <1>3, IdsStayInOrder DEF ServiceInv, ServiceTyped, profile_state
  <1>5. ProfilesServed'
    BY <1>1, <1>2, <1>3 DEF ServiceInv, ProfilesServed, profile_state
  <1>6. \A s \in sessions : s.key \in ProfileKey
    BY Zenon DEF ServiceInv, ServiceTyped, Session
  <1>7. SessionsOwned'
    BY Zenon, <1>1, <1>2, <1>3, <1>6 DEF ServiceInv, SessionsOwned, profile_state
  <1> QED
    BY Zenon, <1>3, <1>4, <1>5, <1>7 DEF ServiceInv, AccountsFixed, has_account

(* SYS_SIM_DELETE: the binding and the sessions go with the profile.       *)
LEMMA DeleteKeepsService ==
    ASSUME ServiceInv, NEW k \in ProfileKey, DeleteEffect(k)
    PROVE  ServiceInv'
  <1>1. profiles[k].state = "Disabled"
    BY Zenon DEF DeleteEffect, legal, source_state, profile_state
  <1>2. /\ profiles' \in [ProfileKey -> EsimProfile]
        /\ \A q \in ProfileKey :
             /\ profiles'[q].identity = profiles[q].identity
             /\ profiles'[q].state = IF q = k THEN "Deleted" ELSE profiles[q].state
    BY ZenonT(30), TransitionTells DEF DeleteEffect, target_state, ServiceInv
  <1>3. /\ UNCHANGED status
        /\ owner' \in [ProfileKey -> Account \cup {None}]
        /\ \A q \in ProfileKey : owner'[q] = IF q = k THEN None ELSE owner[q]
    BY Zenon, <1>1 DEF DeleteEffect, release_binding_after_delete, unbind, can_unbind, profile_state,
                ServiceInv, ServiceTyped
  <1>4. sessions' \subseteq sessions /\ \A s \in sessions' : s.key # k
    BY Zenon DEF DeleteEffect, release_binding_after_delete, close_sessions, sessions_for_profile
  <1>5. ServiceTyped'
    BY Zenon, <1>1, <1>2, <1>3, <1>4, IdsStayInOrder DEF ServiceInv, ServiceTyped, profile_state
  <1>6. ProfilesServed'
    BY SMTT(30), <1>1, <1>2, <1>3 DEF ServiceInv, ProfilesServed, profile_state
  <1>7. \A s \in sessions : s.key \in ProfileKey
    BY Zenon DEF ServiceInv, ServiceTyped, Session
  <1>8. SessionsOwned'
    BY Zenon, <1>1, <1>2, <1>3, <1>4, <1>7 DEF ServiceInv, SessionsOwned, profile_state
  <1> QED
    BY Zenon, <1>3, <1>5, <1>6, <1>8 DEF ServiceInv, AccountsFixed, has_account

(* SYS_MVNO_BIND: an Enabled profile is bound to an Active account only.   *)
LEMMA BindKeepsService ==
    ASSUME ServiceInv, NEW a \in Account, NEW k \in ProfileKey, NEW v, BindEffect(a, k, v)
    PROVE  ServiceInv'
  <1>1. /\ owner[k] = None /\ status[a] # "Unopened"
        /\ profiles[k].state \notin {"Absent", "Deleted"}
        /\ profiles[k].state = "Enabled" => status[a] = "Active"
    BY Zenon DEF BindEffect, can_bind, has_account, profile_state
  <1>2. /\ UNCHANGED <<profiles, status, sessions>>
        /\ owner' \in [ProfileKey -> Account \cup {None}]
        /\ \A q \in ProfileKey : owner'[q] = IF q = k THEN a ELSE owner[q]
    BY Zenon DEF BindEffect, bind, dataVars, ServiceInv, ServiceTyped
  <1>3. ServiceTyped'
    BY Zenon, <1>2 DEF ServiceInv, ServiceTyped, profile_state
  <1>4. ProfilesServed'
    BY Zenon, <1>1, <1>2, AccountAssumption DEF ServiceInv, ProfilesServed, profile_state
  <1>5. \A s \in sessions : s.key \in ProfileKey /\ s.account \in Account
    BY Zenon DEF ServiceInv, ServiceTyped, Session
  <1>6. SessionsOwned'
    BY <1>1, <1>2, <1>5, AccountAssumption DEF ServiceInv, SessionsOwned, profile_state
  <1> QED
    BY Zenon, <1>2, <1>3, <1>4, <1>6 DEF ServiceInv, AccountsFixed, has_account

(* SYS_MVNO_SUSPEND: the handshake leaves no Enabled profile and no        *)
(* session to the suspended account.                                       *)
LEMMA SuspendKeepsService ==
    ASSUME ServiceInv, NEW a \in Account, NEW v, SuspendEffect(a, v)
    PROVE  ServiceInv'
  <1>1. status[a] = "Active"
    BY Zenon DEF SuspendEffect, can_suspend
  <1>2. /\ UNCHANGED owner
        /\ status' \in [Account -> AccountStatus \cup {"Unopened"}]
        /\ \A b \in Account : status'[b] = IF b = a THEN "Suspended" ELSE status[b]
    BY Zenon DEF SuspendEffect, suspend_account, set_status, ServiceInv, ServiceTyped, AccountStatus
  <1>3. /\ profiles' \in [ProfileKey -> EsimProfile]
        /\ \A q \in ProfileKey :
             /\ profiles'[q].identity = profiles[q].identity
             /\ profiles'[q].state = IF owner[q] = a /\ profiles[q].state = "Enabled"
                                     THEN "Disabled" ELSE profiles[q].state
    BY DisableAllTells
    DEF SuspendEffect, suspend_account, ServiceInv, force_disable, profiles_of, profile_state
  <1>4. sessions' \subseteq sessions /\ \A s \in sessions' : s.account # a
    BY Zenon DEF SuspendEffect, suspend_account, close_sessions, sessions_for_account
  <1>5. \A q \in ProfileKey : owner[q] \in Account \cup {None}
    BY Zenon DEF ServiceInv, ServiceTyped
  <1>6. ServiceTyped'
    BY Zenon, <1>2, <1>3, <1>4, IdsStayInOrder DEF ServiceInv, ServiceTyped, profile_state
  <1>7. ProfilesServed'
    BY <1>1, <1>2, <1>3, <1>5 DEF ServiceInv, ProfilesServed, profile_state
  <1>8. \A s \in sessions : s.key \in ProfileKey /\ s.account \in Account
    BY Zenon DEF ServiceInv, ServiceTyped, Session
  <1>9. SessionsOwned'
    BY Zenon, <1>2, <1>3, <1>4, <1>8 DEF ServiceInv, SessionsOwned, profile_state
  <1> QED
    BY Zenon, <1>1, <1>2, <1>6, <1>7, <1>9 DEF ServiceInv, AccountsFixed, has_account

(* SYS_MVNO_REACTIVATE.                                                    *)
LEMMA ReactivateKeepsService ==
    ASSUME ServiceInv, NEW a \in Account, ReactivateEffect(a)
    PROVE  ServiceInv'
  <1>1. status[a] = "Suspended"
    BY Zenon DEF ReactivateEffect, can_reactivate
  <1>2. /\ UNCHANGED <<profiles, owner, sessions>>
        /\ status' \in [Account -> AccountStatus \cup {"Unopened"}]
        /\ \A b \in Account : status'[b] = IF b = a THEN "Active" ELSE status[b]
    BY Zenon DEF ReactivateEffect, set_status, dataVars, ServiceInv, ServiceTyped, AccountStatus
  <1>3. \A q \in ProfileKey : owner[q] \in Account \cup {None}
    BY Zenon DEF ServiceInv, ServiceTyped
  <1>4. ServiceTyped'
    BY Zenon, <1>2 DEF ServiceInv, ServiceTyped, profile_state
  <1>5. ProfilesServed'
    BY Zenon, <1>1, <1>2, <1>3 DEF ServiceInv, ProfilesServed, profile_state
  <1>6. \A s \in sessions : s.key \in ProfileKey /\ s.account \in Account
    BY Zenon DEF ServiceInv, ServiceTyped, Session
  <1>7. SessionsOwned'
    BY Zenon, <1>2, <1>6 DEF ServiceInv, SessionsOwned, profile_state
  <1> QED
    BY Zenon, <1>1, <1>2, <1>4, <1>5, <1>7 DEF ServiceInv, AccountsFixed, has_account

(* SYS_DATA_SESSION_OPEN: the row replaces the one the account already has *)
(* on the profile.                                                         *)
LEMMA OpenKeepsService ==
    ASSUME ServiceInv, NEW a \in Account, NEW k \in ProfileKey, NEW roaming \in BOOLEAN,
           OpenEffect(a, k, roaming)
    PROVE  ServiceInv'
  <1> DEFINE row == [account |-> a, key |-> k, roaming |-> roaming]
  <1>1. /\ owner[k] = a /\ status[a] = "Active" /\ profiles[k].state = "Enabled"
        /\ roaming => Entitlement[a].roaming
    BY Zenon DEF OpenEffect, profile_state
  <1>2. UNCHANGED <<profiles, status, owner>>
    BY Zenon DEF OpenEffect, regVars
  <1>3. row.account = a /\ row.key = k /\ (row.roaming <=> roaming) /\ row \in Session
    BY ZenonT(30) DEF Session
  <1>4. \A s \in sessions' : s = row \/ (s \in sessions /\ ~(s.account = a /\ s.key = k))
    BY Zenon DEF OpenEffect, record_session, SameSession
  <1> HIDE DEF row
  <1>5. \A s \in sessions : s.key \in ProfileKey /\ s.account \in Account
    BY Zenon DEF ServiceInv, ServiceTyped, Session
  <1>6. ServiceTyped'
    BY Zenon, <1>2, <1>3, <1>4 DEF ServiceInv, ServiceTyped, profile_state
  <1>7. ProfilesServed'
    BY Zenon, <1>2 DEF ServiceInv, ProfilesServed, profile_state
  <1>8. \A s, t \in sessions' : s.key = t.key => s = t
    BY SMTT(30), <1>1, <1>3, <1>4 DEF ServiceInv, SessionsOwned
  <1>9. ASSUME NEW s \in sessions'
        PROVE  /\ status'[s.account] = "Active"
               /\ owner'[s.key] = s.account
               /\ profiles'[s.key].state \in {"Enabled", "Disabled"}
               /\ s.roaming => Entitlement[s.account].roaming
    <2>1. CASE s = row
      BY <1>1, <1>2, <1>3, <2>1, Zenon
    <2>2. CASE s \in sessions
      BY <1>2, <2>2, Zenon DEF ServiceInv, SessionsOwned, profile_state
    <2> QED
      BY Zenon, <1>4, <2>1, <2>2
  <1>10. SessionsOwned'
    BY ZenonT(30), <1>8, <1>9 DEF SessionsOwned, profile_state
  <1> QED
    BY Zenon, <1>2, <1>6, <1>7, <1>10 DEF ServiceInv, AccountsFixed, has_account

(* SYS_DATA_SESSION_CLOSE.                                                 *)
LEMMA CloseKeepsService ==
    ASSUME ServiceInv, NEW closed, CloseEffect(closed)
    PROVE  ServiceInv'
  <1>1. UNCHANGED <<profiles, status, owner>> /\ sessions' \subseteq sessions
    BY Zenon DEF CloseEffect, regVars, close_sessions
  <1> QED
    BY ZenonT(30), <1>1 DEF ServiceInv, ServiceTyped, ProfilesServed, SessionsOwned, AccountsFixed,
                profile_state, has_account

-----------------------------------------------------------------------------
(* The data tables.                                                        *)

(* saturating_add never lowers the counter and never passes its limit.     *)
LEMMA UsageSaturates ==
    ASSUME NEW used \in 0 .. MAX_USAGE, NEW bytes \in Nat
    PROVE  apply_usage(used, bytes) \in used .. MAX_USAGE
  <1>1. MAX_USAGE \in Nat
    BY Zenon, SvcAssumption
  <1> DEFINE S == {used + bytes, MAX_USAGE}
  <1>2. \E x \in S : \A y \in S : x =< y
    BY <1>1
  <1>3. Min(S) \in S /\ \A y \in S : Min(S) =< y
    BY Zenon, <1>2 DEF Min
  <1> QED
    BY <1>1, <1>3 DEF apply_usage

(* A table that has rows only for opened accounts has room for each of     *)
(* them: MAX_DATA_ACCOUNTS is the registry's own bound.                    *)
LEMMA OpenedHaveRoom ==
    ASSUME NEW table, NEW a \in OpenedAccounts, Rows(table) \subseteq OpenedAccounts
    PROVE  RoomFor(table, a)
  <1>1. CASE a \in Rows(table)
    BY Zenon, <1>1 DEF RoomFor
  <1>2. CASE a \notin Rows(table)
    <2>1. /\ IsFiniteSet(Rows(table))
          /\ Cardinality(Rows(table)) <= Cardinality(OpenedAccounts)
          /\ Cardinality(Rows(table)) = Cardinality(OpenedAccounts) =>
               Rows(table) = OpenedAccounts
      BY Zenon, SvcAssumption, FS_Subset
    <2>2. Cardinality(Rows(table)) # Cardinality(OpenedAccounts)
      BY Zenon, <1>2, <2>1
    <2>3. Cardinality(Rows(table)) \in Nat /\ Cardinality(OpenedAccounts) \in Nat
      BY Zenon, <2>1, SvcAssumption, FS_CardinalityType
    <2> QED
      BY <2>1, <2>2, <2>3, SvcAssumption DEF RoomFor
  <1> QED
    BY Zenon, <1>1, <1>2

(* SYS_DATA_ACCOUNT: the counter only grows.                               *)
LEMMA AccountKeepsTables ==
    ASSUME TablesInv, NEW a \in Account, NEW bytes \in Bytes, AccountEffect(a, bytes)
    PROVE  TablesInv'
  <1> DEFINE row == [used |-> apply_usage(usage_of(a), bytes),
                     last_used |-> IF usage[a] = None THEN None ELSE usage[a].last_used]
  <1>1. UNCHANGED <<periods, last_resets, clock>> /\ usage' = [usage EXCEPT ![a] = row]
    BY Zenon DEF AccountEffect, feed_usage
  <1>2. usage_of(a) \in 0 .. MAX_USAGE
    BY SvcAssumption DEF TablesInv, TablesTyped, UsageRow, usage_of
  <1>3. bytes \in Nat /\ MAX_USAGE \in Nat
    BY Zenon, SvcAssumption
  <1>4. row.used \in usage_of(a) .. MAX_USAGE
    BY Zenon, <1>2, <1>3, UsageSaturates
  <1>5. row \in UsageRow /\ (row.last_used # None => row.last_used <= row.used)
    <2>1. CASE usage[a] = None
      BY <1>2, <1>3, <1>4, <2>1 DEF UsageRow
    <2>2. CASE usage[a] # None
      <3>1. usage[a] \in UsageRow /\ usage_of(a) = usage[a].used
        BY Zenon, <2>2 DEF TablesInv, TablesTyped, usage_of
      <3>2. usage[a].last_used # None => usage[a].last_used <= usage[a].used
        BY Zenon, <2>2 DEF TablesInv, TablesOrdered, Rows
      <3>3. row.last_used = usage[a].last_used
        BY Zenon, <2>2
      <3>4. row \in UsageRow
        BY SMTT(30), <1>2, <1>3, <1>4, <2>2, <3>1 DEF UsageRow
      <3> HIDE DEF row
      <3> QED
        BY <1>3, <1>4, <3>1, <3>2, <3>3, <3>4 DEF UsageRow
    <2> QED
      BY Zenon, <2>1, <2>2
  <1> HIDE DEF row
  <1>6. TablesTyped'
    BY Zenon, <1>1, <1>5 DEF TablesInv, TablesTyped
  <1>7. TablesOrdered'
    BY Zenon, <1>1, <1>5 DEF TablesInv, TablesTyped, TablesOrdered, Rows
  <1> QED
    BY Zenon, <1>1, <1>6, <1>7 DEF TablesInv

(* SYS_DATA_RECONCILE remembers the counters it saw.                       *)
LEMMA ReconcileKeepsTables ==
    ASSUME TablesInv, ReconcileEffect
    PROVE  TablesInv'
  <1>1. UNCHANGED <<periods, last_resets, clock>>
    BY Zenon DEF ReconcileEffect, mark_observed
  <1>2. usage' = [a \in Account |->
           IF usage[a] = None THEN None ELSE [usage[a] EXCEPT !.last_used = usage[a].used]]
    BY Zenon DEF ReconcileEffect, mark_observed
  <1>3. ASSUME NEW a \in Account, usage[a] # None
        PROVE  /\ usage'[a] \in UsageRow
               /\ usage'[a].used = usage[a].used /\ usage'[a].last_used = usage[a].used
               /\ usage[a].used \in 0 .. MAX_USAGE
    <2>1. usage[a] \in UsageRow
      BY Zenon, <1>3 DEF TablesInv, TablesTyped
    <2> QED
      BY Zenon, <1>2, <1>3, <2>1 DEF UsageRow
  <1>4. \A a \in Account : usage[a] = None => usage'[a] = None
    BY Zenon, <1>2
  <1>5. TablesTyped'
    <2>1. \A a \in Account : usage'[a] \in UsageRow \cup {None}
      BY Zenon, <1>3, <1>4
    <2>2. usage' \in [Account -> UsageRow \cup {None}]
      BY Zenon, <1>2, <2>1
    <2> QED
      BY Zenon, <1>1, <2>2 DEF TablesInv, TablesTyped
  <1>6. TablesOrdered'
    BY <1>1, <1>3, <1>4, SvcAssumption DEF TablesInv, TablesOrdered, Rows
  <1> QED
    BY Zenon, <1>1, <1>5, <1>6 DEF TablesInv

(* SYS_DATA_PERIOD marks the first request of an elapsed period.           *)
LEMMA PeriodKeepsTables ==
    ASSUME TablesInv, NEW a \in Account, PeriodEffect(a)
    PROVE  TablesInv'
  <1>1. UNCHANGED <<usage, last_resets, clock>> /\ periods[a] # None
    BY Zenon DEF PeriodEffect, advise_period
  <1>2. periods[a] \in Period /\ clock \in Nat
    BY <1>1, SvcAssumption DEF TablesInv, TablesTyped
  <1>3. PICK since \in {clock, periods[a].requested_since} :
          periods' = [periods EXCEPT ![a].requested_since = since]
    BY ZenonT(30) DEF PeriodEffect, advise_period
  <1>4. /\ periods' \in [Account -> Period \cup {None}]
        /\ \A b \in Account \ {a} : periods'[b] = periods[b]
        /\ periods'[a] \in Period
        /\ periods'[a].start = periods[a].start
        /\ periods'[a].requested_since = since
    BY Zenon, <1>2, <1>3 DEF TablesInv, TablesTyped, Period
  <1>5. TablesTyped'
    BY Zenon, <1>1, <1>4 DEF TablesInv, TablesTyped
  <1>6. TablesOrdered'
    BY <1>1, <1>2, <1>3, <1>4, SvcAssumption DEF TablesInv, TablesOrdered, Rows
  <1> QED
    BY Zenon, <1>1, <1>5, <1>6 DEF TablesInv

(* What reset_usage_and_period leaves, in one critical section: a period   *)
(* that starts with the reset, and the reset's tick.                       *)
LEMMA ResetTells ==
    ASSUME ServiceInv, TablesInv, NEW a \in Account, NEW early \in BOOLEAN,
           NEW now \in clock .. MAX_TICK, ResetEffect(a, early, now)
    PROVE  /\ now \in Nat /\ clock <= now /\ clock' = now
           /\ a \in OpenedAccounts
           /\ usage' = [usage EXCEPT ![a] = reset_row(a)]
           /\ periods' = [periods EXCEPT ![a] =
                [start |-> now, requested_since |-> None,
                 length |-> IF periods[a] = None THEN INSTALL_PERIOD ELSE periods[a].length]]
           /\ periods'[a] \in Period /\ periods'[a] # None
           /\ last_resets' = [last_resets EXCEPT ![a] = now]
  <1>1. now \in Nat /\ clock \in Nat /\ clock <= now
    BY SMTT(30), SvcAssumption DEF TablesInv
  <1>2. a \in OpenedAccounts
    BY Zenon DEF ResetEffect, Entitled, ServiceInv, AccountsFixed
  <1>3. Rows(periods) \subseteq OpenedAccounts /\ Rows(last_resets) \subseteq OpenedAccounts
    BY Zenon DEF TablesInv, TablesOrdered, Rows
  <1>4. RoomFor(periods, a) /\ RoomFor(last_resets, a)
    BY Zenon, <1>2, <1>3, OpenedHaveRoom
  <1>5. periods[a] # None => periods[a] \in Period /\ periods[a].start <= clock
    BY Zenon DEF TablesInv, TablesTyped, TablesOrdered, Rows
  <1> DEFINE next == [start |-> now, requested_since |-> None,
                      length |-> IF periods[a] = None THEN INSTALL_PERIOD ELSE periods[a].length]
  <1>6. start_next_period(a, now, INSTALL_PERIOD) = next
    <2>1. CASE periods[a] = None
      BY Zenon, <1>4, <2>1 DEF start_next_period
    <2>2. CASE periods[a] # None
      <3>1. now >= periods[a].start
        BY SMTT(30), <1>1, <1>5, <2>2 DEF Period
      <3> QED
        BY Zenon, <2>2, <3>1 DEF start_next_period
    <2> QED
      BY Zenon, <2>1, <2>2
  <1>7. next \in Period
    BY Zenon, <1>1, <1>5, SvcAssumption DEF Period
  <1>8. next # None
    BY Zenon, <1>7, SvcAssumption
  <1> HIDE DEF next
  <1>9. /\ clock' = now
        /\ usage' = [usage EXCEPT ![a] = reset_row(a)]
        /\ periods' = [periods EXCEPT ![a] = next]
        /\ last_resets' = [last_resets EXCEPT ![a] = now]
    BY Zenon, <1>4, <1>6 DEF ResetEffect, reset_usage_and_period
  <1>10. periods'[a] = next
    BY Zenon, <1>9 DEF TablesInv, TablesTyped
  <1> QED
    BY Zenon, <1>1, <1>2, <1>7, <1>8, <1>9, <1>10 DEF next

(* SYS_DATA_RESET.                                                         *)
LEMMA ResetKeepsTables ==
    ASSUME ServiceInv, TablesInv, NEW a \in Account, NEW early \in BOOLEAN,
           NEW now \in clock .. MAX_TICK, ResetEffect(a, early, now)
    PROVE  TablesInv'
  <1>1. /\ now \in Nat /\ clock \in Nat /\ clock <= now /\ clock' = now
        /\ a \in OpenedAccounts
        /\ periods'[a] \in Period /\ periods'[a] # None
        /\ periods'[a].start = now /\ periods'[a].requested_since = None
        /\ \A b \in Account \ {a} : periods'[b] = periods[b]
        /\ periods' \in [Account -> Period \cup {None}]
    BY SMTT(30), ResetTells DEF TablesInv, TablesTyped
  <1>2. /\ last_resets' \in [Account -> Nat \cup {None}]
        /\ last_resets'[a] = now
        /\ \A b \in Account \ {a} : last_resets'[b] = last_resets[b]
    BY SMTT(30), ResetTells, <1>1 DEF TablesInv, TablesTyped
  <1>3. /\ usage' \in [Account -> UsageRow \cup {None}]
        /\ usage'[a] = reset_row(a)
        /\ \A b \in Account \ {a} : usage'[b] = usage[b]
    BY ResetTells, SvcAssumption DEF TablesInv, TablesTyped, reset_row, UsageRow
  <1>4. usage'[a] # None => usage'[a].last_used = None
    BY <1>3 DEF reset_row
  <1>5. \A b \in Rows(usage)' : usage'[b].last_used # None => usage'[b].last_used <= usage'[b].used
    BY Zenon, <1>3, <1>4 DEF TablesInv, TablesOrdered, Rows
  <1>6. ASSUME NEW b \in Rows(periods)'
        PROVE  /\ periods'[b].start <= clock'
               /\ periods'[b].requested_since # None => periods'[b].requested_since <= clock'
               /\ b \in OpenedAccounts
    <2>1. CASE b = a
      BY SMTT(30), <1>1, <2>1
    <2>2. CASE b # a
      <3>1. b \in Rows(periods) /\ periods'[b] = periods[b] /\ periods[b] \in Period
        BY Zenon, <1>1, <1>6, <2>2 DEF Rows, TablesInv, TablesTyped
      <3> QED
        BY SMTT(30), <1>1, <3>1 DEF TablesInv, TablesOrdered, Period
    <2> QED
      BY Zenon, <2>1, <2>2
  <1>7. ASSUME NEW b \in Rows(last_resets)'
        PROVE  periods'[b] # None /\ last_resets'[b] <= periods'[b].start
    BY SMTT(30), <1>1, <1>2, <1>7 DEF TablesInv, TablesOrdered, Rows
  <1>8. clock' \in 0 .. MAX_TICK
    BY <1>1, SvcAssumption
  <1> QED
    BY Zenon, <1>1, <1>2, <1>3, <1>5, <1>6, <1>7, <1>8 DEF TablesInv, TablesTyped, TablesOrdered

(* Time passes.                                                            *)
LEMMA TickKeepsTables ==
    ASSUME TablesInv, ClockTick
    PROVE  TablesInv'
  <1>1. UNCHANGED <<usage, periods, last_resets>>
    BY Zenon DEF ClockTick, stateVars, dataVars
  <1>2. clock \in Nat /\ clock' = clock + 1 /\ clock' \in 0 .. MAX_TICK
    BY SvcAssumption DEF TablesInv, ClockTick
  <1>3. \A a \in Rows(periods) : periods[a] \in Period
    BY Zenon DEF TablesInv, TablesTyped, Rows
  <1>4. TablesOrdered'
    BY <1>1, <1>2, <1>3 DEF TablesInv, TablesOrdered, Rows, Period
  <1> QED
    BY Zenon, <1>1, <1>2, <1>4 DEF TablesInv, TablesTyped

-----------------------------------------------------------------------------
(* The invariant of the syscalls.                                          *)

(* Boot leaves empty stores, opened accounts and the demo periods.         *)
LEMMA SvcInvInit == SvcInit => SvcInv
  <1> SUFFICES ASSUME SvcInit PROVE SvcInv
    BY Zenon
  <1> USE DEF SvcInit, SimInit, RegInit, DataInit
  <1>1. \A k \in ProfileKey : profiles[k].state = "Absent" /\ profiles[k].identity = None
    BY Zenon
  <1>2. \A slot \in Slot, i \in ProfileId : <<slot, i>> \in ProfileKey
    BY Zenon DEF ProfileKey
  <1>3. ServiceTyped
    BY Zenon, <1>1, <1>2 DEF ServiceTyped, profile_state, EsimProfile, AccountStatus
  <1>4. ProfilesServed
    BY Zenon, <1>1 DEF ProfilesServed, profile_state
  <1>5. SessionsOwned
    BY Zenon DEF SessionsOwned
  <1>6. AccountsFixed
    BY Zenon DEF AccountsFixed, has_account
  <1>7. TablesTyped
    BY Zenon, SvcAssumption DEF TablesTyped, Period
  <1>8. TablesOrdered
    <2>1. Rows(usage) = {} /\ Rows(last_resets) = {}
      BY Zenon DEF Rows
    <2>2. ASSUME NEW a \in Rows(periods)
          PROVE  periods[a].start = 0 /\ periods[a].requested_since = None /\ a \in OpenedAccounts
      BY Zenon, <2>2, SvcAssumption DEF Rows
    <2> QED
      BY <2>1, <2>2 DEF TablesOrdered
  <1>9. clock \in 0 .. MAX_TICK
    BY SvcAssumption
  <1>10. last_clean \in BOOLEAN
    BY Zenon
  <1> QED
    BY Zenon, <1>3, <1>4, <1>5, <1>6, <1>7, <1>8, <1>9, <1>10 DEF SvcInv, ServiceInv, TablesInv

(* Every syscall keeps it: the ones of the SIM, MVNO and session calls     *)
(* leave the data tables alone, the others the profiles, the registry and  *)
(* the sessions.                                                           *)
LEMMA SvcInvNext == SvcInv /\ [SvcNext]_svcVars => SvcInv'
  <1> SUFFICES ASSUME SvcInv, [SvcNext]_svcVars PROVE SvcInv'
    BY Zenon
  <1> USE DEF SvcInv
  <1>q. ASSUME UNCHANGED <<stateVars, clock>> PROVE SvcInv'
    <2>1. UNCHANGED <<profiles, status, owner, sessions, usage, periods, last_resets, clock, last_clean>>
      BY Zenon, <1>q DEF stateVars, regVars, dataVars, memVars
    <2> QED
      BY Zenon, <2>1, ServiceQuiet, TablesQuiet
  <1>s. ASSUME ServiceInv', UNCHANGED <<usage, periods, last_resets, clock, last_clean>>
        PROVE  SvcInv'
    BY Zenon, <1>s, TablesQuiet
  <1>t. ASSUME TablesInv', UNCHANGED <<profiles, status, owner, sessions>>, last_clean' \in BOOLEAN
        PROVE  SvcInv'
    BY Zenon, <1>t, ServiceQuiet
  <1>1. CASE Refusal
    BY ZenonT(30), <1>1, <1>q DEF Refusal, Refused
  <1>2. ASSUME NEW slot \in Slot, NEW id \in ProfileId, CreateEffect(slot, id) PROVE SvcInv'
    BY Zenon, <1>2, <1>s, CreateKeepsService DEF CreateEffect, dataVars, memVars
  <1>3. ASSUME NEW k \in ProfileKey, NEW i \in Identity, InstallEffect(k, i) PROVE SvcInv'
    BY Zenon, <1>3, <1>s, InstallKeepsService DEF InstallEffect, dataVars, memVars
  <1>4. ASSUME NEW k \in ProfileKey, NEW v \in GateOutcome, EnableEffect(k, v) PROVE SvcInv'
    BY Zenon, <1>4, <1>s, EnableKeepsService DEF EnableEffect, dataVars, memVars
  <1>5. ASSUME NEW k \in ProfileKey, DisableEffect(k) PROVE SvcInv'
    BY Zenon, <1>5, <1>s, DisableKeepsService DEF DisableEffect, close_sessions, memVars
  <1>6. ASSUME NEW k \in ProfileKey, DeleteEffect(k) PROVE SvcInv'
    BY Zenon, <1>6, <1>s, DeleteKeepsService
    DEF DeleteEffect, release_binding_after_delete, close_sessions, memVars
  <1>7. ASSUME NEW a \in Account, NEW k \in ProfileKey, NEW v \in GateOutcome, BindEffect(a, k, v)
        PROVE  SvcInv'
    BY Zenon, <1>7, <1>s, BindKeepsService DEF BindEffect, dataVars, memVars
  <1>8. ASSUME NEW a \in Account, NEW v \in GateOutcome, SuspendEffect(a, v) PROVE SvcInv'
    BY Zenon, <1>8, <1>s, SuspendKeepsService DEF SuspendEffect, suspend_account, close_sessions, memVars
  <1>9. ASSUME NEW a \in Account, ReactivateEffect(a) PROVE SvcInv'
    BY Zenon, <1>9, <1>s, ReactivateKeepsService DEF ReactivateEffect, dataVars, memVars
  <1>10. ASSUME NEW a \in Account, NEW bytes \in Bytes, AccountEffect(a, bytes) PROVE SvcInv'
    BY ZenonT(30), <1>10, <1>t, AccountKeepsTables DEF AccountEffect, feed_usage, regVars, memVars
  <1>11. ASSUME NEW a \in Account, NEW k \in ProfileKey, NEW roaming \in BOOLEAN,
                OpenEffect(a, k, roaming)
         PROVE  SvcInv'
    BY Zenon, <1>11, <1>s, OpenKeepsService DEF OpenEffect, record_session, memVars
  <1>12. ASSUME NEW closed \in SUBSET sessions, CloseEffect(closed) PROVE SvcInv'
    BY Zenon, <1>12, <1>s, CloseKeepsService DEF CloseEffect, close_sessions, memVars
  <1>13. CASE ReconcileEffect
    BY Zenon, <1>13, <1>t, ReconcileKeepsTables DEF ReconcileEffect, mark_observed, regVars
  <1>14. ASSUME NEW a \in Account, PeriodEffect(a) PROVE SvcInv'
    BY ZenonT(30), <1>14, <1>t, PeriodKeepsTables DEF PeriodEffect, advise_period, regVars, memVars
  <1>15. ASSUME NEW a \in Account, NEW early \in BOOLEAN, NEW now \in clock .. MAX_TICK,
                ResetEffect(a, early, now)
         PROVE  SvcInv'
    BY ZenonT(30), <1>15, <1>t, ResetKeepsTables DEF ResetEffect, reset_usage_and_period, regVars, memVars
  <1>16. CASE ClockTick
    BY Zenon, <1>16, <1>t, TickKeepsTables DEF ClockTick, stateVars, regVars, dataVars, memVars
  <1>17. CASE UNCHANGED svcVars
    BY Zenon, <1>17, <1>q DEF svcVars
  <1>18. CASE Effect
    BY ZenonT(30), <1>18, <1>2, <1>3, <1>4, <1>5, <1>6, <1>7, <1>8, <1>9, <1>10, <1>11, <1>12, <1>13,
       <1>14, <1>15, <1>16 DEF Effect
  <1> QED
    BY Zenon, <1>1, <1>17, <1>18, SyscallsRefuseOrAct

(* A slot has at most one Enabled profile, as a count.                     *)
LEMMA OneEnabled ==
    ASSUME ProfilesServed, NEW slot \in Slot
    PROVE  Cardinality(EnabledIn(slot)) \in {0, 1}
  <1>1. \A k, q \in EnabledIn(slot) : k = q
    BY Zenon DEF ProfilesServed, EnabledIn, EnabledProfiles
  <1>2. CASE EnabledIn(slot) = {}
    BY Zenon, <1>2, FS_EmptySet
  <1>3. CASE EnabledIn(slot) # {}
    <2>1. PICK k : EnabledIn(slot) = {k}
      BY Zenon, <1>1, <1>3
    <2> QED
      BY Zenon, <2>1, FS_Singleton
  <1> QED
    BY Zenon, <1>2, <1>3

(* The reconciler's four lists, in a state the handlers can reach.         *)
LEMMA DriftIsAdvisory ==
    ASSUME SvcInv
    PROVE  OnlyAdvisoryDrift
  <1> DEFINE Advisory == {"UsageOverCapNotRestricted", "AnomalousUsageNoEscalation",
                          "PeriodElapsedNoReset", "SessionWithoutEnabledProfile"}
  <1>1. ASSUME NEW x \in ProfileIncidents PROVE x[1] \in Advisory
    <2>1. \A k \in EnabledProfiles : owner[k] # None /\ status[owner[k]] = "Active"
      BY Zenon DEF SvcInv, ServiceInv, ProfilesServed, EnabledProfiles
    <2>2. \A k \in ProfileKey : owner[k] # None => has_account(owner[k])
      BY Zenon DEF SvcInv, ServiceInv, ProfilesServed, has_account
    <2>3. \A k \in EnabledProfiles : status[owner[k]] \notin {"Suspended", "Closed"}
      BY Zenon, <2>1
    <2> QED
      BY ZenonT(30), <1>1, <2>1, <2>2, <2>3 DEF ProfileIncidents
  <1>2. ASSUME NEW x \in SlotIncidents PROVE x[1] \in Advisory
    <2>1. \A slot \in Slot : ~(Cardinality(EnabledIn(slot)) > 1)
      BY SMTT(30), OneEnabled DEF SvcInv, ServiceInv
    <2> QED
      BY <1>2, <2>1, Zenon DEF SlotIncidents
  <1>3. ASSUME NEW x \in UsageIncidents PROVE x[1] \in Advisory
    <2>1. \A a \in Rows(usage) : ~(usage[a].last_used # None /\ usage[a].used < usage[a].last_used)
      <3> SUFFICES ASSUME NEW a \in Rows(usage), usage[a].last_used # None
                   PROVE  ~(usage[a].used < usage[a].last_used)
        BY Zenon
      <3>1. usage[a] \in UsageRow
        BY Zenon DEF Rows, SvcInv, TablesInv, TablesTyped
      <3>2. usage[a].last_used <= usage[a].used
        BY Zenon DEF SvcInv, TablesInv, TablesOrdered
      <3>3. usage[a].last_used \in 0 .. MAX_USAGE /\ usage[a].used \in 0 .. MAX_USAGE
        BY Zenon, <3>1 DEF UsageRow
      <3> QED
        BY SMTT(30), <3>2, <3>3, SvcAssumption
    <2> QED
      BY SMTT(30), <1>3, <2>1 DEF UsageIncidents
  <1>4. ASSUME NEW x \in SessionIncidents PROVE x[1] \in Advisory
    <2> DEFINE Astray == {t \in sessions : owner[t.key] # t.account}
               Roaming == {t \in sessions : t.roaming /\ ~Entitlement[t.account].roaming}
    <2>1. Astray = {} /\ Roaming = {}
      BY Zenon DEF SvcInv, ServiceInv, SessionsOwned
    <2>2. x \in {<<"SessionWithoutEnabledProfile", <<s.account, s.key>>, profile_state(s.key)>> :
                   s \in {t \in sessions : profile_state(t.key) # "Enabled"}}
            \cup {<<"SessionAccountMismatch", <<s.account, s.key>>, owner[s.key]>> : s \in Astray}
            \cup {<<"RoamingSessionNotPermitted", <<s.account, s.key>>, "">> : s \in Roaming}
      BY ZenonT(30), <1>4 DEF SessionIncidents
    <2> HIDE DEF Astray, Roaming
    <2> QED
      BY <2>1, <2>2
  <1>5. ASSUME NEW x \in check_periods(clock, GRACE) PROVE x[1] \in Advisory
    <2>1. \A a \in Rows(periods) : assess_period(periods[a], clock) # "ClockBeforeStart"
      <3> SUFFICES ASSUME NEW a \in Rows(periods)
                   PROVE  assess_period(periods[a], clock) # "ClockBeforeStart"
        BY Zenon
      <3>1. periods[a] # None /\ periods[a] \in Period /\ periods[a].start <= clock /\ clock \in Nat
        BY SvcAssumption DEF Rows, SvcInv, TablesInv, TablesTyped, TablesOrdered
      <3>2. ~(clock < periods[a].start)
        BY <3>1 DEF Period
      <3> QED
        BY Zenon, <3>1, <3>2 DEF assess_period
    <2> QED
      BY <1>5, <2>1 DEF check_periods
  <1> QED
    BY Zenon, <1>1, <1>2, <1>3, <1>4, <1>5 DEF OnlyAdvisoryDrift, reconcile

(* The inductive invariant holds after every syscall.                      *)
THEOREM SvcInvariance == SvcSpec => []SvcInv
  BY SvcInvInit, SvcInvNext, PTL DEF SvcSpec

(***************************************************************************)
(* The telephony stores of kernel-arm agree after every syscall: an        *)
(* Enabled profile is installed, alone in its slot and bound to an Active  *)
(* account, a session belongs to an Active account that owns its profile,  *)
(* and the reconciler has nothing but advisory drift to report.            *)
(***************************************************************************)
THEOREM StoresStayAgreed == SvcSpec => []StoresAgree
  <1>1. ASSUME SvcInv PROVE SvcTypeOK
    <2>1. ASSUME NEW a \in Account, usage[a] # None
          PROVE  /\ usage[a].used \in 0 .. MAX_USAGE
                 /\ usage[a].last_used \in 0 .. MAX_USAGE \cup {None}
      BY Zenon, <1>1, <2>1 DEF SvcInv, TablesInv, TablesTyped, UsageRow
    <2> QED
      BY Zenon, <1>1, <2>1 DEF SvcInv, ServiceInv, ServiceTyped, TablesInv, SvcTypeOK
  <1>2. ASSUME SvcInv PROVE EnabledIsServed
    <2>1. \A slot \in Slot : Cardinality(EnabledIn(slot)) <= 1
      BY <1>2, OneEnabled DEF SvcInv, ServiceInv
    <2> QED
      BY Zenon, <1>2, <2>1 DEF SvcInv, ServiceInv, ProfilesServed, EnabledIsServed, EnabledProfiles
  <1>3. SvcInv => StoresAgree
    BY Zenon, <1>1, <1>2, DriftIsAdvisory DEF StoresAgree, SvcInv, ServiceInv
  <1> QED
    BY <1>3, SvcInvariance, PTL

-----------------------------------------------------------------------------
(* What single steps may not do.                                           *)

(* The billing period's rules.                                             *)

(* Only an advice or a reset touches the periods, and only a reset the     *)
(* ticks of the last resets.                                               *)
LEMMA PeriodsChangeByAdviceOrReset ==
    ASSUME Refusal \/ Effect
    PROVE  \/ UNCHANGED <<periods, last_resets>>
           \/ \E a \in Account : PeriodEffect(a)
           \/ \E a \in Account, early \in BOOLEAN, now \in clock .. MAX_TICK :
                ResetEffect(a, early, now)
  BY ZenonT(30) DEF Refusal, Refused, Effect, CreateEffect, InstallEffect, EnableEffect, DisableEffect,
         DeleteEffect, release_binding_after_delete, BindEffect, SuspendEffect, suspend_account,
         ReactivateEffect, AccountEffect, feed_usage, OpenEffect, record_session, CloseEffect,
         close_sessions, ReconcileEffect, mark_observed, ClockTick, stateVars, dataVars

(* reset_permitted_at, in a state the handlers can reach: a reset that is  *)
(* not early finds the period elapsed, an early one the cooldown over.     *)
LEMMA ResetIsSpaced ==
    ASSUME SvcInv, NEW a \in Account, NEW early \in BOOLEAN, NEW now \in clock .. MAX_TICK,
           ResetEffect(a, early, now), last_resets[a] # None
    PROVE  /\ ~early => now - last_resets[a] >= periods[a].length
           /\ early => now - last_resets[a] >= COOLDOWN
  <1>1. /\ periods[a] # None /\ periods[a] \in Period /\ periods[a].start <= clock
        /\ last_resets[a] \in Nat /\ last_resets[a] <= periods[a].start
    BY Zenon DEF SvcInv, TablesInv, TablesTyped, TablesOrdered, Rows
  <1>2. now \in Nat /\ clock \in Nat /\ clock <= now /\ COOLDOWN \in Nat
    BY SvcAssumption DEF SvcInv, TablesInv
  <1>3. periods[a].start \in Nat /\ periods[a].length \in Nat
    BY Zenon, <1>1 DEF Period
  <1>4. ASSUME ~early PROVE now - last_resets[a] >= periods[a].length
    <2>1. assess_period(periods[a], clock) \in {"NoPeriod", "Elapsed"}
      BY Zenon, <1>4 DEF ResetEffect, reset_permitted_at
    <2>2. clock - periods[a].start >= periods[a].length
      BY <1>1, <1>2, <1>3, <2>1 DEF assess_period
    <2> QED
      BY <1>1, <1>2, <1>3, <2>2
  <1>5. ASSUME early PROVE now - last_resets[a] >= COOLDOWN
    <2>1. clock - last_resets[a] >= COOLDOWN
      BY Zenon, <1>5 DEF ResetEffect, reset_permitted_at
    <2> QED
      BY <1>1, <1>2, <2>1
  <1> QED
    BY Zenon, <1>4, <1>5

(* The events of a reset name its account and its kind.                    *)
LEMMA ResetRecords ==
    ASSUME NEW a, NEW b, NEW early \in BOOLEAN, NEW to,
           Applied(Data(a), IF early THEN "EarlyReset" ELSE "Reset", "Execute"),
           Recorded(Data(b), to)
    PROVE  b = a /\ to = IF early THEN "EarlyReset" ELSE "Reset"
  BY DEF Applied, Recorded, Event, Data

(***************************************************************************)
(* The resets of an account are a period or, early, a cooldown apart, and  *)
(* a request to reset is not pushed back: SYS_DATA_RESET reads the clock   *)
(* for its gate before MARSHAL is asked, and resets at a later tick.       *)
(***************************************************************************)
THEOREM PeriodRulesHold == SvcSpec => PeriodRules
  <1>1. ASSUME SvcInv, SvcNext
        PROVE  \A a \in Account :
                 Recorded(Data(a), "Reset") \/ Recorded(Data(a), "EarlyReset") =>
                   \/ UNCHANGED last_resets
                   \/ last_resets[a] = None
                   \/ last_resets'[a] - last_resets[a] >=
                        IF Recorded(Data(a), "EarlyReset") THEN COOLDOWN ELSE periods[a].length
    <2>1. ASSUME NEW a \in Account, NEW early \in BOOLEAN, NEW now \in clock .. MAX_TICK,
                 ResetEffect(a, early, now), NEW b \in Account,
                 Recorded(Data(b), "Reset") \/ Recorded(Data(b), "EarlyReset"),
                 last_resets[b] # None
          PROVE  last_resets'[b] - last_resets[b] >=
                   IF Recorded(Data(b), "EarlyReset") THEN COOLDOWN ELSE periods[b].length
      <3>1. Applied(Data(a), IF early THEN "EarlyReset" ELSE "Reset", "Execute")
        BY Zenon, <2>1 DEF ResetEffect
      <3>2. b = a /\ (Recorded(Data(b), "EarlyReset") <=> early)
        BY Zenon, <2>1, <3>1, ResetRecords
      <3>3. last_resets'[a] = now
        BY <1>1, <2>1, ResetTells DEF SvcInv, TablesInv, TablesTyped
      <3> QED
        BY Zenon, <1>1, <2>1, <3>2, <3>3, ResetIsSpaced
    <2>2. ASSUME NEW a \in Account, PeriodEffect(a) PROVE UNCHANGED last_resets
      BY Zenon, <2>2 DEF PeriodEffect, advise_period
    <2> QED
      BY Zenon, <1>1, <2>1, <2>2, SyscallsRefuseOrAct, PeriodsChangeByAdviceOrReset
  <1>2. ASSUME SvcInv, SvcNext
        PROVE  \A a \in Account :
                 /\ periods[a] # None
                 /\ periods[a].requested_since # None
                 /\ periods'[a] # periods[a]
                 => periods'[a].requested_since = None
                      /\ periods'[a].start >= periods[a].requested_since
    <2> SUFFICES ASSUME NEW b \in Account, periods[b] # None,
                        periods[b].requested_since # None, periods'[b] # periods[b]
                 PROVE  periods'[b].requested_since = None
                          /\ periods'[b].start >= periods[b].requested_since
      BY Zenon
    <2>1. /\ periods \in [Account -> Period \cup {None}]
          /\ periods[b] \in Period /\ periods[b].requested_since <= clock /\ clock \in Nat
      BY <1>2, SvcAssumption DEF SvcInv, TablesInv, TablesTyped, TablesOrdered, Rows
    <2>2. ASSUME NEW a \in Account, PeriodEffect(a) PROVE FALSE
      <3>1. periods' = [periods EXCEPT ![a].requested_since =
               IF assess_period(periods[a], clock) = "Elapsed" /\ periods[a].requested_since = None
               THEN clock ELSE periods[a].requested_since]
        BY Zenon, <2>2 DEF PeriodEffect, advise_period
      <3>2. b = a
        BY Zenon, <2>1, <3>1
      <3>3. periods' = [periods EXCEPT ![b].requested_since = periods[b].requested_since]
        BY Zenon, <3>1, <3>2
      <3> QED
        BY Zenon, <2>1, <3>3 DEF Period
    <2>3. ASSUME NEW a \in Account, NEW early \in BOOLEAN, NEW now \in clock .. MAX_TICK,
                 ResetEffect(a, early, now)
          PROVE  periods'[b].requested_since = None
                   /\ periods'[b].start >= periods[b].requested_since
      <3>1. /\ now \in Nat /\ clock <= now
            /\ periods' = [periods EXCEPT ![a] =
                 [start |-> now, requested_since |-> None,
                  length |-> IF periods[a] = None THEN INSTALL_PERIOD ELSE periods[a].length]]
        BY <1>2, <2>3, ResetTells DEF SvcInv
      <3>2. b = a
        BY Zenon, <2>1, <3>1
      <3> QED
        BY <2>1, <3>1, <3>2 DEF Period
    <2> QED
      BY Zenon, <1>2, <2>2, <2>3, SyscallsRefuseOrAct, PeriodsChangeByAdviceOrReset
  <1> QED
    BY <1>1, <1>2, SvcInvariance, PTL DEF SvcSpec, PeriodRules, ResetSpacing, DeadlineNeverRecedes

-----------------------------------------------------------------------------
(* The events of a syscall.                                                *)

(* The body of ChangesAudited, store by store.                             *)
LifecyclesRecorded ==
    \A k \in ProfileKey :
        \/ profiles'[k].state = profiles[k].state
        \/ profiles[k].state = "Absent"
        \/ Displaced(k)
        \/ Recorded(Sim(k), profiles'[k].state)

BindingsRecorded ==
    \A k \in ProfileKey :
        owner'[k] = owner[k] \/ Recorded(Sim(k), IF owner'[k] = None THEN "Unbound" ELSE "Bound")

StandingsRecorded ==
    \A a \in Account : status'[a] = status[a] \/ Recorded(Mvno(a), status'[a])

CountersRecorded ==
    \A a \in Account :
        usage'[a] # None /\ usage'[a].used # usage_of(a) =>
          \E e \in audited' : e.subject = Data(a) /\ e.class \in {"Applied", "DataActivity"}

SessionsRecorded ==
    /\ \A s \in sessions \ sessions' :
         \/ Recorded(Data(s.account), <<"Closed", s.key>>)
         \/ Recorded(Data(s.account), <<"Open", s.key>>)
    /\ \A s \in sessions' \ sessions : Recorded(Data(s.account), <<"Open", s.key>>)

(* Its last conjunct is about the state after the step alone.              *)
EventsAreTrue ==
    \A e \in audited : e.class = "Applied" /\ e.subject[1] = "sim" /\ e.to \in ProfileState =>
        profiles[e.subject[2]].state = e.to

StepRecorded ==
    /\ LifecyclesRecorded
    /\ BindingsRecorded
    /\ StandingsRecorded
    /\ CountersRecorded
    /\ SessionsRecorded
    /\ EventsAreTrue'

(* The body of RestoredOnlyByVerdict.                                      *)
StepByVerdict ==
    /\ \A k \in ProfileKey :
         profiles'[k].state = "Deleted" /\ profiles[k].state # "Deleted"
           => Verdict(Sim(k), "Execute")
    /\ \A a \in Account :
         /\ status[a] = "Suspended" /\ status'[a] = "Active" => Verdict(Mvno(a), "Execute")
         /\ \/ usage[a] # None /\ usage'[a].used < usage[a].used
            \/ last_resets'[a] # last_resets[a]
            => Verdict(Data(a), "Execute")

(* The fields of an event.                                                 *)
LEMMA EventFields ==
    ASSUME NEW class, NEW subject, NEW to, NEW verdict
    PROVE  /\ Event(class, subject, to, verdict).class = class
           /\ Event(class, subject, to, verdict).subject = subject
           /\ Event(class, subject, to, verdict).to = to
           /\ Event(class, subject, to, verdict).verdict = verdict
  BY Zenon DEF Event

(* The events of a drain say which session of which account was closed.    *)
LEMMA ClosedAreRecorded ==
    ASSUME NEW closed, ClosedEvents(closed) \subseteq audited', NEW s \in closed
    PROVE  Recorded(Data(s.account), <<"Closed", s.key>>)
  <1> DEFINE e == Event("DataActivity", Data(s.account), <<"Closed", s.key>>, None)
  <1>1. e \in audited'
    BY Zenon DEF ClosedEvents
  <1>2. e.subject = Data(s.account) /\ e.to = <<"Closed", s.key>>
    BY EventFields
  <1> QED
    BY Zenon, <1>1, <1>2 DEF Recorded

(* They apply nothing.                                                     *)
LEMMA ClosedApplyNothing ==
    ASSUME NEW closed, NEW e \in ClosedEvents(closed)
    PROVE  e.class = "DataActivity"
  BY DEF ClosedEvents, Event

(* A step that changes no lifecycle, binding, standing or counter has      *)
(* nothing to record of them.                                              *)
LEMMA UnchangedIsRecorded ==
    /\ UNCHANGED profiles => LifecyclesRecorded
    /\ UNCHANGED owner => BindingsRecorded
    /\ UNCHANGED status => StandingsRecorded
    /\ UNCHANGED usage => CountersRecorded
    /\ UNCHANGED sessions => SessionsRecorded
  BY Zenon DEF LifecyclesRecorded, BindingsRecorded, StandingsRecorded, CountersRecorded,
         SessionsRecorded, usage_of

(* Nor has one that leaves them alone anything to be restored.             *)
LEMMA UnchangedRestoresNothing ==
    ASSUME TablesTyped, UNCHANGED <<usage, last_resets>>,
           \A k \in ProfileKey : profiles'[k].state = "Deleted" => profiles[k].state = "Deleted",
           \A a \in Account : status'[a] = "Active" => status[a] = "Active"
    PROVE  StepByVerdict
  <1>1. \A a \in Account : usage[a] # None => ~(usage[a].used < usage[a].used)
    BY SvcAssumption DEF TablesTyped, UsageRow
  <1> QED
    BY Zenon, <1>1 DEF StepByVerdict

(* A refusal changes and applies nothing.                                  *)
LEMMA RefusalIsRecorded ==
    ASSUME SvcInv, Refusal
    PROVE  StepRecorded /\ StepByVerdict
  <1>1. UNCHANGED <<profiles, owner, status, usage, sessions, last_resets>>
    BY ZenonT(30) DEF Refusal, Refused, stateVars, regVars, dataVars
  <1>2. EventsAreTrue'
    <2>1. PICK class \in RefusalClass :
            \E to : audited' = {Event(class, <<"refused">>, to, None)}
      BY Zenon DEF Refusal, Refused
    <2>2. class # "Applied"
      BY Zenon DEF RefusalClass
    <2>3. \A e \in audited' : e.class = class
      BY <2>1, EventFields
    <2> QED
      BY Zenon, <2>2, <2>3 DEF EventsAreTrue
  <1>3. StepByVerdict
    BY Zenon, <1>1, UnchangedRestoresNothing DEF SvcInv, TablesInv
  <1> QED
    BY Zenon, <1>1, <1>2, <1>3, UnchangedIsRecorded DEF StepRecorded

(* SYS_SIM_CREATE has no event, and needs none.                            *)
LEMMA CreateIsRecorded ==
    ASSUME SvcInv, NEW slot \in Slot, NEW id \in ProfileId, CreateEffect(slot, id)
    PROVE  StepRecorded /\ StepByVerdict
  <1> DEFINE k == <<slot, id>>
  <1>1. k \in ProfileKey
    BY Zenon DEF ProfileKey
  <1>2. /\ profiles[k].state = "Absent" /\ profiles'[k].state = "Created"
        /\ \A q \in ProfileKey \ {k} : profiles'[q].state = profiles[q].state
    BY ZenonT(30), <1>1 DEF CreateEffect, create, create_id, profile_state, SvcInv, ServiceInv, ServiceTyped,
                EsimProfile
  <1> HIDE DEF k
  <1>3. UNCHANGED <<owner, status, usage, sessions, last_resets>> /\ audited' = {}
    BY Zenon DEF CreateEffect, regVars, dataVars
  <1>4. LifecyclesRecorded
    BY Zenon, <1>1, <1>2 DEF LifecyclesRecorded
  <1>5. EventsAreTrue'
    BY Zenon, <1>3 DEF EventsAreTrue
  <1>6. StepByVerdict
    BY Zenon, <1>2, <1>3, UnchangedRestoresNothing DEF SvcInv, TablesInv
  <1> QED
    BY Zenon, <1>3, <1>4, <1>5, <1>6, UnchangedIsRecorded DEF StepRecorded

(* The subjects of the events tell profiles, accounts and counters apart.  *)
LEMMA Subjects ==
    ASSUME NEW x, NEW y
    PROVE  /\ Sim(x)[1] = "sim" /\ Sim(x)[2] = x /\ (Sim(x) = Sim(y) => x = y)
           /\ Mvno(x)[1] = "account" /\ (Mvno(x) = Mvno(y) => x = y)
           /\ Data(x)[1] = "data" /\ (Data(x) = Data(y) => x = y)
  BY Zenon DEF Sim, Mvno, Data

(* The one event of a syscall that applies one change.                     *)
LEMMA AppliedIsRecorded ==
    ASSUME NEW subject, NEW to, NEW verdict, Applied(subject, to, verdict)
    PROVE  /\ Recorded(subject, to) /\ Verdict(subject, verdict)
           /\ \A e \in audited' : e.class = "Applied" /\ e.subject = subject /\ e.to = to
  BY EventFields DEF Applied, Recorded, Verdict

(* SYS_SIM_INSTALL.                                                        *)
LEMMA InstallIsRecorded ==
    ASSUME SvcInv, NEW k \in ProfileKey, NEW i \in Identity, InstallEffect(k, i)
    PROVE  StepRecorded /\ StepByVerdict
  <1>1. /\ profiles'[k].state = "Disabled"
        /\ \A q \in ProfileKey \ {k} : profiles'[q].state = profiles[q].state
    BY Zenon DEF InstallEffect, install, target_state, SvcInv, ServiceInv, ServiceTyped, EsimProfile
  <1>2. UNCHANGED <<owner, status, usage, sessions, last_resets>>
    BY Zenon DEF InstallEffect, regVars, dataVars
  <1>3. /\ Recorded(Sim(k), "Disabled")
        /\ \A e \in audited' : e.subject = Sim(k) /\ e.to = "Disabled"
    BY ZenonT(30), AppliedIsRecorded DEF InstallEffect
  <1>4. LifecyclesRecorded
    BY Zenon, <1>1, <1>3 DEF LifecyclesRecorded
  <1>5. EventsAreTrue'
    BY <1>1, <1>3, Subjects DEF EventsAreTrue
  <1>6. StepByVerdict
    BY Zenon, <1>1, <1>2, UnchangedRestoresNothing DEF SvcInv, TablesInv
  <1> QED
    BY Zenon, <1>2, <1>4, <1>5, <1>6, UnchangedIsRecorded DEF StepRecorded

(* SYS_SIM_ENABLE: the profile it displaced is the other one of its slot.  *)
LEMMA EnableIsRecorded ==
    ASSUME SvcInv, NEW k \in ProfileKey, NEW v, EnableEffect(k, v)
    PROVE  StepRecorded /\ StepByVerdict
  <1>1. \A q \in ProfileKey :
          profiles'[q].state = IF q = k THEN "Enabled"
                               ELSE IF q[1] = k[1] /\ profiles[q].state = "Enabled"
                               THEN "Disabled" ELSE profiles[q].state
    BY TransitionTells DEF EnableEffect, target_state, SvcInv, ServiceInv
  <1>2. UNCHANGED <<owner, status, usage, sessions, last_resets>>
    BY Zenon DEF EnableEffect, regVars, dataVars
  <1>3. /\ Recorded(Sim(k), "Enabled")
        /\ \A e \in audited' : e.subject = Sim(k) /\ e.to = "Enabled"
    BY ZenonT(30), AppliedIsRecorded DEF EnableEffect
  <1>4. ASSUME NEW q \in ProfileKey, q # k, q[1] = k[1] PROVE Displaced(q)
    BY Zenon, <1>3, <1>4 DEF Displaced, Recorded
  <1>5. LifecyclesRecorded
    BY Zenon, <1>1, <1>3, <1>4 DEF LifecyclesRecorded
  <1>6. EventsAreTrue'
    BY <1>1, <1>3, Subjects DEF EventsAreTrue
  <1>7. StepByVerdict
    BY Zenon, <1>1, <1>2, UnchangedRestoresNothing DEF SvcInv, TablesInv
  <1> QED
    BY Zenon, <1>2, <1>5, <1>6, <1>7, UnchangedIsRecorded DEF StepRecorded

(* SYS_SIM_DISABLE: the disable, and the sessions it closes.               *)
LEMMA DisableIsRecorded ==
    ASSUME SvcInv, NEW k \in ProfileKey, DisableEffect(k)
    PROVE  StepRecorded /\ StepByVerdict
  <1> DEFINE closed == sessions_for_profile(k)
             applied == Event("Applied", Sim(k), "Disabled", None)
  <1>1. \A q \in ProfileKey : profiles'[q].state = IF q = k THEN "Disabled" ELSE profiles[q].state
    BY ZenonT(30), TransitionTells DEF DisableEffect, target_state, SvcInv, ServiceInv
  <1>2. UNCHANGED <<owner, status, usage, last_resets>> /\ sessions' = sessions \ closed
    BY Zenon DEF DisableEffect, close_sessions, regVars
  <1>3. audited' = {applied} \cup ClosedEvents(closed)
    BY Zenon DEF DisableEffect
  <1>4. applied.subject = Sim(k) /\ applied.to = "Disabled"
    BY EventFields
  <1> HIDE DEF closed, applied
  <1>5. Recorded(Sim(k), "Disabled")
    BY Zenon, <1>3, <1>4 DEF Recorded
  <1>6. LifecyclesRecorded
    BY Zenon, <1>1, <1>5 DEF LifecyclesRecorded
  <1>7. SessionsRecorded
    BY Zenon, <1>2, <1>3, ClosedAreRecorded DEF SessionsRecorded
  <1>8. EventsAreTrue'
    BY <1>1, <1>3, <1>4, Subjects, ClosedApplyNothing DEF EventsAreTrue
  <1>9. StepByVerdict
    BY Zenon, <1>1, <1>2, UnchangedRestoresNothing DEF SvcInv, TablesInv
  <1> QED
    BY Zenon, <1>2, <1>6, <1>7, <1>8, <1>9, UnchangedIsRecorded DEF StepRecorded

(* SYS_SIM_DELETE: the delete on an Execute, the release of the binding    *)
(* and the sessions it closes.                                             *)
LEMMA DeleteIsRecorded ==
    ASSUME SvcInv, NEW k \in ProfileKey, DeleteEffect(k)
    PROVE  StepRecorded /\ StepByVerdict
  <1> DEFINE closed == sessions_for_profile(k)
             applied == Event("Applied", Sim(k), "Deleted", "Execute")
             unbound == Event("Applied", Sim(k), "Unbound", None)
  <1>1. \A q \in ProfileKey : profiles'[q].state = IF q = k THEN "Deleted" ELSE profiles[q].state
    BY Zenon, TransitionTells DEF DeleteEffect, target_state, SvcInv, ServiceInv
  <1>2. UNCHANGED <<status, usage, last_resets>> /\ sessions' = sessions \ closed
    BY Zenon DEF DeleteEffect, release_binding_after_delete, unbind, close_sessions
  <1>3. \A q \in ProfileKey : owner'[q] = owner[q] \/ (q = k /\ owner[k] # None /\ owner'[k] = None)
    BY Zenon DEF DeleteEffect, release_binding_after_delete, unbind, can_unbind, SvcInv, ServiceInv,
           ServiceTyped
  <1>4. audited' = {applied} \cup (IF owner[k] = None THEN {} ELSE {unbound}) \cup ClosedEvents(closed)
    BY Zenon DEF DeleteEffect, ReleaseEvents
  <1>5. /\ applied.subject = Sim(k) /\ applied.to = "Deleted" /\ applied.verdict = "Execute"
        /\ unbound.subject = Sim(k) /\ unbound.to = "Unbound"
    BY EventFields
  <1> HIDE DEF closed, applied, unbound
  <1>6. Recorded(Sim(k), "Deleted") /\ Verdict(Sim(k), "Execute")
    BY Zenon, <1>4, <1>5 DEF Recorded, Verdict
  <1>7. owner[k] # None => Recorded(Sim(k), "Unbound")
    BY Zenon, <1>4, <1>5 DEF Recorded
  <1>8. LifecyclesRecorded
    BY Zenon, <1>1, <1>6 DEF LifecyclesRecorded
  <1>9. BindingsRecorded
    BY Zenon, <1>3, <1>7 DEF BindingsRecorded
  <1>10. SessionsRecorded
    <2>1. ClosedEvents(closed) \subseteq audited'
      BY Zenon, <1>4
    <2> QED
      BY Zenon, <1>2, <2>1, ClosedAreRecorded DEF SessionsRecorded
  <1>11. EventsAreTrue'
    <2>1. "Unbound" \notin ProfileState
      BY Zenon DEF ProfileState
    <2> QED
      BY <1>1, <1>4, <1>5, <2>1, Subjects, ClosedApplyNothing DEF EventsAreTrue
  <1>12. StepByVerdict
    <2>1. \A a \in Account : usage[a] # None => ~(usage[a].used < usage[a].used)
      BY SvcAssumption DEF SvcInv, TablesInv, TablesTyped, UsageRow
    <2> QED
      BY Zenon, <1>1, <1>2, <1>6, <2>1 DEF StepByVerdict
  <1> QED
    BY Zenon, <1>2, <1>8, <1>9, <1>10, <1>11, <1>12, UnchangedIsRecorded DEF StepRecorded

(* SYS_MVNO_BIND.                                                          *)
LEMMA BindIsRecorded ==
    ASSUME SvcInv, NEW a \in Account, NEW k \in ProfileKey, NEW v, BindEffect(a, k, v)
    PROVE  StepRecorded /\ StepByVerdict
  <1>1. UNCHANGED <<profiles, status, usage, sessions, last_resets>>
    BY Zenon DEF BindEffect, bind, dataVars
  <1>2. \A q \in ProfileKey : owner'[q] = IF q = k THEN a ELSE owner[q]
    BY Zenon DEF BindEffect, bind, SvcInv, ServiceInv, ServiceTyped
  <1>3. Recorded(Sim(k), "Bound") /\ \A e \in audited' : e.to = "Bound"
    BY ZenonT(30), AppliedIsRecorded DEF BindEffect
  <1>4. BindingsRecorded
    BY Zenon, <1>2, <1>3, AccountAssumption DEF BindingsRecorded
  <1>5. EventsAreTrue'
    BY Zenon, <1>3 DEF EventsAreTrue, ProfileState
  <1>6. StepByVerdict
    BY Zenon, <1>1, UnchangedRestoresNothing DEF SvcInv, TablesInv
  <1> QED
    BY Zenon, <1>1, <1>4, <1>5, <1>6, UnchangedIsRecorded DEF StepRecorded

(* SYS_MVNO_SUSPEND: the standing, every forced disable and every session. *)
LEMMA SuspendIsRecorded ==
    ASSUME SvcInv, NEW a \in Account, NEW v, SuspendEffect(a, v)
    PROVE  StepRecorded /\ StepByVerdict
  <1> DEFINE closed == sessions_for_account(a)
             forced == force_disable(a)
             applied == Event("Applied", Mvno(a), "Suspended", v)
             disabled(k) == Event("Applied", Sim(k), "Disabled", None)
  <1>1. \A b \in Account : status'[b] = IF b = a THEN "Suspended" ELSE status[b]
    BY Zenon DEF SuspendEffect, suspend_account, set_status, SvcInv, ServiceInv, ServiceTyped
  <1>2. forced \subseteq {k \in ProfileKey : profiles[k].state = "Enabled"}
    BY Zenon DEF force_disable, profiles_of, profile_state
  <1>3. \A q \in ProfileKey :
          profiles'[q].state = IF q \in forced THEN "Disabled" ELSE profiles[q].state
    <2>1. ServiceTyped /\ disable_all(forced)
      BY Zenon DEF SuspendEffect, suspend_account, SvcInv, ServiceInv
    <2> HIDE DEF forced
    <2> QED
      BY Zenon, <1>2, <2>1, DisableAllTells
  <1>4. UNCHANGED <<owner, usage, last_resets>> /\ sessions' = sessions \ closed
    BY Zenon DEF SuspendEffect, suspend_account, set_status, close_sessions
  <1>5. audited' = {applied} \cup {disabled(k) : k \in forced} \cup ClosedEvents(closed)
    BY Zenon DEF SuspendEffect, suspend_account
  <1>6. /\ applied.subject = Mvno(a) /\ applied.to = "Suspended"
        /\ \A k : disabled(k).subject = Sim(k) /\ disabled(k).to = "Disabled"
    BY EventFields
  <1> HIDE DEF closed, forced, applied, disabled
  <1>7. Recorded(Mvno(a), "Suspended") /\ \A k \in forced : Recorded(Sim(k), "Disabled")
    BY Zenon, <1>5, <1>6 DEF Recorded
  <1>8. LifecyclesRecorded
    BY Zenon, <1>3, <1>7 DEF LifecyclesRecorded
  <1>9. StandingsRecorded
    BY Zenon, <1>1, <1>7 DEF StandingsRecorded
  <1>10. SessionsRecorded
    <2>1. ClosedEvents(closed) \subseteq audited'
      BY Zenon, <1>5
    <2> QED
      BY Zenon, <1>4, <2>1, ClosedAreRecorded DEF SessionsRecorded
  <1>11. EventsAreTrue'
    <2>1. applied.subject[1] # "sim"
      BY ZenonT(30), <1>6, Subjects
    <2>2. \A e \in ClosedEvents(closed) : e.class # "Applied"
      BY Zenon, ClosedApplyNothing
    <2>3. \A k \in forced : disabled(k).subject[2] = k /\ profiles'[k].state = "Disabled"
      BY Zenon, <1>2, <1>3, <1>6, Subjects
    <2> QED
      BY SMTT(30), <1>5, <1>6, <2>1, <2>2, <2>3 DEF EventsAreTrue
  <1>12. StepByVerdict
    BY Zenon, <1>1, <1>3, <1>4, UnchangedRestoresNothing DEF SvcInv, TablesInv
  <1> QED
    BY Zenon, <1>4, <1>8, <1>9, <1>10, <1>11, <1>12, UnchangedIsRecorded DEF StepRecorded

(* SYS_MVNO_REACTIVATE, on an Execute only.                                *)
LEMMA ReactivateIsRecorded ==
    ASSUME SvcInv, NEW a \in Account, ReactivateEffect(a)
    PROVE  StepRecorded /\ StepByVerdict
  <1>1. UNCHANGED <<profiles, owner, usage, sessions, last_resets>>
    BY Zenon DEF ReactivateEffect, set_status, dataVars
  <1>2. \A b \in Account : status'[b] = IF b = a THEN "Active" ELSE status[b]
    BY Zenon DEF ReactivateEffect, set_status, SvcInv, ServiceInv, ServiceTyped
  <1>3. /\ Recorded(Mvno(a), "Active") /\ Verdict(Mvno(a), "Execute")
        /\ \A e \in audited' : e.to = "Active"
    BY Zenon, AppliedIsRecorded DEF ReactivateEffect
  <1>4. StandingsRecorded
    BY Zenon, <1>2, <1>3 DEF StandingsRecorded
  <1>5. EventsAreTrue'
    BY Zenon, <1>3 DEF EventsAreTrue, ProfileState
  <1>6. \A b \in Account : usage[b] # None => ~(usage[b].used < usage[b].used)
    BY SMTT(30), SvcAssumption DEF SvcInv, TablesInv, TablesTyped, UsageRow
  <1>7. StepByVerdict
    BY Zenon, <1>1, <1>2, <1>3, <1>6 DEF StepByVerdict
  <1> QED
    BY Zenon, <1>1, <1>4, <1>5, <1>7, UnchangedIsRecorded DEF StepRecorded

(* SYS_DATA_ACCOUNT: a counter that grew.                                  *)
LEMMA AccountIsRecorded ==
    ASSUME SvcInv, NEW a \in Account, NEW bytes \in Bytes, AccountEffect(a, bytes)
    PROVE  StepRecorded /\ StepByVerdict
  <1>1. UNCHANGED <<profiles, owner, status, sessions, last_resets>>
    BY Zenon DEF AccountEffect, feed_usage, regVars
  <1>2. /\ \A b \in Account \ {a} : usage'[b] = usage[b]
        /\ usage'[a].used = apply_usage(usage_of(a), bytes)
    BY Zenon DEF AccountEffect, feed_usage, SvcInv, TablesInv, TablesTyped
  <1>3. usage_of(a) \in 0 .. MAX_USAGE /\ bytes \in Nat /\ MAX_USAGE \in Nat
    BY SMTT(30), SvcAssumption DEF SvcInv, TablesInv, TablesTyped, UsageRow, usage_of
  <1>4. usage'[a].used >= usage_of(a) /\ usage'[a].used \in Nat
    BY SMTT(30), <1>2, <1>3, UsageSaturates
  <1> DEFINE used == Event("DataActivity", Data(a), <<"Used">>, None)
  <1>5. used \in audited' /\ used.subject = Data(a) /\ used.class = "DataActivity"
    BY EventFields DEF AccountEffect
  <1> HIDE DEF used
  <1>6. CountersRecorded
    BY Zenon, <1>2, <1>5 DEF CountersRecorded, usage_of
  <1>7. EventsAreTrue'
    BY Zenon DEF AccountEffect, EventsAreTrue
  <1>8. \A b \in Account : usage[b] # None => ~(usage'[b].used < usage[b].used)
    BY SMTT(30), <1>2, <1>3, <1>4, SvcAssumption DEF SvcInv, TablesInv, TablesTyped, UsageRow, usage_of
  <1>9. StepByVerdict
    BY Zenon, <1>1, <1>8 DEF StepByVerdict
  <1> QED
    BY Zenon, <1>1, <1>6, <1>7, <1>9, UnchangedIsRecorded DEF StepRecorded

(* SYS_DATA_SESSION_OPEN: the new row, and the one it replaces.            *)
LEMMA OpenIsRecorded ==
    ASSUME SvcInv, NEW a \in Account, NEW k \in ProfileKey, NEW roaming \in BOOLEAN,
           OpenEffect(a, k, roaming)
    PROVE  StepRecorded /\ StepByVerdict
  <1> DEFINE row == [account |-> a, key |-> k, roaming |-> roaming]
             open == Event("DataActivity", Data(a), <<"Open", k>>, None)
  <1>1. UNCHANGED <<profiles, owner, status, usage, last_resets>>
    BY Zenon DEF OpenEffect, record_session, regVars
  <1>2. sessions' = {s \in sessions : ~(s.account = a /\ s.key = k)} \cup {row}
    BY Zenon DEF OpenEffect, record_session, SameSession
  <1>3. row.account = a /\ row.key = k
    BY Zenon
  <1>4. audited' = {open} /\ open.subject = Data(a) /\ open.to = <<"Open", k>>
           /\ open.class = "DataActivity"
    BY EventFields DEF OpenEffect
  <1> HIDE DEF row, open
  <1>5. Recorded(Data(a), <<"Open", k>>)
    BY Zenon, <1>4 DEF Recorded
  <1>6. SessionsRecorded
    <2>1. \A s \in sessions \ sessions' : s.account = a /\ s.key = k
      BY Zenon, <1>2
    <2>2. \A s \in sessions' \ sessions : s.account = a /\ s.key = k
      BY Zenon, <1>2, <1>3
    <2> QED
      BY Zenon, <1>5, <2>1, <2>2 DEF SessionsRecorded
  <1>7. EventsAreTrue'
    BY Zenon, <1>4 DEF EventsAreTrue
  <1>8. StepByVerdict
    BY Zenon, <1>1, UnchangedRestoresNothing DEF SvcInv, TablesInv
  <1> QED
    BY Zenon, <1>1, <1>6, <1>7, <1>8, UnchangedIsRecorded DEF StepRecorded

(* SYS_DATA_SESSION_CLOSE.                                                 *)
LEMMA CloseIsRecorded ==
    ASSUME SvcInv, NEW closed, CloseEffect(closed)
    PROVE  StepRecorded /\ StepByVerdict
  <1>1. UNCHANGED <<profiles, owner, status, usage, last_resets>> /\ sessions' = sessions \ closed
    BY Zenon DEF CloseEffect, close_sessions, regVars
  <1>2. SessionsRecorded
    BY Zenon, <1>1, ClosedAreRecorded DEF CloseEffect, SessionsRecorded
  <1>3. EventsAreTrue'
    BY Zenon, ClosedApplyNothing DEF CloseEffect, EventsAreTrue
  <1>4. StepByVerdict
    BY Zenon, <1>1, UnchangedRestoresNothing DEF SvcInv, TablesInv
  <1> QED
    BY Zenon, <1>1, <1>2, <1>3, <1>4, UnchangedIsRecorded DEF StepRecorded

(* SYS_DATA_RECONCILE changes what it remembers of a counter, not the      *)
(* counter.                                                                *)
LEMMA ReconcileIsRecorded ==
    ASSUME SvcInv, ReconcileEffect
    PROVE  StepRecorded /\ StepByVerdict
  <1>1. UNCHANGED <<profiles, owner, status, sessions, last_resets>>
    BY Zenon DEF ReconcileEffect, mark_observed, regVars
  <1>2. ASSUME NEW a \in Account
        PROVE  IF usage[a] = None THEN usage'[a] = None
               ELSE usage'[a].used = usage[a].used /\ usage[a].used \in Nat
    BY SvcAssumption DEF ReconcileEffect, mark_observed, SvcInv, TablesInv, TablesTyped, UsageRow
  <1>3. CountersRecorded
    BY Zenon, <1>2 DEF CountersRecorded, usage_of
  <1>4. EventsAreTrue'
    BY Zenon DEF ReconcileEffect, EventsAreTrue
  <1>5. \A a \in Account : usage[a] # None => ~(usage'[a].used < usage[a].used)
    BY <1>2
  <1>6. StepByVerdict
    BY Zenon, <1>1, <1>5 DEF StepByVerdict
  <1> QED
    BY Zenon, <1>1, <1>3, <1>4, <1>6, UnchangedIsRecorded DEF StepRecorded

(* SYS_DATA_PERIOD is advice.                                              *)
LEMMA PeriodIsRecorded ==
    ASSUME SvcInv, NEW a \in Account, PeriodEffect(a)
    PROVE  StepRecorded /\ StepByVerdict
  <1>1. UNCHANGED <<profiles, owner, status, usage, sessions, last_resets>>
    BY Zenon DEF PeriodEffect, advise_period, regVars
  <1>2. EventsAreTrue'
    BY Zenon DEF PeriodEffect, EventsAreTrue
  <1>3. StepByVerdict
    BY Zenon, <1>1, UnchangedRestoresNothing DEF SvcInv, TablesInv
  <1> QED
    BY Zenon, <1>1, <1>2, <1>3, UnchangedIsRecorded DEF StepRecorded

(* SYS_DATA_RESET, on an Execute only.                                     *)
LEMMA ResetIsRecorded ==
    ASSUME SvcInv, NEW a \in Account, NEW early \in BOOLEAN, NEW now \in clock .. MAX_TICK,
           ResetEffect(a, early, now)
    PROVE  StepRecorded /\ StepByVerdict
  <1> DEFINE to == IF early THEN "EarlyReset" ELSE "Reset"
  <1>1. UNCHANGED <<profiles, owner, status, sessions>>
    BY Zenon DEF ResetEffect, reset_usage_and_period, regVars
  <1>2. \A b \in Account \ {a} : usage'[b] = usage[b] /\ last_resets'[b] = last_resets[b]
    BY SMTT(30), ResetTells DEF SvcInv, TablesInv, TablesTyped
  <1>3. Applied(Data(a), to, "Execute") /\ to \notin ProfileState
    BY Zenon DEF ResetEffect, ProfileState
  <1> HIDE DEF to
  <1>4. /\ Verdict(Data(a), "Execute")
        /\ \A e \in audited' : e.class = "Applied" /\ e.subject = Data(a) /\ e.to = to
        /\ \E e \in audited' : e.class = "Applied" /\ e.subject = Data(a)
    BY Zenon, <1>3, AppliedIsRecorded DEF Recorded
  <1>5. CountersRecorded
    BY Zenon, <1>2, <1>4 DEF CountersRecorded, usage_of
  <1>6. EventsAreTrue'
    BY Zenon, <1>3, <1>4 DEF EventsAreTrue
  <1>7. \A b \in Account : usage[b] # None => ~(usage[b].used < usage[b].used)
    BY SMTT(30), SvcAssumption DEF SvcInv, TablesInv, TablesTyped, UsageRow
  <1>8. StepByVerdict
    BY Zenon, <1>1, <1>2, <1>4, <1>7 DEF StepByVerdict
  <1> QED
    BY Zenon, <1>1, <1>5, <1>6, <1>8, UnchangedIsRecorded DEF StepRecorded

(* No step of the clock or of a syscall goes unrecorded.                   *)
LEMMA StepsAreRecorded ==
    ASSUME SvcInv, EventsAreTrue, SvcNext
    PROVE  StepRecorded /\ StepByVerdict
  <1>1. CASE ClockTick
    <2>1. UNCHANGED <<profiles, owner, status, usage, sessions, last_resets, audited>>
      BY Zenon, <1>1 DEF ClockTick, stateVars, regVars, dataVars
    <2>2. EventsAreTrue'
      BY Zenon, <2>1 DEF EventsAreTrue
    <2>3. StepByVerdict
      BY Zenon, <2>1, UnchangedRestoresNothing DEF SvcInv, TablesInv
    <2> QED
      BY Zenon, <2>1, <2>2, <2>3, UnchangedIsRecorded DEF StepRecorded
  <1>2. CASE Effect
    BY ZenonT(30), <1>1, <1>2, CreateIsRecorded, InstallIsRecorded, EnableIsRecorded, DisableIsRecorded,
       DeleteIsRecorded, BindIsRecorded, SuspendIsRecorded, ReactivateIsRecorded,
       AccountIsRecorded, OpenIsRecorded, CloseIsRecorded, ReconcileIsRecorded,
       PeriodIsRecorded, ResetIsRecorded DEF Effect
  <1> QED
    BY Zenon, <1>2, RefusalIsRecorded, SyscallsRefuseOrAct

(***************************************************************************)
(* No syscall changes a store silently or restores service without a       *)
(* verdict: every lifecycle, binding, standing, session and counter change *)
(* is in the events of the call that made it, and a delete, a              *)
(* reactivation or a reset only follows MARSHAL's Execute.                 *)
(***************************************************************************)
THEOREM StepsStayAccounted == SvcSpec => StepsAccounted
  <1>1. SvcInit => EventsAreTrue
    BY Zenon DEF SvcInit, EventsAreTrue
  <1>2. SvcInv /\ EventsAreTrue /\ [SvcNext]_svcVars => EventsAreTrue'
    <2>1. ASSUME EventsAreTrue, UNCHANGED svcVars PROVE EventsAreTrue'
      BY Zenon, <2>1 DEF EventsAreTrue, svcVars, stateVars
    <2> QED
      BY Zenon, <2>1, StepsAreRecorded DEF StepRecorded
  <1>3. SvcSpec => []EventsAreTrue
    BY <1>1, <1>2, SvcInvariance, PTL DEF SvcSpec
  <1>4. SvcInv /\ EventsAreTrue /\ SvcNext => StepRecorded /\ StepByVerdict
    BY Zenon, StepsAreRecorded
  <1>5. StepRecorded =>
          /\ \A k \in ProfileKey :
               /\ \/ profiles'[k].state = profiles[k].state
                  \/ profiles[k].state = "Absent"
                  \/ Displaced(k)
                  \/ Recorded(Sim(k), profiles'[k].state)
               /\ owner'[k] = owner[k] \/ Recorded(Sim(k), IF owner'[k] = None THEN "Unbound" ELSE "Bound")
          /\ \A a \in Account :
               /\ status'[a] = status[a] \/ Recorded(Mvno(a), status'[a])
               /\ usage'[a] # None /\ usage'[a].used # usage_of(a) =>
                    \E e \in audited' : e.subject = Data(a) /\ e.class \in {"Applied", "DataActivity"}
          /\ \A s \in sessions \ sessions' :
               \/ Recorded(Data(s.account), <<"Closed", s.key>>)
               \/ Recorded(Data(s.account), <<"Open", s.key>>)
          /\ \A s \in sessions' \ sessions : Recorded(Data(s.account), <<"Open", s.key>>)
          /\ \A e \in audited' : e.class = "Applied" /\ e.subject[1] = "sim" /\ e.to \in ProfileState =>
               profiles'[e.subject[2]].state = e.to
    BY Zenon DEF StepRecorded, LifecyclesRecorded, BindingsRecorded, StandingsRecorded,
           CountersRecorded, SessionsRecorded, EventsAreTrue
  <1>6. StepByVerdict =>
          /\ \A k \in ProfileKey :
               profiles'[k].state = "Deleted" /\ profiles[k].state # "Deleted"
                 => Verdict(Sim(k), "Execute")
          /\ \A a \in Account :
               /\ status[a] = "Suspended" /\ status'[a] = "Active" => Verdict(Mvno(a), "Execute")
               /\ \/ usage[a] # None /\ usage'[a].used < usage[a].used
                  \/ last_resets'[a] # last_resets[a]
                  => Verdict(Data(a), "Execute")
    BY Zenon DEF StepByVerdict
  <1> QED
    BY <1>3, <1>4, <1>5, <1>6, SvcInvariance, PTL
    DEF SvcSpec, StepsAccounted, ChangesAudited, RestoredOnlyByVerdict
=============================================================================
