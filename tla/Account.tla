------------------------------ MODULE Account ------------------------------
(***************************************************************************)
(* The MVNO account registry: AccountRegistry (mobile/src/account.rs) as   *)
(* kernel-arm holds it (kernel-arm/src/mvno.rs).  A profile is bound to at *)
(* most one account; an account is Active, Suspended or Closed.  The       *)
(* registry reads profile lifecycles through lifecycle_view, the live      *)
(* sim.rs state.  `apply' validates fully before it mutates, so a refused  *)
(* change leaves the registry as it was.                                   *)
(***************************************************************************)
EXTENDS Sim, FiniteSets

CONSTANTS
    Account,                    \* the account ids callers name
    OpenedAccounts,             \* the ones opened at boot
    MAX_PROFILES_PER_ACCOUNT

ASSUME AccountAssumption ==
    /\ OpenedAccounts \subseteq Account
    /\ None \notin Account
    /\ MAX_PROFILES_PER_ACCOUNT \in Nat

VARIABLES
    status,     \* status[a]; "Unopened" when the registry has no account a
    owner       \* the bindings: owner[k] is the account k is bound to, or None

regVars == <<status, owner>>

AccountStatus == {"Active", "Suspended", "Closed"}

RegInit ==
    /\ status = [a \in Account |-> IF a \in OpenedAccounts THEN "Active" ELSE "Unopened"]
    /\ owner = [k \in ProfileKey |-> None]

profiles_of(a) == {k \in ProfileKey : owner[k] = a}

(* standing(a) is Some.                                                    *)
has_account(a) == status[a] # "Unopened"

(***************************************************************************)
(* Change::Bind is legal: the account exists and is not Closed, the        *)
(* profile is known, unbound and not Deleted, is not Enabled unless the    *)
(* account is Active, and the account has room.                            *)
(***************************************************************************)
can_bind(a, k) ==
    /\ has_account(a) /\ status[a] # "Closed"
    /\ owner[k] = None
    /\ profile_state(k) \notin {"Absent", "Deleted"}
    /\ profile_state(k) = "Enabled" => status[a] = "Active"
    /\ Cardinality(profiles_of(a)) < MAX_PROFILES_PER_ACCOUNT

bind(a, k) == owner' = [owner EXCEPT ![k] = a] /\ UNCHANGED status

(* Change::Unbind is legal: bound, and not Enabled.                        *)
can_unbind(k) == owner[k] # None /\ profile_state(k) # "Enabled"

(* mvno::unbind; a profile that was never bound has nothing to release.    *)
unbind(k) ==
    /\ owner' = IF can_unbind(k) THEN [owner EXCEPT ![k] = None] ELSE owner
    /\ UNCHANGED status

(* mvno::gate_enable: the profile is bound, and to an Active account.      *)
gate_enable(k) == owner[k] # None /\ status[owner[k]] = "Active"

(* Change::SetStatus for the two directions the kernel uses.               *)
can_suspend(a) == status[a] = "Active"
can_reactivate(a) == status[a] = "Suspended"

set_status(a, to) == status' = [status EXCEPT ![a] = to] /\ UNCHANGED owner

(* The profiles `suspend' tells its caller to force Enabled -> Disabled.   *)
force_disable(a) == {k \in profiles_of(a) : profile_state(k) = "Enabled"}

has_bound_profile(a) == profiles_of(a) # {}
=============================================================================
