-------------------------------- MODULE Sim --------------------------------
(***************************************************************************)
(* The eSIM profile store of kernel-arm (kernel-arm/src/sim.rs): SLOT_COUNT *)
(* slots, each a vector of at most MAX_PROFILES_PER_SLOT profiles whose    *)
(* ids are their positions.  An entry is never removed: a deleted profile  *)
(* keeps its place.  Every function takes the SLOTS lock for its duration, *)
(* so each is one step.  An operation on a profile that does not exist or  *)
(* is in the wrong state fails and leaves the store as it was.             *)
(***************************************************************************)
EXTENDS Naturals

CONSTANTS
    SLOT_COUNT,
    MAX_PROFILES_PER_SLOT,
    Identity,       \* the subscriber identities `install' is called with
    None            \* Rust's None

ASSUME SimAssumption ==
    /\ SLOT_COUNT \in Nat /\ MAX_PROFILES_PER_SLOT \in Nat
    /\ None \notin Identity

VARIABLE profiles   \* SLOTS, as a function of <<slot, profile id>>

Slot == 0 .. SLOT_COUNT - 1
ProfileId == 0 .. MAX_PROFILES_PER_SLOT - 1
ProfileKey == Slot \X ProfileId

(* "Absent" stands for a place of the vector not pushed yet.               *)
ProfileState == {"Created", "Disabled", "Enabled", "Deleted"}
EsimProfile == [state : ProfileState \cup {"Absent"}, identity : Identity \cup {None}]

SimInit == profiles = [k \in ProfileKey |-> [state |-> "Absent", identity |-> None]]

profile_state(k) == profiles[k].state
EnabledProfiles == {k \in ProfileKey : profile_state(k) = "Enabled"}

Op == {"Install", "Enable", "Disable", "Delete"}

source_state(op) ==
    CASE op = "Install" -> "Created"
      [] op = "Enable"  -> "Disabled"
      [] op = "Disable" -> "Enabled"
      [] op = "Delete"  -> "Disabled"

target_state(op) ==
    CASE op = "Install" -> "Disabled"
      [] op = "Enable"  -> "Enabled"
      [] op = "Disable" -> "Disabled"
      [] op = "Delete"  -> "Deleted"

(* SimSlot::create returns the vector's length as the new profile's id.    *)
create_id(slot, id) ==
    /\ profile_state(<<slot, id>>) = "Absent"
    /\ \A j \in 0 .. id - 1 : profile_state(<<slot, j>>) # "Absent"

create(slot, id) ==
    /\ create_id(slot, id)
    /\ profiles' = [profiles EXCEPT ![<<slot, id>>].state = "Created"]

(* Whether the transition `op' of profile k is legal.                      *)
legal(op, k) == profile_state(k) = source_state(op)

(***************************************************************************)
(* SimSlot::transition, for a legal op: when the profile is to be Enabled, *)
(* whatever was Enabled in its slot becomes Disabled first.                *)
(***************************************************************************)
transition(op, k) ==
    profiles' = [q \in ProfileKey |->
        IF q = k THEN [profiles[q] EXCEPT !.state = target_state(op)]
        ELSE IF target_state(op) = "Enabled" /\ q[1] = k[1] /\ profile_state(q) = "Enabled"
        THEN [profiles[q] EXCEPT !.state = "Disabled"]
        ELSE profiles[q]]

(* SimSlot::install: the transition, then the identity.                    *)
install(k, identity) ==
    profiles' = [profiles EXCEPT ![k] = [state |-> target_state("Install"),
                                         identity |-> identity]]

(* `disable' of every profile in a set, one call after another; one that   *)
(* is not Enabled fails and is left alone.                                 *)
disable_all(ks) ==
    profiles' = [k \in ProfileKey |->
        IF k \in ks /\ legal("Disable", k)
        THEN [profiles[k] EXCEPT !.state = target_state("Disable")]
        ELSE profiles[k]]
=============================================================================
