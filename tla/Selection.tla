----------------------------- MODULE Selection ------------------------------
(***************************************************************************)
(* Which mobile network to attach to (mobile/src/selection.rs), for every  *)
(* list a modem may report: the list grows by one candidate at a time, and *)
(* select_network's loop with it.                                          *)
(*                                                                         *)
(* A network is <<mcc, mnc>>.  What varies besides the list is the rest of *)
(* SelectionInput: the account's standing, the plan's networks (a list),   *)
(* its preferred one and whether it permits roaming.                       *)
(***************************************************************************)
EXTENDS Integers, Sequences, Functions

CONSTANTS
    SelectionPlans,         \* inputs without their candidates
    Candidates,             \* what a scan may report
    MAX_CANDIDATES, MAX_ALLOWED_NETWORKS,
    NoNetwork               \* preferred: None

(* SelectionInput's types.                                                 *)
ASSUME SelectionAssumption ==
    /\ Candidates \subseteq [network : Nat \X Nat, signal : Int, is_home : BOOLEAN]
    /\ \A p \in SelectionPlans :
          /\ p.standing \in {"Active", "Suspended", "Closed"}
          /\ p.allowed \in Seq(Nat \X Nat) /\ p.roaming_allowed \in BOOLEAN
    /\ {MAX_CANDIDATES, MAX_ALLOWED_NETWORKS} \subseteq Nat

VARIABLES
    plan, seen,             \* the input and its candidates, in the modem's order
    any_allowed, best       \* the loop's locals, after those candidates

selectionVars == <<plan, seen, any_allowed, best>>

-----------------------------------------------------------------------------
Refused(why) == [allowed |-> FALSE, reason |-> why, network |-> NoNetwork]
Found(c, why) == [allowed |-> TRUE, reason |-> why, network |-> c.network]

is_pref(p, c) == p.preferred = c.network

(* The tuple select_network compares, larger first: a derived order, field *)
(* by field.                                                               *)
Bit(b) == IF b THEN 1 ELSE 0
rank_no_id(p, c) == <<Bit(is_pref(p, c)), Bit(c.is_home), c.signal, 0, 0>>
rank(p, c) == <<Bit(is_pref(p, c)), Bit(c.is_home), c.signal, -c.network[1], -c.network[2]>>
Greater(r, s) == \E i \in 1 .. 5 : r[i] > s[i] /\ \A j \in 1 .. i - 1 : r[j] = s[j]

SelectionInit == plan \in SelectionPlans /\ seen = <<>> /\ any_allowed = FALSE /\ best = {}

(* The loop's turn for one more candidate: best holds one, or none.        *)
Eligible(p, c) == c.is_home \/ p.roaming_allowed
Scan ==
    /\ Len(seen) <= MAX_CANDIDATES
    /\ \E c \in Candidates :
          /\ seen' = Append(seen, c)
          /\ IF c.network \in Range(plan.allowed)
             THEN /\ any_allowed' = TRUE
                  /\ best' = IF Eligible(plan, c) /\ \A b \in best : Greater(rank(plan, c), rank(plan, b))
                             THEN {c} ELSE best
             ELSE UNCHANGED <<any_allowed, best>>
    /\ UNCHANGED plan

SelectionSpec == SelectionInit /\ [][Scan]_selectionVars

(* What is returned when these are all the candidates.                     *)
Why(p, c) ==
    IF is_pref(p, c) THEN "PlanPreferred" ELSE IF c.is_home THEN "HomeNetwork" ELSE "StrongestSignal"
select_network ==
    IF plan.standing = "Suspended" THEN Refused("AccountSuspended")
    ELSE IF plan.standing = "Closed" THEN Refused("AccountClosed")
    ELSE IF Len(seen) > MAX_CANDIDATES THEN Refused("TooManyCandidates")
    ELSE IF Len(plan.allowed) > MAX_ALLOWED_NETWORKS THEN Refused("TooManyAllowedNetworks")
    ELSE IF seen = <<>> THEN Refused("NoCandidates")
    ELSE IF plan.allowed = <<>> THEN Refused("NoAllowedNetworksInPlan")
    ELSE IF best # {} THEN LET c == CHOOSE b \in best : TRUE IN Found(c, Why(plan, c))
    ELSE Refused(IF any_allowed THEN "RoamingNotPermitted" ELSE "NoAllowedCandidate")

-----------------------------------------------------------------------------
(* The choice is a function of what is seen, not of the order in which the *)
(* modem lists it: among the networks the plan lets this account use, the  *)
(* preferred one, else those at home, of these the strongest, of these the *)
(* lowest; and the reason given is the rule that decided.  With no such    *)
(* network it is refused, for want of roaming only if the plan's list was  *)
(* met (select_network's one pass over the list).                          *)
Visible == {c \in Range(seen) : c.network \in Range(plan.allowed)}
Usable == {c \in Visible : Eligible(plan, c)}
Narrowed(S, T) == IF S \cap T # {} THEN S \cap T ELSE S
Preferred == {c \in Usable : c.network = plan.preferred}
Home == {c \in Usable : c.is_home}
First == Narrowed(Narrowed(Usable, Preferred), Home)
Strongest == {c \in First : \A d \in First : d.signal <= c.signal}
Below(m, n) == m[1] < n[1] \/ (m[1] = n[1] /\ m[2] < n[2])
Lowest == {c.network : c \in {d \in Strongest : \A e \in Strongest : ~Below(e.network, d.network)}}
SelectionIsBest ==
    LET answer == select_network
    IN  /\ answer.allowed <=> /\ plan.standing = "Active" /\ Usable # {}
                              /\ Len(seen) <= MAX_CANDIDATES /\ Len(plan.allowed) <= MAX_ALLOWED_NETWORKS
        /\ answer.allowed =>
              /\ Lowest = {answer.network}
              /\ answer.reason = IF Preferred # {} THEN "PlanPreferred"
                                 ELSE IF Home # {} THEN "HomeNetwork" ELSE "StrongestSignal"
        /\ answer.reason = "RoamingNotPermitted" => Visible # {} /\ ~plan.roaming_allowed
        /\ answer.reason = "NoAllowedCandidate" => Visible = {}
=============================================================================
