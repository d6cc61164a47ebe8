------------------------------- MODULE MCSvc -------------------------------
(* Instances of Svc for TLC.                                               *)
EXTENDS Svc, TLC

CONSTANTS a1, a2        \* accounts

LifecycleCalls ==
    {"SYS_SIM_CREATE", "SYS_SIM_INSTALL", "SYS_SIM_ENABLE", "SYS_SIM_DISABLE",
     "SYS_SIM_DELETE", "SYS_MVNO_BIND", "SYS_MVNO_SUSPEND", "SYS_MVNO_REACTIVATE",
     "SYS_DATA_SESSION_OPEN", "SYS_DATA_SESSION_CLOSE"}

(* Metering and billing periods, with the calls that make an account able  *)
(* to use data.                                                            *)
BillingCalls ==
    {"SYS_SIM_CREATE", "SYS_SIM_INSTALL", "SYS_SIM_ENABLE", "SYS_MVNO_BIND",
     "SYS_MVNO_SUSPEND", "SYS_DATA_ACCOUNT", "SYS_DATA_SESSION_OPEN",
     "SYS_DATA_PERIOD", "SYS_DATA_RECONCILE", "SYS_DATA_RESET"}

(* a1 may roam and a2 may not; neither is metered.                         *)
Unlimited ==
    (a1 :> [cap |-> None, throttle |-> 80, roaming |-> TRUE, escalate |-> 150]) @@
    (a2 :> [cap |-> None, throttle |-> 80, roaming |-> FALSE, escalate |-> 150])

(* Bands of 0, 1, 2 and 3 or more bytes: Normal, Throttled, CapReached,    *)
(* Anomalous.                                                              *)
Capped == [a \in Account |-> [cap |-> 2, throttle |-> 50, roaming |-> FALSE, escalate |-> 150]]

(* No account has a period before its first reset installs one.            *)
NoPeriods == [a \in Account |-> None]
=============================================================================
