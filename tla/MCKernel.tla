------------------------------ MODULE MCKernel -----------------------------
(***************************************************************************)
(* Instances of the kernel for TLC.  Each behaviour has one group of       *)
(* syscalls, so that the threads' calls interleave in full within it; the  *)
(* empty group is the scheduler alone, with every kind of thread.          *)
(***************************************************************************)
EXTENDS Kernel

AllButOne == (ThreadId \X Port) \ {<<3, 2>>}   \* thread 3 has no token for port 2
OneToken == {2} \X {2}

SessionLifecycle ==
    {"SYS_IPC_SESSION_OPEN", "SYS_IPC_SESSION_ACCEPT"}
SessionTraffic ==
    SessionLifecycle \cup {"SYS_IPC_SESSION_SEND", "SYS_IPC_SESSION_RECV"}
SessionLocks ==
    SessionLifecycle \cup {"SYS_IPC_SESSION_SEND_LOCK",
                           "SYS_IPC_SESSION_SEND_UNLOCK"}
PortTraffic ==
    {"SYS_IPC_SEND", "SYS_IPC_SEND_LOCK", "SYS_IPC_SEND_UNLOCK", "SYS_IPC_RECV"}
MCWorkloads == {{}, SessionLifecycle, SessionTraffic, SessionLocks, PortTraffic}

(* Sessions are opened on both ports, or on the first, with two sessions   *)
(* that carry bytes or one whose lanes are locked.  Port traffic is on the *)
(* second port, with a thread that has no token for it and one whose token *)
(* is revoked.                                                             *)
Within ==
    /\ workload \in {SessionTraffic, SessionLocks} => pending[2] = <<>>
    /\ workload = SessionTraffic => NEXT_SESSION_ID <= 3
    /\ workload = SessionLocks => NEXT_SESSION_ID <= 2
    /\ workload = PortTraffic => queue[1] = <<>> /\ ~send_lock[1]
    /\ workload # PortTraffic => revoked = {}

SchedulerAlone == workload = {} /\ SchedNext /\ UNCHANGED <<ipcVars, call, revoked, workload>>
MCNext == (SchedulerAlone \/ (workload # {} /\ KernelNext)) /\ Within'
MCSpec ==
    /\ KernelInit
    /\ [][MCNext]_kernelVars
    /\ WF_kernelVars(Tick /\ UNCHANGED workload)
    /\ WF_kernelVars(InSyscall /\ UNCHANGED workload)
=============================================================================
