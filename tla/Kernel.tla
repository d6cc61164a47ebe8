------------------------------ MODULE Kernel -------------------------------
(***************************************************************************)
(* The x86_64 kernel's syscall layer (kernel/src/syscall.rs): threads of   *)
(* the scheduler calling the IPC operations.                               *)
(*                                                                         *)
(* `int 0x80' is an interrupt gate, so a syscall runs with interrupts off. *)
(* A blocking one is a loop that tries, and on failure calls yield_now;    *)
(* the tick is masked until it returns.  call[t] is the loop thread t is   *)
(* in.  One step is one iteration: it completes the call, or it gives the  *)
(* CPU away through `reschedule'.  A refused or empty call leaves the      *)
(* state as it was and has no step of its own.                             *)
(***************************************************************************)
EXTENDS Scheduler, Ipc

CONSTANTS
    Grants,     \* the <<thread, port>> pairs for which the thread has a token
    Revocable,  \* the ones that may be revoked or expire in this instance
    Workloads   \* the sets of syscalls that threads use together

ASSUME GrantsAssumption ==
    Revocable \subseteq Grants /\ Grants \subseteq ThreadId \X Port

VARIABLES
    call,       \* call[t]: the blocking syscall t is in, or NoCall
    revoked,    \* the tokens revoked or past their expires_at
    workload    \* the syscalls the threads use

kernelVars == <<schedVars, ipcVars, call, revoked, workload>>

NoCall == [op |-> "none", arg |-> 0]
Blocking == {"SYS_IPC_SEND", "SYS_IPC_SEND_LOCK", "SYS_IPC_SESSION_SEND",
             "SYS_IPC_SESSION_SEND_LOCK"}
Call == [op : Blocking, arg : Port \cup SessionId] \cup {NoCall}

KernelInit ==
    /\ SchedInit
    /\ IpcInit
    /\ call = [t \in ThreadId |-> NoCall]
    /\ revoked = {}
    /\ workload \in Workloads

(***************************************************************************)
(* authorized_for_port: some token of the caller names the port, verifies, *)
(* has not expired and is not revoked.                                     *)
(***************************************************************************)
authorized_for_port(port) == <<current, port>> \in Grants \ revoked

(* The running thread is executing its own code, with interrupts enabled.  *)
InThread == Idle(current) /\ call[current] = NoCall

(***************************************************************************)
(* A context switch: `reschedule', whose reap_zombies also reaps the IPC   *)
(* sessions of every zombie.                                               *)
(***************************************************************************)
Switch ==
    /\ reschedule
    /\ reap_sessions_for(Range(zombies))
    /\ UNCHANGED <<portVars, revoked>>

(***************************************************************************)
(* The scheduler's own entry points.  Threads here share the kernel's      *)
(* address space: which space is loaded does not bear on IPC.              *)
(***************************************************************************)
Spawn ==
    /\ InThread
    /\ Thread_new(FALSE, FALSE)
    /\ UNCHANGED <<ipcVars, call, revoked>>

Push == push_thread /\ UNCHANGED <<ipcVars, call, revoked>>

SYS_YIELD == InThread /\ Switch /\ UNCHANGED <<pc, call>>

Exit ==
    /\ InThread
    /\ exit_current_thread
    /\ UNCHANGED <<ipcVars, call, revoked>>

ExitInt ==
    /\ exit_int
    /\ reap_sessions_for(Range(zombies))
    /\ UNCHANGED <<portVars, call, revoked>>

Tick ==
    /\ call[current] = NoCall
    /\ Switch
    /\ UNCHANGED <<pc, call>>

(***************************************************************************)
(* The iterations of a blocking syscall c.  Entering checks the guard that *)
(* dispatch checks before the loop; a resumed iteration does not.          *)
(***************************************************************************)
Iterates(c, entry_check) ==
    /\ c.op \in workload
    /\ \/ call[current] = c
       \/ InThread /\ entry_check

Returns ==
    /\ call' = [call EXCEPT ![current] = NoCall]
    /\ UNCHANGED <<schedVars, revoked>>

Waits(c) ==
    /\ call' = [call EXCEPT ![current] = c]
    /\ Switch
    /\ UNCHANGED pc

SYS_IPC_SEND(port) ==
    LET c == [op |-> "SYS_IPC_SEND", arg |-> port] IN
    /\ Iterates(c, authorized_for_port(port))
    /\ \/ send(port, current) /\ UNCHANGED sessionVars /\ Returns
       \/ Len(queue[port]) >= CHANNEL_CAPACITY /\ Waits(c)

SYS_IPC_SEND_LOCK(port) ==
    LET c == [op |-> "SYS_IPC_SEND_LOCK", arg |-> port] IN
    /\ Iterates(c, authorized_for_port(port))
    /\ \/ begin_send(port) /\ UNCHANGED sessionVars /\ Returns
       \/ send_lock[port] /\ Waits(c)

(***************************************************************************)
(* The session calls are re-checked on every iteration: once the session   *)
(* is gone, or was never the caller's, they return.                        *)
(***************************************************************************)
SYS_IPC_SESSION_SEND(id) ==
    LET c == [op |-> "SYS_IPC_SESSION_SEND", arg |-> id] IN
    /\ Iterates(c, Participant(id, current))
    /\ \/ session_send(id, current, current) /\ UNCHANGED portVars /\ Returns
       \/ /\ Participant(id, current)
          /\ Len(sessions[id].lane[role_of(sessions[id], current)])
               >= CHANNEL_CAPACITY
          /\ Waits(c)
       \/ ~Participant(id, current) /\ UNCHANGED ipcVars /\ Returns

SYS_IPC_SESSION_SEND_LOCK(id) ==
    LET c == [op |-> "SYS_IPC_SESSION_SEND_LOCK", arg |-> id] IN
    /\ Iterates(c, Participant(id, current))
    /\ \/ session_begin_send(id, current) /\ UNCHANGED portVars /\ Returns
       \/ /\ Participant(id, current)
          /\ sessions[id].locked[role_of(sessions[id], current)]
          /\ Waits(c)
       \/ ~Participant(id, current) /\ UNCHANGED ipcVars /\ Returns

(***************************************************************************)
(* The syscalls that never block.                                          *)
(***************************************************************************)
Quick(op) ==
    /\ op \in workload
    /\ InThread
    /\ UNCHANGED <<schedVars, call, revoked>>

SYS_IPC_SEND_UNLOCK(port) ==
    /\ Quick("SYS_IPC_SEND_UNLOCK")
    /\ authorized_for_port(port)
    /\ end_send(port)
    /\ UNCHANGED sessionVars

SYS_IPC_RECV(port) ==
    /\ Quick("SYS_IPC_RECV")
    /\ authorized_for_port(port)
    /\ try_recv(port)
    /\ UNCHANGED sessionVars

SYS_IPC_SESSION_OPEN(port) ==
    /\ Quick("SYS_IPC_SESSION_OPEN")
    /\ authorized_for_port(port)
    /\ session_open(port, current)
    /\ UNCHANGED portVars

SYS_IPC_SESSION_ACCEPT(port) ==
    /\ Quick("SYS_IPC_SESSION_ACCEPT")
    /\ authorized_for_port(port)
    /\ session_accept(port, current)
    /\ UNCHANGED portVars

SYS_IPC_SESSION_RECV(id) ==
    /\ Quick("SYS_IPC_SESSION_RECV")
    /\ session_try_recv(id, current)
    /\ UNCHANGED portVars

SYS_IPC_SESSION_SEND_UNLOCK(id) ==
    /\ Quick("SYS_IPC_SESSION_SEND_UNLOCK")
    /\ session_end_send(id, current)
    /\ UNCHANGED portVars

(***************************************************************************)
(* capabilities::revoke of a token, by a thread in kernel code, or the     *)
(* tick count passing the token's expires_at.                              *)
(***************************************************************************)
Revoke(token) ==
    /\ InThread
    /\ token \notin revoked
    /\ revoked' = revoked \cup {token}
    /\ UNCHANGED <<schedVars, ipcVars, call>>

PortCall(port) ==
    \/ SYS_IPC_SEND(port)
    \/ SYS_IPC_SEND_LOCK(port)
    \/ SYS_IPC_SEND_UNLOCK(port)
    \/ SYS_IPC_RECV(port)
    \/ SYS_IPC_SESSION_OPEN(port)
    \/ SYS_IPC_SESSION_ACCEPT(port)

SessionCall(id) ==
    \/ SYS_IPC_SESSION_SEND(id)
    \/ SYS_IPC_SESSION_SEND_LOCK(id)
    \/ SYS_IPC_SESSION_SEND_UNLOCK(id)
    \/ SYS_IPC_SESSION_RECV(id)

KernelNext ==
    /\ \/ Spawn
       \/ Push
       \/ SYS_YIELD
       \/ Exit
       \/ ExitInt
       \/ Tick
       \/ \E port \in Port : PortCall(port)
       \/ \E id \in SessionId : SessionCall(id)
       \/ \E token \in Revocable : Revoke(token)
    /\ UNCHANGED workload

(***************************************************************************)
(* The CPU keeps executing a thread that is inside a syscall, and the tick *)
(* is delivered once interrupts are enabled.  A thread running its own     *)
(* code need not do anything.                                              *)
(***************************************************************************)
InSyscall ==
    /\ call[current] # NoCall
    /\ \/ \E port \in Port : PortCall(port)
       \/ \E id \in SessionId : SessionCall(id)

KernelSpec ==
    /\ KernelInit
    /\ [][KernelNext]_kernelVars
    /\ WF_kernelVars(Tick)
    /\ WF_kernelVars(InSyscall)

-----------------------------------------------------------------------------
(* The types of the scheduler's and the IPC layer's state; a port's queue  *)
(* and a session's lanes stay within CHANNEL_CAPACITY.                     *)
KernelTypeOK ==
    /\ SchedTypeOK
    /\ queue \in [Port -> Seq(ThreadId)]
    /\ send_lock \in [Port -> BOOLEAN]
    /\ DOMAIN sessions \subseteq SessionId
    /\ \A p \in Port : Len(queue[p]) <= CHANNEL_CAPACITY
    /\ \A id \in DOMAIN sessions :
          /\ sessions[id] \in Session(ThreadId)
          /\ \A r \in Role : Len(sessions[id].lane[r]) <= CHANNEL_CAPACITY
    /\ pending \in [Port -> Seq(SessionId)]
    /\ NEXT_SESSION_ID \in 1 .. MAX_SESSION_ID + 1
    /\ call \in [ThreadId -> Call]
    /\ revoked \subseteq Revocable

(* No session outlives the reaping of a thread that owns or serves it:     *)
(* every participant still has its stack.                                  *)
NoOrphanSession ==
    \A id \in DOMAIN sessions :
        {sessions[id].owner, sessions[id].server} \subseteq stack \cup {NoServer}

(* A port's pending queue holds exactly the open sessions of that port     *)
(* that nobody has accepted, each once: an accept never gets a dead id,    *)
(* never one another thread serves, and no open is lost.                   *)
PendingExact ==
    \A p \in Port :
        /\ NoRepeats(pending[p])
        /\ Range(pending[p]) = {id \in DOMAIN sessions :
                                   /\ sessions[id].server = NoServer
                                   /\ sessions[id].server_port = p}

(* Neither ceiling of session_open is ever exceeded.                       *)
SessionCeilings ==
    /\ Cardinality(DOMAIN sessions) <= MAX_LIVE_SESSIONS
    /\ \A t \in ThreadId :
          Cardinality({id \in DOMAIN sessions : sessions[id].owner = t})
            <= MAX_SESSIONS_PER_OWNER

(* session_try_recv never gives a thread back a byte it sent itself.       *)
RecvIsPeers ==
    \A id \in DOMAIN sessions, t \in ThreadId :
        Participant(id, t) =>
            t \notin Range(sessions[id].lane[Peer(role_of(sessions[id], t))])

WaitsAt(c, p) == c \in [op : {"SYS_IPC_SEND", "SYS_IPC_SEND_LOCK"}, arg : {p}]

(* A thread whose token for a port is missing, expired or revoked leaves   *)
(* the port alone: it neither sends nor takes a byte, nor claims or        *)
(* releases the lock, nor opens a session, nor starts to wait.  The one    *)
(* effect it can still have is that of a blocking call it entered while    *)
(* authorized.                                                             *)
UnauthorizedIsInert ==
    [][\A p \in Port :
          /\ <<current, p>> \notin Grants \ revoked
          /\ ~WaitsAt(call[current], p)
          => /\ queue'[p] = queue[p]
             /\ send_lock'[p] = send_lock[p]
             /\ Range(pending'[p]) \subseteq Range(pending[p])
             /\ ~WaitsAt(call'[current], p)]_kernelVars

(* Until it is torn down, a session keeps its owner and its port, and its  *)
(* first accept is its only one.                                           *)
ParticipantsFixed ==
    [][\A id \in DOMAIN sessions \cap DOMAIN sessions' :
          /\ sessions'[id].owner = sessions[id].owner
          /\ sessions'[id].server_port = sessions[id].server_port
          /\ sessions[id].server # NoServer
               => sessions'[id].server = sessions[id].server]_kernelVars

(* A lane has one sender, so its lock can only make that sender wait for   *)
(* itself: a session_begin_send that has to wait never gets the lock, and  *)
(* returns only because the session was torn down.                         *)
LockWaitEndsInTeardown ==
    [][\A t \in ThreadId :
          /\ call[t].op = "SYS_IPC_SESSION_SEND_LOCK"
          /\ call'[t] = NoCall
          => call[t].arg \notin DOMAIN sessions]_kernelVars

WaitsOn(t, id) ==
    call[t] \in [op : {"SYS_IPC_SESSION_SEND", "SYS_IPC_SESSION_SEND_LOCK"},
                 arg : {id}]

(* A thread blocked in a session call is released once the session's other *)
(* participant exits: the session is reaped and the call returns.          *)
PeerExitReleases ==
    \A t \in ThreadId :
        (\E u \in ThreadId, id \in DOMAIN sessions :
            /\ WaitsOn(t, id)
            /\ u \in {sessions[id].owner, sessions[id].server}
            /\ pc[u] = "exit")
            ~> call[t] = NoCall

(* The session tables between any two syscalls, ticks and reaps: no        *)
(* session without its threads, no pending id that is dead, taken or       *)
(* missing, no ceiling passed, and no lane that returns a thread its own   *)
(* bytes.                                                                  *)
SessionsSound ==
    /\ KernelTypeOK
    /\ NoOrphanSession
    /\ PendingExact
    /\ SessionCeilings
    /\ RecvIsPeers

(* What no syscall does to the ports and sessions of others: act on a port *)
(* without a live token, change who takes part in a session, or hand a     *)
(* lane's lock to a waiter while the session lives.                        *)
SessionSteps ==
    /\ UnauthorizedIsInert
    /\ ParticipantsFixed
    /\ LockWaitEndsInTeardown
=============================================================================
