-------------------------------- MODULE Ipc --------------------------------
(***************************************************************************)
(* The x86_64 kernel's IPC state and operations (kernel/src/ipc.rs): the   *)
(* fixed byte ports with their advisory send locks, and the session table  *)
(* with its per-port queues of opens not yet accepted.                     *)
(*                                                                         *)
(* Every operation here runs inside a syscall, with interrupts off, so it  *)
(* is atomic up to the yield_now of a spin-yield loop; one iteration of    *)
(* such a loop is one use of these operators (see Kernel).  A byte is      *)
(* represented by the thread that sent it.                                 *)
(***************************************************************************)
EXTENDS Naturals, Sequences, Functions, FiniteSets

CONSTANTS
    Port,                    \* the ports in use, of the code's PORT_COUNT
    CHANNEL_CAPACITY,
    MAX_LIVE_SESSIONS,
    MAX_SESSIONS_PER_OWNER,
    MAX_SESSION_ID           \* bound on the ids handed out; the code's is 2^64

ASSUME IpcAssumption ==
    {CHANNEL_CAPACITY, MAX_LIVE_SESSIONS, MAX_SESSIONS_PER_OWNER,
     MAX_SESSION_ID} \subseteq Nat \ {0}

NoServer == 0                \* Session.server = None; thread ids start at 1

VARIABLES
    queue,                   \* CHANNELS
    send_lock,               \* SEND_LOCKS
    sessions,                \* SESSIONS: a function on the live session ids
    pending,                 \* PENDING_BY_PORT
    NEXT_SESSION_ID

portVars == <<queue, send_lock>>
sessionVars == <<sessions, pending, NEXT_SESSION_ID>>
ipcVars == <<queue, send_lock, sessions, pending, NEXT_SESSION_ID>>

SessionId == 1 .. MAX_SESSION_ID
Role == {"Owner", "Server"}

(***************************************************************************)
(* lane["Owner"] is owner_to_server and lane["Server"] server_to_owner:    *)
(* a lane is named by the role that writes it.                             *)
(***************************************************************************)
Session(Thread_Id) ==
    [lane : [Role -> Seq(Thread_Id)], locked : [Role -> BOOLEAN],
     owner : Thread_Id, server : Thread_Id \cup {NoServer}, server_port : Port]

NewSession(port, owner) ==
    [lane |-> [r \in Role |-> <<>>], locked |-> [r \in Role |-> FALSE],
     owner |-> owner, server |-> NoServer, server_port |-> port]

IpcInit ==
    /\ queue = [p \in Port |-> <<>>]
    /\ send_lock = [p \in Port |-> FALSE]
    /\ sessions = [i \in {} |-> 0]
    /\ pending = [p \in Port |-> <<>>]
    /\ NEXT_SESSION_ID = 1

-----------------------------------------------------------------------------
(* begin_send with a plain store in place of the compare-and-set.          *)
begin_send_stores(port) ==
    /\ send_lock' = [send_lock EXCEPT ![port] = TRUE]
    /\ UNCHANGED queue

(***************************************************************************)
(* Fixed ports.  begin_send and send are one iteration of their loops.     *)
(***************************************************************************)
begin_send(port) ==
    /\ ~send_lock[port]
    /\ send_lock' = [send_lock EXCEPT ![port] = TRUE]
    /\ UNCHANGED queue

(* end_send without its store.                                             *)
end_send_forgets(port) == UNCHANGED <<send_lock, queue>>

end_send(port) ==
    /\ send_lock' = [send_lock EXCEPT ![port] = FALSE]
    /\ UNCHANGED queue

send(port, byte) ==
    /\ Len(queue[port]) < CHANNEL_CAPACITY
    /\ queue' = [queue EXCEPT ![port] = Append(@, byte)]
    /\ UNCHANGED send_lock

try_recv(port) ==
    /\ queue[port] # <<>>
    /\ queue' = [queue EXCEPT ![port] = Tail(@)]
    /\ UNCHANGED send_lock

-----------------------------------------------------------------------------
(***************************************************************************)
(* session_open, when both ceilings allow it; otherwise nothing happens.   *)
(***************************************************************************)
session_open(server_port, owner) ==
    /\ Cardinality(DOMAIN sessions) < MAX_LIVE_SESSIONS
    /\ Cardinality({id \in DOMAIN sessions : sessions[id].owner = owner})
         < MAX_SESSIONS_PER_OWNER
    /\ NEXT_SESSION_ID <= MAX_SESSION_ID
    /\ NEXT_SESSION_ID' = NEXT_SESSION_ID + 1
    /\ sessions' = [id \in DOMAIN sessions \cup {NEXT_SESSION_ID} |->
                       IF id = NEXT_SESSION_ID
                       THEN NewSession(server_port, owner) ELSE sessions[id]]
    /\ pending' = [pending EXCEPT ![server_port] = Append(@, NEXT_SESSION_ID)]

(***************************************************************************)
(* session_accept: pops the oldest pending id of the port and, if that     *)
(* session still exists, binds the caller as its server.                   *)
(***************************************************************************)
session_accept(server_port, server) ==
    LET id == Head(pending[server_port]) IN
    /\ pending[server_port] # <<>>
    /\ pending' = [pending EXCEPT ![server_port] = Tail(@)]
    /\ sessions' = IF id \in DOMAIN sessions
                   THEN [sessions EXCEPT ![id].server = server] ELSE sessions
    /\ UNCHANGED NEXT_SESSION_ID

(***************************************************************************)
(* role_of: the owner's test comes first, so a thread that accepted its    *)
(* own session only ever acts as its owner.                                *)
(***************************************************************************)
role_of(session, thread_id) ==
    CASE session.owner = thread_id -> "Owner"
      [] session.owner # thread_id /\ session.server = thread_id -> "Server"
      [] OTHER -> "None"

Participant(id, thread_id) ==
    id \in DOMAIN sessions /\ role_of(sessions[id], thread_id) \in Role

Peer(role) == IF role = "Owner" THEN "Server" ELSE "Owner"

(***************************************************************************)
(* One iteration of session_send's loop that finds room.                   *)
(***************************************************************************)
session_send(id, caller, byte) ==
    LET role == role_of(sessions[id], caller) IN
    /\ Participant(id, caller)
    /\ Len(sessions[id].lane[role]) < CHANNEL_CAPACITY
    /\ sessions' = [sessions EXCEPT ![id].lane[role] = Append(@, byte)]
    /\ UNCHANGED <<pending, NEXT_SESSION_ID>>

session_try_recv(id, caller) ==
    LET from == Peer(role_of(sessions[id], caller)) IN
    /\ Participant(id, caller)
    /\ sessions[id].lane[from] # <<>>
    /\ sessions' = [sessions EXCEPT ![id].lane[from] = Tail(@)]
    /\ UNCHANGED <<pending, NEXT_SESSION_ID>>

(***************************************************************************)
(* One iteration of session_begin_send's loop that finds the lane free.    *)
(***************************************************************************)
session_begin_send(id, caller) ==
    LET role == role_of(sessions[id], caller) IN
    /\ Participant(id, caller)
    /\ ~sessions[id].locked[role]
    /\ sessions' = [sessions EXCEPT ![id].locked[role] = TRUE]
    /\ UNCHANGED <<pending, NEXT_SESSION_ID>>

(* session_end_send if it unlocked both lanes.                             *)
session_end_send_both(id, caller) ==
    /\ Participant(id, caller)
    /\ sessions' = [sessions EXCEPT ![id].locked = [r \in Role |-> FALSE]]
    /\ UNCHANGED <<pending, NEXT_SESSION_ID>>

session_end_send(id, caller) ==
    /\ Participant(id, caller)
    /\ sessions' = [sessions EXCEPT
                       ![id].locked[role_of(sessions[id], caller)] = FALSE]
    /\ UNCHANGED <<pending, NEXT_SESSION_ID>>

(* VecDeque::retain: the elements of s that are in Keep, in their order.   *)
(* The n-th of them is the one with n kept elements up to it.              *)
retain(s, Keep) ==
    LET kept == {i \in DOMAIN s : s[i] \in Keep}
        rank(i) == Cardinality({j \in kept : j <= i})
    IN  [n \in 1 .. Cardinality(kept) |-> s[CHOOSE i \in kept : rank(i) = n]]

(* reap_sessions_for with the two retains swapped and the pending one      *)
(* comparing owners only: nothing is left to consult.                      *)
reap_sessions_keeps_pending(threads) ==
    /\ UNCHANGED pending
    /\ sessions' = Restrict(sessions,
                       {id \in DOMAIN sessions :
                           {sessions[id].owner, sessions[id].server} \cap threads = {}})
    /\ UNCHANGED NEXT_SESSION_ID

(* reap_sessions_for if it only looked at the owner.                       *)
reap_sessions_owned(threads) ==
    /\ pending' = [p \in Port |->
          retain(pending[p], {id \in DOMAIN sessions : sessions[id].owner \notin threads})]
    /\ sessions' = Restrict(sessions,
                       {id \in DOMAIN sessions : sessions[id].owner \notin threads})
    /\ UNCHANGED NEXT_SESSION_ID

(***************************************************************************)
(* reap_sessions_for each of the given threads: their pending opens go     *)
(* first, then every session they own or serve.                            *)
(***************************************************************************)
reap_sessions_for(threads) ==
    /\ pending' = [p \in Port |->
          retain(pending[p], {id \in DOMAIN sessions : sessions[id].owner \notin threads})]
    /\ sessions' = Restrict(sessions,
                       {id \in DOMAIN sessions :
                           {sessions[id].owner, sessions[id].server} \cap threads = {}})
    /\ UNCHANGED NEXT_SESSION_ID
=============================================================================
