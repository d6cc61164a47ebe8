----------------------------- MODULE IpcProofs ------------------------------
(***************************************************************************)
(* What the kernel's ports and sessions promise their users, for any       *)
(* number of threads, ports and sessions: what no syscall does to the      *)
(* ports and sessions of others (Kernel), and messages sent under the      *)
(* send-lock discipline that stay whole (PortMessages).                    *)
(***************************************************************************)
EXTENDS PortMessages, KernelProofs

-----------------------------------------------------------------------------
(* The ways a step changes the session table.                              *)
LEMMA TableChanges ==
    ASSUME KernelNext
    PROVE  \/ UNCHANGED sessions
           \/ reap_sessions_for(Range(zombies))
           \/ \E p \in Port : session_open(p, current) \/ session_accept(p, current)
           \/ \E id \in SessionId : \/ session_send(id, current, current) \/ session_try_recv(id, current)
                                   \/ session_begin_send(id, current) \/ session_end_send(id, current)
<1>1. CASE Spawn \/ Push \/ Exit \/ (\E token \in Revocable : Revoke(token))
  BY ZenonT(30), <1>1 DEF Spawn, Push, Exit, Revoke, ipcVars
<1>2. CASE SYS_YIELD \/ Tick \/ ExitInt
  BY Zenon, <1>2 DEF SYS_YIELD, Tick, ExitInt, Switch
<1>3. ASSUME NEW p \in Port, PortCall(p)
      PROVE  \/ UNCHANGED sessions \/ reap_sessions_for(Range(zombies))
             \/ session_open(p, current) \/ session_accept(p, current)
  BY Zenon, <1>3 DEF PortCall, SYS_IPC_SEND, SYS_IPC_SEND_LOCK, SYS_IPC_SEND_UNLOCK, SYS_IPC_RECV,
              SYS_IPC_SESSION_OPEN, SYS_IPC_SESSION_ACCEPT, Waits, Switch, sessionVars
<1>4. ASSUME NEW id \in SessionId, SessionCall(id)
      PROVE  \/ UNCHANGED sessions \/ reap_sessions_for(Range(zombies))
             \/ session_send(id, current, current) \/ session_try_recv(id, current)
             \/ session_begin_send(id, current) \/ session_end_send(id, current)
  BY Zenon, <1>4 DEF SessionCall, SYS_IPC_SESSION_SEND, SYS_IPC_SESSION_SEND_LOCK,
              SYS_IPC_SESSION_SEND_UNLOCK, SYS_IPC_SESSION_RECV, Waits, Switch, ipcVars
<1> QED
  BY Zenon, <1>1, <1>2, <1>3, <1>4 DEF KernelNext

(* For any instance, a session keeps its owner, its port and, once it has  *)
(* one, its server for as long as it lives.                                *)
THEOREM ParticipantsStayFixed == KernelSpec => ParticipantsFixed
<1> DEFINE Fixed == \A id \in DOMAIN sessions \cap DOMAIN sessions' :
                       /\ sessions'[id].owner = sessions[id].owner
                       /\ sessions'[id].server_port = sessions[id].server_port
                       /\ sessions[id].server # NoServer => sessions'[id].server = sessions[id].server
<1>1. ASSUME KernelInv, KernelNext
      PROVE  Fixed
  <2>0. current \in ThreadId /\ Range(zombies) \subseteq ThreadId
    <3>1. current \in ThreadId /\ zombies \in Seq(ThreadId)
      BY Zenon, <1>1 DEF KernelInv, SchedInv, SchedTypeOK
    <3> QED
      BY Zenon, <3>1, RangeOfSeq
  <2>1. \A id \in DOMAIN sessions : sessions[id] \in Session(ThreadId)
    BY Zenon, <1>1 DEF KernelInv, TablesInv, TablesTyped, SessionTyped
  <2>2. CASE UNCHANGED sessions
    BY Zenon, <2>2
  <2>3. CASE reap_sessions_for(Range(zombies))
    BY Zenon, <1>1, <2>0, <2>3, ReapKeeps DEF KernelInv
  <2>4. ASSUME NEW p \in Port, session_open(p, current)
        PROVE  Fixed
    BY <1>1, <2>4 DEF session_open, KernelInv, TablesInv, TablesTyped, IdsHandedOut, SessionId
  <2>5. ASSUME NEW p \in Port, session_accept(p, current)
        PROVE  Fixed
    <3>1. PICK id \in DOMAIN sessions : /\ sessions[id].server = NoServer
                                       /\ sessions' = [sessions EXCEPT ![id].server = current]
      BY ZenonT(30), <1>1, <2>0, <2>5, AcceptFacts DEF KernelInv
    <3> QED
      BY Zenon, <2>1, <3>1 DEF Session
  <2>6. ASSUME NEW id \in SessionId, session_send(id, current, current) \/ session_try_recv(id, current)
        PROVE  Fixed
    <3>1. PICK new : sessions' = [sessions EXCEPT ![id] = [sessions[id] EXCEPT !.lane = new]]
      <4>1. CASE session_send(id, current, current)
        BY ZenonT(30), <4>1 DEF session_send
      <4>2. CASE session_try_recv(id, current)
        BY ZenonT(30), <4>2 DEF session_try_recv
      <4> QED
        BY Zenon, <2>6, <4>1, <4>2
    <3> QED
      BY Zenon, <2>1, <3>1 DEF Session
  <2>7. ASSUME NEW id \in SessionId, session_begin_send(id, current) \/ session_end_send(id, current)
        PROVE  Fixed
    <3>1. PICK new : sessions' = [sessions EXCEPT ![id] = [sessions[id] EXCEPT !.locked = new]]
      <4>1. CASE session_begin_send(id, current)
        BY ZenonT(30), <4>1 DEF session_begin_send
      <4>2. CASE session_end_send(id, current)
        BY ZenonT(30), <4>2 DEF session_end_send
      <4> QED
        BY Zenon, <2>7, <4>1, <4>2
    <3> QED
      BY Zenon, <2>1, <3>1 DEF Session
  <2> QED
    BY Zenon, <1>1, <2>2, <2>3, <2>4, <2>5, <2>6, <2>7, TableChanges
<1> QED
  BY <1>1, KernelInvariance, PTL DEF KernelSpec, ParticipantsFixed

(* For any instance, a session_begin_send that waits returns only because  *)
(* its session was torn down.                                              *)
THEOREM LockWaitsEndInTeardown == KernelSpec => LockWaitEndsInTeardown
<1> DEFINE Ends == \A t \in ThreadId : /\ call[t].op = "SYS_IPC_SESSION_SEND_LOCK"
                                       /\ call'[t] = NoCall
                                       => call[t].arg \notin DOMAIN sessions
<1>1. ASSUME KernelInv, KernelNext
      PROVE  Ends
  <2> SUFFICES ASSUME NEW t \in ThreadId, WaitsForLock(call[t]), call'[t] = NoCall,
                      call[t].arg \in DOMAIN sessions
               PROVE  FALSE
    BY Zenon DEF WaitsForLock
  <2> DEFINE id == call[t].arg
  <2>1. call \in [ThreadId -> Call] /\ current \in ThreadId /\ HoldsLane(id, t) /\ call[t] # NoCall
    BY SMTT(30), <1>1 DEF KernelInv, LockWaitsOnSelf, SchedInv, SchedTypeOK, NoCall, WaitsForLock
  <2>2. call' # call
    BY Zenon, <2>1
  <2>3. ASSUME NEW c, call' = [call EXCEPT ![current] = c]
        PROVE  t = current /\ c = NoCall
    BY Zenon, <2>1, <2>3
  <2>4. t = current => ~InThread
    BY Zenon, <2>1 DEF InThread
  <2>5. Returns => t = current
    BY ZenonT(30), <2>3 DEF Returns
  <2>6. ASSUME NEW c \in [op : Blocking, arg : Port \cup SessionId], Waits(c)
        PROVE  FALSE
    <3>1. c = NoCall
      BY ZenonT(30), <2>3, <2>6 DEF Waits
    <3> QED
      BY Zenon, <2>6, <3>1 DEF NoCall, Blocking
  <2>7. ASSUME NEW p \in Port, PortCall(p)
        PROVE  FALSE
    <3>1. ASSUME SYS_IPC_SEND(p) PROVE FALSE
      <4>1. call[current] # [op |-> "SYS_IPC_SEND", arg |-> p] \/ t # current
        BY DEF WaitsForLock
      <4>2. [op |-> "SYS_IPC_SEND", arg |-> p] \in [op : Blocking, arg : Port \cup SessionId]
        BY Zenon DEF Blocking
      <4>3. Returns
        BY Zenon, <2>6, <3>1, <4>2 DEF SYS_IPC_SEND
      <4>4. call[current] = [op |-> "SYS_IPC_SEND", arg |-> p] \/ InThread
        BY Zenon, <3>1 DEF SYS_IPC_SEND, Iterates
      <4> QED
        BY Zenon, <2>4, <2>5, <4>1, <4>3, <4>4
    <3>2. ASSUME SYS_IPC_SEND_LOCK(p) PROVE FALSE
      <4>1. call[current] # [op |-> "SYS_IPC_SEND_LOCK", arg |-> p] \/ t # current
        BY DEF WaitsForLock
      <4>2. [op |-> "SYS_IPC_SEND_LOCK", arg |-> p] \in [op : Blocking, arg : Port \cup SessionId]
        BY Zenon DEF Blocking
      <4>3. Returns
        BY Zenon, <2>6, <3>2, <4>2 DEF SYS_IPC_SEND_LOCK
      <4>4. call[current] = [op |-> "SYS_IPC_SEND_LOCK", arg |-> p] \/ InThread
        BY Zenon, <3>2 DEF SYS_IPC_SEND_LOCK, Iterates
      <4> QED
        BY Zenon, <2>4, <2>5, <4>1, <4>3, <4>4
    <3> QED
      BY ZenonT(30), <2>2, <2>7, <3>1, <3>2 DEF PortCall, SYS_IPC_SEND_UNLOCK, SYS_IPC_RECV,
                                    SYS_IPC_SESSION_OPEN, SYS_IPC_SESSION_ACCEPT, Quick
  <2>8. ASSUME NEW i \in SessionId, SessionCall(i)
        PROVE  FALSE
    <3>1. ASSUME SYS_IPC_SESSION_SEND(i) PROVE FALSE
      <4>1. call[current] # [op |-> "SYS_IPC_SESSION_SEND", arg |-> i] \/ t # current
        BY DEF WaitsForLock
      <4>2. [op |-> "SYS_IPC_SESSION_SEND", arg |-> i] \in [op : Blocking, arg : Port \cup SessionId]
        BY Zenon DEF Blocking
      <4>3. Returns
        BY Zenon, <2>6, <3>1, <4>2 DEF SYS_IPC_SESSION_SEND
      <4>4. call[current] = [op |-> "SYS_IPC_SESSION_SEND", arg |-> i] \/ InThread
        BY Zenon, <3>1 DEF SYS_IPC_SESSION_SEND, Iterates
      <4> QED
        BY Zenon, <2>4, <2>5, <4>1, <4>3, <4>4
    <3>2. ASSUME SYS_IPC_SESSION_SEND_LOCK(i) PROVE FALSE
      <4> DEFINE c == [op |-> "SYS_IPC_SESSION_SEND_LOCK", arg |-> i]
      <4>1. c \in [op : Blocking, arg : Port \cup SessionId] /\ c.arg = i
        BY Zenon DEF Blocking
      <4>2. Returns /\ (session_begin_send(i, current) \/ ~Participant(i, current))
        BY Zenon, <2>6, <3>2, <4>1 DEF SYS_IPC_SESSION_SEND_LOCK
      <4>3. t = current /\ call[current] = c
        BY ZenonT(30), <2>4, <2>5, <3>2, <4>2 DEF SYS_IPC_SESSION_SEND_LOCK, Iterates
      <4>4. id = i
        BY Zenon, <4>1, <4>3
      <4> QED
        BY Zenon, <2>1, <4>2, <4>3, <4>4 DEF HoldsLane, session_begin_send
    <3> QED
      BY Zenon, <2>2, <2>8, <3>1, <3>2 DEF SessionCall, SYS_IPC_SESSION_SEND_UNLOCK, SYS_IPC_SESSION_RECV, Quick
  <2> QED
    BY ZenonT(30), <1>1, <2>2, <2>7, <2>8 DEF KernelNext, Spawn, Push, SYS_YIELD, Exit, ExitInt, Tick, Revoke
<1> QED
  BY <1>1, KernelInvariance, PTL DEF KernelSpec, LockWaitEndsInTeardown

(* For any instance, a thread without a live token for a port neither      *)
(* changes the port nor starts to wait at it.                              *)
THEOREM UnauthorizedStaysInert == KernelSpec => UnauthorizedIsInert
<1> DEFINE Alone(p) == /\ queue'[p] = queue[p]
                       /\ send_lock'[p] = send_lock[p]
                       /\ Range(pending'[p]) \subseteq Range(pending[p])
                       /\ ~WaitsAt(call'[current], p)
           Inert == \A p \in Port :
                        /\ <<current, p>> \notin Grants \ revoked
                        /\ ~WaitsAt(call[current], p)
                        => /\ queue'[p] = queue[p]
                           /\ send_lock'[p] = send_lock[p]
                           /\ Range(pending'[p]) \subseteq Range(pending[p])
                           /\ ~WaitsAt(call'[current], p)
<1>1. ASSUME KernelInv, KernelNext
      PROVE  Inert
  <2> SUFFICES ASSUME NEW p \in Port, ~authorized_for_port(p), ~WaitsAt(call[current], p)
               PROVE  Alone(p)
    BY ZenonT(30) DEF authorized_for_port
  <2>1. /\ call \in [ThreadId -> Call] /\ current \in ThreadId /\ Range(zombies) \subseteq ThreadId
        /\ queue \in [Port -> Seq(ThreadId)] /\ send_lock \in [Port -> BOOLEAN]
        /\ pending \in [Port -> Seq(SessionId)]
    <3>1. zombies \in Seq(ThreadId)
      BY Zenon, <1>1 DEF KernelInv, SchedInv, SchedTypeOK
    <3> QED
      BY Zenon, <1>1, <3>1, RangeOfSeq DEF KernelInv, SchedInv, SchedTypeOK, PortsTyped, TablesInv, TablesTyped
  <2>2. ~WaitsAt(NoCall, p)
    BY Zenon DEF WaitsAt, NoCall
  <2>3. call' = call \/ call' = [call EXCEPT ![current] = NoCall] => ~WaitsAt(call'[current], p)
    BY Zenon, <2>1, <2>2
  <2>4. ASSUME reap_sessions_for(Range(zombies)), UNCHANGED portVars
        PROVE  ~WaitsAt(call'[current], p) => Alone(p)
    BY ZenonT(30), <1>1, <2>1, <2>4, ReapKeeps DEF KernelInv, portVars
  <2>5. ASSUME NEW c, Waits(c), ~WaitsAt(c, p)
        PROVE  Alone(p)
    <3>1. call'[current] = c
      BY Zenon, <2>1, <2>5 DEF Waits
    <3>2. reap_sessions_for(Range(zombies)) /\ UNCHANGED portVars
      BY Zenon, <2>5 DEF Waits, Switch
    <3> QED
      BY Zenon, <2>4, <2>5, <3>1, <3>2
  <2>6. CASE Spawn \/ Push \/ Exit \/ (\E token \in Revocable : Revoke(token))
    BY ZenonT(30), <2>3, <2>6 DEF Spawn, Push, Exit, Revoke, ipcVars
  <2>7. CASE SYS_YIELD \/ Tick \/ ExitInt
    BY Zenon, <2>3, <2>4, <2>7 DEF SYS_YIELD, Tick, ExitInt, Switch
  <2>8. ASSUME NEW q \in Port, PortCall(q)
        PROVE  Alone(p)
    <3>1. CASE SYS_IPC_SEND(q)
      <4> DEFINE c == [op |-> "SYS_IPC_SEND", arg |-> q]
      <4>1. q # p
        <5>1. call[current] = c \/ authorized_for_port(q)
          BY Zenon, <3>1 DEF SYS_IPC_SEND, Iterates
        <5>2. WaitsAt(c, q)
          BY Zenon DEF WaitsAt
        <5> QED
          BY Zenon, <5>1, <5>2
      <4>2. ~WaitsAt(c, p)
        BY Zenon, <4>1 DEF WaitsAt
      <4>3. CASE send(q, current) /\ UNCHANGED sessionVars /\ Returns
        BY Zenon, <2>1, <2>3, <4>1, <4>3 DEF send, sessionVars, Returns
      <4> QED
        BY ZenonT(30), <2>5, <3>1, <4>2, <4>3 DEF SYS_IPC_SEND
    <3>2. CASE SYS_IPC_SEND_LOCK(q)
      <4> DEFINE c == [op |-> "SYS_IPC_SEND_LOCK", arg |-> q]
      <4>1. q # p
        <5>1. call[current] = c \/ authorized_for_port(q)
          BY Zenon, <3>2 DEF SYS_IPC_SEND_LOCK, Iterates
        <5>2. WaitsAt(c, q)
          BY Zenon DEF WaitsAt
        <5> QED
          BY Zenon, <5>1, <5>2
      <4>2. ~WaitsAt(c, p)
        BY Zenon, <4>1 DEF WaitsAt
      <4>3. CASE begin_send(q) /\ UNCHANGED sessionVars /\ Returns
        BY ZenonT(30), <2>1, <2>3, <4>1, <4>3 DEF begin_send, sessionVars, Returns
      <4> QED
        BY ZenonT(30), <2>5, <3>2, <4>2, <4>3 DEF SYS_IPC_SEND_LOCK
    <3>3. CASE SYS_IPC_SEND_UNLOCK(q) \/ SYS_IPC_RECV(q)
      <4>1. q # p
        BY Zenon, <3>3 DEF SYS_IPC_SEND_UNLOCK, SYS_IPC_RECV
      <4> QED
        BY Zenon, <2>1, <2>3, <3>3, <4>1 DEF SYS_IPC_SEND_UNLOCK, SYS_IPC_RECV, end_send, try_recv, Quick, sessionVars
    <3>4. CASE SYS_IPC_SESSION_OPEN(q) \/ SYS_IPC_SESSION_ACCEPT(q)
      <4>1. q # p
        BY Zenon, <3>4 DEF SYS_IPC_SESSION_OPEN, SYS_IPC_SESSION_ACCEPT
      <4>2. pending'[p] = pending[p]
        BY Zenon, <2>1, <3>4, <4>1 DEF SYS_IPC_SESSION_OPEN, SYS_IPC_SESSION_ACCEPT, session_open, session_accept
      <4> QED
        BY Zenon, <2>3, <3>4, <4>2 DEF SYS_IPC_SESSION_OPEN, SYS_IPC_SESSION_ACCEPT, Quick, portVars
    <3> QED
      BY ZenonT(30), <2>8, <3>1, <3>2, <3>3, <3>4 DEF PortCall
  <2>9. ASSUME NEW id \in SessionId, SessionCall(id)
        PROVE  Alone(p)
    <3>1. /\ ~WaitsAt([op |-> "SYS_IPC_SESSION_SEND", arg |-> id], p)
          /\ ~WaitsAt([op |-> "SYS_IPC_SESSION_SEND_LOCK", arg |-> id], p)
      BY Zenon DEF WaitsAt
    <3>2. ASSUME UNCHANGED <<portVars, pending>>, call' = call \/ call' = [call EXCEPT ![current] = NoCall]
          PROVE  Alone(p)
      BY Zenon, <2>3, <3>2 DEF portVars
    <3>3. CASE SYS_IPC_SESSION_SEND(id)
      BY Zenon, <2>5, <3>1, <3>2, <3>3 DEF SYS_IPC_SESSION_SEND, session_send, Returns, ipcVars, portVars
    <3>4. CASE SYS_IPC_SESSION_SEND_LOCK(id)
      BY Zenon, <2>5, <3>1, <3>2, <3>4 DEF SYS_IPC_SESSION_SEND_LOCK, session_begin_send, Returns, ipcVars, portVars
    <3>5. CASE SYS_IPC_SESSION_SEND_UNLOCK(id) \/ SYS_IPC_SESSION_RECV(id)
      BY Zenon, <3>2, <3>5 DEF SYS_IPC_SESSION_SEND_UNLOCK, SYS_IPC_SESSION_RECV, session_end_send, session_try_recv, Quick
    <3> QED
      BY Zenon, <2>9, <3>3, <3>4, <3>5 DEF SessionCall
  <2> QED
    BY ZenonT(30), <1>1, <2>6, <2>7, <2>8, <2>9 DEF KernelNext
<1> QED
  BY <1>1, KernelInvariance, PTL DEF KernelSpec, UnauthorizedIsInert

(* What no syscall does to the ports and sessions of others, for any       *)
(* instance.                                                               *)
THEOREM SessionStepsHold == KernelSpec => SessionSteps
  BY Zenon, UnauthorizedStaysInert, ParticipantsStayFixed, LockWaitsEndInTeardown DEF SessionSteps

-----------------------------------------------------------------------------
(* A remainder is determined by any quotient that leaves it in range.      *)
LEMMA ModUnique ==
    ASSUME NEW n \in Nat, NEW q \in Nat, NEW r \in 0 .. MSG_LEN - 1, n = q * MSG_LEN + r
    PROVE  n % MSG_LEN = r
BY MessageAssumption, SMTT(30)

(* Every number is a whole number of messages and a remainder.             *)
LEMMA ModDiv ==
    ASSUME NEW n \in Nat
    PROVE  /\ n % MSG_LEN \in 0 .. MSG_LEN - 1
           /\ \E q \in Nat : n = q * MSG_LEN + (n % MSG_LEN)
<1>1. n = MSG_LEN * (n \div MSG_LEN) + (n % MSG_LEN)
    BY MessageAssumption
<1>2. n \div MSG_LEN \in Nat /\ n % MSG_LEN \in 0 .. MSG_LEN - 1
    BY MessageAssumption
<1>3. MSG_LEN * (n \div MSG_LEN) = (n \div MSG_LEN) * MSG_LEN
    BY <1>2, MessageAssumption
<1> QED
    BY Zenon, <1>1, <1>2, <1>3

(* The remainder of the next number.                                       *)
LEMMA ModNext ==
    ASSUME NEW n \in Nat
    PROVE  (n + 1) % MSG_LEN = IF n % MSG_LEN = MSG_LEN - 1 THEN 0 ELSE (n % MSG_LEN) + 1
<1>1. PICK q \in Nat : n = q * MSG_LEN + (n % MSG_LEN)
    BY Zenon, ModDiv
<1>2. n % MSG_LEN \in 0 .. MSG_LEN - 1
    BY Zenon, ModDiv
<1> DEFINE r == n % MSG_LEN
<1> HIDE DEF r
<1>3. CASE r = MSG_LEN - 1
    <2>1. n + 1 = (q + 1) * MSG_LEN + 0
        <3>1. n = q * MSG_LEN + (MSG_LEN - 1)
            BY Zenon, <1>1, <1>3 DEF r
        <3>2. q * MSG_LEN \in Int /\ (q + 1) * MSG_LEN = q * MSG_LEN + MSG_LEN
            BY MessageAssumption
        <3> QED
            BY <3>1, <3>2, MessageAssumption
    <2>2. 0 \in 0 .. MSG_LEN - 1 /\ q + 1 \in Nat /\ n + 1 \in Nat
        BY MessageAssumption
    <2>3. (n + 1) % MSG_LEN = 0
        BY Zenon, <2>1, <2>2, ModUnique
    <2> QED
        BY Zenon, <1>3, <2>3 DEF r
<1>4. CASE r # MSG_LEN - 1
    <2>1. n + 1 = q * MSG_LEN + (r + 1)
        <3>1. n = q * MSG_LEN + r /\ r \in Nat /\ q * MSG_LEN \in Int
            BY <1>1, <1>2, MessageAssumption DEF r
        <3> QED
            BY <3>1
    <2>2. r + 1 \in 0 .. MSG_LEN - 1 /\ n + 1 \in Nat
        BY <1>2, <1>4, MessageAssumption DEF r
    <2>3. (n + 1) % MSG_LEN = r + 1
        BY Zenon, <2>1, <2>2, ModUnique
    <2> QED
        BY Zenon, <1>4, <2>3 DEF r
<1> QED
    BY Zenon, <1>3, <1>4

(* MSG_LEN further on, the remainder is the same.                          *)
LEMMA ModShift ==
    ASSUME NEW n \in Nat
    PROVE  (n + MSG_LEN) % MSG_LEN = n % MSG_LEN
<1>1. PICK q \in Nat : n = q * MSG_LEN + (n % MSG_LEN)
    BY Zenon, ModDiv
<1>2. n % MSG_LEN \in 0 .. MSG_LEN - 1
    BY Zenon, ModDiv
<1> DEFINE r == n % MSG_LEN
<1> HIDE DEF r
<1>3. n + MSG_LEN = (q + 1) * MSG_LEN + r
    <2>1. n = q * MSG_LEN + r /\ r \in Nat
        BY <1>1, <1>2 DEF r
    <2>2. q * MSG_LEN \in Int /\ (q + 1) * MSG_LEN = q * MSG_LEN + MSG_LEN
        BY MessageAssumption
    <2> QED
        BY <2>1, <2>2, MessageAssumption
<1>4. n + MSG_LEN \in Nat /\ q + 1 \in Nat /\ r \in 0 .. MSG_LEN - 1
    BY <1>2, MessageAssumption DEF r
<1>5. (n + MSG_LEN) % MSG_LEN = r
    BY Zenon, <1>3, <1>4, ModUnique
<1> QED
    BY Zenon, <1>5 DEF r

-----------------------------------------------------------------------------
(* The inductive invariant.  To the kernel's own it adds what the lock is  *)
(* for: the port's lock is taken exactly while a sender holds it, one      *)
(* sender holds it, the others are between messages, and the stream has    *)
(* the bytes of whole messages and of what that sender has sent so far,    *)
(* the last of which is its own.                                           *)
LockIsHeld ==
    /\ holding \subseteq Sender
    /\ \A t, u \in holding : t = u
    /\ send_lock[TheChannel] <=> holding # {}

ClientsTyped ==
    /\ sent \in [ThreadId -> 0 .. MSG_LEN]
    /\ \A t \in ThreadId \ holding : sent[t] = 0
    /\ received \in Seq(Sender) /\ Len(received) < MSG_LEN
    /\ queue[TheChannel] \in Seq(Sender)

StreamMatches ==
    /\ holding = {} => Len(Stream) % MSG_LEN = 0
    /\ \A t \in holding : /\ Len(Stream) % MSG_LEN = sent[t] % MSG_LEN
                          /\ Len(Stream) % MSG_LEN # 0 => Stream[Len(Stream)] = t

MsgInv == KernelInv /\ LockIsHeld /\ ClientsTyped /\ MessagesContiguous /\ StreamMatches

-----------------------------------------------------------------------------
(* A send makes the stream one byte longer.                                *)
LEMMA StreamGrows ==
    ASSUME ClientsTyped, NEW t \in Sender,
           queue'[TheChannel] = Append(queue[TheChannel], t), UNCHANGED received
    PROVE  /\ Stream' \in Seq(Sender) /\ Len(Stream') = Len(Stream) + 1
           /\ \A i \in 1 .. Len(Stream) : Stream'[i] = Stream[i]
           /\ Stream'[Len(Stream) + 1] = t
BY DEF ClientsTyped, Stream

(* A byte received in the middle of a message moves from the channel to    *)
(* the receiver, and the stream is what it was.                            *)
LEMMA StreamMoves ==
    ASSUME ClientsTyped, queue[TheChannel] # <<>>,
           queue'[TheChannel] = Tail(queue[TheChannel]),
           received' = Append(received, Head(queue[TheChannel]))
    PROVE  Stream' = Stream
<1>1. /\ Head(queue[TheChannel]) \in Sender /\ Tail(queue[TheChannel]) \in Seq(Sender)
      /\ queue[TheChannel] = <<Head(queue[TheChannel])>> \o Tail(queue[TheChannel])
      /\ <<Head(queue[TheChannel])>> \in Seq(Sender) /\ received \in Seq(Sender)
    BY HeadTailProperties DEF ClientsTyped
<1>2. ASSUME NEW r \in Seq(Sender), NEW h \in Sender, NEW q \in Seq(Sender)
      PROVE  Append(r, h) \o q = r \o (<<h>> \o q)
    <2>1. <<h>> \in Seq(Sender)
        OBVIOUS
    <2>2. Append(r, h) = r \o <<h>>
        BY Zenon, AppendIsConcat
    <2>3. (r \o <<h>>) \o q = r \o (<<h>> \o q)
        BY <2>1, ConcatAssociative
    <2> QED
        BY Zenon, <2>2, <2>3
<1>3. Append(received, Head(queue[TheChannel])) \o Tail(queue[TheChannel])
         = received \o (<<Head(queue[TheChannel])>> \o Tail(queue[TheChannel]))
    BY <1>1, <1>2, Zenon
<1> QED
    BY <1>1, <1>3, Zenon DEF Stream

(* The last byte of a message: the stream loses its first MSG_LEN bytes.   *)
LEMMA StreamDrops ==
    ASSUME ClientsTyped, queue[TheChannel] # <<>>, Len(received) + 1 = MSG_LEN,
           queue'[TheChannel] = Tail(queue[TheChannel]), received' = <<>>
    PROVE  /\ Len(Stream) >= MSG_LEN /\ Len(Stream') = Len(Stream) - MSG_LEN
           /\ \A i \in 1 .. Len(Stream') : Stream'[i] = Stream[i + MSG_LEN]
<1>1. /\ Tail(queue[TheChannel]) \in Seq(Sender)
      /\ Len(Tail(queue[TheChannel])) = Len(queue[TheChannel]) - 1
      /\ Len(queue[TheChannel]) >= 1
      /\ \A i \in 1 .. Len(queue[TheChannel]) - 1 :
            Tail(queue[TheChannel])[i] = queue[TheChannel][i + 1]
    BY HeadTailProperties DEF ClientsTyped
<1>2. Stream' = Tail(queue[TheChannel])
    BY <1>1 DEF Stream
<1>3. /\ Len(Stream) = Len(received) + Len(queue[TheChannel])
      /\ \A i \in 1 .. Len(queue[TheChannel]) :
            Stream[Len(received) + i] = queue[TheChannel][i]
    BY DEF Stream, ClientsTyped
<1>4. Len(Stream) >= MSG_LEN /\ Len(Stream') = Len(Stream) - MSG_LEN
    <2>1. Len(received) \in Nat /\ Len(queue[TheChannel]) \in Nat
        BY DEF ClientsTyped
    <2>4. Len(queue[TheChannel]) >= 1 /\ Len(Stream) = Len(received) + Len(queue[TheChannel])
        BY Zenon, <1>1, <1>3
    <2>2. Len(Stream') = Len(queue[TheChannel]) - 1
        BY Zenon, <1>1, <1>2
    <2>3. ASSUME NEW a \in Nat, NEW b \in Nat, b >= 1, a + 1 = MSG_LEN
          PROVE  a + b >= MSG_LEN /\ b - 1 = (a + b) - MSG_LEN
        BY <2>3
    <2> QED
        BY <2>1, <2>2, <2>3, <2>4, Zenon
<1>5. ASSUME NEW i \in 1 .. Len(Stream')
      PROVE  Stream'[i] = Stream[i + MSG_LEN]
    <2>0. Len(Stream') = Len(queue[TheChannel]) - 1 /\ Len(queue[TheChannel]) \in Nat
        BY <1>1, <1>2 DEF ClientsTyped
    <2>1. i + 1 \in 1 .. Len(queue[TheChannel]) /\ i \in 1 .. Len(queue[TheChannel]) - 1
        BY <2>0
    <2>2. Len(received) + (i + 1) = i + MSG_LEN
        BY <2>1, MessageAssumption DEF ClientsTyped
    <2> QED
        BY Zenon, <1>1, <1>2, <1>3, <2>1, <2>2
<1> QED
    BY Zenon, <1>4, <1>5

-----------------------------------------------------------------------------
(* A step that touches neither the port, the clients nor the lock keeps    *)
(* their part of the invariant.                                            *)
LEMMA QuietStep ==
    ASSUME LockIsHeld, ClientsTyped, MessagesContiguous, StreamMatches,
           UNCHANGED <<portVars, holding, sent, received>>
    PROVE  LockIsHeld' /\ ClientsTyped' /\ MessagesContiguous' /\ StreamMatches'
BY Zenon DEF LockIsHeld, ClientsTyped, MessagesContiguous, StreamMatches, Stream, portVars

(* Whether an iteration of a blocking call returned or waits can be read   *)
(* off call'.                                                              *)
LEMMA CallTells ==
    ASSUME KernelInv
    PROVE  /\ Returns => call'[current] = NoCall
           /\ \A port : Waits([op |-> "SYS_IPC_SEND", arg |-> port]) => call'[current] # NoCall
           /\ \A port : Waits([op |-> "SYS_IPC_SEND_LOCK", arg |-> port]) => call'[current] # NoCall
           /\ current \in ThreadId
<1>1. call \in [ThreadId -> Call] /\ current \in ThreadId
    BY Zenon DEF KernelInv, SchedInv, SchedTypeOK
<1>2. \A c : [call EXCEPT ![current] = c][current] = c
    BY Zenon, <1>1
<1>3. \A port : /\ [op |-> "SYS_IPC_SEND", arg |-> port] # NoCall
                /\ [op |-> "SYS_IPC_SEND_LOCK", arg |-> port] # NoCall
    <2>1. \A port : /\ [op |-> "SYS_IPC_SEND", arg |-> port].op = "SYS_IPC_SEND"
                    /\ [op |-> "SYS_IPC_SEND_LOCK", arg |-> port].op = "SYS_IPC_SEND_LOCK"
                    /\ NoCall.op = "none"
        BY Zenon DEF NoCall
    <2> QED
        BY Zenon, <2>1
<1> QED
    BY <1>1, <1>2, <1>3 DEF Returns, Waits

(* The lock is claimed by a thread that is between messages, while nobody  *)
(* holds it.                                                               *)
LEMMA SenderLockKeeps ==
    ASSUME MsgInv, SenderLock
    PROVE  LockIsHeld' /\ ClientsTyped' /\ MessagesContiguous' /\ StreamMatches'
<1> USE DEF MsgInv
<1>1. CASE begin_send(TheChannel) /\ Returns
    <2>1. /\ holding = {} /\ holding' = {current} /\ current \in Sender /\ current \in ThreadId
          /\ send_lock' = [send_lock EXCEPT ![TheChannel] = TRUE]
          /\ UNCHANGED <<queue, sent, received>>
        BY Zenon, <1>1, CallTells DEF begin_send, SenderLock, LockIsHeld
    <2>2. send_lock'[TheChannel]
        BY Zenon, <2>1, MessageAssumption DEF KernelInv, PortsTyped
    <2>3. LockIsHeld'
        BY Zenon, <2>1, <2>2 DEF LockIsHeld
    <2>4. Stream' = Stream
        BY Zenon, <2>1 DEF Stream
    <2>5. sent[current] = 0 /\ 0 % MSG_LEN = 0 /\ Len(Stream) % MSG_LEN = 0
        BY <2>1, MessageAssumption DEF ClientsTyped, StreamMatches
    <2> QED
        BY Zenon, <2>1, <2>3, <2>4, <2>5 DEF ClientsTyped, MessagesContiguous, StreamMatches
<1>2. CASE Waits([op |-> "SYS_IPC_SEND_LOCK", arg |-> TheChannel])
    <2>1. UNCHANGED <<portVars, holding, sent, received>>
        BY Zenon, <1>2, CallTells DEF SenderLock, Waits, Switch
    <2> QED
        BY Zenon, <2>1, QuietStep
<1> QED
    BY Zenon, <1>1, <1>2 DEF SenderLock, SYS_IPC_SEND_LOCK

(* A byte sent is the holder's, and follows the holder's own or a whole    *)
(* number of messages.                                                     *)
LEMMA SenderSendKeeps ==
    ASSUME MsgInv, SenderSend
    PROVE  LockIsHeld' /\ ClientsTyped' /\ MessagesContiguous' /\ StreamMatches'
<1> USE DEF MsgInv
<1>1. CASE send(TheChannel, current) /\ Returns
    <2>1. /\ current \in holding /\ current \in Sender /\ current \in ThreadId
          /\ queue' = [queue EXCEPT ![TheChannel] = Append(@, current)]
          /\ sent' = [sent EXCEPT ![current] = @ + 1] /\ sent[current] < MSG_LEN
          /\ UNCHANGED <<send_lock, holding, received>>
        BY Zenon, <1>1, CallTells DEF send, SenderSend, LockIsHeld
    <2>2. queue'[TheChannel] = Append(queue[TheChannel], current)
        BY Zenon, <2>1, MessageAssumption DEF KernelInv, PortsTyped
    <2>3. /\ Stream' \in Seq(Sender) /\ Len(Stream') = Len(Stream) + 1
          /\ \A i \in 1 .. Len(Stream) : Stream'[i] = Stream[i]
          /\ Stream'[Len(Stream) + 1] = current
        BY Zenon, <2>1, <2>2, StreamGrows
    <2>4. LockIsHeld'
        BY Zenon, <2>1 DEF LockIsHeld
    <2>5. sent \in [ThreadId -> 0 .. MSG_LEN] /\ sent[current] \in 0 .. MSG_LEN - 1
        BY <2>1, MessageAssumption DEF ClientsTyped
    <2>6. ClientsTyped'
        <3>1. sent' \in [ThreadId -> 0 .. MSG_LEN]
            BY <2>1, <2>5, MessageAssumption
        <3>2. \A t \in ThreadId \ holding' : sent'[t] = 0
            BY Zenon, <2>1, <2>5 DEF ClientsTyped
        <3>3. queue'[TheChannel] \in Seq(Sender)
            BY <2>1, <2>2 DEF ClientsTyped
        <3> QED
            BY Zenon, <2>1, <3>1, <3>2, <3>3 DEF ClientsTyped
    <2>7. Stream \in Seq(Sender) /\ Len(Stream) \in Nat
        BY DEF ClientsTyped, Stream
    <2>8. /\ Len(Stream) % MSG_LEN = sent[current] % MSG_LEN
          /\ Len(Stream) % MSG_LEN # 0 => Stream[Len(Stream)] = current
        BY Zenon, <2>1 DEF StreamMatches
    <2>9. MessagesContiguous'
        <3> SUFFICES ASSUME NEW i \in 1 .. Len(Stream), Stream'[i] # Stream'[i + 1]
                     PROVE  i % MSG_LEN = 0
            BY <2>3, <2>7 DEF MessagesContiguous
        <3>1. CASE i = Len(Stream)
            BY Zenon, <2>3, <2>7, <2>8, <3>1
        <3>2. CASE i < Len(Stream)
            <4>1. i + 1 \in 1 .. Len(Stream) /\ i \in 1 .. Len(Stream) - 1
                BY <2>7, <3>2
            <4>2. Stream[i] # Stream[i + 1]
                BY Zenon, <2>3, <4>1
            <4> QED
                BY Zenon, <4>1, <4>2 DEF MessagesContiguous
        <3> QED
            BY <2>7, <3>1, <3>2
    <2>10. (Len(Stream) + 1) % MSG_LEN = (sent[current] + 1) % MSG_LEN
        <3>1. sent[current] \in Nat
            BY <2>5
        <3> QED
            BY Zenon, <2>7, <2>8, <3>1, ModNext
    <2>11. sent'[current] = sent[current] + 1
        BY Zenon, <2>1, <2>5
    <2>12. \A t \in holding' : t = current
        BY Zenon, <2>1 DEF LockIsHeld
    <2>13. StreamMatches'
        BY ZenonT(30), <2>1, <2>3, <2>10, <2>11, <2>12 DEF StreamMatches
    <2> QED
        BY Zenon, <2>4, <2>6, <2>9, <2>13
<1>2. CASE Waits([op |-> "SYS_IPC_SEND", arg |-> TheChannel])
    <2>1. UNCHANGED <<portVars, holding, sent, received>>
        BY Zenon, <1>2, CallTells DEF SenderSend, Waits, Switch
    <2> QED
        BY Zenon, <2>1, QuietStep
<1> QED
    BY Zenon, <1>1, <1>2 DEF SenderSend, SYS_IPC_SEND

(* The lock is released by its holder, after a whole message.              *)
LEMMA SenderUnlockKeeps ==
    ASSUME MsgInv, SenderUnlock
    PROVE  LockIsHeld' /\ ClientsTyped' /\ MessagesContiguous' /\ StreamMatches'
<1> USE DEF MsgInv
<1>1. /\ current \in holding /\ holding' = holding \ {current}
      /\ send_lock' = [send_lock EXCEPT ![TheChannel] = FALSE]
      /\ sent' = [sent EXCEPT ![current] = 0] /\ sent[current] = MSG_LEN
      /\ UNCHANGED <<queue, received>>
    BY Zenon DEF SenderUnlock, SYS_IPC_SEND_UNLOCK, end_send
<1>2. holding' = {}
    BY Zenon, <1>1 DEF LockIsHeld
<1>3. ~send_lock'[TheChannel]
    BY Zenon, <1>1, MessageAssumption DEF KernelInv, PortsTyped
<1>4. LockIsHeld'
    BY Zenon, <1>2, <1>3 DEF LockIsHeld
<1>5. ClientsTyped'
    <2>1. sent' \in [ThreadId -> 0 .. MSG_LEN]
        <3>1. sent \in [ThreadId -> 0 .. MSG_LEN]
            BY Zenon DEF ClientsTyped
        <3>2. 0 \in 0 .. MSG_LEN
            BY MessageAssumption
        <3> QED
            BY Zenon, <1>1, <3>1, <3>2
    <2>2. \A t \in ThreadId : sent'[t] = 0
        <3>1. \A t \in ThreadId \ {current} : sent[t] = 0 /\ sent'[t] = sent[t]
            BY Zenon, <1>1, <1>2 DEF ClientsTyped
        <3>2. sent'[current] = 0
            BY Zenon, <1>1, CallTells DEF ClientsTyped
        <3> QED
            BY <3>1, <3>2
    <2> QED
        BY Zenon, <1>1, <2>1, <2>2 DEF ClientsTyped
<1>6. Stream' = Stream
    BY Zenon, <1>1 DEF Stream
<1>7. Len(Stream) % MSG_LEN = 0
    <2>1. MSG_LEN % MSG_LEN = 0
        BY MessageAssumption
    <2> QED
        BY Zenon, <1>1, <2>1 DEF StreamMatches
<1> QED
    BY Zenon, <1>2, <1>4, <1>5, <1>6, <1>7 DEF MessagesContiguous, StreamMatches

(* The receiver takes a byte: the stream stays, or loses one message.      *)
LEMMA ReceiverKeeps ==
    ASSUME MsgInv, ReceiverStep
    PROVE  LockIsHeld' /\ ClientsTyped' /\ MessagesContiguous' /\ StreamMatches'
<1> USE DEF MsgInv
<1>1. /\ queue[TheChannel] # <<>>
      /\ queue' = [queue EXCEPT ![TheChannel] = Tail(@)]
      /\ received' = IF Len(received) + 1 = MSG_LEN THEN <<>>
                     ELSE Append(received, Head(queue[TheChannel]))
      /\ UNCHANGED <<send_lock, holding, sent>>
    BY Zenon DEF ReceiverStep, SYS_IPC_RECV, try_recv
<1>2. queue'[TheChannel] = Tail(queue[TheChannel])
    BY Zenon, <1>1, MessageAssumption DEF KernelInv, PortsTyped
<1>3. LockIsHeld'
    BY Zenon, <1>1 DEF LockIsHeld
<1>4. ClientsTyped'
    <2>1. /\ Head(queue[TheChannel]) \in Sender /\ Tail(queue[TheChannel]) \in Seq(Sender)
          /\ received \in Seq(Sender) /\ Len(received) < MSG_LEN
        BY Zenon, <1>1, HeadTailProperties DEF ClientsTyped
    <2>2. received' \in Seq(Sender) /\ Len(received') < MSG_LEN
        <3>1. CASE Len(received) + 1 = MSG_LEN
            BY <1>1, <3>1, MessageAssumption
        <3>2. CASE Len(received) + 1 # MSG_LEN
            BY <1>1, <2>1, <3>2, MessageAssumption
        <3> QED
            BY Zenon, <3>1, <3>2
    <2> QED
        BY Zenon, <1>1, <1>2, <2>1, <2>2 DEF ClientsTyped
<1>5. CASE Len(received) + 1 # MSG_LEN
    <2>1. Stream' = Stream
        BY Zenon, <1>1, <1>2, <1>5, StreamMoves
    <2> QED
        BY Zenon, <1>1, <1>3, <1>4, <2>1 DEF MessagesContiguous, StreamMatches
<1>6. CASE Len(received) + 1 = MSG_LEN
    <2>1. /\ Len(Stream) >= MSG_LEN /\ Len(Stream') = Len(Stream) - MSG_LEN
          /\ \A i \in 1 .. Len(Stream') : Stream'[i] = Stream[i + MSG_LEN]
        BY Zenon, <1>1, <1>2, <1>6, StreamDrops
    <2>2. Len(Stream) \in Nat /\ MSG_LEN \in Nat \ {0}
        BY MessageAssumption DEF ClientsTyped, Stream
    <2>3. Len(Stream') \in Nat /\ Len(Stream') + MSG_LEN = Len(Stream)
        BY <2>1, <2>2
    <2>4. Len(Stream') % MSG_LEN = Len(Stream) % MSG_LEN
        BY Zenon, <2>3, ModShift
    <2>5. MessagesContiguous'
        <3> SUFFICES ASSUME NEW i \in 1 .. Len(Stream') - 1, Stream'[i] # Stream'[i + 1]
                     PROVE  i % MSG_LEN = 0
            BY Zenon DEF MessagesContiguous
        <3>1. /\ i \in Nat /\ i \in 1 .. Len(Stream') /\ i + 1 \in 1 .. Len(Stream')
              /\ (i + 1) + MSG_LEN = (i + MSG_LEN) + 1
              /\ i + MSG_LEN \in 1 .. Len(Stream) - 1
            BY <2>2, <2>3
        <3>2. Stream[i + MSG_LEN] # Stream[(i + MSG_LEN) + 1]
            BY Zenon, <2>1, <3>1
        <3>3. (i + MSG_LEN) % MSG_LEN = 0
            BY Zenon, <3>1, <3>2 DEF MessagesContiguous
        <3> QED
            BY Zenon, <3>1, <3>3, ModShift
    <2>6. Len(Stream') % MSG_LEN # 0 => Stream'[Len(Stream')] = Stream[Len(Stream)]
        <3>1. Len(Stream') % MSG_LEN # 0 => Len(Stream') \in 1 .. Len(Stream')
            BY <2>2, <2>3
        <3> QED
            BY Zenon, <2>1, <2>3, <3>1
    <2> QED
        BY Zenon, <1>1, <1>3, <1>4, <2>4, <2>5, <2>6 DEF StreamMatches
<1> QED
    BY Zenon, <1>5, <1>6

-----------------------------------------------------------------------------
(* The clients add to the kernel's steps, and change none of them.         *)
LEMMA MsgStepIsKernels == [MsgNext]_msgVars => [KernelNext]_kernelVars
<1> SUFFICES ASSUME [MsgNext]_msgVars PROVE [KernelNext]_kernelVars
    BY Zenon
<1>1. CASE UNCHANGED msgVars
    BY Zenon, <1>1 DEF msgVars
<1>2. CASE SenderStep \/ ReceiverStep
    <2>1. PortCall(TheChannel) /\ UNCHANGED workload
        BY Zenon, <1>2 DEF SenderStep, SenderLock, SenderSend, SenderUnlock, ReceiverStep, PortCall
    <2> QED
        BY Zenon, <2>1, MessageAssumption DEF KernelNext
<1>3. CASE OtherStep
    BY Zenon, <1>3 DEF OtherStep, KernelNext
<1> QED
    BY Zenon, <1>1, <1>2, <1>3 DEF MsgNext

(* Nothing has been sent, and nobody holds the lock.                       *)
LEMMA MsgInvInit == MsgInit => MsgInv
<1> SUFFICES ASSUME MsgInit PROVE MsgInv
    BY Zenon
<1>1. KernelInv
    BY Zenon, KernelInvInit DEF MsgInit
<1>2. /\ holding = {} /\ sent = [t \in ThreadId |-> 0] /\ received = <<>>
      /\ queue[TheChannel] = <<>> /\ ~send_lock[TheChannel]
    BY Zenon, MessageAssumption DEF MsgInit, KernelInit, IpcInit
<1>3. LockIsHeld
    BY Zenon, <1>2 DEF LockIsHeld
<1>4. ClientsTyped
    BY <1>2, MessageAssumption DEF ClientsTyped
<1>5. Stream = <<>> /\ Len(Stream) = 0 /\ 0 % MSG_LEN = 0
    BY <1>2, MessageAssumption DEF Stream
<1>6. MessagesContiguous
    BY <1>5 DEF MessagesContiguous
<1>7. StreamMatches
    BY Zenon, <1>2, <1>5 DEF StreamMatches
<1> QED
    BY Zenon, <1>1, <1>3, <1>4, <1>6, <1>7 DEF MsgInv

(* Every step of the clients and of the kernel keeps the invariant.        *)
LEMMA MsgInvNext == MsgInv /\ [MsgNext]_msgVars => MsgInv'
<1> SUFFICES ASSUME MsgInv, [MsgNext]_msgVars PROVE MsgInv'
    BY Zenon
<1>1. KernelInv'
    BY Zenon, KernelInvNext, MsgStepIsKernels DEF MsgInv
<1>2. CASE SenderStep
    BY Zenon, <1>1, <1>2, SenderLockKeeps, SenderSendKeeps, SenderUnlockKeeps DEF SenderStep, MsgInv
<1>3. CASE ReceiverStep
    BY Zenon, <1>1, <1>3, ReceiverKeeps DEF MsgInv
<1>4. CASE OtherStep
    <2>1. UNCHANGED <<portVars, holding, sent, received>>
        BY Zenon, <1>4 DEF OtherStep, Spawn, Push, SYS_YIELD, Exit, ExitInt, Tick, Revoke, Switch,
                    portVars, ipcVars
    <2> QED
        BY Zenon, <1>1, <2>1, QuietStep DEF MsgInv
<1>5. CASE UNCHANGED msgVars
    <2>1. UNCHANGED <<portVars, holding, sent, received>>
        BY Zenon, <1>5 DEF msgVars, kernelVars, ipcVars, portVars
    <2> QED
        BY Zenon, <1>1, <2>1, QuietStep DEF MsgInv
<1> QED
    BY Zenon, <1>2, <1>3, <1>4, <1>5 DEF MsgNext

(* For any number of senders, any message length and any capacity of the   *)
(* channel, whatever is preempted, blocked, revoked or reaped in between:  *)
(* at most one sender holds the port's lock, and the stream consists of    *)
(* whole messages and of what that sender has sent of its own.             *)
THEOREM MsgInvariance == MsgSpec => []MsgInv
  BY MsgInvInit, MsgInvNext, PTL DEF MsgSpec

(* Messages sent under the discipline begin_send's comment asks for never  *)
(* interleave: SYS_IPC_SEND_LOCK, the blocking SYS_IPC_SEND and            *)
(* SYS_IPC_SEND_UNLOCK keep each MSG_LEN bytes together.                   *)
THEOREM MessagesStayWhole == MsgSpec => []MessagesWhole
<1>1. MsgInv => MessagesWhole
    <2> SUFFICES ASSUME MsgInv PROVE MessagesWhole
        BY Zenon
    <2>1. KernelTypeOK
        BY Zenon DEF MsgInv, KernelInv, SchedInv, PortsTyped, TablesInv, TablesTyped, SessionTyped,
               KernelTypeOK
    <2> QED
        BY Zenon, <2>1 DEF MsgInv, LockIsHeld, ClientsTyped, MsgTypeOK, MessagesWhole
<1> QED
    BY <1>1, MsgInvariance, PTL
=============================================================================
