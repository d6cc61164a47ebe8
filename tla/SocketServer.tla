---------------------------- MODULE SocketServer ----------------------------
(***************************************************************************)
(* net-driver-host's sockets surface: run_socket_ipc_server of             *)
(* net-driver-host/src/main.rs, which serves up to MAX_SOCKETS sessions,   *)
(* one TCP socket each, in one polling loop.                               *)
(*                                                                         *)
(* The kernel's part is module Kernel's: a session is two bounded lanes,   *)
(* and a send to a full lane waits there.  smoltcp and the peer beyond it  *)
(* are the actions of the last section; a socket is a record of slots.     *)
(***************************************************************************)
EXTENDS Wire, FiniteSets

CONSTANTS
    Session,                \* the sessions the kernel hands out, in order: 1 .. n
    SESSION_CHANNEL_CAPACITY,
    CONNECT_TIMEOUT_ITERATIONS,
    TCP_BUFFER,             \* bytes a socket holds in each direction
    PeerReplies,            \* the byte strings the peer may answer with
    MAX_FAULTS              \* bound on resets, refused connects, budgets run out

VARIABLES
    accepting,              \* sessions opened and not yet accepted
    up, down,               \* [Session -> the lane to the server, to the owner]
    server,                 \* the loop: a response being sent, and its four tables
    replied,                \* history: [Session -> the peer's answer, or <<>>]
    faults                  \* history: how many so far

sockVars == <<accepting, up, down, server, replied, faults>>

Slot == 0 .. MAX_SOCKETS - 1
NoSession == 0
NoSocket == [st |-> "none", out |-> <<>>, heard |-> <<>>, wire |-> <<>>, in |-> <<>>]
NewSocket == [NoSocket EXCEPT !.st = "Closed"]
is_open(k) == k.st \notin {"none", "Closed"}
NotPending == 0             \* pending_connect_since is None; otherwise 1 + the passes since, which wraps

Room(lane) == SESSION_CHANNEL_CAPACITY - Len(lane)
Least(a, b) == IF a <= b THEN a ELSE b
Take(s, n) == SubSeq(s, 1, n)

SockInit ==
    /\ accepting = <<>>
    /\ up = [s \in Session |-> <<>>]
    /\ down = [s \in Session |-> <<>>]
    /\ server = [on |-> TRUE, to |-> NoSession, out |-> <<>>,
                 live |-> [i \in Slot |-> NoSession], slots |-> [i \in Slot |-> NoSocket],
                 bufs |-> [i \in Slot |-> <<>>], since |-> [i \in Slot |-> NotPending]]
    /\ replied = [s \in Session |-> <<>>]
    /\ faults = 0

-----------------------------------------------------------------------------
(* The loop.  A pass settles the pending connects, accepts at most one     *)
(* session and takes at most one byte from each session.  Steps for        *)
(* different slots touch different state, so their order inside a pass is  *)
(* left open; a response being sent holds up all of them.                  *)

Free == server.on /\ server.out = <<>>

(* send_session_response: the bytes the lane has room for go out at once;  *)
(* the rest wait in session_send (Flush).                                  *)
Becoming(s) == server' = s /\ UNCHANGED down
Answering(s, session, response) ==
    LET bytes == SocketEncode(response)
        n == Least(Room(down[session]), Len(bytes))
    IN  /\ down' = [down EXCEPT ![session] = @ \o Take(bytes, n)]
        /\ server' = [s EXCEPT !.to = IF n = Len(bytes) THEN NoSession ELSE session, !.out = After(bytes, n)]

Flush ==
    LET n == Least(Room(down[server.to]), Len(server.out))
    IN  /\ server.on /\ server.out # <<>> /\ n > 0
        /\ down' = [down EXCEPT ![server.to] = @ \o Take(server.out, n)]
        /\ server' = [server EXCEPT !.out = After(@, n), !.to = IF n = Len(server.out) THEN NoSession ELSE @]
        /\ UNCHANGED <<accepting, up, replied, faults>>

(* Why a connect that is not Established is given up.                      *)
connect_over_waits(k, age) == k.st = "Closed"
connect_over(k, age) == k.st = "Closed" \/ age > CONNECT_TIMEOUT_ITERATIONS

settle(i) ==
    /\ Free /\ server.since[i] # NotPending
    /\ LET k == server.slots[i]
           done == [server EXCEPT !.since[i] = NotPending]
       IN  IF k = NoSocket \/ server.live[i] = NoSession THEN Becoming(done)
           ELSE IF k.st = "Established" THEN Answering(done, server.live[i], Connected(i))
           ELSE IF connect_over(k, server.since[i] - 1)
           THEN Answering(done, server.live[i], ConnectFailed(i, ConnectFailedErr))
           ELSE Becoming([server EXCEPT !.since[i] = 1 + (@ % (CONNECT_TIMEOUT_ITERATIONS + 2))])
    /\ UNCHANGED <<accepting, up, replied, faults>>

(* At most one new session a pass, into the first slot without one.        *)
session_accept ==
    LET free == {i \in Slot : server.live[i] = NoSession}
    IN  /\ Free /\ free # {} /\ accepting # <<>>
        /\ server' = [server EXCEPT !.live[CHOOSE i \in free : \A j \in free : i <= j] = Head(accepting)]
        /\ accepting' = Tail(accepting)
        /\ UNCHANGED <<up, down, replied, faults>>

(* pin_to_own_session: a request is about its own slot, whatever handle it *)
(* named.                                                                  *)
pin_to_own_session(r, i) == IF r = OpenSocket THEN r ELSE [r EXCEPT !.body[1] = i]

(* handle_socket_request, one operator per request: what slot i holds      *)
(* afterwards, and the answer.  k is what it held.                         *)
Result(k, answer) == [socket |-> k, answer |-> answer]
Pending == [tag |-> 9, body |-> <<>>]

handle_open(k, i) ==
    IF k # NoSocket THEN Result(k, OpenFailed(TooManyOpen)) ELSE Result(NewSocket, Opened(i))

(* taken: smoltcp takes the connect.                                       *)
handle_connect(k, i, taken) ==
    IF k = NoSocket THEN Result(k, ConnectFailed(i, InvalidHandle))
    ELSE IF is_open(k) THEN Result(k, ConnectFailed(i, AlreadyOpen))
    ELSE IF ~taken THEN Result(k, ConnectFailed(i, ConnectFailedErr))
    ELSE Result([k EXCEPT !.st = "SynSent"], Pending)

(* A socket still connecting takes no data; an established one takes what  *)
(* its buffer has room for.                                                *)
handle_send(k, i, data) ==
    IF k = NoSocket THEN Result(k, SendFailed(i, InvalidHandle))
    ELSE IF ~is_open(k) THEN Result(k, SendFailed(i, NotOpen))
    ELSE IF k.st = "SynSent" THEN Result(k, SendFailed(i, InvalidLength))
    ELSE LET n == Least(Len(data), TCP_BUFFER - Len(k.out))
         IN  Result([k EXCEPT !.out = @ \o Take(data, n)], Sent(i, n))

handle_recv(k, i, max_len) ==
    IF k = NoSocket THEN Result(k, Error(i, InvalidHandle))
    ELSE IF ~is_open(k) THEN Result(k, Error(i, NotOpen))
    ELSE LET n == Least(Least(max_len, MAX_PAYLOAD_LEN), Len(k.in))
         IN  Result([k EXCEPT !.in = After(@, n)], DataIs(i, Take(k.in, n)))

handle_close_keeps(k, i) == Result(k, Closed(i))
handle_close(k, i) == Result(NoSocket, Closed(i))

handle_socket_request(r, k, i, taken) ==
    CASE r.tag = 0 -> handle_connect(k, i, taken)
      [] r.tag = 1 -> handle_send(k, i, After(r.body, 2))
      [] r.tag = 2 -> handle_recv(k, i, r.body[2])
      [] r.tag = 3 -> handle_close(k, i)
      [] r.tag = 4 -> handle_open(k, i)

(* A step that may be a fault.                                             *)
Faulty(it) ==
    IF it THEN faults < MAX_FAULTS /\ faults' = faults + 1 ELSE UNCHANGED faults

(* A byte from slot i's session, unless its connect is pending; once the   *)
(* buffer holds a request, the request and, after a Close, the slot's      *)
(* release.                                                                *)
serve(i) ==
    LET session == server.live[i]
        buf == Append(server.bufs[i], Head(up[session]))
        d == Request_decode(buf)
    IN  /\ Free /\ session # NoSession /\ server.since[i] = NotPending /\ up[session] # <<>>
        /\ up' = [up EXCEPT ![session] = Tail(@)]
        /\ \/ d = None /\ Becoming([server EXCEPT !.bufs[i] = buf]) /\ UNCHANGED faults
           \/ /\ d # None
              /\ \E taken \in BOOLEAN :
                    /\ ~taken => Value(d).tag = 0
                    /\ Faulty(~taken)
                    /\ LET r == pin_to_own_session(Value(d), i)
                           h == handle_socket_request(r, server.slots[i], i, taken)
                           s == [server EXCEPT !.bufs[i] = After(buf, Consumed(d)),
                                     !.slots[i] = h.socket,
                                     !.live[i] = IF r.tag = 3 THEN NoSession ELSE @]
                       IN  IF h.answer = Pending THEN Becoming([s EXCEPT !.since[i] = 1])
                           ELSE Answering(s, session, h.answer)
        /\ UNCHANGED <<accepting, replied>>

(* The loop's iteration bound is reached; nobody serves the port again.    *)
Over ==
    /\ Free
    /\ server' = [server EXCEPT !.on = FALSE]
    /\ Faulty(TRUE)
    /\ UNCHANGED <<accepting, up, down, replied>>

(* The loop has something to do.                                           *)
LoopCanMove ==
    \/ server.on /\ server.out # <<>> /\ Room(down[server.to]) > 0
    \/ /\ Free
       /\ \E i \in Slot :
            \/ server.since[i] # NotPending
            \/ server.live[i] = NoSession /\ accepting # <<>>
            \/ server.live[i] # NoSession /\ up[server.live[i]] # <<>>

SockLoop == Flush \/ session_accept \/ \E i \in Slot : settle(i) \/ serve(i)

-----------------------------------------------------------------------------
(* smoltcp's side of a socket, advanced by iface.poll, and the peer's.     *)

Net(i, k) ==
    /\ server.on
    /\ server' = [server EXCEPT !.slots[i] = k]
    /\ UNCHANGED <<accepting, up, down>>

Establish(i) ==
    /\ server.slots[i].st = "SynSent"
    /\ Net(i, [server.slots[i] EXCEPT !.st = "Established"]) /\ UNCHANGED <<replied, faults>>

(* The peer refuses the connection, or resets it.                          *)
Reset(i) ==
    /\ is_open(server.slots[i])
    /\ Net(i, [server.slots[i] EXCEPT !.st = "Closed", !.wire = <<>>]) /\ Faulty(TRUE) /\ UNCHANGED replied

(* What the socket holds is transmitted.                                   *)
Transmit(i) ==
    /\ server.slots[i].st = "Established" /\ server.slots[i].out # <<>>
    /\ Net(i, [server.slots[i] EXCEPT !.heard = @ \o server.slots[i].out, !.out = <<>>])
    /\ UNCHANGED <<replied, faults>>

(* The peer answers once it has heard a whole MarshalRequest.              *)
PeerAnswers(i) ==
    /\ server.slots[i].st = "Established" /\ server.live[i] # NoSession
    /\ MarshalRequest_decode(server.slots[i].heard) # None /\ replied[server.live[i]] = <<>>
    /\ \E bytes \in PeerReplies :
        /\ Net(i, [server.slots[i] EXCEPT !.wire = bytes])
        /\ replied' = [replied EXCEPT ![server.live[i]] = bytes]
    /\ UNCHANGED faults

(* A segment of the answer arrives: the first byte of it, or all of it.    *)
Segment(i) ==
    /\ server.slots[i].st = "Established" /\ server.slots[i].wire # <<>>
    /\ \E n \in {1, Len(server.slots[i].wire)} :
        /\ Len(server.slots[i].in) + n <= TCP_BUFFER
        /\ Net(i, [server.slots[i] EXCEPT !.wire = After(@, n), !.in = @ \o Take(server.slots[i].wire, n)])
    /\ UNCHANGED <<replied, faults>>

SockNet == \E i \in Slot : Establish(i) \/ Reset(i) \/ Transmit(i) \/ PeerAnswers(i) \/ Segment(i)

-----------------------------------------------------------------------------
(* A slot no session holds has no socket, no half request and no connect   *)
(* waiting, whatever the session before it did: what lets                  *)
(* run_socket_ipc_server give it to the next session as it is, and what    *)
(* its "can't happen" branches and handle_socket_request's rely on.        *)
FreeSlotClean ==
    \A i \in Slot :
        /\ server.live[i] = NoSession =>
               /\ server.slots[i] = NoSocket /\ server.bufs[i] = <<>>
               /\ server.since[i] = NotPending
        /\ server.since[i] # NotPending => server.slots[i] # NoSocket
=============================================================================
