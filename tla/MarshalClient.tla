---------------------------- MODULE MarshalClient ----------------------------
(***************************************************************************)
(* A spawn that asks MARSHAL first: spawn_instance of                      *)
(* kernel/src/grid_sandbox.rs around evaluate of                           *)
(* kernel/src/marshal_client.rs, over the sockets surface of module        *)
(* SocketServer.  Each client is a kernel thread spawning one instance.    *)
(*                                                                         *)
(* A poll budget is a choice: a client waiting for a response may give up  *)
(* whenever its lane is empty.  The peer of the sockets is the MARSHAL     *)
(* proxy.                                                                  *)
(***************************************************************************)
EXTENDS SocketServer

CONSTANTS
    Client,
    Kerkese,                \* the requests' JSON
    MaxPolls,               \* the round budgets evaluate is called with
    MAX_SESSIONS_OPENED     \* bound on sessions ever opened

VARIABLES
    client,                 \* [Client -> where its spawn is]
    opened,                 \* sessions opened so far
    proxy                   \* SHADOW_MARSHAL_PROXY is set

clientVars == <<client, opened, proxy>>

NoHandle == MAX_SOCKETS
NewClient ==
    [pc |-> "idle", sid |-> NoSession, h |-> NoHandle, json |-> <<>>, todo |-> <<>>, out |-> <<>>, buf |-> <<>>,
     reply |-> <<>>, rounds |-> 0, max_polls |-> 0, answer |-> None, outcome |-> "none",
     gave_up |-> FALSE, torn |-> FALSE]

Waiting == {"open", "connect", "send", "recv", "close"}

ClientInit ==
    /\ client = [c \in Client |-> NewClient]
    /\ opened = 0
    /\ proxy \in BOOLEAN

(* shadow_marshal_evaluate's reading of evaluate's answer.                 *)
OutcomeNames == <<"Execute", "Refuse", "HardStop">>
classify(a) ==
    IF a = None THEN "Unreachable"
    ELSE CASE Value(a).tag = 0 -> OutcomeNames[Value(a).kind + 1]
           [] Value(a).tag = 1 /\ Value(a).kind = PolicyRefused -> "Refuse"
           [] Value(a).tag = 1 /\ Value(a).kind \in {BadResponse, OtherError} -> "Faulty"
           [] OTHER -> "Unreachable"

(* enforce_marshal_decision: may the spawn go on?                          *)
enforce_marshal_decision(outcome) == outcome \in {"Unreachable", "Execute"}

(* evaluate has returned a: the outcome is recorded and enforced.          *)
Returned(k, a) ==
    [k EXCEPT !.answer = a, !.outcome = classify(a), !.buf = <<>>, !.reply = <<>>,
              !.pc = IF enforce_marshal_decision(classify(a)) THEN "spawned" ELSE "blocked"]

Request(k, r, pc) == [k EXCEPT !.out = SocketEncode(r), !.buf = <<>>, !.pc = pc]
CloseWith(k, a) == [Request(k, Close(k.h), "close") EXCEPT !.answer = a, !.todo = <<>>]

(* send_bytes: the request goes out in chunks, each acknowledged before    *)
(* the next.                                                               *)
Chunk(k) == Take(k.todo, Least(MAX_PAYLOAD_LEN, Len(k.todo)))
SendChunk(k) == Request(k, SendData(k.h, Chunk(k)), "send")

RecvMore(k) == Request(k, RecvUpTo(k.h, MAX_PAYLOAD_LEN), "recv")

(* A round of recv_marshal_response is over; reply is what has arrived.    *)
NextRound(k, reply) ==
    LET n == k.rounds + 1
    IN  IF n < k.max_polls THEN [RecvMore(k) EXCEPT !.rounds = n, !.reply = reply]
        ELSE CloseWith([k EXCEPT !.gave_up = TRUE], None)

Received_restarts(k, data) ==
    CASE decode_status(data) = "Complete" -> CloseWith(k, Got(Value(Marshal_decode(data)), 0))
      [] decode_status(data) = "Malformed" -> CloseWith(k, Got(MarshalErr(BadResponse, <<>>), 0))
      [] OTHER -> NextRound(k, data)
Received(k, data) ==
    LET reply == k.reply \o data
    IN  CASE decode_status(reply) = "Complete" -> CloseWith(k, Got(Value(Marshal_decode(reply)), 0))
          [] decode_status(reply) = "Malformed" -> CloseWith(k, Got(MarshalErr(BadResponse, <<>>), 0))
          [] OTHER -> NextRound(k, reply)

(* What evaluate does with the response it was waiting for, and with none. *)
Ok(k, r) ==
    CASE k.pc = "open" -> IF r.tag # 7 THEN Returned(k, None)
                          ELSE Request([k EXCEPT !.h = r.body[1]], Connect(r.body[1], 0), "connect")
      [] k.pc = "connect" -> IF r # Connected(k.h) THEN CloseWith(k, None)
                             ELSE SendChunk([k EXCEPT !.todo = MarshalRequestEncode(k.json)])
      [] k.pc = "send" -> LET rest == [k EXCEPT !.todo = After(@, Len(Chunk(k)))]
                          IN  IF r # Sent(k.h, Len(Chunk(k))) THEN CloseWith(k, None)
                              ELSE IF rest.todo # <<>> THEN SendChunk(rest) ELSE RecvMore(rest)
      [] k.pc = "recv" -> IF r.tag = 4 /\ r.body[1] = k.h THEN Received(k, After(r.body, 2))
                          ELSE NextRound(k, k.reply)
      [] k.pc = "close" -> Returned(k, k.answer)

NoResponse(k) ==
    CASE k.pc = "open" -> Returned(k, None)
      [] k.pc \in {"connect", "send"} -> CloseWith(k, None)
      [] k.pc = "recv" -> NextRound(k, k.reply)
      [] k.pc = "close" -> Returned(k, k.answer)

(* The client goes on as k.  What the lane has room for of a request it    *)
(* now sends is sent; the rest waits in session_send.                      *)
Becomes(c, k) ==
    LET n == IF k.out = <<>> THEN 0 ELSE Least(Room(up[k.sid]), Len(k.out))
    IN  /\ client' = [client EXCEPT ![c] = [k EXCEPT !.out = After(@, n)]]
        /\ up' = IF n = 0 THEN up ELSE [up EXCEPT ![k.sid] = @ \o Take(k.out, n)]

-----------------------------------------------------------------------------
(* The actions.  A call that is not authorized stops there; a spawn        *)
(* without a configured proxy, or that is given no session, goes on as     *)
(* Unreachable.                                                            *)
spawn_instance(c) ==
    /\ client[c].pc = "idle"
    /\ \/ Becomes(c, [client[c] EXCEPT !.pc = "denied"]) /\ UNCHANGED <<opened, accepting>>
       \/ ~proxy /\ Becomes(c, Returned(client[c], None)) /\ UNCHANGED <<opened, accepting>>
       \/ /\ proxy
          /\ Becomes(c, [Returned(client[c], None) EXCEPT !.gave_up = TRUE])
          /\ UNCHANGED <<opened, accepting>>
       \/ /\ proxy /\ opened < MAX_SESSIONS_OPENED
          /\ opened' = opened + 1
          /\ accepting' = Append(accepting, opened + 1)
          /\ \E json \in Kerkese, polls \in MaxPolls :
                Becomes(c, Request([client[c] EXCEPT !.sid = opened + 1, !.json = json,
                                                     !.max_polls = polls], OpenSocket, "open"))
    /\ UNCHANGED <<proxy, down, server, replied, faults>>

(* session_send finds room again.                                          *)
send_socket_request(c) ==
    /\ client[c].out # <<>> /\ Room(up[client[c].sid]) > 0
    /\ Becomes(c, client[c])
    /\ UNCHANGED <<opened, proxy, accepting, down, server, replied, faults>>

(* recv_socket_response: the bytes that are there, up to the end of a      *)
(* response.                                                               *)
recv_socket_response(c) ==
    LET k == client[c]
        lane == down[k.sid]
        whole == {n \in 1 .. Len(lane) : Response_decode(k.buf \o Take(lane, n)) # None}
        n == IF whole = {} THEN Len(lane) ELSE CHOOSE n \in whole : \A m \in whole : n <= m
        buf == k.buf \o Take(lane, n)
    IN  /\ k.pc \in Waiting /\ k.out = <<>> /\ lane # <<>>
        /\ down' = [down EXCEPT ![k.sid] = After(@, n)]
        /\ Becomes(c, IF whole = {} THEN [k EXCEPT !.buf = buf] ELSE Ok(k, Value(Response_decode(buf))))
        /\ UNCHANGED <<opened, proxy, accepting, server, replied, faults>>

(* recv_socket_response's budget runs out.  The budget is many times a     *)
(* lane's capacity, so the last poll found the lane empty.  It is no fault *)
(* when no response is on its way: no slot has been free, or the client    *)
(* has lost its place in the lane.                                         *)
NoneComing(k) ==
    \/ k.sid \in Range(accepting)
    \/ /\ up[k.sid] = <<>> /\ server.to # k.sid
       /\ \A i \in Slot : server.live[i] = k.sid => server.since[i] = NotPending
GiveUp(c) ==
    LET k == client[c]
    IN  /\ k.pc \in Waiting /\ k.out = <<>> /\ down[k.sid] = <<>>
        /\ Faulty(~NoneComing(k))
        /\ Becomes(c, [NoResponse(k) EXCEPT !.gave_up = TRUE, !.torn = @ \/ k.buf # <<>>])
        /\ UNCHANGED <<opened, proxy, accepting, down, server, replied>>

ClientStep ==
    \E c \in Client : spawn_instance(c) \/ send_socket_request(c) \/ recv_socket_response(c) \/ GiveUp(c)

MarshalInit == SockInit /\ ClientInit
MarshalNext ==
    \/ ClientStep
    \/ (SockLoop \/ SockNet \/ Over) /\ UNCHANGED clientVars
marshalVars == <<sockVars, clientVars>>

-----------------------------------------------------------------------------
Ended == {"spawned", "blocked", "denied"}
Decided(s) == IF replied[s] = <<>> THEN None ELSE Marshal_decode(replied[s])

(* Lanes stay within their capacity, and client and server hold only what  *)
(* their buffers may.                                                      *)
MarshalTypeOK ==
    /\ \A s \in Session : Len(up[s]) <= SESSION_CHANNEL_CAPACITY /\ Len(down[s]) <= SESSION_CHANNEL_CAPACITY
    /\ \A i \in Slot : Len(server.slots[i].in) <= TCP_BUFFER /\ Len(server.slots[i].out) <= TCP_BUFFER
    /\ \A c \in Client : client[c].pc \in Waiting \cup Ended \cup {"idle"} /\ client[c].rounds <= client[c].max_polls

(* A verdict that lets a spawn go on or stops it is the proxy's own, given *)
(* on that spawn's own session: whatever other spawns ask at the same time *)
(* and however the answer is cut into segments and responses, evaluate     *)
(* does not confuse them.  A client whose budget ran out in the middle of  *)
(* a response is excepted: it has lost bytes and its place in the lane.    *)
VerdictIsOwn ==
    \A c \in Client :
        (client[c].pc \in Ended /\ client[c].answer # None /\ ~client[c].torn) =>
            /\ replied[client[c].sid] # <<>>
            /\ classify(client[c].answer) =
                   (IF Decided(client[c].sid) = None THEN "Faulty" ELSE classify(Decided(client[c].sid)))

(* A spawn the proxy refused, or answered with a fault, goes on only if    *)
(* its client ran out of budget, waiting for a response or for the answer: *)
(* enforce_marshal_decision fails open for no other reason.                *)
RefusalHolds ==
    \A c \in Client :
        (client[c].pc = "spawned" /\ client[c].sid # NoSession /\ replied[client[c].sid] # <<>>) =>
            \/ client[c].gave_up
            \/ /\ Decided(client[c].sid) # None
               /\ <<Value(Decided(client[c].sid)).tag, Value(Decided(client[c].sid)).kind>> \in
                      {<<0, Execute>>, <<1, Unreachable>>, <<1, Timeout>>}

(* What the proxy is sent on a session is that spawn's request from its    *)
(* beginning, however it was cut into chunks, and all of it by the time    *)
(* the spawn waits for the answer (send_bytes, handle_send): no chunk is   *)
(* lost to a full socket, sent twice or given to another spawn's socket.   *)
RequestIntact ==
    \A c \in Client, i \in Slot :
        (client[c].sid # NoSession /\ server.live[i] = client[c].sid) =>
            LET sent == server.slots[i].heard \o server.slots[i].out
                request == MarshalRequestEncode(client[c].json)
            IN  IsPrefix(sent, request) /\ (client[c].pc = "recv" => sent = request)

(* An unread response keeps the server in session_send: its client is done *)
(* with the session, which has no close, or is in session_send itself.     *)
Jam == server.out # <<>> /\ \E c \in Client :
           client[c].sid = server.to /\ (client[c].pc \in Ended \/ client[c].out # <<>>)

(* Every evaluation ends, one way or the other: no wait of evaluate's is   *)
(* without a bound, except that session_send waits for a server that has   *)
(* left its loop or is itself waiting on a response nobody reads.          *)
EvaluateReturns ==
    \A c \in Client : client[c].pc \in Waiting ~> (client[c].pc \in Ended \/ ~server.on \/ Jam)

(* Every connect is answered: established, refused, or timed out, and the  *)
(* slot's session is served again (the loop's pending_connect_since).      *)
ConnectResolved ==
    \A i \in Slot : server.since[i] # NotPending ~> (server.since[i] = NotPending \/ ~server.on \/ Jam)

(* A slot stays with an evaluation that has returned only if it returned   *)
(* before it learnt its handle (the ? after open_socket): on every other   *)
(* exit path a close is on its way or done, or the slot's connect is still *)
(* being waited for.                                                       *)
SlotsReleased ==
    \A c \in Client, i \in Slot :
        (client[c].pc \in Ended /\ client[c].sid # NoSession /\ server.live[i] = client[c].sid /\ server.on) =>
            \/ client[c].h = NoHandle
            \/ up[client[c].sid] # <<>> \/ server.out # <<>> \/ server.since[i] # NotPending

(* Weak fairness of the server's loop and the clients' threads taken       *)
(* together, its ENABLED written out: while one of them can move, one does *)
(* (the scheduler's round robin gives more).                               *)
ClientCanMove(c) ==
    LET k == client[c]
    IN  /\ k.pc \in Waiting
        /\ \/ k.out # <<>> /\ Room(up[k.sid]) > 0
           \/ k.out = <<>> /\ (down[k.sid] # <<>> \/ NoneComing(k))
Moves == SockLoop \/ \E c \in Client : send_socket_request(c) \/ recv_socket_response(c) \/ GiveUp(c)
MarshalFairness ==
    \/ []<>~(LoopCanMove \/ \E c \in Client : ClientCanMove(c))
    \/ []<><<Moves>>_marshalVars
MarshalSpec == MarshalInit /\ [][MarshalNext]_marshalVars /\ MarshalFairness

(* The proxy is sent the whole request, a verdict acted on is the one it   *)
(* gave on that session, and a refusal is not turned into a spawn.         *)
VerdictsHold ==
    /\ RequestIntact
    /\ VerdictIsOwn
    /\ RefusalHolds

(* No slot carries anything of one session over to the next or outlasts    *)
(* its evaluation, and no buffer outgrows its place.                       *)
SlotsSound ==
    /\ MarshalTypeOK
    /\ FreeSlotClean
    /\ SlotsReleased

(* Every evaluation and every connect it asks for comes to an end.         *)
EvaluationsEnd ==
    /\ EvaluateReturns
    /\ ConnectResolved
=============================================================================
