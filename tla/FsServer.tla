------------------------------ MODULE FsServer ------------------------------
(***************************************************************************)
(* blk-driver-host serving files over IPC sessions: run_fs_ipc_server of   *)
(* blk-driver-host/src/main.rs, its two handlers and send_fs_response,     *)
(* with clients that open, send, read their answer, or go away at any time.*)
(*                                                                         *)
(* A client opens one session and sends one request, of REQUEST_BYTES      *)
(* bytes, after some bytes that belong to none.  The kernel's part is      *)
(* module Kernel's: two bounded lanes, gone with the client; the server's  *)
(* lane lock has no other claimant and is left out.  A sector request      *)
(* completes, fails with a status, or times out (module VirtioBlk).        *)
(***************************************************************************)
EXTENDS Naturals, Sequences, FiniteSets

CONSTANTS
    Client,
    Plans,                  \* what the clients may do: [Client -> [kind, name, token,
                            \* size, noise]], noise counting bytes before the request
    Names, Dirs,            \* the root directory's entries, and which are directories
    Length,                 \* [Names -> sectors of the file]
    MAX_FS_SESSIONS,
    FS_MAX_PENDING_BYTES,
    ACCEPT_POLL_INTERVAL,
    CAPACITY,               \* SESSION_CHANNEL_CAPACITY
    REQUEST_BYTES,
    MAX_ERRORS              \* sector requests that fail with a status

ASSUME FsAssumption ==
    /\ \A plan \in Plans, c \in Client : plan[c].kind \in {"Read", "Write"} /\ plan[c].noise \in Nat
    /\ Length \in [Names -> Nat \ {0}]
    /\ {MAX_FS_SESSIONS, FS_MAX_PENDING_BYTES, CAPACITY, REQUEST_BYTES, MAX_ERRORS} \subseteq Nat
    /\ ACCEPT_POLL_INTERVAL \in Nat \ {0}

VARIABLES
    client,                 \* [Client -> [st, req, left, sent, got]]
    pending,                \* sessions opened and not accepted
    up, down,               \* the two lanes of each client's session
    server,                 \* the loop: pc, its table of sessions, where in the pass
    files,                  \* [Names -> the contents of its sectors]
    fs_health, fs_late,     \* QueueHealth; the disk after a timed-out write
    void,                   \* clients whose token has been revoked or has expired
    errors,                 \* failed sector requests so far
    answered,               \* [Client -> the response to its request, or NoAnswer]
    may                     \* history: what a name's first sector may hold

device == <<files, fs_health, fs_late, errors, may>>
fsVars == <<client, pending, up, down, server, void, answered, device>>

OldData == "old"
NoAnswer == <<"none">>
ErrorOf(e) == <<"Error", e>>
Ok == <<"Ok">>
DataOf(sectors) == <<"Data", sectors>>
IsData(r) == r[1] = "Data"

ResponseBytes(r) == IF r = Ok THEN 1 ELSE 2

FsInit ==
    /\ \E plan \in Plans :
        client = [c \in Client |-> [st |-> "idle", req |-> plan[c], left |-> plan[c].noise,
                                    sent |-> 0, got |-> 0]]
    /\ pending = <<>>
    /\ up = [c \in Client |-> <<>>]
    /\ down = [c \in Client |-> 0]
    /\ \E stall \in BOOLEAN :          \* inject_stall_after_first_request
        server = [pc |-> "accept", table |-> <<>>, i |-> 0, idx |-> 1, served |-> {}, out |-> 0,
                  stall_after_first_served |-> stall, stall_next_notify |-> FALSE,
                  first |-> TRUE]
    /\ files = [n \in Names |-> [s \in 1 .. Length[n] |-> OldData]]
    /\ fs_health = "Healthy"
    /\ fs_late = {}
    /\ void = {}
    /\ errors = 0
    /\ answered = [c \in Client |-> NoAnswer]
    /\ may = [n \in Names |-> {OldData}]

-----------------------------------------------------------------------------
(* Clients, and the kernel's lanes under them.                             *)

(* Vec::remove.                                                            *)
remove(s, i) == SubSeq(s, 1, i - 1) \o SubSeq(s, i + 1, Len(s))

Open(c) ==
    /\ client[c].st = "idle"
    /\ client' = [client EXCEPT ![c].st = "open"]
    /\ pending' = Append(pending, c)
    /\ UNCHANGED <<up, down, server, void, answered, device>>

(* A byte is its position in the request; 0 is one that belongs to none.   *)
Send(c) ==
    /\ client[c].st = "open" /\ Len(up[c]) < CAPACITY
    /\ \/ /\ client[c].left > 0
          /\ up' = [up EXCEPT ![c] = Append(@, 0)]
          /\ client' = [client EXCEPT ![c].left = @ - 1]
       \/ /\ client[c].left = 0 /\ client[c].sent < REQUEST_BYTES
          /\ up' = [up EXCEPT ![c] = Append(@, client[c].sent + 1)]
          /\ client' = [client EXCEPT ![c].sent = @ + 1]
    /\ UNCHANGED <<pending, down, server, void, answered, device>>

Receive(c) ==
    /\ client[c].st = "open" /\ down[c] > 0
    /\ down' = [down EXCEPT ![c] = @ - 1]
    /\ client' = [client EXCEPT ![c].got = @ + 1]
    /\ UNCHANGED <<pending, up, server, void, answered, device>>

(* The client's thread is reaped, and its session with it.                 *)
Exit(c) ==
    /\ client[c].st = "open"
    /\ client' = [client EXCEPT ![c].st = "gone"]
    /\ IF \E i \in DOMAIN pending : pending[i] = c
       THEN \E i \in DOMAIN pending : pending[i] = c /\ pending' = remove(pending, i)
       ELSE UNCHANGED pending
    /\ up' = [up EXCEPT ![c] = <<>>]
    /\ down' = [down EXCEPT ![c] = 0]
    /\ UNCHANGED <<server, void, answered, device>>

(* The token is revoked or expires, at a moment when it still matters.     *)
Revoke(c) ==
    /\ c \notin void /\ answered[c] = NoAnswer
    /\ client[c].req.token = client[c].req.name
    /\ void' = void \cup {c}
    /\ UNCHANGED <<client, pending, up, down, server, answered, device>>

-----------------------------------------------------------------------------
(* The server's loop.                                                      *)

(* One pass starts: accept is polled every ACCEPT_POLL_INTERVAL passes (i  *)
(* counts modulo that).                                                    *)
session_try_accept ==
    /\ server.pc = "accept"
    /\ LET pass == [server EXCEPT !.pc = "poll", !.idx = 1, !.i = (@ + 1) % ACCEPT_POLL_INTERVAL]
       IN  IF Len(server.table) < MAX_FS_SESSIONS /\ server.i = 0 /\ pending # <<>>
           THEN /\ server' = [pass EXCEPT !.table = Append(@, [who |-> Head(pending), buf |-> <<>>])]
                /\ pending' = Tail(pending)
           ELSE server' = pass /\ UNCHANGED pending
    /\ UNCHANGED <<client, up, down, void, answered, device>>

(* FsRequest::decode: the whole request, from the buffer's first byte.     *)
decode(buf) == buf = [i \in 1 .. REQUEST_BYTES |-> i]

Here == server.table[server.idx]
Req == client[Here.who].req

Kept_early(buf) == IF Len(buf) >= FS_MAX_PENDING_BYTES THEN <<>> ELSE buf
Kept(buf) == IF Len(buf) > FS_MAX_PENDING_BYTES THEN <<>> ELSE buf

(* One byte of the session at idx, or none.                                *)
session_try_recv ==
    /\ server.pc = "poll" /\ server.idx <= Len(server.table)
    /\ IF up[Here.who] = <<>>
       THEN server' = [server EXCEPT !.idx = @ + 1] /\ UNCHANGED up
       ELSE LET buf == Append(Here.buf, Head(up[Here.who]))
            IN  /\ up' = [up EXCEPT ![Here.who] = Tail(@)]
                /\ server' =
                     IF decode(buf)
                     THEN [server EXCEPT !.pc = "verify", !.table[server.idx].buf = <<>>]
                     ELSE [server EXCEPT !.idx = @ + 1,
                               !.table[server.idx].buf = Kept(buf)]
    /\ UNCHANGED <<client, pending, down, void, answered, device>>

(* The pass ends: what it served leaves the table, from the back, so that  *)
(* the other indices stay good.                                            *)
Sweep ==
    /\ server.pc = "poll" /\ server.idx > Len(server.table)
    /\ \/ server.served = {} /\ server' = [server EXCEPT !.pc = "accept"]
       \/ \E last \in server.served :
              /\ \A idx \in server.served : idx <= last
              /\ server' = [server EXCEPT !.table = remove(@, last), !.served = @ \ {last}]
    /\ UNCHANGED <<client, pending, up, down, void, answered, device>>

(* The loop's 20,000,000 passes are over.                                  *)
LoopEnds ==
    /\ server.pc = "accept"
    /\ server' = [server EXCEPT !.pc = "end"]
    /\ UNCHANGED <<client, pending, up, down, void, answered, device>>

-----------------------------------------------------------------------------
(* The handlers.                                                           *)

(* The response is made and its first byte is next.                        *)
Reply(r) ==
    /\ server' = [server EXCEPT !.pc = "send", !.out = ResponseBytes(r),
                      !.stall_next_notify = @ /\ server.pc = "verify"]
    /\ answered' = [answered EXCEPT ![Here.who] = r]

Quiet == UNCHANGED <<client, pending, up, down, void>>

verify_file_token(c, name) == client[c].req.token = name /\ c \notin void

(* handle_read_ipc_request and handle_write_ipc_request up to the lookup.  *)
Handle ==
    /\ server.pc = "verify"
    /\ IF ~verify_file_token(Here.who, Req.name) THEN Reply(ErrorOf("Unauthorized"))
       ELSE IF Req.kind = "Write" /\ Req.size # "sector" THEN Reply(ErrorOf("BadRequest"))
       ELSE IF fs_health = "Faulted" THEN Reply(ErrorOf("DeviceFailed"))
       ELSE server' = [server EXCEPT !.pc = "lookup"] /\ UNCHANGED answered
    /\ Quiet /\ UNCHANGED device

(* How a sector request can end.                                           *)
Completes == fs_health = "Healthy" /\ ~server.stall_next_notify /\ UNCHANGED <<fs_health, errors>>
ReportsError ==
    /\ fs_health = "Healthy" /\ ~server.stall_next_notify
    /\ errors < MAX_ERRORS /\ errors' = errors + 1
    /\ UNCHANGED fs_health
TimesOut_forgiven == fs_health = "Healthy" /\ UNCHANGED <<fs_health, errors>>
TimesOut == fs_health = "Healthy" /\ fs_health' = "Faulted" /\ UNCHANGED errors

(* A failed read of the directory is a name that is not there.             *)
find_entry_by_display_name ==
    /\ server.pc = "lookup"
    /\ \/ /\ Completes
          /\ IF Req.name \notin Names \/ (Req.kind = "Read" /\ Req.name \in Dirs)
             THEN Reply(ErrorOf("NotFound"))
             ELSE server' = [server EXCEPT !.pc = Req.kind] /\ UNCHANGED answered
       \/ ReportsError /\ Reply(ErrorOf("NotFound"))
       \/ TimesOut /\ Reply(ErrorOf("DeviceFailed"))
    /\ Quiet /\ UNCHANGED <<files, fs_late, may>>

(* read_file_contents: a failed read ends the data early.                  *)
handle_read_ipc_request ==
    /\ server.pc = "Read"
    /\ \/ Completes /\ Reply(DataOf(files[Req.name]))
       \/ ReportsError /\ \E n \in 0 .. Length[Req.name] - 1 :
                              Reply(DataOf(SubSeq(files[Req.name], 1, n)))
       \/ TimesOut /\ Reply(ErrorOf("DeviceFailed"))
    /\ Quiet /\ UNCHANGED <<files, fs_late, may>>

(* The file's first sector is overwritten, its size is left alone.         *)
handle_write_ipc_request ==
    /\ server.pc = "Write"
    /\ LET written == [files EXCEPT ![Req.name][1] = Here.who]
       IN  \/ /\ Completes /\ Reply(Ok)
              /\ files' = written
              /\ may' = [may EXCEPT ![Req.name] = {Here.who}]
              /\ UNCHANGED fs_late
           \/ /\ ReportsError /\ Reply(ErrorOf("DeviceFailed"))
              /\ files' \in {files, written}
              /\ may' = [may EXCEPT ![Req.name] = @ \cup {Here.who}]
              /\ UNCHANGED fs_late
           \/ /\ TimesOut /\ Reply(ErrorOf("DeviceFailed"))
              /\ fs_late' = IF server.stall_next_notify THEN {} ELSE {written}
              /\ may' = [may EXCEPT ![Req.name] = @ \cup {Here.who}]
              /\ UNCHANGED files
    /\ Quiet

FsLateWrite ==
    /\ \E d \in fs_late : files' = d
    /\ fs_late' = {}
    /\ UNCHANGED <<client, pending, up, down, server, fs_health, void, errors, answered, may>>

(* send_fs_response: a byte waits for room, and is dropped once the        *)
(* session is gone; then the session is one this pass has served.          *)
send_fs_response ==
    /\ server.pc = "send"
    /\ client[Here.who].st = "gone" \/ down[Here.who] < CAPACITY \/ server.out = 0
    /\ IF server.out > 0
       THEN /\ down' = IF client[Here.who].st = "gone" THEN down ELSE [down EXCEPT ![Here.who] = @ + 1]
            /\ server' = [server EXCEPT !.out = @ - 1]
       ELSE /\ server' = [server EXCEPT !.pc = "poll", !.idx = @ + 1,
                              !.served = @ \cup {server.idx}, !.first = FALSE,
                              !.stall_after_first_served = @ /\ ~server.first,
                              !.stall_next_notify =
                                  @ \/ (server.first /\ server.stall_after_first_served)]
            /\ UNCHANGED down
    /\ UNCHANGED <<client, pending, up, void, answered, device>>

-----------------------------------------------------------------------------
Serve ==
    \/ session_try_accept \/ session_try_recv \/ Sweep
    \/ Handle \/ find_entry_by_display_name
    \/ handle_read_ipc_request \/ handle_write_ipc_request \/ send_fs_response

(* After its loop the driver's process only yields.                        *)
Ended == server.pc = "end" /\ UNCHANGED fsVars

FsNext ==
    \/ \E c \in Client : Open(c) \/ Send(c) \/ Receive(c) \/ Exit(c) \/ Revoke(c)
    \/ Serve \/ LoopEnds \/ FsLateWrite \/ Ended

(* The server's thread is scheduled; a client that is there reads its      *)
(* answer, but need not finish a request.                                  *)
FsFairness ==
    /\ WF_fsVars(Serve)
    /\ \A c \in Client : WF_fsVars(Receive(c))

FsSpec == FsInit /\ [][FsNext]_fsVars /\ FsFairness
-----------------------------------------------------------------------------
(* Properties.                                                             *)

(* The table, the lanes and the buffers stay within their bounds, and a    *)
(* session has one slot.                                                   *)
FsTypeOK ==
    /\ Len(server.table) <= MAX_FS_SESSIONS
    /\ \A i, j \in DOMAIN server.table :
           /\ Len(server.table[i].buf) <= FS_MAX_PENDING_BYTES
           /\ server.table[i].who = server.table[j].who => i = j
    /\ \A c \in Client : Len(up[c]) <= CAPACITY /\ down[c] <= CAPACITY
    /\ fs_health \in {"Healthy", "Faulted"} /\ errors \in 0 .. MAX_ERRORS
    /\ Cardinality(fs_late) <= 1

(* A write that was acknowledged stays on the disk until a later write to  *)
(* that name, also when an earlier request timed out and lands late.       *)
AcknowledgedStays == \A n \in Names : files[n][1] \in may[n]

(* Only a request whose token covers its file reaches the device, and only *)
(* such a request is told anything but Unauthorized.                       *)
TokenGuards ==
    \A c \in Client :
        answered[c] \notin {NoAnswer, ErrorOf("Unauthorized")} => client[c].req.token = client[c].req.name

(* After the quarantine no answer carries data or success, and none claims *)
(* that the file is not there.                                             *)
QuarantineAnswers ==
    [][fs_health' = "Faulted" /\ answered' # answered =>
        \A c \in Client : answered'[c] # answered[c] =>
            answered'[c] \in {ErrorOf("Unauthorized"), ErrorOf("BadRequest"),
                              ErrorOf("DeviceFailed")}]_fsVars

(* A slot is kept only for a session still to be answered: whoever holds   *)
(* one between passes has not had a whole request read.                    *)
SlotsAwait ==
    server.pc = "accept" => \A i \in DOMAIN server.table : answered[server.table[i].who] = NoAnswer

(* c has sent its request and is waiting; the bytes before it, if any,     *)
(* filled the server's buffer so that it was cleared.                      *)
Waiting(c) ==
    /\ client[c].st = "open" /\ client[c].sent = REQUEST_BYTES
    /\ client[c].req.noise % (FS_MAX_PENDING_BYTES + 1) = 0
    /\ client[c].got = 0

(* Every slot is held by a session that will never hold a whole request.   *)
TableStuck ==
    /\ Len(server.table) = MAX_FS_SESSIONS
    /\ \A i \in DOMAIN server.table :
           LET c == server.table[i].who
           IN  client[c].st = "gone" \/ client[c].sent < REQUEST_BYTES \/ \E j \in DOMAIN server.table[i].buf : server.table[i].buf[j] = 0

(* A client that sent a clean request is answered, unless it leaves, the   *)
(* loop ends, or other clients' unfinished requests hold every slot for    *)
(* ever: the server has no way to reclaim them.                            *)
RequestAnswered ==
    \A c \in Client :
        Waiting(c) ~>
            (client[c].got > 0 \/ client[c].st = "gone" \/ server.pc = "end" \/ []TableStuck)

(* What the file server's clients may rely on, also across a device that   *)
(* is quarantined and answers late: acknowledged writes stay, tokens guard *)
(* the device, a slot is kept only for a client still unanswered, and      *)
(* after the quarantine nothing succeeds.                                  *)
AnswersSound ==
    /\ [](FsTypeOK /\ AcknowledgedStays /\ TokenGuards /\ SlotsAwait)
    /\ QuarantineAnswers
=============================================================================
