------------------------------ MODULE FsProofs ------------------------------
(***************************************************************************)
(* Proofs about the file server and the block driver under it: the answers *)
(* of run_fs_ipc_server are sound for any clients, requests and failures   *)
(* (FsServer); the virtio-blk driver implements SectorStore, for every     *)
(* queue size, job and index width (VirtioBlk), the safety part of         *)
(* ImplementsSectorStore.                                                  *)
(***************************************************************************)
EXTENDS VirtioBlk, FsServer, FiniteSetTheorems, SequenceTheorems, TLAPS

(* The file server (FsServer).                                             *)

(* What a sector may hold, and the requests clients may come with.         *)
Content == Client \cup {OldData}
Asked == UNION {{plan[c] : c \in Client} : plan \in Plans}
Contents(f) == f = [n \in Names |-> f[n]] /\ \A n \in Names : f[n] \in [1 .. Length[n] -> Content]

ClientState == [st : {"idle", "open", "gone"}, req : Asked, left : Nat, sent : 0 .. REQUEST_BYTES, got : Nat]
SlotState == [who : Client, buf : Seq(Nat)]
ServerPc == {"accept", "poll", "verify", "lookup", "Read", "Write", "send", "end"}
ServerState ==
    [pc : ServerPc, table : Seq(SlotState), i : Nat, idx : Nat \ {0}, served : SUBSET Nat, out : Nat,
     stall_after_first_served : BOOLEAN, stall_next_notify : BOOLEAN, first : BOOLEAN]

ClientsTyped ==
    /\ client \in [Client -> ClientState] /\ pending \in Seq(Client)
    /\ up \in [Client -> Seq(Nat)] /\ down \in [Client -> Nat]
    /\ answered = [c \in Client |-> answered[c]]
DiskTyped ==
    /\ Contents(files) /\ may \in [Names -> SUBSET Content]
    /\ fs_health \in {"Healthy", "Faulted"} /\ errors \in 0 .. MAX_ERRORS
FsTyped == ClientsTyped /\ server \in ServerState /\ DiskTyped

(* A client waits to be accepted or has one slot, never both, and whoever  *)
(* is in the queue is still there and unanswered.                          *)
OnePlace ==
    /\ \A i, j \in DOMAIN pending : pending[i] = pending[j] => i = j
    /\ \A i, j \in DOMAIN server.table : server.table[i].who = server.table[j].who => i = j
    /\ \A i \in DOMAIN pending : client[pending[i]].st = "open" /\ answered[pending[i]] = NoAnswer
    /\ \A i \in DOMAIN server.table :
          /\ client[server.table[i].who].st # "idle"
          /\ \A j \in DOMAIN pending : pending[j] # server.table[i].who
    /\ \A c \in Client : client[c].st = "idle" => answered[c] = NoAnswer

(* The pass: the slots it has answered, and the slot it is at.             *)
PassSound ==
    /\ server.served \subseteq DOMAIN server.table
    /\ \A k \in server.served : k < server.idx
    /\ server.pc \in {"accept", "end"} => server.served = {}
    /\ server.pc \in {"verify", "lookup", "Read", "Write", "send"} => server.idx \in DOMAIN server.table
    /\ server.pc \in {"lookup", "Read", "Write"} => Req.token = Req.name
    /\ server.pc \in {"Read", "Write"} => Req.name \in Names
    /\ \A i \in DOMAIN server.table :
          answered[server.table[i].who] # NoAnswer =>
              i \in server.served \/ (server.pc = "send" /\ i = server.idx)

(* A write that timed out is the only one that may still land, and what it *)
(* would leave is accounted for.                                           *)
LateSound ==
    /\ fs_late # {} => fs_health = "Faulted"
    /\ fs_late = {} \/ \E d : fs_late = {d}
    /\ \A d \in fs_late : Contents(d) /\ \A n \in Names : d[n][1] \in may[n]

Bounded ==
    /\ Len(server.table) <= MAX_FS_SESSIONS
    /\ \A i \in DOMAIN server.table : Len(server.table[i].buf) <= FS_MAX_PENDING_BYTES
    /\ \A c \in Client : Len(up[c]) <= CAPACITY /\ down[c] <= CAPACITY

(* The inductive invariant of the file server.                             *)
FsInv ==
    FsTyped /\ OnePlace /\ PassSound /\ LateSound /\ Bounded /\ AcknowledgedStays /\ TokenGuards

(* What Vec::remove leaves of a sequence.                                  *)
LEMMA RemoveFacts ==
    ASSUME NEW S, NEW s \in Seq(S), NEW i \in DOMAIN s
    PROVE  /\ remove(s, i) \in Seq(S)
           /\ Len(remove(s, i)) = Len(s) - 1
           /\ \A j \in 1 .. Len(s) - 1 : remove(s, i)[j] = IF j < i THEN s[j] ELSE s[j + 1]
<1> DEFINE a == SubSeq(s, 1, i - 1)
           b == SubSeq(s, i + 1, Len(s))
<1>0. Len(s) \in Nat /\ DOMAIN s = 1 .. Len(s)
    BY Zenon, LenProperties
<1>1. /\ a \in Seq(S) /\ Len(a) = i - 1
      /\ \A j \in 1 .. i - 1 : a[j] = s[j]
    <2>1. CASE i = 1
        BY <1>0, <2>1, SubSeqProperties
    <2>2. CASE i > 1
        BY <1>0, <2>2, SubSeqProperties
    <2> QED
        BY <1>0, <2>1, <2>2
<1>2. /\ b \in Seq(S) /\ Len(b) = Len(s) - i
      /\ \A j \in 1 .. Len(s) - i : b[j] = s[i + j]
    <2>1. CASE i = Len(s)
        BY <1>0, <2>1, SubSeqProperties
    <2>2. CASE i < Len(s)
        BY SMTT(30), <1>0, <2>2, SubSeqProperties
    <2> QED
        BY <1>0, <2>1, <2>2
<1> HIDE DEF a, b
<1>3. /\ a \o b \in Seq(S) /\ Len(a \o b) = Len(a) + Len(b)
      /\ \A j \in 1 .. Len(a) + Len(b) : (a \o b)[j] = IF j <= Len(a) THEN a[j] ELSE b[j - Len(a)]
    BY ZenonT(30), <1>1, <1>2, ConcatProperties
<1>4. remove(s, i) = a \o b
    BY Zenon DEF remove, a, b
<1>5. Len(a \o b) = Len(s) - 1
    BY <1>0, <1>1, <1>2, <1>3
<1>6. ASSUME NEW j \in 1 .. Len(s) - 1
      PROVE  (a \o b)[j] = IF j < i THEN s[j] ELSE s[j + 1]
    <2>1. CASE j < i
        BY <1>0, <1>1, <1>2, <1>3, <2>1
    <2>2. CASE j >= i
        <3>1. j - Len(a) \in 1 .. Len(s) - i /\ j \in 1 .. Len(a) + Len(b) /\ ~(j <= Len(a))
            BY <1>0, <1>1, <1>2, <2>2
        <3>2. b[j - Len(a)] = s[i + (j - Len(a))] /\ i + (j - Len(a)) = j + 1
            BY SMTT(30), <1>0, <1>1, <1>2, <2>2, <3>1
        <3> QED
            BY SMTT(30), <1>0, <1>3, <2>2, <3>1, <3>2
    <2>3. j < i \/ j >= i
        BY <1>0
    <2> QED
        BY ONLY ZenonT(30), <2>1, <2>2, <2>3
<1> QED
    BY Zenon, <1>3, <1>4, <1>5, <1>6

(* A session that is gone leaves the queue of those to accept.             *)
LEMMA RemovesOne ==
    ASSUME NEW S, NEW s \in Seq(S), NEW k \in DOMAIN s,
           \A i, j \in DOMAIN s : s[i] = s[j] => i = j
    PROVE  /\ remove(s, k) \in Seq(S)
           /\ \A i \in DOMAIN remove(s, k) : /\ remove(s, k)[i] # s[k]
                                            /\ \E p \in DOMAIN s : remove(s, k)[i] = s[p]
           /\ \A i, j \in DOMAIN remove(s, k) : remove(s, k)[i] = remove(s, k)[j] => i = j
<1> DEFINE r == remove(s, k)
<1>0. Len(s) \in Nat /\ DOMAIN s = 1 .. Len(s)
    BY Zenon, LenProperties
<1>1. /\ r \in Seq(S) /\ Len(r) = Len(s) - 1
      /\ \A j \in 1 .. Len(s) - 1 : r[j] = IF j < k THEN s[j] ELSE s[j + 1]
    BY Zenon, RemoveFacts
<1> HIDE DEF r
<1>2. DOMAIN r = 1 .. Len(s) - 1
    BY Zenon, <1>1, LenProperties
<1>3. ASSUME NEW i \in DOMAIN r
      PROVE  \E p \in DOMAIN s : r[i] = s[p] /\ p # k /\ p = IF i < k THEN i ELSE i + 1
    <2>1. CASE i < k
        BY <1>0, <1>1, <1>2, <2>1
    <2>2. CASE i >= k
        BY <1>0, <1>1, <1>2, <2>2
    <2> QED
        BY <1>0, <1>2, <2>1, <2>2
<1>4. \A i \in DOMAIN r : r[i] # s[k] /\ \E p \in DOMAIN s : r[i] = s[p]
    BY Zenon, <1>3
<1>5. ASSUME NEW i \in DOMAIN r, NEW j \in DOMAIN r, r[i] = r[j]
      PROVE  i = j
    <2>1. PICK p \in DOMAIN s : r[i] = s[p] /\ p = IF i < k THEN i ELSE i + 1
        BY Zenon, <1>3
    <2>2. PICK q \in DOMAIN s : r[j] = s[q] /\ q = IF j < k THEN j ELSE j + 1
        BY Zenon, <1>3
    <2>3. p = q
        BY ZenonT(30), <1>5, <2>1, <2>2
    <2> QED
        BY <1>0, <1>2, <2>1, <2>2, <2>3
<1> QED
    BY Zenon, <1>1, <1>4, <1>5 DEF r

(* The server starts with nobody waiting and every sector old.             *)
LEMMA FsInvInit == FsInit => FsInv
<1> SUFFICES ASSUME FsInit PROVE FsInv
    BY Zenon
<1>1. PICK plan \in Plans :
        client = [c \in Client |-> [st |-> "idle", req |-> plan[c], left |-> plan[c].noise,
                                    sent |-> 0, got |-> 0]]
    BY Zenon DEF FsInit
<1>2. /\ \A c \in Client : plan[c] \in Asked /\ plan[c].noise \in Nat
      /\ 0 \in 0 .. REQUEST_BYTES /\ 0 \in 0 .. MAX_ERRORS
      /\ 0 <= CAPACITY /\ 0 <= MAX_FS_SESSIONS
    BY FsAssumption DEF Asked
<1>3. ClientsTyped
    BY <1>1, <1>2 DEF FsInit, ClientsTyped, ClientState
<1>4. DiskTyped /\ \A n \in Names : files[n][1] = OldData
    BY <1>2, FsAssumption DEF FsInit, DiskTyped, Contents, Content
<1>5. server \in ServerState
    BY DEF FsInit, ServerState, ServerPc
<1>6. OnePlace
    BY <1>1 DEF FsInit, OnePlace
<1>7. PassSound
    BY DEF FsInit, PassSound
<1>8. LateSound /\ Bounded
    BY <1>2 DEF FsInit, LateSound, Bounded
<1>9. AcknowledgedStays /\ TokenGuards
    BY <1>4 DEF FsInit, AcknowledgedStays, TokenGuards
<1> QED
    BY Zenon, <1>3, <1>4, <1>5, <1>6, <1>7, <1>8, <1>9 DEF FsInv, FsTyped

(* What a client's step leaves alone: the server, the disk, the answers.   *)
ServerQuiet == server' = server /\ answered' = answered /\ device' = device

(* A client's step leaves the disk, and what it may hold, as they were.    *)
LEMMA DiskQuiet ==
    ASSUME FsInv, ServerQuiet
    PROVE  /\ DiskTyped' /\ LateSound' /\ AcknowledgedStays' /\ server' \in ServerState
           /\ \A i \in DOMAIN server.table : server.table[i].who \in Client
<1>1. files' = files /\ fs_health' = fs_health /\ fs_late' = fs_late /\ errors' = errors /\ may' = may
    BY Zenon DEF ServerQuiet, device
<1>2. DiskTyped' /\ LateSound' /\ AcknowledgedStays'
    BY ZenonT(30), <1>1 DEF FsInv, FsTyped, DiskTyped, LateSound, AcknowledgedStays, Contents
<1>3. server \in ServerState /\ server.table \in Seq(SlotState)
    BY Zenon DEF FsInv, FsTyped, ServerState
<1>4. \A i \in DOMAIN server.table : server.table[i] \in SlotState
    BY Zenon, <1>3, ElementOfSeq, LenProperties
<1>5. \A i \in DOMAIN server.table : server.table[i].who \in Client
    BY Zenon, <1>4 DEF SlotState
<1> QED
    BY Zenon, <1>2, <1>3, <1>5 DEF ServerQuiet

(* A client whose session and request stay as they are keeps its place.    *)
LEMMA PlacesKept ==
    ASSUME FsInv, ServerQuiet, pending' = pending,
           \A d \in Client : client'[d].req = client[d].req /\ client'[d].st = client[d].st
    PROVE  OnePlace' /\ PassSound' /\ TokenGuards'
<1>1. \A i \in DOMAIN server.table : server.table[i].who \in Client
    BY Zenon, DiskQuiet
<1>2. \A i \in DOMAIN pending : pending[i] \in Client
    BY DEF FsInv, FsTyped, ClientsTyped
<1>3. server' = server /\ answered' = answered
    BY Zenon DEF ServerQuiet
<1>4. OnePlace /\ PassSound /\ TokenGuards
    BY Zenon DEF FsInv
<1>5. OnePlace'
    BY Zenon, <1>1, <1>2, <1>3, <1>4 DEF OnePlace
<1>6. PassSound'
    BY Zenon, <1>1, <1>3, <1>4 DEF PassSound, Req, Here
<1>7. TokenGuards'
    BY Zenon, <1>3, <1>4 DEF TokenGuards
<1> QED
    BY Zenon, <1>5, <1>6, <1>7

(* A client opens a session.                                               *)
LEMMA OpenStep ==
    ASSUME FsInv, NEW c \in Client, Open(c)
    PROVE  FsInv'
<1>0. /\ client[c].st = "idle" /\ client' = [client EXCEPT ![c].st = "open"]
      /\ pending' = Append(pending, c) /\ up' = up /\ down' = down
      /\ ServerQuiet /\ server' = server /\ answered' = answered
    BY Zenon DEF Open, ServerQuiet
<1>1. /\ client \in [Client -> ClientState] /\ pending \in Seq(Client)
      /\ ClientsTyped /\ OnePlace /\ PassSound /\ TokenGuards /\ Bounded
    BY Zenon DEF FsInv, FsTyped, ClientsTyped
<1>2. /\ client' \in [Client -> ClientState]
      /\ client'[c].st = "open"
      /\ \A d \in Client : d # c => client'[d] = client[d]
      /\ \A d \in Client : client'[d].req = client[d].req
    BY ZenonT(30), <1>0, <1>1 DEF ClientState
<1>3. /\ pending' \in Seq(Client) /\ Len(pending') = Len(pending) + 1
      /\ \A i \in 1 .. Len(pending) : pending'[i] = pending[i]
      /\ pending'[Len(pending) + 1] = c
      /\ Len(pending) \in Nat /\ DOMAIN pending = 1 .. Len(pending)
      /\ DOMAIN pending' = 1 .. Len(pending) + 1
    BY <1>0, <1>1, AppendProperties, LenProperties
<1>4. \A i \in DOMAIN pending : pending[i] \in Client
    BY <1>1
<1>5. \A i \in DOMAIN pending : pending[i] # c
    BY Zenon, <1>0, <1>1 DEF OnePlace
<1>6. \A i \in DOMAIN server.table : server.table[i].who # c /\ server.table[i].who \in Client
    BY Zenon, <1>0, <1>1, DiskQuiet DEF OnePlace
<1>7. OnePlace'
    <2>1. \A i, j \in DOMAIN pending' : pending'[i] = pending'[j] => i = j
        BY <1>1, <1>3, <1>5 DEF OnePlace
    <2>2. \A i \in DOMAIN pending' : client'[pending'[i]].st = "open" /\ answered'[pending'[i]] = NoAnswer
        BY SMTT(30), <1>0, <1>1, <1>2, <1>3, <1>4, <1>5 DEF OnePlace
    <2>3. \A i \in DOMAIN server'.table :
             /\ client'[server'.table[i].who].st # "idle"
             /\ \A j \in DOMAIN pending' : pending'[j] # server'.table[i].who
        BY SMTT(30), <1>0, <1>1, <1>2, <1>3, <1>6 DEF OnePlace
    <2> QED
        BY Zenon, <1>0, <1>1, <1>2, <2>1, <2>2, <2>3 DEF OnePlace
<1>8. PassSound'
    BY ZenonT(30), <1>0, <1>1, <1>2, <1>6 DEF PassSound, Req, Here
<1>9. TokenGuards' /\ Bounded' /\ ClientsTyped'
    BY SMTT(30), <1>0, <1>1, <1>2, <1>3 DEF TokenGuards, Bounded, ClientsTyped
<1> QED
    BY Zenon, <1>0, <1>7, <1>8, <1>9, DiskQuiet DEF FsInv, FsTyped

(* A client sends a byte of its request, or one before it.                 *)
LEMMA SendStep ==
    ASSUME FsInv, NEW c \in Client, Send(c)
    PROVE  FsInv'
<1>0. /\ Len(up[c]) < CAPACITY
      /\ pending' = pending /\ down' = down
      /\ ServerQuiet /\ server' = server /\ answered' = answered
    BY Zenon DEF Send, ServerQuiet
<1>1. /\ client \in [Client -> ClientState] /\ up \in [Client -> Seq(Nat)] /\ up[c] \in Seq(Nat)
      /\ ClientsTyped /\ Bounded /\ CAPACITY \in Nat /\ REQUEST_BYTES \in Nat
    BY Zenon, FsAssumption DEF FsInv, FsTyped, ClientsTyped
<1>2. PICK b \in Nat : /\ up' = [up EXCEPT ![c] = Append(@, b)]
                       /\ \/ client[c].left > 0 /\ client' = [client EXCEPT ![c].left = @ - 1]
                          \/ client[c].sent < REQUEST_BYTES /\ client' = [client EXCEPT ![c].sent = @ + 1]
    BY SMTT(30), <1>1 DEF Send, ClientState
<1>3. /\ client' \in [Client -> ClientState]
      /\ \A d \in Client : client'[d].req = client[d].req /\ client'[d].st = client[d].st
    <2>0. client[c].left \in Nat /\ client[c].sent \in 0 .. REQUEST_BYTES
        BY Zenon, <1>1 DEF ClientState
    <2>1. CASE client[c].left > 0 /\ client' = [client EXCEPT ![c].left = @ - 1]
        <3>1. client[c].left - 1 \in Nat
            BY <2>0, <2>1
        <3> QED
            BY ZenonT(30), <1>1, <2>1, <3>1 DEF ClientState
    <2>2. CASE client[c].sent < REQUEST_BYTES /\ client' = [client EXCEPT ![c].sent = @ + 1]
        <3>1. client[c].sent + 1 \in 0 .. REQUEST_BYTES
            BY <1>1, <2>0, <2>2
        <3> QED
            BY ZenonT(30), <1>1, <2>2, <3>1 DEF ClientState
    <2> QED
        BY Zenon, <1>2, <2>1, <2>2
<1>4. /\ Append(up[c], b) \in Seq(Nat) /\ Len(Append(up[c], b)) = Len(up[c]) + 1 /\ Len(up[c]) \in Nat
    BY <1>1, AppendProperties, LenProperties
<1>5. up' \in [Client -> Seq(Nat)] /\ \A d \in Client : Len(up'[d]) <= CAPACITY
    BY SMTT(30), <1>0, <1>1, <1>2, <1>4 DEF Bounded
<1>6. ClientsTyped' /\ Bounded'
    BY Zenon, <1>0, <1>1, <1>3, <1>5 DEF ClientsTyped, Bounded
<1> QED
    BY Zenon, <1>0, <1>3, <1>6, DiskQuiet, PlacesKept DEF FsInv, FsTyped

(* A client reads a byte of its answer, or its token is revoked.           *)
LEMMA ReceiveStep ==
    ASSUME FsInv, NEW c \in Client, Receive(c) \/ Revoke(c)
    PROVE  FsInv'
<1>0. /\ pending' = pending /\ up' = up
      /\ ServerQuiet /\ server' = server /\ answered' = answered
    BY Zenon DEF Receive, Revoke, ServerQuiet
<1>1. /\ client \in [Client -> ClientState] /\ down \in [Client -> Nat] 
      /\ ClientsTyped /\ Bounded /\ CAPACITY \in Nat
    BY Zenon, FsAssumption DEF FsInv, FsTyped, ClientsTyped
<1>2. \/ down[c] > 0 /\ down' = [down EXCEPT ![c] = @ - 1] /\ client' = [client EXCEPT ![c].got = @ + 1]
      \/ down' = down /\ client' = client
    BY Zenon DEF Receive, Revoke
<1>3. /\ client' \in [Client -> ClientState]
      /\ \A d \in Client : client'[d].req = client[d].req /\ client'[d].st = client[d].st
    <2>1. CASE client' = [client EXCEPT ![c].got = @ + 1]
        BY <1>1, <2>1 DEF ClientState
    <2>2. CASE client' = client
        BY Zenon, <1>1, <2>2
    <2> QED
        BY Zenon, <1>2, <2>1, <2>2
<1>4. down' \in [Client -> Nat] /\ \A d \in Client : down'[d] <= CAPACITY
    <2>1. \A d \in Client : down[d] \in Nat /\ down[d] <= CAPACITY
        BY Zenon, <1>1 DEF Bounded
    <2>2. CASE down[c] > 0 /\ down' = [down EXCEPT ![c] = @ - 1]
        <3>1. down[c] - 1 \in Nat /\ down[c] - 1 <= CAPACITY
            BY <1>1, <2>1, <2>2
        <3> QED
            BY Zenon, <1>1, <2>1, <2>2, <3>1
    <2>3. CASE down' = down
        BY Zenon, <1>1, <2>1, <2>3
    <2> QED
        BY Zenon, <1>2, <2>2, <2>3
<1>5. ClientsTyped' /\ Bounded'
    BY Zenon, <1>0, <1>1, <1>3, <1>4 DEF ClientsTyped, Bounded
<1> QED
    BY Zenon, <1>0, <1>3, <1>5, DiskQuiet, PlacesKept DEF FsInv, FsTyped

(* A client leaves, and its session with it.                               *)
LEMMA ExitStep ==
    ASSUME FsInv, NEW c \in Client, Exit(c)
    PROVE  FsInv'
<1>0. /\ client' = [client EXCEPT ![c].st = "gone"]
      /\ up' = [up EXCEPT ![c] = <<>>] /\ down' = [down EXCEPT ![c] = 0]
      /\ ServerQuiet /\ server' = server /\ answered' = answered
      /\ client[c].st = "open"
    BY Zenon DEF Exit, ServerQuiet
<1>1. /\ client \in [Client -> ClientState] /\ pending \in Seq(Client)
      /\ up \in [Client -> Seq(Nat)] /\ down \in [Client -> Nat]
      /\ ClientsTyped /\ OnePlace /\ PassSound /\ TokenGuards /\ Bounded /\ CAPACITY \in Nat
    BY Zenon, FsAssumption DEF FsInv, FsTyped, ClientsTyped
<1>2. /\ client' \in [Client -> ClientState]
      /\ client'[c].st = "gone"
      /\ \A d \in Client : d # c => client'[d] = client[d]
      /\ \A d \in Client : client'[d].req = client[d].req
    BY ZenonT(30), <1>0, <1>1 DEF ClientState
<1>3. /\ down' \in [Client -> Nat] /\ up' \in [Client -> Seq(Nat)]
      /\ \A d \in Client : down'[d] <= CAPACITY /\ Len(up'[d]) <= CAPACITY
    BY <1>0, <1>1 DEF Bounded
<1>4. /\ pending' \in Seq(Client)
      /\ \A i \in DOMAIN pending' : pending'[i] # c /\ \E k \in DOMAIN pending : pending'[i] = pending[k]
      /\ \A i, j \in DOMAIN pending' : pending'[i] = pending'[j] => i = j
    <2>1. \A i, j \in DOMAIN pending : pending[i] = pending[j] => i = j
        BY Zenon, <1>1 DEF OnePlace
    <2>2. CASE \E i \in DOMAIN pending : pending[i] = c
        <3>1. PICK i \in DOMAIN pending : pending[i] = c /\ pending' = remove(pending, i)
            BY Zenon, <2>2 DEF Exit
        <3>2. /\ remove(pending, i) \in Seq(Client)
              /\ \A j \in DOMAIN remove(pending, i) :
                    /\ remove(pending, i)[j] # pending[i]
                    /\ \E p \in DOMAIN pending : remove(pending, i)[j] = pending[p]
              /\ \A j, l \in DOMAIN remove(pending, i) :
                    remove(pending, i)[j] = remove(pending, i)[l] => j = l
            BY ONLY <1>1, <2>1, RemovesOne, Zenon
        <3> QED
            BY ONLY Zenon, <3>1, <3>2
    <2>3. CASE ~\E i \in DOMAIN pending : pending[i] = c
        BY Zenon, <1>1, <2>1, <2>3 DEF Exit
    <2> QED
        BY Zenon, <2>2, <2>3
<1>5. \A i \in DOMAIN pending' : pending'[i] \in Client
    BY <1>4
<1>6. \A i \in DOMAIN server.table : server.table[i].who \in Client
    BY Zenon, <1>0, DiskQuiet
<1>7. OnePlace'
    <2>1. ASSUME NEW i \in DOMAIN pending'
          PROVE  client'[pending'[i]].st = "open" /\ answered'[pending'[i]] = NoAnswer
        <3>1. PICK k \in DOMAIN pending : pending'[i] = pending[k] /\ pending'[i] # c
            BY Zenon, <1>4
        <3>2. client[pending[k]].st = "open" /\ answered[pending[k]] = NoAnswer
            BY Zenon, <1>1 DEF OnePlace
        <3> QED
            BY Zenon, <1>0, <1>2, <1>5, <3>1, <3>2
    <2>2. ASSUME NEW i \in DOMAIN server.table
          PROVE  /\ client'[server.table[i].who].st # "idle"
                 /\ \A j \in DOMAIN pending' : pending'[j] # server.table[i].who
        <3>1. /\ client[server.table[i].who].st # "idle"
              /\ \A j \in DOMAIN pending : pending[j] # server.table[i].who
            BY Zenon, <1>1 DEF OnePlace
        <3>2. client'[server.table[i].who].st # "idle"
            BY Zenon, <1>2, <1>6, <3>1
        <3> QED
            BY Zenon, <1>4, <3>1, <3>2
    <2> QED
        BY SMTT(30), <1>0, <1>1, <1>2, <1>4, <2>1, <2>2 DEF OnePlace
<1>8. PassSound'
    BY ZenonT(30), <1>0, <1>1, <1>2, <1>6 DEF PassSound, Req, Here
<1>9. TokenGuards' /\ Bounded' /\ ClientsTyped'
    BY <1>0, <1>1, <1>2, <1>3, <1>4 DEF TokenGuards, Bounded, ClientsTyped
<1> QED
    BY Zenon, <1>0, <1>7, <1>8, <1>9, DiskQuiet DEF FsInv, FsTyped

(* The table of sessions is a sequence of slots.                           *)
LEMMA TableFacts ==
    ASSUME FsInv
    PROVE  /\ server \in ServerState
           /\ server.table \in Seq(SlotState) /\ Len(server.table) \in Nat
           /\ DOMAIN server.table = 1 .. Len(server.table)
           /\ \A i \in DOMAIN server.table : /\ server.table[i] \in SlotState
                                             /\ server.table[i].who \in Client
                                             /\ server.table[i].buf \in Seq(Nat)
<1>1. server \in ServerState /\ server.table \in Seq(SlotState)
    BY Zenon DEF FsInv, FsTyped, ServerState
<1>2. Len(server.table) \in Nat /\ DOMAIN server.table = 1 .. Len(server.table)
    BY Zenon, <1>1, LenProperties
<1>3. \A i \in DOMAIN server.table : server.table[i] \in SlotState
    BY Zenon, <1>1, <1>2, ElementOfSeq
<1>4. \A i \in DOMAIN server.table : server.table[i].who \in Client /\ server.table[i].buf \in Seq(Nat)
    BY Zenon, <1>3 DEF SlotState
<1> QED
    BY Zenon, <1>1, <1>2, <1>3, <1>4

(* The loop's state with one of its variables assigned.                    *)
LEMMA ServerSet ==
    ASSUME NEW s \in ServerState
    PROVE  /\ \A v \in ServerPc : [s EXCEPT !.pc = v] \in ServerState
           /\ \A v \in Seq(SlotState) : [s EXCEPT !.table = v] \in ServerState
           /\ \A v \in Nat : [s EXCEPT !.i = v] \in ServerState
           /\ \A v \in Nat \ {0} : [s EXCEPT !.idx = v] \in ServerState
           /\ \A v \in SUBSET Nat : [s EXCEPT !.served = v] \in ServerState
           /\ \A v \in Nat : [s EXCEPT !.out = v] \in ServerState
           /\ \A v \in BOOLEAN : /\ [s EXCEPT !.stall_after_first_served = v] \in ServerState
                                  /\ [s EXCEPT !.stall_next_notify = v] \in ServerState
                                  /\ [s EXCEPT !.first = v] \in ServerState
<1>1. \A v \in ServerPc : [s EXCEPT !.pc = v] \in ServerState
    BY Zenon DEF ServerState
<1>2. \A v \in Seq(SlotState) : [s EXCEPT !.table = v] \in ServerState
    BY Zenon DEF ServerState
<1>3. \A v \in Nat : [s EXCEPT !.i = v] \in ServerState /\ [s EXCEPT !.out = v] \in ServerState
    BY Zenon DEF ServerState
<1>4. \A v \in Nat \ {0} : [s EXCEPT !.idx = v] \in ServerState
    BY Zenon DEF ServerState
<1>5. \A v \in SUBSET Nat : [s EXCEPT !.served = v] \in ServerState
    BY Zenon DEF ServerState
<1>6. \A v \in BOOLEAN : [s EXCEPT !.stall_after_first_served = v] \in ServerState
    BY Zenon DEF ServerState
<1>7. \A v \in BOOLEAN : [s EXCEPT !.stall_next_notify = v] \in ServerState
    BY Zenon DEF ServerState
<1>8. \A v \in BOOLEAN : [s EXCEPT !.first = v] \in ServerState
    BY Zenon DEF ServerState
<1> QED
    BY ZenonT(30), <1>1, <1>2, <1>3, <1>4, <1>5, <1>6, <1>7, <1>8

(* What a turn of the loop leaves alone: the disk and its history.         *)
LEMMA DeviceQuiet ==
    ASSUME FsInv, device' = device
    PROVE  DiskTyped' /\ LateSound' /\ AcknowledgedStays'
<1>1. files' = files /\ fs_health' = fs_health /\ fs_late' = fs_late /\ errors' = errors /\ may' = may
    BY Zenon DEF device
<1> QED
    BY ZenonT(30), <1>1 DEF FsInv, FsTyped, DiskTyped, LateSound, AcknowledgedStays, Contents

(* A pass begins, with or without a new session.                           *)
LEMMA AcceptStep ==
    ASSUME FsInv, session_try_accept
    PROVE  FsInv'
<1> DEFINE pass == [server EXCEPT !.pc = "poll", !.idx = 1, !.i = (@ + 1) % ACCEPT_POLL_INTERVAL]
           t == server.table
<1>0. /\ server.pc = "accept" /\ client' = client /\ up' = up /\ down' = down
      /\ answered' = answered /\ device' = device
    BY Zenon DEF session_try_accept
<1>1. /\ server \in ServerState /\ t \in Seq(SlotState) /\ Len(t) \in Nat /\ DOMAIN t = 1 .. Len(t)
      /\ \A i \in DOMAIN t : t[i] \in SlotState /\ t[i].who \in Client
    BY Zenon, TableFacts
<1>2. /\ ClientsTyped /\ OnePlace /\ PassSound /\ TokenGuards /\ Bounded
      /\ pending \in Seq(Client) /\ client \in [Client -> ClientState]
    BY Zenon DEF FsInv, FsTyped, ClientsTyped
<1>3. pass \in ServerState
    <2>1. PICK n \in Nat : n = (server.i + 1) % ACCEPT_POLL_INTERVAL
        BY <1>1, FsAssumption DEF ServerState
    <2> DEFINE s1 == [server EXCEPT !.pc = "poll"]
               s2 == [s1 EXCEPT !.idx = 1]
    <2>2. s1 \in ServerState
        BY ZenonT(30), <1>1, ServerSet DEF ServerPc
    <2>3. s2 \in ServerState
        <3>1. 1 \in Nat \ {0}
            OBVIOUS
        <3> HIDE DEF s1
        <3> QED
            BY ZenonT(30), <2>2, <3>1, ServerSet
    <2>4. [s2 EXCEPT !.i = n] \in ServerState
        <3> HIDE DEF s2
        <3> QED
            BY Zenon, <2>3, ServerSet
    <2> QED
        BY Zenon, <2>1, <2>4
<1>4. pass.pc = "poll" /\ pass.table = t /\ pass.idx = 1 /\ pass.served = {}
    BY Zenon, <1>0, <1>1, <1>2 DEF ServerState, PassSound
<1> HIDE DEF pass
<1>5. CASE server' = pass /\ pending' = pending
    <2>0. server'.table = server.table
        BY Zenon, <1>4, <1>5
    <2>1. /\ OnePlace' /\ Bounded' /\ TokenGuards' /\ ClientsTyped'
        <3>1. OnePlace'
            BY SMTT(30), <1>0, <1>2, <1>5, <2>0 DEF OnePlace
        <3>2. Bounded'
            BY Zenon, <1>0, <1>2, <1>5, <2>0 DEF Bounded
        <3> QED
            BY Zenon, <1>0, <1>2, <1>5, <3>1, <3>2 DEF TokenGuards, ClientsTyped
    <2>2. PassSound'
        BY Zenon, <1>0, <1>2, <1>4, <1>5 DEF PassSound
    <2> QED
        BY Zenon, <1>0, <1>3, <1>5, <2>1, <2>2, DeviceQuiet DEF FsInv, FsTyped
<1>6. CASE /\ Len(t) < MAX_FS_SESSIONS /\ pending # <<>>
           /\ server' = [pass EXCEPT !.table = Append(@, [who |-> Head(pending), buf |-> <<>>])]
           /\ pending' = Tail(pending)
    <2> DEFINE new == [who |-> Head(pending), buf |-> <<>>]
    <2>1. /\ Len(pending) \in Nat /\ DOMAIN pending = 1 .. Len(pending) /\ Len(pending) > 0
          /\ Head(pending) = pending[1] /\ Head(pending) \in Client
          /\ Tail(pending) \in Seq(Client) /\ Len(Tail(pending)) = Len(pending) - 1
          /\ \A i \in 1 .. Len(pending) - 1 : Tail(pending)[i] = pending[i + 1]
          /\ DOMAIN Tail(pending) = 1 .. Len(pending) - 1
        <3>1. Len(pending) \in Nat /\ DOMAIN pending = 1 .. Len(pending) /\ Len(pending) > 0
            BY SMTT(30), <1>2, <1>6, LenProperties, EmptySeq
        <3>2. /\ Head(pending) \in Client /\ Tail(pending) \in Seq(Client)
              /\ Len(Tail(pending)) = Len(pending) - 1
              /\ \A i \in 1 .. Len(Tail(pending)) : Tail(pending)[i] = pending[i + 1]
            BY Zenon, <1>2, <1>6, HeadTailProperties
        <3>3. Head(pending) = pending[1]
            BY <1>2, <1>6
        <3> QED
            BY Zenon, <3>1, <3>2, <3>3, LenProperties
    <2>2. /\ new \in SlotState /\ new.who = pending[1] /\ Len(new.buf) = 0
        BY <2>1 DEF SlotState
    <2> HIDE DEF new
    <2>3. /\ Append(t, new) \in Seq(SlotState) /\ Len(Append(t, new)) = Len(t) + 1
          /\ \A i \in 1 .. Len(t) : Append(t, new)[i] = t[i]
          /\ Append(t, new)[Len(t) + 1] = new
        BY <1>1, <2>2, AppendProperties
    <2>4. /\ server' \in ServerState /\ server'.table = Append(t, new) /\ server'.pc = "poll"
          /\ server'.idx = 1 /\ server'.served = {}
        BY ZenonT(30), <1>3, <1>4, <1>6, <2>3 DEF ServerState, new
    <2>5. DOMAIN server'.table = 1 .. Len(t) + 1
        BY Zenon, <2>3, <2>4, LenProperties
    <2>6. /\ client[pending[1]].st = "open" /\ answered[pending[1]] = NoAnswer
          /\ \A i \in DOMAIN t : t[i].who # pending[1]
        BY SMTT(30), <1>2, <2>1 DEF OnePlace
    <2>7. \A i, j \in DOMAIN server'.table : server'.table[i].who = server'.table[j].who => i = j
        BY SMTT(30), <1>1, <1>2, <2>2, <2>3, <2>4, <2>5, <2>6 DEF OnePlace
    <2>8. \A i, j \in DOMAIN pending' : pending'[i] = pending'[j] => i = j
        <3>1. \A i, j \in DOMAIN pending : pending[i] = pending[j] => i = j
            BY Zenon, <1>2 DEF OnePlace
        <3> QED
            BY SMTT(30), <1>6, <2>1, <3>1
    <2>9. \A i \in DOMAIN pending' : /\ client[pending'[i]].st = "open" /\ answered[pending'[i]] = NoAnswer
                                     /\ pending'[i] # pending[1]
                                     /\ \E j \in DOMAIN pending : pending'[i] = pending[j]
        <3> SUFFICES ASSUME NEW i \in DOMAIN pending'
                     PROVE  /\ client[pending'[i]].st = "open" /\ answered[pending'[i]] = NoAnswer
                            /\ pending'[i] # pending[1]
                            /\ \E j \in DOMAIN pending : pending'[i] = pending[j]
            BY Zenon
        <3>1. i + 1 \in DOMAIN pending /\ pending'[i] = pending[i + 1] /\ i + 1 # 1 /\ 1 \in DOMAIN pending
            BY SMTT(30), <1>6, <2>1
        <3> QED
            BY Zenon, <1>2, <3>1 DEF OnePlace
    <2>10. \A i \in DOMAIN server'.table : /\ client[server'.table[i].who].st # "idle"
                                           /\ \A j \in DOMAIN pending' : pending'[j] # server'.table[i].who
        <3> SUFFICES ASSUME NEW i \in DOMAIN server'.table
                     PROVE  /\ client[server'.table[i].who].st # "idle"
                            /\ \A j \in DOMAIN pending' : pending'[j] # server'.table[i].who
            BY Zenon
        <3>1. CASE i = Len(t) + 1
            BY SMTT(30), <2>2, <2>3, <2>4, <2>6, <2>9, <3>1
        <3>2. CASE i \in DOMAIN t
            BY SMTT(30), <1>1, <1>2, <2>3, <2>4, <2>9, <3>2 DEF OnePlace
        <3> QED
            BY SMTT(30), <1>1, <2>5, <3>1, <3>2
    <2>11. OnePlace'
        BY Zenon, <1>0, <1>2, <2>7, <2>8, <2>9, <2>10 DEF OnePlace
    <2>12. \A i \in DOMAIN server'.table : answered[server'.table[i].who] = NoAnswer
        <3>1. \A i \in DOMAIN t : answered[t[i].who] = NoAnswer
            BY Zenon, <1>0, <1>2 DEF PassSound
        <3> QED
            BY SMTT(30), <1>1, <2>2, <2>3, <2>4, <2>5, <2>6, <3>1
    <2>13. PassSound'
        BY Zenon, <1>0, <2>4, <2>12 DEF PassSound
    <2>14. Bounded'
        <3>1. MAX_FS_SESSIONS \in Nat /\ FS_MAX_PENDING_BYTES \in Nat
            BY Zenon, FsAssumption
        <3>2. Len(server'.table) <= MAX_FS_SESSIONS
            BY SMTT(30), <1>1, <1>6, <2>3, <2>4, <3>1
        <3>3. \A i \in DOMAIN server'.table : Len(server'.table[i].buf) <= FS_MAX_PENDING_BYTES
            BY SMTT(30), <1>1, <1>2, <2>2, <2>3, <2>4, <2>5, <3>1 DEF Bounded
        <3> QED
            BY Zenon, <1>0, <1>2, <3>2, <3>3 DEF Bounded
    <2> QED
        BY Zenon, <1>0, <1>2, <1>6, <2>1, <2>4, <2>11, <2>13, <2>14, DeviceQuiet
           DEF FsInv, FsTyped, ClientsTyped, TokenGuards
<1> QED
    BY Zenon, <1>5, <1>6 DEF session_try_accept, pass

(* One byte of one session, or the next session.                           *)
LEMMA RecvStep ==
    ASSUME FsInv, session_try_recv
    PROVE  FsInv'
<1> DEFINE t == server.table
           x == server.idx
           w == t[x].who
<1>0. /\ server.pc = "poll" /\ x <= Len(t) /\ client' = client /\ pending' = pending /\ down' = down
      /\ answered' = answered /\ device' = device
    BY Zenon DEF session_try_recv
<1>1. /\ server \in ServerState /\ t \in Seq(SlotState) /\ Len(t) \in Nat /\ DOMAIN t = 1 .. Len(t)
      /\ \A i \in DOMAIN t : t[i] \in SlotState /\ t[i].who \in Client /\ t[i].buf \in Seq(Nat)
    BY Zenon, TableFacts
<1>2. /\ ClientsTyped /\ OnePlace /\ PassSound /\ TokenGuards /\ Bounded
      /\ pending \in Seq(Client) /\ client \in [Client -> ClientState] /\ up \in [Client -> Seq(Nat)]
    BY Zenon DEF FsInv, FsTyped, ClientsTyped
<1>3. x \in DOMAIN t /\ x \in Nat \ {0} /\ w \in Client /\ up[w] \in Seq(Nat)
    BY <1>0, <1>1, <1>2 DEF ServerState
<1>4. CASE up[w] = <<>>
    <2>1. server' = [server EXCEPT !.idx = @ + 1] /\ up' = up
        BY Zenon, <1>4 DEF session_try_recv, Here
    <2>2. /\ server' \in ServerState /\ server'.table = t /\ server'.pc = "poll"
          /\ server'.idx = x + 1 /\ server'.served = server.served
        <3>1. x + 1 \in Nat \ {0}
            BY SMTT(30), <1>3
        <3> QED
            BY ZenonT(30), <1>0, <1>1, <2>1, <3>1 DEF ServerState
    <2>3. OnePlace'
        BY SMTT(30), <1>0, <1>2, <2>2 DEF OnePlace
    <2>4. PassSound'
        <3>1. \A k \in server.served : k < x + 1
            BY <1>1, <1>2, <1>3 DEF PassSound, ServerState
        <3> QED
            BY Zenon, <1>0, <1>2, <2>2, <3>1 DEF PassSound
    <2>5. Bounded'
        BY Zenon, <1>0, <1>2, <2>1, <2>2 DEF Bounded
    <2> QED
        BY Zenon, <1>0, <1>2, <2>1, <2>2, <2>3, <2>4, <2>5, DeviceQuiet
           DEF FsInv, FsTyped, ClientsTyped, TokenGuards
<1>5. CASE up[w] # <<>>
    <2> DEFINE buf == Append(t[x].buf, Head(up[w]))
    <2>1. /\ Head(up[w]) \in Nat /\ Tail(up[w]) \in Seq(Nat) /\ Len(Tail(up[w])) = Len(up[w]) - 1
          /\ Len(up[w]) \in Nat
        BY Zenon, <1>3, <1>5, HeadTailProperties, LenProperties
    <2>2. buf \in Seq(Nat)
        BY ZenonT(30), <1>1, <1>3, <2>1, AppendProperties
    <2> HIDE DEF buf
    <2>3. /\ up' = [up EXCEPT ![w] = Tail(@)]
          /\ server' = IF decode(buf) THEN [server EXCEPT !.pc = "verify", !.table[x].buf = <<>>]
                       ELSE [server EXCEPT !.idx = @ + 1, !.table[x].buf = Kept(buf)]
        BY Zenon, <1>5 DEF session_try_recv, Here, buf
    <2>4. up' \in [Client -> Seq(Nat)] /\ \A c \in Client : Len(up'[c]) <= CAPACITY
        <3>1. Len(Tail(up[w])) <= CAPACITY
            BY SMTT(30), <1>2, <1>3, <2>1, FsAssumption DEF Bounded
        <3> QED
            BY ZenonT(30), <1>2, <1>3, <2>1, <2>3, <3>1 DEF Bounded
    <2>5. PICK b \in Seq(Nat) : /\ Len(b) <= FS_MAX_PENDING_BYTES
                                /\ \/ server' = [server EXCEPT !.pc = "verify", !.table[x].buf = b]
                                   \/ server' = [server EXCEPT !.idx = @ + 1, !.table[x].buf = b]
        <3>1. /\ <<>> \in Seq(Nat) /\ Len(<<>>) <= FS_MAX_PENDING_BYTES
              /\ Kept(buf) \in Seq(Nat) /\ Len(Kept(buf)) <= FS_MAX_PENDING_BYTES
            BY <2>2, LenProperties, FsAssumption DEF Kept
        <3> QED
            BY ZenonT(30), <2>3, <3>1
    <2> DEFINE u == [t EXCEPT ![x].buf = b]
    <2>6. /\ u \in Seq(SlotState) /\ Len(u) = Len(t) /\ DOMAIN u = DOMAIN t
          /\ \A i \in DOMAIN t : u[i].who = t[i].who /\ Len(u[i].buf) <= FS_MAX_PENDING_BYTES
        <3> DEFINE slot == [t[x] EXCEPT !.buf = b]
        <3>1. slot \in SlotState /\ slot.who = t[x].who /\ slot.buf = b
            BY Zenon, <1>1, <1>3 DEF SlotState
        <3>2. u = [t EXCEPT ![x] = slot]
            BY Zenon
        <3> HIDE DEF slot, u
        <3>3. u \in Seq(SlotState) /\ Len(u) = Len(t) /\ DOMAIN u = DOMAIN t
            BY SMTT(30), <1>1, <1>3, <3>1, <3>2, ExceptSeq, LenProperties
        <3>4. \A i \in DOMAIN t : u[i] = IF i = x THEN slot ELSE t[i]
            BY Zenon, <1>1, <3>2
        <3> QED
            BY ZenonT(30), <1>2, <2>5, <3>1, <3>3, <3>4 DEF Bounded
    <2>7. /\ server' \in ServerState /\ server'.table = u /\ server'.served = server.served
          /\ \/ server'.pc = "verify" /\ server'.idx = x
             \/ server'.pc = "poll" /\ server'.idx = x + 1
        <3> HIDE DEF u
        <3>1. x + 1 \in Nat \ {0}
            BY <1>3
        <3>2. CASE server' = [server EXCEPT !.pc = "verify", !.table[x].buf = b]
            <4>1. server' = [server EXCEPT !.pc = "verify", !.table = u]
                BY Zenon, <1>1, <3>2 DEF u, ServerState
            <4>2. [server EXCEPT !.pc = "verify"] \in ServerState
                BY ZenonT(30), <1>1, ServerSet DEF ServerPc
            <4>3. server' \in ServerState
                BY ZenonT(30), <2>6, <4>1, <4>2, ServerSet
            <4> QED
                BY Zenon, <1>1, <4>1, <4>3 DEF ServerState
        <3>3. CASE server' = [server EXCEPT !.idx = @ + 1, !.table[x].buf = b]
            <4>1. server' = [server EXCEPT !.idx = x + 1, !.table = u]
                BY Zenon, <1>1, <3>3 DEF u, ServerState
            <4>2. [server EXCEPT !.idx = x + 1] \in ServerState
                BY Zenon, <1>1, <3>1, ServerSet
            <4>3. server' \in ServerState
                BY ZenonT(30), <2>6, <4>1, <4>2, ServerSet
            <4> QED
                BY Zenon, <1>0, <1>1, <4>1, <4>3 DEF ServerState
        <3> QED
            BY Zenon, <2>5, <3>2, <3>3
    <2> HIDE DEF u
    <2>8. OnePlace'
        <3>1. \A i, j \in DOMAIN u : u[i].who = u[j].who => i = j
            BY Zenon, <1>2, <2>6 DEF OnePlace
        <3>2. \A i \in DOMAIN u : /\ client[u[i].who].st # "idle"
                                   /\ \A j \in DOMAIN pending : pending[j] # u[i].who
            BY ZenonT(30), <1>2, <2>6 DEF OnePlace
        <3> QED
            BY Zenon, <1>0, <1>2, <2>7, <3>1, <3>2 DEF OnePlace
    <2>9. PassSound'
        <3>1. \A i \in DOMAIN t : answered[t[i].who] # NoAnswer => i \in server.served
            BY Zenon, <1>0, <1>2 DEF PassSound
        <3>2. \A k \in server.served : k < server'.idx /\ k \in DOMAIN t
            BY SMTT(30), <1>1, <1>2, <1>3, <2>7 DEF PassSound, ServerState
        <3> QED
            BY Zenon, <1>0, <1>3, <2>6, <2>7, <3>1, <3>2 DEF PassSound
    <2>10. Bounded'
        BY Zenon, <1>0, <1>2, <2>4, <2>6, <2>7 DEF Bounded
    <2> QED
        BY Zenon, <1>0, <1>2, <2>4, <2>7, <2>8, <2>9, <2>10, DeviceQuiet
           DEF FsInv, FsTyped, ClientsTyped, TokenGuards
<1> QED
    BY Zenon, <1>4, <1>5

(* A pass ends: the slots it answered leave, the last first.               *)
LEMMA SweepStep ==
    ASSUME FsInv, Sweep
    PROVE  FsInv'
<1> DEFINE t == server.table
<1>0. /\ server.pc = "poll" /\ server.idx > Len(t) /\ client' = client /\ pending' = pending /\ up' = up
      /\ down' = down /\ answered' = answered /\ device' = device
    BY ZenonT(30) DEF Sweep
<1>1. /\ server \in ServerState /\ t \in Seq(SlotState) /\ Len(t) \in Nat /\ DOMAIN t = 1 .. Len(t)
      /\ \A i \in DOMAIN t : t[i] \in SlotState /\ t[i].who \in Client /\ t[i].buf \in Seq(Nat)
      /\ server.idx \in Nat /\ server.served \in SUBSET Nat
    BY Zenon, TableFacts DEF ServerState
<1>2. /\ ClientsTyped /\ OnePlace /\ PassSound /\ TokenGuards /\ Bounded
      /\ pending \in Seq(Client) /\ client \in [Client -> ClientState]
    BY Zenon DEF FsInv, FsTyped, ClientsTyped
<1>3. CASE server.served = {} /\ server' = [server EXCEPT !.pc = "accept"]
    <2>1. server' \in ServerState /\ server'.table = t /\ server'.pc = "accept"
          /\ server'.idx = server.idx /\ server'.served = {}
        BY Zenon, <1>1, <1>3 DEF ServerState, ServerPc
    <2>2. OnePlace'
        BY SMTT(30), <1>0, <1>2, <2>1 DEF OnePlace
    <2>3. PassSound'
        BY Zenon, <1>0, <1>2, <1>3, <2>1 DEF PassSound
    <2>4. Bounded'
        BY Zenon, <1>0, <1>2, <2>1 DEF Bounded
    <2> QED
        BY Zenon, <1>0, <1>2, <2>1, <2>2, <2>3, <2>4, DeviceQuiet DEF FsInv, FsTyped, ClientsTyped, TokenGuards
<1>4. ASSUME NEW last \in server.served, \A idx \in server.served : idx <= last,
             server' = [server EXCEPT !.table = remove(@, last), !.served = @ \ {last}]
      PROVE  FsInv'
    <2> DEFINE u == remove(t, last)
    <2>1. last \in DOMAIN t /\ last \in Nat
        BY Zenon, <1>1, <1>2 DEF PassSound
    <2>2. /\ u \in Seq(SlotState) /\ Len(u) = Len(t) - 1
          /\ \A j \in 1 .. Len(t) - 1 : u[j] = IF j < last THEN t[j] ELSE t[j + 1]
        BY ZenonT(30), <1>1, <2>1, RemoveFacts
    <2> HIDE DEF u
    <2>3. DOMAIN u = 1 .. Len(t) - 1
        BY Zenon, <2>2, LenProperties
    <2>4. server' = [server EXCEPT !.table = u, !.served = @ \ {last}]
        BY Zenon, <1>4 DEF u
    <2>5. /\ server' \in ServerState /\ server'.table = u /\ server'.served = server.served \ {last}
          /\ server'.pc = "poll" /\ server'.idx = server.idx
        <3>1. [server EXCEPT !.table = u] \in ServerState
            BY Zenon, <1>1, <2>2, ServerSet
        <3>2. server.served \ {last} \in SUBSET Nat
            BY Zenon, <1>1
        <3>3. server' \in ServerState
            BY ZenonT(30), <2>4, <3>1, <3>2, ServerSet
        <3> QED
            BY Zenon, <1>0, <1>1, <2>4, <3>3 DEF ServerState
    <2>6. ASSUME NEW i \in DOMAIN u
          PROVE  \E p \in DOMAIN t : u[i] = t[p] /\ p # last /\ p = IF i < last THEN i ELSE i + 1
        <3>1. CASE i < last
            BY SMTT(30), <1>1, <2>1, <2>2, <2>3, <3>1
        <3>2. CASE i >= last
            BY SMTT(30), <1>1, <2>1, <2>2, <2>3, <3>2
        <3> QED
            BY SMTT(30), <2>1, <2>3, <3>1, <3>2
    <2>7. ASSUME NEW i \in DOMAIN u, NEW j \in DOMAIN u, u[i].who = u[j].who
          PROVE  i = j
        <3>1. PICK p \in DOMAIN t : u[i] = t[p] /\ p = IF i < last THEN i ELSE i + 1
            BY Zenon, <2>6
        <3>2. PICK q \in DOMAIN t : u[j] = t[q] /\ q = IF j < last THEN j ELSE j + 1
            BY Zenon, <2>6
        <3>3. p = q
            BY Zenon, <1>2, <2>7, <3>1, <3>2 DEF OnePlace
        <3> QED
            BY SMTT(30), <1>1, <2>1, <2>3, <3>1, <3>2, <3>3
    <2>8. OnePlace'
        <3>1. \A i \in DOMAIN u : /\ client[u[i].who].st # "idle"
                                  /\ \A j \in DOMAIN pending : pending[j] # u[i].who
            BY SMTT(30), <1>2, <2>6 DEF OnePlace
        <3> QED
            BY Zenon, <1>0, <1>2, <2>5, <2>7, <3>1 DEF OnePlace
    <2>9. PassSound'
        <3>1. \A k \in server'.served : k \in DOMAIN u /\ k < server.idx
            <4> SUFFICES ASSUME NEW k \in server'.served PROVE k \in DOMAIN u /\ k < server.idx
                BY Zenon
            <4>1. k \in server.served /\ k # last
                BY Zenon, <2>5
            <4>2. k \in DOMAIN t /\ k <= last /\ k < server.idx /\ k \in Nat
                BY Zenon, <1>1, <1>2, <1>4, <4>1 DEF PassSound
            <4> QED
                BY SMTT(30), <1>1, <2>1, <2>3, <4>1, <4>2
        <3>2. ASSUME NEW i \in DOMAIN u, answered[u[i].who] # NoAnswer
              PROVE  i \in server'.served
            <4>1. PICK p \in DOMAIN t : u[i] = t[p] /\ p # last /\ p = IF i < last THEN i ELSE i + 1
                BY Zenon, <2>6
            <4>2. p \in server.served
                BY Zenon, <1>0, <1>2, <3>2, <4>1 DEF PassSound
            <4>3. p <= last
                BY Zenon, <1>4, <4>2
            <4>4. p = i
                BY SMTT(30), <1>1, <2>1, <2>3, <4>1, <4>3
            <4> QED
                BY Zenon, <2>5, <4>1, <4>2, <4>4
        <3> QED
            BY Zenon, <1>0, <2>5, <3>1, <3>2 DEF PassSound
    <2>10. Bounded'
        <3>1. Len(u) <= MAX_FS_SESSIONS
            BY SMTT(30), <1>1, <1>2, <2>2, FsAssumption DEF Bounded
        <3>2. \A i \in DOMAIN u : Len(u[i].buf) <= FS_MAX_PENDING_BYTES
            BY Zenon, <1>2, <2>6 DEF Bounded
        <3> QED
            BY Zenon, <1>0, <1>2, <2>5, <3>1, <3>2 DEF Bounded
    <2> QED
        BY Zenon, <1>0, <1>2, <2>5, <2>8, <2>9, <2>10, DeviceQuiet DEF FsInv, FsTyped, ClientsTyped, TokenGuards
<1> QED
    BY ZenonT(30), <1>3, <1>4 DEF Sweep

(* The request at hand gets its answer, which is not told more than its    *)
(* token covers.                                                           *)
LEMMA ReplyStep ==
    ASSUME FsInv, server.pc \in {"verify", "lookup", "Read", "Write"}, NEW r, Reply(r), Quiet,
           r # NoAnswer, r # ErrorOf("Unauthorized") => Req.token = Req.name
    PROVE  ClientsTyped' /\ server' \in ServerState /\ OnePlace' /\ PassSound' /\ Bounded' /\ TokenGuards'
<1> DEFINE t == server.table
           x == server.idx
           w == t[x].who
           out == ResponseBytes(r)
           notify == server.stall_next_notify /\ server.pc = "verify"
<1>0. /\ client' = client /\ pending' = pending /\ up' = up /\ down' = down
      /\ server' = [server EXCEPT !.pc = "send", !.out = out, !.stall_next_notify = notify]
      /\ answered' = [answered EXCEPT ![w] = r]
    BY Zenon DEF Reply, Quiet, Here
<1>1. /\ server \in ServerState /\ t \in Seq(SlotState) /\ DOMAIN t = 1 .. Len(t)
      /\ \A i \in DOMAIN t : t[i].who \in Client
      /\ x \in DOMAIN t
    BY Zenon, TableFacts DEF FsInv, PassSound
<1>2. /\ ClientsTyped /\ OnePlace /\ PassSound /\ TokenGuards /\ Bounded
      /\ client \in [Client -> ClientState] /\ answered = [c \in Client |-> answered[c]]
    BY Zenon DEF FsInv, FsTyped, ClientsTyped
<1>3. /\ server' \in ServerState /\ server'.pc = "send" /\ server'.table = t /\ server'.idx = x
      /\ server'.served = server.served
    <2>1. out \in Nat /\ notify \in BOOLEAN
        BY Zenon DEF ResponseBytes
    <2> HIDE DEF out, notify
    <2> DEFINE s1 == [server EXCEPT !.pc = "send"]
               s2 == [s1 EXCEPT !.out = out]
    <2>2. s1 \in ServerState
        BY ZenonT(30), <1>1, ServerSet DEF ServerPc
    <2>3. s2 \in ServerState
        <3> HIDE DEF s1
        <3> QED
            BY Zenon, <2>1, <2>2, ServerSet
    <2>4. [s2 EXCEPT !.stall_next_notify = notify] \in ServerState
        <3> HIDE DEF s2
        <3> QED
            BY ZenonT(30), <2>1, <2>3, ServerSet
    <2> QED
        BY Zenon, <1>0, <1>1, <2>4 DEF ServerState
<1>4. /\ answered' = [c \in Client |-> answered'[c]]
      /\ answered'[w] = r /\ \A c \in Client : c # w => answered'[c] = answered[c]
    BY Zenon, <1>0, <1>1, <1>2
<1>5. OnePlace'
    <2>0. pending \in Seq(Client)
        BY Zenon, <1>2 DEF ClientsTyped
    <2>1. \A i \in DOMAIN pending : pending[i] # w /\ pending[i] \in Client
        <3>1. \A i \in DOMAIN pending : pending[i] \in Client
            BY ONLY SMTT(30), <2>0
        <3>2. \A i \in DOMAIN pending : pending[i] # w
            BY Zenon, <1>1, <1>2 DEF OnePlace
        <3> QED
            BY ONLY Zenon, <3>1, <3>2
    <2>2. client[w].st # "idle"
        BY Zenon, <1>1, <1>2 DEF OnePlace
    <2>3. \A i \in DOMAIN pending : answered'[pending[i]] = NoAnswer
        BY ZenonT(30), <1>2, <1>4, <2>1 DEF OnePlace
    <2>4. \A c \in Client : client[c].st = "idle" => answered'[c] = NoAnswer
        BY Zenon, <1>2, <1>4, <2>2 DEF OnePlace
    <2> QED
        BY SMTT(30), <1>0, <1>2, <1>3, <2>3, <2>4 DEF OnePlace
<1>6. PassSound'
    <2>1. \A i \in DOMAIN t : answered'[t[i].who] # NoAnswer => i \in server.served \/ i = x
        BY Zenon, <1>1, <1>2, <1>4 DEF PassSound, OnePlace
    <2> QED
        BY Zenon, <1>1, <1>2, <1>3, <2>1 DEF PassSound
<1>7. Bounded'
    BY Zenon, <1>0, <1>2, <1>3 DEF Bounded
<1>8. TokenGuards'
    BY Zenon, <1>0, <1>1, <1>2, <1>4 DEF TokenGuards, Req, Here
<1> QED
    BY Zenon, <1>0, <1>2, <1>3, <1>4, <1>5, <1>6, <1>7, <1>8 DEF ClientsTyped

(* The handlers go on to their next step without an answer.                *)
LEMMA GoesOn ==
    ASSUME FsInv, server.pc \in {"verify", "lookup"}, Quiet, answered' = answered,
           NEW p \in {"lookup", "Read", "Write"}, server' = [server EXCEPT !.pc = p],
           Req.token = Req.name, p # "lookup" => Req.name \in Names
    PROVE  ClientsTyped' /\ server' \in ServerState /\ OnePlace' /\ PassSound' /\ Bounded' /\ TokenGuards'
<1>0. client' = client /\ pending' = pending /\ up' = up /\ down' = down
    BY Zenon DEF Quiet
<1>1. server \in ServerState
    BY Zenon, TableFacts
<1>2. ClientsTyped /\ OnePlace /\ PassSound /\ TokenGuards /\ Bounded
    BY Zenon DEF FsInv, FsTyped
<1>3. /\ server' \in ServerState /\ server'.pc = p /\ server'.table = server.table
      /\ server'.idx = server.idx /\ server'.served = server.served
    BY Zenon, <1>1 DEF ServerState, ServerPc
<1>4. OnePlace'
    BY <1>0, <1>2, <1>3 DEF OnePlace
<1>5. PassSound'
    BY ZenonT(30), <1>0, <1>2, <1>3 DEF PassSound, Req, Here
<1>6. Bounded' /\ TokenGuards' /\ ClientsTyped'
    BY Zenon, <1>0, <1>2, <1>3 DEF Bounded, TokenGuards, ClientsTyped
<1> QED
    BY Zenon, <1>3, <1>4, <1>5, <1>6

(* The token check, the size check and the quarantine check.               *)
LEMMA HandleStep ==
    ASSUME FsInv, Handle
    PROVE  FsInv'
<1>0. server.pc = "verify" /\ Quiet /\ device' = device
    BY Zenon DEF Handle
<1>1. ErrorOf("Unauthorized") # NoAnswer /\ ErrorOf("BadRequest") # NoAnswer
      /\ ErrorOf("DeviceFailed") # NoAnswer
    BY Zenon DEF ErrorOf, NoAnswer
<1>2. verify_file_token(Here.who, Req.name) => Req.token = Req.name
    BY Zenon DEF verify_file_token, Req
<1>3. ClientsTyped' /\ server' \in ServerState /\ OnePlace' /\ PassSound' /\ Bounded' /\ TokenGuards'
    <2>1. CASE Reply(ErrorOf("Unauthorized"))
        BY Zenon, <1>0, <1>1, <2>1, ReplyStep
    <2>2. CASE /\ Reply(ErrorOf("BadRequest")) \/ Reply(ErrorOf("DeviceFailed"))
               /\ verify_file_token(Here.who, Req.name)
        BY Zenon, <1>0, <1>1, <1>2, <2>2, ReplyStep
    <2>3. CASE /\ server' = [server EXCEPT !.pc = "lookup"] /\ answered' = answered
               /\ verify_file_token(Here.who, Req.name)
        BY Zenon, <1>0, <1>2, <2>3, GoesOn
    <2> QED
        BY Zenon, <2>1, <2>2, <2>3 DEF Handle
<1> QED
    BY Zenon, <1>0, <1>3, DeviceQuiet DEF FsInv, FsTyped

(* A request of the device that leaves the sectors alone: the device stays *)
(* healthy, reports an error, or is quarantined.                           *)
LEMMA SectorsQuiet ==
    ASSUME FsInv, files' = files, fs_late' = fs_late, may' = may, Completes \/ ReportsError \/ TimesOut
    PROVE  DiskTyped' /\ LateSound' /\ AcknowledgedStays'
<1>1. fs_health' \in {"Healthy", "Faulted"} /\ errors' \in 0 .. MAX_ERRORS /\ fs_health = "Healthy"
    BY SMTT(30), FsAssumption DEF Completes, ReportsError, TimesOut, FsInv, FsTyped, DiskTyped
<1> QED
    BY Zenon, <1>1 DEF FsInv, FsTyped, DiskTyped, LateSound, AcknowledgedStays, Contents

(* The lookup of a name, and the reading of a file.                        *)
LEMMA ReadStep ==
    ASSUME FsInv, find_entry_by_display_name \/ handle_read_ipc_request
    PROVE  FsInv'
<1>0. /\ server.pc \in {"lookup", "Read"} /\ Quiet
      /\ files' = files /\ fs_late' = fs_late /\ may' = may
    BY Zenon DEF find_entry_by_display_name, handle_read_ipc_request
<1>1. Completes \/ ReportsError \/ TimesOut
    BY Zenon DEF find_entry_by_display_name, handle_read_ipc_request
<1>2. Req.token = Req.name
    BY Zenon, <1>0 DEF FsInv, PassSound
<1>3. /\ ErrorOf("NotFound") # NoAnswer /\ ErrorOf("DeviceFailed") # NoAnswer
      /\ \A s : DataOf(s) # NoAnswer
    BY Zenon DEF ErrorOf, DataOf, NoAnswer
<1>4. ClientsTyped' /\ server' \in ServerState /\ OnePlace' /\ PassSound' /\ Bounded' /\ TokenGuards'
    <2>1. ASSUME NEW r, Reply(r), r # NoAnswer
          PROVE  ClientsTyped' /\ server' \in ServerState /\ OnePlace' /\ PassSound' /\ Bounded' /\ TokenGuards'
        BY Zenon, <1>0, <1>2, <2>1, ReplyStep
    <2>2. CASE \/ Reply(ErrorOf("NotFound")) \/ Reply(ErrorOf("DeviceFailed"))
               \/ \E s : Reply(DataOf(s))
        BY Zenon, <1>3, <2>1, <2>2
    <2>3. CASE /\ server.pc = "lookup" /\ server' = [server EXCEPT !.pc = Req.kind] /\ answered' = answered
               /\ Req.name \in Names
        <3>1. Req.kind \in {"Read", "Write"}
            <4>1. server.table[server.idx].who \in Client
                BY Zenon, <1>0, TableFacts DEF FsInv, PassSound
            <4>2. Req \in Asked
                BY Zenon, <4>1 DEF FsInv, FsTyped, ClientsTyped, ClientState, Req, Here
            <4> QED
                BY SMTT(30), <4>2, FsAssumption DEF Asked
        <3> QED
            BY Zenon, <1>0, <1>2, <2>3, <3>1, GoesOn
    <2> QED
        BY Zenon, <2>2, <2>3 DEF find_entry_by_display_name, handle_read_ipc_request
<1> QED
    BY Zenon, <1>0, <1>1, <1>4, SectorsQuiet DEF FsInv, FsTyped

(* A write is done, refused by the device, or lost sight of.               *)
LEMMA WriteStep ==
    ASSUME FsInv, handle_write_ipc_request
    PROVE  FsInv'
<1> DEFINE w == Here.who
           n == Req.name
           written == [files EXCEPT ![n][1] = w]
<1>0. server.pc = "Write" /\ Quiet
    BY Zenon DEF handle_write_ipc_request
<1>1. /\ Req.token = Req.name /\ n \in Names /\ w \in Client
      /\ Contents(files) /\ may \in [Names -> SUBSET Content] /\ Length[n] \in Nat \ {0}
      /\ errors \in 0 .. MAX_ERRORS /\ MAX_ERRORS \in Nat /\ LateSound
      /\ \A m \in Names : files[m][1] \in may[m]
    BY Zenon, <1>0, TableFacts, FsAssumption DEF FsInv, FsTyped, PassSound, DiskTyped, AcknowledgedStays, Here
<1>2. /\ Contents(written) /\ written[n][1] = w
      /\ \A m \in Names : m # n => written[m] = files[m]
    <2>1. files[n] \in [1 .. Length[n] -> Content] /\ 1 \in 1 .. Length[n] /\ w \in Content
        BY <1>1 DEF Contents, Content
    <2>2. [files[n] EXCEPT ![1] = w] \in [1 .. Length[n] -> Content]
          /\ [files[n] EXCEPT ![1] = w][1] = w
        BY ZenonT(30), <2>1
    <2> QED
        BY ZenonT(30), <1>1, <2>2 DEF Contents
<1> HIDE DEF written
<1>3. Ok # NoAnswer /\ ErrorOf("DeviceFailed") # NoAnswer
    BY Zenon DEF Ok, ErrorOf, NoAnswer
<1>4. ClientsTyped' /\ server' \in ServerState /\ OnePlace' /\ PassSound' /\ Bounded' /\ TokenGuards'
    <2>1. Reply(Ok) \/ Reply(ErrorOf("DeviceFailed"))
        BY Zenon DEF handle_write_ipc_request
    <2> QED
        BY Zenon, <1>0, <1>1, <1>3, <2>1, ReplyStep
<1>5. DiskTyped' /\ LateSound' /\ AcknowledgedStays'
    <2>0. w \in Content
        BY Zenon, <1>1 DEF Content
    <2>1. CASE /\ Completes /\ files' = written /\ may' = [may EXCEPT ![n] = {w}] /\ fs_late' = fs_late
        <3>1. fs_health' = "Healthy" /\ fs_late = {} /\ errors' = errors
            BY Zenon, <1>1, <2>1 DEF Completes, LateSound
        <3>2. may' \in [Names -> SUBSET Content] /\ \A m \in Names : files'[m][1] \in may'[m]
            BY Zenon, <1>1, <1>2, <2>0, <2>1
        <3> QED
            BY Zenon, <1>1, <1>2, <2>1, <3>1, <3>2 DEF DiskTyped, LateSound, AcknowledgedStays
    <2>2. CASE /\ ReportsError /\ files' \in {files, written}
               /\ may' = [may EXCEPT ![n] = @ \cup {w}] /\ fs_late' = fs_late
        <3>1. fs_health' = "Healthy" /\ fs_late = {} /\ errors' \in 0 .. MAX_ERRORS
            BY SMTT(30), <1>1, <2>2 DEF ReportsError, LateSound
        <3>2. may' \in [Names -> SUBSET Content] /\ \A m \in Names : files'[m][1] \in may'[m]
            BY Zenon, <1>1, <1>2, <2>0, <2>2
        <3> QED
            BY Zenon, <1>1, <1>2, <2>2, <3>1, <3>2 DEF DiskTyped, LateSound, AcknowledgedStays
    <2>3. CASE /\ TimesOut /\ files' = files
               /\ fs_late' = IF server.stall_next_notify THEN {} ELSE {written}
               /\ may' = [may EXCEPT ![n] = @ \cup {w}]
        <3>1. fs_health' = "Faulted" /\ errors' = errors
            BY Zenon, <2>3 DEF TimesOut
        <3>2. /\ may' \in [Names -> SUBSET Content]
              /\ \A m \in Names : files[m][1] \in may'[m] /\ written[m][1] \in may'[m]
            BY Zenon, <1>1, <1>2, <2>0, <2>3
        <3>3. fs_late' = {} \/ fs_late' = {written}
            BY Zenon, <2>3
        <3> QED
            BY ZenonT(30), <1>1, <1>2, <2>3, <3>1, <3>2, <3>3 DEF DiskTyped, LateSound, AcknowledgedStays, Contents
    <2> QED
        BY Zenon, <2>1, <2>2, <2>3 DEF handle_write_ipc_request, written
<1> QED
    BY Zenon, <1>4, <1>5 DEF FsInv, FsTyped

(* Places are read off the table, the queue, the clients and the answers.  *)
LEMMA SamePlaces ==
    ASSUME OnePlace, server'.table = server.table, client' = client, pending' = pending,
           answered' = answered
    PROVE  OnePlace'
BY ZenonT(30) DEF OnePlace

(* A byte of the answer goes out, or the session is done with.             *)
LEMMA SendResponseStep ==
    ASSUME FsInv, send_fs_response
    PROVE  FsInv'
<1> DEFINE x == server.idx
           w == server.table[x].who
           after == server.stall_after_first_served /\ ~server.first
           notify == server.stall_next_notify \/ (server.first /\ server.stall_after_first_served)
<1>0. /\ server.pc = "send" /\ client' = client /\ pending' = pending /\ up' = up
      /\ answered' = answered /\ device' = device
      /\ client[w].st = "gone" \/ down[w] < CAPACITY \/ server.out = 0
    BY Zenon DEF send_fs_response, Here
<1>1. /\ server \in ServerState /\ x \in DOMAIN server.table /\ w \in Client
      /\ server.out \in Nat /\ x \in Nat \ {0} /\ server.served \in SUBSET Nat
      /\ DOMAIN server.table = 1 .. Len(server.table)
    BY Zenon, <1>0, TableFacts DEF FsInv, PassSound, ServerState
<1>2. /\ ClientsTyped /\ OnePlace /\ PassSound /\ TokenGuards /\ Bounded /\ down \in [Client -> Nat]
      /\ CAPACITY \in Nat
    BY Zenon, FsAssumption DEF FsInv, FsTyped, ClientsTyped
<1>3. CASE server.out > 0
    <2>1. /\ server' = [server EXCEPT !.out = @ - 1]
          /\ down' = IF client[w].st = "gone" THEN down ELSE [down EXCEPT ![w] = @ + 1]
        BY Zenon, <1>3 DEF send_fs_response, Here
    <2>2. /\ server' \in ServerState /\ server'.pc = "send" /\ server'.table = server.table
          /\ server'.idx = x /\ server'.served = server.served
        <3>1. server.out - 1 \in Nat
            BY <1>1, <1>3
        <3>2. server' \in ServerState
            BY Zenon, <1>1, <2>1, <3>1, ServerSet
        <3> QED
            BY Zenon, <1>0, <1>1, <2>1, <3>2 DEF ServerState
    <2>3. down' \in [Client -> Nat] /\ \A c \in Client : down'[c] <= CAPACITY
        <3>1. CASE down' = down
            BY Zenon, <1>2, <3>1 DEF Bounded
        <3>2. CASE down[w] < CAPACITY /\ down' = [down EXCEPT ![w] = @ + 1]
            <4>1. down[w] + 1 \in Nat /\ down[w] + 1 <= CAPACITY
                BY SMTT(30), <1>1, <1>2, <3>2
            <4> QED
                BY Zenon, <1>1, <1>2, <3>2, <4>1 DEF Bounded
        <3>3. client[w].st # "gone" => down[w] < CAPACITY
            BY SMTT(30), <1>0, <1>1, <1>3
        <3> QED
            BY ZenonT(30), <2>1, <3>1, <3>2, <3>3
    <2>4. OnePlace' /\ PassSound'
        <3>1. OnePlace'
            BY ONLY ZenonT(30), Zenon, <1>0, <1>2, <2>2, SamePlaces
        <3>2. PassSound'
            BY Zenon, <1>0, <1>2, <2>2 DEF PassSound
        <3> QED
            BY ONLY Zenon, <3>1, <3>2
    <2>5. Bounded' /\ TokenGuards' /\ ClientsTyped'
        BY Zenon, <1>0, <1>2, <2>2, <2>3 DEF Bounded, TokenGuards, ClientsTyped
    <2> QED
        BY Zenon, <1>0, <2>2, <2>4, <2>5, DeviceQuiet DEF FsInv, FsTyped
<1>4. CASE ~(server.out > 0)
    <2>1. /\ server' = [server EXCEPT !.pc = "poll", !.idx = x + 1, !.served = @ \cup {x}, !.first = FALSE,
                            !.stall_after_first_served = after, !.stall_next_notify = notify]
          /\ down' = down
        BY Zenon, <1>4 DEF send_fs_response
    <2>2. server' \in ServerState
        <3>1. x + 1 \in Nat \ {0} /\ server.served \cup {x} \in SUBSET Nat
            BY <1>1
        <3>2. after \in BOOLEAN /\ notify \in BOOLEAN
            BY Zenon
        <3> HIDE DEF after, notify
        <3> DEFINE s1 == [server EXCEPT !.pc = "poll"]
                   s2 == [s1 EXCEPT !.idx = x + 1]
                   s3 == [s2 EXCEPT !.served = server.served \cup {x}]
                   s4 == [s3 EXCEPT !.first = FALSE]
                   s5 == [s4 EXCEPT !.stall_after_first_served = after]
        <3>3. s1 \in ServerState
            BY ZenonT(30), <1>1, ServerSet DEF ServerPc
        <3>4. s2 \in ServerState
            <4> HIDE DEF s1
            <4> QED
                BY Zenon, <3>1, <3>3, ServerSet
        <3>5. s3 \in ServerState
            <4> HIDE DEF s2
            <4> QED
                BY ZenonT(30), <3>1, <3>4, ServerSet
        <3>6. s4 \in ServerState
            <4> HIDE DEF s3
            <4> QED
                BY ZenonT(30), <3>5, ServerSet
        <3>7. s5 \in ServerState
            <4> HIDE DEF s4
            <4> QED
                BY ZenonT(30), <3>2, <3>6, ServerSet
        <3>8. [s5 EXCEPT !.stall_next_notify = notify] \in ServerState
            <4> HIDE DEF s5
            <4> QED
                BY ZenonT(30), <3>2, <3>7, ServerSet
        <3> QED
            BY Zenon, <1>1, <2>1, <3>8 DEF ServerState
    <2>3. /\ server'.pc = "poll" /\ server'.table = server.table
          /\ server'.idx = x + 1 /\ server'.served = server.served \cup {x}
        <3> HIDE DEF after, notify
        <3> QED
            BY Zenon, <1>1, <2>1 DEF ServerState
    <2>4. OnePlace'
        BY ZenonT(30), <1>0, <1>2, <2>3 DEF OnePlace
    <2>5. PassSound'
        <3>1. \A k \in server'.served : k \in DOMAIN server.table /\ k < x + 1
            BY SMTT(30), <1>1, <1>2, <2>3 DEF PassSound
        <3>2. \A i \in DOMAIN server.table :
                 answered[server.table[i].who] # NoAnswer => i \in server'.served
            BY Zenon, <1>2, <2>3 DEF PassSound
        <3> QED
            BY Zenon, <1>0, <2>3, <3>1, <3>2 DEF PassSound
    <2>6. Bounded' /\ TokenGuards' /\ ClientsTyped'
        BY Zenon, <1>0, <1>2, <2>1, <2>3 DEF Bounded, TokenGuards, ClientsTyped
    <2> QED
        BY Zenon, <1>0, <2>2, <2>4, <2>5, <2>6, DeviceQuiet DEF FsInv, FsTyped
<1> QED
    BY Zenon, <1>3, <1>4

(* A write that was given up lands, and the loop's passes end.             *)
LEMMA LateStep ==
    ASSUME FsInv, FsLateWrite \/ LoopEnds \/ fsVars' = fsVars
    PROVE  FsInv'
<1>1. CASE FsLateWrite
    <2>1. /\ client' = client /\ pending' = pending /\ up' = up /\ down' = down /\ server' = server
          /\ answered' = answered /\ fs_late' = {} /\ fs_health' = fs_health /\ errors' = errors /\ may' = may
          /\ files' \in fs_late
        BY Zenon, <1>1 DEF FsLateWrite
    <2>2. Contents(files') /\ \A n \in Names : files'[n][1] \in may[n]
        BY Zenon, <2>1 DEF FsInv, LateSound
    <2>3. DiskTyped' /\ LateSound' /\ AcknowledgedStays'
        BY Zenon, <2>1, <2>2 DEF FsInv, FsTyped, DiskTyped, LateSound, AcknowledgedStays
    <2>4. OnePlace' /\ PassSound' /\ Bounded' /\ TokenGuards' /\ ClientsTyped' /\ server' \in ServerState
        BY ZenonT(30), <2>1 DEF FsInv, FsTyped, OnePlace, PassSound, Req, Here, Bounded, TokenGuards, ClientsTyped
    <2> QED
        BY Zenon, <2>3, <2>4 DEF FsInv, FsTyped
<1>2. CASE LoopEnds
    <2>1. /\ client' = client /\ pending' = pending /\ up' = up /\ down' = down
          /\ answered' = answered /\ device' = device
          /\ server.pc = "accept" /\ server' = [server EXCEPT !.pc = "end"]
        BY Zenon, <1>2 DEF LoopEnds
    <2>2. /\ server' \in ServerState /\ server'.pc = "end" /\ server'.table = server.table
          /\ server'.idx = server.idx /\ server'.served = server.served
        BY Zenon, <2>1, TableFacts DEF ServerState, ServerPc
    <2>3. OnePlace' /\ PassSound'
        BY <2>1, <2>2 DEF FsInv, OnePlace, PassSound
    <2>4. Bounded' /\ TokenGuards' /\ ClientsTyped'
        BY Zenon, <2>1, <2>2 DEF FsInv, FsTyped, Bounded, TokenGuards, ClientsTyped
    <2> QED
        BY Zenon, <2>1, <2>2, <2>3, <2>4, DeviceQuiet DEF FsInv, FsTyped
<1>3. CASE fsVars' = fsVars
    <2>1. /\ client' = client /\ pending' = pending /\ up' = up /\ down' = down /\ server' = server
          /\ answered' = answered /\ device' = device
        BY Zenon, <1>3 DEF fsVars
    <2>2. OnePlace' /\ PassSound' /\ Bounded' /\ TokenGuards' /\ ClientsTyped' /\ server' \in ServerState
        BY ZenonT(30), <2>1 DEF FsInv, FsTyped, OnePlace, PassSound, Req, Here, Bounded, TokenGuards, ClientsTyped
    <2> QED
        BY Zenon, <2>1, <2>2, DeviceQuiet DEF FsInv, FsTyped
<1> QED
    BY Zenon, <1>1, <1>2, <1>3

(* Every step of the clients, the server and the device keeps FsInv.       *)
LEMMA FsInvNext == FsInv /\ [FsNext]_fsVars => FsInv'
<1> SUFFICES ASSUME FsInv, [FsNext]_fsVars
             PROVE  FsInv'
    BY Zenon
<1>1. ASSUME NEW c \in Client, Open(c) \/ Send(c) \/ Receive(c) \/ Exit(c) \/ Revoke(c)
      PROVE  FsInv'
    BY Zenon, <1>1, OpenStep, SendStep, ReceiveStep, ExitStep
<1>2. CASE Serve
    BY Zenon, <1>2, AcceptStep, RecvStep, SweepStep, HandleStep, ReadStep, WriteStep, SendResponseStep DEF Serve
<1>3. CASE LoopEnds \/ FsLateWrite \/ Ended \/ fsVars' = fsVars
    BY Zenon, <1>3, LateStep DEF Ended
<1> QED
    BY Zenon, <1>1, <1>2, <1>3 DEF FsNext

(* Once the device is quarantined, a reply is a refusal.                   *)
LEMMA QuarantineStep ==
    ASSUME FsInv, [FsNext]_fsVars, fs_health' = "Faulted", NEW c \in Client, answered'[c] # answered[c]
    PROVE  answered'[c] \in {ErrorOf("Unauthorized"), ErrorOf("BadRequest"), ErrorOf("DeviceFailed")}
<1>1. ASSUME NEW r, Reply(r)
      PROVE  answered'[c] = r
    <2>1. answered' = [answered EXCEPT ![Here.who] = r] /\ answered = [d \in Client |-> answered[d]]
        BY Zenon, <1>1 DEF Reply, FsInv, FsTyped, ClientsTyped
    <2> QED
        BY Zenon, <2>1
<1>2. answered' # answered
    BY Zenon
<1>3. CASE Handle
    BY Zenon, <1>1, <1>2, <1>3 DEF Handle
<1>4. CASE find_entry_by_display_name \/ handle_read_ipc_request \/ handle_write_ipc_request
    <2>1. ~Completes /\ ~ReportsError
        BY Zenon DEF Completes, ReportsError
    <2>2. TimesOut /\ Reply(ErrorOf("DeviceFailed"))
        BY Zenon, <1>4, <2>1 DEF find_entry_by_display_name, handle_read_ipc_request, handle_write_ipc_request
    <2> QED
        BY Zenon, <1>1, <2>2
<1>5. Handle \/ find_entry_by_display_name \/ handle_read_ipc_request \/ handle_write_ipc_request
    BY ZenonT(30), <1>2 DEF FsNext, Serve, Open, Send, Receive, Exit, Revoke, session_try_accept, session_try_recv, Sweep,
                send_fs_response, LoopEnds, FsLateWrite, Ended, fsVars
<1> QED
    BY Zenon, <1>3, <1>4, <1>5

(* The invariant bounds the table, the lanes and what may still land.      *)
LEMMA FsInvSound == FsInv => FsTypeOK /\ AcknowledgedStays /\ TokenGuards /\ SlotsAwait
<1> SUFFICES ASSUME FsInv
             PROVE  FsTypeOK /\ SlotsAwait
    BY Zenon DEF FsInv
<1>1. Cardinality(fs_late) <= 1
    <2>1. CASE fs_late = {}
        BY <2>1, FS_EmptySet
    <2>2. CASE \E d : fs_late = {d}
        BY SMTT(30), <2>2, FS_Singleton
    <2> QED
        BY ZenonT(30), <2>1, <2>2 DEF FsInv, LateSound
<1>2. FsTypeOK
    BY Zenon, <1>1 DEF FsInv, FsTyped, DiskTyped, Bounded, OnePlace, FsTypeOK
<1>3. SlotsAwait
    BY Zenon DEF FsInv, PassSound, SlotsAwait
<1> QED
    BY Zenon, <1>2, <1>3

(* For every set of clients, files and sizes, over any interleaving of     *)
(* clients that come and go, tokens that are revoked and a device that     *)
(* fails, times out and answers late: run_fs_ipc_server keeps one slot per *)
(* unanswered session within its bounds, an acknowledged write stays until *)
(* the next, only a covered request reaches the device, and nothing        *)
(* succeeds after the quarantine.                                          *)
THEOREM FsAnswersStaySound == FsSpec => AnswersSound
<1>1. FsInv /\ [FsNext]_fsVars =>
        [fs_health' = "Faulted" /\ answered' # answered =>
            \A c \in Client : answered'[c] # answered[c] =>
                answered'[c] \in {ErrorOf("Unauthorized"), ErrorOf("BadRequest"),
                                  ErrorOf("DeviceFailed")}]_fsVars
    BY Zenon, QuarantineStep
<1> QED
    BY <1>1, FsInvInit, FsInvNext, FsInvSound, PTL DEF FsSpec, AnswersSound, QuarantineAnswers

-----------------------------------------------------------------------------
(* The block driver (VirtioBlk).                                           *)

(* Where the one request the driver may have outstanding is.  Each phase   *)
(* fixes the three ring indices, the device's state and whether the status *)
(* byte has been written since the request was published.                  *)
NoRequest ==
    /\ queue.avail_idx = queue.last_used_seen /\ queue.used_idx = queue.last_used_seen
    /\ dma.at = "idle" /\ dma.last_avail = queue.avail_idx

Outstanding == queue.avail_idx = Next16(queue.last_used_seen)

Published ==
    /\ Outstanding /\ queue.used_idx = queue.last_used_seen
    /\ dma.at = "idle" /\ dma.last_avail = queue.last_used_seen
    /\ page.status = UNSET

Taken ==
    /\ Outstanding /\ queue.used_idx = queue.last_used_seen
    /\ dma.at = "taken" /\ dma.last_avail = queue.avail_idx
    /\ page.status = UNSET

Moved ==
    /\ Outstanding /\ queue.used_idx = queue.last_used_seen
    /\ dma.at = "moved" /\ dma.last_avail = queue.avail_idx
    /\ page.status # UNSET

Completed ==
    /\ Outstanding /\ queue.used_idx = queue.avail_idx
    /\ dma.at = "idle" /\ dma.last_avail = queue.avail_idx
    /\ page.status # UNSET

(* The variables' types, with the page's data fixed by its kind.           *)
BlkTyped ==
    /\ store \in [Sector -> Data]
    /\ page \in [kind : {"in", "out"}, sector : Sector, data : Data \cup {None},
                 status : {OK, IOERR, UNSET}]
    /\ page.kind = "out" => page.data \in Data
    /\ queue \in [avail_idx : 0 .. WRAP - 1, used_idx : 0 .. WRAP - 1,
                  last_used_seen : 0 .. WRAP - 1]
    /\ dma \in [at : {"idle", "taken", "moved"}, last_avail : 0 .. WRAP - 1,
                notified : BOOLEAN]
    /\ health \in {"Healthy", "Faulted"}
    /\ stall \in BOOLEAN
    /\ drv \in [pc : {"probe", "ready", "polling", "halt"}, job : Seq(Request),
                todo : Seq(Request), result : {"none", "PASS", "FAIL"}]

(* A healthy driver that is not polling has nothing outstanding; a polling *)
(* one waits for the request on the page, the head of its job; a request   *)
(* that was given up stays outstanding, and the driver stays off the page. *)
BlkInv ==
    /\ BlkTyped
    /\ drv.pc = "polling" => /\ health = "Healthy"
                             /\ drv.todo # <<>>
                             /\ page.kind = Head(drv.todo).kind
    /\ IF drv.pc = "polling" \/ health = "Faulted"
       THEN Published \/ Taken \/ Moved \/ Completed ELSE NoRequest

(* A u16 index that moves on never stays where it was.                     *)
LEMMA IndexMoves ==
    ASSUME NEW i \in 0 .. WRAP - 1
    PROVE  Next16(i) \in 0 .. WRAP - 1 /\ Next16(i) # i
<1>1. CASE i = WRAP - 1
    <2>1. i + 1 = WRAP
        BY <1>1, WrapAssumption
    <2>2. WRAP % WRAP = 0
        BY WrapAssumption
    <2> QED
        BY <1>1, <2>1, <2>2, WrapAssumption DEF Next16
<1>2. CASE i < WRAP - 1
    <2>1. (i + 1) % WRAP = i + 1
        BY SMTT(30), <1>2, WrapAssumption
    <2> QED
        BY <1>2, <2>1, WrapAssumption DEF Next16
<1> QED
    BY <1>1, <1>2, WrapAssumption

(* The driver starts with nothing outstanding.                             *)
LEMMA BlkInvInit == BlkInit => BlkInv
<1> SUFFICES ASSUME BlkInit
             PROVE  BlkInv
    BY Zenon
<1>1. PICK job \in Jobs : drv = [pc |-> "probe", job |-> job, todo |-> job, result |-> "none"]
    BY Zenon DEF BlkInit
<1>2. job \in Seq(Request)
    BY Zenon, JobsAssumption
<1>3. (CHOOSE s \in Sector : TRUE) \in Sector
    BY Zenon, SectorAssumption
<1>4. BlkTyped
    BY SMTT(30), <1>1, <1>2, <1>3, WrapAssumption DEF BlkInit, BlkTyped, UNSET
<1> QED
    BY Zenon, <1>1, <1>4 DEF BlkInit, BlkInv, NoRequest
(* Every step of the driver and of the device keeps the invariant.         *)
LEMMA BlkInvNext == BlkInv /\ [BlkNext]_blkVars => BlkInv'
<1> SUFFICES ASSUME BlkInv, [BlkNext]_blkVars
             PROVE  BlkInv'
    BY Zenon
<1> USE DEF BlkInv, BlkTyped, NoRequest, Outstanding, Published, Taken, Moved, Completed
<1>0. /\ Next16(queue.avail_idx) \in 0 .. WRAP - 1
      /\ Next16(queue.used_idx) \in 0 .. WRAP - 1
      /\ Next16(queue.last_used_seen) \in 0 .. WRAP - 1
      /\ Next16(dma.last_avail) \in 0 .. WRAP - 1
      /\ Next16(queue.last_used_seen) # queue.last_used_seen
    BY Zenon, IndexMoves
<1>1. ASSUME probe PROVE BlkInv'
    BY ZenonT(30), <1>1 DEF probe
<1>2. ASSUME request PROVE BlkInv'
    <2>1. /\ Head(drv.todo) \in Request
          /\ drv.todo \in Seq(Request) /\ drv.todo # <<>>
        BY Zenon, <1>2, HeadTailProperties DEF request
    <2>2. /\ Head(drv.todo).kind \in {"in", "out"} /\ Head(drv.todo).sector \in Sector
          /\ Head(drv.todo).data \in Data \cup {None}
          /\ Head(drv.todo).kind = "out" => Head(drv.todo).data \in Data
        BY Zenon, <2>1 DEF Request
    <2>3. BlkTyped'
        BY ZenonT(30), <1>0, <1>2, <2>2 DEF request, may_submit, UNSET
    <2> QED
        BY <1>0, <1>2, <2>2, <2>3 DEF request, may_submit, UNSET
<1>3. ASSUME refuse PROVE BlkInv'
    <2>1. Tail(drv.todo) \in Seq(Request)
        BY Zenon, <1>3, HeadTailProperties DEF refuse
    <2> QED
        BY ZenonT(30), <1>3, <2>1 DEF refuse, may_submit
<1>4. ASSUME poll_used PROVE BlkInv'
    <2>1. Tail(drv.todo) \in Seq(Request)
        BY Zenon, <1>4, HeadTailProperties DEF poll_used
    <2> QED
        BY ZenonT(30), <1>0, <1>4, <2>1 DEF poll_used
<1>5. ASSUME on_timeout PROVE BlkInv'
    <2>1. Tail(drv.todo) \in Seq(Request)
        BY Zenon, <1>5, HeadTailProperties DEF on_timeout
    <2> QED
        BY ZenonT(30), <1>5, <2>1 DEF on_timeout
<1>6. ASSUME run_sector_roundtrip_proof PROVE BlkInv'
    BY ZenonT(30), <1>6 DEF run_sector_roundtrip_proof
<1>7. ASSUME DeviceTake PROVE BlkInv'
    BY ZenonT(30), <1>0, <1>7 DEF DeviceTake
<1>8. ASSUME NEW ok \in BOOLEAN, NEW written \in BOOLEAN, DeviceMove(ok, written)
      PROVE  BlkInv'
    <2>1. store' \in [Sector -> Data]
        BY Zenon, <1>8 DEF DeviceMove
    <2>2. page' \in [kind : {"in", "out"}, sector : Sector, data : Data \cup {None},
                     status : {OK, IOERR}]
        BY ZenonT(30), <1>8 DEF DeviceMove
    <2> QED
        BY <1>8, <2>1, <2>2 DEF DeviceMove, OK, IOERR, UNSET
<1>9. ASSUME DevicePublish PROVE BlkInv'
    BY ZenonT(30), <1>0, <1>9 DEF DevicePublish
<1>10. ASSUME UNCHANGED blkVars PROVE BlkInv'
    BY SMTT(60), <1>10 DEF blkVars
<1> QED
    BY ZenonT(30), <1>1, <1>2, <1>3, <1>4, <1>5, <1>6, <1>7, <1>8, <1>9, <1>10
    DEF BlkNext, BlkDriver, Device, BlkHalted
(* BlkInv holds throughout: at every moment at most one request is         *)
(* outstanding, and the rings, the device and the status byte agree on how *)
(* far it has got.                                                         *)
THEOREM BlkInvariance == BlkSpec => []BlkInv
BY BlkInvInit, BlkInvNext, PTL DEF BlkSpec

(* InFlight is None exactly when nothing is outstanding.                   *)
LEMMA InFlightFacts ==
    ASSUME BlkInv
    PROVE  /\ (drv.pc # "polling" /\ health = "Healthy") => InFlight = None
           /\ (drv.pc = "polling" \/ health = "Faulted") => InFlight \in Flight
<1> USE DEF BlkInv, BlkTyped, NoRequest, Outstanding, Published, Taken, Moved, Completed
<1>1. Next16(queue.last_used_seen) # queue.last_used_seen
    BY Zenon, IndexMoves
<1>2. [kind |-> page.kind, sector |-> page.sector,
       data |-> IF page.kind = "out" THEN page.data ELSE None] \in Request
    BY Zenon DEF Request
<1> QED
    BY ZenonT(30), <1>1, <1>2 DEF InFlight, Flight

(* Each step of the driver or the device is a step of SectorStore, or one  *)
(* that SectorStore's callers cannot see.                                  *)
LEMMA BlkStepImplements ==
    ASSUME BlkInv, BlkInv', [BlkNext]_blkVars
    PROVE  [Abstract!StoreNext]_(Abstract!storeVars)
<1> USE DEF Abstract!storeVars
<1> SUFFICES ASSUME BlkNext
             PROVE  [Abstract!StoreNext]_(Abstract!storeVars)
    BY ZenonT(30) DEF blkVars, InFlight
<1>0. Next16(queue.last_used_seen) # queue.last_used_seen
    BY Zenon, IndexMoves DEF BlkInv, BlkTyped
<1>f. None \notin Flight
    BY Zenon, NoneAssumption
<1>1. ASSUME probe PROVE UNCHANGED Abstract!storeVars
    BY Zenon, <1>1 DEF probe, InFlight
<1>2. ASSUME request PROVE \E r \in Request : Abstract!Call(r)
    <2> DEFINE r == Head(drv.todo)
    <2>1. r \in Request
        BY Zenon, <1>2, HeadTailProperties DEF request, BlkInv, BlkTyped
    <2>2. /\ r.kind \in {"in", "out"}
          /\ r.kind = "in" => r.data = None
          /\ r = [kind |-> r.kind, sector |-> r.sector, data |-> r.data]
        BY Zenon, <2>1 DEF Request
    <2>3. InFlight = None
        BY Zenon, <1>2, InFlightFacts DEF request, may_submit
    <2>4. queue'.avail_idx # queue'.last_used_seen
        BY ZenonT(30), <1>0, <1>2 DEF request, may_submit, BlkInv, BlkTyped, NoRequest
    <2>5. InFlight' = [req |-> r, done |-> FALSE, ok |-> FALSE, data |-> None]
        <3>1. /\ page'.kind = r.kind /\ page'.sector = r.sector /\ page'.data = r.data
              /\ page'.status = UNSET
            BY Zenon, <1>2 DEF request
        <3>2. (page'.status # UNSET) = FALSE /\ (page'.status = OK) = FALSE
            BY Zenon, <3>1 DEF UNSET, OK
        <3>3. r.data = IF r.kind = "out" THEN r.data ELSE None
            BY Zenon, <2>2
        <3>4. None = IF page'.kind = "in" /\ page'.status = OK THEN page'.data ELSE None
            BY Zenon, <3>2
        <3>5. (IF page'.kind = "out" THEN page'.data ELSE None) = r.data
            BY Zenon, <3>1, <3>3
        <3>6. [kind |-> page'.kind, sector |-> page'.sector,
               data |-> IF page'.kind = "out" THEN page'.data ELSE None] = r
            BY Zenon, <2>2, <3>1, <3>5
        <3> HIDE DEF r
        <3> QED
            BY ZenonT(30), <2>4, <3>2, <3>4, <3>6 DEF InFlight
    <2> QED
        BY ZenonT(30), <1>2, <2>1, <2>3, <2>5 DEF request, may_submit, Abstract!Call
<1>3. ASSUME refuse PROVE Abstract!Refuse
    BY Zenon, <1>3 DEF refuse, may_submit, Abstract!Refuse, Abstract!Failed, Fail, InFlight
<1>4. ASSUME poll_used PROVE Abstract!Answer
    <2>1. /\ drv.pc = "polling" /\ Completed /\ health = "Healthy" /\ health' = health
        BY Zenon, <1>4 DEF poll_used, BlkInv, Published, Taken, Moved, Completed
    <2>2. InFlight # None
        BY Zenon, <1>f, <2>1, InFlightFacts
    <2>3. InFlight' = None
        <3>1. queue'.avail_idx = queue'.last_used_seen
            BY Zenon, <1>4, <2>1 DEF poll_used, Completed, Outstanding, BlkInv, BlkTyped
        <3> QED
            BY Zenon, <3>1 DEF InFlight
    <2>4. /\ InFlight.done /\ InFlight.ok = (page.status = OK)
          /\ InFlight.data = IF page.status = OK /\ page.kind = "in" THEN page.data ELSE None
        BY ZenonT(30), <1>0, <2>1 DEF InFlight, Completed, Outstanding
    <2>5. page.kind = Head(drv.todo).kind
        BY Zenon, <2>1 DEF BlkInv
    <2> QED
        BY Zenon, <1>4, <2>1, <2>2, <2>3, <2>4, <2>5 DEF poll_used, Abstract!Answer
<1>5. ASSUME on_timeout PROVE Abstract!GiveUp
    <2>1. InFlight # None /\ health = "Healthy"
        BY Zenon, <1>5, <1>f, InFlightFacts DEF on_timeout, BlkInv
    <2> QED
        BY Zenon, <1>5, <2>1 DEF on_timeout, Abstract!GiveUp, Abstract!Failed, Fail, InFlight
<1>6. ASSUME run_sector_roundtrip_proof PROVE UNCHANGED Abstract!storeVars
    BY Zenon, <1>6 DEF run_sector_roundtrip_proof, InFlight
<1>7. ASSUME DeviceTake PROVE UNCHANGED Abstract!storeVars
    BY Zenon, <1>7 DEF DeviceTake, InFlight
<1>8. ASSUME NEW ok \in BOOLEAN, NEW written \in BOOLEAN, DeviceMove(ok, written)
      PROVE  Abstract!Effect(ok, written)
    <2>1. Taken
        BY Zenon, <1>8 DEF DeviceMove, BlkInv, NoRequest, Published, Moved, Completed
    <2>2. InFlight = [req |-> [kind |-> page.kind, sector |-> page.sector,
                              data |-> IF page.kind = "out" THEN page.data ELSE None],
                      done |-> FALSE, ok |-> FALSE, data |-> None]
        BY ZenonT(30), <1>0, <2>1 DEF Taken, Outstanding, InFlight, UNSET, OK
    <2>3. /\ page'.kind = page.kind /\ page'.sector = page.sector
          /\ page'.status = (IF ok THEN OK ELSE IOERR)
          /\ page'.data = IF page.kind = "in" /\ ok THEN store[page.sector] ELSE page.data
        BY Zenon, <1>8 DEF DeviceMove, BlkInv, BlkTyped
    <2>4. page.kind = "out" => page'.data = page.data
        BY Zenon, <2>3
    <2>5. InFlight' = [req |-> [kind |-> page.kind, sector |-> page.sector,
                                data |-> IF page.kind = "out" THEN page.data ELSE None],
                       done |-> TRUE, ok |-> ok,
                       data |-> IF page.kind = "in" /\ ok THEN store[page.sector] ELSE None]
        <3>1. (page'.status # UNSET) = TRUE /\ (page'.status = OK) = ok
            BY Zenon, <2>3 DEF OK, IOERR, UNSET
        <3>2. queue'.avail_idx # queue'.last_used_seen
            BY Zenon, <1>0, <1>8, <2>1 DEF DeviceMove, Taken, Outstanding
        <3>3. (IF page'.kind = "out" THEN page'.data ELSE None)
                 = IF page.kind = "out" THEN page.data ELSE None
            BY Zenon, <2>3, <2>4
        <3>4. (IF page'.kind = "in" /\ page'.status = OK THEN page'.data ELSE None)
                 = IF page.kind = "in" /\ ok THEN store[page.sector] ELSE None
            BY Zenon, <2>3, <3>1
        <3> QED
            BY <2>3, <3>1, <3>2, <3>3, <3>4, Zenon DEF InFlight
    <2>6. InFlight # None
        BY Zenon, <1>f, <2>1, InFlightFacts DEF BlkInv, NoRequest, Taken, Outstanding
    <2>7. InFlight' = [req |-> InFlight.req, done |-> TRUE, ok |-> ok,
                       data |-> IF InFlight.req.kind = "in" /\ ok
                                THEN store[InFlight.req.sector] ELSE None]
        <3> DEFINE req == [kind |-> page.kind, sector |-> page.sector,
                           data |-> IF page.kind = "out" THEN page.data ELSE None]
        <3>1. InFlight.req = req /\ req.kind = page.kind /\ req.sector = page.sector
            BY Zenon, <2>2
        <3> QED
            BY ZenonT(30), <2>5, <3>1
    <2>8. store' = IF InFlight.req.kind = "out" /\ written
                   THEN [store EXCEPT ![InFlight.req.sector] = InFlight.req.data] ELSE store
        BY ZenonT(30), <1>8, <2>2 DEF DeviceMove
    <2>9. ~InFlight.done /\ (ok => written) /\ UNCHANGED <<health = "Healthy", answers>>
        BY Zenon, <1>8, <2>2 DEF DeviceMove
    <2> QED
        BY ZenonT(30), <2>6, <2>7, <2>8, <2>9 DEF Abstract!Effect
<1>9. ASSUME DevicePublish PROVE UNCHANGED Abstract!storeVars
    BY <1>9 DEF DevicePublish, InFlight
<1> QED
    BY ZenonT(30), <1>1, <1>2, <1>3, <1>4, <1>5, <1>6, <1>7, <1>8, <1>9
    DEF BlkNext, BlkDriver, Device, BlkHalted, Abstract!StoreNext, Abstract!Request, Request,
        blkVars, InFlight

(* The driver over the shared page and the rings implements SectorStore:   *)
(* no answer of one request is taken for another's, a success is returned  *)
(* after the effect of that very request, and after a timeout no request   *)
(* touches the store (read_sector, write_sector and QueueHealth).          *)
THEOREM ImplementsSectorStoreSafely == BlkSpec => []BlkTypeOK /\ Abstract!StoreSpec
<1>1. BlkInv => BlkTypeOK
    BY Zenon DEF BlkInv, BlkTyped, BlkTypeOK
<1>2. BlkInit => Abstract!StoreInit
    BY DEF BlkInit, Abstract!StoreInit, InFlight
<1>3. BlkInv /\ BlkInv' /\ [BlkNext]_blkVars => [Abstract!StoreNext]_(Abstract!storeVars)
    BY Zenon, BlkStepImplements
<1> QED
    BY <1>1, <1>2, <1>3, BlkInvariance, PTL DEF BlkSpec, Abstract!StoreSpec
=============================================================================
