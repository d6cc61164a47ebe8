------------------------------- MODULE NetBoot -------------------------------
(***************************************************************************)
(* The network driver's start: probing the device, then one poll loop per  *)
(* proof the boot page asks for (DHCP, ICMP, TCP, DNS) and the socket      *)
(* server, all on one smoltcp Interface (net-driver-host/src/main.rs,      *)
(* _start and the run_* functions).                                        *)
(*                                                                         *)
(* One action is one turn of one loop: a poll of the interface with its    *)
(* timestamp, then what the loop does with what arrived.  What smoltcp     *)
(* reports is chosen freely, within what it can report at that point.      *)
(***************************************************************************)
EXTENDS Integers, Sequences, NetRing

CONSTANTS
    POLL_BOUND,             \* turns of each proof's loop (2,000,000)
    SERVE_OFFSET,           \* where the server's timestamps start (5,000,000)
    SERVE_BOUND,            \* turns of the server's loop
    TCP_PONG_LEN

(* Each loop has a turn; the server's timestamps start above any that two  *)
(* proofs in a row can use.                                                *)
ASSUME BootAssumption ==
    /\ {POLL_BOUND, SERVE_BOUND} \subseteq Nat \ {0}
    /\ TCP_PONG_LEN \in Nat
    /\ SERVE_OFFSET \in Nat /\ SERVE_OFFSET >= 2 * POLL_BOUND

VARIABLES
    info,                   \* NetBootInfo's flags
    phase,                  \* the loop being run
    next_iteration, final_iteration, start_iteration,
    turn,                   \* turns done of this loop
    clock,                  \* the timestamp iface was last polled with
    sock,                   \* each phase's own socket
    results                 \* the result bytes of the boot page

bootVars == <<info, phase, next_iteration, final_iteration, start_iteration,
              turn, clock, sock, results>>

Proofs == {"dhcp", "icmp", "tcp", "dns"}

(* TCP and DNS are never both asked for.                                   *)
NetBootInfo == {i \in [use_dhcp : BOOLEAN, attempt_tcp : BOOLEAN, use_dns : BOOLEAN,
                       serve_sockets : BOOLEAN] : ~(i.attempt_tcp /\ i.use_dns)}

NewSocket == [sent |-> FALSE, open |-> TRUE, up |-> FALSE, len |-> 0, right |-> TRUE, answer |-> "none"]

BootInit ==
    /\ info \in NetBootInfo
    /\ phase = "probe"
    /\ next_iteration = 0 /\ final_iteration = 0 /\ start_iteration = 0 /\ turn = 0
    /\ clock = -1
    /\ sock = [p \in Proofs |-> NewSocket]
    /\ results = [p \in Proofs |-> "none"]

Polled(timestamp) == clock' = timestamp
LastTurn == turn = POLL_BOUND - 1
Reported(p, ok) == results' = [results EXCEPT ![p] = IF ok THEN "pass" ELSE "fail"]

Leaves(s) == sock' = [sock EXCEPT ![phase] = s]

(* A loop left after its last turn, for the phase that follows it; or one  *)
(* more turn.                                                              *)
Enter(p) == phase' = p /\ turn' = 0
Again == turn' = turn + 1 /\ UNCHANGED <<phase, results>>

(* VirtioNet::probe and the queue sizes: an unusable device fails every    *)
(* proof at once.                                                          *)
probe ==
    /\ phase = "probe"
    /\ \E rx_size, tx_size \in OfferedSizes :
          IF queue_size_is_valid(rx_size, RX_BUFFER_COUNT) /\ queue_size_is_valid(tx_size, TX_BUFFER_COUNT)
          THEN /\ Enter(IF info.use_dhcp THEN "dhcp" ELSE "icmp")
               /\ UNCHANGED results
          ELSE /\ Enter("idle")
               /\ results' = [p \in Proofs |-> "fail"]
    /\ UNCHANGED <<info, next_iteration, final_iteration, start_iteration, clock, sock>>

(* run_dhcp: the address is set as soon as a lease is reported.  What is   *)
(* returned is the first timestamp not yet used.                           *)
DhcpEnd(acquired) == next_iteration' = turn + 1 /\ Reported("dhcp", acquired) /\ Enter("icmp")
run_dhcp ==
    /\ phase = "dhcp"
    /\ Polled(turn)
    /\ \E event \in {"Configured", "Deconfigured", "none"} :
          /\ Leaves([sock["dhcp"] EXCEPT !.answer = event])
          /\ IF event = "Configured" \/ LastTurn THEN DhcpEnd(event = "Configured")
             ELSE Again /\ UNCHANGED next_iteration
    /\ UNCHANGED <<info, final_iteration, start_iteration>>

(* After the ICMP proof, and after each later phase: the next one asked    *)
(* for, and the timestamp it starts from.                                  *)
Later == {p \in {"tcp", "dns", "serve"} :
             \/ p = "tcp" /\ info.attempt_tcp /\ phase = "icmp"
             \/ p = "dns" /\ info.use_dns /\ phase \in {"icmp", "tcp"}
             \/ p = "serve" /\ info.serve_sockets}
Following(later) ==
    IF "tcp" \in later THEN "tcp"
    ELSE IF "dns" \in later THEN "dns"
    ELSE IF "serve" \in later THEN "serve" ELSE "idle"
StartOf_reset(p, final) == IF p = "serve" THEN next_iteration + SERVE_OFFSET ELSE 0
StartOf(p, final) ==
    IF p = "serve" THEN next_iteration + SERVE_OFFSET ELSE next_iteration + final + 1
GoOn(final) ==
    /\ Enter(Following(Later))
    /\ start_iteration' = StartOf(Following(Later), final)

(* The echo request leaves after a poll, so an exact reply answers one of  *)
(* an earlier turn; anything else received is read and ignored.            *)
FoundBy(got) == got = "exact"
IcmpProof ==
    /\ phase = "icmp"
    /\ Polled(next_iteration + turn)
    /\ final_iteration' = turn
    /\ \E got \in {"none", "other"} \cup (IF sock["icmp"].sent THEN {"exact"} ELSE {}) :
          /\ Leaves([sock["icmp"] EXCEPT !.sent = TRUE, !.answer = got])
          /\ IF FoundBy(got) \/ LastTurn THEN Reported("icmp", FoundBy(got)) /\ GoOn(turn)
             ELSE Again /\ UNCHANGED start_iteration
    /\ UNCHANGED <<info, next_iteration>>

(* The TCP socket after a poll: connecting, refused, carrying n bytes of   *)
(* the right or of other data, closed by the peer.                         *)
TcpPolls(s) ==
    {t \in [sent : {s.sent}, open : BOOLEAN, up : BOOLEAN, len : s.len .. TCP_PONG_LEN,
            right : BOOLEAN, answer : {"none"}] :
        /\ t.open => s.open
        /\ s.up => t.up
        /\ ~s.open => t.up = s.up
        /\ t.len > s.len => t.up /\ (t.right => s.right)
        /\ t.len = s.len => t.right = s.right}

(* The interface has an address: the fixed one, or a lease.  Without one   *)
(* connect fails, run_tcp_proof unwraps its error before the first poll,   *)
(* and the panic handler loops: the process does nothing more.             *)
Addressed == info.use_dhcp => results["dhcp"] = "pass"
ConnectPanics ==
    /\ phase = "tcp" /\ ~Addressed
    /\ Enter("panicked")
    /\ UNCHANGED <<info, next_iteration, final_iteration, start_iteration, clock, sock, results>>

(* Sending, the exact comparison once TCP_PONG_LEN bytes are here, and     *)
(* giving up on a socket closed after the send.                            *)
TcpPass(s) == s.len >= TCP_PONG_LEN /\ s.right
run_tcp_proof ==
    /\ phase = "tcp" /\ Addressed
    /\ Polled(start_iteration + turn)
    /\ \E t \in TcpPolls(sock["tcp"]) :
          LET s == [t EXCEPT !.sent = @ \/ (t.up /\ t.open)]
          IN  /\ Leaves(s)
              /\ IF s.len >= TCP_PONG_LEN \/ (s.sent /\ ~s.open) \/ LastTurn
                 THEN Reported("tcp", TcpPass(s)) /\ GoOn(final_iteration)
                 ELSE Again /\ UNCHANGED start_iteration
    /\ UNCHANGED <<info, next_iteration, final_iteration>>

(* run_dns_lookup: an answer without an IPv4 address ends the loop too.    *)
run_dns_lookup ==
    /\ phase = "dns"
    /\ Polled(start_iteration + turn)
    /\ \E answer \in {"Pending", "Failed", "other", "ipv4"} :
          /\ Leaves([sock["dns"] EXCEPT !.answer = answer])
          /\ IF answer # "Pending" \/ LastTurn
             THEN Reported("dns", answer = "ipv4") /\ GoOn(final_iteration)
             ELSE Again /\ UNCHANGED start_iteration
    /\ UNCHANGED <<info, next_iteration, final_iteration>>

(* run_socket_ipc_server's loop, for its timestamps; SocketServer has what *)
(* it serves.                                                              *)
run_socket_ipc_server ==
    /\ phase = "serve"
    /\ Polled(start_iteration + turn)
    /\ IF turn = SERVE_BOUND - 1 THEN Enter("idle") /\ UNCHANGED results ELSE Again
    /\ UNCHANGED <<info, next_iteration, final_iteration, start_iteration, sock>>

BootNext ==
    \/ probe \/ run_dhcp \/ IcmpProof
    \/ run_tcp_proof \/ ConnectPanics \/ run_dns_lookup
    \/ run_socket_ipc_server

BootSpec == BootInit /\ [][BootNext]_bootVars

(* The driver never blocks: each turn is followed by the next, until its   *)
(* last loop, which only yields or, after a panic, only spins.             *)
BootFairness == []<>(phase \in {"idle", "panicked"}) \/ []<><<BootNext>>_bootVars

-----------------------------------------------------------------------------
BootTypeOK ==
    /\ info \in NetBootInfo
    /\ phase \in Proofs \cup {"probe", "serve", "idle", "panicked"}
    /\ turn \in 0 .. POLL_BOUND + SERVE_BOUND
    /\ sock["tcp"].len \in 0 .. TCP_PONG_LEN
    /\ results \in [Proofs -> {"none", "pass", "fail"}]

(* The interface is never polled with a timestamp it has already seen,     *)
(* from the DHCP loop to the server, however early or late each loop ends  *)
(* ("One shared, always-increasing counter across both phases": a repeat   *)
(* stalls smoltcp's timers).                                               *)
ClockIncreases == [][phase = "probe" \/ phase' = "panicked" \/ clock' > clock]_bootVars

(* A proof's byte says pass only when its own socket saw the whole answer: *)
(* a lease, an exact echo to a request, all TCP_PONG_LEN bytes of the      *)
(* right data, an IPv4 address; and no later phase rewrites it.            *)
Evidence(p, s) ==
    \/ p = "dhcp" /\ s.answer = "Configured"
    \/ p = "icmp" /\ s.sent /\ s.answer = "exact"
    \/ p = "tcp" /\ s.len = TCP_PONG_LEN /\ s.right
    \/ p = "dns" /\ s.answer = "ipv4"
PassIsEarned ==
    [][\A p \in Proofs : /\ results[p] # "none" => results'[p] = results[p]
                         /\ results'[p] = "pass" => Evidence(p, sock'[p])]_bootVars

(* A proof that was not asked for is only ever failed, by the probe.       *)
OnlyAskedPass ==
    /\ results["dhcp"] = "pass" => info.use_dhcp
    /\ results["tcp"] = "pass" => info.attempt_tcp
    /\ results["dns"] = "pass" => info.use_dns

(* The boot sequence of the network process: smoltcp's clock only          *)
(* advances, and a proof passes on its own evidence, when it was asked for *)
(* (_start and the run_* loops).                                           *)
StartSound ==
    /\ [](BootTypeOK /\ OnlyAskedPass)
    /\ ClockIncreases
    /\ PassIsEarned

(* Once the device is up or given up, every proof the boot page asked for  *)
(* gets a verdict, whatever the device and the network do.  The exception: *)
(* a TCP proof asked for together with DHCP gets none when no lease comes  *)
(* (the unwrap of connect panics), and nothing after it is served.         *)
ProofsReported ==
    phase # "probe" ~>
         (/\ results["icmp"] # "none"
          /\ info.use_dhcp => results["dhcp"] # "none"
          /\ info.attempt_tcp => results["tcp"] # "none" \/ (info.use_dhcp /\ results["dhcp"] = "fail")
          /\ info.use_dns => results["dns"] # "none")
=============================================================================
