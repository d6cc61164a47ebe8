------------------------------- MODULE MCNet --------------------------------
(***************************************************************************)
(* The network driver: the wire formats it speaks (Wire), its two rings    *)
(* (NetRing) and the proofs it makes when it starts (NetBoot); and the     *)
(* choice of a mobile network (Selection).  They share no state: each      *)
(* behaviour is of one of them, the others staying as they start.          *)
(***************************************************************************)
EXTENDS Wire, NetBoot, Selection

VARIABLE part

netVars == <<part, stream, ringVars, bootVars, selectionVars>>

(* The plans: any list of networks with preference and roaming for an      *)
(* account in good standing; the other standings and a list too long.      *)
Home1 == <<1, 2>>
Away1 == <<2, 1>>
MCPlan(standing, allowed, preferred, roaming) ==
    [standing |-> standing, allowed |-> allowed, preferred |-> preferred, roaming_allowed |-> roaming]
MCPlans ==
    {MCPlan("Active", a, p, r) :
        a \in {<<>>, <<Home1, Away1>>}, p \in {Away1, NoNetwork}, r \in BOOLEAN}
      \cup {MCPlan(s, <<Home1>>, NoNetwork, TRUE) : s \in {"Suspended", "Closed"}}
      \cup {MCPlan("Active", <<Home1, Away1, Away1>>, Away1, TRUE)}

(* A network may be listed twice, at home and not.                         *)
MCCandidates ==
    [network : {Home1, Away1}, signal : {-1, 1}, is_home : {FALSE}]
        \cup [network : {Home1, <<2, 2>>}, signal : {-1}, is_home : {TRUE}]

(* Any four bytes; after the beginning of a reply, two more that make      *)
(* lengths in and out of range and texts good and bad.                     *)
MCArriving(b) ==
    CASE Len(b) < 4 -> Byte
      [] Len(b) \in {4, 5} /\ b[1] \in {0, 1} /\ b[2] \in ErrorKinds /\ b[3] \in {0, 1, 2, 9}
             /\ b[4] \in {0, 1, 9} -> {0, 1, 9}
      [] OTHER -> {}

(* Rings as small as their buffers allow, and so full when all are posted. *)
RingTried == RingInit /\ rxq.avail.qsize = RX_BUFFER_COUNT /\ txq.avail.qsize = TX_BUFFER_COUNT
BootIdle == BootInit /\ \A f \in DOMAIN info : ~info[f]
SelectionIdle == SelectionInit /\ plan.standing = "Closed"

NetInit ==
    \/ part = "wire" /\ WireInit /\ RingTried /\ BootIdle /\ SelectionIdle
    \/ part = "ring" /\ RingTried /\ WireInit /\ BootIdle /\ SelectionIdle
    \/ part = "boot" /\ BootInit /\ WireInit /\ RingTried /\ SelectionIdle
    \/ part = "selection" /\ SelectionInit /\ WireInit /\ RingTried /\ BootIdle

NetNext ==
    /\ UNCHANGED part
    /\ \/ part = "wire" /\ NextByte /\ UNCHANGED <<ringVars, bootVars, selectionVars>>
       \/ part = "ring" /\ RingNext /\ UNCHANGED <<stream, bootVars, selectionVars>>
       \/ part = "boot" /\ BootNext /\ UNCHANGED <<stream, ringVars, selectionVars>>
       \/ part = "selection" /\ Scan /\ UNCHANGED <<stream, ringVars, bootVars>>

NetSpec ==
    /\ NetInit /\ [][NetNext]_netVars
    /\ \/ part \in {"wire", "selection"}
       \/ part = "ring" /\ RingFairness
       \/ part = "boot" /\ BootFairness

(* The driver goes on: a frame the device returned is served, and every    *)
(* proof asked for at boot gets its verdict (the poll loops of _start).    *)
NetProgress == FrameServed /\ ProofsReported
=============================================================================
