----------------------------- MODULE MCStorage -----------------------------
(***************************************************************************)
(* blk-driver-host below and beside its FAT32 proofs.  BlkBootInfo's flags *)
(* choose what _start does: the sector round trip (module VirtioBlk, with  *)
(* every other short job besides), the proofs (Fat32, a run of its own) or *)
(* serving files (FsServer); the long-name scan the latter two use runs on *)
(* its own (Lfn).  Whatever was not chosen stays in its initial state.     *)
(***************************************************************************)
EXTENDS VirtioBlk, FsServer, Lfn

CONSTANTS c1, c2

VARIABLE mode

storageVars == <<mode, blkVars, fsVars, lfnVars>>

-----------------------------------------------------------------------------
(* The instances.                                                          *)

Req2(kind, sector, data) == [kind |-> kind, sector |-> sector, data |-> data]
MCRequests == {Req2("out", 0, "a"), Req2("out", 1, "b"), Req2("in", 0, None), Req2("in", 1, None)}
MCRoundtrip == <<Req2("out", 0, "a"), Req2("in", 0, None)>>
MCJobs == {MCRoundtrip} \cup [1 .. 3 -> MCRequests]

Ask(kind, name, token, size, noise) ==
    [kind |-> kind, name |-> name, token |-> token, size |-> size, noise |-> noise]
Plan(first, second) == [c \in Client |-> IF c = c1 THEN first ELSE second]
WriteA == Ask("Write", "A", "A", "sector", 0)
MCPlans ==
    {Plan(WriteA, WriteA),
     Plan(Ask("Write", "A", "A", "short", 1), Ask("Read", "A", "A", "sector", 3)),
     Plan(Ask("Write", "D", "D", "sector", 0), Ask("Read", "A", "D", "sector", 0))}
MCLength == [n \in Names |-> IF n = "A" THEN 2 ELSE 1]

MCSlots ==
    {LfnSlot(1, TRUE, 1, <<1, 12>>), LfnSlot(1, FALSE, 1, <<1, 2>>), LfnSlot(1, FALSE, 2, <<1, 2>>),
     LfnSlot(2, TRUE, 1, <<1, 0>>),
     LfnSlot(0, TRUE, 1, <<1, 0>>), LfnSlot(3, TRUE, 2, <<1, 0>>),
     Other("short", 1), Other("short", 2), Other("end", 0)}
MCTargets == {<<1, 2>>, <<1, 2, 1>>}

-----------------------------------------------------------------------------
BlkIdle == BlkInit /\ drv.job = MCRoundtrip /\ ~stall /\ store = [s \in Sector |-> "b"]
FsIdle == FsInit /\ client[c1].req = WriteA /\ ~server.stall_after_first_served
LfnIdle == LfnInit /\ dir = <<>> /\ target = <<1, 2>>

(* The boot page's stall is injected between two requests that both write. *)
StallBetweenWrites == server.stall_after_first_served => \A c \in Client : client[c].req = WriteA

StorageInit ==
    \/ mode = "roundtrip" /\ BlkInit /\ FsIdle /\ LfnIdle
    \/ mode = "serve" /\ FsInit /\ StallBetweenWrites /\ BlkIdle /\ LfnIdle
    \/ mode = "scan" /\ LfnInit /\ BlkIdle /\ FsIdle

StorageNext ==
    /\ UNCHANGED mode
    /\ \/ mode = "roundtrip" /\ BlkNext /\ UNCHANGED <<fsVars, lfnVars>>
       \/ mode = "serve" /\ FsNext /\ UNCHANGED <<blkVars, lfnVars>>
       \/ mode = "scan" /\ LfnNext /\ UNCHANGED <<blkVars, fsVars>>

(* The processes of the chosen part are scheduled.                         *)
StorageSpec ==
    /\ StorageInit /\ [][StorageNext]_storageVars
    /\ WF_blkVars(mode = "roundtrip" /\ BlkDriver)
    /\ WF_fsVars(mode = "serve" /\ Serve)
    /\ \A c \in Client : WF_fsVars(mode = "serve" /\ Receive(c))
=============================================================================
