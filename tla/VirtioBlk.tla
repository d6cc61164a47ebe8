----------------------------- MODULE VirtioBlk -----------------------------
(***************************************************************************)
(* The virtio-blk transport of blk-driver-host: BlkDevice of main.rs over  *)
(* the Virtqueue of virtio.rs, one request page shared with a device that  *)
(* works at its own pace, and QueueHealth's quarantine.                    *)
(*                                                                         *)
(* The driver's job is a sequence of requests; the sector round trip of    *)
(* _start is one of them.  A ring index is a u16: here it wraps at WRAP.   *)
(***************************************************************************)
EXTENDS Naturals, Sequences

CONSTANTS
    Sector, Data,
    None,               \* no data
    QSizes,             \* queue sizes the device may report
    Jobs,               \* sequences of requests
    ROUNDTRIP,          \* the job run_sector_roundtrip_proof has
    WRAP                \* 2^16: where the ring indices wrap

ASSUME WrapAssumption == WRAP \in Nat /\ WRAP > 1

VARIABLES
    store,              \* the device's sectors
    page,               \* the request page: [kind, sector, data, status]
    queue,              \* avail_idx, used_idx, last_used_seen
    dma,                \* the device: [at, last_avail, notified, kind, sector]
    health,             \* QueueHealth
    stall,              \* stall_next_notify
    drv,                \* [pc, job, todo, result]
    answers             \* what read_sector and write_sector have returned

blkVars == <<store, page, queue, dma, health, stall, drv, answers>>

Request == [kind : {"out"}, sector : Sector, data : Data]
           \cup [kind : {"in"}, sector : Sector, data : {None}]

OK == "ok"              \* VIRTIO_BLK_S_OK
IOERR == "ioerr"        \* any other status the device writes
UNSET == "unset"        \* 0xFF, stored before each request

Next16(i) == (i + 1) % WRAP

(* A request in flight, as InFlight reports it below.                      *)
Flight == [req : Request, done : BOOLEAN, ok : BOOLEAN, data : Data \cup {None}]

ASSUME SectorAssumption == Sector # {}
ASSUME JobsAssumption == Jobs \subseteq Seq(Request)
ASSUME NoneAssumption == None \notin Data \cup Flight

BlkInit ==
    /\ store \in [Sector -> Data]
    /\ page = [kind |-> "in", sector |-> CHOOSE s \in Sector : TRUE, data |-> None,
               status |-> UNSET]
    /\ queue = [avail_idx |-> 0, used_idx |-> 0, last_used_seen |-> 0]
    /\ dma = [at |-> "idle", last_avail |-> 0, notified |-> FALSE]
    /\ health = "Healthy"
    /\ stall \in BOOLEAN
    /\ \E job \in Jobs : drv = [pc |-> "probe", job |-> job, todo |-> job, result |-> "none"]
    /\ answers = <<>>

-----------------------------------------------------------------------------
(* lib.rs: validate_queue_size, and QueueHealth.                           *)

MIN_QUEUE_SIZE == 3
MAX_QUEUE_SIZE == 256

validate_queue_size(qsize) ==
    (\E k \in 0 .. 15 : qsize = 2 ^ k) /\ qsize \in MIN_QUEUE_SIZE .. MAX_QUEUE_SIZE

may_submit == health = "Healthy"

(* _start: a device whose queue does not fit is never used.                *)
probe ==
    /\ drv.pc = "probe"
    /\ \E qsize \in QSizes :
        drv' = IF validate_queue_size(qsize) THEN [drv EXCEPT !.pc = "ready"]
               ELSE [drv EXCEPT !.pc = "halt", !.result = "FAIL"]
    /\ UNCHANGED <<store, page, queue, dma, health, stall, answers>>

Fail == [ok |-> FALSE, data |-> None]

(* read_sector and write_sector up to the wait: the page is filled, the    *)
(* chain published, the device notified unless a stall is injected.        *)
request ==
    /\ drv.pc = "ready" /\ drv.todo # <<>>
    /\ may_submit
    /\ LET r == Head(drv.todo)
       IN  page' = [kind |-> r.kind, sector |-> r.sector, data |-> r.data, status |-> UNSET]
    /\ queue' = [queue EXCEPT !.avail_idx = Next16(@)]
    /\ dma' = [dma EXCEPT !.notified = ~stall]
    /\ stall' = FALSE
    /\ drv' = [drv EXCEPT !.pc = "polling"]
    /\ UNCHANGED <<store, health, answers>>

(* The quarantine: nothing is touched.                                     *)
refuse ==
    /\ drv.pc = "ready" /\ drv.todo # <<>>
    /\ ~may_submit
    /\ answers' = Append(answers, Fail)
    /\ drv' = [drv EXCEPT !.todo = Tail(@)]
    /\ UNCHANGED <<store, page, queue, dma, health, stall>>

(* poll_for_completion finds the used index moved.                         *)
poll_used ==
    /\ drv.pc = "polling"
    /\ queue.used_idx # queue.last_used_seen
    /\ queue' = [queue EXCEPT !.last_used_seen = Next16(@)]
    /\ answers' = Append(answers,
                         [ok |-> page.status = OK,
                          data |-> IF page.status = OK /\ Head(drv.todo).kind = "in"
                                   THEN page.data ELSE None])
    /\ drv' = [drv EXCEPT !.pc = "ready", !.todo = Tail(@)]
    /\ UNCHANGED <<store, page, dma, health, stall>>

on_timeout_hopeful ==
    /\ drv.pc = "polling"
    /\ queue.used_idx = queue.last_used_seen
    /\ answers' = Append(answers, Fail)
    /\ drv' = [drv EXCEPT !.pc = "ready", !.todo = Tail(@)]
    /\ UNCHANGED <<store, page, queue, dma, stall, health>>

(* poll_for_completion runs out of iterations: on_timeout.                 *)
on_timeout ==
    /\ drv.pc = "polling"
    /\ queue.used_idx = queue.last_used_seen
    /\ health' = "Faulted"
    /\ answers' = Append(answers, Fail)
    /\ drv' = [drv EXCEPT !.pc = "ready", !.todo = Tail(@)]
    /\ UNCHANGED <<store, page, queue, dma, stall>>

(* The job is done: the round trip reports, the process yields for ever.   *)
run_sector_roundtrip_proof ==
    /\ drv.pc = "ready" /\ drv.todo = <<>>
    /\ drv' = [drv EXCEPT !.pc = "halt",
                          !.result = IF drv.job # ROUNDTRIP THEN "none"
                                     ELSE IF /\ answers[1].ok
                                             /\ answers[2].ok
                                             /\ answers[2].data = ROUNDTRIP[1].data
                                          THEN "PASS" ELSE "FAIL"]
    /\ UNCHANGED <<store, page, queue, dma, health, stall, answers>>

BlkDriver == probe \/ request \/ refuse \/ poll_used \/ on_timeout \/ run_sector_roundtrip_proof

BlkHalted == drv.pc = "halt" /\ UNCHANGED blkVars

-----------------------------------------------------------------------------
(* The device: it takes the chain, moves the data and writes the status,   *)
(* and only then publishes the completion.                                 *)

DeviceTake ==
    /\ dma.at = "idle" /\ dma.notified
    /\ queue.avail_idx # dma.last_avail
    /\ dma' = [dma EXCEPT !.at = "taken", !.last_avail = Next16(@), !.notified = FALSE]
    /\ UNCHANGED <<store, page, queue, health, stall, drv, answers>>

DeviceMove(ok, written) ==
    /\ dma.at = "taken"
    /\ ok => written
    /\ dma' = [dma EXCEPT !.at = "moved"]
    /\ store' = IF page.kind = "out" /\ written
                THEN [store EXCEPT ![page.sector] = page.data] ELSE store
    /\ page' = [page EXCEPT !.status = IF ok THEN OK ELSE IOERR,
                            !.data = IF page.kind = "in" /\ ok THEN store[page.sector] ELSE @]
    /\ UNCHANGED <<queue, health, stall, drv, answers>>

DevicePublish ==
    /\ dma.at = "moved"
    /\ dma' = [dma EXCEPT !.at = "idle"]
    /\ queue' = [queue EXCEPT !.used_idx = Next16(@)]
    /\ UNCHANGED <<store, page, health, stall, drv, answers>>

Device ==
    \/ DeviceTake
    \/ \E ok, written \in BOOLEAN : DeviceMove(ok, written)
    \/ DevicePublish

BlkNext == BlkDriver \/ Device \/ BlkHalted

(* The driver's process is scheduled; the device promises nothing.         *)
BlkSpec == BlkInit /\ [][BlkNext]_blkVars /\ WF_blkVars(BlkDriver)
-----------------------------------------------------------------------------
(* Properties.                                                             *)

(* The ring indices stay u16 values and the page holds one request; every  *)
(* status the driver can read is one it or the device stored.              *)
BlkTypeOK ==
    /\ store \in [Sector -> Data]
    /\ page.kind \in {"in", "out"} /\ page.sector \in Sector
    /\ page.data \in Data \cup {None} /\ page.status \in {OK, IOERR, UNSET}
    /\ \A i \in {queue.avail_idx, queue.used_idx, queue.last_used_seen, dma.last_avail} :
           i \in 0 .. WRAP - 1
    /\ dma.at \in {"idle", "taken", "moved"}
    /\ health \in {"Healthy", "Faulted"}
    /\ drv.pc \in {"probe", "ready", "polling", "halt"}

(* The request the device holds, as the callers see it: published and not  *)
(* consumed.  It is done once the status byte is written.                  *)
InFlight ==
    IF queue.avail_idx = queue.last_used_seen THEN None
    ELSE [req |-> [kind |-> page.kind, sector |-> page.sector,
                   data |-> IF page.kind = "out" THEN page.data ELSE None],
          done |-> page.status # UNSET,
          ok |-> page.status = OK,
          data |-> IF page.kind = "in" /\ page.status = OK THEN page.data ELSE None]

Abstract == INSTANCE SectorStore WITH op <- InFlight, alive <- (health = "Healthy")

(* The driver over the shared page and the rings implements SectorStore,   *)
(* also when the device answers after the driver gave up: no answer of one *)
(* request is ever taken for another's, and every call returns.            *)
ImplementsSectorStore ==
    []BlkTypeOK /\ Abstract!StoreSpec /\ Abstract!StoreLive

=============================================================================
