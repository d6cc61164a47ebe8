----------------------------- MODULE ArmEvaluate -----------------------------
(* MARSHAL evaluations on the ARM kernel, from the boot proofs that precede   *)
(* them to the return into el0_demo: el0_exec.rs, el1_vectors.rs,             *)
(* el0_proof.rs, tcp_proof.rs, reclaim_proof.rs, marshal_transport.rs, and    *)
(* the EL0 driver net-driver-host-arm. One CPU, so the interleaving is the    *)
(* scheduler's; what varies is the heap left at boot, the device, the network,*)
(* and where the EL0 process faults.                                          *)
EXTENDS ArmScheduler

CONSTANTS FreeAtBoot,      \* how many heap frames are free when the proofs start
          RUNS,            \* evaluations of the reclamation proof, scaled down
          MAX_EVALUATIONS, \* governed calls el0_demo makes
          MAX_YIELDS,      \* 64 in the code
          POLL_BOUND,      \* 2,000,000 in the code
          REPLY_LEN,       \* units a complete reply takes
          MAX_FAULTS       \* EL0 faults in one behaviour

VARIABLES hw,        \* what the platform offers
          cont,      \* EL0_CONTINUATION: the thread suspended in enter_el0
          regs,      \* whose EL0 state ELR_EL1, SPSR_EL1 and SP_EL0 describe
          active,    \* TCP_PROOF_ACTIVE and MARSHAL_ACTIVE
          obs,       \* OBSERVED of el0_proof, tcp_proof and marshal_transport
          finished,  \* FINISHED of the same three
          image,     \* what setup told the driver: DMA frames, response frame
          inbox,     \* bytes received into each frame
          net,       \* the driver's excursion: socket progress and ground truth
          call       \* the evaluation in progress or last returned

armVars == <<mm, dev, ttbr, sched, hw, cont, regs, active, obs, finished, image, inbox, net, call>>

Kinds == {"el0_proof", "tcp", "eval"}
Verdicts == {"Execute", "Refuse", "HardStop"}
Errors == {"PolicyRefused", "BadResponse", "Unreachable"}
Garbled == {"BadTag", "BadText"}   \* bytes that are no reply
Replies == Verdicts \union Errors \union Garbled
NOT_REPORTED == 2      \* u64::MAX in a status field

At(id, pc) == sched.current.id = id /\ sched.current.pc = pc
Goto(s, pc) == [s EXCEPT !.current.pc = pc]
Unobserved == [status |-> NOT_REPORTED, len |-> 0, fault |-> FALSE]
NoCall == [n |-> 0, origin |-> "none", kind |-> "none", runs |-> 0, yields |-> 0,
           before |-> {}, saved |-> "none", outcome |-> "none"]
Idle == [sent |-> FALSE, got |-> 0, ticks |-> 0, reply |-> "none", faulted |-> FALSE, faults |-> 0]

-----------------------------------------------------------------------------
(* net-driver-host-arm: bringing the device up.                              *)

IsPowerOfTwo(n) == \E k \in 0..8 : n = 2 ^ k
queue_size_ok(size, least) == IsPowerOfTwo(size) /\ size >= least /\ size <= 256

(* choose_queue_size: the largest power of two not above the cap; 0 is None. *)
choose_queue_size(device_max, requested, least) ==
  LET cap == Lowest({device_max, requested, 256})
      fits == {k \in 0..8 : 2 ^ k <= cap}
      size == 2 ^ (CHOOSE k \in fits : \A j \in fits : j <= k)
  IN IF cap # 0 /\ queue_size_ok(size, least) THEN size ELSE 0

(* VirtioNet::negotiate: version, reset read-back (ResetFailed), VERSION_1,  *)
(* FEATURES_OK.                                                              *)
Resets(h, d) == h.probe /\ h.version = 2 /\ ~d.stuck
negotiate(h, d) == Resets(h, d) /\ h.version_1 /\ h.features_ok

bring_up_interface(h, d) ==
  CASE ~h.probe -> "DeviceProbeFailed"
    [] h.probe /\ ~negotiate(h, d) -> "FeatureNegotiationFailed"
    [] h.probe /\ negotiate(h, d) /\ (\/ choose_queue_size(h.queue_max, 256, RX_BUFFERS) = 0
                                      \/ choose_queue_size(h.queue_max, 256, TX_BUFFERS) = 0
                                      \/ ~h.queue_ready) -> "QueueSetupFailed"
    [] OTHER -> "Ok"

(* The device after bring-up: only mark_ready lets it use what it was given, *)
(* and a device that wedges stops obeying resets from then on.               *)
BroughtUp(h, d, dma) ==
  IF bring_up_interface(h, d) = "Ok"
  THEN {[on |-> TRUE, dma |-> dma, stuck |-> s] : s \in IF h.wedges THEN BOOLEAN ELSE {FALSE}}
  ELSE {IF Resets(h, d) THEN Quiet(d) ELSE d}

-----------------------------------------------------------------------------
(* Boot proofs.                                                              *)

(* A sound platform, or one with a single defect.                            *)
Sound == [present |-> TRUE, probe |-> TRUE, version |-> 2, version_1 |-> TRUE,
          features_ok |-> TRUE, queue_max |-> 3, queue_ready |-> TRUE, proxy |-> TRUE,
          resets |-> TRUE, wedges |-> FALSE]
Platforms == {Sound, [Sound EXCEPT !.present = FALSE], [Sound EXCEPT !.version_1 = FALSE],
              [Sound EXCEPT !.queue_max = 1], [Sound EXCEPT !.queue_ready = FALSE],
              [Sound EXCEPT !.proxy = FALSE], [Sound EXCEPT !.resets = FALSE],
              [Sound EXCEPT !.wedges = TRUE]}

ArmInit ==
  /\ \E n \in FreeAtBoot, slack \in BOOLEAN : mm = BootMemory((FRAMES + 1 - n)..FRAMES, slack)
  /\ hw \in Platforms
  /\ dev = [on |-> FALSE, dma |-> {}, stuck |-> ~hw.resets]
  /\ ttbr = KernelRoot /\ sched = BootScheduler(2)
  /\ cont = "none" /\ regs = "none" /\ active = {}
  /\ obs = [k \in Kinds |-> Unobserved] /\ finished = [k \in Kinds |-> FALSE]
  /\ image = [dma |-> {}, response |-> 0]
  /\ inbox = [f \in Heap |-> <<>>] /\ net = Idle /\ call = NoCall

Waiting(kind) == [call EXCEPT !.kind = kind, !.yields = 0]

(* prove_el0_process: a space, an image, a thread. A failed load drops the   *)
(* space without freeing it.                                                 *)
prove_el0_process ==
  /\ At("boot", "el0_proof")
  /\ \E loaded \in {load_image(new_space(mm, ttbr))} :
     \E up \in {spawn_with_address_space(loaded.mm, dev, sched, "el0_proof", loaded.sp)} :
        IF loaded.ok
        THEN /\ mm' = up.mm /\ dev' = up.dev
             /\ sched' = Goto(up.sched, IF up.ok THEN "wait" ELSE "tcp")
             /\ call' = IF up.ok THEN Waiting("el0_proof") ELSE call
        ELSE /\ mm' = loaded.mm
             /\ sched' = Goto(sched, "tcp") /\ UNCHANGED <<dev, call>>
  /\ UNCHANGED <<ttbr, hw, cont, regs, active, obs, finished, image, inbox, net>>

(* prove_net_tcp: no device, a failed setup or a failed spawn end it.        *)
prove_net_tcp ==
  /\ At("boot", "tcp")
  /\ IF ~hw.present
     THEN sched' = Goto(sched, "reclaim") /\ UNCHANGED <<mm, dev, image, call>>
     ELSE \E s \in {setup(mm, dev, ttbr, FALSE)} :
          \E up \in {spawn_with_address_space(s.mm, s.dev, sched, "tcp", s.sp)} :
             /\ mm' = IF s.ok THEN up.mm ELSE s.mm
             /\ dev' = IF s.ok THEN up.dev ELSE s.dev
             /\ image' = IF s.ok THEN [dma |-> s.dma, response |-> 0] ELSE image
             /\ sched' = IF s.ok /\ up.ok THEN Goto(up.sched, "wait") ELSE Goto(sched, "reclaim")
             /\ call' = IF s.ok /\ up.ok THEN Waiting("tcp") ELSE call
  /\ UNCHANGED <<ttbr, hw, cont, regs, active, obs, finished, inbox, net>>

(* The bounded wait every caller of an excursion runs.                       *)
WaitYield ==
  /\ At("boot", "wait") /\ ~finished[call.kind] /\ call.yields < MAX_YIELDS
  /\ yield_now(sched)
  /\ call' = [call EXCEPT !.yields = @ + 1]
  /\ UNCHANGED <<hw, cont, regs, active, obs, finished, image, inbox, net>>

WaitOver == At("boot", "wait") /\ (finished[call.kind] \/ call.yields = MAX_YIELDS)

ProofOver ==
  /\ WaitOver /\ call.kind # "eval"
  /\ sched' = Goto(sched, IF call.kind = "el0_proof" THEN "tcp" ELSE "reclaim")
  /\ call' = Waiting("none")
  /\ UNCHANGED <<mm, dev, ttbr, hw, cont, regs, active, obs, finished, image, inbox, net>>

-----------------------------------------------------------------------------
(* marshal_transport.rs                                                      *)

classify_response(reply) ==
  CASE reply \in Verdicts -> reply
    [] reply = "PolicyRefused" -> "Refuse"
    [] reply = "BadResponse" -> "Faulty"
    [] OTHER -> "Unreachable"

(* decode_status of the bytes in the response region: an unknown tag is      *)
(* malformed from its first unit on, a text that is no UTF-8 once all of it  *)
(* is there (module Wire has the bytes).                                     *)
decode_status(bytes) ==
  CASE bytes = <<>> -> "Incomplete"
    [] bytes # <<>> /\ bytes[1] = "BadTag" -> "Malformed"
    [] OTHER -> IF Len(bytes) < REPLY_LEN THEN "Incomplete"
                ELSE IF bytes[1] = "BadText" THEN "Malformed" ELSE "Complete"

(* classify_decode: what is malformed is Faulty, what is short Unreachable.  *)
classify_decode_short(bytes) ==
  IF Len(bytes) < REPLY_LEN THEN "Unreachable"
  ELSE IF bytes[1] \in Garbled THEN "Faulty" ELSE classify_response(bytes[1])
classify_decode(bytes) ==
  CASE decode_status(bytes) = "Complete" -> classify_response(bytes[1])
    [] decode_status(bytes) = "Malformed" -> "Faulty"
    [] OTHER -> "Unreachable"

(* What evaluate_configured makes of the excursion, once its wait is over.   *)
Concluded ==
  LET o == obs["eval"] IN
  CASE ~finished["eval"] -> "Unreachable"
    [] finished["eval"] /\ o.fault -> "ExcursionFaulted"
    [] finished["eval"] /\ ~o.fault /\ (o.status # 0 \/ o.len = 0) -> "Unreachable"
    [] OTHER -> classify_decode(SubSeq(inbox[image.response], 1, o.len))

(* The caller's tail. evaluate reaps and puts the three EL0 registers back;  *)
(* the reclamation proof reaps, and stops unless that reaped one thread.     *)
Return(m, d, s) ==
  \E r \in {reap_exited(m, d, s)} :
     LET again == call'.origin = "reclaim" /\ r.reaped = 1 /\ call'.runs < RUNS
     IN /\ mm' = r.mm /\ dev' = r.dev
        /\ sched' = Goto(r.sched, IF again THEN "reclaim" ELSE "demo")
        /\ regs' = IF call'.origin = "demo" THEN call'.saved ELSE IF again THEN regs ELSE "demo"

Reset(o) == [o EXCEPT !["eval"] = Unobserved]

(* evaluate_configured up to its wait: no device, setup, the statics, spawn. *)
Begin(origin) ==
  \E s \in {setup(mm, dev, ttbr, TRUE)} :
  \E up \in {spawn_with_address_space(s.mm, s.dev, sched, "eval", s.sp)} :
    LET c == [call EXCEPT !.n = @ + 1, !.origin = origin, !.kind = "eval", !.yields = 0,
                          !.runs = IF origin = "reclaim" THEN @ + 1 ELSE @,
                          !.before = mm.free, !.saved = regs, !.outcome = "none"]
        built == hw.present /\ s.ok
        fail == IF ~hw.present THEN "Unreachable" ELSE IF ~s.ok THEN "SetupFailed" ELSE "SpawnFailed"
    IN /\ image' = IF built THEN [dma |-> s.dma, response |-> s.response] ELSE image
       /\ finished' = IF built THEN [finished EXCEPT !["eval"] = FALSE] ELSE finished
       /\ obs' = IF built THEN Reset(obs) ELSE obs
       /\ inbox' = IF built THEN [inbox EXCEPT ![s.response] = <<>>] ELSE inbox
       /\ net' = [Idle EXCEPT !.faults = net.faults]
       /\ IF built /\ up.ok
          THEN /\ call' = c /\ mm' = up.mm /\ dev' = up.dev
               /\ sched' = Goto(up.sched, "wait") /\ regs' = regs
          ELSE /\ call' = [c EXCEPT !.outcome = fail]
               /\ IF ~hw.present THEN Return(mm, dev, sched)
                  ELSE IF ~s.ok THEN Return(s.mm, s.dev, sched)
                  ELSE Return(up.mm, up.dev, up.sched)
       /\ UNCHANGED <<ttbr, hw, cont, active>>

(* prove_reclamation: skipped without a device; then drop_to_el0(el0_demo).  *)
prove_reclamation ==
  /\ At("boot", "reclaim")
  /\ IF ~hw.present
     THEN /\ sched' = Goto(sched, "demo") /\ regs' = "demo"
          /\ UNCHANGED <<mm, dev, ttbr, hw, cont, active, obs, finished, image, inbox, net, call>>
     ELSE Begin("reclaim")

(* A governed SVC of el0_demo: evaluate, from inside that exception.         *)
evaluate ==
  /\ At("boot", "demo") /\ regs = "demo" /\ call.n < RUNS + MAX_EVALUATIONS
  /\ IF hw.proxy THEN Begin("demo")
     ELSE /\ call' = [call EXCEPT !.n = @ + 1, !.origin = "demo", !.kind = "none",
                                  !.before = mm.free, !.outcome = "Unreachable"]
          /\ net' = [Idle EXCEPT !.faults = net.faults]
          /\ UNCHANGED <<mm, dev, ttbr, sched, hw, cont, regs, active, obs, finished, image, inbox>>

evaluate_returns ==
  /\ WaitOver /\ call.kind = "eval"
  /\ call' = [call EXCEPT !.outcome = Concluded]
  /\ Return(mm, dev, sched)
  /\ UNCHANGED <<ttbr, hw, cont, active, obs, finished, image, inbox, net>>

(* el0_demo between and after its governed calls.                            *)
DemoSpins == At("boot", "demo") /\ UNCHANGED armVars

-----------------------------------------------------------------------------
(* The threads with an EL0 side.                                             *)

Parked == /\ sched.current.pc \in {"parked", "gone"}
          /\ yield_now(sched)
          /\ UNCHANGED <<hw, cont, regs, active, obs, finished, image, inbox, net, call>>

(* *_thread up to the eret: the module's ACTIVE flag, then enter_el0.        *)
enter_el0 ==
  /\ sched.current.id \in Kinds /\ sched.current.pc = "start"
  /\ active' = active \union ({sched.current.id} \ {"el0_proof"})
  /\ cont' = sched.current.id /\ regs' = sched.current.id
  /\ sched' = Goto(sched, "el0")
  /\ net' = [Idle EXCEPT !.faults = net.faults]
  /\ UNCHANGED <<mm, dev, ttbr, hw, obs, finished, image, inbox, call>>

(* resume_el1: control is back in the thread that entered EL0.               *)
Resumed == cont' = "none" /\ sched' = Goto(sched, "resumed")

(* finish: the excursion's SVC claims the continuation and records.          *)
finish(kind, status, len) ==
  /\ cont # "none" /\ Resumed
  /\ obs' = [obs EXCEPT ![kind].status = status, ![kind].len = len]
  /\ UNCHANGED <<mm, ttbr, hw, regs, active, finished, image, call>>

El0Payload == /\ At("el0_proof", "el0") /\ finish("el0_proof", 0, 0) /\ UNCHANGED <<dev, inbox, net>>

(* bring_up_interface; a port of 0 makes connect fail at once.               *)
El0BringUp ==
  /\ sched.current.id \in {"tcp", "eval"} /\ sched.current.pc = "el0"
  /\ dev' \in BroughtUp(hw, dev, image.dma)
  /\ LET up == bring_up_interface(hw, dev) = "Ok"
         connects == up /\ ~(sched.current.id = "eval" /\ call.origin = "reclaim")
     IN IF connects
        THEN /\ sched' = Goto(sched, "poll")
             /\ UNCHANGED <<mm, ttbr, hw, cont, regs, active, obs, finished, image, call>>
        ELSE finish(sched.current.id, 1, 0)
  /\ UNCHANGED <<inbox, net>>

Polling == sched.current.pc = "poll" /\ net.ticks < POLL_BOUND
PollTick_stuck(n) == (n + 1) % POLL_BOUND
PollTick(n) == n + 1
Polled(n) == /\ net' = [n EXCEPT !.ticks = PollTick(@)]
             /\ UNCHANGED <<mm, dev, ttbr, sched, hw, cont, regs, active, obs, finished, image, call>>

(* One turn of the poll loop: nothing, the request goes out, or a unit of the*)
(* reply arrives in the response region.                                     *)
PollQuiet == Polling /\ Polled(net) /\ UNCHANGED inbox
PollSends == /\ Polling /\ ~net.sent
             /\ \E r \in IF sched.current.id = "tcp" THEN {"Execute", "Refuse"} ELSE Replies :
                  Polled([net EXCEPT !.sent = TRUE, !.reply = r])
             /\ UNCHANGED inbox
PollReceives ==
  /\ Polling /\ net.sent /\ net.got < REPLY_LEN
  /\ Polled([net EXCEPT !.got = @ + 1])
  /\ inbox' = IF sched.current.id = "tcp" THEN inbox
              ELSE [inbox EXCEPT ![image.response] = Append(@, net.reply)]

(* The loop ends: the TCP proof has its reply, the peer closed after the     *)
(* request went out, or the bound is reached. run_tcp_proof wants the exact  *)
(* reply ("Execute" stands for it); run_marshal_request reports what came.   *)
PollEnds ==
  /\ sched.current.pc = "poll"
  /\ net.sent \/ net.ticks = POLL_BOUND
  /\ IF sched.current.id = "tcp"
     THEN finish("tcp", IF net.got = REPLY_LEN /\ net.reply = "Execute" THEN 0 ELSE 1, 0)
     ELSE finish("eval", IF net.got = 0 THEN 1 ELSE 0, net.got)
  /\ UNCHANGED <<dev, inbox, net>>

(* el1_exception_handler for a fault from EL0: the first module whose flag is*)
(* set, with the one continuation slot live, takes it as its own.            *)
FaultOwner == IF "tcp" \in active THEN "tcp" ELSE IF "eval" \in active THEN "eval" ELSE "el0_proof"

El0Faults ==
  /\ sched.current.pc \in {"el0", "poll"} /\ net.faults < MAX_FAULTS
  /\ cont # "none" /\ Resumed
  /\ obs' = [obs EXCEPT ![FaultOwner].fault = TRUE]
  /\ net' = [net EXCEPT !.faulted = TRUE, !.faults = @ + 1]
  /\ UNCHANGED <<mm, dev, ttbr, hw, regs, active, finished, image, inbox, call>>

(* *_thread after the excursion: the proofs park, the evaluation exits.      *)
thread_finishes(kind) == [finished EXCEPT ![kind] = TRUE]
ThreadEnds ==
  /\ sched.current.pc = "resumed"
  /\ finished' = thread_finishes(sched.current.id)
  /\ sched' = IF sched.current.id = "eval" THEN exit_current(sched) ELSE Goto(sched, "parked")
  /\ UNCHANGED <<mm, dev, ttbr, hw, cont, regs, active, obs, image, inbox, net, call>>

ArmNext ==
  \/ prove_el0_process \/ prove_net_tcp \/ WaitYield \/ ProofOver
  \/ prove_reclamation \/ evaluate \/ evaluate_returns \/ DemoSpins
  \/ Parked \/ enter_el0 \/ El0Payload \/ El0BringUp
  \/ PollQuiet \/ PollSends \/ PollReceives \/ PollEnds \/ El0Faults \/ ThreadEnds
(* The one CPU keeps executing: behaviours stop only in el0_demo's own loop. *)
ArmFairness == []<>At("boot", "demo") \/ []<><<TRUE>>_armVars
ArmSpec == ArmInit /\ [][ArmNext]_armVars /\ ArmFairness

-----------------------------------------------------------------------------
Returned == At("boot", "demo") /\ call.origin = "demo" /\ call.outcome # "none"

(* Every variable keeps its type; the run queue and zombie list never hold   *)
(* more threads than were spawned.                                           *)
ArmTypeOK ==
  /\ mm.free \subseteq Heap /\ mm.slack \in BOOLEAN
  /\ mm.pt \in [Memory -> [Index -> [kind : {"none", "table", "page"}, to : 0..(FRAMES + 3)]]]
  /\ dev.on \in BOOLEAN /\ dev.stuck \in BOOLEAN /\ dev.dma \subseteq Heap /\ ttbr \in Memory
  /\ Len(sched.queue) <= 5 /\ Len(sched.zombies) <= 1
  /\ cont \in Kinds \union {"none"} /\ regs \in Kinds \union {"none", "demo"}
  /\ active \subseteq {"tcp", "eval"} /\ finished \in [Kinds -> BOOLEAN]
  /\ obs \in [Kinds -> [status : 0..NOT_REPORTED, len : 0..REPLY_LEN, fault : BOOLEAN]]
  /\ image.dma \subseteq Heap /\ image.response \in 0..FRAMES
  /\ net.got \in 0..REPLY_LEN /\ net.ticks \in 0..POLL_BOUND

(* While the device processes its queues, every frame it may read or write   *)
(* is still allocated: AddressSpace::destroy resets it (the pre-free hook)   *)
(* before it frees the frames the driver left posted, on the reap after an   *)
(* evaluation and on every failure path alike. The one exception is a device *)
(* that ignores the reset: reset_virtio_device gives up on it in silence and *)
(* destroy frees its frames all the same, although rule 3 of destroy's doc   *)
(* says "no DMA targets a frame once it is back in the allocator". A device  *)
(* that refuses its first reset is never brought up.                         *)
DmaStaysOwned ==
  dev.on /\ dev.dma \cap mm.free # {} => dev.stuck /\ hw.wedges

(* Address spaces stay apart: the CPU translates with the current thread's   *)
(* own table, no walk from a thread's root meets a freed frame, two threads  *)
(* share no private page and no private table, and the kernel's own tables   *)
(* are never written (descend only enters tables the space owns).            *)
SpacesIsolated ==
  LET spaced == {t \in Threads : HasSpace(t)}
      Private(t) == (TablesFrom(mm, t.space.root) \union PagesFrom(mm, t.space.root))
                    \ {KernelRoot, KernelTable, MmioPage}
  IN /\ ttbr = RootOf(sched.current)
     /\ mm.pt[KernelRoot] = KernelMap /\ mm.pt[KernelTable] = Zeroed
     /\ \A t \in spaced : Private(t) \subseteq Owned(t.space) /\ Private(t) \cap mm.free = {}
     /\ \A t, u \in spaced : t # u => Owned(t.space) \cap (Private(u) \union {u.stack}) = {}

(* When el0_demo is about to be returned to, ELR_EL1, SPSR_EL1 and SP_EL0    *)
(* are its own, whatever excursion the governed call ran underneath it.      *)
RegistersAreDemos == At("boot", "demo") => regs = "demo"

(* An evaluation gives back every frame it took, however it ended, as long   *)
(* as the small allocations its cleanup needs can be satisfied (`slack`).    *)
ReturnsEverything ==
  (At("boot", "demo") \/ At("boot", "reclaim")) /\ call.outcome # "none" /\ mm.slack =>
    mm.free = call.before

(* The verdict is this evaluation's: Execute, Refuse and HardStop only after *)
(* a complete reply to this very request, with that reply's meaning; Faulty  *)
(* only after a complete reply that says so or bytes no reply can contain; a *)
(* complete reply and a garbled one are never lost, unless the excursion     *)
(* faulted, and never taken for an outage ("A garbled real REFUSE must not   *)
(* become fail-open": classify_decode), except that a text that is no UTF-8  *)
(* is noticed only when all of it is there; and ExcursionFaulted only when   *)
(* this excursion faulted.                                                   *)
Shows(reply) == IF reply = "BadTag" THEN 1 ELSE REPLY_LEN
Meaning(reply) == IF reply \in Garbled THEN "Faulty" ELSE classify_response(reply)
OutcomeIsOwn ==
  Returned =>
    /\ call.outcome \in Verdicts \union {"Faulty"} =>
         net.got >= Shows(net.reply) /\ call.outcome = Meaning(net.reply)
    /\ net.sent /\ net.got >= Shows(net.reply) /\ ~net.faulted /\ call.kind = "eval" =>
         call.outcome = Meaning(net.reply)
    /\ call.outcome = "ExcursionFaulted" => net.faulted

(* evaluate_configured's own argument for its 64-yield bound: one handoff is *)
(* enough. Whenever the caller runs again after a yield, FINISHED is set, so *)
(* the bound is never what ends an evaluation.                               *)
OneHandoff == At("boot", "wait") /\ call.yields > 0 => finished[call.kind]

(* marshal_transport.rs's table: an EL0 excursion that faults is a local     *)
(* failure, fail-closed. el1_exception_handler hands the fault to tcp_proof  *)
(* instead once the boot proof has set TCP_PROOF_ACTIVE, which nothing clears.*)
FaultFailsClosed == Returned /\ net.faulted => call.outcome = "ExcursionFaulted"

(* A governed call always comes back to el0_demo: the driver's poll loop is  *)
(* bounded, the excursion ends in an SVC or a fault, and the scheduler hands *)
(* the CPU back.                                                             *)
EvaluationEnds == (call.origin = "demo" /\ call.outcome = "none") ~> Returned

(* Memory across the boot proofs and the evaluations, with the heap        *)
(* running out at any allocation: a device that obeys its reset reaches no *)
(* freed frame, spaces stay apart, and every frame comes back.             *)
MemorySafe ==
    /\ ArmTypeOK
    /\ DmaStaysOwned
    /\ SpacesIsolated
    /\ ReturnsEverything

(* The governed call gets its own verdict after a single handoff, and      *)
(* el0_demo its own registers.                                             *)
EvaluationExact ==
    /\ OutcomeIsOwn
    /\ RegistersAreDemos
    /\ OneHandoff
=============================================================================
