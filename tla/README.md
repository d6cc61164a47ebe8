# Runix: TLA+ models, checks and proofs

TLA+ modules for Runix, a Rust microkernel OS with an x86_64 kernel (`kernel/`), an
aarch64 kernel (`kernel-arm/`), user-space drivers and a hosted policy proxy. TLC
checks the modules on small instances; TLAPS proves the safety properties of most
of them for all values of the constants. `PROJECT.json` lists the components, runs, mutants,
theorems, findings, hazards and, definition by definition, the source lines a
module stands for. Paths below are relative to `src/`.

To check a run: `tlc -config Kernel.cfg MCKernel`. To check a proof module:
`tlapm KernelProofs.tla`.

## 1. The system and its modules

| Part | Source | Modules |
|---|---|---|
| x86_64 scheduler, timer tick | `kernel/src/scheduler.rs`, `interrupts.rs` | `Scheduler`, `KernelProofs` |
| IPC ports and sessions, syscalls | `kernel/src/ipc.rs`, `syscall.rs` | `Ipc`, `Kernel`, `PortMessages`, `KernelProofs`, `IpcProofs` |
| x86_64 memory, boot of the drivers' processes | `kernel/src/memory.rs`, `process.rs`, `main.rs` | `KernelSpaces` |
| Spawns that ask MARSHAL | `kernel/src/grid_sandbox.rs`, `marshal_client.rs` | `MarshalClient` |
| Socket server of the network driver | `net-driver-host/src/main.rs`, `ipc/src/sockets.rs`, `marshal.rs` | `SocketServer`, `Wire` |
| Network driver: rings, start | `net-driver-host/src/` | `NetRing`, `NetBoot`, `NetProofs` |
| Block driver: transport, FAT32, file server | `blk-driver-host/src/` | `SectorStore`, `VirtioBlk`, `Fat32`, `Lfn`, `FsServer`, `FatProofs`, `FsProofs` |
| ARM processes, scheduler, MARSHAL transport | `kernel-arm/src/`, `net-driver-host-arm/src/` | `ArmSpaces`, `ArmScheduler`, `ArmEvaluate` |
| ARM telephony: profiles, accounts, data, reconciler, syscalls | `kernel-arm/src/`, `mobile/src/` | `Sim`, `Account`, `DataState`, `Reconcile`, `Svc`, `SvcProofs` |
| ARM audit chain | `kernel-arm/src/audit_chain.rs` | `AuditChain`, `TrustProofs` |
| Network selection | `mobile/src/selection.rs` | `Selection`, `PolicyProofs` |
| ELF loaders of both kernels | `kernel/src/elf.rs`, `kernel-arm/src/elf.rs`, `loader.rs` | `Loader` |
| Capability tokens | `capability-manager/`, both `capabilities.rs` | `Tokens`, `TrustProofs` |
| Boot allowlists and evidence log | `citadel-integration/src/lib.rs` | `Allowlist`, `TrustProofs` |
| CITADEL proxy | `desktop/src/citadel/` | `Proxy`, `PolicyProofs` |

How they interact. Drivers and spawned instances are ring-3 processes that reach
each other only through the kernel's sessions: two bounded byte lanes and a table
entry, reaped when a participant exits. The file server and the socket server are
such processes. A governed action on either kernel asks MARSHAL: on x86_64 a kernel
thread is a client of the socket server; on ARM the kernel runs the driver as an
EL0 excursion underneath the caller. Both end at the proxy, which checks policy,
keeps evidence and asks CITADEL.

`Kernel` extends `Scheduler` and `Ipc`; `PortMessages` extends `Kernel`. `MarshalClient`
extends `SocketServer`, which extends `Wire`. `ArmEvaluate` extends `ArmScheduler`,
which extends `ArmSpaces`. `Svc` extends, in turn, `Reconcile`, `DataState`, `Account`
and `Sim`. `VirtioBlk` instantiates `SectorStore`. The `MC` modules hold the instances
for TLC. Where components share no state, one `MC` module takes several of them
(`MCStorage`, `MCNet`, `MCBoot`): a variable chosen in the initial state says which one
moves, and the others stay as they start.

Operators carry the names of the functions they translate. An operator whose name
extends that of its neighbour (`retire_to_front` beside `retire`) is the
neighbour with a plausible mistake; no specification uses it. `PROJECT.json`
pairs each with the property that must notice the mistake.

## 2. How state and actions correspond to the code

### Scheduler

One CPU. `reschedule` runs with interrupts off and is one step. A thread running
with interrupts on can be cut anywhere, and it matters in two places, which
have states of their own: a `Thread` built but not yet pushed (`built`), and
the window between the store to `EXITING` and the `int` that follows it
(`pc = "exit"`). `reschedule` is `reap_zombies`, then either the early return
with an empty queue or `load_context`, `retire` and the switch. Register
contents are abstracted to names: which address space is in Cr3, which kernel
entry stack is in RSP0, which stacks are mapped. The boot thread does not exit, as
the contract of `exit_current_thread` has it.

### Ipc, Kernel and PortMessages

A byte is represented by the thread that sent it. `Kernel` has one action per
syscall. An action of a blocking call is one iteration of its loop: it completes,
or it switches threads and leaves `call[t]` set, so that the next iteration skips
the entry checks as the code does. The tick is disabled while the current thread
is in a call. A refused call, or one that finds nothing, changes nothing and has
no step. `Revoke` stands for a revocation and for a token's expiry alike.
`PortMessages` adds what `src/` only has in clients: senders that lock, send
`MSG_LEN` bytes and unlock, and a receiver that cuts the stream by length. They
are marked external in the map and follow the comment on `begin_send`.

### KernelSpaces

Frames are numbers, handed out in order and from a free list. A top-level entry
points to a subtree of tables and pages; an address space copies the kernel's
entries when it is made, and `map_frame` detaches the private one at its first use.
The boot's loaders are scripts of allocations and mappings. One
`with_mapper_and_frame_allocator` is one step; in between, a second thread builds an
instance and kernel threads exit and are reaped.

### The block driver

`VirtioBlk` has the request page, the two rings and a device that takes, moves and
completes at its own pace; a request that times out sets `QueueHealth` to
faulted. `SectorStore` is what the callers may assume, and `ImplementsSectorStore`
the refinement: the request in flight is the one published and not yet consumed.
`Fat32` starts above that: a step is one sector written, which succeeds,
fails with the old or the new contents on disk, or times out and lands later, if at
all; the machine may restart between any two steps. It runs all of
`run_fat32_proof`. `Lfn` is the long-name scan, a step per directory slot, over
directories that need not be well formed. `FsServer` is `run_fs_ipc_server` with clients that
send bytes of no request first, stop half way, or leave. In it a sector request is one
step with `VirtioBlk`'s outcomes.

### The network driver and the MARSHAL client

`Wire` decodes and encodes byte by byte, with the code's tags and with lengths of a given
number of bytes (`JSON_LEN_BYTES`, `STRING_LEN_BYTES`; 4 and 2 in the code).
`NetRing` holds both virtqueues with wrapping indices and the queue sizes a device may offer,
the RX policy's reactions to completions that are wrong, repeated or invented, and smoltcp's
two tokens. A call of `receive` or `transmit` is several steps: each TX completion it reaps, each
RX entry it scans and each buffer it re-posts, with the device free to move in between. `NetBoot`
is one action per turn of each proof's loop; what smoltcp reports is any of the
results it can give; a TCP proof on an interface without an address panics in `connect`. `SocketServer` is the polling loop with its slots, each with a
half-read request, a socket and perhaps a pending connect; a response to a full lane
blocks the whole loop, as in the code. `MarshalClient` adds the kernel threads that
open a session and go through `evaluate`, the request cut into chunks of `MAX_PAYLOAD_LEN`
that are acknowledged one by one; a poll budget may run out whenever the lane is empty.
What a socket has accepted reaches the peer later (`Transmit`), and the peer answers
what it can decode.

### The ARM kernel

`ArmSpaces` keeps the translation tables and frames of each space, so that an
allocation can fail at each of the dozens that `net_process::setup` makes, and `destroy`
plans its frees from what the space owns, after a reset that a wedged device ignores. `ArmScheduler` is cooperative. `ArmEvaluate` runs
the boot proofs and then governed calls: the excursion's continuation, the
vectors' routing of SVCs and faults by the modules' `ACTIVE` flags, the driver's
bring-up and poll loop, the bounded wait, classification and the reap. A reply is
`REPLY_LEN` units; garbled ones are malformed at the first unit or only when whole.

In `Svc` a syscall is one step, with its checks in the order of the code: there is one
EL0 context and the handler runs with IRQs masked. The capability check may refuse at
any call, since tokens expire. MARSHAL's answer is any of the six outcomes of
`GateOutcome`; `ArmEvaluate` shows that an answer always comes. Asking takes time, which matters in
`SYS_DATA_RESET`: it reads the clock for its gate before, and again to apply
the reset after. `audited` holds the events of the last syscall, which is what the
action properties need; no decision of the handlers reads the chain they go to.

`AuditChain`'s `log` is a sequence of entries; an entry with `count = 0` is an event, one
with a count a summary. Hashing is abstracted away: the log is append-only by construction,
and `verify` states the bookkeeping part of the code's function.

### What is let in

`Loader` computes both kernels' loads of an image as functions of its headers, with
a mapper that fails at a given page; an action adds a header. `Tokens` issues, uses and
revokes tokens with checked and wrapping arithmetic on small machine words, and
fingerprints that may collide. In `Allowlist` ids are sequences of characters, the separator of the
signed string possibly among them; entries may be altered after signing, and inserted between
two loads. `Proxy` has a thread per connection, an accept loop that counts a connection before it
looks at the count (`Accept`, then `Refuse`), both deadlines, the shared evidence log, the policy check, the
enriched envelope and the translation of CITADEL's answers. `Selection` is the loop of
`select_network`, a step per candidate of the scan, with its two locals (`any_allowed`, `best`).

## 3. Runs

| Run | Module, config | States | Shows |
|---|---|---|---|
| `kernel` | `MCKernel`, `Kernel.cfg` | 98,215 | Scheduler and sessions under every placement of ticks, exits, revocations and spawns; a thread blocked on a session is released when its peer exits. |
| `port_messages` | `MCPortMessages`, `PortMessages.cfg` | 6,448 | Messages of several bytes stay whole on a shared port, and a send lock is released unless a token lapses. |
| `svc_lifecycle` | `MCSvc`, `SvcLifecycle.cfg` | 67,784 | The telephony stores agree over two profiles and two accounts and MARSHAL's six outcomes; every change is audited. |
| `svc_billing` | `MCSvc`, `SvcBilling.cfg` | 162,469 | The same with usage, allowances and billing periods; the spacing of resets. |
| `fat32` | `MCFat32`, `Fat32.cfg` | 155,435 | The volume under a failing or late write or a restart at any sector. |
| `storage` | `MCStorage`, `Storage.cfg` | 416,808 | The block driver implements `SectorStore`; the file server's answers; the long-name scan against its reference. |
| `marshal` | `MCMarshal`, `Marshal.cfg` | 164,606 | Spawns that ask MARSHAL through the socket server, alone with faults and in pairs. |
| `arm_evaluation` | `ArmEvaluate`, `Arm.cfg` | 71,406 | ARM evaluations after the boot proofs, with a heap that runs out, a device that is defective or wedges, and faults. |
| `net` | `MCNet`, `Net.cfg` | 124,308 | The wire format, both rings, the start of the network process, and network selection. |
| `boot` | `MCBoot`, `Boot.cfg` | 240,709 | Memory, loaders, allowlists, tokens, the proxy, and kernel-arm's audit chain. |
| `svc_displaced` | `MCSvc`, `SvcDisplaced.cfg` | violation | A data session survives on a profile that another one's enabling has demoted. |
| `fault_misrouted` | `ArmEvaluate`, `ArmFault.cfg` | violation | An EL0 fault in a MARSHAL excursion is taken by the boot proof's handler and ends fail-open. |

The last two state what a comment or a document says of the code; the counterexample
is what the code does. `PROJECT.json` quotes both sides under `findings`. In seven more
places the code falls short of a comment; there the property says what the comment says
and names the exact exception, which the run reaches (without it TLC finds a
counterexample):

* `SlotsReleased` (in `SlotsSound`): a slot of the socket server outlasts its
  evaluation only where `evaluate` returned before it learnt its handle
  (`marshal_client.rs:364`, the `?` after the open; `net-driver-host/src/main.rs:866`
  counts on the close).
* `LockReleasedUnlessRevoked`: a send lock stays claimed when its holder's token lapses,
  because the unlock is refused as well (`syscall.rs:270`, `ipc.rs:88`).
* `DmaStaysOwned` (in `MemorySafe`): a device that wedges after its bring-up and ignores the reset
  keeps its DMA pointers, since `reset_virtio_device` gives up after 1000 reads without a word
  (`net_process.rs:470-483`) and `destroy` frees the frames all the same. Rule 3 of `destroy`
  (`process.rs:565-566`): "no DMA targets a frame once it is back in the allocator". A device that
  refuses its first reset is never brought up (`ResetFailed`).
* `StatusExact` (in `WireExact`): in the middle of a length or of a message's text `decode_status` says
  `Incomplete` even when no reply can begin that way, because it looks at either only
  when it is whole (`ipc/src/marshal.rs:127`, `:148`). `:115` calls `Incomplete` "a (so far) valid prefix
  of a message". `OutcomeIsOwn` (in `EvaluationExact`) names the same exception for
  `classify_decode`: a reply cut inside such a field counts as an outage.
* `ScanFindsTheName`: only the checksum of the latest last fragment is compared (`blk-driver-host/src/main.rs:2100-2119`),
  so that a fragment with another checksum counts (`Stray`). `main.rs:2065-2069` asks that the
  entry's checksum match "what every fragment claimed".
* `ProofsReported` (in `NetProgress`): a TCP proof asked for with DHCP gets no verdict when no lease
  comes. `connect(...).unwrap()` (`net-driver-host/src/main.rs:635-642`) panics, the panic handler
  loops (`:1345-1353`), and nothing after it runs.
* `SignedFor` (in `AllowlistHolds`): `canonical_string` joins a module id and an instance id with `|` and
  escapes nothing (`citadel-integration/src/lib.rs:697-705`), so that for a module id with a `|` in it one signature is good for
  every split of the joined ids. `lib.rs:664-670` says an entry "authenticates exactly one instance
  of exactly one module".

Two comments are looser than the code and no property is about them. `allocate_cluster_chain`
(`blk-driver-host/src/main.rs:1325-1327`) says that what a failing call reserved "is freed back"; the freeing
may fail too, which `free_clusters` says, and `OrphansBounded` bounds what that leaks.
`Elf64::load_segments` (`kernel/src/elf.rs:155-158`) still asks for page-aligned segments; the
code, and `Loader`, take any.

### Bounds and why they are enough

* **Kernel.** Four threads (the boot thread and three) are enough for owner, server and
  a third party; a fourth spawn meets `MAX_THREADS`. Lanes of one byte are full at
  once, so that every blocking path is taken; the ceilings are 2 live sessions and 1 per owner.
  Each behaviour has one of five workloads, since their product is out of reach: the
  scheduler alone, opening and accepting sessions, traffic on them, locks on them, and
  ports. Ticks, spawns and exits happen in all of them. `Within` narrows threads, ports or
  session ids where a workload does not need them.
* **PortMessages.** Three threads, a channel of 2 and messages of 3 bytes: a message
  never fits whole.
* **Svc.** For the lifecycle two accounts and three profiles in one slot, so that a profile
  is demoted while the other account's is enabled, and no clock. For billing one account
  and one profile; usage crosses all four bands (cap 2, counter saturating at 4), and 6 ticks
  with periods of 3, a cooldown of 2 and a grace of 1 see a reset refused, due and overdue.
* **Fat32.** 24 clusters and 2 FATs, one fault and one restart, at any step, on two volumes: one
  with room and an FSInfo hint, and one that runs out inside the multi-cluster proof and has no hint.
* **Storage.** Two sectors, ring indices modulo 2 (they wrap), two clients for one slot,
  lanes of one byte, requests of two, one device error. The stall that the boot page asks for
  comes with two writers only. Directories of 4 slots from 9 kinds (`MCSlots`): both
  fragments of a name of two, with the entry's checksum and with another, a name of one, numbers out of
  range, two short entries and the end; two names looked for (`MCTargets`), one that ends at
  a terminator and one that fills its fragments.
* **Marshal.** Two sockets, lanes of 4, poll budgets of 1 or 2; two faults for one client,
  one for two clients. One-byte lengths and a payload of 2 bytes, so that the longer of the two requests
  takes two chunks.
* **Arm.** 49 frames, of which 6, 24, 46, 48 or 49 are free at boot: nothing fits,
  a setup fails early, late, at its last allocations, or fits. Two evaluations, one fault. One defect per platform; a wedged device is one of them.
* **Net.** Every stream of up to 4 bytes, and of 5 and 6 the ones that begin a reply (`MCArriving`), with lengths of
  3 and 2 bytes, so that a length is seen cut in the middle and too long; 2 receive buffers and 1 to send from, in rings just as large, indices modulo 4, one
  invented completion, poll loops of 4 turns, scans of 3 candidates. A device offers queues of 1, 2 or 3
  entries, one pair of sizes per behaviour: too small, right, and not a power of two.
* **Boot.** 44 frames with queues of 2 pages; pages of 2 bytes in an address space of 12;
  ports up to 3 in words that wrap there; the ids `a`, `a|b` and `c`, `b|c`, which join to the same string,
  two entries and two loads, in any order; three connections for two places; quotas of
  2 and 1 with 3 summaries and counters that saturate at 6.

`CHECK_DEADLOCK FALSE` stands in the configs of `net`, `boot` and `marshal` only: a boot
ends or halts, an image or a list is complete at some point, and a loop that has
nothing to do idles.

## 4. Properties

Each property of a run is a theme, defined at the end of its module, and its conjuncts
are the single claims, each with its comment.

* **Kernel.** `SchedulerSound`: each thread in one place, mapped stacks exactly those of
  threads not reaped, an exit that does not come back, the running thread's
  context. `SchedulerSteps`: the `EXITING` flag never retires another thread; no overtaking.
  `SchedulerLive`: a queued thread runs, an exited one is reaped. `SessionsSound`: no
  orphan session, exact pending queues, ceilings, a thread never receives its own
  bytes. `SessionSteps`: no effect without authority, fixed participants, and a wait for a lane's
  lock that ends only with the session. `PeerExitReleases`.
* **Svc.** `StoresAgree`: an enabled profile is served, sessions have owners, the reconciler
  finds only advisory drift. `StepsAccounted`: nothing changes without its audit
  event, and service returns only on a verdict. `PeriodRules`: resets keep their distance and
  a requested deadline never recedes.
* **Block driver.** `VolumeIntact`: a pass means readable files, and so does a stop at any
  point. The FSInfo hint and the leaked clusters stay within what the faults so far can cost.
  `MirrorDriftBounded`: so do the entries in which the FAT's copies differ. `QuarantineHolds`,
  `Reports`. `AnswersSound`: acknowledged writes stay, tokens guard the device, slots wait for somebody, nothing succeeds in
  quarantine. `RequestAnswered`, `ScanFindsTheName`, `ImplementsSectorStore`.
* **MARSHAL.** `VerdictsHold`: the request reaches the peer whole and in order, a verdict is the session's own,
  and a refusal spawns nothing.
  `SlotsSound`. `EvaluationsEnd`, except behind a lane that stays full for ever: the server then waits
  in its send, and the code has nothing that ends it. On ARM: `MemorySafe` (no DMA into freed frames, isolation,
  everything given back), `EvaluationExact` (own outcome, own registers, one handoff), `EvaluationEnds`.
* **Network.** `WireExact`: decoders accept exactly the encodings from any prefix of a
  stream. `RingSound`: no buffer lost or used twice. `StartSound`: the clock
  given to smoltcp only advances, and a proof passes on its own evidence. `NetProgress`: a returned
  frame is served, and every proof asked for gets its verdict. `SelectionIsBest`.
* **Boot.** `MemorySound`, `ImagesLoaded`, `AllowlistHolds` (what is loaded is what was signed, and a
  name on the list keeps its answer whatever is inserted later), `TokensHold`, `ProxySound`,
  `ConnectionEnds`, `AuditSound`, and `DropsDisclosed` (losses are told to within a factor of 4).

The hazards in `PROJECT.json` give, for each of these, the line where it could go wrong.
The one without a property is a tick inside a spin lock's critical section: the locks
are atomic here.

## 5. Fairness

* `Scheduler`, `Kernel`: weak fairness of the tick (the PIT fires), and of the current
  thread's syscall (it runs with interrupts off until it completes or yields).
* `PortMessages`: strong fairness of each client's next syscall and of the bytes' push. A
  retried send or receive is enabled only while its thread is current and the channel has
  room or bytes. The claim is about clients that keep calling.
* `VirtioBlk`: weak fairness of the driver alone; a device may stay silent, the wait is
  bounded. `SectorStore`: a request is answered or given up. `Fat32`, `Lfn`: the driver's code
  goes on. `FsServer`: the server's loop goes on and a client takes what was sent to it.
* `MarshalClient`, `Proxy`, `ArmEvaluate`, `NetBoot`: while code can move, some of it does. These are written
  as `[]<>~CanMove \/ []<><<Move>>_vars`, weak fairness with `ENABLED` spelled out. No network,
  peer or device has to answer.
* `NetRing`: the poll loop comes back, and a device sends what it was given to send.
* `Svc`, `AuditChain`, `Allowlist`, `Tokens`, `Loader`, `KernelSpaces`, `Selection`, `Wire`: none.

## 6. Proofs

**`KernelProofs`, the scheduler**, for every `MAX_THREADS` (a positive natural number):
`SchedulerIsSound` and `SchedulerStepsHold`, the two themes of the `kernel` run, from
`TypeCorrect`, `ThreadsInOnePlace`, `StacksReclaimed`, `ExitFinal` and
`ContextLoaded` (invariants), `OnlyExitedThreadsRetire` and `QueueIsFifo` (action
properties). All rest on `SchedInvariance`, that `SchedInv` is inductive. `SchedInv`
adds to the five invariants what they need of each other. That an exiting thread
finds a successor needs that the boot thread is always runnable, never exits, and
is therefore in the queue whenever another thread is current. That a set `EXITING`
belongs to the current thread needs that no queued or unpushed thread stands in
the exit window. That a stack is mapped once needs that ids not yet handed out
have none. `RescheduleInv` proves the switch once, for the yield, the tick
and the exit's `int`; `NextInv` has one step per action. `AppendFacts` and
`TailFacts` are the facts about queues.

**`KernelProofs`, the sessions**, for any number of threads, any ports, grants, channel capacities and
ceilings: `SessionsStaySound`, and `KernelKeepsScheduler`, that the scheduler's theme
survives the composition, with syscalls that yield inside their loops and a reap that
tears sessions down. The inductive invariant `KernelInv` is `SchedInv` with the tables'
own: `IdsHandedOut` (every id in a table is below the counter, so that a
new session takes no one's place), `LanesOwn` (a lane holds only its writer's bytes,
which is what makes `RecvIsPeers` inductive), `NoOrphanSession` and `LockWaitsOnSelf`
(a thread that waits for a lane's lock holds that lock itself, which is why only the
teardown ends its wait). A step
is a scheduler step that leaves the tables alone, or a syscall that changes one session,
adds one at the end of its port's queue or takes one from its front, or a reap that
filters both tables by the same threads.

**`IpcProofs`**, from the same invariant: `SessionStepsHold`, by `ParticipantsStayFixed`,
`LockWaitsEndInTeardown` and `UnauthorizedStaysInert`, each an action property; and
`MessagesStayWhole`, for any set of senders and any length of a message. There the
invariant `MsgInv` adds `LockIsHeld` (the port's lock is taken exactly while one sender holds
it) and `StreamMatches` (the bytes received and queued are whole messages and as many more as
the holder has sent of its own, the last of them the holder's).

**`FsProofs`, the block driver**, for any sectors, data, index width of more than one and jobs:
`ImplementsSectorStoreSafely`, the refinement of `SectorStore`'s initial states and steps.
`BlkInv` says that the request page is in one of five phases (`NoRequest`, `Published`,
`Taken`, `Moved`, `Completed`), each of which fixes both rings' indices, and that a page
which timed out is in one of the last four for ever; each step of the driver or the device
moves it to the next phase and is a step of the store or none.

**`FsProofs`, the file server**, for any clients, requests, file lengths, table size, lane capacity
and number of failed sector requests: `FsAnswersStaySound`, all of `AnswersSound`. `FsInv` adds to
the invariants of that theme `OnePlace` (a client is in the accept queue or in one slot, never
twice), `PassSound` (the slots a pass has answered lie before the one it is at and
are removed at its end, so that the sweep by index removes the right ones; a request past `verify` has its own
token) and `LateSound` (what a timed-out write may still leave is among the contents
that a reader may see). `RemoveFacts` says what a removal leaves, `SweepStep` what the sweep does.

**`FatProofs`, the FAT's copies**, for any number of clusters and copies, any volumes, and any
number of faults and restarts: `MirrorDriftStaysBounded` and the action property
`QuarantineAlwaysHolds`. `DriftInv` says that the entries in which the copies differ are
at most the faults and restarts so far, leaving out the entry being written, whose first
copies already have the new value; also that the disk a late write would leave is as good, and that
a write is under way only on a healthy device. Every other step of the driver is
reduced once (`PlainStep`) to one that leaves the FAT's copies alone.

**`FatProofs`, the long-name scan**, for directories of any length, made of any slots, and any name:
`ScanAlwaysFindsTheName`. `LfnInv` ties the locals of the loop to the slots passed: the fragments
collected are those of the run that ends here, each from the last slot of its number (`Collected`), the
checksum is that of the last slot marked as the first of a name (`Vouched`), and no slot
passed is a match. The reference definition is stated over the run before a slot and uses no recursion;
its `Named` is the doc comment's, `Stray` what the code accepts besides, and `Accepted` their sum, which is
what the loop's test decides.

**`NetProofs`, the rings**, for any pools of buffers, any sizes a device may offer and any index width
that the accepted sizes divide: `RingsAccountForEveryBuffer`, all of `RingSound`. The arithmetic comes
first: entries less than a ring's size apart are in different slots although the indices wrap
(`SlotsDiffer` and the lemmas before it). `RingInv` then says that the avail ring, the device and the used ring hold
each buffer of a set apiece (`Apiece`): for TX always, for RX until the device has invented a
completion; and that an RX buffer is posted, in the call's hands or in the token's, in exactly one
of them, whatever the device says.

**`NetProofs`, the boot sequence**, for any poll bounds and results of smoltcp: `BootStaysSound`, all
of `StartSound`. `BootInv` gives, for each loop, the timestamp of a turn in terms of the loops before
it (`Timeline`), which is what makes the clock advance from one loop to the next,
and keeps the evidence with each verdict that passed. A panic leaves all of it alone.

**`SvcProofs`**, for any profiles, slots, accounts, capacities, lengths of
time and counter width: `StoresStayAgreed`, and the action properties `PeriodRulesHold` and
`StepsStayAccounted`. `SvcInv` is `ServiceInv` (types; an enabled profile is served by
an active account, one per slot; sessions have their owners; no account is opened after boot)
with `TablesInv` (periods start, and resets are asked for, in the past; an account whose
reset was recorded has a period that started no earlier). Each
syscall is first reduced to a refusal, which changes nothing but the events, or to the
effect of its last branch; the effects are then taken one by one. For `PeriodRules` the
invariant is needed because the gate's clock is older than the one the reset is
applied with.

**`TrustProofs`**, three components that share no state:

* The audit chain, for any finite set of classes, any quotas, any number of summaries and
  any saturation value. `DropsAreDisclosed` rests on `AuditInv`, which adds
  `Threshold(c)`: a class is below its next threshold or saturated, and some summary of it
  is within a factor of 4 of its count and of its threshold. Without the clause on the
  threshold the factor is lost at the next dropped event. `AuditStaysSound` rests on
  `BooksInv`: the chain's length is the number of reserved places filled (`Filled`), so that
  each append fills one more, and none is left over when each class has filled its own.
* `TokensStayHeld`, for any ports, ranges, widths and lifetime. `TokensInv` says what an
  issued token can be, that a revoked signature has its fingerprint listed, and that the last
  answer is the one the check would give now; `PortsAreInclusion` and `WindowsAreInside` are the
  arithmetic: the code's checked sums decide inclusion of the whole access.
* `AllowlistStaysHeld`, for any modules, instances, contents and tiers, and ids of any length and
  characters. `AllowInv` adds that a signature is over the fields an entry was signed with, whatever was
  altered since, and that each record is what the list would answer now, unless its name was not on
  the list then. The lemmas before it are about the joined strings: equal ones have equal versions,
  digests, tiers and joined ids, and when neither module id holds the separator, equal ids one by
  one. `FindsTheFirst` is what the scan of the list returns.

**`PolicyProofs`, the proxy**, for any finite set of connections, any cap, requests and replies:
`ProxyStaysSound`. `ProxyInv` has three parts beside the types. `PlacesInv`: the count is the
number of threads between accept and release and of the connection being refused, of which there is at most
one; only while there is one may the count be past the cap. `VerdictsInv`: how far a connection has come fixes what
CITADEL has of it and what it can have been told. `LedgerInv`: for each subject, the connections
that CITADEL has heard of *or is about to* are no more than the approving entries of
the log. The second half is needed because the entry is made one step before the request leaves,
and other connections with the same subject move in between.

**`PolicyProofs`, network selection**, for any plans, candidates and limits: `SelectionStaysBest`. `LoopInv`
says that `best` is a usable candidate which no usable one outranks, as soon as there is one.
The code compares rank tuples; `Outranks` is the order of preferences they stand for, and it is
strict and total on networks, so the loop's answer is the reference's whatever the
order in which the modem reports.

The assumptions are the modules' `ASSUME`s, which TLC evaluates in the runs: positive
or natural sizes (`MaxThreadsAssumption`, `IpcAssumption`, `MessageAssumption`, `WrapAssumption`,
`SectorAssumption`, `SvcAssumption`, `AuditAssumption`, `TokensAssumption`, `FatAssumption`), the type of what
a configuration supplies (`GrantsAssumption`, `JobsAssumption`, `SimAssumption`, `AccountAssumption`,
`ProxyAssumption`, `AllowAssumption`, `FsAssumption`, `LfnAssumption`, `SelectionAssumption`), that a marker for absence is no value
(`NoneAssumption`, and in `LfnAssumption` that no stored checksum is the one for "none"), and two facts about the code's
constants: indices of 16 bits are a multiple of each power of two up to the largest queue
(`RingAssumption`), and the server's timestamps start above those of two poll loops (`BootAssumption`: 5,000,000
and loops of at most 2,000,000 turns). The
theorems are about the components' specifications; where an `MC` module takes several
(`boot`, `storage`, `net`), the one that moves takes the steps of its own specification.

**Only model-checked.**

* Every liveness property, and the fair part of `ImplementsSectorStore`: the prover has no
  reasoning about fairness and `ENABLED`.
* What recursions and folds over data compute, which needs induction over data: `WireExact`
  (encodings of any length), `ImagesLoaded` (folds over an image's headers and pages).
* `VolumeIntact`: chains of clusters are followed by recursion, so that what is readable, shared,
  dangling or leaked on a volume is a recursive walk of it. Its bound on the FSInfo hint stands
  beside them: that the entry a driver frees was in use follows from the chains.
* `VerdictsHold` and `SlotsSound` (`MarshalClient` over `SocketServer` and `Wire`): a verdict is
  what the decoder makes of a stream of bytes, again an induction over the stream. The part of
  `SlotsSound` that does not depend on the bytes was not attempted.
* `MemorySafe` and `EvaluationExact` (`ArmEvaluate` and the modules it extends): the frames of a
  space are planned and freed by folds over its tables.
* `MemorySound` (`KernelSpaces`): within reach, not proved so far. It needs that each frame has one owner,
  and facts about the order of the operations in the boot's scripts, one of which allocates by a fold.

## 7. Not modelled

* **RIL channel and byte mailboxes of kernel-arm**: single bytes between two callers on one CPU
  with IRQs masked; each call is atomic.
* **The other boot proofs of kernel-arm**: they drive modelled parts once and keep no state.
* **x86_64 platform (PCI, entropy, GDT, heap)**: register set-up, and an external allocator.
* **GRID sandbox host and its WASM runtime, the TLS client**: glue around external libraries,
  whose state machines are theirs.
* **Build and consistency tools**: they run outside the system.

In the modelled parts: formatting, serial output and the text of audit
entries; cryptography (a signature equals what was signed, a hash chain is a sequence);
`SYS_RANDOM`, `SYS_WRITE` and `SYS_TICKS`, which only touch hardware; spin locks; smoltcp's
sockets and MARSHAL's or CITADEL's decisions, which are any answer their callers handle; the ARM
driver's ring code, which repeats the x86_64 driver's; the lifecycle and shadow records of
the evidence log; a connection thread of the proxy that panics, which would leak its place.

## 8. What could follow

1. A proof of `MemorySound` from the ownership of frames; then the ARM kernel's frames (`MemorySafe`) and
   `HintDriftBounded`, with the folds and walks replaced by facts kept in the state, as `Filled`
   does for the audit chain.
2. What a session promises, two reliable bounded byte streams until teardown, as an
   abstract specification that `Kernel` implements and that the two servers' modules use.
3. A lock-level module for the spin locks and the tick.
