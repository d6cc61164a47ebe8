------------------------------ MODULE ArmSpaces ------------------------------
(* Address spaces of the ARM kernel: kernel-arm process.rs, reclaim.rs and    *)
(* the part of net_process.rs that builds the network process's space.        *)
(*                                                                            *)
(* The heap is a set of 4 KiB frames; the frames past it are the kernel's own *)
(* level-1 and level-2 tables and the virtio-mmio device page. `mm` holds the *)
(* free frames and the contents of every frame that is used as a translation  *)
(* table. A virtual address is its three table indices <<l1, l2, l3>>; level-1*)
(* entry 1 is the private window. Building operations thread a record         *)
(* [ok, mm, sp, at] from step to step: once ok is FALSE the rest are skipped, *)
(* as the `?` operator does. A small heap allocation (a Vec growing by one)   *)
(* can fail only when no frame is free: `slack` says whether the holes smaller*)
(* than a frame still satisfy it then.                                        *)
EXTENDS Naturals, FiniteSets, Sequences, SequencesExt

CONSTANTS FRAMES,          \* frames in the kernel heap
          QUEUE_PAGES,     \* QUEUE_REGION_PAGES, scaled down
          NET_HEAP_PAGES,  \* the driver's heap, scaled down
          RX_BUFFERS,      \* RX_BUFFER_COUNT, scaled down
          TX_BUFFERS       \* TX_BUFFER_COUNT, scaled down

ASSUME ArmSizes == /\ FRAMES \in Nat \ {0}
                   /\ {QUEUE_PAGES, NET_HEAP_PAGES, RX_BUFFERS, TX_BUFFERS} \subseteq 1..4

Heap == 1..FRAMES
KernelRoot == FRAMES + 1
KernelTable == FRAMES + 2
MmioPage == FRAMES + 3
Memory == 1..(FRAMES + 3)
Index == 0..4
PRIVATE == 1

NoEntry == [kind |-> "none", to |-> 0]
TableTo(f) == [kind |-> "table", to |-> f]
PageTo(f) == [kind |-> "page", to |-> f]
Zeroed == [i \in Index |-> NoEntry]
(* The kernel's own map: entry 0 leads to kernel memory, and so does the     *)
(* private window's entry until a space replaces it with a table of its own. *)
KernelMap == [i \in Index |-> IF i <= PRIVATE THEN TableTo(KernelTable) ELSE NoEntry]

BootMemory(free, slack) == [free |-> free, slack |-> slack,
                     pt   |-> [f \in Memory |-> IF f = KernelRoot THEN KernelMap ELSE Zeroed]]

NoSpace == [root |-> 0, tables |-> {}, seeded |-> 0, pages |-> <<>>, blocks |-> <<>>, hook |-> FALSE]

BlockFrames(b) == b[1]..(b[1] + b[2] - 1)
Owned(sp) == sp.tables \union Range(sp.pages) \union UNION {BlockFrames(b) : b \in Range(sp.blocks)}

Failed(r) == [r EXCEPT !.ok = FALSE]
CanGrow(mm) == mm.free # {} \/ mm.slack

Bases(mm, n) == {b \in mm.free : b..(b + n - 1) \subseteq mm.free}
Lowest(S) == CHOOSE b \in S : \A c \in S : b <= c

(* alloc_zeroed of n consecutive frames; `at` is the base.                   *)
alloc_block(r, n) ==
  IF ~r.ok \/ Bases(r.mm, n) = {} THEN Failed(r)
  ELSE LET b == Lowest(Bases(r.mm, n)) IN
       [r EXCEPT !.at = b,
                 !.mm = [free |-> @.free \ (b..(b + n - 1)), slack |-> @.slack,
                         pt |-> [f \in Memory |-> IF f \in b..(b + n - 1) THEN Zeroed ELSE @.pt[f]]]]

alloc_page(r) == alloc_block(r, 1)

Write(r, table, i, e) == [r EXCEPT !.mm.pt[table][i] = e]

(* AddressSpace::new: a root copied from whatever table is active.           *)
new_space(mm, active) ==
  LET r == alloc_page([ok |-> TRUE, mm |-> mm, sp |-> NoSpace, at |-> 0]) IN
  IF ~r.ok THEN r
  ELSE [r EXCEPT !.mm.pt[r.at] = mm.pt[active],
                 !.sp = [NoSpace EXCEPT !.root = r.at, !.tables = {r.at}, !.seeded = active]]

(* descend: follow an entry only into a table this space owns; otherwise     *)
(* install a fresh one.                                                      *)
Installed(n, table, i) ==
  IF n.ok THEN Write([n EXCEPT !.sp.tables = @ \union {n.at}], table, i, TableTo(n.at)) ELSE n
descend(r, table, i) ==
  LET e == r.mm.pt[table][i] IN
  IF ~r.ok THEN r
  ELSE IF e.kind = "table" /\ e.to \in r.sp.tables THEN [r EXCEPT !.at = e.to]
  ELSE Installed(alloc_page(r), table, i)

LeafTable(r, va) ==
  IF ~r.ok \/ va[1] # PRIVATE THEN Failed(r)
  ELSE LET l2 == descend(r, r.sp.root, va[1]) IN descend(l2, l2.at, va[2])

(* map_private_page_with: a fresh frame, recorded before it is mapped.       *)
Placed(page, leaf, i) ==
  IF page.ok /\ CanGrow(leaf.mm)
  THEN Write([page EXCEPT !.sp.pages = Append(@, page.at)], leaf.at, i, PageTo(page.at))
  ELSE Failed(leaf)
map_private_page(r, va) ==
  IF ~r.ok THEN r ELSE LET leaf == LeafTable(r, va) IN Placed(alloc_page(leaf), leaf, va[3])

(* map_mmio_page: maps a given frame and owns nothing of it.                 *)
map_mmio_page(r, va, pa) ==
  LET leaf == LeafTable(r, va) IN
  IF leaf.ok THEN Write(leaf, leaf.at, va[3], PageTo(pa)) ELSE leaf

adopt_block(r, base, n) ==
  IF ~r.ok \/ ~CanGrow(r.mm) THEN Failed(r) ELSE [r EXCEPT !.sp.blocks = Append(@, <<base, n>>)]

Release(r, base, n) == [r EXCEPT !.mm.free = @ \union (base..(base + n - 1))]

(* map_contiguous_region: allocate, adopt (or give back), then map page by   *)
(* page; `at` ends as the block's base.                                      *)
map_contiguous_region(r, va, n) ==
  LET b == alloc_block(r, n)
      a == adopt_block(b, b.at, n)
      Map(q, i) == map_mmio_page(q, <<va[1], va[2], va[3] + i>>, b.at + i)
  IN IF ~b.ok THEN b
     ELSE IF ~a.ok THEN Failed(Release(b, b.at, n))
     ELSE [FoldLeft(Map, a, [i \in 1..n |-> i - 1]) EXCEPT !.at = b.at]

map_pages(r, va, n) ==
  LET Map(q, i) == map_private_page(q, <<va[1], va[2], va[3] + i>>)
  IN IF r.ok THEN FoldLeft(Map, r, [i \in 1..n |-> i - 1]) ELSE r

(* plan_frees: the plan itself can be allocated, the whole ledger lies in    *)
(* the heap and no frame is listed twice.                                    *)
plan_frees(sp, mm) ==
  LET listed == Cardinality(sp.tables) + Len(sp.pages) +
                FoldLeft(LAMBDA n, b : n + b[2], 0, sp.blocks)
  IN CanGrow(mm) /\ Owned(sp) \subseteq Heap /\ listed = Cardinality(Owned(sp))

is_live(sp, active) == sp.root = active

(* The device: does it process its queues, which frames may it read or write,*)
(* and does it still obey a reset.                                           *)
Quiet(d) == [d EXCEPT !.on = FALSE, !.dma = {}]

(* reset_virtio_device: 0 into Status, then at most 1000 read-backs. A device*)
(* that never reads back 0 is left as it is, and the caller is not told.     *)
reset_virtio_device(d) == IF d.stuck THEN d ELSE Quiet(d)

(* destroy: refuse a live space, reset the device (the pre-free hook),       *)
(* validate the ledger, and only then free; a refused ledger frees nothing.  *)
destroy_unquiesced(mm, dev, sp, active) ==
  IF is_live(sp, active) \/ ~plan_frees(sp, mm) THEN [mm |-> mm, dev |-> dev, ok |-> FALSE]
  ELSE [mm |-> [mm EXCEPT !.free = @ \union Owned(sp)], dev |-> dev, ok |-> TRUE]

destroy(mm, dev, sp, active) ==
  IF is_live(sp, active) THEN [mm |-> mm, dev |-> dev, ok |-> FALSE]
  ELSE LET quiet == IF sp.hook THEN reset_virtio_device(dev) ELSE dev IN
       IF ~plan_frees(sp, mm) THEN [mm |-> mm, dev |-> quiet, ok |-> FALSE]
       ELSE [mm |-> [mm EXCEPT !.free = @ \union Owned(sp)], dev |-> quiet, ok |-> TRUE]

-----------------------------------------------------------------------------
(* net_process.rs                                                            *)

Va(l2, l3) == <<PRIVATE, l2, l3>>
NET_MMIO_VA == Va(0, 0)
NET_HEAP_START == Va(0, 1)
NET_INFO_VA == Va(1, 0)
NET_RXQ_VA == Va(1, 1)
NET_TXQ_VA == Va(1, 3)
NET_RXBUF_VA == Va(2, 0)
NET_TXBUF_VA == Va(2, 2)
MARSHAL_REQUEST_VA == Va(3, 0)
MARSHAL_RESPONSE_VA == Va(3, 1)
IMAGE_VA == Va(4, 0)
STACK_VA == Va(4, 3)

Step(op, va, n) == [op |-> op, va |-> va, n |-> n]
Mapped(r, step) ==
  CASE ~r.ok -> r
    [] r.ok /\ step.op = "window" -> map_mmio_page(r, step.va, MmioPage)
    [] r.ok /\ step.op = "pages"  -> map_pages(r, step.va, step.n)
    [] r.ok /\ step.op = "region" -> map_contiguous_region(r, step.va, step.n)

(* build_net_boot_info: device window, driver heap, info page, two queue     *)
(* regions, the packet buffers and, in MARSHAL mode, the request and response*)
(* regions. What the driver is told: the DMA frames and the response frame.  *)
NetQueues == <<Step("window", NET_MMIO_VA, 1), Step("pages", NET_HEAP_START, NET_HEAP_PAGES),
               Step("pages", NET_INFO_VA, 1), Step("region", NET_RXQ_VA, QUEUE_PAGES),
               Step("region", NET_TXQ_VA, QUEUE_PAGES)>>
NetBuffers == <<Step("pages", NET_RXBUF_VA, RX_BUFFERS), Step("pages", NET_TXBUF_VA, TX_BUFFERS)>>
MarshalRegions == <<Step("region", MARSHAL_REQUEST_VA, 1), Step("region", MARSHAL_RESPONSE_VA, 1)>>
build_net_boot_info(r, request) ==
  LET queues == FoldLeft(Mapped, r, NetQueues)
      built  == FoldLeft(Mapped, queues, NetBuffers \o IF request THEN MarshalRegions ELSE <<>>)
  IN [built |-> built,
      dma   |-> UNION {BlockFrames(b) : b \in Range(queues.sp.blocks)}
                \union (Range(built.sp.pages) \ Range(queues.sp.pages)),
      response |-> IF request THEN built.at ELSE 0]

(* loader::load as the space sees it: the image's pages, then its stack.     *)
load_image(r) == map_private_page(map_pages(r, IMAGE_VA, 2), STACK_VA)

(* setup: a space whose destruction resets the device; a failure after it    *)
(* exists destroys it.                                                       *)
NotSetUp(r) == [ok |-> FALSE, mm |-> r.mm, dev |-> r.dev, sp |-> NoSpace, dma |-> {}, response |-> 0]
Loaded(done, net, dev, active) ==
  IF ~done.ok THEN NotSetUp(destroy(done.mm, dev, done.sp, active))
  ELSE [ok |-> TRUE, mm |-> done.mm, dev |-> dev, sp |-> done.sp, dma |-> net.dma, response |-> net.response]
setup(mm, dev, active, request) ==
  LET fresh == new_space(mm, active)
      net == build_net_boot_info([fresh EXCEPT !.sp.hook = TRUE], request)
  IN IF fresh.ok THEN Loaded(load_image(net.built), net, dev, active)
     ELSE NotSetUp([mm |-> mm, dev |-> dev])

-----------------------------------------------------------------------------
(* What the hardware walker reaches from a root.                             *)
Targets(m, tables, kind) ==
  {m.pt[slot[1]][slot[2]].to : slot \in {x \in tables \X Index : m.pt[x[1]][x[2]].kind = kind}}
TablesFrom(m, root) ==
  LET level2 == Targets(m, {root}, "table")
  IN {root} \union level2 \union Targets(m, level2, "table")
PagesFrom(m, root) == Targets(m, TablesFrom(m, root), "page")
=============================================================================
