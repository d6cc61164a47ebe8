---------------------------- MODULE KernelSpaces ----------------------------
(***************************************************************************)
(* Memory on x86_64: physical frames, top-level page tables, address       *)
(* spaces, thread stacks, and the boot sequence that builds the drivers'   *)
(* processes out of them (kernel/src/memory.rs, process.rs, main.rs and    *)
(* the stacks of scheduler.rs).                                            *)
(*                                                                         *)
(* A top-level (P4) entry points to a subtree, which has a table frame per *)
(* region and the region's pages.  What runs with interrupts off, one      *)
(* with_mapper_and_frame_allocator, is one step: between two of them a     *)
(* second thread may build an instance (spawn_instance's loader) and       *)
(* kernel threads may exit and be reaped.  Region sizes are scaled down.   *)
(***************************************************************************)
EXTENDS Naturals, FiniteSets, Sequences, SequencesExt, TLC

CONSTANTS
    TOTAL_FRAMES,           \* usable frames the bootloader reports
    QUEUE_PAGES,            \* pages of a virtqueue region
    Boots                   \* what is loaded, whether an instance is spawned meanwhile, where
                            \* the usable regions are apart, what the bootloader mapped, and
                            \* how many kernel threads exit

VARIABLES
    alloc,                  \* BootInfoFrameAllocator: next and freed
    p4,                     \* top-level table -> slot -> subtree
    sub,                    \* subtree -> its region tables and its pages
    detached,               \* AddressSpace -> detached_p4_slots
    actor,                  \* the boot thread and a thread that spawns an instance
    kthreads, zombies,      \* kernel threads, by stack slot
    stacks,                 \* NEXT_STACK_SLOT, NEXT_KERNEL_ENTRY_STACK_SLOT
    gap,
    exits,                  \* kernel threads that have exited, and the bound on them
    halted                  \* why the kernel panicked, if it has

spaceVars == <<alloc, p4, sub, detached, actor, kthreads, zombies, stacks, gap, exits, halted>>

Slot == {"kernel", "stack", "entry", "user", "private"}
Kernel == 0                 \* the kernel's own P4 frame
Absent == TOTAL_FRAMES + 1
Actors == {"boot", "instance"}

-----------------------------------------------------------------------------
(* The frame allocator: the frame freed last, or the next usable one.      *)

allocate_frame(a) ==
    IF a.freed # <<>> THEN [frame |-> Last(a.freed), a |-> [a EXCEPT !.freed = Front(@)]]
    ELSE [frame |-> IF a.next <= TOTAL_FRAMES THEN a.next ELSE Absent, a |-> [a EXCEPT !.next = @ + 1]]

Phys(f) == IF f > gap THEN f + 1 ELSE f

(* OffsetPageTable::map_to on the table root of memory m: a missing        *)
(* subtree or region table takes a frame of its own.                       *)
WithSubtree(m, root, slot) ==
    IF m.p4[root][slot] # Absent THEN m
    ELSE LET f == allocate_frame(m.alloc)
         IN  [m EXCEPT !.alloc = f.a, !.p4[root][slot] = f.frame,
                       !.sub = @ @@ (f.frame :> [table |-> <<>>, page |-> <<>>]),
                       !.oom = @ \/ f.frame = Absent]
WithTable(m, s, region) ==
    IF region \in DOMAIN m.sub[s].table THEN m
    ELSE LET f == allocate_frame(m.alloc)
         IN  [m EXCEPT !.alloc = f.a, !.sub[s].table = @ @@ (region :> f.frame),
                       !.oom = @ \/ f.frame = Absent]
map_to(m, root, slot, region, i, frame) ==
    LET m1 == WithSubtree(m, root, slot)
        s == m1.p4[root][slot]
        m2 == IF m1.oom THEN m1 ELSE WithTable(m1, s, region)
    IN  IF m2.oom THEN m2 ELSE [m2 EXCEPT !.sub[s].page = @ @@ (<<region, i>> :> frame)]

Mem == [alloc |-> alloc, p4 |-> p4, sub |-> sub, oom |-> FALSE]
Commit(m) ==
    /\ alloc' = m.alloc /\ p4' = m.p4 /\ sub' = m.sub
    /\ halted' = IF m.oom THEN "out of physical memory" ELSE "no"

(* A fresh frame, mapped: a stack page, or the page that reserves a slot.  *)
MapFresh(m, root, slot, region, i) ==
    LET f == allocate_frame(m.alloc)
    IN  map_to([m EXCEPT !.alloc = f.a, !.oom = @ \/ f.frame = Absent], root, slot, region, i, f.frame)

-----------------------------------------------------------------------------
(* What the loaders do, one critical section at a time.                    *)

Op(o, region, i) == [op |-> o, region |-> region, i |-> i]

(* map_private_page: a frame, then its mapping.                            *)
map_private_page(region, i) == <<Op("allocate", region, 1), Op("map", region, i)>>

(* All the frames first, then their mappings.                              *)
map_zeroed_contiguous_region(region) ==
    <<Op("allocate", region, QUEUE_PAGES)>> \o [i \in 1 .. QUEUE_PAGES |-> Op("map", region, i)]

spawn == <<Op("stack", "thread", 0), Op("push", "thread", 0)>>
spawn_ring3_process == <<Op("stack", "process", 0), Op("entry", "process", 0)>>

load_and_run_grid_sandbox_host ==
    <<Op("new", "", 0)>> \o map_private_page("image", 1) \o spawn_ring3_process
load_and_run_net_driver_host ==
    <<Op("new", "", 0)>> \o map_private_page("image", 1) \o map_zeroed_contiguous_region("rxq")
        \o map_zeroed_contiguous_region("txq") \o map_private_page("buffer", 1) \o spawn_ring3_process
load_and_run_blk_driver_host ==
    <<Op("new", "", 0)>> \o map_private_page("image", 1) \o map_zeroed_contiguous_region("queue")
        \o map_private_page("buffer", 1) \o spawn_ring3_process

(* The boot thread: a host or driver is loaded when CITADEL authorizes it  *)
(* and, for a driver, its device is there.                                 *)
kernel_main(loads) ==
    <<Op("init", "", 0)>> \o spawn
        \o (IF "grid" \in loads THEN load_and_run_grid_sandbox_host ELSE <<>>)
        \o (IF "net" \in loads THEN load_and_run_net_driver_host ELSE <<>>)
        \o (IF "blk" \in loads THEN load_and_run_blk_driver_host ELSE <<>>)
        \o <<Op("user", "stack", 1)>> \o spawn_ring3_process

(* spawn_instance, called on a thread of its own.                          *)
spawn_instance == load_and_run_grid_sandbox_host

-----------------------------------------------------------------------------
SpacesInit ==
    /\ alloc = [next |-> 1, freed |-> <<>>]
    /\ \E c \in Boots :
          LET boot_tree == [table |-> <<>>, page |-> (<<"boot", 1>> :> TOTAL_FRAMES + 2)]
          IN  /\ sub = [f \in {TOTAL_FRAMES + 3, TOTAL_FRAMES + 4} |-> boot_tree]
              /\ p4 = (Kernel :> [s \in Slot |->
                          CASE s = "kernel" -> TOTAL_FRAMES + 3
                            [] s = "private" /\ c.private_used -> TOTAL_FRAMES + 4
                            [] OTHER -> Absent])
              /\ actor = [a \in Actors |->
                          [prog |-> CASE a = "boot" -> kernel_main(c.loads)
                                      [] a = "instance" /\ c.instance -> spawn_instance
                                      [] OTHER -> <<>>,
                           space |-> Absent, held |-> <<>>]]
              /\ gap = c.gap
              /\ exits = [done |-> 0, max |-> c.exits]
    /\ detached = <<>>
    /\ kthreads = {} /\ zombies = <<>>
    /\ stacks = [thread |-> 0, entry |-> 0]
    /\ halted = "no"

Current(a) == Head(actor[a].prog)
Ready(a, op) ==
    /\ halted = "no"
    /\ actor[a].prog # <<>> /\ Current(a).op = op
    /\ a = "instance" => stacks.thread > 0
Step(a, with) == actor' = [actor EXCEPT ![a] = [with EXCEPT !.prog = Tail(@)]]

(* scheduler::init: reserve_p4_slot for both stack regions.                *)
reserve_p4_slot_none(m, slot) == m
reserve_p4_slot(m, slot) == MapFresh(m, Kernel, slot, "reserved", 0)
init(a) ==
    /\ Ready(a, "init")
    /\ Commit(reserve_p4_slot(reserve_p4_slot(Mem, "stack"), "entry"))
    /\ Step(a, actor[a])
    /\ UNCHANGED <<detached, kthreads, zombies, stacks, gap, exits>>

(* AddressSpace::new: a copy of the active table, the kernel's.            *)
new(a) ==
    LET f == allocate_frame(alloc)
    IN  /\ Ready(a, "new")
        /\ alloc' = f.a
        /\ IF f.frame = Absent
           THEN halted' = "out of physical memory" /\ UNCHANGED <<p4, detached>>
           ELSE /\ p4' = p4 @@ (f.frame :> p4[Kernel])
                /\ detached' = detached @@ (f.frame :> {})
                /\ UNCHANGED halted
        /\ Step(a, [actor[a] EXCEPT !.space = f.frame])
        /\ UNCHANGED <<sub, kthreads, zombies, stacks, gap, exits>>

AllocateAll(n) ==
    FoldLeft(LAMBDA s, i : LET f == allocate_frame(s.a) IN [a |-> f.a, frames |-> Append(s.frames, f.frame)],
             [a |-> alloc, frames |-> <<>>], [i \in 1 .. n |-> i])
allocate(a) ==
    LET got == AllocateAll(Current(a).i)
    IN  /\ Ready(a, "allocate")
        /\ alloc' = got.a
        /\ halted' = IF Absent \in Range(got.frames) THEN "out of physical memory" ELSE "no"
        /\ Step(a, [actor[a] EXCEPT !.held = got.frames])
        /\ UNCHANGED <<p4, sub, detached, kthreads, zombies, stacks, gap, exits>>

(* Before a frame of a contiguous region is mapped it is compared with     *)
(* where the first one was.                                                *)
Adjacent(root, at, frame) ==
    at.i > 1 => Phys(frame) = Phys(sub[p4[root]["private"]].page[<<at.region, 1>>]) + (at.i - 1)

(* map_frame: the first private mapping under a top-level entry clears the *)
(* entry copied from the kernel's table.                                   *)
Detach(m, root) == IF "private" \in detached[root] THEN m ELSE [m EXCEPT !.p4[root]["private"] = Absent]
map_frame(a) ==
    LET root == actor[a].space
        at == Current(a)
        frame == Head(actor[a].held)
    IN  /\ Ready(a, "map")
        /\ IF Adjacent(root, at, frame)
           THEN Commit(map_to(Detach(Mem, root), root, "private", at.region, at.i, frame))
           ELSE halted' = "not contiguous" /\ UNCHANGED <<alloc, p4, sub>>
        /\ detached' = [detached EXCEPT ![root] = @ \cup {"private"}]
        /\ Step(a, [actor[a] EXCEPT !.held = Tail(@)])
        /\ UNCHANGED <<kthreads, zombies, stacks, gap, exits>>

(* map_guarded_stack, for a thread's own stack, its kernel-entry stack and *)
(* (map_user_stack) user_hello's.                                          *)
map_guarded_stack(a, op, slot, n) ==
    /\ Ready(a, op)
    /\ Commit(MapFresh(Mem, Kernel, slot, "stack", n))
    /\ Step(a, actor[a])
    /\ UNCHANGED <<detached, kthreads, zombies, gap, exits>>
thread_stack(a) ==
    map_guarded_stack(a, "stack", "stack", stacks.thread) /\ stacks' = [stacks EXCEPT !.thread = @ + 1]
alloc_kernel_entry_stack(a) ==
    map_guarded_stack(a, "entry", "entry", stacks.entry) /\ stacks' = [stacks EXCEPT !.entry = @ + 1]
map_user_stack(a) == map_guarded_stack(a, "user", "user", 1) /\ UNCHANGED stacks

(* push_thread, of a kernel thread: no process ever exits, so that of a    *)
(* process is left out.                                                    *)
push_thread(a) ==
    /\ Ready(a, "push")
    /\ Step(a, actor[a])
    /\ kthreads' = kthreads \cup {stacks.thread - 1}
    /\ UNCHANGED <<alloc, p4, sub, detached, zombies, stacks, gap, exits, halted>>

-----------------------------------------------------------------------------
(* reap_zombies: each stack page unmapped, its frame given back.           *)
StackTree == p4[Kernel]["stack"]
Unmapped(pages, gone) == [k \in DOMAIN pages \ gone |-> pages[k]]
reap_zombies ==
    LET gone == {<<"stack", zombies[i]>> : i \in DOMAIN zombies}
    IN  /\ sub' = IF zombies = <<>> THEN sub
                  ELSE [sub EXCEPT ![StackTree].page = Unmapped(@, gone)]
        /\ alloc' = [alloc EXCEPT !.freed =
                        @ \o [i \in DOMAIN zombies |-> sub[StackTree].page[<<"stack", zombies[i]>>]]]

(* A thread exits into a reschedule, which reaps those before it ...       *)
exit_current_thread ==
    /\ halted = "no" /\ exits.done < exits.max
    /\ \E t \in kthreads :
          /\ reap_zombies
          /\ zombies' = <<t>>
          /\ kthreads' = kthreads \ {t}
    /\ exits' = [exits EXCEPT !.done = @ + 1]
    /\ UNCHANGED <<p4, detached, actor, stacks, gap, halted>>

(* ... and is reaped by the next.                                          *)
reschedule ==
    /\ halted = "no" /\ zombies # <<>>
    /\ reap_zombies
    /\ zombies' = <<>>
    /\ UNCHANGED <<p4, detached, actor, kthreads, stacks, gap, exits, halted>>

SpacesNext ==
    \/ \E a \in Actors : init(a) \/ new(a) \/ allocate(a) \/ map_frame(a)
                          \/ thread_stack(a) \/ alloc_kernel_entry_stack(a) \/ map_user_stack(a)
                          \/ push_thread(a)
    \/ exit_current_thread \/ reschedule

-----------------------------------------------------------------------------
Spaces == DOMAIN detached
Pages(root) == UNION {{<<s, k>> : k \in DOMAIN sub[p4[root][s]].page} :
                          s \in {s \in Slot : p4[root][s] # Absent}}
FrameOf(root, page) == sub[p4[root][page[1]]].page[page[2]]

SpacesTypeOK ==
    /\ alloc.next \in 1 .. TOTAL_FRAMES + QUEUE_PAGES + 2
    /\ Range(alloc.freed) \subseteq 1 .. TOTAL_FRAMES
    /\ DOMAIN p4 = Spaces \cup {Kernel} /\ Spaces \subseteq 1 .. TOTAL_FRAMES
    /\ \A t \in DOMAIN sub : Range(sub[t].page) \subseteq (1 .. TOTAL_FRAMES) \cup {TOTAL_FRAMES + 2}
    /\ halted \in {"no", "out of physical memory", "not contiguous"}

(* Every thread stack and kernel-entry stack, whenever it was mapped, is   *)
(* the same memory in every address space, whenever that was made: a       *)
(* switch of Cr3 never pulls the stack from under the thread being resumed *)
(* (reserve_p4_slot; "a double fault trying to run on its own, suddenly-   *)
(* unmapped stack").                                                       *)
StacksEverywhere ==
    \A s \in {"stack", "entry"} : \A root \in Spaces : p4[root][s] = p4[Kernel][s]

(* No frame has two uses: page table, private page, stack, on the free     *)
(* list, in a loader's hands.  A stack reaped while another is mapped is   *)
(* never both freed and reachable.                                         *)
Tables == Spaces \cup {p4[r][s] : r \in DOMAIN p4, s \in Slot} \cup
          UNION {Range(sub[t].table) : t \in DOMAIN sub}
FramesUsedOnce ==
    LET leaves == [t \in DOMAIN sub |-> Range(sub[t].page)]
        used == UNION {leaves[t] : t \in DOMAIN sub}
        held == UNION {Range(actor[a].held) : a \in Actors}
    IN  halted = "no" =>
            /\ Range(alloc.freed) \cap (Tables \cup used) = {}
            /\ Cardinality(Range(alloc.freed)) = Len(alloc.freed)
            /\ Tables \cap used = {}
            /\ held \cap (Tables \cup Range(alloc.freed)) = {}
            /\ \A t \in DOMAIN sub : Cardinality(leaves[t]) = Cardinality(DOMAIN sub[t].page)
            /\ \A t, u \in DOMAIN sub : t # u => leaves[t] \cap leaves[u] \subseteq {TOTAL_FRAMES + 2}

(* A page mapped into one address space is in no other and not in the      *)
(* kernel's, even under a top-level entry the kernel's table already had   *)
(* (map_frame's detached_p4_slots).                                        *)
PrivateStaysPrivate ==
    \A root \in Spaces : "private" \in detached[root] =>
        \A other \in DOMAIN p4 : other # root => p4[other]["private"] # p4[root]["private"]

(* A virtqueue region a process was given is physically contiguous: the    *)
(* device is told only its first address.                                  *)
QueuesContiguous ==
    \A root \in Spaces : \A q \in {"rxq", "txq", "queue"} :
        <<"private", <<q, QUEUE_PAGES>>>> \in Pages(root) =>
            \A i \in 1 .. QUEUE_PAGES :
                Phys(FrameOf(root, <<"private", <<q, i>>>>)) = Phys(FrameOf(root, <<"private", <<q, 1>>>>)) + i - 1

(* Batching the frames keeps page tables out of a region: the assertion    *)
(* fails only where the usable memory has a gap, or once a reaped stack    *)
(* has put frames on the free list, never because of what else is mapped   *)
(* (map_zeroed_contiguous_region: "allocate every leaf frame first").      *)
ContiguityPanicExplained ==
    halted = "not contiguous" => exits.done > 0 \/ gap < TOTAL_FRAMES

(* Physical and virtual memory during the boot's spawns and exits, in any  *)
(* order: the same stacks everywhere, one use per frame, private pages     *)
(* private, queues contiguous, and a contiguity panic only from a gap or a *)
(* reaped stack.                                                           *)
MemorySound ==
    /\ SpacesTypeOK
    /\ StacksEverywhere
    /\ FramesUsedOnce
    /\ PrivateStaysPrivate
    /\ QueuesContiguous
    /\ ContiguityPanicExplained
=============================================================================
