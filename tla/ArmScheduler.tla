----------------------------- MODULE ArmScheduler -----------------------------
(* The ARM kernel's cooperative scheduler: kernel-arm scheduler.rs. One CPU,  *)
(* no preemption: a thread runs until it yields. A thread is its identity, its*)
(* kernel stack, the address space it owns, whether it has exited, and where  *)
(* it stopped (`pc`, standing for the saved registers and stack pointer).     *)
EXTENDS ArmSpaces

VARIABLES mm,      \* heap and translation tables
          dev,     \* the virtio device: processing queues?, its frames, ignoring resets?
          ttbr,    \* TTBR0_EL1
          sched    \* SCHEDULER: current thread, run queue, exited threads

Thread(id, stack, sp) == [id |-> id, stack |-> stack, space |-> sp, exiting |-> FALSE, pc |-> "start"]

HasSpace(t) == t.space # NoSpace
RootOf(t) == IF HasSpace(t) THEN t.space.root ELSE KernelRoot

(* init and prove_scheduling: the boot context is current, and the proof's   *)
(* threads stay parked on yield_now for good.                                *)
BootScheduler(parked) ==
  [current |-> [Thread("boot", 0, NoSpace) EXCEPT !.pc = "el0_proof"],
   queue |-> [i \in 1..parked |-> [Thread("parked", 0, NoSpace) EXCEPT !.pc = "parked"]],
   zombies |-> <<>>]

(* spawn_with_address_space: refuse a space seeded from another table or a   *)
(* failed stack allocation, and destroy the space on either refusal.         *)
spawn_with_address_space(m, d, s, id, sp) ==
  LET stack == alloc_page([ok |-> TRUE, mm |-> m, sp |-> sp, at |-> 0])
      gone == destroy(m, d, sp, ttbr)
  IN IF sp.seeded # KernelRoot \/ ~stack.ok
     THEN [ok |-> FALSE, mm |-> gone.mm, dev |-> gone.dev, sched |-> s]
     ELSE [ok |-> TRUE, mm |-> stack.mm, dev |-> d,
           sched |-> [s EXCEPT !.queue = Append(@, Thread(id, stack.at, sp))]]

(* yield_now: the head of the queue becomes current under its own table; an  *)
(* exiting thread goes to the zombie list if that can grow, anyone else to   *)
(* the back of the queue. With an empty queue nothing happens.               *)
Switched(s) ==
  IF s.queue = <<>> THEN s
  ELSE LET away == s.current.exiting /\ CanGrow(mm) IN
       [current |-> Head(s.queue),
        queue   |-> IF away THEN Tail(s.queue) ELSE Append(Tail(s.queue), s.current),
        zombies |-> IF away THEN Append(s.zombies, s.current) ELSE s.zombies]

yield_now(s) ==
  /\ sched' = Switched(s)
  /\ ttbr' = RootOf(sched'.current)
  /\ UNCHANGED <<mm, dev>>

(* exit_current up to its first yield.                                       *)
exit_current(s) == [s EXCEPT !.current.exiting = s.current.stack # 0, !.current.pc = "gone"]

(* Thread::reclaim: not while running on that stack or under that table; a   *)
(* space that cannot be destroyed is leaked and the stack freed all the same.*)
Reclaimable(t, running) == t.stack # 0 /\ t.stack # running.stack /\ ~is_live(t.space, ttbr)
reclaim(r, t) ==
  IF ~Reclaimable(t, r.sched.current)
  THEN [r EXCEPT !.sched.zombies = Append(@, t)]
  ELSE LET gone == destroy(r.mm, r.dev, t.space, ttbr)
           freed == IF HasSpace(t) THEN gone ELSE [mm |-> r.mm, dev |-> r.dev]
       IN [r EXCEPT !.mm = [freed.mm EXCEPT !.free = @ \union {t.stack}],
                    !.dev = freed.dev, !.reaped = @ + 1]

(* reap_exited: every zombie is taken off the list and reclaimed or put back.*)
reap_exited(m, d, s) ==
  FoldLeft(reclaim, [mm |-> m, dev |-> d, sched |-> [s EXCEPT !.zombies = <<>>], reaped |-> 0], s.zombies)

Threads == Range(sched.queue) \union Range(sched.zombies) \union {sched.current}
=============================================================================
