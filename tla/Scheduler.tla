----------------------------- MODULE Scheduler -----------------------------
(***************************************************************************)
(* The x86_64 kernel's round-robin scheduler (kernel/src/scheduler.rs) and *)
(* the timer interrupt that drives it (kernel/src/interrupts.rs).          *)
(*                                                                         *)
(* One CPU.  `reschedule' runs behind an interrupt gate (RFLAGS.IF = 0),   *)
(* so it is one atomic step; everything a thread does with interrupts      *)
(* enabled can be cut by a timer tick at any instruction, so the two       *)
(* places where a thread is between two instructions that matter are       *)
(* states of their own: a thread built by Thread::new and not yet pushed   *)
(* (built), and the window between EXITING.store and the `int' that        *)
(* follows it (pc = "exit").                                               *)
(***************************************************************************)
EXTENDS Naturals, Sequences, Functions

CONSTANT MAX_THREADS  \* bound on the thread ids handed out; the code's is 2^64

ASSUME MaxThreadsAssumption == MAX_THREADS \in Nat \ {0}

ThreadId == 1 .. MAX_THREADS
None == 0
Boot == 1             \* Thread::placeholder, the first id handed out
KernelP4 == 0         \* memory::kernel_p4_frame

VARIABLES
    run_queue,        \* Scheduler.run_queue
    current,          \* Scheduler.current
    zombies,          \* Scheduler.zombies
    EXITING,          \* the EXITING flag
    NEXT_THREAD_ID,
    thread,           \* per id, the two fields of Thread a switch reads
    built,            \* built[t]: the Thread that t has built and not pushed
    stack,            \* ids whose stack pages are mapped
    pc,               \* where a thread stands in exit_current_thread
    cr3,              \* the P4 frame loaded in Cr3
    rsp0              \* the TSS's RSP0

schedVars == <<run_queue, current, zombies, EXITING, NEXT_THREAD_ID, thread,
               built, stack, pc, cr3, rsp0>>

(***************************************************************************)
(* A Thread's private P4 frame and its kernel-entry stack are its own, so  *)
(* they are named by its id.  The spawn functions differ only in which of  *)
(* the two they attach.                                                    *)
(***************************************************************************)
Thread == [address_space : ThreadId \cup {KernelP4},
           kernel_entry_stack_top : ThreadId \cup {None}]

placeholder == [address_space |-> KernelP4, kernel_entry_stack_top |-> None]

ThreadOf(id, own_space, own_entry_stack) ==
    [address_space |-> IF own_space THEN id ELSE KernelP4,
     kernel_entry_stack_top |-> IF own_entry_stack THEN id ELSE None]

Pc == {"run",       \* anywhere but in exit_current_thread
       "exit",      \* EXITING stored, `int RESCHEDULE_VECTOR' not yet executed
       "gone",      \* the `int' has been executed
       "returned"}  \* the `int' came back, which options(noreturn) rules out

(***************************************************************************)
(* scheduler::init, as the boot thread leaves it.                          *)
(***************************************************************************)
SchedInit ==
    /\ run_queue = <<>>
    /\ current = Boot
    /\ zombies = <<>>
    /\ EXITING = FALSE
    /\ NEXT_THREAD_ID = Boot + 1
    /\ thread = [t \in ThreadId |-> placeholder]
    /\ built = [t \in ThreadId |-> None]
    /\ stack = {Boot}
    /\ pc = [t \in ThreadId |-> "run"]
    /\ cr3 = KernelP4
    /\ rsp0 = None

-----------------------------------------------------------------------------
(* reap_zombies as it would be if it reaped the outgoing thread too, whose *)
(* stack `reschedule' is still running on.                                 *)
reap_zombies_and_exiting ==
    stack' = stack \ (Range(zombies) \cup (IF EXITING THEN {current} ELSE {}))

(***************************************************************************)
(* reap_zombies: unmaps the stack of every queued zombie.                  *)
(***************************************************************************)
reap_zombies == stack' = stack \ Range(zombies)

(***************************************************************************)
(* What `reschedule' loads for the incoming thread: Cr3 always, RSP0 only  *)
(* if the thread has a kernel-entry stack.                                 *)
(***************************************************************************)
load_context(next) ==
    /\ cr3' = thread[next].address_space
    /\ rsp0' = IF thread[next].kernel_entry_stack_top # None
               THEN thread[next].kernel_entry_stack_top ELSE rsp0

(* retire as it would be if EXITING were read but not swapped back.        *)
retire_flag_kept ==
    /\ UNCHANGED EXITING
    /\ IF EXITING
       THEN zombies' = <<current>> /\ run_queue' = Tail(run_queue)
       ELSE zombies' = <<>> /\ run_queue' = Append(Tail(run_queue), current)

(* retire as it would be if the outgoing thread were pushed to the front.  *)
retire_to_front ==
    /\ EXITING' = FALSE
    /\ IF EXITING
       THEN zombies' = <<current>> /\ run_queue' = Tail(run_queue)
       ELSE zombies' = <<>> /\ run_queue' = <<current>> \o Tail(run_queue)

(***************************************************************************)
(* What `reschedule' does with the outgoing thread: it becomes a zombie if *)
(* EXITING was set, and goes to the back of the run queue otherwise.       *)
(***************************************************************************)
retire ==
    /\ EXITING' = FALSE
    /\ IF EXITING
       THEN zombies' = <<current>> /\ run_queue' = Tail(run_queue)
       ELSE zombies' = <<>> /\ run_queue' = Append(Tail(run_queue), current)

(***************************************************************************)
(* reschedule: reap, pop the next thread, load its context, retire the     *)
(* outgoing one.  With nothing runnable it returns early: the zombies are  *)
(* reaped and EXITING is left as it is.                                    *)
(***************************************************************************)
reschedule ==
    /\ reap_zombies
    /\ \/ /\ run_queue = <<>>
          /\ zombies' = <<>>
          /\ UNCHANGED <<run_queue, current, EXITING, cr3, rsp0>>
       \/ /\ run_queue # <<>>
          /\ load_context(Head(run_queue))
          /\ retire
          /\ current' = Head(run_queue)
    /\ UNCHANGED <<NEXT_THREAD_ID, thread, built>>

-----------------------------------------------------------------------------
(***************************************************************************)
(* The steps of the running thread.  Idle(t): t is in none of the two      *)
(* windows above, so it may call into the scheduler.                       *)
(***************************************************************************)
Idle(t) == pc[t] = "run" /\ built[t] = None

(***************************************************************************)
(* The first half of every spawn function: Thread::new takes an id and     *)
(* maps a stack, and the fields are filled in.  The Thread is a local of   *)
(* the caller, who can be preempted before it is pushed.                   *)
(***************************************************************************)
Thread_new(own_space, own_entry_stack) ==
    /\ Idle(current)
    /\ NEXT_THREAD_ID <= MAX_THREADS
    /\ NEXT_THREAD_ID' = NEXT_THREAD_ID + 1
    /\ thread' = [thread EXCEPT ![NEXT_THREAD_ID] =
                     ThreadOf(NEXT_THREAD_ID, own_space, own_entry_stack)]
    /\ stack' = stack \cup {NEXT_THREAD_ID}
    /\ built' = [built EXCEPT ![current] = NEXT_THREAD_ID]
    /\ UNCHANGED <<run_queue, current, zombies, EXITING, pc, cr3, rsp0>>

(***************************************************************************)
(* push_thread: the shared tail of the spawn functions, interrupts off.    *)
(***************************************************************************)
push_thread ==
    /\ built[current] # None
    /\ run_queue' = Append(run_queue, built[current])
    /\ built' = [built EXCEPT ![current] = None]
    /\ UNCHANGED <<current, zombies, EXITING, NEXT_THREAD_ID, thread, stack,
                   pc, cr3, rsp0>>

yield_now ==
    /\ Idle(current)
    /\ reschedule
    /\ UNCHANGED pc

(***************************************************************************)
(* exit_current_thread, up to the store.  Its contract excludes the boot   *)
(* thread, which owns no stack region.                                     *)
(***************************************************************************)
exit_current_thread ==
    /\ Idle(current)
    /\ current # Boot
    /\ EXITING' = TRUE
    /\ pc' = [pc EXCEPT ![current] = "exit"]
    /\ UNCHANGED <<run_queue, current, zombies, NEXT_THREAD_ID, thread, built,
                   stack, cr3, rsp0>>

(***************************************************************************)
(* exit_current_thread's `int'.  If reschedule finds nothing runnable it   *)
(* resumes this very frame, past an instruction declared noreturn.         *)
(***************************************************************************)
exit_int ==
    /\ pc[current] = "exit"
    /\ reschedule
    /\ pc' = [pc EXCEPT ![current] =
                 IF run_queue = <<>> THEN "returned" ELSE "gone"]

(***************************************************************************)
(* on_timer_tick: can land between any two instructions of the running     *)
(* thread (they all run with IF = 1) and always reschedules.               *)
(***************************************************************************)
on_timer_tick ==
    /\ reschedule
    /\ UNCHANGED pc

SchedNext ==
    \/ \E own_space, own_entry_stack \in BOOLEAN :
           Thread_new(own_space, own_entry_stack)
    \/ push_thread
    \/ yield_now
    \/ exit_current_thread
    \/ exit_int
    \/ on_timer_tick

(***************************************************************************)
(* The PIT keeps ticking and no thread can mask it for good: weak fairness *)
(* of the tick.  Nothing is assumed of the threads, which may spin.        *)
(***************************************************************************)
SchedSpec == SchedInit /\ [][SchedNext]_schedVars /\ WF_schedVars(on_timer_tick)

-----------------------------------------------------------------------------
Runnable == {current} \cup Range(run_queue)
Building == {built[t] : t \in Runnable} \ {None}

(* Every variable has its type; the two queues hold thread ids.            *)
SchedTypeOK ==
    /\ run_queue \in Seq(ThreadId)
    /\ current \in ThreadId
    /\ zombies \in Seq(ThreadId)
    /\ EXITING \in BOOLEAN
    /\ NEXT_THREAD_ID \in 2 .. MAX_THREADS + 1
    /\ thread \in [ThreadId -> Thread]
    /\ built \in [ThreadId -> ThreadId \cup {None}]
    /\ stack \subseteq ThreadId
    /\ pc \in [ThreadId -> Pc]
    /\ cr3 \in ThreadId \cup {KernelP4}
    /\ rsp0 \in ThreadId \cup {None}

NoRepeats(s) == \A i, j \in DOMAIN s : s[i] = s[j] => i = j

(* A thread is in one place: it is the current one, or it is queued to     *)
(* run, once, or it is a zombie, once, or its spawner still holds it.      *)
(* `reschedule' moves Thread values between these places.                  *)
OnePlace ==
    /\ NoRepeats(run_queue) /\ NoRepeats(zombies)
    /\ current \notin Range(run_queue)
    /\ Range(zombies) \cap Runnable = {}
    /\ Building \cap (Runnable \cup Range(zombies)) = {}
    /\ \A s, t \in Runnable : built[s] = built[t] /\ built[s] # None => s = t

(* The mapped stacks are exactly those of the threads not yet reaped: no   *)
(* thread runs, or will run, on an unmapped stack, no stack is unmapped    *)
(* twice (reap_zombies would panic), and none leaks.                       *)
StacksMatchThreads == stack = Runnable \cup Range(zombies) \cup Building

(* A thread between EXITING's store and its `int' finds the flag still set *)
(* and a successor to hand the CPU to, so the noreturn `int' does not come *)
(* back; and a set flag belongs to the current thread.                     *)
ExitIsFinal ==
    /\ pc[current] = "exit" => EXITING /\ run_queue # <<>>
    /\ EXITING => pc[current] = "exit"
    /\ \A t \in ThreadId : pc[t] # "returned"

(* The loaded address space is the running thread's, and a ring-3 trap of  *)
(* the running thread lands on its own kernel-entry stack.                 *)
ContextIsCurrents ==
    /\ cr3 = thread[current].address_space
    /\ thread[current].kernel_entry_stack_top \in {None, rsp0}

(***************************************************************************)
(* The inductive strengthening of the invariants above: an id not handed   *)
(* out yet is untouched, the boot thread never leaves the scheduler, only  *)
(* the current thread can stand in the exit window, and only a thread that *)
(* can still run holds a built one.                                        *)
(***************************************************************************)
SchedInv ==
    /\ SchedTypeOK /\ OnePlace /\ StacksMatchThreads /\ ExitIsFinal
    /\ ContextIsCurrents
    /\ \A t \in stack : t < NEXT_THREAD_ID
    /\ \A t \in ThreadId : t >= NEXT_THREAD_ID => pc[t] = "run"
    /\ \A t \in ThreadId : built[t] # None => t \in Runnable /\ pc[t] = "run"
    /\ Boot \in Runnable /\ pc[Boot] = "run"
    /\ \A t \in Range(run_queue) \cup Building : pc[t] = "run"
    /\ pc[current] # "gone"

(* Only a thread that called exit_current_thread ever becomes a zombie:    *)
(* the flag of one thread never retires another.                           *)
OnlyExitedRetire ==
    [][\A t \in Range(zombies') \ Range(zombies) : pc[t] = "exit"]_schedVars

(* Round robin: as long as the CPU stays with a thread the waiting ones    *)
(* keep their places, and each switch goes to the first of them and brings *)
(* every other one place nearer; nothing overtakes.                        *)
NoOvertaking ==
    [][\A i \in DOMAIN run_queue :
          \/ /\ current' = current
             /\ i \in DOMAIN run_queue' /\ run_queue'[i] = run_queue[i]
          \/ i = 1 /\ current' = run_queue[i]
          \/ i > 1 /\ current' # current /\ run_queue'[i - 1] = run_queue[i]]_schedVars

(* A queued thread eventually runs, even if no thread ever yields.         *)
QueuedRuns == \A t \in ThreadId : t \in Range(run_queue) ~> current = t

(* A thread that has called exit_current_thread is eventually reaped: its  *)
(* stack is unmapped.                                                      *)
ExitedIsReaped == \A t \in ThreadId : pc[t] = "exit" ~> t \notin stack

(* The state the scheduler keeps between any two steps, wherever a tick, a *)
(* spawn, a yield or an exit lands: each thread is in one place, the       *)
(* stacks mapped are those of the threads not yet reaped, an exit does not *)
(* come back, and the CPU runs in the current thread's own context.        *)
SchedulerSound ==
    /\ SchedTypeOK
    /\ OnePlace
    /\ StacksMatchThreads
    /\ ExitIsFinal
    /\ ContextIsCurrents

(* What a step of the scheduler never does: retire a thread that did not   *)
(* ask to exit, or let one thread overtake another in run_queue.           *)
SchedulerSteps ==
    /\ OnlyExitedRetire
    /\ NoOvertaking

(* What the round robin owes every thread: the CPU to a queued one, and to *)
(* one that exited the release of its stack.                               *)
SchedulerLive ==
    /\ QueuedRuns
    /\ ExitedIsReaped
=============================================================================
