---------------------------- MODULE KernelProofs ----------------------------
(***************************************************************************)
(* Proofs about the scheduler and the kernel's syscall layer, for any      *)
(* number of threads, ports and sessions and any capacities.               *)
(***************************************************************************)
EXTENDS Kernel, Scheduler, FiniteSetTheorems, SequenceTheorems, TLAPS

(* The scheduler (Scheduler).                                              *)

(* Appending an element to a sequence adds it to the sequence's range, and *)
(* a fresh element keeps the sequence free of repeats.                     *)
LEMMA AppendFacts ==
    ASSUME NEW S, NEW s \in Seq(S), NEW e \in S
    PROVE  /\ Append(s, e) \in Seq(S)
           /\ Range(Append(s, e)) = Range(s) \cup {e}
           /\ NoRepeats(s) /\ e \notin Range(s) => NoRepeats(Append(s, e))
<1>1. /\ Append(s, e) \in Seq(S)
      /\ DOMAIN Append(s, e) = 1 .. Len(s) + 1
      /\ DOMAIN s = 1 .. Len(s)
      /\ \A i \in 1 .. Len(s) : Append(s, e)[i] = s[i]
      /\ Append(s, e)[Len(s) + 1] = e
      /\ Len(s) \in Nat
  OBVIOUS
<1>2. Range(Append(s, e)) = Range(s) \cup {e}
  BY <1>1 DEF Range
<1>3. NoRepeats(s) /\ e \notin Range(s) => NoRepeats(Append(s, e))
  BY <1>1 DEF Range, NoRepeats
<1> QED
  BY Zenon, <1>1, <1>2, <1>3

(* The head of a non-empty sequence without repeats is in its range and    *)
(* not in its tail's; the rest of the range is the tail's.                 *)
LEMMA TailFacts ==
    ASSUME NEW S, NEW s \in Seq(S), s # <<>>, NoRepeats(s)
    PROVE  /\ Tail(s) \in Seq(S)
           /\ Head(s) \in S
           /\ Head(s) \in Range(s)
           /\ Range(Tail(s)) = Range(s) \ {Head(s)}
           /\ NoRepeats(Tail(s))
<1>1. /\ Tail(s) \in Seq(S)
      /\ Len(s) \in Nat \ {0}
      /\ DOMAIN s = 1 .. Len(s)
      /\ DOMAIN Tail(s) = 1 .. Len(s) - 1
      /\ \A i \in 1 .. Len(s) - 1 : Tail(s)[i] = s[i + 1]
      /\ Head(s) = s[1]
  OBVIOUS
<1>2. Head(s) \in Range(s)
  BY <1>1 DEF Range
<1>3. Range(Tail(s)) \subseteq Range(s) \ {Head(s)}
  BY <1>1 DEF Range, NoRepeats
<1>4. Range(s) \ {Head(s)} \subseteq Range(Tail(s))
  <2> SUFFICES ASSUME NEW i \in 1 .. Len(s), s[i] # Head(s)
               PROVE  s[i] \in Range(Tail(s))
    BY Zenon, <1>1 DEF Range
  <2>1. i - 1 \in 1 .. Len(s) - 1 /\ Tail(s)[i - 1] = s[i]
    BY <1>1
  <2> QED
    BY Zenon, <2>1, <1>1 DEF Range
<1>5. NoRepeats(Tail(s))
  <2> SUFFICES ASSUME NEW i \in 1 .. Len(s) - 1, NEW j \in 1 .. Len(s) - 1,
                      Tail(s)[i] = Tail(s)[j]
               PROVE  i = j
    BY Zenon, <1>1 DEF NoRepeats
  <2>1. s[i + 1] = s[j + 1] /\ i + 1 \in DOMAIN s /\ j + 1 \in DOMAIN s
    BY <1>1
  <2>2. i + 1 = j + 1
    BY Zenon, <2>1 DEF NoRepeats
  <2> QED
    BY <2>2
<1>6. Head(s) \in S
  BY <1>1
<1> QED
  BY Zenon, <1>1, <1>2, <1>3, <1>4, <1>5, <1>6

-----------------------------------------------------------------------------
(* The invariant holds when scheduler::init returns.                       *)
LEMMA InitInv == SchedInit => SchedInv
<1> SUFFICES ASSUME SchedInit PROVE SchedInv
  BY Zenon
<1> USE MaxThreadsAssumption DEF SchedInit, ThreadId, Boot, None, KernelP4
<1>1. Range(run_queue) = {} /\ Range(zombies) = {}
  BY DEF Range
<1>2. Runnable = {Boot} /\ Building = {}
  BY <1>1 DEF Runnable, Building
<1>3. SchedTypeOK
  <2>1. placeholder \in Thread
    BY Zenon DEF Thread, placeholder
  <2>2. <<>> \in Seq(ThreadId)
    OBVIOUS
  <2>3. thread \in [ThreadId -> Thread]
    BY Zenon, <2>1
  <2>4. pc \in [ThreadId -> Pc]
    BY Zenon DEF Pc
  <2>5. built \in [ThreadId -> ThreadId \cup {None}]
    BY Zenon
  <2>6. NEXT_THREAD_ID \in 2 .. MAX_THREADS + 1 /\ Boot \in ThreadId
    OBVIOUS
  <2>7. /\ EXITING \in BOOLEAN /\ stack \subseteq ThreadId
        /\ cr3 \in ThreadId \cup {KernelP4} /\ rsp0 \in ThreadId \cup {None}
        /\ current \in ThreadId
    BY Zenon, <2>6
  <2>8. run_queue \in Seq(ThreadId) /\ zombies \in Seq(ThreadId)
    BY Zenon, <2>2
  <2> HIDE DEF SchedInit, ThreadId, Boot, None, KernelP4
  <2> QED
    BY Zenon, <2>3, <2>4, <2>5, <2>6, <2>7, <2>8 DEF SchedTypeOK
<1>4. OnePlace
  BY <1>1, <1>2 DEF OnePlace, NoRepeats
<1>5. StacksMatchThreads
  BY Zenon, <1>1, <1>2 DEF StacksMatchThreads
<1>6. ExitIsFinal /\ ContextIsCurrents
  BY DEF ExitIsFinal, ContextIsCurrents, placeholder
<1> QED
  BY <1>1, <1>2, <1>3, <1>4, <1>5, <1>6 DEF SchedInv

(* `reschedule' keeps the invariant, whether it is entered by a tick or a  *)
(* yield (pc unchanged) or by exit_current_thread's own `int'.             *)
LEMMA RescheduleInv ==
    ASSUME SchedInv, reschedule,
           pc' \in [ThreadId -> Pc],
           \A t \in ThreadId : t # current => pc'[t] = pc[t],
           \/ pc'[current] = pc[current]
           \/ pc[current] = "exit" /\ run_queue # <<>> /\ pc'[current] = "gone"
    PROVE  SchedInv'
<1> USE DEF SchedInv, SchedTypeOK
<1>0. /\ Boot \in ThreadId /\ Boot \in Nat
      /\ ThreadId \subseteq Nat
      /\ None \notin ThreadId
  BY MaxThreadsAssumption DEF ThreadId, Boot, None
<1>1. stack' = stack \ Range(zombies)
  BY Zenon DEF reschedule, reap_zombies
<1>2. UNCHANGED <<NEXT_THREAD_ID, thread, built>>
  BY Zenon DEF reschedule
<1>3. Range(zombies) \cap (Runnable \cup Building) = {}
  BY Zenon DEF OnePlace
<1>4. stack' = Runnable \cup Building
  BY Zenon, <1>1, <1>3 DEF StacksMatchThreads
<1>5. Range(<<>>) = {} /\ NoRepeats(<<>>) /\ <<>> \in Seq(ThreadId)
  BY DEF Range, NoRepeats
<1>6. Range(<<current>>) = {current} /\ NoRepeats(<<current>>)
      /\ <<current>> \in Seq(ThreadId)
  BY DEF Range, NoRepeats
<1>7. current \in Runnable /\ Range(run_queue) \subseteq ThreadId
  BY DEF Runnable, Range
<1>10. Building \subseteq ThreadId /\ current \notin Building
  BY Zenon, <1>7 DEF OnePlace, StacksMatchThreads
<1>8. CASE run_queue = <<>>
  <2>1. /\ zombies' = <<>>
        /\ UNCHANGED <<run_queue, current, EXITING, cr3, rsp0>>
    BY Zenon, <1>8 DEF reschedule
  <2>2. pc[current] # "exit"
    BY Zenon, <1>8 DEF ExitIsFinal
  <2>3. pc' = pc
    BY <2>2
  <2>4. Runnable' = Runnable /\ Building' = Building
    BY <2>1, <1>2 DEF Runnable, Building
  <2>5. SchedTypeOK'
    BY Zenon, <2>1, <2>3, <1>1, <1>2, <1>5
  <2>6. OnePlace'
    BY ZenonT(30), <2>1, <2>4, <1>2, <1>5 DEF OnePlace
  <2>7. StacksMatchThreads'
    BY Zenon, <2>1, <2>4, <1>4, <1>5 DEF StacksMatchThreads
  <2>8. ExitIsFinal' /\ ContextIsCurrents'
    BY Zenon, <2>1, <2>3, <1>2 DEF ExitIsFinal, ContextIsCurrents
  <2> QED
    BY Zenon, <2>1, <2>3, <2>4, <2>5, <2>6, <2>7, <2>8, <1>1, <1>2
<1>9. CASE run_queue # <<>>
  <2> DEFINE next == Head(run_queue)
  <2>1. /\ load_context(next)
        /\ retire
        /\ current' = next
    BY Zenon, <1>9 DEF reschedule
  <2>2. /\ Tail(run_queue) \in Seq(ThreadId)
        /\ next \in ThreadId
        /\ next \in Range(run_queue)
        /\ Range(Tail(run_queue)) = Range(run_queue) \ {next}
        /\ NoRepeats(Tail(run_queue))
    BY Zenon, <1>9, TailFacts DEF OnePlace
  <2>3. next # current /\ current \notin Range(Tail(run_queue))
    BY Zenon, <2>2 DEF OnePlace
  <2>4. pc[next] = "run" /\ pc'[next] = "run"
    BY Zenon, <2>2, <2>3
  <2>5. cr3' = thread[next].address_space /\ thread[next] \in Thread
        /\ cr3' \in ThreadId \cup {KernelP4}
    BY Zenon, <2>1, <2>2 DEF load_context, Thread
  <2>6. rsp0' \in ThreadId \cup {None}
        /\ thread[next].kernel_entry_stack_top \in {None, rsp0'}
    BY Zenon, <2>1, <2>2, <2>5 DEF load_context, Thread
  <2>7. ContextIsCurrents'
    BY Zenon, <2>1, <2>5, <2>6, <1>2 DEF ContextIsCurrents
  <2>8. ExitIsFinal'
    BY ZenonT(30), <2>1, <2>4 DEF ExitIsFinal, retire, Pc
  <2>9. CASE EXITING
    <3>1. zombies' = <<current>> /\ run_queue' = Tail(run_queue)
          /\ EXITING' = FALSE
      BY Zenon, <2>1, <2>9 DEF retire
    <3>2. pc[current] = "exit" /\ built[current] = None
      BY Zenon, <2>9, <1>0 DEF ExitIsFinal
    <3>3. Runnable' = Range(run_queue) /\ Runnable = Runnable' \cup {current}
      BY Zenon, <3>1, <2>1, <2>2 DEF Runnable
    <3>4. Building' = Building
      BY <3>2, <3>3, <1>2 DEF Building
    <3>5. current \notin Runnable'
      BY Zenon, <3>3 DEF OnePlace
    <3>6. SchedTypeOK'
      BY Zenon, <3>1, <2>1, <2>2, <2>5, <2>6, <1>1, <1>2, <1>6
    <3>7. OnePlace'
      <4>1. NoRepeats(run_queue)' /\ NoRepeats(zombies)'
        BY Zenon, <3>1, <2>2, <1>6
      <4>2. current' \notin Range(run_queue')
        BY Zenon, <3>1, <2>1, <2>2
      <4>3. Range(zombies') \cap Runnable' = {}
        BY Zenon, <3>1, <3>5, <1>6
      <4>4. Building' \cap (Runnable' \cup Range(zombies')) = {}
        BY Zenon, <3>1, <3>3, <3>4, <1>6 DEF OnePlace
      <4>5. (\A s, t \in Runnable : built[s] = built[t] /\ built[s] # None
                => s = t)'
        BY Zenon, <3>3, <1>2 DEF OnePlace
      <4> QED
        BY Zenon, <4>1, <4>2, <4>3, <4>4, <4>5 DEF OnePlace
    <3>8. StacksMatchThreads'
      BY Zenon, <3>1, <3>3, <3>4, <1>4, <1>6 DEF StacksMatchThreads
    <3>9. Boot \in Runnable' /\ pc'[Boot] = "run"
      BY Zenon, <3>2, <3>3, <1>0
    <3>10. \A t \in ThreadId : built'[t] # None
              => t \in Runnable' /\ pc'[t] = "run"
      BY Zenon, <3>2, <3>3, <1>2
    <3>11. \A t \in Range(run_queue') \cup Building' : pc'[t] = "run"
      BY Zenon, <3>1, <3>4, <2>2, <2>3, <1>7, <1>10
    <3>12. \A t \in stack' : t < NEXT_THREAD_ID'
      BY Zenon, <1>1, <1>2
    <3>13. \A t \in ThreadId : t >= NEXT_THREAD_ID' => pc'[t] = "run"
      <4>1. current < NEXT_THREAD_ID
        BY Zenon, <1>7 DEF StacksMatchThreads
      <4> QED
        BY Zenon, <4>1, <1>0, <1>2
    <3> QED
      BY Zenon, <3>6, <3>7, <3>8, <3>9, <3>10, <3>11, <3>12, <3>13, <2>1, <2>4, <2>7,
         <2>8
  <2>10. CASE ~EXITING
    <3>1. zombies' = <<>> /\ run_queue' = Append(Tail(run_queue), current)
          /\ EXITING' = FALSE
      BY Zenon, <2>1, <2>10 DEF retire
    <3>2. pc[current] # "exit"
      BY Zenon, <2>10 DEF ExitIsFinal
    <3>3. pc' = pc
      BY <3>2
    <3>4. /\ run_queue' \in Seq(ThreadId)
          /\ Range(run_queue') = Range(Tail(run_queue)) \cup {current}
          /\ NoRepeats(run_queue')
      <4>1. /\ Append(Tail(run_queue), current) \in Seq(ThreadId)
            /\ Range(Append(Tail(run_queue), current))
                 = Range(Tail(run_queue)) \cup {current}
            /\ NoRepeats(Append(Tail(run_queue), current))
        <5> DEFINE rest == Tail(run_queue)
        <5>1. /\ rest \in Seq(ThreadId) /\ current \in ThreadId
              /\ NoRepeats(rest) /\ current \notin Range(rest)
          BY Zenon, <2>2, <2>3
        <5> HIDE DEF SchedInv, SchedTypeOK, rest
        <5>2. /\ Append(rest, current) \in Seq(ThreadId)
              /\ Range(Append(rest, current)) = Range(rest) \cup {current}
              /\ NoRepeats(Append(rest, current))
          BY <5>1, AppendFacts
        <5> QED
          BY Zenon, <5>2 DEF rest
      <4> QED
        BY Zenon, <4>1, <3>1
    <3>5. Runnable' = Runnable
      BY Zenon, <3>4, <2>1, <2>2 DEF Runnable
    <3>6. Building' = Building
      BY <3>5, <1>2 DEF Building
    <3>7. SchedTypeOK'
      BY Zenon, <3>1, <3>4, <2>1, <2>2, <2>5, <2>6, <1>1, <1>2, <1>5
    <3>8. OnePlace'
      BY ZenonT(30), <3>1, <3>4, <3>5, <3>6, <2>1, <2>2, <2>3, <1>2, <1>5 DEF OnePlace
    <3>9. StacksMatchThreads'
      BY Zenon, <3>1, <3>5, <3>6, <1>4, <1>5 DEF StacksMatchThreads
    <3>10. pc[current] = "run"
      BY Zenon, <3>2 DEF ExitIsFinal, Pc
    <3>11. \A t \in Range(run_queue') \cup Building' : pc'[t] = "run"
      BY Zenon, <3>3, <3>4, <3>6, <3>10, <2>2
    <3> QED
      BY ZenonT(30), <3>3, <3>5, <3>7, <3>8, <3>9, <3>11, <2>1, <2>4, <2>7, <2>8, <1>1,
         <1>2
  <2> QED
    BY Zenon, <2>9, <2>10
<1> QED
  BY Zenon, <1>8, <1>9

(* Every step of the scheduler keeps the invariant.                        *)
LEMMA NextInv == SchedInv /\ [SchedNext]_schedVars => SchedInv'
<1> SUFFICES ASSUME SchedInv, [SchedNext]_schedVars PROVE SchedInv'
  BY Zenon
<1> USE DEF SchedInv, SchedTypeOK
<1>0. /\ Boot \in ThreadId
      /\ ThreadId \subseteq Nat
      /\ None \notin ThreadId
      /\ current \in Runnable
      /\ Runnable \subseteq ThreadId
      /\ \A t \in ThreadId : t \in Runnable => t < NEXT_THREAD_ID
  BY MaxThreadsAssumption
  DEF ThreadId, Boot, None, Runnable, Range, StacksMatchThreads
<1>1. ASSUME NEW own_space \in BOOLEAN, NEW own_entry_stack \in BOOLEAN,
             Thread_new(own_space, own_entry_stack)
      PROVE  SchedInv'
  <2> DEFINE id == NEXT_THREAD_ID
  <2>1. /\ Idle(current) /\ id' = id + 1
        /\ thread' = [thread EXCEPT ![id] =
                         ThreadOf(id, own_space, own_entry_stack)]
        /\ stack' = stack \cup {id}
        /\ built' = [built EXCEPT ![current] = id]
        /\ UNCHANGED <<run_queue, current, zombies, EXITING, pc, cr3, rsp0>>
    BY Zenon, <1>1 DEF Thread_new
  <2>2. id \in ThreadId /\ id' \in 2 .. MAX_THREADS + 1 /\ id \in Nat
    BY <1>1, MaxThreadsAssumption DEF Thread_new, ThreadId
  <2>3. ThreadOf(id, own_space, own_entry_stack) \in Thread
    BY Zenon, <2>2 DEF ThreadOf, Thread
  <2>4. SchedTypeOK'
    BY Zenon, <2>1, <2>2, <2>3
  <2>5. Runnable' = Runnable
    BY Zenon, <2>1 DEF Runnable
  <2>6. built[current] = None
    BY Zenon, <2>1 DEF Idle
  <2>7. Building' = Building \cup {id}
    <3>1. \A t \in Runnable : t # current => built'[t] = built[t]
      BY Zenon, <2>1, <1>0
    <3>2. built'[current] = id /\ id # None
      BY Zenon, <2>1, <2>2, <1>0
    <3>3. Building' \subseteq Building \cup {id}
      BY <3>1, <3>2, <2>5 DEF Building
    <3>4. Building \subseteq Building'
      BY Zenon, <3>1, <2>5, <2>6 DEF Building
    <3>5. id \in Building'
      BY Zenon, <3>2, <2>5, <1>0 DEF Building
    <3> QED
      BY Zenon, <3>3, <3>4, <3>5
  <2>8. id \notin stack
    BY <2>2
  <2>9. id \notin Runnable \cup Range(zombies) \cup Building
    BY Zenon, <2>8 DEF StacksMatchThreads
  <2>10. OnePlace'
    <3>1. Building' \cap (Runnable' \cup Range(zombies')) = {}
      BY ZenonT(30), <2>1, <2>5, <2>7, <2>9 DEF OnePlace
    <3>2. ASSUME NEW s \in Runnable', NEW t \in Runnable',
                 built'[s] = built'[t], built'[s] # None
          PROVE  s = t
      <4>1. s \in Runnable /\ t \in Runnable /\ s \in ThreadId /\ t \in ThreadId
        BY Zenon, <2>5, <1>0
      <4>2. CASE s # current /\ t # current
        <5>1. built[s] = built[t] /\ built[s] # None
          BY Zenon, <4>1, <4>2, <3>2, <2>1
        <5> QED
          BY Zenon, <5>1, <4>1 DEF OnePlace
      <4>3. \A u \in Runnable : u # current => built'[u] # id
        <5> SUFFICES ASSUME NEW u \in Runnable, u # current PROVE built'[u] # id
          BY Zenon
        <5>1. built'[u] = built[u]
          BY Zenon, <2>1, <1>0
        <5>2. CASE built[u] = None
          BY Zenon, <5>1, <5>2, <2>2, <1>0
        <5>3. CASE built[u] # None
          BY <5>1, <5>3, <2>9 DEF Building
        <5> QED
          BY Zenon, <5>2, <5>3
      <4>4. built'[current] = id
        BY Zenon, <2>1
      <4> QED
        BY Zenon, <4>1, <4>2, <4>3, <4>4, <3>2
    <3> QED
      BY Zenon, <3>1, <3>2, <2>1, <2>5 DEF OnePlace
  <2>11. StacksMatchThreads'
    BY Zenon, <2>1, <2>5, <2>7 DEF StacksMatchThreads
  <2>12. thread'[current] = thread[current]
    BY Zenon, <2>1, <2>9, <1>0
  <2>13. ExitIsFinal' /\ ContextIsCurrents'
    BY Zenon, <2>1, <2>12 DEF ExitIsFinal, ContextIsCurrents
  <2>14. \A t \in ThreadId : built'[t] # None => t \in Runnable' /\ pc'[t] = "run"
    BY Zenon, <2>1, <2>5, <1>0 DEF Idle
  <2>15. \A t \in stack' : t < NEXT_THREAD_ID'
    BY <2>1, <2>2, <1>0
  <2>16. \A t \in ThreadId : t >= NEXT_THREAD_ID' => pc'[t] = "run"
    BY <2>1, <2>2, <1>0
  <2>17. pc[id] = "run"
    BY <2>2
  <2>18. \A t \in Range(run_queue') \cup Building' : pc'[t] = "run"
    BY Zenon, <2>1, <2>7, <2>17
  <2> QED
    BY Zenon, <2>1, <2>4, <2>5, <2>10, <2>11, <2>13, <2>14, <2>15, <2>16, <2>18
<1>2. CASE push_thread
  <2> DEFINE id == built[current]
  <2>1. /\ id # None /\ id \in ThreadId
        /\ run_queue' = Append(run_queue, id)
        /\ built' = [built EXCEPT ![current] = None]
        /\ UNCHANGED <<current, zombies, EXITING, NEXT_THREAD_ID, thread,
                       stack, pc, cr3, rsp0>>
    BY Zenon, <1>2 DEF push_thread
  <2>2. id \in Building
    BY Zenon, <2>1, <1>0 DEF Building
  <2>3. id \notin Runnable \cup Range(zombies)
    BY Zenon, <2>2 DEF OnePlace
  <2>4. /\ run_queue' \in Seq(ThreadId)
        /\ Range(run_queue') = Range(run_queue) \cup {id}
        /\ NoRepeats(run_queue')
    <3>1. id \notin Range(run_queue) /\ NoRepeats(run_queue)
          /\ run_queue \in Seq(ThreadId)
      BY Zenon, <2>3 DEF Runnable, OnePlace
    <3> HIDE DEF id, SchedInv, SchedTypeOK
    <3>2. /\ Append(run_queue, id) \in Seq(ThreadId)
          /\ Range(Append(run_queue, id)) = Range(run_queue) \cup {id}
          /\ NoRepeats(Append(run_queue, id))
      BY <3>1, <2>1, AppendFacts
    <3> QED
      BY Zenon, <3>2, <2>1
  <2>5. Runnable' = Runnable \cup {id}
    BY Zenon, <2>1, <2>4 DEF Runnable
  <2>6. built[id] = None /\ pc[id] = "run"
    BY Zenon, <2>1, <2>2, <2>3
  <2>7. Building' = Building \ {id}
    <3>1. \A t \in Runnable : t # current => built'[t] = built[t] /\ built[t] # id
      BY Zenon, <2>1, <1>0 DEF OnePlace
    <3>2. built'[current] = None /\ built'[id] = None
      BY Zenon, <2>1, <2>6
    <3>3. Building' \subseteq Building \ {id}
      BY <3>1, <3>2, <2>5 DEF Building
    <3>4. Building \ {id} \subseteq Building'
      BY Zenon, <3>1, <2>5 DEF Building
    <3> QED
      BY Zenon, <3>3, <3>4
  <2>8. SchedTypeOK'
    BY Zenon, <2>1, <2>4
  <2>9. OnePlace'
    <3>1. current' \notin Range(run_queue')
      BY Zenon, <2>1, <2>3, <2>4, <1>0 DEF OnePlace
    <3>2. Range(zombies') \cap Runnable' = {}
      BY <2>1, <2>3, <2>5 DEF OnePlace
    <3>3. Building' \cap (Runnable' \cup Range(zombies')) = {}
      BY Zenon, <2>1, <2>5, <2>7 DEF OnePlace
    <3>4. ASSUME NEW s \in Runnable', NEW t \in Runnable',
                 built'[s] = built'[t], built'[s] # None
          PROVE  s = t
      <4>1. /\ s # current /\ t # current /\ s # id /\ t # id
            /\ s \in Runnable /\ t \in Runnable
        BY Zenon, <3>4, <2>1, <2>5, <2>6, <1>0
      <4>2. built[s] = built[t] /\ built[s] # None
        BY Zenon, <4>1, <3>4, <2>1, <1>0
      <4> QED
        BY Zenon, <4>1, <4>2 DEF OnePlace
    <3> QED
      BY Zenon, <3>1, <3>2, <3>3, <3>4, <2>1, <2>4 DEF OnePlace
  <2>10. StacksMatchThreads'
    BY Zenon, <2>1, <2>2, <2>5, <2>7 DEF StacksMatchThreads
  <2>11. ExitIsFinal' /\ ContextIsCurrents'
    <3>1. pc[current] = "run"
      BY Zenon, <2>1
    <3> QED
      BY Zenon, <3>1, <2>1 DEF ExitIsFinal, ContextIsCurrents
  <2>12. \A t \in ThreadId : built'[t] # None => t \in Runnable' /\ pc'[t] = "run"
    BY Zenon, <2>1, <2>5
  <2>13. \A t \in Range(run_queue') \cup Building' : pc'[t] = "run"
    BY Zenon, <2>1, <2>4, <2>6, <2>7
  <2> QED
    BY Zenon, <2>1, <2>5, <2>8, <2>9, <2>10, <2>11, <2>12, <2>13
<1>3. CASE yield_now
  BY Zenon, <1>3, RescheduleInv DEF yield_now
<1>4. CASE exit_current_thread
  <2>1. /\ Idle(current) /\ current # Boot
        /\ EXITING' = TRUE
        /\ pc' = [pc EXCEPT ![current] = "exit"]
        /\ UNCHANGED <<run_queue, current, zombies, NEXT_THREAD_ID, thread,
                       built, stack, cr3, rsp0>>
    BY Zenon, <1>4 DEF exit_current_thread
  <2>2. Runnable' = Runnable /\ Building' = Building
    BY Zenon, <2>1 DEF Runnable, Building
  <2>3. SchedTypeOK'
    BY Zenon, <2>1 DEF Pc
  <2>4. OnePlace' /\ StacksMatchThreads' /\ ContextIsCurrents'
    BY Zenon, <2>1, <2>2 DEF OnePlace, StacksMatchThreads, ContextIsCurrents
  <2>5. run_queue # <<>>
    BY <2>1 DEF Runnable, Range
  <2>6. ExitIsFinal'
    BY Zenon, <2>1, <2>5 DEF ExitIsFinal
  <2>7. \A t \in Range(run_queue) \cup Building : t # current
    BY <1>0 DEF OnePlace
  <2>8. \A t \in Range(run_queue') \cup Building' : pc'[t] = "run"
    <3>1. Range(run_queue) \cup Building \subseteq ThreadId
      BY DEF Range, StacksMatchThreads
    <3> QED
      BY Zenon, <3>1, <2>1, <2>2, <2>7
  <2>9. \A t \in ThreadId : built'[t] # None => t \in Runnable' /\ pc'[t] = "run"
    BY Zenon, <2>1, <2>2 DEF Idle
  <2>10. \A t \in ThreadId : t >= NEXT_THREAD_ID' => pc'[t] = "run"
    BY <2>1, <1>0
  <2>11. Boot \in Runnable' /\ pc'[Boot] = "run"
    BY Zenon, <2>1, <2>2, <1>0
  <2>12. pc'[current'] # "gone"
    BY Zenon, <2>1
  <2> QED
    BY Zenon, <2>1, <2>3, <2>4, <2>6, <2>8, <2>9, <2>10, <2>11, <2>12
<1>5. CASE exit_int
  <2>1. run_queue # <<>>
    BY Zenon, <1>5 DEF exit_int, ExitIsFinal
  <2>2. pc' = [pc EXCEPT ![current] = "gone"] /\ reschedule
        /\ pc[current] = "exit"
    BY Zenon, <1>5, <2>1 DEF exit_int
  <2>3. pc' \in [ThreadId -> Pc] /\ pc'[current] = "gone"
        /\ \A t \in ThreadId : t # current => pc'[t] = pc[t]
    BY Zenon, <2>2 DEF Pc
  <2> QED
    BY Zenon, <2>1, <2>2, <2>3, RescheduleInv
<1>6. CASE on_timer_tick
  BY Zenon, <1>6, RescheduleInv DEF on_timer_tick
<1>7. CASE UNCHANGED schedVars
  <2>1. Runnable' = Runnable /\ Building' = Building
    BY Zenon, <1>7 DEF schedVars, Runnable, Building
  <2> QED
    BY Zenon, <1>7, <2>1 DEF schedVars, OnePlace, StacksMatchThreads, ExitIsFinal,
       ContextIsCurrents
<1> QED
  BY Zenon, <1>1, <1>2, <1>3, <1>4, <1>5, <1>6, <1>7 DEF SchedNext

-----------------------------------------------------------------------------
(* Every reachable state of the scheduler satisfies the invariant.         *)
THEOREM SchedInvariance == SchedSpec => []SchedInv
  BY InitInv, NextInv, PTL DEF SchedSpec

(* Type correctness, for any number of threads.                            *)
THEOREM TypeCorrect == SchedSpec => []SchedTypeOK
<1>1. SchedInv => SchedTypeOK
  BY Zenon DEF SchedInv
<1> QED
  BY <1>1, SchedInvariance, PTL

(* `reschedule' never duplicates or loses a thread.                        *)
THEOREM ThreadsInOnePlace == SchedSpec => []OnePlace
<1>1. SchedInv => OnePlace
  BY Zenon DEF SchedInv
<1> QED
  BY <1>1, SchedInvariance, PTL

(* reap_zombies unmaps every exited thread's stack once and no other's.    *)
THEOREM StacksReclaimed == SchedSpec => []StacksMatchThreads
<1>1. SchedInv => StacksMatchThreads
  BY Zenon DEF SchedInv
<1> QED
  BY <1>1, SchedInvariance, PTL

(* exit_current_thread's `int' does not come back, and EXITING is set only *)
(* on behalf of the thread that is current.                                *)
THEOREM ExitFinal == SchedSpec => []ExitIsFinal
<1>1. SchedInv => ExitIsFinal
  BY Zenon DEF SchedInv
<1> QED
  BY <1>1, SchedInvariance, PTL

(* Cr3 and RSP0 are the running thread's.                                  *)
THEOREM ContextLoaded == SchedSpec => []ContextIsCurrents
<1>1. SchedInv => ContextIsCurrents
  BY Zenon DEF SchedInv
<1> QED
  BY <1>1, SchedInvariance, PTL

(* The invariants of the kernel run together, for any number of threads.   *)
THEOREM SchedulerIsSound == SchedSpec => []SchedulerSound
<1>1. SchedInv => SchedulerSound
  BY Zenon DEF SchedInv, SchedulerSound
<1> QED
  BY <1>1, SchedInvariance, PTL

-----------------------------------------------------------------------------
(* A thread that `reschedule' retires stands in the exit window.           *)
THEOREM OnlyExitedThreadsRetire == SchedSpec => OnlyExitedRetire
<1> DEFINE Step == \A t \in Range(zombies') \ Range(zombies) : pc[t] = "exit"
<1>1. ASSUME SchedInv, [SchedNext]_schedVars PROVE [Step]_schedVars
  <2>1. ASSUME reschedule PROVE Step
    <3>1. zombies' = <<>> \/ (EXITING /\ zombies' = <<current>>)
      BY Zenon, <2>1, <1>1 DEF reschedule, retire
    <3>2. Range(<<>>) = {} /\ Range(<<current>>) = {current}
      BY DEF Range
    <3> QED
      BY Zenon, <3>1, <3>2, <1>1 DEF SchedInv, ExitIsFinal
  <2>2. ASSUME UNCHANGED zombies PROVE Step
    BY Zenon, <2>2
  <2> QED
    BY Zenon, <2>1, <2>2, <1>1
    DEF SchedNext, schedVars, Thread_new, push_thread, yield_now,
        exit_current_thread, exit_int, on_timer_tick
<1>2. SchedInv /\ [SchedNext]_schedVars => [Step]_schedVars
  BY Zenon, <1>1
<1> QED
  BY <1>2, SchedInvariance, PTL DEF SchedSpec, OnlyExitedRetire

(* The run queue is served in order: each switch takes its first thread    *)
(* and moves the others up (the pop_front and push_back of reschedule).    *)
THEOREM QueueIsFifo == SchedSpec => NoOvertaking
<1> DEFINE Step == \A i \in DOMAIN run_queue :
          \/ /\ current' = current
             /\ i \in DOMAIN run_queue' /\ run_queue'[i] = run_queue[i]
          \/ i = 1 /\ current' = run_queue[i]
          \/ i > 1 /\ current' # current /\ run_queue'[i - 1] = run_queue[i]
<1>1. ASSUME SchedInv, [SchedNext]_schedVars PROVE [Step]_schedVars
  <2>0. run_queue \in Seq(ThreadId) /\ current \in ThreadId
        /\ built \in [ThreadId -> ThreadId \cup {None}]
        /\ current \notin Range(run_queue)
    BY Zenon, <1>1 DEF SchedInv, SchedTypeOK, OnePlace
  <2>1. ASSUME reschedule PROVE Step
    <3>1. CASE run_queue = <<>>
      BY <3>1
    <3>2. CASE run_queue # <<>>
      <4> DEFINE rest == Tail(run_queue)
      <4>1. /\ current' = run_queue[1]
            /\ run_queue' = rest \/ run_queue' = Append(rest, current)
        BY <2>0, <2>1, <3>2 DEF reschedule, retire
      <4>2. /\ rest \in Seq(ThreadId)
            /\ Len(rest) = Len(run_queue) - 1
            /\ Len(run_queue) \in Nat /\ DOMAIN run_queue = 1 .. Len(run_queue)
            /\ \A i \in 1 .. Len(rest) : rest[i] = run_queue[i + 1]
        BY <2>0, <3>2
      <4>5. current' # current
        BY <2>0, <3>2, <4>1, <4>2 DEF Range
      <4> HIDE DEF rest
      <4>3. \A i \in 1 .. Len(rest) : Append(rest, current)[i] = rest[i]
        BY <4>2, <2>0
      <4> SUFFICES ASSUME NEW i \in 1 .. Len(run_queue), i # 1
                   PROVE  i > 1 /\ run_queue'[i - 1] = run_queue[i]
        BY Zenon, <4>1, <4>2, <4>5
      <4>4. i - 1 \in 1 .. Len(rest) /\ i > 1 /\ (i - 1) + 1 = i
        BY <4>2
      <4> QED
        BY Zenon, <4>1, <4>2, <4>3, <4>4
    <3> QED
      BY Zenon, <3>1, <3>2
  <2>2. ASSUME UNCHANGED <<run_queue, current>> PROVE Step
    BY Zenon, <2>2
  <2>3. ASSUME push_thread PROVE Step
    <3>1. /\ run_queue' = Append(run_queue, built[current])
          /\ built[current] \in ThreadId
          /\ current' = current
      BY Zenon, <2>0, <2>3 DEF push_thread
    <3> QED
      BY <3>1, <2>0
  <2> QED
    BY Zenon, <2>1, <2>2, <2>3, <1>1
    DEF SchedNext, schedVars, Thread_new, yield_now, exit_current_thread,
        exit_int, on_timer_tick
<1>2. SchedInv /\ [SchedNext]_schedVars => [Step]_schedVars
  BY Zenon, <1>1
<1> QED
  BY <1>2, SchedInvariance, PTL DEF SchedSpec, NoOvertaking

(* The kernel run's action property, for any number of threads.            *)
THEOREM SchedulerStepsHold == SchedSpec => SchedulerSteps
  BY OnlyExitedThreadsRetire, QueueIsFifo, PTL DEF SchedulerSteps

-----------------------------------------------------------------------------
(* The syscall layer (Kernel).                                             *)

(* retain keeps exactly the elements asked for, and repeats none that was  *)
(* not repeated.                                                           *)
LEMMA RetainFacts ==
    ASSUME NEW S, NEW s \in Seq(S), NEW Keep
    PROVE  /\ retain(s, Keep) \in Seq(S)
           /\ Range(retain(s, Keep)) = Range(s) \cap Keep
           /\ NoRepeats(s) => NoRepeats(retain(s, Keep))
<1> DEFINE kept == {i \in DOMAIN s : s[i] \in Keep}
           below(i) == {j \in kept : j <= i}
           rank(i) == Cardinality(below(i))
           N == Cardinality(kept)
           at == [n \in 1 .. N |-> CHOOSE i \in kept : rank(i) = n]
           f == [i \in kept |-> rank(i)]
<1>1. DOMAIN s = 1 .. Len(s) /\ Len(s) \in Nat
  OBVIOUS
<1>2. IsFiniteSet(kept) /\ N \in Nat
  <2>1. IsFiniteSet(1 .. Len(s))
    BY <1>1, FS_Interval
  <2>2. kept \in SUBSET (1 .. Len(s))
    BY Zenon, <1>1
  <2>3. IsFiniteSet(kept)
    BY Zenon, <2>1, <2>2, FS_Subset
  <2> QED
    BY Zenon, <2>3, FS_CardinalityType
<1>3. ASSUME NEW i \in kept
      PROVE  IsFiniteSet(below(i)) /\ rank(i) \in 1 .. N
  <2>1. below(i) \in SUBSET kept
    BY Zenon
  <2>2. IsFiniteSet(below(i)) /\ rank(i) <= N
    BY Zenon, <1>2, <2>1, FS_Subset
  <2>3. i \in below(i)
    BY <1>1
  <2>4. rank(i) \in Nat /\ rank(i) # 0
    BY Zenon, <2>2, <2>3, FS_CardinalityType, FS_EmptySet
  <2> QED
    BY <1>2, <2>2, <2>4
<1>4. ASSUME NEW i \in kept, NEW j \in kept, i < j
      PROVE  rank(i) # rank(j)
  <2>1. below(i) \in SUBSET below(j)
    BY <1>1, <1>4
  <2>2. j \in below(j) /\ j \notin below(i)
    BY <1>1, <1>4
  <2>3. IsFiniteSet(below(j))
    BY ZenonT(30), <1>3
  <2>4. Cardinality(below(j)) = Cardinality(below(i)) => below(j) = below(i)
    BY Zenon, <2>1, <2>3, FS_Subset
  <2> QED
    BY Zenon, <2>2, <2>4
<1>5. \A i, j \in kept : rank(i) = rank(j) => i = j
  <2> SUFFICES ASSUME NEW i \in kept, NEW j \in kept, rank(i) = rank(j), i # j
               PROVE  FALSE
    BY Zenon
  <2>1. i < j \/ j < i
    BY <1>1
  <2> QED
    BY Zenon, <2>1, <1>4
<1>6. f \in Injection(kept, 1 .. N)
  <2>1. f \in [kept -> 1 .. N]
    BY Zenon, <1>3
  <2>2. \A i, j \in kept : f[i] = f[j] => i = j
    BY Zenon, <1>5
  <2> QED
    BY ZenonT(30), <2>1, <2>2 DEF Injection, IsInjective
<1>7. f \in Surjection(kept, 1 .. N)
  <2>1. IsFiniteSet(1 .. N) /\ Cardinality(1 .. N) = N
    BY <1>2, FS_Interval
  <2> HIDE DEF f, N
  <2> QED
    BY Zenon, <1>6, <2>1, FS_Injection DEF N
<1>8. \A n \in 1 .. N : \E i \in kept : rank(i) = n
  BY ZenonT(30), <1>7 DEF Surjection
<1>9. \A n \in 1 .. N : at[n] \in kept /\ rank(at[n]) = n
  BY ZenonT(30), <1>8
<1>10. \A i \in kept : at[rank(i)] = i
  BY Zenon, <1>3, <1>5, <1>9
<1>11. retain(s, Keep) = [n \in 1 .. N |-> s[at[n]]]
  BY DEF retain
<1> HIDE DEF N, at, rank
<1>12. retain(s, Keep) \in Seq(S)
  <2>1. \A n \in 1 .. N : s[at[n]] \in S
    BY <1>1, <1>9
  <2> QED
    BY <1>2, <1>11, <2>1, IsASeq
<1>13. Range(retain(s, Keep)) = Range(s) \cap Keep
  <2>1. ASSUME NEW n \in 1 .. N
        PROVE  s[at[n]] \in Range(s) \cap Keep
    BY Zenon, <1>9 DEF Range
  <2>2. ASSUME NEW i \in kept
        PROVE  \E n \in 1 .. N : s[i] = s[at[n]]
    BY ZenonT(30), <1>3, <1>10
  <2>3. Range(retain(s, Keep)) = {s[at[n]] : n \in 1 .. N}
    BY <1>11 DEF Range
  <2>4. Range(s) \cap Keep = {s[i] : i \in kept}
    BY Zenon DEF Range
  <2> QED
    BY <2>1, <2>2, <2>3, <2>4
<1>14. NoRepeats(s) => NoRepeats(retain(s, Keep))
  <2> SUFFICES ASSUME NoRepeats(s), NEW m \in 1 .. N, NEW n \in 1 .. N, s[at[m]] = s[at[n]]
               PROVE  m = n
    BY <1>11 DEF NoRepeats
  <2>1. at[m] = at[n]
    BY Zenon, <1>9 DEF NoRepeats
  <2> QED
    BY Zenon, <2>1, <1>9
<1> QED
  BY Zenon, <1>12, <1>13, <1>14
-----------------------------------------------------------------------------
(* The inductive invariant.  To what the run checks it adds: the           *)
(* scheduler's own invariant; that a live session's id has been handed     *)
(* out, so a new one is fresh; that a lane holds only bytes of the thread  *)
(* that writes it; and that a thread waiting for a session's lock waits on *)
(* a lane it holds locked itself, of a session that is gone or that it     *)
(* takes part in.                                                          *)
IdsHandedOut == \A id \in DOMAIN sessions : id < NEXT_SESSION_ID

LanesOwn ==
    \A id \in DOMAIN sessions :
        /\ Range(sessions[id].lane["Owner"]) \subseteq {sessions[id].owner}
        /\ Range(sessions[id].lane["Server"]) \subseteq {sessions[id].server} \ {sessions[id].owner}

HoldsLane(id, t) ==
    Participant(id, t) /\ sessions[id].locked[role_of(sessions[id], t)]

WaitsForLock(c) == c.op = "SYS_IPC_SESSION_SEND_LOCK"

LockWaitsOnSelf ==
    \A t \in ThreadId :
        WaitsForLock(call[t]) =>
            /\ call[t].arg \in SessionId /\ call[t].arg < NEXT_SESSION_ID
            /\ call[t].arg \in DOMAIN sessions => HoldsLane(call[t].arg, t)

(* The port's part of the types, and what is kept of the session tables.   *)
PortsTyped ==
    /\ queue \in [Port -> Seq(ThreadId)]
    /\ send_lock \in [Port -> BOOLEAN]
    /\ \A p \in Port : Len(queue[p]) <= CHANNEL_CAPACITY

SessionTyped(session) ==
    /\ session \in Session(ThreadId)
    /\ \A r \in Role : Len(session.lane[r]) <= CHANNEL_CAPACITY

TablesTyped ==
    /\ DOMAIN sessions \subseteq SessionId
    /\ \A id \in DOMAIN sessions : SessionTyped(sessions[id])
    /\ pending \in [Port -> Seq(SessionId)]
    /\ NEXT_SESSION_ID \in 1 .. MAX_SESSION_ID + 1

TablesInv == TablesTyped /\ PendingExact /\ SessionCeilings /\ IdsHandedOut /\ LanesOwn

KernelInv ==
    /\ SchedInv /\ PortsTyped /\ TablesInv /\ NoOrphanSession /\ LockWaitsOnSelf
    /\ call \in [ThreadId -> Call]
    /\ revoked \subseteq Revocable

-----------------------------------------------------------------------------
(* What a change to one session must respect, its participants and port    *)
(* being left alone: the type and the lanes' writers.                      *)
LEMMA OneSessionKeeps ==
    ASSUME TablesInv, NEW id \in DOMAIN sessions, NEW new,
           sessions' = [sessions EXCEPT ![id] = new], UNCHANGED <<pending, NEXT_SESSION_ID>>,
           SessionTyped(new),
           new.owner = sessions[id].owner, new.server = sessions[id].server,
           new.server_port = sessions[id].server_port,
           Range(new.lane["Owner"]) \subseteq {new.owner},
           Range(new.lane["Server"]) \subseteq {new.server} \ {new.owner}
    PROVE  TablesInv'
<1>1. /\ DOMAIN sessions' = DOMAIN sessions
      /\ \A i \in DOMAIN sessions : sessions'[i] = IF i = id THEN new ELSE sessions[i]
  BY Zenon
<1>2. \A i \in DOMAIN sessions : /\ sessions'[i].owner = sessions[i].owner
                                 /\ sessions'[i].server = sessions[i].server
                                 /\ sessions'[i].server_port = sessions[i].server_port
  BY Zenon, <1>1
<1>3. TablesTyped'
  BY Zenon, <1>1 DEF TablesInv, TablesTyped, SessionTyped
<1>4. PendingExact'
  BY <1>1, <1>2 DEF TablesInv, PendingExact
<1>5. SessionCeilings'
  <2>1. \A t : {i \in DOMAIN sessions' : sessions'[i].owner = t}
                = {i \in DOMAIN sessions : sessions[i].owner = t}
    BY <1>1, <1>2
  <2> QED
    BY ZenonT(30), <1>1, <2>1 DEF TablesInv, SessionCeilings
<1>6. IdsHandedOut'
  BY Zenon, <1>1 DEF TablesInv, IdsHandedOut
<1>7. LanesOwn'
  BY Zenon, <1>1 DEF TablesInv, LanesOwn
<1> QED
  BY Zenon, <1>3, <1>4, <1>5, <1>6, <1>7 DEF TablesInv

(* session_open: the new session's id is fresh and pending, and there was  *)
(* room for it under both ceilings.                                        *)
LEMMA OpenKeeps ==
    ASSUME TablesInv, NEW p \in Port, NEW o \in ThreadId, session_open(p, o)
    PROVE  TablesInv'
<1> DEFINE n == NEXT_SESSION_ID
<1> USE IpcAssumption
<1>1. /\ n \in SessionId /\ n \notin DOMAIN sessions
      /\ DOMAIN sessions' = DOMAIN sessions \cup {n}
      /\ sessions'[n] = NewSession(p, o)
      /\ \A i \in DOMAIN sessions : sessions'[i] = sessions[i]
      /\ NEXT_SESSION_ID' = n + 1
      /\ pending' = [pending EXCEPT ![p] = Append(@, n)]
  BY DEF session_open, TablesInv, TablesTyped, IdsHandedOut, SessionId
<1>2. /\ NewSession(p, o).owner = o /\ NewSession(p, o).server = NoServer
      /\ NewSession(p, o).server_port = p
      /\ NewSession(p, o).lane = [r \in Role |-> <<>>]
      /\ SessionTyped(NewSession(p, o))
  BY DEF NewSession, SessionTyped, Session, Role
<1>3. TablesTyped'
  <2>1. NEXT_SESSION_ID' \in 1 .. MAX_SESSION_ID + 1
    BY <1>1 DEF TablesInv, TablesTyped, SessionId
  <2>2. pending' \in [Port -> Seq(SessionId)]
    BY <1>1 DEF TablesInv, TablesTyped
  <2>3. \A i \in DOMAIN sessions' : SessionTyped(sessions'[i])
    BY Zenon, <1>1, <1>2 DEF TablesInv, TablesTyped
  <2> QED
    BY Zenon, <1>1, <2>1, <2>2, <2>3 DEF TablesTyped, TablesInv, SessionTyped
<1>4. PendingExact'
  <2> SUFFICES ASSUME NEW q \in Port
               PROVE  /\ NoRepeats(pending'[q])
                      /\ Range(pending'[q]) = {id \in DOMAIN sessions' :
                                                  /\ sessions'[id].server = NoServer
                                                  /\ sessions'[id].server_port = q}
    BY Zenon DEF PendingExact
  <2> DEFINE open == {id \in DOMAIN sessions : /\ sessions[id].server = NoServer
                                             /\ sessions[id].server_port = q}
  <2>1. pending[q] \in Seq(SessionId) /\ NoRepeats(pending[q]) /\ Range(pending[q]) = open
    BY Zenon DEF TablesInv, TablesTyped, PendingExact
  <2>2. {id \in DOMAIN sessions' : /\ sessions'[id].server = NoServer
                                  /\ sessions'[id].server_port = q}
          = IF q = p THEN open \cup {n} ELSE open
    BY Zenon, <1>1, <1>2
  <2>3. pending'[q] = IF q = p THEN Append(pending[q], n) ELSE pending[q]
    BY Zenon, <1>1 DEF TablesInv, TablesTyped
  <2>4. n \notin open
    BY Zenon, <1>1
  <2> QED
    BY <1>1, <2>1, <2>2, <2>3, <2>4, AppendFacts
<1>5. SessionCeilings'
  <2>1. IsFiniteSet(DOMAIN sessions)
    <3>0. 1 \in Int /\ MAX_SESSION_ID \in Int
      BY IpcAssumption
    <3>1. IsFiniteSet(SessionId)
      BY Zenon, <3>0, FS_Interval DEF SessionId
    <3> QED
      BY Zenon, <3>1, FS_Subset DEF TablesInv, TablesTyped
  <2>2. Cardinality(DOMAIN sessions') <= MAX_LIVE_SESSIONS
    <3>1. Cardinality(DOMAIN sessions') = Cardinality(DOMAIN sessions) + 1
      BY Zenon, <1>1, <2>1, FS_AddElement
    <3>2. Cardinality(DOMAIN sessions) \in Nat
      BY Zenon, <2>1, FS_CardinalityType
    <3> QED
      BY <3>1, <3>2 DEF session_open
  <2>3. ASSUME NEW t \in ThreadId
        PROVE  Cardinality({id \in DOMAIN sessions' : sessions'[id].owner = t}) <= MAX_SESSIONS_PER_OWNER
    <3> DEFINE own == {id \in DOMAIN sessions : sessions[id].owner = t}
    <3>1. {id \in DOMAIN sessions' : sessions'[id].owner = t} = IF t = o THEN own \cup {n} ELSE own
      BY Zenon, <1>1, <1>2
    <3>2. IsFiniteSet(own) /\ n \notin own
      BY Zenon, <1>1, <2>1, FS_Subset
    <3>3. Cardinality(own) \in Nat /\ Cardinality(own \cup {n}) = Cardinality(own) + 1
      BY Zenon, <3>2, FS_AddElement, FS_CardinalityType
    <3>4. CASE t = o
      <4>1. Cardinality(own) < MAX_SESSIONS_PER_OWNER
        BY Zenon, <3>4 DEF session_open
      <4>2. {id \in DOMAIN sessions' : sessions'[id].owner = t} = own \cup {n}
        BY Zenon, <3>1, <3>4
      <4>3. Cardinality(own \cup {n}) <= MAX_SESSIONS_PER_OWNER
        BY <3>3, <4>1
      <4> QED
        BY Zenon, <4>2, <4>3
    <3>5. CASE t # o
      BY Zenon, <3>1, <3>5 DEF TablesInv, SessionCeilings
    <3> QED
      BY Zenon, <3>4, <3>5
  <2> QED
    BY Zenon, <2>2, <2>3 DEF SessionCeilings
<1>6. IdsHandedOut'
  BY <1>1 DEF TablesInv, TablesTyped, IdsHandedOut, SessionId
<1>7. LanesOwn'
  <2>1. Range(<<>>) = {}
    BY DEF Range
  <2>2. \A r \in Role : Range(sessions'[n].lane[r]) = {}
    BY Zenon, <1>1, <1>2, <2>1
  <2>3. "Owner" \in Role /\ "Server" \in Role
    BY Zenon DEF Role
  <2> QED
    BY ZenonT(30), <1>1, <2>2, <2>3 DEF TablesInv, LanesOwn
<1> QED
  BY Zenon, <1>3, <1>4, <1>5, <1>6, <1>7 DEF TablesInv


(* session_accept: the id popped is a live session nobody serves, of this  *)
(* port.                                                                   *)
LEMMA AcceptFacts ==
    ASSUME TablesInv, NEW p \in Port, NEW t \in ThreadId, session_accept(p, t)
    PROVE  \E id \in DOMAIN sessions :
              /\ sessions[id].server = NoServer /\ sessions[id].server_port = p
              /\ sessions' = [sessions EXCEPT ![id].server = t]
              /\ pending' = [pending EXCEPT ![p] = Tail(@)]
              /\ Range(Tail(pending[p])) = Range(pending[p]) \ {id}
              /\ NoRepeats(Tail(pending[p]))
              /\ Tail(pending[p]) \in Seq(SessionId)
              /\ NEXT_SESSION_ID' = NEXT_SESSION_ID
<1> DEFINE id == Head(pending[p])
<1>1. /\ pending[p] \in Seq(SessionId) /\ pending[p] # <<>> /\ NoRepeats(pending[p])
      /\ Range(pending[p]) = {i \in DOMAIN sessions : /\ sessions[i].server = NoServer
                                                     /\ sessions[i].server_port = p}
  BY Zenon DEF TablesInv, TablesTyped, PendingExact, session_accept
<1>2. /\ id \in Range(pending[p]) /\ Range(Tail(pending[p])) = Range(pending[p]) \ {id}
      /\ NoRepeats(Tail(pending[p])) /\ Tail(pending[p]) \in Seq(SessionId)
  BY Zenon, <1>1, TailFacts
<1>3. /\ id \in DOMAIN sessions
      /\ sessions[id].server = NoServer /\ sessions[id].server_port = p
  BY Zenon, <1>1, <1>2
<1>4. /\ sessions' = [sessions EXCEPT ![id].server = t]
      /\ pending' = [pending EXCEPT ![p] = Tail(@)]
      /\ NEXT_SESSION_ID' = NEXT_SESSION_ID
  BY Zenon, <1>3 DEF session_accept
<1> QED
  BY ZenonT(30), <1>2, <1>3, <1>4

(* session_accept: the server that takes a pending session becomes its     *)
(* server, and the invariant holds of it.                                  *)
LEMMA AcceptKeeps ==
    ASSUME TablesInv, NEW p \in Port, NEW t \in ThreadId, session_accept(p, t)
    PROVE  TablesInv'
<1>1. PICK id \in DOMAIN sessions :
              /\ sessions[id].server = NoServer /\ sessions[id].server_port = p
              /\ sessions' = [sessions EXCEPT ![id].server = t]
              /\ pending' = [pending EXCEPT ![p] = Tail(@)]
              /\ Range(Tail(pending[p])) = Range(pending[p]) \ {id}
              /\ NoRepeats(Tail(pending[p]))
              /\ Tail(pending[p]) \in Seq(SessionId)
              /\ NEXT_SESSION_ID' = NEXT_SESSION_ID
  BY ZenonT(30), AcceptFacts
<1>2. t # NoServer
  BY MaxThreadsAssumption DEF ThreadId, NoServer
<1>3. sessions[id] \in Session(ThreadId)
  BY Zenon DEF TablesInv, TablesTyped, SessionTyped
<1>4. /\ DOMAIN sessions' = DOMAIN sessions
      /\ \A i \in DOMAIN sessions : i # id => sessions'[i] = sessions[i]
      /\ sessions'[id] = [sessions[id] EXCEPT !.server = t]
  BY Zenon, <1>1
<1>5. /\ sessions'[id].owner = sessions[id].owner /\ sessions'[id].server = t
      /\ sessions'[id].server_port = p /\ sessions'[id].lane = sessions[id].lane
      /\ sessions'[id] \in Session(ThreadId)
  BY ZenonT(30), <1>1, <1>3, <1>4 DEF Session
<1>6. TablesTyped'
  <2>1. pending' \in [Port -> Seq(SessionId)]
    BY Zenon, <1>1 DEF TablesInv, TablesTyped
  <2>2. \A i \in DOMAIN sessions' : SessionTyped(sessions'[i])
    BY ZenonT(30), <1>4, <1>5 DEF TablesInv, TablesTyped, SessionTyped
  <2> QED
    BY ZenonT(30), <1>1, <1>4, <2>1, <2>2 DEF TablesInv, TablesTyped, SessionTyped
<1>7. PendingExact'
  <2> SUFFICES ASSUME NEW q \in Port
               PROVE  /\ NoRepeats(pending'[q])
                      /\ Range(pending'[q]) = {i \in DOMAIN sessions' :
                                                  /\ sessions'[i].server = NoServer
                                                  /\ sessions'[i].server_port = q}
    BY Zenon DEF PendingExact
  <2> DEFINE open == {i \in DOMAIN sessions : /\ sessions[i].server = NoServer
                                            /\ sessions[i].server_port = q}
  <2>1. NoRepeats(pending[q]) /\ Range(pending[q]) = open
    BY Zenon DEF TablesInv, PendingExact
  <2>2. {i \in DOMAIN sessions' : /\ sessions'[i].server = NoServer
                                 /\ sessions'[i].server_port = q} = open \ {id}
    BY ZenonT(30), <1>2, <1>4, <1>5
  <2>3. pending'[q] = IF q = p THEN Tail(pending[q]) ELSE pending[q]
    BY Zenon, <1>1 DEF TablesInv, TablesTyped
  <2>4. q # p => id \notin open
    BY Zenon, <1>1
  <2> QED
    BY <1>1, <2>1, <2>2, <2>3, <2>4
<1>8. SessionCeilings'
  <2>1. \A u : {i \in DOMAIN sessions' : sessions'[i].owner = u}
                = {i \in DOMAIN sessions : sessions[i].owner = u}
    BY ZenonT(30), <1>4, <1>5
  <2> QED
    BY Zenon, <1>4, <2>1 DEF TablesInv, SessionCeilings
<1>9. IdsHandedOut'
  BY Zenon, <1>1, <1>4 DEF TablesInv, IdsHandedOut
<1>10. LanesOwn'
  <2>1. Range(sessions[id].lane["Server"]) = {}
    <3>1. Range(sessions[id].lane["Server"]) \subseteq {NoServer}
      BY ZenonT(30), <1>1 DEF TablesInv, LanesOwn
    <3>2. sessions[id].lane["Server"] \in Seq(ThreadId)
      BY Zenon, <1>3 DEF Session, Role
    <3>3. Range(sessions[id].lane["Server"]) \subseteq ThreadId
      BY Zenon, <3>2, RangeOfSeq
    <3>4. NoServer \notin ThreadId
      BY MaxThreadsAssumption DEF ThreadId, NoServer
    <3> QED
      BY Zenon, <3>1, <3>3, <3>4
  <2> QED
    BY ZenonT(30), <1>4, <1>5, <2>1 DEF TablesInv, LanesOwn
<1> QED
  BY Zenon, <1>6, <1>7, <1>8, <1>9, <1>10 DEF TablesInv

(* reap_sessions_for: no session of the given threads stays, no other one  *)
(* goes, and the pending queues follow.                                    *)
LEMMA ReapKeeps ==
    ASSUME TablesInv, NEW dead, dead \subseteq ThreadId, reap_sessions_for(dead)
    PROVE  /\ TablesInv'
           /\ DOMAIN sessions' \subseteq DOMAIN sessions
           /\ \A id \in DOMAIN sessions' : /\ sessions'[id] = sessions[id]
                                           /\ sessions[id].owner \notin dead
                                           /\ sessions[id].server \notin dead
           /\ \A p \in Port : Range(pending'[p]) \subseteq Range(pending[p])
<1> DEFINE spared == {id \in DOMAIN sessions : sessions[id].owner \notin dead}
<1>1. /\ DOMAIN sessions' = {id \in DOMAIN sessions : /\ sessions[id].owner \notin dead
                                                     /\ sessions[id].server \notin dead}
      /\ \A id \in DOMAIN sessions' : sessions'[id] = sessions[id]
      /\ NEXT_SESSION_ID' = NEXT_SESSION_ID
  BY Zenon DEF reap_sessions_for, Restrict
<1>2. ASSUME NEW p \in Port
      PROVE  /\ pending'[p] \in Seq(SessionId)
             /\ Range(pending'[p]) = Range(pending[p]) \cap spared
             /\ NoRepeats(pending'[p])
  <2>1. pending'[p] = retain(pending[p], spared)
    BY Zenon DEF reap_sessions_for
  <2>2. pending[p] \in Seq(SessionId) /\ NoRepeats(pending[p])
    BY Zenon DEF TablesInv, TablesTyped, PendingExact
  <2> QED
    BY <2>1, <2>2, RetainFacts
<1>3. NoServer \notin dead
  BY MaxThreadsAssumption DEF ThreadId, NoServer
<1>4. TablesTyped'
  <2>1. pending' \in [Port -> Seq(SessionId)]
    BY ZenonT(30), <1>2 DEF reap_sessions_for
  <2> QED
    BY Zenon, <1>1, <2>1 DEF TablesInv, TablesTyped, SessionTyped
<1>5. PendingExact'
  <2> SUFFICES ASSUME NEW p \in Port
               PROVE  /\ NoRepeats(pending'[p])
                      /\ Range(pending'[p]) = {i \in DOMAIN sessions' :
                                                  /\ sessions'[i].server = NoServer
                                                  /\ sessions'[i].server_port = p}
    BY Zenon DEF PendingExact
  <2>1. Range(pending[p]) = {i \in DOMAIN sessions : /\ sessions[i].server = NoServer
                                                    /\ sessions[i].server_port = p}
    BY Zenon DEF TablesInv, PendingExact
  <2>2. Range(pending[p]) \cap spared = {i \in DOMAIN sessions' :
                                            /\ sessions'[i].server = NoServer
                                            /\ sessions'[i].server_port = p}
    BY Zenon, <1>1, <1>3, <2>1
  <2> QED
    BY Zenon, <1>2, <2>2
<1>6. SessionCeilings'
  <2>0. IsFiniteSet(DOMAIN sessions)
    <3>1. IsFiniteSet(SessionId)
      BY IpcAssumption, FS_Interval DEF SessionId
    <3> QED
      BY Zenon, <3>1, FS_Subset DEF TablesInv, TablesTyped
  <2>1. Cardinality(DOMAIN sessions') <= MAX_LIVE_SESSIONS
    <3>1. DOMAIN sessions' \in SUBSET DOMAIN sessions
      BY Zenon, <1>1
    <3>2. /\ IsFiniteSet(DOMAIN sessions')
          /\ Cardinality(DOMAIN sessions') <= Cardinality(DOMAIN sessions)
      BY Zenon, <2>0, <3>1, FS_Subset
    <3>3. Cardinality(DOMAIN sessions') \in Nat /\ Cardinality(DOMAIN sessions) \in Nat
      BY Zenon, <2>0, <3>2, FS_CardinalityType
    <3> QED
      BY <3>2, <3>3, IpcAssumption DEF TablesInv, SessionCeilings
  <2>2. ASSUME NEW t \in ThreadId
        PROVE  Cardinality({i \in DOMAIN sessions' : sessions'[i].owner = t}) <= MAX_SESSIONS_PER_OWNER
    <3> DEFINE own == {i \in DOMAIN sessions : sessions[i].owner = t}
               left == {i \in DOMAIN sessions' : sessions'[i].owner = t}
    <3>1. left \in SUBSET own
      BY Zenon, <1>1
    <3>2. IsFiniteSet(own)
      BY Zenon, <2>0, FS_Subset
    <3>3. IsFiniteSet(left) /\ Cardinality(left) <= Cardinality(own)
      BY Zenon, <3>1, <3>2, FS_Subset
    <3>4. Cardinality(left) \in Nat /\ Cardinality(own) \in Nat
      BY Zenon, <3>2, <3>3, FS_CardinalityType
    <3>5. Cardinality(own) <= MAX_SESSIONS_PER_OWNER
      BY Zenon DEF TablesInv, SessionCeilings
    <3> QED
      BY <3>3, <3>4, <3>5, IpcAssumption
  <2> QED
    BY Zenon, <2>1, <2>2 DEF SessionCeilings
<1>7. IdsHandedOut' /\ LanesOwn'
  BY Zenon, <1>1 DEF TablesInv, IdsHandedOut, LanesOwn
<1> QED
  BY Zenon, <1>1, <1>2, <1>4, <1>5, <1>6, <1>7 DEF TablesInv

-----------------------------------------------------------------------------
(* A participant's role, from the two fields role_of compares.             *)
LEMMA RoleFacts ==
    ASSUME NEW id, NEW t
    PROVE  Participant(id, t) <=>
              /\ id \in DOMAIN sessions
              /\ \/ role_of(sessions[id], t) = "Owner" /\ sessions[id].owner = t
                 \/ role_of(sessions[id], t) = "Server" /\ sessions[id].owner # t /\ sessions[id].server = t
  BY Zenon DEF Participant, role_of, Role

(* The four calls that change one session in place.                        *)
LEMMA SendKeeps ==
    ASSUME TablesInv, NEW id, NEW t \in ThreadId, session_send(id, t, t)
    PROVE  TablesInv'
<1> DEFINE role == role_of(sessions[id], t)
           lanes == [sessions[id].lane EXCEPT ![role] = Append(@, t)]
           new == [sessions[id] EXCEPT !.lane = lanes]
<1>1. id \in DOMAIN sessions /\ role \in Role
  BY Zenon DEF session_send, Participant
<1>2. sessions[id] \in Session(ThreadId) /\ \A r \in Role : Len(sessions[id].lane[r]) <= CHANNEL_CAPACITY
  BY Zenon, <1>1 DEF TablesInv, TablesTyped, SessionTyped
<1>3. sessions' = [sessions EXCEPT ![id] = new] /\ UNCHANGED <<pending, NEXT_SESSION_ID>>
  BY Zenon DEF session_send
<1>4. sessions[id].lane \in [Role -> Seq(ThreadId)] /\ Len(sessions[id].lane[role]) < CHANNEL_CAPACITY
  BY Zenon, <1>2 DEF Session, session_send
<1>5. /\ lanes \in [Role -> Seq(ThreadId)]
      /\ lanes[role] = Append(sessions[id].lane[role], t)
      /\ \A r \in Role : r # role => lanes[r] = sessions[id].lane[r]
  BY SMTT(30), <1>1, <1>4
<1>6. /\ new \in Session(ThreadId) /\ new.lane = lanes
      /\ new.owner = sessions[id].owner /\ new.server = sessions[id].server
      /\ new.server_port = sessions[id].server_port
  BY ZenonT(30), <1>2, <1>5 DEF Session
<1>7. Range(lanes[role]) = Range(sessions[id].lane[role]) \cup {t}
  BY <1>1, <1>4, <1>5, AppendFacts
<1>8. /\ Range(sessions[id].lane["Owner"]) \subseteq {sessions[id].owner}
      /\ Range(sessions[id].lane["Server"]) \subseteq {sessions[id].server} \ {sessions[id].owner}
  BY Zenon, <1>1 DEF TablesInv, LanesOwn
<1>9. \/ role = "Owner" /\ sessions[id].owner = t
      \/ role = "Server" /\ sessions[id].owner # t /\ sessions[id].server = t
  BY Zenon, RoleFacts DEF session_send
<1>10. /\ Range(lanes["Owner"]) \subseteq {new.owner}
       /\ Range(lanes["Server"]) \subseteq {new.server} \ {new.owner}
  BY ZenonT(30), <1>5, <1>6, <1>7, <1>8, <1>9 DEF Role
<1>11. SessionTyped(new)
  <2>1. Len(lanes[role]) <= CHANNEL_CAPACITY
    BY <1>1, <1>4, <1>5, IpcAssumption
  <2> QED
    BY Zenon, <1>2, <1>5, <1>6, <2>1 DEF SessionTyped
<1> HIDE DEF new, lanes
<1> QED
  BY ZenonT(30), <1>1, <1>3, <1>6, <1>10, <1>11, OneSessionKeeps

(* session_try_recv: taking the oldest message of the peer's lane keeps   *)
(* the tables sound.                                                       *)
LEMMA RecvKeeps ==
    ASSUME TablesInv, NEW id, NEW t \in ThreadId, session_try_recv(id, t)
    PROVE  TablesInv'
<1> DEFINE from == Peer(role_of(sessions[id], t))
           lanes == [sessions[id].lane EXCEPT ![from] = Tail(@)]
           new == [sessions[id] EXCEPT !.lane = lanes]
<1>1. id \in DOMAIN sessions /\ from \in Role
  BY Zenon DEF session_try_recv, Participant, Peer, Role
<1>2. sessions[id] \in Session(ThreadId) /\ \A r \in Role : Len(sessions[id].lane[r]) <= CHANNEL_CAPACITY
  BY Zenon, <1>1 DEF TablesInv, TablesTyped, SessionTyped
<1>3. sessions' = [sessions EXCEPT ![id] = new] /\ UNCHANGED <<pending, NEXT_SESSION_ID>>
  BY Zenon DEF session_try_recv
<1>4. sessions[id].lane \in [Role -> Seq(ThreadId)] /\ sessions[id].lane[from] # <<>>
  BY Zenon, <1>2 DEF Session, session_try_recv
<1>5. /\ lanes \in [Role -> Seq(ThreadId)]
      /\ lanes[from] = Tail(sessions[id].lane[from])
      /\ Len(lanes[from]) <= CHANNEL_CAPACITY
      /\ \A r \in Role : r # from => lanes[r] = sessions[id].lane[r]
  BY SMTT(30), <1>1, <1>2, <1>4, IpcAssumption
<1>6. /\ new \in Session(ThreadId) /\ new.lane = lanes
      /\ new.owner = sessions[id].owner /\ new.server = sessions[id].server
      /\ new.server_port = sessions[id].server_port
  BY ZenonT(30), <1>2, <1>5 DEF Session
<1>7. Range(lanes[from]) \subseteq Range(sessions[id].lane[from])
  BY <1>1, <1>4, <1>5 DEF Range
<1>8. /\ Range(sessions[id].lane["Owner"]) \subseteq {sessions[id].owner}
      /\ Range(sessions[id].lane["Server"]) \subseteq {sessions[id].server} \ {sessions[id].owner}
  BY Zenon, <1>1 DEF TablesInv, LanesOwn
<1>9. /\ Range(lanes["Owner"]) \subseteq {new.owner}
      /\ Range(lanes["Server"]) \subseteq {new.server} \ {new.owner}
  BY ZenonT(30), <1>1, <1>5, <1>6, <1>7, <1>8 DEF Role
<1>10. SessionTyped(new)
  BY Zenon, <1>2, <1>5, <1>6 DEF SessionTyped
<1> HIDE DEF new, lanes
<1> QED
  BY ZenonT(30), <1>1, <1>3, <1>6, <1>9, <1>10, OneSessionKeeps

(* session_begin_send and session_end_send only touch the caller's lock.   *)
LEMMA LockKeeps ==
    ASSUME TablesInv, NEW id, NEW t \in ThreadId, NEW set \in BOOLEAN,
           Participant(id, t),
           sessions' = [sessions EXCEPT ![id].locked[role_of(sessions[id], t)] = set],
           UNCHANGED <<pending, NEXT_SESSION_ID>>
    PROVE  TablesInv'
<1> DEFINE role == role_of(sessions[id], t)
           locks == [sessions[id].locked EXCEPT ![role] = set]
           new == [sessions[id] EXCEPT !.locked = locks]
<1>1. id \in DOMAIN sessions /\ role \in Role
  BY Zenon DEF Participant
<1>2. sessions[id] \in Session(ThreadId) /\ \A r \in Role : Len(sessions[id].lane[r]) <= CHANNEL_CAPACITY
  BY Zenon, <1>1 DEF TablesInv, TablesTyped, SessionTyped
<1>3. sessions' = [sessions EXCEPT ![id] = new]
  BY Zenon
<1>4. locks \in [Role -> BOOLEAN]
  BY Zenon, <1>1, <1>2 DEF Session
<1>5. /\ new \in Session(ThreadId) /\ new.lane = sessions[id].lane
      /\ new.owner = sessions[id].owner /\ new.server = sessions[id].server
      /\ new.server_port = sessions[id].server_port
  BY ZenonT(30), <1>2, <1>4 DEF Session
<1>6. /\ Range(new.lane["Owner"]) \subseteq {new.owner}
      /\ Range(new.lane["Server"]) \subseteq {new.server} \ {new.owner}
  BY Zenon, <1>1, <1>5 DEF TablesInv, LanesOwn
<1>7. SessionTyped(new)
  BY Zenon, <1>2, <1>5 DEF SessionTyped
<1> HIDE DEF new
<1> QED
  BY ZenonT(30), <1>1, <1>3, <1>5, <1>6, <1>7, OneSessionKeeps

-----------------------------------------------------------------------------
(* Each kernel step is a step of the scheduler or leaves it alone: a wait  *)
(* inside a syscall is to it what a tick is.                               *)
LEMMA KernelStepIsSchedulers == KernelNext => [SchedNext]_schedVars
<1> SUFFICES ASSUME KernelNext PROVE SchedNext \/ UNCHANGED schedVars
  BY Zenon
<1>1. reschedule /\ UNCHANGED pc => SchedNext
  BY Zenon DEF SchedNext, on_timer_tick
<1>2. CASE Spawn
  BY ZenonT(30), <1>2 DEF Spawn, SchedNext
<1>3. CASE Push
  BY Zenon, <1>3 DEF Push, SchedNext
<1>4. CASE SYS_YIELD \/ Tick
  BY Zenon, <1>1, <1>4 DEF SYS_YIELD, Tick, Switch
<1>5. CASE Exit \/ ExitInt
  BY Zenon, <1>5 DEF Exit, ExitInt, SchedNext
<1>6. ASSUME NEW p \in Port, PortCall(p)
      PROVE  SchedNext \/ UNCHANGED schedVars
  BY Zenon, <1>1, <1>6 DEF PortCall, SYS_IPC_SEND, SYS_IPC_SEND_LOCK, SYS_IPC_SEND_UNLOCK, SYS_IPC_RECV,
                    SYS_IPC_SESSION_OPEN, SYS_IPC_SESSION_ACCEPT, Returns, Waits, Quick, Switch
<1>7. ASSUME NEW id \in SessionId, SessionCall(id)
      PROVE  SchedNext \/ UNCHANGED schedVars
  BY Zenon, <1>1, <1>7 DEF SessionCall, SYS_IPC_SESSION_SEND, SYS_IPC_SESSION_SEND_LOCK,
                    SYS_IPC_SESSION_SEND_UNLOCK, SYS_IPC_SESSION_RECV, Returns, Waits, Quick, Switch
<1>8. ASSUME NEW token \in Revocable, Revoke(token)
      PROVE  UNCHANGED schedVars
  BY Zenon, <1>8 DEF Revoke
<1> QED
  BY Zenon, <1>2, <1>3, <1>4, <1>5, <1>6, <1>7, <1>8 DEF KernelNext

(* What a step must respect for the waits on locks: a new wait is for a    *)
(* lane the thread holds, no id comes back, and a lane that a waiting      *)
(* thread holds stays held.                                                *)
LEMMA LockWaitsKeep ==
    ASSUME KernelInv, NEXT_SESSION_ID' \in Nat, NEXT_SESSION_ID <= NEXT_SESSION_ID',
           \A t \in ThreadId : WaitsForLock(call'[t]) =>
               \/ call'[t] = call[t]
               \/ call'[t].arg \in SessionId /\ HoldsLane(call'[t].arg, t),
           \A id \in DOMAIN sessions' : id < NEXT_SESSION_ID => id \in DOMAIN sessions,
           \A t \in ThreadId, id \in DOMAIN sessions \cap DOMAIN sessions' :
               WaitsForLock(call'[t]) /\ call'[t].arg = id /\ HoldsLane(id, t) => HoldsLane(id, t)'
    PROVE  LockWaitsOnSelf'
<1> SUFFICES ASSUME NEW t \in ThreadId, WaitsForLock(call'[t])
             PROVE  /\ call'[t].arg \in SessionId /\ call'[t].arg < NEXT_SESSION_ID'
                    /\ call'[t].arg \in DOMAIN sessions' =>
                          \E id \in DOMAIN sessions' : id = call'[t].arg /\ HoldsLane(id, t)'
  BY Zenon DEF LockWaitsOnSelf, WaitsForLock, HoldsLane, Participant
<1> DEFINE id == call'[t].arg
<1>1. NEXT_SESSION_ID \in Nat /\ SessionId \subseteq Nat
  BY DEF KernelInv, TablesInv, TablesTyped, SessionId
<1>2. id \in SessionId /\ id < NEXT_SESSION_ID /\ (id \in DOMAIN sessions => HoldsLane(id, t))
  <2>1. CASE call'[t] = call[t]
    BY Zenon, <2>1 DEF KernelInv, LockWaitsOnSelf
  <2>2. CASE call'[t].arg \in SessionId /\ HoldsLane(call'[t].arg, t)
    BY Zenon, <2>2 DEF KernelInv, TablesInv, IdsHandedOut, HoldsLane, Participant
  <2> QED
    BY Zenon, <2>1, <2>2
<1>3. id < NEXT_SESSION_ID'
  <2> HIDE DEF id
  <2>1. id \in Nat
    BY Zenon, <1>1, <1>2
  <2> QED
    BY <1>1, <1>2, <2>1
<1>4. ASSUME id \in DOMAIN sessions'
      PROVE  \E i \in DOMAIN sessions' : i = id /\ HoldsLane(i, t)'
  BY Zenon, <1>2, <1>4
<1> QED
  BY Zenon, <1>2, <1>3, <1>4

(* A step that leaves the tables alone and unmaps no stack.                *)
LEMMA QuietKeeps ==
    ASSUME KernelInv, SchedInv', UNCHANGED sessionVars, PortsTyped',
           stack \subseteq stack', revoked' \subseteq Revocable,
           call' = call \/ call' = [call EXCEPT ![current] = NoCall]
    PROVE  KernelInv'
<1>1. UNCHANGED <<sessions, pending, NEXT_SESSION_ID>>
  BY Zenon DEF sessionVars
<1>2. TablesInv'
  BY ZenonT(30), <1>1 DEF KernelInv, TablesInv, TablesTyped, SessionTyped, PendingExact, SessionCeilings, IdsHandedOut, LanesOwn
<1>3. NoOrphanSession'
  BY Zenon, <1>1 DEF KernelInv, NoOrphanSession
<1>4. call' \in [ThreadId -> Call]
  BY Zenon DEF KernelInv, Call
<1>5. LockWaitsOnSelf'
  <2>1. \A t \in ThreadId : WaitsForLock(call'[t]) => call'[t] = call[t]
    BY DEF NoCall, KernelInv, WaitsForLock
  <2>2. NEXT_SESSION_ID' \in Nat /\ NEXT_SESSION_ID <= NEXT_SESSION_ID'
    BY <1>1 DEF KernelInv, TablesInv, TablesTyped
  <2>3. \A t, id : HoldsLane(id, t) => HoldsLane(id, t)'
    BY Zenon, <1>1 DEF HoldsLane, Participant
  <2> QED
    BY Zenon, <1>1, <2>1, <2>2, <2>3, LockWaitsKeep
<1> QED
  BY Zenon, <1>2, <1>3, <1>4, <1>5 DEF KernelInv

(* A context switch, and the wait that brought it about if there is one.   *)
LEMMA SwitchKeeps ==
    ASSUME KernelInv, SchedInv', reap_sessions_for(Range(zombies)), stack' = stack \ Range(zombies),
           UNCHANGED <<portVars, revoked>>,
           \/ call' = call
           \/ \E c \in Call : /\ call' = [call EXCEPT ![current] = c]
                              /\ WaitsForLock(c) => c.arg \in SessionId /\ HoldsLane(c.arg, current)
    PROVE  KernelInv'
<1>0. Range(zombies) \subseteq ThreadId
  <2>1. zombies \in Seq(ThreadId)
    BY Zenon DEF KernelInv, SchedInv, SchedTypeOK
  <2> QED
    BY Zenon, <2>1, RangeOfSeq
<1>1. /\ TablesInv'
      /\ DOMAIN sessions' \subseteq DOMAIN sessions
      /\ \A id \in DOMAIN sessions' : /\ sessions'[id] = sessions[id]
                                      /\ sessions[id].owner \notin Range(zombies)
                                      /\ sessions[id].server \notin Range(zombies)
  BY Zenon, <1>0, ReapKeeps DEF KernelInv
<1>2. PortsTyped'
  BY Zenon DEF KernelInv, PortsTyped, portVars
<1>3. NoOrphanSession'
  BY <1>1 DEF KernelInv, NoOrphanSession
<1>4. call' \in [ThreadId -> Call]
  BY Zenon DEF KernelInv
<1>5. LockWaitsOnSelf'
  <2>1. NEXT_SESSION_ID' \in Nat /\ NEXT_SESSION_ID <= NEXT_SESSION_ID'
    BY SMTT(30) DEF KernelInv, TablesInv, TablesTyped, reap_sessions_for
  <2>2. \A t, id : id \in DOMAIN sessions' /\ HoldsLane(id, t) => HoldsLane(id, t)'
    BY Zenon, <1>1 DEF HoldsLane, Participant
  <2>3. \A t \in ThreadId : WaitsForLock(call'[t]) =>
               \/ call'[t] = call[t]
               \/ call'[t].arg \in SessionId /\ HoldsLane(call'[t].arg, t)
    BY Zenon DEF KernelInv
  <2> QED
    BY Zenon, <1>1, <2>1, <2>2, <2>3, LockWaitsKeep
<1> QED
  BY Zenon, <1>1, <1>2, <1>3, <1>4, <1>5 DEF KernelInv

(* A session call of the running thread that completes.                    *)
LEMMA SessionStepKeeps ==
    ASSUME KernelInv, TablesInv', NoOrphanSession', UNCHANGED <<portVars, schedVars, revoked>>,
           \/ call' = call /\ call[current] = NoCall
           \/ call' = [call EXCEPT ![current] = NoCall],
           NEXT_SESSION_ID' \in Nat, NEXT_SESSION_ID <= NEXT_SESSION_ID',
           \A id \in DOMAIN sessions' : id < NEXT_SESSION_ID => id \in DOMAIN sessions,
           \A t \in ThreadId \ {current}, id \in DOMAIN sessions \cap DOMAIN sessions' :
               HoldsLane(id, t) => HoldsLane(id, t)'
    PROVE  KernelInv'
<1>1. SchedInv'
  <2> QED
    BY Zenon, NextInv DEF KernelInv
<1>2. PortsTyped'
  BY Zenon DEF KernelInv, PortsTyped, portVars
<1>3. call' \in [ThreadId -> Call]
  BY Zenon DEF KernelInv, Call
<1>4. LockWaitsOnSelf'
  <2>1. \A t \in ThreadId : WaitsForLock(call'[t]) => call'[t] = call[t] /\ t # current
    BY DEF NoCall, KernelInv, WaitsForLock
  <2> QED
    BY Zenon, <2>1, LockWaitsKeep
<1> QED
  BY Zenon, <1>1, <1>2, <1>3, <1>4 DEF KernelInv

(* Every step of the kernel keeps the invariant.                           *)
LEMMA KernelInvNext == KernelInv /\ [KernelNext]_kernelVars => KernelInv'
<1> SUFFICES ASSUME KernelInv, [KernelNext]_kernelVars PROVE KernelInv'
  BY Zenon
<1>0. SchedInv'
  <2>1. [SchedNext]_schedVars
    BY Zenon, KernelStepIsSchedulers DEF kernelVars
  <2> QED
    BY Zenon, <2>1, NextInv DEF KernelInv
<1>1. /\ current \in ThreadId /\ current \in stack
      /\ call \in [ThreadId -> Call] /\ NoCall \in Call /\ ~WaitsForLock(NoCall)
  BY Zenon DEF KernelInv, SchedInv, SchedTypeOK, StacksMatchThreads, Runnable, Call, NoCall, WaitsForLock
<1>2. UNCHANGED <<queue, send_lock>> => PortsTyped'
  BY Zenon DEF KernelInv, PortsTyped
<1>3. CASE UNCHANGED kernelVars
  BY Zenon, <1>0, <1>2, <1>3, QuietKeeps DEF kernelVars, ipcVars, sessionVars, schedVars, KernelInv
<1>4. CASE Spawn \/ Push \/ Exit
  <2>1. UNCHANGED <<ipcVars, call, revoked>> /\ stack \subseteq stack'
    BY ZenonT(30), <1>4 DEF Spawn, Push, Exit, Thread_new, push_thread, exit_current_thread
  <2> QED
    BY Zenon, <1>0, <1>2, <2>1, QuietKeeps DEF ipcVars, sessionVars, KernelInv
<1>5. CASE SYS_YIELD \/ Tick \/ ExitInt
  <2>1. /\ reap_sessions_for(Range(zombies)) /\ stack' = stack \ Range(zombies)
        /\ UNCHANGED <<portVars, revoked>> /\ call' = call
    BY Zenon, <1>5 DEF SYS_YIELD, Tick, ExitInt, exit_int, Switch, reschedule, reap_zombies
  <2> QED
    BY Zenon, <1>0, <2>1, SwitchKeeps
<1>6. ASSUME NEW c \in Call, Waits(c),
             WaitsForLock(c) => c.arg \in SessionId /\ HoldsLane(c.arg, current)
      PROVE  KernelInv'
  <2>1. /\ reap_sessions_for(Range(zombies)) /\ stack' = stack \ Range(zombies)
        /\ UNCHANGED <<portVars, revoked>> /\ call' = [call EXCEPT ![current] = c]
    BY Zenon, <1>6 DEF Waits, Switch, reschedule, reap_zombies
  <2> QED
    BY ZenonT(30), <1>0, <1>6, <2>1, SwitchKeeps
<1>7. ASSUME UNCHANGED <<sessionVars, schedVars, revoked>>, PortsTyped',
             call' = call \/ call' = [call EXCEPT ![current] = NoCall]
      PROVE  KernelInv'
  BY Zenon, <1>0, <1>7, QuietKeeps DEF schedVars, KernelInv
<1>8. ASSUME NEW p \in Port, PortCall(p)
      PROVE  KernelInv'
  <2> USE IpcAssumption DEF Returns
  <2>0. /\ queue \in [Port -> Seq(ThreadId)] /\ send_lock \in [Port -> BOOLEAN]
        /\ Len(queue[p]) <= CHANNEL_CAPACITY /\ Len(queue[p]) \in Nat
    BY SMTT(30), <1>8 DEF KernelInv, PortsTyped
  <2>1. CASE SYS_IPC_SEND(p)
    <3> DEFINE c == [op |-> "SYS_IPC_SEND", arg |-> p]
    <3>1. c \in Call /\ ~WaitsForLock(c)
      BY Zenon DEF Call, Blocking, WaitsForLock
    <3>2. CASE send(p, current) /\ UNCHANGED sessionVars /\ Returns
      <4>1. PortsTyped'
        BY SMTT(30), <1>1, <1>8, <2>0, <3>2 DEF send, KernelInv, PortsTyped
      <4> QED
        BY Zenon, <1>7, <3>2, <4>1
    <3> QED
      BY Zenon, <1>6, <2>1, <3>1, <3>2 DEF SYS_IPC_SEND
  <2>2. CASE SYS_IPC_SEND_LOCK(p)
    <3> DEFINE c == [op |-> "SYS_IPC_SEND_LOCK", arg |-> p]
    <3>1. c \in Call /\ ~WaitsForLock(c)
      BY Zenon DEF Call, Blocking, WaitsForLock
    <3>2. CASE begin_send(p) /\ UNCHANGED sessionVars /\ Returns
      <4>1. PortsTyped'
        BY Zenon, <3>2 DEF begin_send, KernelInv, PortsTyped
      <4> QED
        BY Zenon, <1>7, <3>2, <4>1
    <3> QED
      BY Zenon, <1>6, <2>2, <3>1, <3>2 DEF SYS_IPC_SEND_LOCK
  <2>3. CASE SYS_IPC_SEND_UNLOCK(p)
    <3>1. PortsTyped'
      BY Zenon, <2>3 DEF SYS_IPC_SEND_UNLOCK, end_send, KernelInv, PortsTyped
    <3> QED
      BY Zenon, <1>7, <2>3, <3>1 DEF SYS_IPC_SEND_UNLOCK, Quick
  <2>4. CASE SYS_IPC_RECV(p)
    <3>1. PortsTyped'
      BY SMTT(30), <2>0, <2>4 DEF SYS_IPC_RECV, try_recv, KernelInv, PortsTyped
    <3> QED
      BY Zenon, <1>7, <2>4, <3>1 DEF SYS_IPC_RECV, Quick
  <2>5. CASE SYS_IPC_SESSION_OPEN(p)
    <3>1. /\ session_open(p, current) /\ UNCHANGED <<portVars, schedVars, call, revoked>>
          /\ call[current] = NoCall
      BY Zenon, <2>5 DEF SYS_IPC_SESSION_OPEN, Quick, InThread
    <3>2. TablesInv'
      BY Zenon, <1>1, <3>1, OpenKeeps DEF KernelInv
    <3>3. /\ DOMAIN sessions' = DOMAIN sessions \cup {NEXT_SESSION_ID}
          /\ NEXT_SESSION_ID \notin DOMAIN sessions
          /\ \A id \in DOMAIN sessions : sessions'[id] = sessions[id]
          /\ NEXT_SESSION_ID \in Nat /\ NEXT_SESSION_ID' = NEXT_SESSION_ID + 1
          /\ sessions'[NEXT_SESSION_ID].owner = current
          /\ sessions'[NEXT_SESSION_ID].server = NoServer
      BY SMTT(30), <3>1 DEF session_open, NewSession, KernelInv, TablesInv, TablesTyped, IdsHandedOut, SessionId
    <3>4. NoOrphanSession'
      <4>1. stack' = stack
        BY Zenon, <3>1 DEF schedVars
      <4>2. \A id \in DOMAIN sessions :
                {sessions'[id].owner, sessions'[id].server} \subseteq stack \cup {NoServer}
        BY Zenon, <3>3 DEF KernelInv, NoOrphanSession
      <4>3. {sessions'[NEXT_SESSION_ID].owner, sessions'[NEXT_SESSION_ID].server}
                \subseteq stack \cup {NoServer}
        BY Zenon, <1>1, <3>3
      <4> QED
        BY Zenon, <3>3, <4>1, <4>2, <4>3 DEF NoOrphanSession
    <3>5. \A t, id : id \in DOMAIN sessions /\ HoldsLane(id, t) => HoldsLane(id, t)'
      BY Zenon, <3>3 DEF HoldsLane, Participant
    <3> QED
      BY SMTT(30), <3>1, <3>2, <3>3, <3>4, <3>5, SessionStepKeeps
  <2>6. CASE SYS_IPC_SESSION_ACCEPT(p)
    <3>1. /\ session_accept(p, current) /\ UNCHANGED <<portVars, schedVars, call, revoked>>
          /\ call[current] = NoCall
      BY Zenon, <2>6 DEF SYS_IPC_SESSION_ACCEPT, Quick, InThread
    <3>2. TablesInv'
      BY Zenon, <1>1, <3>1, AcceptKeeps DEF KernelInv
    <3>3. PICK id \in DOMAIN sessions :
                 /\ sessions[id].server = NoServer
                 /\ sessions' = [sessions EXCEPT ![id].server = current]
                 /\ NEXT_SESSION_ID' = NEXT_SESSION_ID
      BY ZenonT(30), <1>1, <3>1, AcceptFacts DEF KernelInv
    <3>4. sessions[id] \in Session(ThreadId)
      BY Zenon DEF KernelInv, TablesInv, TablesTyped, SessionTyped
    <3>5. /\ DOMAIN sessions' = DOMAIN sessions
          /\ \A i \in DOMAIN sessions : i # id => sessions'[i] = sessions[i]
          /\ sessions'[id].owner = sessions[id].owner /\ sessions'[id].server = current
          /\ sessions'[id].locked = sessions[id].locked
      BY Zenon, <3>3, <3>4 DEF Session
    <3>6. NoOrphanSession'
      BY ZenonT(30), <1>1, <3>1, <3>5 DEF KernelInv, NoOrphanSession, schedVars
    <3>7. ASSUME NEW t \in ThreadId \ {current}, NEW i \in DOMAIN sessions, HoldsLane(i, t)
          PROVE  HoldsLane(i, t)'
      <4>1. CASE i # id
        BY Zenon, <3>5, <3>7, <4>1 DEF HoldsLane, Participant
      <4>2. CASE i = id
        <5>1. t # NoServer
          BY MaxThreadsAssumption DEF ThreadId, NoServer
        <5>2. sessions[id].owner = t /\ role_of(sessions[id], t) = "Owner" /\ sessions[id].locked["Owner"]
          BY Zenon, <3>3, <3>7, <4>2, <5>1, RoleFacts DEF HoldsLane
        <5>3. role_of(sessions'[id], t) = "Owner"
          BY Zenon, <3>5, <5>2 DEF role_of
        <5> QED
          BY Zenon, <3>5, <4>2, <5>2, <5>3 DEF HoldsLane, Participant, Role
      <4> QED
        BY Zenon, <4>1, <4>2
    <3>8. NEXT_SESSION_ID \in Nat
      BY DEF KernelInv, TablesInv, TablesTyped
    <3> QED
      BY <3>1, <3>2, <3>3, <3>5, <3>6, <3>7, <3>8, SessionStepKeeps
  <2> QED
    BY Zenon, <1>8, <2>1, <2>2, <2>3, <2>4, <2>5, <2>6 DEF PortCall
<1>9. ASSUME NEW id \in SessionId, SessionCall(id)
      PROVE  KernelInv'
  <2> DEFINE role == role_of(sessions[id], current)
  <2> USE DEF Returns
  <2>0. NEXT_SESSION_ID \in Nat
    BY SMTT(30) DEF KernelInv, TablesInv, TablesTyped
  <2>1. ASSUME TablesInv', UNCHANGED <<portVars, schedVars, revoked, NEXT_SESSION_ID>>,
               \/ call' = call /\ call[current] = NoCall
               \/ call' = [call EXCEPT ![current] = NoCall],
               DOMAIN sessions' = DOMAIN sessions,
               \A i \in DOMAIN sessions : /\ sessions'[i].owner = sessions[i].owner
                                         /\ sessions'[i].server = sessions[i].server,
               \A t \in ThreadId \ {current}, i \in DOMAIN sessions :
                   HoldsLane(i, t) => sessions'[i].locked[role_of(sessions[i], t)]
        PROVE  KernelInv'
    <3>1. NoOrphanSession'
      BY <2>1 DEF KernelInv, NoOrphanSession, schedVars
    <3>2. \A t, i : i \in DOMAIN sessions => role_of(sessions'[i], t) = role_of(sessions[i], t)
      BY Zenon, <2>1 DEF role_of
    <3>3. \A t \in ThreadId \ {current}, i \in DOMAIN sessions : HoldsLane(i, t) => HoldsLane(i, t)'
      BY Zenon, <2>1, <3>2 DEF HoldsLane, Participant
    <3> QED
      BY SMTT(30), <2>0, <2>1, <3>1, <3>3, SessionStepKeeps
  <2>2. ASSUME Participant(id, current), NEW new,
               sessions' = [sessions EXCEPT ![id] = [sessions[id] EXCEPT !.lane = new]]
        PROVE  /\ DOMAIN sessions' = DOMAIN sessions
               /\ \A i \in DOMAIN sessions : /\ sessions'[i].owner = sessions[i].owner
                                             /\ sessions'[i].server = sessions[i].server
                                             /\ sessions'[i].locked = sessions[i].locked
    <3>1. sessions[id] \in Session(ThreadId)
      BY Zenon, <2>2 DEF KernelInv, TablesInv, TablesTyped, SessionTyped, Participant
    <3> QED
      BY Zenon, <2>2, <3>1 DEF Session
  <2>3. ASSUME Participant(id, current), NEW set \in BOOLEAN,
               sessions' = [sessions EXCEPT ![id].locked[role] = set]
        PROVE  /\ DOMAIN sessions' = DOMAIN sessions
               /\ \A i \in DOMAIN sessions : /\ sessions'[i].owner = sessions[i].owner
                                             /\ sessions'[i].server = sessions[i].server
               /\ \A t \in ThreadId \ {current}, i \in DOMAIN sessions :
                      HoldsLane(i, t) => sessions'[i].locked[role_of(sessions[i], t)]
    <3>1. sessions[id] \in Session(ThreadId)
      BY Zenon, <2>3 DEF KernelInv, TablesInv, TablesTyped, SessionTyped, Participant
    <3>2. /\ DOMAIN sessions' = DOMAIN sessions
          /\ \A i \in DOMAIN sessions : i # id => sessions'[i] = sessions[i]
          /\ sessions'[id].owner = sessions[id].owner /\ sessions'[id].server = sessions[id].server
          /\ sessions'[id].locked = [sessions[id].locked EXCEPT ![role] = set]
      BY ZenonT(30), <2>3, <3>1 DEF Session, Participant
    <3>3. ASSUME NEW t \in ThreadId \ {current}, HoldsLane(id, t)
          PROVE  sessions'[id].locked[role_of(sessions[id], t)]
      <4>1. role_of(sessions[id], t) # role
        BY Zenon, <2>3, <3>3, RoleFacts DEF HoldsLane
      <4>2. sessions[id].locked \in [Role -> BOOLEAN] /\ role_of(sessions[id], t) \in Role
        BY Zenon, <3>1, <3>3 DEF Session, HoldsLane, Participant
      <4> QED
        BY Zenon, <3>2, <3>3, <4>1, <4>2 DEF HoldsLane
    <3> QED
      BY ZenonT(30), <3>2, <3>3 DEF HoldsLane
  <2>4. CASE SYS_IPC_SESSION_SEND(id)
    <3> DEFINE c == [op |-> "SYS_IPC_SESSION_SEND", arg |-> id]
    <3>1. c \in Call /\ ~WaitsForLock(c)
      BY Zenon DEF Call, Blocking, WaitsForLock
    <3>2. CASE session_send(id, current, current) /\ UNCHANGED portVars /\ Returns
      <4>1. TablesInv'
        BY Zenon, <1>1, <3>2, SendKeeps DEF KernelInv
      <4>2. /\ DOMAIN sessions' = DOMAIN sessions
            /\ \A i \in DOMAIN sessions : /\ sessions'[i].owner = sessions[i].owner
                                          /\ sessions'[i].server = sessions[i].server
                                          /\ sessions'[i].locked = sessions[i].locked
        BY Zenon, <2>2, <3>2 DEF session_send
      <4> QED
        BY Zenon, <2>1, <3>2, <4>1, <4>2 DEF session_send, HoldsLane
    <3>3. CASE UNCHANGED ipcVars /\ Returns
      BY Zenon, <1>2, <1>7, <3>3 DEF ipcVars, sessionVars
    <3> QED
      BY Zenon, <1>6, <2>4, <3>1, <3>2, <3>3 DEF SYS_IPC_SESSION_SEND
  <2>5. CASE SYS_IPC_SESSION_SEND_LOCK(id)
    <3> DEFINE c == [op |-> "SYS_IPC_SESSION_SEND_LOCK", arg |-> id]
    <3>1. c \in Call /\ c.arg = id
      BY Zenon DEF Call, Blocking
    <3>2. CASE session_begin_send(id, current) /\ UNCHANGED portVars /\ Returns
      <4>1. Participant(id, current) /\ sessions' = [sessions EXCEPT ![id].locked[role] = TRUE]
            /\ UNCHANGED <<pending, NEXT_SESSION_ID>>
        BY Zenon, <3>2 DEF session_begin_send
      <4>2. TablesInv'
        BY ZenonT(30), <1>1, <4>1, LockKeeps DEF KernelInv
      <4> QED
        BY ZenonT(30), <2>1, <2>3, <3>2, <4>1, <4>2
    <3>3. CASE UNCHANGED ipcVars /\ Returns
      BY Zenon, <1>2, <1>7, <3>3 DEF ipcVars, sessionVars
    <3>4. CASE Participant(id, current) /\ sessions[id].locked[role] /\ Waits(c)
      BY Zenon, <1>6, <3>1, <3>4 DEF HoldsLane
    <3> QED
      BY Zenon, <2>5, <3>2, <3>3, <3>4 DEF SYS_IPC_SESSION_SEND_LOCK
  <2>6. CASE SYS_IPC_SESSION_SEND_UNLOCK(id)
    <3>1. /\ Participant(id, current) /\ sessions' = [sessions EXCEPT ![id].locked[role] = FALSE]
          /\ UNCHANGED <<pending, NEXT_SESSION_ID, portVars, schedVars, call, revoked>>
          /\ call[current] = NoCall
      BY Zenon, <2>6 DEF SYS_IPC_SESSION_SEND_UNLOCK, session_end_send, Quick, InThread
    <3>2. TablesInv'
      BY ZenonT(30), <1>1, <3>1, LockKeeps DEF KernelInv
    <3> QED
      BY ZenonT(30), <2>1, <2>3, <3>1, <3>2
  <2>7. CASE SYS_IPC_SESSION_RECV(id)
    <3>1. /\ session_try_recv(id, current) /\ UNCHANGED <<portVars, schedVars, call, revoked>>
          /\ call[current] = NoCall
      BY Zenon, <2>7 DEF SYS_IPC_SESSION_RECV, Quick, InThread
    <3>2. TablesInv'
      BY Zenon, <1>1, <3>1, RecvKeeps DEF KernelInv
    <3>3. /\ DOMAIN sessions' = DOMAIN sessions
          /\ \A i \in DOMAIN sessions : /\ sessions'[i].owner = sessions[i].owner
                                        /\ sessions'[i].server = sessions[i].server
                                        /\ sessions'[i].locked = sessions[i].locked
      BY Zenon, <2>2, <3>1 DEF session_try_recv
    <3> QED
      BY Zenon, <2>1, <3>1, <3>2, <3>3 DEF session_try_recv, HoldsLane
  <2> QED
    BY Zenon, <1>9, <2>4, <2>5, <2>6, <2>7 DEF SessionCall
<1>10. ASSUME NEW token \in Revocable, Revoke(token)
       PROVE  KernelInv'
  BY Zenon, <1>0, <1>2, <1>10, QuietKeeps DEF Revoke, schedVars, ipcVars, sessionVars, KernelInv
<1> QED
  BY Zenon, <1>3, <1>4, <1>5, <1>8, <1>9, <1>10 DEF KernelNext

(* The invariant holds when the kernel starts its first thread.            *)
LEMMA KernelInvInit == KernelInit => KernelInv
<1> SUFFICES ASSUME KernelInit PROVE KernelInv
  BY Zenon
<1>0. SchedInv
  BY Zenon, InitInv DEF KernelInit
<1>1. Range(<<>>) = {} /\ NoRepeats(<<>>) /\ Cardinality({}) = 0 /\ DOMAIN sessions = {}
  BY FS_EmptySet DEF Range, NoRepeats, KernelInit, IpcInit
<1> USE IpcAssumption DEF KernelInit, IpcInit
<1>2. PortsTyped
  BY DEF PortsTyped
<1>3. TablesTyped /\ IdsHandedOut /\ LanesOwn /\ NoOrphanSession
  BY <1>1 DEF TablesTyped, SessionTyped, IdsHandedOut, LanesOwn, NoOrphanSession
<1>4. PendingExact
  BY Zenon, <1>1 DEF PendingExact
<1>5. SessionCeilings
  <2>1. \A t : {id \in DOMAIN sessions : sessions[id].owner = t} = {}
    BY Zenon, <1>1
  <2> QED
    BY <1>1, <2>1 DEF SessionCeilings
<1>6. LockWaitsOnSelf /\ call \in [ThreadId -> Call]
  BY Zenon DEF LockWaitsOnSelf, WaitsForLock, NoCall, Call
<1> QED
  BY Zenon, <1>0, <1>2, <1>3, <1>4, <1>5, <1>6 DEF KernelInv, TablesInv

(* The kernel's inductive invariant holds throughout.                      *)
THEOREM KernelInvariance == KernelSpec => []KernelInv
  BY KernelInvInit, KernelInvNext, PTL DEF KernelSpec

(* For any number of threads, ports and sessions and any interleaving of   *)
(* syscalls, ticks, exits and reaps, the session tables stay as            *)
(* SessionsSound says: session_open, session_accept, the session calls and *)
(* reap_sessions_for leave no session without its threads, no pending id   *)
(* that is dead, taken or missing, no ceiling exceeded and no lane that    *)
(* returns a thread its own bytes.                                         *)
THEOREM SessionsStaySound == KernelSpec => []SessionsSound
<1>1. KernelInv => SessionsSound
  <2> SUFFICES ASSUME KernelInv PROVE SessionsSound
    BY Zenon
  <2>1. KernelTypeOK
    BY Zenon DEF KernelInv, SchedInv, PortsTyped, TablesInv, TablesTyped, SessionTyped, KernelTypeOK
  <2>2. RecvIsPeers
    <3> SUFFICES ASSUME NEW id \in DOMAIN sessions, NEW t \in ThreadId, Participant(id, t)
                 PROVE  t \notin Range(sessions[id].lane[Peer(role_of(sessions[id], t))])
      BY Zenon DEF RecvIsPeers
    <3>1. /\ Range(sessions[id].lane["Owner"]) \subseteq {sessions[id].owner}
          /\ Range(sessions[id].lane["Server"]) \subseteq {sessions[id].server} \ {sessions[id].owner}
      BY Zenon DEF KernelInv, TablesInv, LanesOwn
    <3> QED
      BY Zenon, <3>1, RoleFacts DEF Peer
  <2> QED
    BY Zenon, <2>1, <2>2 DEF KernelInv, TablesInv, SessionsSound
<1> QED
  BY <1>1, KernelInvariance, PTL

(* With syscalls, the scheduler still keeps what it promises alone: a      *)
(* blocking call's yield_now, taken with the tick masked, is one of its    *)
(* own steps.                                                              *)
THEOREM KernelKeepsScheduler == KernelSpec => []SchedulerSound
<1>1. KernelInv => SchedulerSound
  BY Zenon DEF KernelInv, SchedInv, SchedulerSound
<1> QED
  BY <1>1, KernelInvariance, PTL
=============================================================================
