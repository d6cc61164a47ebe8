----------------------------- MODULE FatProofs -----------------------------
(***************************************************************************)
(* Proofs about the FAT32 volume: how far the copies of the FAT may drift  *)
(* apart, and that a device given up on is not written (Fat32); a long     *)
(* name is found when the directory has it (Lfn).                          *)
(***************************************************************************)
EXTENDS Fat32, Lfn, FiniteSetTheorems, WellFoundedInduction, TLAPS

(* The copies of the FAT and the quarantine (Fat32).  Every step but       *)
(* write_fat_entry's leaves the copies alone; write_fat_entry is where     *)
(* they differ.                                                            *)

(* The fields of the driver's locals, and of the FAT entry being written.  *)
CpuFields == {"pc", "proof", "pass", "good", "res", "at", "last", "new", "out", "want", "i",
              "fe", "ret", "back"}
EntryFields == {"cl", "val", "copy", "was"}

Locals(s) ==
    /\ DOMAIN s = CpuFields
    /\ DOMAIN s.fe = EntryFields

(* No copy of a FAT entry is written yet.                                  *)
Unwritten(s) == Locals(s) /\ s.fe.copy = 1

Copies(d) ==
    /\ "fat" \in DOMAIN d
    /\ DOMAIN d.fat = 1 .. NUM_FATS
    /\ \A k \in 1 .. NUM_FATS : DOMAIN d.fat[k] = 0 .. CLUSTERS

(* What a step outside write_fat_entry comes down to.                      *)
PlainStep ==
    \/ \E yes, no : Unwritten(yes) /\ Unwritten(no) /\ Reads(yes, no)
    \/ \E d, yes, no : /\ Copies(d) /\ d.fat = disk.fat
                       /\ Unwritten(yes) /\ Unwritten(no) /\ write_sector(d, yes, no)
    \/ \E s : Unwritten(s) /\ FatStep(s)
    \/ Unwritten(cpu') /\ UNCHANGED <<disk, fat_health, fat_late, faults, restarts>>

(* A proof starts with no entry half written.                              *)
LEMMA AtUnwritten ==
    ASSUME NEW n, NEW pass
    PROVE  Unwritten(At(n, pass))
<1> DEFINE s == At(n, pass)
<1>1. s.fe = NoEntry
    BY Zenon DEF At
<1>2. NoEntry.copy = 1 /\ DOMAIN NoEntry = EntryFields
    BY Zenon DEF NoEntry, EntryFields
<1>3. DOMAIN s = CpuFields
    BY Zenon DEF At, CpuFields
<1> QED
    BY <1>1, <1>2, <1>3, Zenon DEF Unwritten, Locals

(* So does the next one.                                                   *)
LEMMA FinishUnwritten ==
    ASSUME NEW s, NEW ok
    PROVE  Unwritten(Finish(s, ok))
    BY AtUnwritten, Zenon DEF Finish

(* A change of the locals that leaves the entry alone.                     *)
LEMMA Kept ==
    ASSUME NEW s, Unwritten(s), NEW t, DOMAIN t = DOMAIN s, t.fe = s.fe
    PROVE  Unwritten(t)
    BY Zenon DEF Unwritten, Locals

(* The locals have an entry.                                               *)
LEMMA HasEntry ==
    ASSUME NEW s, Unwritten(s)
    PROVE  DOMAIN s = CpuFields /\ "fe" \in DOMAIN s
    BY Zenon DEF Unwritten, Locals, CpuFields

(* A step to another place leaves the entry alone.                         *)
LEMMA GotoUnwritten ==
    ASSUME NEW s, Unwritten(s), NEW pc, NEW ok
    PROVE  Unwritten(Goto(s, pc, ok))
<1> DEFINE t == [s EXCEPT !.pc = pc, !.good = @ /\ ok]
<1>1. DOMAIN t = DOMAIN s /\ t.fe = s.fe
    BY HasEntry, Zenon
<1> HIDE DEF t
<1>2. Unwritten(t)
    BY <1>1, Kept, Zenon
<1> QED
    BY <1>2, Zenon DEF Goto, t

(* write_fat_entry is called, and returns.                                 *)
LEMMA CallUnwritten ==
    ASSUME NEW s, Locals(s), NEW c, NEW v, NEW ret
    PROVE  Unwritten(CallFat(s, c, v, ret))
<1> DEFINE e == [NoEntry EXCEPT !.cl = c, !.val = v]
           t == [s EXCEPT !.pc = "fat", !.fe = e, !.ret = ret]
<1>1. e.copy = 1 /\ DOMAIN e = EntryFields
    BY Zenon DEF NoEntry, EntryFields
<1> HIDE DEF e
<1>2. "fe" \in CpuFields
    BY Zenon DEF CpuFields
<1>3. DOMAIN t = CpuFields /\ t.fe = e
    BY <1>2, Zenon DEF Locals
<1> HIDE DEF t
<1>4. Unwritten(t)
    BY <1>1, <1>3, Zenon DEF Unwritten, Locals
<1> QED
    BY <1>4, Zenon DEF CallFat, t, e

(* write_fat_entry returns with its locals cleared.                        *)
LEMMA ReturnUnwritten ==
    ASSUME NEW s, Locals(s), NEW ok
    PROVE  Unwritten(Return(s, ok))
<1> DEFINE t == [s EXCEPT !.pc = s.ret, !.res = ok, !.fe = NoEntry, !.ret = ""]
<1>1. NoEntry.copy = 1 /\ DOMAIN NoEntry = EntryFields
    BY Zenon DEF NoEntry, EntryFields
<1>2. "fe" \in CpuFields
    BY Zenon DEF CpuFields
<1>3. DOMAIN t = CpuFields /\ t.fe = NoEntry
    BY <1>2, Zenon DEF Locals
<1> HIDE DEF t
<1>4. Unwritten(t)
    BY <1>1, <1>3, Zenon DEF Unwritten, Locals
<1> QED
    BY <1>4, Zenon DEF Return, t

(* A call of allocate_cluster_chain leaves the entry alone.                *)
LEMMA ChainUnwritten ==
    ASSUME NEW s, Unwritten(s), NEW count, NEW back
    PROVE  Unwritten(CallChain(s, count, back))
<1> DEFINE t == [s EXCEPT !.pc = "reserve", !.out = <<>>, !.want = count, !.back = back]
<1>1. DOMAIN t = DOMAIN s /\ t.fe = s.fe
    BY HasEntry, Zenon
<1> HIDE DEF t
<1>2. Unwritten(t)
    BY <1>1, Kept, Zenon
<1> QED
    BY <1>2, Zenon DEF CallChain, t

(* The rollback calls write_fat_entry afresh.                              *)
LEMMA RollbackUnwritten ==
    ASSUME NEW s, Unwritten(s)
    PROVE  Unwritten(free_clusters(s))
<1> DEFINE t == [s EXCEPT !.pc = s.back, !.res = FALSE]
           u == [s EXCEPT !.out = Tail(@)]
<1>1. DOMAIN t = DOMAIN s /\ t.fe = s.fe /\ DOMAIN u = DOMAIN s /\ u.fe = s.fe
    BY HasEntry, Zenon
<1> HIDE DEF t, u
<1>2. Unwritten(t) /\ Unwritten(u)
    BY <1>1, Kept, Zenon
<1>3. Unwritten(CallFat(u, Head(s.out), FREE, "freed"))
    BY <1>2, CallUnwritten, Zenon DEF Unwritten
<1> QED
    BY <1>2, <1>3, Zenon DEF free_clusters, t, u

(* Linking a chain calls write_fat_entry afresh.                           *)
LEMMA LinkUnwritten ==
    ASSUME NEW s, Unwritten(s), NEW i
    PROVE  Unwritten(Link(s, i))
<1> DEFINE t == [s EXCEPT !.i = i]
<1>1. DOMAIN t = DOMAIN s /\ t.fe = s.fe
    BY HasEntry, Zenon
<1> HIDE DEF t
<1>2. Unwritten(t)
    BY <1>1, Kept, Zenon
<1>3. Locals(t)
    BY <1>2, Zenon DEF Unwritten
<1> QED
    BY <1>3, CallUnwritten, Zenon DEF Link, t

(* What the writes outside write_fat_entry do to the copies: nothing.      *)
LEMMA DataIsNoCopy ==
    ASSUME NEW d, Copies(d), NEW c, NEW a, NEW b
    PROVE  Copies(PutData(d, c, a, b)) /\ PutData(d, c, a, b).fat = d.fat
<1> DEFINE x == [d EXCEPT !.data[c] = Content(a, b)]
<1>1. DOMAIN x = DOMAIN d /\ x.fat = d.fat
    BY Zenon DEF Copies
<1> HIDE DEF x
<1>2. Copies(x)
    BY <1>1, Zenon DEF Copies
<1> QED
    BY <1>1, <1>2, Zenon DEF PutData, x

(* A directory entry written is in no copy of the FAT.                     *)
LEMMA EntryIsNoCopy ==
    ASSUME NEW d, Copies(d), NEW place, NEW entry
    PROVE  Copies(PutEntry(d, place, entry)) /\ PutEntry(d, place, entry).fat = d.fat
<1> DEFINE x == [d EXCEPT !.data[place[1]] = Entries([@.slots EXCEPT ![place[2]] = entry])]
<1>1. DOMAIN x = DOMAIN d /\ x.fat = d.fat
    BY Zenon DEF Copies
<1> HIDE DEF x
<1>2. Copies(x)
    BY <1>1, Zenon DEF Copies
<1> QED
    BY <1>1, <1>2, Zenon DEF PutEntry, x

(* Nor is a file size.                                                     *)
LEMMA SizeIsNoCopy ==
    ASSUME NEW d, Copies(d), NEW place, NEW size
    PROVE  Copies(PutSize(d, place, size)) /\ PutSize(d, place, size).fat = d.fat
    BY EntryIsNoCopy, Zenon DEF PutSize

(* The three ways to be a plain step.                                      *)
LEMMA PlainReads ==
    ASSUME NEW yes, NEW no, Unwritten(yes), Unwritten(no), Reads(yes, no)
    PROVE  PlainStep
    BY Zenon DEF PlainStep

(* A sector written that is in no copy of the FAT.                         *)
LEMMA PlainWrites ==
    ASSUME NEW d, NEW yes, NEW no, Copies(d), d.fat = disk.fat, Unwritten(yes), Unwritten(no),
           write_sector(d, yes, no)
    PROVE  PlainStep
    BY Zenon DEF PlainStep

(* A step within the driver.                                               *)
LEMMA PlainMoves ==
    ASSUME NEW s, Unwritten(s), FatStep(s)
    PROVE  PlainStep
    BY Zenon DEF PlainStep

(* run_fat32_proof writes no FAT sector.                                   *)
LEMMA PlainFixtures ==
    ASSUME Unwritten(cpu), run_fat32_proof
    PROVE  PlainStep
<1>1. CASE cpu.pc = "fixtures" /\
           Reads(IF find_entry_with_location(disk, ROOT, "HELLO") = Nowhere
                 THEN At(Len(Proofs) + 1, FALSE) ELSE Goto(cpu, "contents", TRUE),
                 At(Len(Proofs) + 1, FALSE))
  <2> DEFINE no == At(Len(Proofs) + 1, FALSE)
             go == Goto(cpu, "contents", TRUE)
             yes == IF find_entry_with_location(disk, ROOT, "HELLO") = Nowhere THEN no ELSE go
  <2>1. Unwritten(no) /\ Unwritten(go)
      BY AtUnwritten, GotoUnwritten, Zenon
  <2> HIDE DEF no, go
  <2>2. Unwritten(yes)
      BY <2>1, Zenon
  <2>3. Reads(yes, no)
      BY <1>1, Zenon DEF no, go
  <2> QED
      BY <2>1, <2>2, <2>3, PlainReads, Zenon
<1>2. CASE cpu.pc = "contents" /\ Reads(Finish(cpu, FixturesRead(disk)), Finish(cpu, FALSE))
    BY <1>2, FinishUnwritten, PlainReads, Zenon
<1>3. CASE /\ cpu' = [At(1, TRUE) EXCEPT !.pc = "halt"]
           /\ UNCHANGED <<disk, fat_health, fat_late, faults, restarts>>
  <2> DEFINE s == At(1, TRUE)
             t == [s EXCEPT !.pc = "halt"]
  <2>1. Unwritten(s)
      BY AtUnwritten, Zenon
  <2> HIDE DEF s
  <2>2. DOMAIN t = DOMAIN s /\ t.fe = s.fe
      BY <2>1, HasEntry, Zenon
  <2>3. cpu' = t
      BY <1>3, Zenon DEF s
  <2> HIDE DEF t
  <2>4. Unwritten(t)
      BY <2>1, <2>2, Kept, Zenon
  <2> QED
      BY <1>3, <2>3, <2>4, Zenon DEF PlainStep
<1> QED
    BY <1>1, <1>2, <1>3, Zenon DEF run_fat32_proof

(* run_write_proof writes no FAT sector.                                   *)
LEMMA PlainWriteProof ==
    ASSUME Unwritten(cpu), Copies(disk), run_write_proof
    PROVE  PlainStep
<1> DEFINE place == find_entry_with_location(disk, ROOT, "WRITE")
           found == [cpu EXCEPT !.pc = "write_data", !.new = EntryAt(disk, place).first]
<1>1. CASE Reads(IF place = Nowhere THEN Finish(cpu, FALSE) ELSE found, Finish(cpu, FALSE))
  <2>1. DOMAIN found = DOMAIN cpu /\ found.fe = cpu.fe
      BY HasEntry, Zenon
  <2> HIDE DEF found
  <2>2. Unwritten(found) /\ Unwritten(Finish(cpu, FALSE))
      BY <2>1, Kept, FinishUnwritten, Zenon
  <2>3. Unwritten(IF place = Nowhere THEN Finish(cpu, FALSE) ELSE found)
      BY <2>2, Zenon
  <2> QED
      BY <1>1, <2>2, <2>3, PlainReads, Zenon
<1>2. CASE write_sector(PutData(disk, cpu.new, Tag("w"), Tag("w")),
                        Goto(cpu, "write_check", TRUE), Goto(cpu, "write_check", FALSE))
    BY <1>2, GotoUnwritten, DataIsNoCopy, PlainWrites, Zenon
<1>3. CASE \E ok : Reads(Finish(cpu, ok), Finish(cpu, FALSE))
    BY <1>3, FinishUnwritten, PlainReads, Zenon
<1> QED
    BY <1>1, <1>2, <1>3, Zenon DEF run_write_proof, Locate

(* write_fat_entry called from a place with no entry half written.         *)
LEMMA CallFrom ==
    ASSUME NEW s, Unwritten(s), NEW c, NEW v, NEW ret
    PROVE  Unwritten(CallFat(s, c, v, ret))
    BY CallUnwritten, Zenon DEF Unwritten

(* write_fat_entry called whatever came of the step before.                *)
LEMMA CallAnyway ==
    ASSUME NEW s, Unwritten(s), NEW pc, NEW ok, NEW c, NEW v, NEW ret
    PROVE  Unwritten(CallFat(Goto(s, pc, ok), c, v, ret))
    BY CallFrom, GotoUnwritten, Zenon

(* The reads that look a file up, and the ones a proof ends with.          *)
LEMMA PlainLocate ==
    ASSUME Unwritten(cpu), NEW missing, NEW found, Unwritten(found),
           Reads(IF missing THEN Finish(cpu, FALSE) ELSE found, Finish(cpu, FALSE))
    PROVE  PlainStep
<1>1. Unwritten(IF missing THEN Finish(cpu, FALSE) ELSE found)
    BY FinishUnwritten, Zenon
<1> QED
    BY <1>1, FinishUnwritten, PlainReads, Zenon

(* The reads a proof ends with.                                            *)
LEMMA PlainCheck ==
    ASSUME NEW ok, Reads(Finish(cpu, ok), Finish(cpu, FALSE))
    PROVE  PlainStep
    BY FinishUnwritten, PlainReads, Zenon

(* run_partial_write_proof writes no FAT sector.                           *)
LEMMA PlainPartialProof ==
    ASSUME Unwritten(cpu), Copies(disk), run_partial_write_proof
    PROVE  PlainStep
<1> DEFINE place == find_entry_with_location(disk, ROOT, "PARTIAL")
           found == [cpu EXCEPT !.pc = "partial_data", !.at = place,
                                !.new = EntryAt(disk, place).first]
<1>1. CASE Reads(IF place = Nowhere THEN Finish(cpu, FALSE) ELSE found, Finish(cpu, FALSE))
  <2>1. DOMAIN found = DOMAIN cpu /\ found.fe = cpu.fe
      BY HasEntry, Zenon
  <2> HIDE DEF found
  <2>2. Unwritten(found)
      BY <2>1, Kept, Zenon
  <2> QED
      BY <1>1, <2>2, PlainLocate, Zenon
<1>2. CASE write_sector(PutData(disk, cpu.new, Tag("p"), disk.data[cpu.new].half[2]),
                        Goto(cpu, "partial_size", TRUE), Goto(cpu, "partial_size", FALSE))
    BY <1>2, GotoUnwritten, DataIsNoCopy, PlainWrites, Zenon
<1>3. CASE write_sector(PutSize(disk, cpu.at, 1),
                        Goto(cpu, "partial_check", TRUE), Goto(cpu, "partial_check", FALSE))
    BY <1>3, GotoUnwritten, SizeIsNoCopy, PlainWrites, Zenon
<1>4. CASE \E ok : Reads(Finish(cpu, ok), Finish(cpu, FALSE))
    BY <1>4, PlainCheck, Zenon
<1> QED
    BY <1>1, <1>2, <1>3, <1>4, Zenon DEF run_partial_write_proof, Locate

(* run_grow_proof writes the FAT by calling write_fat_entry only.          *)
LEMMA PlainGrowProof ==
    ASSUME Unwritten(cpu), Copies(disk), run_grow_proof
    PROVE  PlainStep
<1> DEFINE place == find_entry_with_location(disk, ROOT, "GROW")
           new == allocate_free_cluster(disk)
           grown == [cpu EXCEPT !.pc = "grow_data", !.at = place, !.new = new,
                                !.last = LastCluster(disk, EntryAt(disk, place).first)]
           found == IF new = FREE THEN Finish(cpu, FALSE) ELSE grown
<1>1. CASE Reads(IF place = Nowhere THEN Finish(cpu, FALSE) ELSE found, Finish(cpu, FALSE))
  <2>1. DOMAIN grown = DOMAIN cpu /\ grown.fe = cpu.fe
      BY HasEntry, Zenon
  <2> HIDE DEF grown
  <2>2. Unwritten(grown)
      BY <2>1, Kept, Zenon
  <2>3. Unwritten(found)
      BY <2>2, FinishUnwritten, Zenon
  <2> HIDE DEF found
  <2> QED
      BY <1>1, <2>3, PlainLocate, Zenon
<1>2. CASE write_sector(PutData(disk, cpu.new, Tag("g"), Tag("")),
                        CallFat(cpu, cpu.new, CHAIN_EOC_MARKER, "grow_link"),
                        CallFat(Goto(cpu, "", FALSE), cpu.new, CHAIN_EOC_MARKER, "grow_link"))
    BY <1>2, CallFrom, CallAnyway, DataIsNoCopy, PlainWrites, Zenon
<1>3. CASE FatStep(CallFat(Goto(cpu, "", cpu.res), cpu.last, cpu.new, "grow_size"))
    BY <1>3, CallAnyway, PlainMoves, Zenon
<1>4. CASE write_sector(PutSize(disk, cpu.at, 3),
                        Goto(cpu, "grow_check", cpu.res), Goto(cpu, "grow_check", FALSE))
    BY <1>4, GotoUnwritten, SizeIsNoCopy, PlainWrites, Zenon
<1>5. CASE \E ok : Reads(Finish(cpu, ok), Finish(cpu, FALSE))
    BY <1>5, PlainCheck, Zenon
<1> QED
    BY <1>1, <1>2, <1>3, <1>4, <1>5, Zenon DEF run_grow_proof, Locate

(* So does run_multi_cluster_grow_proof.                                   *)
LEMMA PlainMultiProof ==
    ASSUME Unwritten(cpu), Copies(disk), run_multi_cluster_grow_proof
    PROVE  PlainStep
<1> DEFINE place == find_entry_with_location(disk, ROOT, "MULTI")
           placed == [cpu EXCEPT !.at = place,
                                 !.last = LastCluster(disk, EntryAt(disk, place).first)]
           found == CallChain(placed, 2, "multi_chain")
           start == [cpu EXCEPT !.pc = "multi_data", !.i = 1]
           next == [cpu EXCEPT !.i = @ + 1]
<1>0. Unwritten(placed) /\ Unwritten(start) /\ Unwritten(next)
  <2>1. DOMAIN placed = DOMAIN cpu /\ placed.fe = cpu.fe
      BY HasEntry, Zenon
  <2>2. DOMAIN start = DOMAIN cpu /\ start.fe = cpu.fe
      BY HasEntry, Zenon
  <2>3. DOMAIN next = DOMAIN cpu /\ next.fe = cpu.fe
      BY HasEntry, Zenon
  <2> HIDE DEF placed, start, next
  <2> QED
      BY <2>1, <2>2, <2>3, Kept, Zenon
<1>1. CASE Reads(IF place = Nowhere THEN Finish(cpu, FALSE) ELSE found, Finish(cpu, FALSE))
  <2> HIDE DEF placed
  <2>1. Unwritten(found)
      BY <1>0, ChainUnwritten, Zenon
  <2> HIDE DEF found
  <2> QED
      BY <1>1, <2>1, PlainLocate, Zenon
<1>2. CASE FatStep(IF cpu.res THEN start ELSE Finish(cpu, FALSE))
  <2> HIDE DEF start
  <2>1. Unwritten(IF cpu.res THEN start ELSE Finish(cpu, FALSE))
      BY <1>0, FinishUnwritten, Zenon
  <2> QED
      BY <1>2, <2>1, PlainMoves, Zenon
<1>3. CASE write_sector(PutData(disk, cpu.out[cpu.i], <<"m", cpu.i>>, <<"m", cpu.i>>),
                        IF cpu.i < Len(cpu.out) THEN next
                        ELSE CallFat(cpu, cpu.last, cpu.out[1], "multi_size"),
                        CallFat(Goto(cpu, "", FALSE), cpu.last, cpu.out[1], "multi_size"))
  <2> HIDE DEF next
  <2>1. Unwritten(IF cpu.i < Len(cpu.out) THEN next
                  ELSE CallFat(cpu, cpu.last, cpu.out[1], "multi_size"))
      BY <1>0, CallFrom, Zenon
  <2> QED
      BY <1>3, <2>1, CallAnyway, DataIsNoCopy, PlainWrites, Zenon
<1>4. CASE write_sector(PutSize(disk, cpu.at, 5),
                        Goto(cpu, "multi_check", cpu.res), Goto(cpu, "multi_check", FALSE))
    BY <1>4, GotoUnwritten, SizeIsNoCopy, PlainWrites, Zenon
<1>5. CASE \E ok : Reads(Finish(cpu, ok), Finish(cpu, FALSE))
    BY <1>5, PlainCheck, Zenon
<1> QED
    BY <1>1, <1>2, <1>3, <1>4, <1>5, Zenon DEF run_multi_cluster_grow_proof, Locate

(* So does run_delete_proof.                                               *)
LEMMA PlainDeleteProof ==
    ASSUME Unwritten(cpu), Copies(disk), run_delete_proof
    PROVE  PlainStep
<1> DEFINE place == find_entry_with_location(disk, ROOT, "DELETE")
           found == [cpu EXCEPT !.pc = "delete_free", !.at = place,
                                !.new = EntryAt(disk, place).first,
                                !.last = EntryAt(disk, place).first]
           link(i) == [cpu EXCEPT !.i = i]
           next == [cpu EXCEPT !.pc = "delete_free", !.new = cpu.i, !.want = @ + 1]
<1>0. Unwritten(found) /\ Unwritten(next) /\ \A i : Unwritten(link(i))
  <2>1. DOMAIN found = DOMAIN cpu /\ found.fe = cpu.fe
      BY HasEntry, Zenon
  <2>2. DOMAIN next = DOMAIN cpu /\ next.fe = cpu.fe
      BY HasEntry, Zenon
  <2>3. \A i : DOMAIN link(i) = DOMAIN cpu /\ link(i).fe = cpu.fe
      BY HasEntry, Zenon
  <2> HIDE DEF found, next, link
  <2> QED
      BY <2>1, <2>2, <2>3, Kept, Zenon
<1> HIDE DEF found, next, link
<1>1. CASE Reads(IF place = Nowhere THEN Finish(cpu, FALSE) ELSE found, Finish(cpu, FALSE))
    BY <1>0, <1>1, PlainLocate, Zenon
<1>2. CASE Reads(CallFat(link(next_cluster_in_chain(disk, cpu.new)), cpu.new, FREE, "delete_next"),
                 CallFat(link(CHAIN_EOC_MARKER), cpu.new, FREE, "delete_next"))
    BY <1>0, <1>2, CallFrom, PlainReads, Zenon
<1>3. CASE FatStep(IF ~cpu.res \/ is_end_of_chain(cpu.i) \/ cpu.want = WALK - 1
                   THEN Goto(cpu, "delete_mark", cpu.res) ELSE next)
  <2>1. Unwritten(IF ~cpu.res \/ is_end_of_chain(cpu.i) \/ cpu.want = WALK - 1
                  THEN Goto(cpu, "delete_mark", cpu.res) ELSE next)
      BY <1>0, GotoUnwritten, Zenon
  <2> QED
      BY <1>3, <2>1, PlainMoves, Zenon
<1>4. CASE write_sector(PutEntry(disk, cpu.at, DELETED_ENTRY_MARKER),
                        Goto(cpu, "delete_check", TRUE), Goto(cpu, "delete_check", FALSE))
    BY <1>4, GotoUnwritten, EntryIsNoCopy, PlainWrites, Zenon
<1>5. CASE \E ok : Reads(Finish(cpu, ok), Finish(cpu, FALSE))
    BY <1>5, PlainCheck, Zenon
<1>6. CASE \E ok : Reads(Goto(cpu, "delete_reuse", ok), Goto(cpu, "delete_reuse", TRUE))
    BY <1>6, GotoUnwritten, PlainReads, Zenon
<1> QED
    BY <1>1, <1>2, <1>3, <1>4, <1>5, <1>6, Zenon DEF run_delete_proof, Locate, found, next, link

(* So does find_or_grow_create_slot.                                       *)
LEMMA PlainSlot ==
    ASSUME Unwritten(cpu), Copies(disk), find_or_grow_create_slot
    PROVE  PlainStep
<1> DEFINE place == find_reusable_slot(disk, ROOT)
           trail == Trail(disk, ROOT)
           tail == trail[Len(trail)]
           ends == is_end_of_chain(next_cluster_in_chain(disk, tail))
           reuse == [cpu EXCEPT !.pc = "file", !.at = place]
           grow == [cpu EXCEPT !.last = tail]
           yes == IF place # Nowhere THEN reuse
                  ELSE IF ends THEN CallChain(grow, 1, "dir_zero") ELSE Finish(cpu, FALSE)
<1>1. Reads(yes, Finish(cpu, FALSE))
    BY Zenon DEF find_or_grow_create_slot
<1>2. DOMAIN reuse = DOMAIN cpu /\ reuse.fe = cpu.fe
    BY HasEntry, Zenon
<1>3. DOMAIN grow = DOMAIN cpu /\ grow.fe = cpu.fe
    BY HasEntry, Zenon
<1> HIDE DEF reuse, grow, ends, place
<1>4. Unwritten(reuse) /\ Unwritten(grow)
    BY <1>2, <1>3, Kept, Zenon
<1>5. Unwritten(yes)
    BY <1>4, ChainUnwritten, FinishUnwritten, Zenon
<1> HIDE DEF yes
<1> QED
    BY <1>1, <1>5, FinishUnwritten, PlainReads, Zenon

(* So does grow_directory.                                                 *)
LEMMA PlainGrowDirectory ==
    ASSUME Unwritten(cpu), Copies(disk), grow_directory
    PROVE  PlainStep
<1> DEFINE zeroed == [disk EXCEPT !.data[cpu.out[1]] = Entries(Zeroed)]
           file == [cpu EXCEPT !.pc = "file", !.at = <<cpu.out[1], 1>>]
<1>1. CASE FatStep(Finish(cpu, FALSE))
    BY <1>1, FinishUnwritten, PlainMoves, Zenon
<1>2. CASE write_sector(zeroed, CallFat(cpu, cpu.last, cpu.out[1], "dir_linked"), Finish(cpu, FALSE))
  <2>1. DOMAIN zeroed = DOMAIN disk /\ zeroed.fat = disk.fat
      BY Zenon DEF Copies
  <2> HIDE DEF zeroed
  <2>2. Copies(zeroed)
      BY <2>1, Zenon DEF Copies
  <2> QED
      BY <1>2, <2>1, <2>2, CallFrom, FinishUnwritten, PlainWrites, Zenon
<1>3. CASE FatStep(IF cpu.res THEN file ELSE Finish(cpu, FALSE))
  <2>1. DOMAIN file = DOMAIN cpu /\ file.fe = cpu.fe
      BY HasEntry, Zenon
  <2> HIDE DEF file
  <2>2. Unwritten(file)
      BY <2>1, Kept, Zenon
  <2>3. Unwritten(IF cpu.res THEN file ELSE Finish(cpu, FALSE))
      BY <2>2, FinishUnwritten, Zenon
  <2> QED
      BY <1>3, <2>3, PlainMoves, Zenon
<1> QED
    BY <1>1, <1>2, <1>3, Zenon DEF grow_directory

(* So do run_create_proof and run_directory_growth_proof.                  *)
LEMMA PlainCreateProof ==
    ASSUME Unwritten(cpu), Copies(disk), run_create_proof \/ run_directory_growth_proof
    PROVE  PlainStep
<1> DEFINE new == allocate_free_cluster(disk)
           data == [cpu EXCEPT !.pc = "file_data", !.new = new]
<1>1. CASE create_alloc
  <2>1. Reads(IF new = FREE THEN Finish(cpu, FALSE) ELSE data, Finish(cpu, FALSE))
      BY <1>1, Zenon DEF create_alloc
  <2>2. DOMAIN data = DOMAIN cpu /\ data.fe = cpu.fe
      BY HasEntry, Zenon
  <2> HIDE DEF data
  <2>3. Unwritten(data)
      BY <2>2, Kept, Zenon
  <2> QED
      BY <2>1, <2>3, PlainLocate, Zenon
<1>2. CASE create_data
    BY <1>2, CallFrom, CallAnyway, DataIsNoCopy, PlainWrites, Zenon DEF create_data
<1>3. CASE create_entry
    BY <1>3, GotoUnwritten, EntryIsNoCopy, PlainWrites, Zenon DEF create_entry
<1>4. CASE run_directory_growth_proof
    BY <1>4, PlainCheck, Zenon DEF run_directory_growth_proof
<1> QED
    BY <1>1, <1>2, <1>3, <1>4, Zenon DEF run_create_proof

(* So does run_fsinfo_hint_proof.                                          *)
LEMMA PlainHintProof ==
    ASSUME Unwritten(cpu), Copies(disk), run_fsinfo_hint_proof
    PROVE  PlainStep
<1> DEFINE c == allocate_free_cluster(disk)
           use == [cpu EXCEPT !.new = c, !.want = disk.free_count]
           call == CallFat(use, c, CHAIN_EOC_MARKER, "fsinfo_used")
           yes == IF disk.free_count = FSINFO_UNKNOWN THEN Finish(cpu, TRUE)
                  ELSE IF c = FREE THEN Finish(cpu, FALSE) ELSE call
<1>1. CASE Reads(yes, Finish(cpu, FALSE))
  <2>1. DOMAIN use = DOMAIN cpu /\ use.fe = cpu.fe
      BY HasEntry, Zenon
  <2> HIDE DEF use
  <2>2. Unwritten(use)
      BY <2>1, Kept, Zenon
  <2>3. Unwritten(call)
      BY <2>2, CallFrom, Zenon
  <2> HIDE DEF call
  <2>4. Unwritten(yes)
      BY <2>3, FinishUnwritten, Zenon
  <2> HIDE DEF yes
  <2> QED
      BY <1>1, <2>4, FinishUnwritten, PlainReads, Zenon
<1>2. CASE Reads(CallFat(Goto(cpu, "", disk.free_count + 1 = cpu.want), cpu.new, FREE, "fsinfo_freed"),
                 CallFat(Goto(cpu, "", FALSE), cpu.new, FREE, "fsinfo_freed"))
    BY ZenonT(30), <1>2, CallAnyway, PlainReads
<1>3. CASE \E ok : Reads(Finish(cpu, ok), Finish(cpu, FALSE))
    BY <1>3, PlainCheck, Zenon
<1>4. CASE FatStep(Finish(cpu, FALSE))
    BY <1>4, FinishUnwritten, PlainMoves, Zenon
<1> QED
    BY <1>1, <1>2, <1>3, <1>4, Zenon DEF run_fsinfo_hint_proof

(* So does allocate_cluster_chain.                                         *)
LEMMA PlainChain ==
    ASSUME Unwritten(cpu), Copies(disk), Reserve \/ Reserved \/ Linked \/ Freed
    PROVE  PlainStep
<1> DEFINE c == allocate_free_cluster(disk)
           took == [cpu EXCEPT !.new = c]
           s == [cpu EXCEPT !.out = Append(@, cpu.new)]
           more == [s EXCEPT !.pc = "reserve"]
           done == [cpu EXCEPT !.pc = cpu.back]
<1>0. Unwritten(took) /\ Unwritten(s) /\ Unwritten(more) /\ Unwritten(done)
  <2>1. DOMAIN took = DOMAIN cpu /\ took.fe = cpu.fe
      BY HasEntry, Zenon
  <2>2. DOMAIN s = DOMAIN cpu /\ s.fe = cpu.fe
      BY HasEntry, Zenon
  <2>3. DOMAIN done = DOMAIN cpu /\ done.fe = cpu.fe
      BY HasEntry, Zenon
  <2> HIDE DEF took, s, done
  <2>4. Unwritten(took) /\ Unwritten(s) /\ Unwritten(done)
      BY <2>1, <2>2, <2>3, Kept, Zenon
  <2>5. DOMAIN more = DOMAIN s /\ more.fe = s.fe
      BY <2>4, HasEntry, Zenon
  <2> HIDE DEF more
  <2> QED
      BY <2>4, <2>5, Kept, Zenon
<1> HIDE DEF took, s, more, done
<1>1. CASE Reserve
  <2> DEFINE yes == IF c = FREE THEN free_clusters(cpu)
                    ELSE CallFat(took, c, CHAIN_EOC_MARKER, "reserved")
  <2>1. Reads(yes, free_clusters(cpu))
      BY <1>1, Zenon DEF Reserve, took
  <2>2. Unwritten(yes) /\ Unwritten(free_clusters(cpu))
      BY <1>0, CallFrom, RollbackUnwritten, Zenon
  <2> HIDE DEF yes
  <2> QED
      BY <2>1, <2>2, PlainReads, Zenon
<1>2. CASE Reserved
  <2> DEFINE yes == IF ~cpu.res THEN free_clusters(cpu)
                    ELSE IF Len(s.out) < s.want THEN more ELSE Link(s, 1)
  <2>1. FatStep(yes)
      BY <1>2, Zenon DEF Reserved, s, more
  <2>2. Unwritten(yes)
      BY <1>0, LinkUnwritten, RollbackUnwritten, Zenon
  <2> HIDE DEF yes
  <2> QED
      BY <2>1, <2>2, PlainMoves, Zenon
<1>3. CASE Linked
  <2> DEFINE yes == IF ~cpu.res THEN free_clusters(cpu)
                    ELSE IF cpu.i < Len(cpu.out) THEN Link(cpu, cpu.i + 1) ELSE done
  <2>1. FatStep(yes)
      BY <1>3, Zenon DEF Linked, done
  <2>2. Unwritten(yes)
      BY <1>0, LinkUnwritten, RollbackUnwritten, Zenon
  <2> HIDE DEF yes
  <2> QED
      BY <2>1, <2>2, PlainMoves, Zenon
<1>4. CASE Freed
    BY <1>4, RollbackUnwritten, PlainMoves, Zenon DEF Freed
<1> QED
    BY Zenon, <1>1, <1>2, <1>3, <1>4

(* write_fat_entry is the only other step of the driver.                   *)
LEMMA OtherwisePlain ==
    ASSUME Locals(cpu), Copies(disk), cpu.fe.copy # 1 => cpu.pc \in {"fat", "hint"},
           FatDriver, ~write_fat_entry
    PROVE  PlainStep /\ cpu.pc # "fat"
<1> DEFINE count == disk.free_count
           hint(n) == [disk EXCEPT !.free_count = n]
<1>1. CASE adjust_fsinfo_free_count
  <2>0. cpu.pc # "fat"
      BY Zenon, <1>1 DEF adjust_fsinfo_free_count
  <2>1. Unwritten(Return(cpu, TRUE))
      BY ReturnUnwritten, Zenon
  <2>2. CASE Reads(Return(cpu, TRUE), Return(cpu, TRUE))
      BY <2>0, <2>1, <2>2, PlainReads, Zenon
  <2>3. CASE write_sector(hint(Adjusted(count, cpu.fe.val = FREE)), Return(cpu, TRUE), Return(cpu, TRUE))
    <3> DEFINE d == hint(Adjusted(count, cpu.fe.val = FREE))
    <3>1. DOMAIN d = DOMAIN disk /\ d.fat = disk.fat
        BY Zenon DEF Copies
    <3>2. write_sector(d, Return(cpu, TRUE), Return(cpu, TRUE))
        BY ZenonT(30), <2>3
    <3> HIDE DEF d
    <3>3. Copies(d)
        BY <3>1, Zenon DEF Copies
    <3> QED
        BY <2>0, <2>1, <3>1, <3>2, <3>3, PlainWrites, Zenon
  <2> QED
      BY <1>1, <2>2, <2>3, Zenon DEF adjust_fsinfo_free_count
<1>2. ASSUME cpu.pc \notin {"fat", "hint"} PROVE Unwritten(cpu)
    BY <1>2, Zenon DEF Unwritten
<1>3. CASE run_fat32_proof
  <2>1. cpu.pc \notin {"fat", "hint"}
      BY ZenonT(30), <1>3 DEF run_fat32_proof
  <2> QED
      BY <1>2, <1>3, <2>1, PlainFixtures, Zenon
<1>4. CASE run_write_proof
  <2>1. cpu.pc \notin {"fat", "hint"}
      BY ZenonT(30), <1>4 DEF run_write_proof
  <2> QED
      BY <1>2, <1>4, <2>1, PlainWriteProof, Zenon
<1>5. CASE run_partial_write_proof
  <2>1. cpu.pc \notin {"fat", "hint"}
      BY ZenonT(30), <1>5 DEF run_partial_write_proof
  <2> QED
      BY <1>2, <1>5, <2>1, PlainPartialProof, Zenon
<1>6. CASE run_grow_proof
  <2>1. cpu.pc \notin {"fat", "hint"}
      BY ZenonT(30), <1>6 DEF run_grow_proof
  <2> QED
      BY <1>2, <1>6, <2>1, PlainGrowProof, Zenon
<1>7. CASE run_multi_cluster_grow_proof
  <2>1. cpu.pc \notin {"fat", "hint"}
      BY ZenonT(30), <1>7 DEF run_multi_cluster_grow_proof
  <2> QED
      BY <1>2, <1>7, <2>1, PlainMultiProof, Zenon
<1>8. CASE run_delete_proof
  <2>1. cpu.pc \notin {"fat", "hint"}
      BY ZenonT(30), <1>8 DEF run_delete_proof
  <2> QED
      BY <1>2, <1>8, <2>1, PlainDeleteProof, Zenon
<1>9. CASE find_or_grow_create_slot
  <2>1. cpu.pc \notin {"fat", "hint"}
      BY Zenon, <1>9 DEF find_or_grow_create_slot
  <2> QED
      BY <1>2, <1>9, <2>1, PlainSlot, Zenon
<1>10. CASE grow_directory
  <2>1. cpu.pc \notin {"fat", "hint"}
      BY ZenonT(30), <1>10 DEF grow_directory
  <2> QED
      BY <1>2, <1>10, <2>1, PlainGrowDirectory, Zenon
<1>11. CASE run_create_proof
  <2>1. cpu.pc \notin {"fat", "hint"}
      BY ZenonT(30), <1>11 DEF run_create_proof, create_alloc, create_data, create_entry
  <2> QED
      BY <1>2, <1>11, <2>1, PlainCreateProof, Zenon
<1>12. CASE run_directory_growth_proof
  <2>1. cpu.pc \notin {"fat", "hint"}
      BY Zenon, <1>12 DEF run_directory_growth_proof
  <2> QED
      BY <1>2, <1>12, <2>1, PlainCreateProof, Zenon
<1>13. CASE run_fsinfo_hint_proof
  <2>1. cpu.pc \notin {"fat", "hint"}
      BY ZenonT(30), <1>13 DEF run_fsinfo_hint_proof
  <2> QED
      BY <1>2, <1>13, <2>1, PlainHintProof, Zenon
<1>14. CASE Reserve \/ Reserved \/ Linked \/ Freed
  <2>1. cpu.pc \notin {"fat", "hint"}
      BY Zenon, <1>14 DEF Reserve, Reserved, Linked, Freed
  <2> QED
      BY <1>2, <1>14, <2>1, PlainChain, Zenon
<1> QED
    BY ZenonT(30), <1>1, <1>3, <1>4, <1>5, <1>6, <1>7, <1>8, <1>9, <1>10, <1>11, <1>12, <1>13, <1>14 DEF FatDriver

(* The FAT entries whose copies differ are finitely many.                  *)
LEMMA DifferingFinite ==
    ASSUME NEW d, NEW A, A \subseteq Differing(d)
    PROVE  IsFiniteSet(A) /\ Cardinality(A) \in Nat
<1>1. 0 \in Int /\ CLUSTERS \in Int /\ 0 .. CLUSTERS = 0 .. CLUSTERS
    BY FatAssumption
<1>2. IsFiniteSet(0 .. CLUSTERS)
    BY <1>1, FS_Interval, Zenon
<1>3. A \subseteq 0 .. CLUSTERS
    BY Zenon DEF Differing
<1>4. IsFiniteSet(A)
    BY <1>2, <1>3, FS_Subset, Zenon
<1> QED
    BY <1>4, FS_CardinalityType, Zenon

(* Fewer entries differ in a smaller set.                                  *)
LEMMA NoMoreDiffer ==
    ASSUME NEW d, NEW A, NEW B, A \subseteq B, B \subseteq Differing(d)
    PROVE  Cardinality(A) <= Cardinality(B)
    BY DifferingFinite, FS_Subset, Zenon

(* One entry more or less changes the count by one at most.                *)
LEMMA OneMoreDiffers ==
    ASSUME NEW d, NEW c, NEW e, Differing(d) \ {c} \subseteq Differing(e)
    PROVE  Cardinality(Differing(d)) <= Cardinality(Differing(d) \ {c}) + 1
<1>1. IsFiniteSet(Differing(d)) /\ Cardinality(Differing(d)) \in Nat
    BY DifferingFinite, Zenon
<1>2. CASE c \in Differing(d)
  <2>1. Cardinality(Differing(d) \ {c}) = Cardinality(Differing(d)) - 1
      BY <1>1, <1>2, FS_RemoveElement, Zenon
  <2> QED
      BY <1>1, <2>1
<1>3. CASE c \notin Differing(d)
  <2>1. Differing(d) \ {c} = Differing(d)
      BY <1>3, Zenon
  <2> QED
      BY <1>1, <2>1
<1> QED
    BY Zenon, <1>2, <1>3

(* One copy of one entry written.                                          *)
LEMMA OneCopyWritten ==
    ASSUME NEW d, Copies(d), NEW k \in 1 .. NUM_FATS, NEW c, NEW v,
           NEW j \in 1 .. NUM_FATS, NEW y \in 0 .. CLUSTERS
    PROVE  PutFat(d, k, c, v).fat[j][y] = IF j = k /\ y = c THEN v ELSE d.fat[j][y]
<1>1. j \in DOMAIN d.fat /\ y \in DOMAIN d.fat[j] /\ "fat" \in DOMAIN d
    BY Zenon DEF Copies
<1> QED
    BY Zenon, <1>1 DEF PutFat

(* One copy of one entry written leaves the copies in shape.               *)
LEMMA StillCopies ==
    ASSUME NEW d, Copies(d), NEW k \in 1 .. NUM_FATS, NEW c, NEW v
    PROVE  Copies(PutFat(d, k, c, v))
<1> DEFINE x == [d EXCEPT !.fat[k][c] = v]
<1>1. DOMAIN x = DOMAIN d /\ DOMAIN x.fat = DOMAIN d.fat
    BY Zenon DEF Copies
<1>2. \A j \in 1 .. NUM_FATS : DOMAIN x.fat[j] = 0 .. CLUSTERS
    BY Zenon DEF Copies
<1> HIDE DEF x
<1>3. Copies(x)
    BY <1>1, <1>2, Zenon DEF Copies
<1> QED
    BY <1>3, Zenon DEF PutFat, x

(* No other entry differs for it.                                          *)
LEMMA OnlyThatEntry ==
    ASSUME NEW d, Copies(d), NEW k \in 1 .. NUM_FATS, NEW c, NEW v
    PROVE  Differing(PutFat(d, k, c, v)) \ {c} = Differing(d) \ {c}
<1> DEFINE x == PutFat(d, k, c, v)
<1>1. ASSUME NEW j \in 1 .. NUM_FATS, NEW y \in 0 .. CLUSTERS, y # c
      PROVE  x.fat[j][y] = d.fat[j][y]
  <2>1. PutFat(d, k, c, v).fat[j][y] = IF j = k /\ y = c THEN v ELSE d.fat[j][y]
      BY OneCopyWritten, Copies(d), SMT
  <2> QED
      BY <1>1, <2>1, Zenon
<1>2. 1 \in 1 .. NUM_FATS
    BY FatAssumption
<1> HIDE DEF x
<1> QED
    BY ZenonT(30), <1>1, <1>2 DEF Differing, x

Cost == faults + restarts

(* An entry is being written: its first copies already have the value.     *)
Halfway ==
    /\ Cardinality(Differing(disk) \ {cpu.fe.cl}) <= Cost
    /\ \A k \in 1 .. cpu.fe.copy - 1 :
          cpu.fe.cl \in 0 .. CLUSTERS => disk.fat[k][cpu.fe.cl] = cpu.fe.val

Within(d) == Copies(d) /\ Cardinality(Differing(d)) <= Cost

DriverOK ==
    /\ Locals(cpu) /\ cpu.fe.copy \in 1 .. NUM_FATS
    /\ cpu.fe.copy # 1 => cpu.pc \in {"fat", "hint"} /\ fat_health = "Healthy"

DeviceOK ==
    /\ faults \in Nat /\ restarts \in Nat
    /\ fat_health \in {"Healthy", "Faulted"}
    /\ fat_late # {} => fat_health = "Faulted"
    /\ \A d \in fat_late : Within(d)

Writing == cpu.pc = "fat" /\ cpu.fe.copy # 1

DriftInv ==
    /\ Copies(disk) /\ DriverOK /\ DeviceOK
    /\ IF Writing THEN Halfway ELSE Within(disk)

(* The invariant bounds the drift of the copies.                           *)
LEMMA DriftMeasured ==
    ASSUME DriftInv
    PROVE  MirrorDriftBounded
<1>1. /\ faults \in Nat /\ restarts \in Nat /\ cpu.fe.copy \in Nat /\ cpu.fe.copy >= 1
      /\ Cardinality(Differing(disk)) \in Nat
      /\ Cardinality(Differing(disk) \ {cpu.fe.cl}) \in Nat
  <2>1. Cardinality(Differing(disk)) \in Nat /\ Cardinality(Differing(disk) \ {cpu.fe.cl}) \in Nat
      BY DifferingFinite, Zenon
  <2> QED
      BY <2>1, FatAssumption DEF DriftInv, DriverOK, DeviceOK
<1>2. CASE Writing
  <2>1. Cardinality(Differing(disk)) <= Cardinality(Differing(disk) \ {cpu.fe.cl}) + 1
      BY OneMoreDiffers, Zenon
  <2>2. Cardinality(Differing(disk) \ {cpu.fe.cl}) <= faults + restarts
      BY <1>2, Zenon DEF DriftInv, Halfway, Cost
  <2>3. cpu.fe.copy > 1
      BY <1>1, <1>2 DEF Writing
  <2> QED
      BY <1>1, <2>1, <2>2, <2>3 DEF MirrorDriftBounded
<1>3. CASE ~Writing
  <2>1. Cardinality(Differing(disk)) <= faults + restarts
      BY <1>3, Zenon DEF DriftInv, Within, Cost
  <2> QED
      BY <1>1, <2>1 DEF MirrorDriftBounded
<1> QED
    BY Zenon, <1>2, <1>3

(* Either way, one more failure pays for the entry being written.          *)
LEMMA OneFaultPays ==
    ASSUME DriftInv
    PROVE  Cardinality(Differing(disk)) <= Cost + 1
<1>1. /\ faults \in Nat /\ restarts \in Nat
      /\ Cardinality(Differing(disk)) \in Nat
    BY DifferingFinite, Zenon DEF DriftInv, DeviceOK
<1>2. MirrorDriftBounded
    BY DriftMeasured, Zenon
<1> QED
    BY <1>1, <1>2 DEF MirrorDriftBounded, Cost

(* The cost never shrinks, so what was within it stays so.                 *)
LEMMA WithinStays ==
    ASSUME NEW d, Within(d), faults \in Nat, restarts \in Nat, faults' \in Nat, restarts' \in Nat,
           faults' >= faults, restarts' >= restarts
    PROVE  Within(d)'
<1>1. Cardinality(Differing(d)) \in Nat /\ Cardinality(Differing(d)) <= faults + restarts
    BY DifferingFinite, Zenon DEF Within, Cost
<1>2. Cardinality(Differing(d)) <= faults' + restarts'
    BY <1>1
<1> QED
    BY <1>2, Zenon DEF Within, Cost, Copies, Differing

(* What is not in the FAT does not count.                                  *)
LEMMA SameCopiesWithin ==
    ASSUME NEW d, NEW e, Copies(e), e.fat = d.fat, Within(d)
    PROVE  Within(e)
<1>1. Differing(e) = Differing(d)
    BY Zenon DEF Differing
<1> QED
    BY <1>1, Zenon DEF Within

(* A step that leaves the driver between entries.                          *)
LEMMA DriftKept ==
    ASSUME Within(disk)', Unwritten(cpu)', DeviceOK'
    PROVE  DriftInv'
<1>1. cpu'.fe.copy = 1 /\ Locals(cpu)'
    BY Zenon DEF Unwritten
<1>2. 1 \in 1 .. NUM_FATS
    BY FatAssumption
<1>3. DriverOK'
    BY <1>1, <1>2, Zenon DEF DriverOK
<1>4. ~Writing'
    BY <1>1, Zenon DEF Writing
<1> QED
    BY <1>3, <1>4, Zenon DEF DriftInv, Within

(* A write that leaves the copies alone, or is of one copy: what it would  *)
(* leave is within the cost, once a failure has been counted.              *)
LEMMA FailedWriteKeeps ==
    ASSUME Copies(disk), DeviceOK, NEW d, Copies(d), NEW no, Unwritten(no),
           Cardinality(Differing(disk)) <= Cost + 1, Cardinality(Differing(d)) <= Cost + 1,
           fat_health = "Healthy", faults' = faults + 1, cpu' = no, restarts' = restarts,
           \/ disk' \in {disk, d} /\ UNCHANGED <<fat_health, fat_late>>
           \/ disk' = disk /\ fat_health' = "Faulted" /\ fat_late' = {d}
    PROVE  DriftInv'
<1>1. /\ faults \in Nat /\ restarts \in Nat /\ faults' \in Nat /\ restarts' \in Nat
      /\ faults' >= faults /\ restarts' >= restarts /\ Cost + 1 = faults' + restarts'
    BY DEF DeviceOK, Cost
<1>2. Within(disk)' /\ (\A e \in {disk, d} : Within(e)')
  <2>1. \A e \in {disk, d} : Copies(e) /\ Cardinality(Differing(e)) <= faults' + restarts'
      BY <1>1, Zenon
  <2>2. \A e \in {disk, d} : Within(e)'
      BY <2>1, Zenon DEF Within, Cost, Copies, Differing
  <2>3. disk' \in {disk, d}
      BY Zenon
  <2>4. Copies(disk') /\ Cardinality(Differing(disk')) <= faults' + restarts'
      BY <2>1, <2>3, Zenon
  <2> QED
      BY <2>2, <2>4, Zenon DEF Within, Cost, Copies, Differing
<1>3. DeviceOK'
  <2>1. CASE disk' \in {disk, d} /\ UNCHANGED <<fat_health, fat_late>>
    <3>1. fat_late' = {} /\ fat_health' \in {"Healthy", "Faulted"}
        BY <2>1, Zenon DEF DeviceOK
    <3> QED
        BY <1>1, <3>1, Zenon DEF DeviceOK
  <2>2. CASE disk' = disk /\ fat_health' = "Faulted" /\ fat_late' = {d}
    <3>1. \A e \in fat_late' : Within(e)'
        BY <1>2, <2>2, Zenon
    <3> QED
        BY <1>1, <2>2, <3>1, Zenon DEF DeviceOK
  <2> QED
      BY <2>1, <2>2, Zenon
<1>4. Unwritten(cpu)'
    BY Zenon DEF Unwritten, Locals
<1> QED
    BY <1>2, <1>3, <1>4, DriftKept, Zenon

(* A step that adds no abandoned write leaves the device sound.            *)
LEMMA DeviceStays ==
    ASSUME DeviceOK, UNCHANGED <<fat_late, restarts>>, faults' \in {faults, faults + 1},
           fat_health' \in {"Healthy", "Faulted"}, fat_health = "Faulted" => fat_health' = "Faulted"
    PROVE  DeviceOK'
<1>1. /\ faults \in Nat /\ restarts \in Nat /\ faults' \in Nat /\ restarts' \in Nat
      /\ faults' >= faults /\ restarts' >= restarts
    BY DEF DeviceOK
<1>2. \A e \in fat_late : Within(e)
    BY Zenon DEF DeviceOK
<1>3. ASSUME NEW e \in fat_late PROVE Within(e)'
  <2>1. Within(e)
      BY <1>2, Zenon
  <2> QED
      BY ONLY <1>1, <2>1, WithinStays, Zenon
<1> QED
    BY <1>1, <1>3, Zenon DEF DeviceOK

(* A step outside write_fat_entry keeps the invariant.                     *)
LEMMA PlainKeeps ==
    ASSUME DriftInv, Within(disk), PlainStep
    PROVE  DriftInv'
<1>0. Copies(disk) /\ DeviceOK /\ faults \in Nat /\ restarts \in Nat
    BY Zenon DEF DriftInv, DeviceOK
<1>1. Cardinality(Differing(disk)) <= Cost + 1
    BY OneFaultPays, Zenon
<1>2. ASSUME disk' = disk, Unwritten(cpu)', UNCHANGED <<fat_late, restarts>>,
             faults' \in {faults, faults + 1}, fat_health' \in {"Healthy", "Faulted"},
             fat_health = "Faulted" => fat_health' = "Faulted"
      PROVE  DriftInv'
  <2>1. DeviceOK'
      BY <1>0, <1>2, DeviceStays, Zenon
  <2>2. faults' \in Nat /\ restarts' \in Nat /\ faults' >= faults /\ restarts' >= restarts
      BY <1>0, <1>2
  <2>3. Within(disk)'
    <3>1. Cardinality(Differing(disk)) \in Nat /\ Cardinality(Differing(disk)) <= faults + restarts
        BY DifferingFinite, Zenon DEF Within, Cost
    <3>2. Cardinality(Differing(disk)) <= faults' + restarts'
        BY <1>0, <2>2, <3>1
    <3>3. Copies(disk') /\ Cardinality(Differing(disk')) <= faults' + restarts'
        BY <1>0, <1>2, <3>2, Zenon
    <3> QED
        BY <3>3, Zenon DEF Within, Cost, Copies, Differing
  <2> QED
      BY <1>2, <2>1, <2>3, DriftKept, Zenon
<1>3. fat_health \in {"Healthy", "Faulted"} /\ faults' = faults => faults' \in {faults, faults + 1}
    BY <1>0, Zenon DEF DeviceOK
<1>4. ASSUME NEW yes, NEW no, Unwritten(yes), Unwritten(no), Reads(yes, no) PROVE DriftInv'
  <2>1. Unwritten(cpu)'
    <3>1. cpu' = yes \/ cpu' = no
        BY <1>4, Zenon DEF Reads
    <3> QED
        BY <1>4, <3>1, Zenon DEF Unwritten, Locals
  <2>2. /\ disk' = disk /\ UNCHANGED <<fat_late, restarts>> /\ faults' \in {faults, faults + 1}
        /\ fat_health' \in {"Healthy", "Faulted"}
        /\ fat_health = "Faulted" => fat_health' = "Faulted"
      BY <1>0, <1>4, Zenon DEF Reads, DeviceOK
  <2> QED
      BY <1>2, <2>1, <2>2, Zenon
<1>5. ASSUME NEW d, NEW yes, NEW no, Copies(d), d.fat = disk.fat, Unwritten(yes), Unwritten(no),
             write_sector(d, yes, no)
      PROVE  DriftInv'
  <2>1. Within(d) /\ Differing(d) = Differing(disk)
    <3>1. Within(d)
        BY ONLY <1>5, Within(disk), SameCopiesWithin, Zenon
    <3> QED
        BY <1>5, <3>1, Zenon DEF Differing
  <2>2. CASE /\ fat_health = "Healthy" /\ disk' = d /\ cpu' = yes
             /\ UNCHANGED <<fat_health, fat_late, faults, restarts>>
    <3>1. Unwritten(cpu)'
        BY <1>5, <2>2, Zenon DEF Unwritten, Locals
    <3>2. DeviceOK'
        BY <1>0, <1>3, <2>2, DeviceStays, Zenon DEF DeviceOK
    <3>3. Within(disk)'
        BY <2>1, <2>2, Zenon DEF Within, Cost, Copies, Differing
    <3> QED
        BY <3>1, <3>2, <3>3, DriftKept, Zenon
  <2>3. CASE /\ fat_health = "Healthy" /\ faults' = faults + 1 /\ cpu' = no /\ restarts' = restarts
             /\ \/ disk' \in {disk, d} /\ UNCHANGED <<fat_health, fat_late>>
                \/ disk' = disk /\ fat_health' = "Faulted" /\ fat_late' = {d}
    <3>1. Cardinality(Differing(d)) <= Cost + 1
        BY <1>1, <2>1, Zenon
    <3> QED
        BY <1>0, <1>1, <1>5, <2>3, <3>1, FailedWriteKeeps, Zenon
  <2>4. CASE /\ fat_health = "Faulted" /\ cpu' = no
             /\ UNCHANGED <<disk, fat_health, fat_late, faults, restarts>>
    <3>1. Unwritten(cpu)'
        BY <1>5, <2>4, Zenon DEF Unwritten, Locals
    <3> QED
        BY <1>2, <1>3, <2>4, <3>1, Zenon
  <2> QED
      BY <1>5, <2>2, <2>3, <2>4, Zenon DEF write_sector
<1>6. ASSUME NEW s, Unwritten(s), FatStep(s) PROVE DriftInv'
  <2>1. Unwritten(cpu)'
      BY <1>6, Zenon DEF FatStep, Unwritten, Locals
  <2>2. /\ disk' = disk /\ UNCHANGED <<fat_late, restarts>> /\ faults' = faults
        /\ fat_health' = fat_health /\ fat_health \in {"Healthy", "Faulted"}
      BY <1>0, <1>6, Zenon DEF FatStep, DeviceOK
  <2> QED
      BY <1>2, <1>3, <2>1, <2>2, Zenon
<1>7. CASE Unwritten(cpu') /\ UNCHANGED <<disk, fat_health, fat_late, faults, restarts>>
  <2>1. Unwritten(cpu)' /\ fat_health \in {"Healthy", "Faulted"}
      BY <1>0, <1>7, Zenon DEF Unwritten, Locals, DeviceOK
  <2> QED
      BY <1>2, <1>3, <1>7, <2>1, Zenon
<1> QED
    BY <1>4, <1>5, <1>6, <1>7, Zenon DEF PlainStep

(* One copy of the entry is written, or is not.                            *)
LEMMA EntryKeeps ==
    ASSUME DriftInv, write_fat_entry
    PROVE  DriftInv'
<1> DEFINE e == cpu.fe
           n == e.copy
           d == PutFat(disk, n, e.cl, e.val)
           no == Return(cpu, FALSE)
           was == IF n = 1 THEN disk.fat[1][e.cl] ELSE e.was
           onward == [cpu EXCEPT !.fe.copy = @ + 1, !.fe.was = was]
           hint == [cpu EXCEPT !.pc = "hint"]
           yes == IF n < NUM_FATS THEN onward
                  ELSE IF (was = FREE) # (e.val = FREE) THEN hint ELSE Return(cpu, TRUE)
<1>0. /\ Copies(disk) /\ DeviceOK /\ faults \in Nat /\ restarts \in Nat /\ Locals(cpu)
      /\ n \in 1 .. NUM_FATS /\ cpu.pc = "fat" /\ NUM_FATS \in Nat
    BY Zenon, FatAssumption DEF DriftInv, DeviceOK, DriverOK, write_fat_entry
<1>1. write_sector(d, yes, no)
    BY Zenon DEF write_fat_entry
<1>2. Unwritten(no) /\ Unwritten(Return(cpu, TRUE))
    BY <1>0, ReturnUnwritten, Zenon
<1>3. Copies(d) /\ Differing(d) \ {e.cl} = Differing(disk) \ {e.cl}
  <2>1. Copies(PutFat(disk, n, e.cl, e.val))
      BY ONLY Zenon, <1>0, StillCopies
  <2>2. Differing(PutFat(disk, n, e.cl, e.val)) \ {e.cl} = Differing(disk) \ {e.cl}
      BY ONLY <1>0, OnlyThatEntry, SMT
  <2> QED
      BY <2>1, <2>2, Zenon
<1>4. Cardinality(Differing(disk) \ {e.cl}) <= Cost
  <2>1. CASE n = 1
    <3>1. Cardinality(Differing(disk)) <= Cost
        BY <2>1, Zenon DEF DriftInv, Writing, Within
    <3>2. Cardinality(Differing(disk) \ {e.cl}) <= Cardinality(Differing(disk))
        BY NoMoreDiffer, Zenon
    <3>3. Cardinality(Differing(disk) \ {e.cl}) \in Nat /\ Cardinality(Differing(disk)) \in Nat
        BY DifferingFinite, Zenon
    <3> QED
        BY <1>0, <3>1, <3>2, <3>3 DEF Cost
  <2>2. CASE n # 1
      BY <1>0, <2>2, Zenon DEF DriftInv, Writing, Halfway
  <2> QED
      BY Zenon, <2>1, <2>2
<1>5. \A k \in 1 .. n : e.cl \in 0 .. CLUSTERS => d.fat[k][e.cl] = e.val
  <2>1. ASSUME NEW k \in 1 .. n, e.cl \in 0 .. CLUSTERS PROVE d.fat[k][e.cl] = e.val
    <3>1. k \in 1 .. NUM_FATS /\ (k = n \/ k \in 1 .. n - 1)
        BY SMTT(30), <1>0, <2>1
    <3>2. d.fat[k][e.cl] = IF k = n /\ e.cl = e.cl THEN e.val ELSE disk.fat[k][e.cl]
        BY ONLY <1>0, <2>1, <3>1, OneCopyWritten, SMT
    <3>3. CASE k # n
      <4>1. n # 1 /\ k \in 1 .. n - 1
          BY <1>0, <2>1, <3>1, <3>3
      <4>2. disk.fat[k][e.cl] = e.val
          BY <1>0, <2>1, <4>1, Zenon DEF DriftInv, Writing, Halfway
      <4> QED
          BY <3>2, <3>3, <4>2, Zenon
    <3> QED
        BY <3>2, <3>3, Zenon
  <2> QED
      BY <2>1, Zenon
<1>6. Cardinality(Differing(d)) <= Cost + 1 /\ Cardinality(Differing(disk)) <= Cost + 1
  <2>1. Cardinality(Differing(d)) <= Cardinality(Differing(d) \ {e.cl}) + 1
      BY OneMoreDiffers, <1>3, Zenon
  <2>2. /\ Cardinality(Differing(d) \ {e.cl}) \in Nat /\ Cardinality(Differing(d)) \in Nat
      BY DifferingFinite, Zenon
  <2>3. Cardinality(Differing(d) \ {e.cl}) <= Cost
      BY <1>3, <1>4, Zenon
  <2>4. Cardinality(Differing(disk)) <= Cost + 1
      BY OneFaultPays, Zenon
  <2> HIDE DEF d
  <2> QED
      BY <1>0, <2>1, <2>2, <2>3, <2>4 DEF Cost
<1>7. CASE /\ fat_health = "Healthy" /\ faults' = faults + 1 /\ cpu' = no /\ restarts' = restarts
           /\ \/ disk' \in {disk, d} /\ UNCHANGED <<fat_health, fat_late>>
              \/ disk' = disk /\ fat_health' = "Faulted" /\ fat_late' = {d}
  <2> HIDE DEF d, no
  <2> QED
      BY <1>0, <1>2, <1>3, <1>6, <1>7, FailedWriteKeeps, Zenon
<1>8. CASE /\ fat_health = "Faulted" /\ cpu' = no
           /\ UNCHANGED <<disk, fat_health, fat_late, faults, restarts>>
  <2>1. Within(disk)
      BY <1>8, Zenon DEF DriftInv, DriverOK, Writing
  <2>2. Within(disk)'
      BY <1>8, <2>1, Zenon DEF Within, Cost, Copies, Differing
  <2>3. DeviceOK'
    <3>1. faults' \in {faults, faults + 1} /\ fat_health' \in {"Healthy", "Faulted"}
        BY <1>0, <1>8, Zenon DEF DeviceOK
    <3> QED
        BY <1>0, <1>8, <3>1, DeviceStays, Zenon
  <2> HIDE DEF no
  <2>4. Unwritten(cpu)'
      BY <1>2, <1>8, Zenon DEF Unwritten, Locals
  <2> QED
      BY <2>2, <2>3, <2>4, DriftKept, Zenon
<1>9. CASE /\ fat_health = "Healthy" /\ disk' = d /\ cpu' = yes
           /\ UNCHANGED <<fat_health, fat_late, faults, restarts>>
  <2>1. DeviceOK'
    <3>1. faults' \in {faults, faults + 1} /\ fat_health' \in {"Healthy", "Faulted"}
        BY <1>0, <1>9, Zenon DEF DeviceOK
    <3> QED
        BY <1>0, <1>9, <3>1, DeviceStays, Zenon
  <2>2. Copies(disk)' /\ Cardinality(Differing(disk)' \ {e.cl}) <= Cost'
    <3>1. Cardinality(Differing(d) \ {e.cl}) <= Cost
        BY <1>3, <1>4, Zenon
    <3> HIDE DEF d
    <3> QED
        BY <1>3, <1>9, <3>1, Zenon DEF Copies, Differing, Cost
  <2>3. CASE n < NUM_FATS
    <3>1. cpu' = onward
        BY <1>9, <2>3, Zenon
    <3>2. /\ cpu'.fe.copy = n + 1 /\ cpu'.fe.cl = e.cl /\ cpu'.fe.val = e.val /\ cpu'.pc = "fat"
          /\ DOMAIN cpu' = DOMAIN cpu /\ DOMAIN cpu'.fe = DOMAIN cpu.fe
      <4>1. "fe" \in DOMAIN cpu /\ "copy" \in DOMAIN cpu.fe /\ "was" \in DOMAIN cpu.fe
          BY <1>0, Zenon DEF Locals, CpuFields, EntryFields
      <4>2. DOMAIN cpu' = DOMAIN cpu /\ cpu'.pc = cpu.pc
          BY Zenon, <1>0, <3>1, <4>1 DEF Locals, CpuFields
      <4>6. cpu'.fe = [[e EXCEPT !.copy = e.copy + 1] EXCEPT !.was = was]
          BY Zenon, <3>1, <4>1
      <4>3. DOMAIN cpu'.fe = DOMAIN cpu.fe
          BY <4>6, Zenon
      <4>4. cpu'.fe.cl = e.cl /\ cpu'.fe.val = e.val
          BY <1>0, <4>6, Zenon DEF Locals, EntryFields
      <4>5. cpu'.fe.copy = n + 1
          BY <1>0, <4>6, Zenon DEF Locals, EntryFields
      <4> QED
          BY <1>0, <4>2, <4>3, <4>4, <4>5, Zenon
    <3>3. n + 1 \in 1 .. NUM_FATS /\ n + 1 # 1 /\ (n + 1) - 1 = n
        BY <1>0, <2>3
    <3>4. DriverOK'
        BY <1>0, <1>9, <3>2, <3>3, Zenon DEF DriverOK, Locals
    <3>5. Writing'
        BY <3>2, <3>3, Zenon DEF Writing
    <3>6. \A k \in 1 .. n : e.cl \in 0 .. CLUSTERS => disk'.fat[k][e.cl] = e.val
      <4> HIDE DEF d
      <4> QED
          BY <1>5, <1>9, Zenon
    <3>7. \A k \in 1 .. cpu'.fe.copy - 1 :
             cpu'.fe.cl \in 0 .. CLUSTERS => disk'.fat[k][cpu'.fe.cl] = cpu'.fe.val
      <4>1. 1 .. cpu'.fe.copy - 1 = 1 .. n
          BY <3>2, <3>3, Zenon
      <4> QED
          BY <3>2, <3>6, <4>1, Zenon
    <3>8. Halfway'
        BY <2>2, <3>2, <3>7, Zenon DEF Halfway
    <3> QED
        BY <2>1, <2>2, <3>4, <3>5, <3>8, Zenon DEF DriftInv
  <2>4. CASE ~(n < NUM_FATS)
    <3>1. n = NUM_FATS /\ 1 \in 1 .. NUM_FATS
        BY <1>0, <2>4, FatAssumption
    <3>2. e.cl \notin Differing(d)
      <4> HIDE DEF d
      <4> QED
          BY <1>5, <3>1, Zenon DEF Differing
    <3>3. Within(disk)'
      <4>1. Differing(d) \ {e.cl} = Differing(d)
          BY <3>2, Zenon
      <4>2. Differing(disk)' = Differing(d)
        <5> HIDE DEF d
        <5> QED
            BY <1>9, Zenon DEF Differing
      <4> HIDE DEF d
      <4> QED
          BY <2>2, <4>1, <4>2, Zenon DEF Within
    <3>4. CASE cpu' = Return(cpu, TRUE)
      <4>1. Unwritten(cpu)'
          BY <1>2, <3>4, Zenon DEF Unwritten, Locals
      <4> QED
          BY <2>1, <3>3, <4>1, DriftKept, Zenon
    <3>5. CASE cpu' = hint
      <4>1. cpu'.pc = "hint" /\ cpu'.fe = e /\ DOMAIN cpu' = DOMAIN cpu
          BY <1>0, <3>5, Zenon DEF Locals, CpuFields
      <4>2. DriverOK'
          BY <1>0, <1>9, <4>1, Zenon DEF DriverOK, Locals
      <4>3. ~Writing'
          BY <4>1, Zenon DEF Writing
      <4> QED
          BY <2>1, <3>3, <4>2, <4>3, Zenon DEF DriftInv, Within
    <3> QED
        BY <1>9, <2>4, <3>4, <3>5, Zenon
  <2> QED
      BY <2>3, <2>4, Zenon
<1> QED
  <2>1. restarts' = restarts
      BY Zenon DEF write_fat_entry, write_sector
  <2> HIDE DEF d, yes, no
  <2> QED
      BY <1>1, <1>7, <1>8, <1>9, <2>1, Zenon DEF write_sector

(* An abandoned write that reaches the disk late finds no entry half done. *)
LEMMA LateKeeps ==
    ASSUME DriftInv, FatLateWrite
    PROVE  DriftInv'
<1>1. PICK d \in fat_late : disk' = d
    BY Zenon DEF FatLateWrite
<1>2. /\ fat_health = "Faulted" /\ Within(d) /\ faults \in Nat /\ restarts \in Nat
      /\ Locals(cpu) /\ cpu.fe.copy \in 1 .. NUM_FATS /\ cpu.fe.copy = 1
    BY Zenon DEF DriftInv, DeviceOK, DriverOK
<1>3. /\ fat_late' = {} /\ UNCHANGED <<fat_health, cpu, faults, restarts>>
    BY Zenon DEF FatLateWrite
<1>4. Within(disk)'
    BY <1>1, <1>2, <1>3, Zenon DEF Within, Cost, Copies, Differing
<1>5. Unwritten(cpu)'
    BY <1>2, <1>3, Zenon DEF Unwritten, Locals
<1>6. DeviceOK'
    BY <1>2, <1>3, Zenon DEF DeviceOK
<1> QED
    BY <1>4, <1>5, <1>6, DriftKept, Zenon

(* A stop of the machine pays for the entry it leaves half written.        *)
LEMMA RestartKeeps ==
    ASSUME DriftInv, Restart
    PROVE  DriftInv'
<1>1. /\ restarts' = restarts + 1 /\ fat_health' = "Healthy" /\ fat_late' = {}
      /\ cpu' = At(1, TRUE) /\ UNCHANGED <<disk, faults>>
    BY Zenon DEF Restart
<1>2. Copies(disk) /\ faults \in Nat /\ restarts \in Nat
    BY Zenon DEF DriftInv, DeviceOK
<1>3. Cardinality(Differing(disk)) <= Cost + 1
    BY OneFaultPays, Zenon
<1>4. faults' + restarts' = Cost + 1 /\ restarts' \in Nat /\ faults' \in Nat
    BY <1>1, <1>2 DEF Cost
<1>5. Copies(disk') /\ Cardinality(Differing(disk')) <= faults' + restarts'
    BY <1>1, <1>2, <1>3, <1>4, Zenon
<1>6. Within(disk)'
    BY <1>5, Zenon DEF Within, Cost, Copies, Differing
<1>7. Unwritten(cpu)'
  <2>1. Unwritten(At(1, TRUE))
      BY AtUnwritten, Zenon
  <2> QED
      BY <1>1, <2>1, Zenon DEF Unwritten, Locals
<1>8. DeviceOK'
    BY <1>1, <1>4, Zenon DEF DeviceOK
<1> QED
    BY <1>6, <1>7, <1>8, DriftKept, Zenon

(* A formatted volume's copies of the FAT agree.                           *)
LEMMA DriftStarts ==
    ASSUME FatInit
    PROVE  DriftInv
<1>1. PICK v \in Volumes : disk = Disk0(v)
    BY Zenon DEF FatInit
<1>2. Copies(disk) /\ Differing(disk) = {}
  <2>1. /\ "fat" \in DOMAIN disk
        /\ disk.fat = [k \in 1 .. NUM_FATS |-> [c \in 0 .. CLUSTERS |-> FixtureFat(v, c)]]
      BY <1>1, Zenon DEF Disk0
  <2>2. 1 \in 1 .. NUM_FATS
      BY FatAssumption
  <2>3. Copies(disk)
      BY <2>1, Zenon DEF Copies
  <2>4. \A k \in 1 .. NUM_FATS, c \in 0 .. CLUSTERS : disk.fat[k][c] = FixtureFat(v, c)
      BY ZenonT(30), <2>1
  <2> QED
      BY <2>2, <2>3, <2>4, Zenon DEF Differing
<1>3. Cardinality(Differing(disk)) = 0
    BY <1>2, FS_EmptySet, Zenon
<1>4. faults = 0 /\ restarts = 0 /\ fat_health = "Healthy" /\ fat_late = {} /\ cpu = At(1, TRUE)
    BY Zenon DEF FatInit
<1>5. Cardinality(Differing(disk)) <= Cost /\ faults \in Nat /\ restarts \in Nat
    BY <1>3, <1>4 DEF Cost
<1>6. Unwritten(cpu)
    BY <1>4, AtUnwritten, Zenon
<1>7. cpu.fe.copy = 1 /\ Locals(cpu) /\ 1 \in 1 .. NUM_FATS
    BY <1>6, FatAssumption DEF Unwritten
<1> QED
    BY <1>2, <1>4, <1>5, <1>7, Zenon DEF DriftInv, DriverOK, DeviceOK, Writing, Within

(* Every step of the driver, of the device and of the machine keeps it.    *)
LEMMA DriftSteps ==
    ASSUME DriftInv, [FatNext]_fatVars
    PROVE  DriftInv'
<1>1. CASE write_fat_entry
    BY <1>1, EntryKeeps, Zenon
<1>2. CASE FatDriver /\ ~write_fat_entry
  <2>1. Locals(cpu) /\ Copies(disk) /\ (cpu.fe.copy # 1 => cpu.pc \in {"fat", "hint"})
      BY Zenon DEF DriftInv, DriverOK
  <2>2. PlainStep /\ cpu.pc # "fat"
      BY <1>2, <2>1, OtherwisePlain, Zenon
  <2>3. CASE ~Writing
    <3>1. Within(disk)
        BY <2>3, Zenon DEF DriftInv
    <3> QED
        BY <2>2, <3>1, PlainKeeps, Zenon
  <2>4. CASE Writing
      BY <2>2, <2>4, Zenon DEF Writing
  <2> QED
      BY <2>3, <2>4, Zenon
<1>3. CASE UNCHANGED fatVars
    BY <1>3, Zenon DEF fatVars, DriftInv, DriverOK, DeviceOK, Writing, Halfway, Within, Cost,
                       Copies, Differing, Locals
<1> QED
    BY <1>1, <1>2, <1>3, LateKeeps, RestartKeeps, Zenon DEF FatNext, FatHalted

(* The copies of the FAT differ in no more entries than requests have      *)
(* failed and the machine has stopped, and one more while an entry is      *)
(* being written: for every number of copies and clusters, every volume,   *)
(* any number of failures and stops, and an abandoned write that lands     *)
(* late.                                                                   *)
THEOREM MirrorDriftStaysBounded == FatSpec => []MirrorDriftBounded
<1>1. FatInit => DriftInv
    BY Zenon, DriftStarts
<1>2. DriftInv /\ [FatNext]_fatVars => DriftInv'
    BY Zenon, DriftSteps
<1>3. DriftInv => MirrorDriftBounded
    BY Zenon, DriftMeasured
<1> QED
    BY <1>1, <1>2, <1>3, PTL DEF FatSpec

(* An abandoned device is not written.                                     *)
LEMMA FaultedLeavesDisk ==
    ASSUME DriftInv, [FatNext]_fatVars, fat_health = "Faulted", fat_health' = "Faulted"
    PROVE  disk' = disk \/ disk' \in fat_late
<1>1. CASE write_fat_entry
    BY <1>1, Zenon DEF write_fat_entry, write_sector
<1>2. CASE FatDriver /\ ~write_fat_entry
  <2>1. Locals(cpu) /\ Copies(disk) /\ (cpu.fe.copy # 1 => cpu.pc \in {"fat", "hint"})
      BY Zenon DEF DriftInv, DriverOK
  <2>2. PlainStep /\ cpu.pc # "fat"
      BY <1>2, <2>1, OtherwisePlain, Zenon
  <2> QED
      BY <2>2, Zenon DEF PlainStep, Reads, write_sector, FatStep
<1> QED
    BY <1>1, <1>2, Zenon DEF FatNext, FatHalted, fatVars, FatLateWrite, Restart

(* After a request has timed out the driver writes nothing more until the  *)
(* machine restarts: the disk changes only by the abandoned write itself.  *)
THEOREM QuarantineAlwaysHolds == FatSpec => QuarantineHolds
<1>1. FatInit => DriftInv
    BY Zenon, DriftStarts
<1>2. DriftInv /\ [FatNext]_fatVars => DriftInv'
    BY Zenon, DriftSteps
<1>3. /\ DriftInv /\ [FatNext]_fatVars
      => [fat_health = "Faulted" /\ fat_health' = "Faulted"
             => disk' = disk \/ disk' \in fat_late]_fatVars
    BY Zenon, FaultedLeavesDisk
<1> QED
    BY <1>1, <1>2, <1>3, PTL DEF FatSpec, QuarantineHolds

-----------------------------------------------------------------------------
(* Long names (Lfn).                                                       *)

(* A largest element is the maximum.                                       *)
LEMMA LargestIs ==
    ASSUME NEW S, S \subseteq Nat, NEW m \in S, \A y \in S : y <= m
    PROVE  Max(S) = m
<1> DEFINE P(x) == \A y \in S : x >= y
<1>1. P(m)
    BY Zenon
<1>2. \A x \in S : P(x) => x = m
    BY SMT
<1> QED
    BY <1>1, <1>2, Zenon DEF Max

(* A smallest element is the minimum.                                      *)
LEMMA SmallestIs ==
    ASSUME NEW S, S \subseteq Nat, NEW m \in S, \A y \in S : m <= y
    PROVE  Min(S) = m
<1> DEFINE P(x) == \A y \in S : x =< y
<1>1. P(m)
    BY Zenon
<1>2. \A x \in S : P(x) => x = m
    BY SMT
<1> QED
    BY <1>1, <1>2, Zenon DEF Min

(* A set of numbers that is not empty has a minimum.                       *)
LEMMA SmallestOf ==
    ASSUME NEW S, S \subseteq Nat, S # {}
    PROVE  Min(S) \in S /\ \A y \in S : Min(S) <= y
<1>1. PICK x \in S : \A y \in S : ~(<<y, x>> \in OpToRel(<, Nat))
    BY ZenonT(30), NatLessThanWellFounded, WFMin
<1>2. \A y \in S : x <= y
  <2>1. ASSUME NEW y \in S, y < x PROVE <<y, x>> \in OpToRel(<, Nat)
    <3>1. <<y, x>> \in Nat \X Nat /\ <<y, x>>[1] < <<y, x>>[2]
        BY Zenon, <2>1
    <3> QED
        BY <3>1, Zenon DEF OpToRel
  <2>2. \A y \in S : ~(y < x)
      BY <1>1, <2>1, Zenon
  <2> QED
      BY <2>2
<1>3. Min(S) = x
    BY ONLY Zenon, SmallestIs, <1>2, S \subseteq Nat, x \in S
<1> QED
    BY Zenon, <1>2, <1>3

(* A bounded set of numbers that is not empty has a largest element.       *)
LEMMA LargestOf ==
    ASSUME NEW n \in Nat, NEW S, S \subseteq 1 .. n, S # {}
    PROVE  Max(S) \in S
<1> DEFINE T == {n - x : x \in S}
<1>0. \A x \in S : n - x \in Nat
    OBVIOUS
<1>1. T \subseteq Nat /\ T # {}
    BY Zenon, <1>0
<1>2. Min(T) \in T /\ \A y \in T : Min(T) <= y
    BY Zenon, <1>1, SmallestOf
<1>3. PICK m \in S : Min(T) = n - m
    BY Zenon, <1>2
<1>4. ASSUME NEW y \in S PROVE y <= m
  <2>1. n - m <= n - y
      BY Zenon, <1>2, <1>3
  <2> HIDE DEF T
  <2> QED
      BY <2>1
<1>5. S \subseteq Nat
    OBVIOUS
<1> HIDE DEF T
<1> QED
    BY Zenon, <1>3, <1>4, <1>5, LargestIs

(* The character at i is in one of the n fragments.                        *)
LEMMA FragmentOf ==
    ASSUME NEW n \in Nat, NEW w \in Nat \ {0}, NEW i \in 1 .. n * w
    PROVE  ((i - 1) \div w) + 1 \in 1 .. n
<1> DEFINE q == (i - 1) \div w
<1>1. q \in Nat /\ i - 1 = w * q + ((i - 1) % w) /\ (i - 1) % w \in 0 .. w - 1
    OBVIOUS
<1> HIDE DEF q
<1>2. ASSUME q >= n PROVE FALSE
  <2>1. PICK d \in Nat : q = n + d
      BY <1>1, <1>2
  <2>2. w * q = w * n + w * d /\ w * d \in Nat
      BY <2>1, SMTT(30)
  <2>3. w * n = n * w /\ n * w \in Nat
      BY SMTT(30)
  <2> QED
      BY <1>1, <2>2, <2>3
<1>3. q < n
    BY <1>1, <1>2
<1> QED
    BY <1>1, <1>3 DEF q

(* The characters are read from the fragments only.                        *)
LEMMA SameChars ==
    ASSUME NEW n \in Nat, NEW f, NEW g, \A q \in 1 .. n : f[q] = g[q]
    PROVE  Chars(f, n) = Chars(g, n)
<1> DEFINE W == FRAGMENT_CHARS
           Q(i) == ((i - 1) \div W) + 1
           R(i) == ((i - 1) % W) + 1
<1>1. W \in Nat \ {0}
    BY Zenon, LfnAssumption
<1>2. \A i \in 1 .. n * W : Q(i) \in 1 .. n
    BY ONLY Zenon, <1>1, FragmentOf, n \in Nat
<1> HIDE DEF Q, R, W
<1>3. \A i \in 1 .. n * W : f[Q(i)][R(i)] = g[Q(i)][R(i)]
    BY <1>2, Zenon
<1>4. [i \in 1 .. n * W |-> f[Q(i)][R(i)]] = [i \in 1 .. n * W |-> g[Q(i)][R(i)]]
    BY <1>3, Zenon
<1> QED
    BY <1>4, Zenon DEF Chars, Q, R, W

(* long_name_matches compares up to the terminator: what it accepts is the *)
(* name.                                                                   *)
LEMMA MatchIsSameName ==
    ASSUME NEW L \in Nat, NEW chars, DOMAIN chars = 1 .. L,
           NEW N \in Nat, NEW name, DOMAIN name = 1 .. N
    PROVE  long_name_matches(chars, name) <=> SameName(Terminated(chars), name)
<1> DEFINE eq(i) == ascii_case_insensitive_eq(chars[i], name[i])
           stops == {i \in DOMAIN chars : \/ chars[i] = 0 \/ i \notin DOMAIN name \/ ~eq(i)}
           ends == {i \in DOMAIN chars : chars[i] = 0}
           Equal == /\ DOMAIN Terminated(chars) = DOMAIN name
                    /\ \A i \in DOMAIN Terminated(chars) :
                          ascii_case_insensitive_eq(Terminated(chars)[i], name[i])
<1>1. stops \subseteq Nat /\ ends \subseteq stops
    BY SMT
<1>2. CASE stops = {}
  <2>1. ends = {} /\ Terminated(chars) = chars
      BY <1>1, <1>2, Zenon DEF Terminated
  <2>2. long_name_matches(chars, name) <=> DOMAIN name = DOMAIN chars
      BY <1>2, Zenon DEF long_name_matches
  <2>3. \A i \in DOMAIN chars : eq(i)
      BY <1>2, Zenon
  <2> QED
      BY <2>1, <2>2, <2>3, Zenon DEF SameName
<1>3. CASE stops # {}
  <2> DEFINE m == Min(stops)
  <2>1. m \in stops /\ \A y \in stops : m <= y
      BY ONLY Zenon, <1>1, <1>3, SmallestOf
  <2>2. long_name_matches(chars, name) <=> (chars[m] = 0 /\ DOMAIN name = 1 .. m - 1)
      BY <1>3, Zenon DEF long_name_matches
  <2> HIDE DEF m, stops, eq
  <2>3. m \in 1 .. L /\ \A i \in 1 .. m - 1 : chars[i] # 0 /\ i \in DOMAIN name /\ eq(i)
    <3>1. m \in 1 .. L
        BY <2>1, Zenon DEF stops
    <3>2. \A i \in 1 .. m - 1 : i \in 1 .. L /\ i \notin stops
        BY <3>1, <2>1
    <3> QED
        BY <3>1, <3>2, Zenon DEF stops
  <2>4. CASE chars[m] = 0
    <3>1. m \in ends /\ \A y \in ends : m <= y
        BY <1>1, <2>1, <2>3, <2>4, Zenon
    <3>2. ends # {} /\ Min(ends) = m
      <4>1. ends \subseteq Nat
          BY <1>1, Zenon
      <4> HIDE DEF ends
      <4> QED
          BY ONLY Zenon, SmallestIs, <3>1, <4>1
    <3>3. Terminated(chars) = [i \in 1 .. m - 1 |-> chars[i]]
        BY <3>2, Zenon DEF Terminated
    <3>4. \A i \in 1 .. m - 1 : ascii_case_insensitive_eq(Terminated(chars)[i], name[i])
        BY <2>3, <3>3, Zenon DEF eq
    <3>5. DOMAIN Terminated(chars) = 1 .. m - 1
        BY <3>3, Zenon
    <3> QED
        BY <2>2, <2>4, <3>4, <3>5, Zenon DEF SameName
  <2>5. CASE chars[m] # 0
    <3>1. m \notin DOMAIN name \/ ~eq(m)
        BY <2>1, <2>5, Zenon DEF stops
    <3>2. SUFFICES ASSUME SameName(Terminated(chars), name) PROVE FALSE
        BY <2>2, <2>5, Zenon
    <3>3. CASE ends = {}
      <4>1. Terminated(chars) = chars
          BY <3>3, Zenon DEF Terminated
      <4> QED
          BY <3>1, <3>2, <4>1, <2>3, Zenon DEF SameName, eq
    <3>4. CASE ends # {}
      <4> DEFINE e == Min(ends)
      <4>1. e \in ends
        <5>1. ends \subseteq Nat
            BY <1>1, Zenon
        <5> HIDE DEF ends
        <5> QED
            BY ONLY Zenon, <5>1, <3>4, SmallestOf
      <4>2. Terminated(chars) = [i \in 1 .. e - 1 |-> chars[i]]
          BY <3>4, Zenon DEF Terminated
      <4> HIDE DEF e
      <4>3. e \in 1 .. L /\ m \in 1 .. e - 1
        <5>1. e \in 1 .. L /\ chars[e] = 0 /\ e \in stops
            BY <4>1, <1>1, Zenon
        <5>2. m <= e /\ m # e
            BY <5>1, <2>1, <2>5, Zenon
        <5> QED
            BY <5>1, <5>2, <2>3
      <4>4. Terminated(chars)[m] = chars[m] /\ DOMAIN Terminated(chars) = 1 .. e - 1
          BY <4>2, <4>3, Zenon
      <4> QED
          BY <3>1, <3>2, <4>3, <4>4, Zenon DEF SameName, eq
    <3> QED
        BY Zenon, <3>3, <3>4
  <2> QED
      BY Zenon, <2>4, <2>5
<1> QED
    BY Zenon, <1>2, <1>3

(* The locals of the scan before slot s.at say what the slots say.          *)
Collected(s) ==
    /\ s.have = {q \in 1 .. MAX_LFN_FRAGMENTS : Of(s.at, q) # {}}
    /\ DOMAIN s.fragments = 1 .. MAX_LFN_FRAGMENTS
    /\ \A q \in s.have : s.fragments[q] = dir[Max(Of(s.at, q))].chars

Vouched(s) ==
    \/ LastOf(s.at) = {} /\ s.sum = NONE /\ s.count = 0
    \/ /\ LastOf(s.at) # {} /\ s.count = Count(s.at) /\ s.count \in 1 .. MAX_LFN_FRAGMENTS
       /\ s.sum = dir[Max(LastOf(s.at))].sum /\ s.sum # NONE

Passed(s) ==
    /\ s.at \in 1 .. Len(dir) + 1
    /\ \A j \in 1 .. s.at - 1 : dir[j].kind # "end" /\ j \notin Matches

Looking(s) ==
    /\ s.end \in {"none", "directory", "found", "unread"}
    /\ s.end = "none" => Collected(s) /\ Vouched(s) /\ s.result = NONE /\ Passed(s)

Found(s) ==
    /\ s.end = "directory" => s.result = NONE /\ Matches = {}
    /\ s.end = "found" => Matches # {} /\ s.result = Min(Matches)
    /\ s.end = "unread" => s.result = NONE /\ \A k \in Matches : s.at <= k

Stored == /\ dir \in Seq(SlotKinds) /\ target \in Targets

LfnInv == Stored /\ Looking(scan) /\ Found(scan)

(* What a directory is made of.                                            *)
LEMMA DirFacts ==
    ASSUME Stored
    PROVE  /\ Len(dir) \in Nat /\ DOMAIN dir = 1 .. Len(dir)
           /\ \A k \in 1 .. Len(dir) : dir[k] \in DirSlot /\ dir[k] \in SlotKinds
           /\ MAX_LFN_FRAGMENTS \in Nat
    BY LfnAssumption DEF Stored

(* A fragment adds itself to the run before the next slot.                 *)
LEMMA RunGrows ==
    ASSUME Stored, NEW k \in 1 .. Len(dir), IsFragment(dir[k])
    PROVE  Run(k + 1) = Run(k) \cup {k}
<1> USE DirFacts
<1>1. ASSUME NEW j \in Run(k + 1) PROVE j \in Run(k) \cup {k}
    BY <1>1 DEF Run
<1>2. ASSUME NEW j \in Run(k) PROVE j \in Run(k + 1)
  <2>1. \A i \in j .. k : i = k \/ i \in j .. k - 1
      BY <1>2 DEF Run
  <2> QED
      BY <1>2, <2>1 DEF Run
<1>3. k \in Run(k + 1)
  <2>1. \A i \in k .. (k + 1) - 1 : i = k
      OBVIOUS
  <2> QED
      BY <2>1 DEF Run
<1> QED
    BY <1>1, <1>2, <1>3, Zenon

(* Any other slot ends the run.                                            *)
LEMMA RunStops ==
    ASSUME Stored, NEW k \in 1 .. Len(dir), ~IsFragment(dir[k])
    PROVE  Run(k + 1) = {}
    BY DirFacts DEF Run

(* The run before a slot is of earlier slots.                              *)
LEMMA RunBelow ==
    ASSUME Stored, NEW k \in 1 .. Len(dir) + 1, NEW j \in Run(k)
    PROVE  j \in 1 .. Len(dir) /\ j < k
    BY DirFacts DEF Run

(* The slot just scanned is the newest of its run.                         *)
LEMMA NewestIs ==
    ASSUME Stored, NEW k \in 1 .. Len(dir), NEW S, S \subseteq Run(k)
    PROVE  Max(S \cup {k}) = k
<1> USE DirFacts
<1>1. \A j \in S : j \in Nat /\ j <= k
  <2>1. \A j \in S : j \in 1 .. Len(dir) /\ j < k
    <3>1. k \in 1 .. Len(dir) + 1
        OBVIOUS
    <3> QED
        BY <3>1, RunBelow, Zenon
  <2> QED
      BY <2>1
<1>2. /\ S \cup {k} \subseteq Nat /\ k \in S \cup {k}
      /\ \A y \in S \cup {k} : y <= k
    BY <1>1
<1> QED
    BY <1>2, LargestIs, Zenon

(* A fragment read into the buffer: the buffer holds the newest copy of    *)
(* every fragment of the run, and the checksum and the count are of the    *)
(* newest last fragment.                                                   *)
LEMMA CollectKeeps ==
    ASSUME Stored, NEW s, s.at \in 1 .. Len(dir), Collected(s), Vouched(s),
           IsFragment(dir[s.at])
    PROVE  Collected(Collect(s, dir[s.at])) /\ Vouched(Collect(s, dir[s.at]))
<1> USE DirFacts
<1> DEFINE k == s.at
           q0 == dir[k].seq
           t == Collect(s, dir[k])
<1>1. t.at = k + 1 /\ Run(k + 1) = Run(k) \cup {k}
    BY Zenon, RunGrows DEF Collect, Advance
<1>2. q0 \in Nat /\ q0 > 0
    BY Zenon DEF IsFragment, DirSlot
<1>3. \A q : Of(k + 1, q) = Of(k, q) \cup (IF q = q0 THEN {k} ELSE {})
    BY <1>1, Zenon DEF Of
<1>4. CASE q0 > MAX_LFN_FRAGMENTS
  <2>1. /\ t.have = s.have /\ t.fragments = s.fragments
        /\ t.sum = s.sum /\ t.count = s.count
      BY Zenon, <1>4 DEF Collect, Advance
  <2>2. \A q \in 1 .. MAX_LFN_FRAGMENTS : q # q0
      BY <1>2, <1>4
  <2>3. \A q \in 1 .. MAX_LFN_FRAGMENTS : Of(k + 1, q) = Of(k, q)
      BY <1>3, <2>2, Zenon
  <2>4. LastOf(k + 1) = LastOf(k)
    <3>1. ~(q0 <= MAX_LFN_FRAGMENTS)
        BY <1>4, <1>2
    <3> QED
        BY ZenonT(30), <1>1, <3>1 DEF LastOf
  <2>5. Collected(t)
    <3>1. t.have = {q \in 1 .. MAX_LFN_FRAGMENTS : Of(t.at, q) # {}}
        BY <1>1, <2>1, <2>3, Zenon DEF Collected
    <3>2. \A q \in t.have : t.fragments[q] = dir[Max(Of(t.at, q))].chars
        BY <1>1, <2>1, <2>3, Zenon DEF Collected
    <3> QED
        BY <2>1, <3>1, <3>2, Zenon DEF Collected
  <2>6. Vouched(t)
      BY ZenonT(30), <1>1, <2>1, <2>4 DEF Vouched, Count
  <2> QED
      BY Zenon, <2>5, <2>6
<1>5. CASE q0 <= MAX_LFN_FRAGMENTS
  <2>1. /\ t.have = s.have \cup {q0}
        /\ t.fragments = [s.fragments EXCEPT ![q0] = dir[k].chars]
        /\ t.sum = IF dir[k].last THEN dir[k].sum ELSE s.sum
        /\ t.count = IF dir[k].last THEN q0 ELSE s.count
      BY <1>2, <1>5 DEF Collect, Advance
  <2>2. q0 \in 1 .. MAX_LFN_FRAGMENTS
      BY <1>2, <1>5
  <2>3. Of(k + 1, q0) = Of(k, q0) \cup {k} /\ \A q : q # q0 => Of(k + 1, q) = Of(k, q)
      BY <1>3, Zenon
  <2>4. Max(Of(k + 1, q0)) = k
    <3>1. Of(k, q0) \subseteq Run(k) /\ k \in 1 .. Len(dir)
        BY Zenon DEF Of
    <3> HIDE DEF k, q0
    <3> QED
        BY <2>3, <3>1, NewestIs, Zenon
  <2>5. Collected(t)
    <3>1. t.have = {q \in 1 .. MAX_LFN_FRAGMENTS : Of(t.at, q) # {}}
        BY ZenonT(30), <1>1, <2>1, <2>2, <2>3 DEF Collected
    <3>2. ASSUME NEW q \in t.have PROVE t.fragments[q] = dir[Max(Of(t.at, q))].chars
      <4>1. CASE q = q0
        <5>1. t.fragments[q0] = dir[k].chars
            BY <2>1, <2>2, Zenon DEF Collected
        <5> QED
            BY <4>1, <5>1, <1>1, <2>4, Zenon
      <4>2. CASE q # q0
        <5>1. q \in s.have /\ q \in 1 .. MAX_LFN_FRAGMENTS
            BY <4>2, <2>1, Zenon DEF Collected
        <5>2. t.fragments[q] = s.fragments[q]
            BY <4>2, <2>1, <5>1, Zenon DEF Collected
        <5> QED
            BY ZenonT(30), <4>2, <5>1, <5>2, <1>1, <2>3 DEF Collected
      <4> QED
          BY Zenon, <4>1, <4>2
    <3>3. DOMAIN t.fragments = 1 .. MAX_LFN_FRAGMENTS
        BY <2>1, Zenon DEF Collected
    <3> QED
        BY <3>1, <3>2, <3>3, Zenon DEF Collected
  <2>6. Vouched(t)
    <3>1. CASE dir[k].last
      <4>1. LastOf(k + 1) = LastOf(k) \cup {k}
          BY <1>1, <1>5, <3>1, Zenon DEF LastOf
      <4>2. Max(LastOf(k + 1)) = k
        <5>1. LastOf(k) \subseteq Run(k) /\ k \in 1 .. Len(dir)
            BY Zenon DEF LastOf
        <5> HIDE DEF k
        <5> QED
            BY <4>1, <5>1, NewestIs, Zenon
      <4>3. dir[k].sum # NONE
          BY LfnAssumption, Zenon DEF IsFragment
      <4> QED
          BY ZenonT(30), <1>1, <2>1, <2>2, <3>1, <4>1, <4>2, <4>3 DEF Vouched, Count
    <3>2. CASE ~dir[k].last
      <4>1. LastOf(k + 1) = LastOf(k)
          BY <1>1, <3>2, Zenon DEF LastOf
      <4> QED
          BY <1>1, <2>1, <3>2, <4>1, Zenon DEF Vouched, Count
    <3> QED
        BY Zenon, <3>1, <3>2
  <2> QED
      BY Zenon, <2>5, <2>6
<1> QED
    BY SMTT(30), <1>2, <1>4, <1>5

(* A slot that is no fragment empties the buffer.                          *)
LEMMA EndRunKeeps ==
    ASSUME Stored, NEW s, s.at \in 1 .. Len(dir), Collected(s), ~IsFragment(dir[s.at])
    PROVE  Collected(EndRun(s)) /\ Vouched(EndRun(s))
<1> DEFINE t == EndRun(s)
<1>1. /\ t.at = s.at + 1 /\ t.have = {} /\ t.sum = NONE /\ t.count = 0
      /\ t.fragments = s.fragments
    BY Zenon DEF EndRun, Advance
<1>2. Run(s.at + 1) = {}
    BY RunStops, Zenon
<1>3. LastOf(t.at) = {} /\ \A q : Of(t.at, q) = {}
    BY <1>1, <1>2, Zenon DEF LastOf, Of
<1> HIDE DEF t
<1>4. Collected(t)
    BY <1>1, <1>3, Zenon DEF Collected
<1>5. Vouched(t)
    BY <1>1, <1>3, Zenon DEF Vouched
<1> QED
    BY Zenon, <1>4, <1>5 DEF t

(* A long name is accepted, strays included, on the word of the last       *)
(* fragment.                                                               *)
Accepted(k) == Whole(k) /\ dir[Max(LastOf(k))].sum = dir[k].sum

(* An accepted name has the checksum on every fragment, or is a stray.     *)
LEMMA AcceptedIs ==
    ASSUME Stored, NEW k \in 1 .. Len(dir)
    PROVE  Accepted(k) <=> Named(k) \/ Stray(k)
<1>1. ASSUME LastOf(k) # {} PROVE Max(LastOf(k)) \in Run(k)
  <2>1. LastOf(k) \subseteq Run(k)
      BY Zenon DEF LastOf
  <2>2. \A j \in LastOf(k) : j \in 1 .. Len(dir)
    <3>1. k \in 1 .. Len(dir) + 1
        BY DirFacts
    <3> QED
        BY Zenon, <2>1, <3>1, RunBelow
  <2>3. LastOf(k) \subseteq 1 .. Len(dir)
      BY Zenon, <2>2
  <2>4. Max(LastOf(k)) \in LastOf(k)
      BY Zenon, <1>1, <2>3, DirFacts, LargestOf
  <2> QED
      BY Zenon, <2>1, <2>4
<1> QED
    BY Zenon, <1>1 DEF Accepted, Named, Stray, Whole

(* The buffer is complete before exactly the short entries that have an    *)
(* accepted long name.                                                     *)
LEMMA CompleteIsNamed ==
    ASSUME Stored, NEW s, s.at \in 1 .. Len(dir), Collected(s), Vouched(s)
    PROVE  Complete(s, dir[s.at]) <=> Accepted(s.at)
<1> DEFINE k == s.at
<1>1. CASE LastOf(k) = {}
  <2>1. s.sum = NONE
      BY <1>1, Zenon DEF Vouched
  <2> QED
      BY <1>1, <2>1, Zenon DEF Complete, Accepted, Whole
<1>2. CASE LastOf(k) # {}
  <2>1. /\ s.count = Count(k) /\ s.count \in 1 .. MAX_LFN_FRAGMENTS
        /\ s.sum = dir[Max(LastOf(k))].sum /\ s.sum # NONE
      BY ZenonT(30), <1>2 DEF Vouched
  <2>2. s.count > 0 /\ \A i \in 1 .. s.count : i \in 1 .. MAX_LFN_FRAGMENTS
      BY <2>1, DirFacts
  <2>3. 1 .. s.count \subseteq s.have <=> \A i \in 1 .. s.count : Of(k, i) # {}
      BY <2>2, Zenon DEF Collected
  <2> QED
      BY <1>2, <2>1, <2>2, <2>3, Zenon DEF Complete, Accepted, Whole
<1> QED
    BY Zenon, <1>1, <1>2

(* The test that ends the scan succeeds on exactly the slots that match.   *)
LEMMA MatchIsFound ==
    ASSUME Stored, NEW s, s.at \in 1 .. Len(dir), Collected(s), Vouched(s), Passed(s),
           dir[s.at].kind # "end"
    PROVE  (Complete(s, dir[s.at]) /\ long_name_matches(Chars(s.fragments, s.count), target))
             <=> s.at \in Matches
<1> USE DirFacts
<1> DEFINE k == s.at
           g == [i \in 1 .. Count(k) |-> dir[Max(Of(k, i))].chars]
<1>1. Complete(s, dir[k]) <=> Accepted(k)
    BY CompleteIsNamed, Zenon
<1>2. k \in DOMAIN dir /\ \A j \in 1 .. k : dir[j].kind # "end"
  <2>1. \A j \in 1 .. k : j = k \/ j \in 1 .. k - 1
      OBVIOUS
  <2> QED
      BY <2>1, Zenon DEF Passed
<1>3. ASSUME Accepted(k)
      PROVE  long_name_matches(Chars(s.fragments, s.count), target)
               <=> SameName(NameAt(k), target)
  <2>1. s.count = Count(k) /\ s.count \in Nat /\ 1 .. s.count \subseteq s.have
    <3>1. LastOf(k) # {} /\ 1 .. s.count \subseteq s.have
        BY <1>1, <1>3, Zenon DEF Accepted, Whole, Complete
    <3>2. s.count = Count(k) /\ s.count \in 1 .. MAX_LFN_FRAGMENTS
        BY <3>1, Zenon DEF Vouched
    <3> QED
        BY <3>1, <3>2
  <2>2. \A q \in 1 .. s.count : s.fragments[q] = g[q]
      BY <2>1, Zenon DEF Collected
  <2> HIDE DEF g
  <2>3. Chars(s.fragments, s.count) = Chars(g, s.count)
      BY ZenonT(30), <2>1, <2>2, SameChars
  <2>4. NameAt(k) = Terminated(Chars(g, s.count))
      BY <2>1, Zenon DEF NameAt, g
  <2>5. /\ s.count * FRAGMENT_CHARS \in Nat
        /\ DOMAIN Chars(g, s.count) = 1 .. s.count * FRAGMENT_CHARS
      BY <2>1, LfnAssumption DEF Chars
  <2>6. Len(target) \in Nat /\ DOMAIN target = 1 .. Len(target)
      BY LfnAssumption DEF Stored
  <2> QED
      BY ZenonT(30), <2>3, <2>4, <2>5, <2>6, MatchIsSameName
<1> QED
    BY ZenonT(30), <1>1, <1>2, <1>3, AcceptedIs DEF Matches

(* A match is a short entry before the end of the directory.               *)
LEMMA FragmentsNeverMatch ==
    ASSUME Stored, NEW k \in Matches
    PROVE  k \in 1 .. Len(dir) /\ ~IsFragment(dir[k]) /\ \A j \in 1 .. k : dir[j].kind # "end"
    BY DirFacts, Zenon DEF Matches, Named, Stray, Whole, IsFragment

(* A slot that is no match is left behind.                                 *)
LEMMA PassedOn ==
    ASSUME Stored, NEW s, Passed(s), s.at \in 1 .. Len(dir), dir[s.at].kind # "end",
           s.at \notin Matches, NEW t, t.at = s.at + 1
    PROVE  Passed(t)
<1>1. t.at \in 1 .. Len(dir) + 1 /\ \A j \in 1 .. t.at - 1 : j = s.at \/ j \in 1 .. s.at - 1
    BY SMTT(30), DirFacts
<1> QED
    BY <1>1, Zenon DEF Passed

(* One slot scanned: what the scan knows stays true, and what it returns   *)
(* is right.                                                               *)
LEMMA ScanSlotKeeps ==
    ASSUME Stored, NEW s, s.end = "none", Looking(s), s.at \in 1 .. Len(dir)
    PROVE  LET t == ScanSlot(s, dir[s.at]) IN Looking(t) /\ Found(t)
<1> USE DirFacts
<1> DEFINE k == s.at
           t == ScanSlot(s, dir[k])
<1>0. Collected(s) /\ Vouched(s) /\ s.result = NONE /\ Passed(s)
    BY Zenon DEF Looking
<1>1. CASE dir[k].kind = "end"
  <2>1. t.end = "directory" /\ t.result = NONE
      BY Zenon, <1>1 DEF ScanSlot, Leave
  <2>2. Matches = {}
    <3>1. ASSUME NEW m \in Matches PROVE FALSE
      <4>1. m \in 1 .. Len(dir) /\ \A j \in 1 .. m : dir[j].kind # "end"
          BY FragmentsNeverMatch, Zenon
      <4>2. m \notin 1 .. k - 1
          BY <1>0, <3>1, Zenon DEF Passed
      <4>3. k \in 1 .. m
          BY <4>1, <4>2
      <4> QED
          BY <1>1, <4>1, <4>3, Zenon
    <3> QED
        BY <3>1, Zenon
  <2> QED
      BY Zenon, <2>1, <2>2 DEF Looking, Found
<1>2. CASE dir[k].kind # "end" /\ IsFragment(dir[k])
  <2>1. t = Collect(s, dir[k])
      BY ZenonT(30), <1>2 DEF ScanSlot
  <2>2. t.at = k + 1 /\ t.end = "none" /\ t.result = NONE
      BY <2>1 DEF Collect, Advance
  <2>3. Collected(t) /\ Vouched(t)
      BY <1>0, <1>2, <2>1, CollectKeeps, Zenon
  <2>4. Passed(t)
    <3>1. k \notin Matches
        BY ZenonT(30), <1>2, FragmentsNeverMatch
    <3> HIDE DEF t
    <3> QED
        BY ZenonT(30), <1>0, <1>2, <2>2, <3>1, PassedOn
  <2> QED
      BY Zenon, <2>2, <2>3, <2>4 DEF Looking, Found
<1>3. CASE dir[k].kind # "end" /\ ~IsFragment(dir[k]) /\ k \in Matches
  <2>1. t = Leave(s, "found", k)
      BY ZenonT(30), <1>0, <1>3, MatchIsFound DEF ScanSlot
  <2>2. t.end = "found" /\ t.result = k
      BY <2>1 DEF Leave
  <2>3. Min(Matches) = k
    <3>1. Matches \subseteq Nat
        BY DEF Matches
    <3>2. \A m \in Matches : k <= m
      <4>1. \A m \in Matches : m \in Nat /\ m >= 1 /\ m \notin 1 .. k - 1
          BY <1>0 DEF Matches, Passed
      <4> QED
          BY <4>1
    <3> HIDE DEF k
    <3> QED
        BY ONLY ZenonT(30), <1>3, <3>1, <3>2, SmallestIs
  <2> QED
      BY Zenon, <1>3, <2>2, <2>3 DEF Looking, Found
<1>4. CASE dir[k].kind # "end" /\ ~IsFragment(dir[k]) /\ k \notin Matches
  <2>1. t = EndRun(s)
      BY ZenonT(30), <1>0, <1>4, MatchIsFound DEF ScanSlot
  <2>2. t.at = k + 1 /\ t.end = "none" /\ t.result = NONE
      BY <2>1 DEF EndRun, Advance
  <2>3. Collected(t) /\ Vouched(t)
      BY <1>0, <1>4, <2>1, EndRunKeeps, Zenon
  <2>4. Passed(t)
    <3> HIDE DEF t
    <3> QED
        BY <1>0, <1>4, <2>2, PassedOn, Zenon
  <2> QED
      BY Zenon, <2>2, <2>3, <2>4 DEF Looking, Found
<1> QED
    BY <1>1, <1>2, <1>3, <1>4, Zenon

(* Every step of the scan keeps the invariant.                             *)
LEMMA LfnSteps ==
    ASSUME LfnInv, [LfnNext]_lfnVars
    PROVE  LfnInv'
<1> USE DirFacts
<1>1. ASSUME dir' = dir, target' = target, Looking(scan'), Found(scan')
      PROVE  LfnInv'
  <2>0. Stored
      BY Zenon DEF LfnInv
  <2>1. Stored'
      BY <1>1, <2>0, Zenon DEF Stored
  <2>2. \A k : Run(k)' = Run(k)
      BY <1>1, Zenon DEF Run, IsFragment
  <2>3. \A k, q : Of(k, q)' = Of(k, q)
      BY <1>1, <2>2, Zenon DEF Of
  <2>4. \A k : LastOf(k)' = LastOf(k) /\ Count(k)' = Count(k)
      BY <1>1, <2>2, Zenon DEF LastOf, Count
  <2>5. Matches' = Matches
    <3>0. \A k : Whole(k)' <=> Whole(k)
        BY <1>1, <2>3, <2>4, Zenon DEF Whole
    <3>1. \A k : (Named(k)' <=> Named(k)) /\ (Stray(k)' <=> Stray(k))
        BY <1>1, <2>2, <2>4, <3>0, Zenon DEF Named, Stray
    <3>2. \A k : NameAt(k)' = NameAt(k)
      <4> TAKE k
      <4>1. [i \in 1 .. Count(k)' |-> dir'[Max(Of(k, i)')].chars]
              = [i \in 1 .. Count(k) |-> dir[Max(Of(k, i))].chars]
          BY <1>1, <2>3, <2>4, Zenon
      <4> QED
          BY <2>4, <4>1, Zenon DEF NameAt
    <3> QED
        BY <1>1, <3>1, <3>2, Zenon DEF Matches
  <2>6. Looking(scan)'
      BY <1>1, <2>3, <2>4, <2>5, Zenon DEF Looking, Collected, Vouched, Passed
  <2>7. Found(scan)'
      BY <1>1, <2>5, Zenon DEF Found
  <2> QED
      BY <2>1, <2>6, <2>7, Zenon DEF LfnInv
<1>2. CASE find_entry_by_long_name
  <2>0. Stored /\ Looking(scan) /\ scan.end = "none" /\ dir' = dir /\ target' = target
      BY <1>2, Zenon DEF LfnInv, find_entry_by_long_name
  <2>1. CASE scan.at > Len(dir)
    <3>1. scan' = Leave(scan, "directory", NONE)
        BY <1>2, <2>1, Zenon DEF find_entry_by_long_name
    <3>2. scan'.end = "directory" /\ scan'.result = NONE
        BY Zenon, <3>1 DEF Leave
    <3>3. Matches = {}
      <4>1. Passed(scan)
          BY <2>0, Zenon DEF Looking
      <4>2. \A m \in DOMAIN dir : m \in 1 .. scan.at - 1
          BY <2>0, <2>1, <4>1 DEF Passed
      <4> QED
          BY <4>1, <4>2, Zenon DEF Matches, Passed
    <3> QED
        BY Zenon, <1>1, <2>0, <3>2, <3>3 DEF Looking, Found
  <2>2. CASE ~(scan.at > Len(dir))
    <3>1. scan' = ScanSlot(scan, dir[scan.at])
        BY <1>2, <2>2, Zenon DEF find_entry_by_long_name
    <3>2. scan.at \in 1 .. Len(dir)
        BY <2>0, <2>2 DEF Looking, Passed
    <3>3. Looking(scan') /\ Found(scan')
        BY ZenonT(30), <2>0, <3>1, <3>2, ScanSlotKeeps
    <3> QED
        BY <1>1, <2>0, <3>3, Zenon
  <2> QED
      BY Zenon, <2>1, <2>2
<1>3. CASE Unread
  <2>0. Stored /\ Passed(scan) /\ dir' = dir /\ target' = target
      BY <1>3, Zenon DEF LfnInv, Looking, Unread
  <2>1. scan'.end = "unread" /\ scan'.result = NONE /\ scan'.at = scan.at
      BY Zenon, <1>3 DEF Unread, Leave
  <2>2. \A k \in Matches : scan.at <= k
    <3>1. \A m \in Matches : m \in Nat /\ m >= 1 /\ m \notin 1 .. scan.at - 1
        BY <2>0 DEF Matches, Passed
    <3>2. scan.at \in Nat
        BY <2>0 DEF Passed
    <3> QED
        BY <3>1, <3>2
  <2> QED
      BY Zenon, <1>1, <2>0, <2>1, <2>2 DEF Looking, Found
<1>4. CASE Scanned \/ UNCHANGED lfnVars
  <2>1. dir' = dir /\ target' = target /\ scan' = scan
      BY <1>4, Zenon DEF Scanned, lfnVars
  <2> QED
      BY <1>1, <2>1, Zenon DEF LfnInv
<1> QED
    BY <1>2, <1>3, <1>4, Zenon DEF LfnNext

(* The scan starts at the first slot with an empty buffer.                 *)
LEMMA LfnStarts ==
    ASSUME LfnInit
    PROVE  LfnInv
<1>1. Stored
    BY LfnAssumption DEF LfnInit, Stored
<1>2. /\ scan.at = 1 /\ scan.have = {} /\ scan.sum = NONE /\ scan.count = 0
      /\ scan.end = "none" /\ scan.result = NONE
      /\ DOMAIN scan.fragments = 1 .. MAX_LFN_FRAGMENTS
    BY Zenon DEF LfnInit, Fresh
<1>3. 1 .. scan.at - 1 = {} /\ scan.at \in 1 .. Len(dir) + 1
    BY <1>1, <1>2, DirFacts
<1>4. Run(scan.at) = {}
    BY <1>3, Zenon DEF Run
<1>5. LastOf(scan.at) = {} /\ \A q : Of(scan.at, q) = {}
    BY <1>4, Zenon DEF LastOf, Of
<1>6. Collected(scan) /\ Vouched(scan)
    BY <1>2, <1>5, Zenon DEF Collected, Vouched
<1>7. Passed(scan)
    BY <1>3, Zenon DEF Passed
<1> QED
    BY Zenon, <1>1, <1>2, <1>6, <1>7 DEF LfnInv, Looking, Found

(* For every directory, every order of fragments and every width of them,  *)
(* find_entry_by_long_name returns the first entry whose long name is the  *)
(* one asked for, and none when there is none; stopped by a failed read it *)
(* returns none and has passed over no such entry. A name vouched for by   *)
(* its last fragment alone counts too (Stray), which its doc comment does  *)
(* not allow.                                                              *)
THEOREM ScanAlwaysFindsTheName == LfnSpec => []ScanFindsTheName
<1>1. LfnInv => ScanFindsTheName
    BY Zenon DEF LfnInv, Found, ScanFindsTheName
<1> QED
    BY <1>1, LfnStarts, LfnSteps, PTL DEF LfnSpec
=============================================================================
