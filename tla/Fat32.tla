------------------------------- MODULE Fat32 -------------------------------
(***************************************************************************)
(* The FAT32 volume as blk-driver-host writes it: run_fat32_proof of       *)
(* blk-driver-host/src/main.rs and the functions it calls, down to one     *)
(* step per sector written, on a device whose requests may fail.           *)
(*                                                                         *)
(* A sector write completes, or reports an error status (the sector then   *)
(* holds the old contents or the new ones), or times out: the device is    *)
(* quarantined, and the write may still land later.  The machine may stop  *)
(* between any two steps and boot again on the disk it left.               *)
(*                                                                         *)
(* A cluster is one sector, as on the driver's volume.  File contents are  *)
(* counted in halves of a sector, enough to tell a partial write from a    *)
(* whole one.  Cluster numbers 0 and 1 are the two reserved FAT entries.   *)
(***************************************************************************)
EXTENDS Naturals, Sequences, FiniteSetsExt

CONSTANTS
    CLUSTERS,           \* the last cluster number
    Volumes,            \* volumes at first: the free clusters, and the FSInfo hint
    FSINFO_UNKNOWN,     \* the hint of a volume that does not maintain it
    NUM_FATS,           \* num_fats
    WALK,               \* bound of every chain walk (1024)
    MAX_FAULTS,         \* failing requests in this instance
    MAX_RESTARTS        \* machine stops in this instance

ASSUME FatAssumption == CLUSTERS \in Nat /\ NUM_FATS \in Nat \ {0}

VARIABLES
    disk,               \* [fat, data, free_count]: what is on the volume
    fat_health,             \* QueueHealth
    fat_late,               \* the disk as a timed-out write would leave it
    cpu,                \* where the driver is, and its locals
    result,             \* the byte at BLK_FAT32_RESULT_OFFSET
    faults, restarts,   \* how many so far
    torn                \* history: a restart found two chains meeting, or one in free space

fatVars == <<disk, fat_health, fat_late, cpu, result, faults, restarts, torn>>

-----------------------------------------------------------------------------
(* The volume.                                                             *)

FREE == 0
CHAIN_EOC_MARKER == CLUSTERS + 1
BAD_CLUSTER == 1                            \* an entry neither free nor a link
is_end_of_chain(entry) == entry >= CHAIN_EOC_MARKER
Cluster == 2 .. CLUSTERS

ROOT == 2
SLOTS == 10                                 \* directory entries in a sector

Slot(kind, name, first, size) == [kind |-> kind, name |-> name, first |-> first, size |-> size]
File(name, first, size) == Slot("file", name, first, size)
DELETED_ENTRY_MARKER == Slot("deleted", "", 0, 0)
EndOfDirectory == Slot("end", "", 0, 0)
Junk == [i \in 1 .. SLOTS |-> Slot("junk", "", 0, 0)]   \* file data read as entries
Zeroed == [i \in 1 .. SLOTS |-> EndOfDirectory]

(* What a half holds: the fixture's data, or a proof's pattern.            *)
Fix(c, h) == <<"fixture", 2 * c + h>>
Tag(pattern) == <<pattern, 0>>

(* One sector: two halves of file data, or a directory's entries.          *)
Content(a, b) == [half |-> <<a, b>>, slots |-> Junk]
Entries(s) == [half |-> <<Tag("dir"), Tag("dir")>>, slots |-> s]

(* make_fat32_image.sh: a root directory with no slot left.                *)
Fixture ==
    << File("HELLO", 3, 1), Slot("dir", "SUBDIR", 4, 0), File("BIG", 6, 4),
       Slot("lfn", "long-filename-test", 0, 0), File("LONG", 8, 1), File("WRITE", 9, 2),
       File("PARTIAL", 10, 2), File("GROW", 11, 2), File("MULTI", 12, 2), File("DELETE", 13, 1) >>

FixtureData(c) ==
    CASE c = ROOT -> Entries(Fixture)
      [] c = 4 -> Entries([Zeroed EXCEPT ![1] = File("NESTED", 5, 1)])
      [] c \in (3 .. 13) \ {4} -> Content(Fix(c, 1), Fix(c, 2))
      [] OTHER -> Content(Tag(""), Tag(""))

FixtureFat(v, c) ==
    CASE c = 6 -> 7
      [] c \in v.free -> FREE
      [] c > 13 /\ c \notin v.free -> BAD_CLUSTER
      [] OTHER -> CHAIN_EOC_MARKER

Disk0(v) == [fat |-> [k \in 1 .. NUM_FATS |-> [c \in 0 .. CLUSTERS |-> FixtureFat(v, c)]],
             data |-> [c \in Cluster |-> FixtureData(c)],
             free_count |-> v.free_count]

-----------------------------------------------------------------------------
(* Reading: every function takes the disk as the reads find it.            *)

next_cluster_in_chain(d, c) == d.fat[1][c]

(* The clusters a walk from c visits; cluster_to_sector stops it at a      *)
(* reserved number, and the walk's bound on a chain that never ends.       *)
Trail(d, c) ==
    LET hop == [x \in 0 .. CHAIN_EOC_MARKER |->
                    IF x \in Cluster THEN next_cluster_in_chain(d, x) ELSE FREE]
        walk[n \in 1 .. WALK] == IF n = 1 THEN c ELSE hop[walk[n - 1]]
        Usable(x) == x \in Cluster
    IN  SelectSeq([n \in 1 .. WALK |-> walk[n]], Usable)

(* The growing proofs' own walk to a chain's last cluster, which stops at  *)
(* an end marker and at nothing else.                                      *)
LastCluster(d, c) ==
    LET hop == [x \in 0 .. CLUSTERS |-> LET next == next_cluster_in_chain(d, x)
                                        IN  IF is_end_of_chain(next) THEN x ELSE next]
        walk[n \in 0 .. WALK] == IF n = 0 THEN c ELSE hop[walk[n - 1]]
    IN  walk[WALK]

(* The places of a directory's entries, in scan order.                     *)
Places(d, dir_cluster) ==
    LET t == Trail(d, dir_cluster)
    IN  [k \in 1 .. Len(t) * SLOTS |-> <<t[((k - 1) \div SLOTS) + 1], ((k - 1) % SLOTS) + 1>>]

EntryAt(d, place) == d.data[place[1]].slots[place[2]]
Nowhere == <<0, 0>>

(* The first place that satisfies Wanted, if no end marker precedes it.    *)
FirstPlace(d, dir_cluster, Wanted(_)) ==
    LET p == Places(d, dir_cluster)
        hits == {k \in DOMAIN p : Wanted(p[k])
                    /\ \A j \in 1 .. k - 1 : EntryAt(d, p[j]) # EndOfDirectory}
    IN  IF hits = {} THEN Nowhere ELSE p[Min(hits)]

find_entry_with_location(d, dir_cluster, name) ==
    LET Named(place) == /\ EntryAt(d, place).kind \in {"file", "dir"}
                        /\ EntryAt(d, place).name = name
    IN  FirstPlace(d, dir_cluster, Named)

(* One fragment holds the whole name here; module Lfn has the general scan.*)
long_name_entry(d, dir_cluster, name) ==
    LET p == Places(d, dir_cluster)
        Follows(place) ==
            \E k \in 2 .. Len(p) : /\ p[k] = place
                                   /\ EntryAt(d, place).kind = "file"
                                   /\ EntryAt(d, p[k - 1]) = Slot("lfn", name, 0, 0)
    IN  FirstPlace(d, dir_cluster, Follows)

find_reusable_slot(d, dir_cluster) ==
    LET Reusable(place) == EntryAt(d, place) \in {DELETED_ENTRY_MARKER, EndOfDirectory}
        p == Places(d, dir_cluster)
        hits == {k \in DOMAIN p : Reusable(p[k])}
    IN  IF hits = {} THEN Nowhere ELSE p[Min(hits)]

read_file_contents(d, entry) ==
    LET t == Trail(d, entry.first)
        halves == [h \in 1 .. 2 * Len(t) |-> d.data[t[(h + 1) \div 2]].half[((h - 1) % 2) + 1]]
    IN  SubSeq(halves, 1, Min({entry.size, Len(halves)}))

allocate_free_cluster(d) ==
    LET free == {c \in Cluster : d.fat[1][c] = FREE} IN IF free = {} THEN FREE ELSE Min(free)

(* A lookup followed by a read: what the proofs compare with.              *)
Reading(d, name) ==
    LET place == find_entry_with_location(d, ROOT, name)
    IN  IF place = Nowhere THEN <<Tag("none")>> ELSE read_file_contents(d, EntryAt(d, place))

(* The entries of the root directory and of SUBDIR that are in use.        *)
Live(d) ==
    {place \in Range(Places(d, ROOT)) \cup Range(Places(d, 4)) :
        EntryAt(d, place).kind \in {"file", "dir"}}

(* What a chain holds, by the place of its entry; <<1, 1>> is the root's.  *)
Chains(d) ==
    [p \in Live(d) \cup {<<1, 1>>} |->
        Range(Trail(d, IF p = <<1, 1>> THEN ROOT ELSE EntryAt(d, p).first))]

Reachable(d) == UNION Range(Chains(d))
Dangling(d) == \E c \in Reachable(d) : d.fat[1][c] = FREE
Shared(d) == LET ch == Chains(d) IN \E p, q \in DOMAIN ch : p # q /\ ch[p] \cap ch[q] # {}

-----------------------------------------------------------------------------
(* The driver: pc says where it is, the rest are its locals.               *)

Proofs == <<"fixtures", "write", "partial", "grow", "multi", "delete", "create", "growdir",
            "fsinfo">>

NoEntry == [cl |-> FREE, val |-> FREE, copy |-> 1, was |-> FREE]

(* Proof n about to start; pass: every earlier one succeeded.              *)
At(n, pass) ==
    [pc |-> IF n > Len(Proofs) THEN "report" ELSE Proofs[n], proof |-> n, pass |-> pass,
     good |-> TRUE,         \* the writes of this proof so far
     res |-> TRUE,          \* what the last call returned
     at |-> Nowhere, last |-> FREE, new |-> FREE, out |-> <<>>, want |-> 0, i |-> 0,
     fe |-> NoEntry, ret |-> "", back |-> ""]

Finish(s, ok) == At(s.proof + 1, s.pass /\ ok)
Goto(s, pc, ok) == [s EXCEPT !.pc = pc, !.good = @ /\ ok]

FatInit ==
    /\ \E v \in Volumes : disk = Disk0(v)
    /\ fat_health = "Healthy"
    /\ fat_late = {}
    /\ cpu = At(1, TRUE)
    /\ result = "none"
    /\ faults = 0
    /\ restarts = 0
    /\ torn = FALSE

(* One or more sector reads: the driver goes on to yes with the values the *)
(* disk holds, or to no when a request fails.                              *)
Reads(yes, no) ==
    /\ \/ /\ fat_health = "Healthy"
          /\ cpu' = yes
          /\ UNCHANGED <<fat_health, faults>>
       \/ /\ fat_health = "Healthy"
          /\ faults < MAX_FAULTS
          /\ faults' = faults + 1
          /\ fat_health' \in {"Healthy", "Faulted"}
          /\ cpu' = no
       \/ /\ fat_health = "Faulted"
          /\ cpu' = no
          /\ UNCHANGED <<fat_health, faults>>
    /\ UNCHANGED <<disk, fat_late, result, restarts>>

write_sector_unguarded(d, yes, no) ==
    /\ disk' = d
    /\ cpu' = yes
    /\ UNCHANGED <<fat_health, fat_late, faults, result, restarts>>

(* One sector written, after the read of a read-modify-write: d is the     *)
(* disk with the new sector.                                               *)
write_sector(d, yes, no) ==
    /\ \/ /\ fat_health = "Healthy"
          /\ disk' = d
          /\ cpu' = yes
          /\ UNCHANGED <<fat_health, fat_late, faults>>
       \/ /\ fat_health = "Healthy"
          /\ faults < MAX_FAULTS
          /\ faults' = faults + 1
          /\ cpu' = no
          /\ \/ disk' \in {disk, d} /\ UNCHANGED <<fat_health, fat_late>>
             \/ disk' = disk /\ fat_health' = "Faulted" /\ fat_late' = {d}
       \/ /\ fat_health = "Faulted"
          /\ cpu' = no
          /\ UNCHANGED <<disk, fat_health, fat_late, faults>>
    /\ UNCHANGED <<result, restarts>>

PutFat(d, copy, c, value) == [d EXCEPT !.fat[copy][c] = value]
PutData(d, c, a, b) == [d EXCEPT !.data[c] = Content(a, b)]
PutEntry(d, place, entry) ==
    [d EXCEPT !.data[place[1]] = Entries([@.slots EXCEPT ![place[2]] = entry])]
PutSize(d, place, size) == PutEntry(d, place, [EntryAt(d, place) EXCEPT !.size = size])

-----------------------------------------------------------------------------
(* write_fat_entry: each copy in turn, then the FSInfo hint.               *)

CallFat(s, c, value, ret) ==
    [s EXCEPT !.pc = "fat", !.fe = [NoEntry EXCEPT !.cl = c, !.val = value], !.ret = ret]

Return(s, ok) == [s EXCEPT !.pc = s.ret, !.res = ok, !.fe = NoEntry, !.ret = ""]

write_fat_entry_one_copy ==
    /\ cpu.pc = "fat"
    /\ write_sector(PutFat(disk, 1, cpu.fe.cl, cpu.fe.val), Return(cpu, TRUE), Return(cpu, FALSE))
write_fat_entry ==
    LET e == cpu.fe
        was == IF e.copy = 1 THEN disk.fat[1][e.cl] ELSE e.was
    IN  /\ cpu.pc = "fat"
        /\ write_sector(PutFat(disk, e.copy, e.cl, e.val),
                        IF e.copy < NUM_FATS
                        THEN [cpu EXCEPT !.fe.copy = @ + 1, !.fe.was = was]
                        ELSE IF (was = FREE) # (e.val = FREE)
                             THEN [cpu EXCEPT !.pc = "hint"]
                             ELSE Return(cpu, TRUE),
                        Return(cpu, FALSE))

Adjusted(count, freed) == IF freed THEN count + 1 ELSE IF count = 0 THEN 0 ELSE count - 1

(* Best effort: the caller is told TRUE whatever becomes of the hint.      *)
adjust_fsinfo_free_count ==
    LET count == disk.free_count
    IN  /\ cpu.pc = "hint"
        /\ IF count = FSINFO_UNKNOWN
           THEN Reads(Return(cpu, TRUE), Return(cpu, TRUE))
           ELSE write_sector([disk EXCEPT !.free_count = Adjusted(count, cpu.fe.val = FREE)],
                             Return(cpu, TRUE), Return(cpu, TRUE))

-----------------------------------------------------------------------------
(* allocate_cluster_chain: reserve want clusters, then link them.          *)

CallChain(s, count, back) == [s EXCEPT !.pc = "reserve", !.out = <<>>, !.want = count, !.back = back]

free_clusters_none(s) == [s EXCEPT !.pc = s.back, !.res = FALSE]
free_clusters_stuck(s) ==
    IF s.out = <<>> THEN [s EXCEPT !.pc = s.back, !.res = FALSE]
    ELSE CallFat(s, Head(s.out), FREE, "freed")

(* free_clusters: the rollback, whose own failures are ignored.            *)
free_clusters(s) ==
    IF s.out = <<>> THEN [s EXCEPT !.pc = s.back, !.res = FALSE]
    ELSE CallFat([s EXCEPT !.out = Tail(@)], Head(s.out), FREE, "freed")

Link(s, i) ==
    CallFat([s EXCEPT !.i = i], s.out[i],
            IF i < Len(s.out) THEN s.out[i + 1] ELSE CHAIN_EOC_MARKER, "linked")

Reserve ==
    /\ cpu.pc = "reserve"
    /\ LET c == allocate_free_cluster(disk)
       IN  Reads(IF c = FREE THEN free_clusters(cpu)
                 ELSE CallFat([cpu EXCEPT !.new = c], c, CHAIN_EOC_MARKER, "reserved"),
                 free_clusters(cpu))

FatStep(s) == cpu' = s /\ UNCHANGED <<disk, fat_health, fat_late, result, faults, restarts>>

Reserved ==
    /\ cpu.pc = "reserved"
    /\ LET s == [cpu EXCEPT !.out = Append(@, cpu.new)]
       IN  FatStep(IF ~cpu.res THEN free_clusters(cpu)
                ELSE IF Len(s.out) < s.want THEN [s EXCEPT !.pc = "reserve"]
                ELSE Link(s, 1))

Linked ==
    /\ cpu.pc = "linked"
    /\ FatStep(IF ~cpu.res THEN free_clusters(cpu)
            ELSE IF cpu.i < Len(cpu.out) THEN Link(cpu, cpu.i + 1)
            ELSE [cpu EXCEPT !.pc = cpu.back])

Freed == cpu.pc = "freed" /\ FatStep(free_clusters(cpu))

-----------------------------------------------------------------------------
(* The proofs, in the order run_fat32_proof runs them.                     *)

(* HELLO.TXT, then the subdirectory, multi-cluster and long-name reads.    *)
FixturesRead(d) ==
    LET nested == find_entry_with_location(d, 4, "NESTED")
        long == long_name_entry(d, ROOT, "long-filename-test")
    IN  /\ Reading(d, "HELLO") = <<Fix(3, 1)>>
        /\ find_entry_with_location(d, ROOT, "SUBDIR") # Nowhere
        /\ nested # Nowhere /\ read_file_contents(d, EntryAt(d, nested)) = <<Fix(5, 1)>>
        /\ Reading(d, "BIG") = << Fix(6, 1), Fix(6, 2), Fix(7, 1), Fix(7, 2) >>
        /\ long # Nowhere /\ read_file_contents(d, EntryAt(d, long)) = <<Fix(8, 1)>>

run_fat32_proof ==
    \/ /\ cpu.pc = "fixtures"
       /\ Reads(IF find_entry_with_location(disk, ROOT, "HELLO") = Nowhere
                THEN At(Len(Proofs) + 1, FALSE) ELSE Goto(cpu, "contents", TRUE),
                At(Len(Proofs) + 1, FALSE))
    \/ /\ cpu.pc = "contents"
       /\ Reads(Finish(cpu, FixturesRead(disk)), Finish(cpu, FALSE))
    \/ /\ cpu.pc = "report"
       /\ result' = IF cpu.pass THEN "PASS" ELSE "FAIL"
       /\ cpu' = [At(1, TRUE) EXCEPT !.pc = "halt"]
       /\ UNCHANGED <<disk, fat_health, fat_late, faults, restarts>>

(* Where a proof's file is, or the proof ends.                             *)
Locate(name, Found(_)) ==
    LET place == find_entry_with_location(disk, ROOT, name)
    IN  Reads(IF place = Nowhere THEN Finish(cpu, FALSE) ELSE Found(place), Finish(cpu, FALSE))

run_write_proof ==
    \/ /\ cpu.pc = "write"
       /\ LET Found(p) == [cpu EXCEPT !.pc = "write_data", !.new = EntryAt(disk, p).first]
          IN  Locate("WRITE", Found)
    \/ /\ cpu.pc = "write_data"
       /\ write_sector(PutData(disk, cpu.new, Tag("w"), Tag("w")),
                       Goto(cpu, "write_check", TRUE), Goto(cpu, "write_check", FALSE))
    \/ /\ cpu.pc = "write_check"
       /\ Reads(Finish(cpu, cpu.good /\ disk.data[cpu.new].half = <<Tag("w"), Tag("w")>>), Finish(cpu, FALSE))

run_partial_write_proof ==
    \/ /\ cpu.pc = "partial"
       /\ LET Found(p) == [cpu EXCEPT !.pc = "partial_data", !.at = p,
                                      !.new = EntryAt(disk, p).first]
          IN  Locate("PARTIAL", Found)
    \/ /\ cpu.pc = "partial_data"
       /\ write_sector(PutData(disk, cpu.new, Tag("p"), disk.data[cpu.new].half[2]),
                       Goto(cpu, "partial_size", TRUE), Goto(cpu, "partial_size", FALSE))
    \/ /\ cpu.pc = "partial_size"
       /\ write_sector(PutSize(disk, cpu.at, 1),
                       Goto(cpu, "partial_check", TRUE), Goto(cpu, "partial_check", FALSE))
    \/ /\ cpu.pc = "partial_check"
       /\ Reads(Finish(cpu, /\ cpu.good
                            /\ Reading(disk, "PARTIAL") = <<Tag("p")>>
                            /\ disk.data[cpu.new].half[2] = Fix(10, 2)),
                Finish(cpu, FALSE))

(* A failed write is remembered and the next one is tried all the same.    *)
run_grow_proof ==
    \/ /\ cpu.pc = "grow"
       /\ LET new == allocate_free_cluster(disk)
              Found(p) == IF new = FREE THEN Finish(cpu, FALSE)
                          ELSE [cpu EXCEPT !.pc = "grow_data", !.at = p, !.new = new,
                                           !.last = LastCluster(disk, EntryAt(disk, p).first)]
          IN  Locate("GROW", Found)
    \/ /\ cpu.pc = "grow_data"
       /\ write_sector(PutData(disk, cpu.new, Tag("g"), Tag("")),
                       CallFat(cpu, cpu.new, CHAIN_EOC_MARKER, "grow_link"),
                       CallFat(Goto(cpu, "", FALSE), cpu.new, CHAIN_EOC_MARKER, "grow_link"))
    \/ /\ cpu.pc = "grow_link"
       /\ FatStep(CallFat(Goto(cpu, "", cpu.res), cpu.last, cpu.new, "grow_size"))
    \/ /\ cpu.pc = "grow_size"
       /\ write_sector(PutSize(disk, cpu.at, 3),
                       Goto(cpu, "grow_check", cpu.res), Goto(cpu, "grow_check", FALSE))
    \/ /\ cpu.pc = "grow_check"
       /\ Reads(Finish(cpu, cpu.good /\ Reading(disk, "GROW") = << Fix(11, 1), Fix(11, 2), Tag("g")>>),
                Finish(cpu, FALSE))

run_multi_cluster_grow_proof ==
    \/ /\ cpu.pc = "multi"
       /\ LET Found(p) == CallChain([cpu EXCEPT !.at = p,
                                         !.last = LastCluster(disk, EntryAt(disk, p).first)],
                                    2, "multi_chain")
          IN  Locate("MULTI", Found)
    \/ /\ cpu.pc = "multi_chain"
       /\ FatStep(IF cpu.res THEN [cpu EXCEPT !.pc = "multi_data", !.i = 1] ELSE Finish(cpu, FALSE))
    \/ /\ cpu.pc = "multi_data"
       /\ write_sector(PutData(disk, cpu.out[cpu.i], <<"m", cpu.i>>, <<"m", cpu.i>>),
                       IF cpu.i < Len(cpu.out) THEN [cpu EXCEPT !.i = @ + 1]
                       ELSE CallFat(cpu, cpu.last, cpu.out[1], "multi_size"),
                       CallFat(Goto(cpu, "", FALSE), cpu.last, cpu.out[1], "multi_size"))
    \/ /\ cpu.pc = "multi_size"
       /\ write_sector(PutSize(disk, cpu.at, 5),
                       Goto(cpu, "multi_check", cpu.res), Goto(cpu, "multi_check", FALSE))
    \/ /\ cpu.pc = "multi_check"
       /\ Reads(Finish(cpu, /\ cpu.good
                            /\ Reading(disk, "MULTI") = << Fix(12, 1), Fix(12, 2), <<"m", 1>>,
                                                          <<"m", 1>>, <<"m", 2>> >>),
                Finish(cpu, FALSE))

(* The chain is freed first, the entry marked after; want counts the loop. *)
run_delete_proof ==
    \/ /\ cpu.pc = "delete"
       /\ LET Found(p) == [cpu EXCEPT !.pc = "delete_free", !.at = p,
                               !.new = EntryAt(disk, p).first, !.last = EntryAt(disk, p).first]
          IN  Locate("DELETE", Found)
    \/ /\ cpu.pc = "delete_free"
       /\ Reads(CallFat([cpu EXCEPT !.i = next_cluster_in_chain(disk, cpu.new)],
                        cpu.new, FREE, "delete_next"),
                CallFat([cpu EXCEPT !.i = CHAIN_EOC_MARKER], cpu.new, FREE, "delete_next"))
    \/ /\ cpu.pc = "delete_next"
       /\ FatStep(IF ~cpu.res \/ is_end_of_chain(cpu.i) \/ cpu.want = WALK - 1
               THEN Goto(cpu, "delete_mark", cpu.res)
               ELSE [cpu EXCEPT !.pc = "delete_free", !.new = cpu.i, !.want = @ + 1])
    \/ /\ cpu.pc = "delete_mark"
       /\ write_sector(PutEntry(disk, cpu.at, DELETED_ENTRY_MARKER),
                       Goto(cpu, "delete_check", TRUE), Goto(cpu, "delete_check", FALSE))
    \/ /\ cpu.pc = "delete_check"      \* a scan that cannot read finds nothing
       /\ Reads(Goto(cpu, "delete_reuse", find_entry_with_location(disk, ROOT, "DELETE") = Nowhere),
                Goto(cpu, "delete_reuse", TRUE))
    \/ /\ cpu.pc = "delete_reuse"
       /\ Reads(Finish(cpu, cpu.good /\ allocate_free_cluster(disk) = cpu.last), Finish(cpu, FALSE))

(* Where a new entry goes: a slot of the chain, or of a cluster added to   *)
(* it.                                                                     *)
find_or_grow_create_slot ==
    /\ cpu.pc \in {"create", "growdir"}
    /\ LET place == find_reusable_slot(disk, ROOT)
           trail == Trail(disk, ROOT)
           tail == trail[Len(trail)]
       IN  Reads(IF place # Nowhere THEN [cpu EXCEPT !.pc = "file", !.at = place]
                 ELSE IF is_end_of_chain(next_cluster_in_chain(disk, tail))
                      THEN CallChain([cpu EXCEPT !.last = tail], 1, "dir_zero")
                      ELSE Finish(cpu, FALSE),
                 Finish(cpu, FALSE))

grow_directory ==
    \/ /\ cpu.pc = "dir_zero" /\ ~cpu.res
       /\ FatStep(Finish(cpu, FALSE))
    \/ /\ cpu.pc = "dir_zero" /\ cpu.res
       /\ write_sector([disk EXCEPT !.data[cpu.out[1]] = Entries(Zeroed)],
                       CallFat(cpu, cpu.last, cpu.out[1], "dir_linked"), Finish(cpu, FALSE))
    \/ /\ cpu.pc = "dir_linked"
       /\ FatStep(IF cpu.res THEN [cpu EXCEPT !.pc = "file", !.at = <<cpu.out[1], 1>>]
               ELSE Finish(cpu, FALSE))

(* run_create_proof and run_directory_growth_proof, once there is a slot.  *)
NewFile == IF Proofs[cpu.proof] = "create" THEN "CREATED" ELSE "GROWDIR"

create_alloc ==
    /\ cpu.pc = "file"
    /\ LET new == allocate_free_cluster(disk)
       IN  Reads(IF new = FREE THEN Finish(cpu, FALSE)
                 ELSE [cpu EXCEPT !.pc = "file_data", !.new = new], Finish(cpu, FALSE))

create_data_unmarked ==
    /\ cpu.pc = "file_data"
    /\ write_sector(PutData(disk, cpu.new, Tag(NewFile), Tag("")),
                    Goto(cpu, "file_entry", TRUE), Goto(cpu, "file_entry", FALSE))

create_data ==
    /\ cpu.pc = "file_data"
    /\ write_sector(PutData(disk, cpu.new, Tag(NewFile), Tag("")),
                    CallFat(cpu, cpu.new, CHAIN_EOC_MARKER, "file_entry"),
                    CallFat(Goto(cpu, "", FALSE), cpu.new, CHAIN_EOC_MARKER, "file_entry"))

create_entry ==
    /\ cpu.pc = "file_entry"
    /\ write_sector(PutEntry(disk, cpu.at, File(NewFile, cpu.new, 1)),
                    Goto(cpu, "file_check", cpu.res), Goto(cpu, "file_check", FALSE))

run_create_proof == create_alloc \/ create_data \/ create_entry

(* The directory growth proof also asks whether the root chain grew.       *)
run_directory_growth_proof ==
    /\ cpu.pc = "file_check"
    /\ Reads(Finish(cpu, /\ cpu.good
                         /\ Reading(disk, NewFile) = <<Tag(NewFile)>>
                         /\ \/ NewFile = "CREATED"
                            \/ ~is_end_of_chain(next_cluster_in_chain(disk, ROOT))),
             Finish(cpu, FALSE))

run_fsinfo_hint_proof ==
    \/ /\ cpu.pc = "fsinfo"
       /\ LET c == allocate_free_cluster(disk)
          IN  Reads(IF disk.free_count = FSINFO_UNKNOWN THEN Finish(cpu, TRUE)
                    ELSE IF c = FREE THEN Finish(cpu, FALSE)
                    ELSE CallFat([cpu EXCEPT !.new = c, !.want = disk.free_count],
                                 c, CHAIN_EOC_MARKER, "fsinfo_used"),
                    Finish(cpu, FALSE))
    \/ /\ cpu.pc = "fsinfo_used" /\ cpu.res
       /\ Reads(CallFat(Goto(cpu, "", disk.free_count + 1 = cpu.want), cpu.new, FREE, "fsinfo_freed"),
                CallFat(Goto(cpu, "", FALSE), cpu.new, FREE, "fsinfo_freed"))
    \/ /\ cpu.pc = "fsinfo_freed" /\ cpu.res
       /\ Reads(Finish(cpu, cpu.good /\ disk.free_count = cpu.want), Finish(cpu, FALSE))
    \/ /\ cpu.pc \in {"fsinfo_used", "fsinfo_freed"} /\ ~cpu.res
       /\ FatStep(Finish(cpu, FALSE))

-----------------------------------------------------------------------------
(* The device, the machine, and the specification.                         *)

(* The device finishes a request the driver gave up on.                    *)
FatLateWrite ==
    /\ \E d \in fat_late : disk' = d
    /\ fat_late' = {}
    /\ UNCHANGED <<fat_health, cpu, result, faults, restarts, torn>>

(* The machine stops and boots again; torn: at that moment a chain ran     *)
(* into a free cluster or met another.                                     *)
Restart ==
    /\ restarts < MAX_RESTARTS
    /\ restarts' = restarts + 1
    /\ fat_health' = "Healthy"
    /\ fat_late' = {}
    /\ cpu' = At(1, TRUE)
    /\ result' = "none"
    /\ torn' = (torn \/ Dangling(disk) \/ Shared(disk))
    /\ UNCHANGED <<disk, faults>>

FatDriver ==
    /\ \/ run_fat32_proof \/ run_write_proof \/ run_partial_write_proof
       \/ run_grow_proof \/ run_multi_cluster_grow_proof \/ run_delete_proof
       \/ find_or_grow_create_slot \/ grow_directory
       \/ run_create_proof \/ run_directory_growth_proof \/ run_fsinfo_hint_proof
       \/ write_fat_entry \/ adjust_fsinfo_free_count
       \/ Reserve \/ Reserved \/ Linked \/ Freed
    /\ UNCHANGED torn

(* _start's last loop: the driver only yields.                             *)
FatHalted == cpu.pc = "halt" /\ UNCHANGED fatVars

FatNext == FatDriver \/ FatLateWrite \/ Restart \/ FatHalted

(* The driver's process keeps running: weak fairness of FatDriver, every step *)
(* of which changes cpu, and which is enabled wherever it has not halted.  *)
FatDriverRuns == []<>(cpu.pc = "halt") \/ []<><<TRUE>>_cpu

FatSpec == FatInit /\ [][FatNext]_fatVars /\ FatDriverRuns

-----------------------------------------------------------------------------
(* Properties.                                                             *)

(* Every FAT entry is a cluster number or a marker, one abandoned write at *)
(* most is outstanding, and the driver is in one of its proofs.            *)
FatTypeOK ==
    /\ disk.fat \in [1 .. NUM_FATS -> [0 .. CLUSTERS -> 0 .. CHAIN_EOC_MARKER]]
    /\ disk.free_count \in Nat
    /\ fat_health \in {"Healthy", "Faulted"}
    /\ Cardinality(fat_late) <= 1
    /\ result \in {"none", "PASS", "FAIL"}
    /\ cpu.proof \in 1 .. Len(Proofs) + 1
    /\ torn \in BOOLEAN

(* The files as a boot whose proofs all passed should leave them.          *)
AsWritten(d) ==
    /\ FixturesRead(d)
    /\ Reading(d, "WRITE") = <<Tag("w"), Tag("w")>>
    /\ Reading(d, "PARTIAL") = <<Tag("p")>>
    /\ Reading(d, "GROW") = <<Fix(11, 1), Fix(11, 2), Tag("g")>>
    /\ Reading(d, "MULTI") = <<Fix(12, 1), Fix(12, 2), <<"m", 1>>, <<"m", 1>>, <<"m", 2>>>>
    /\ Reading(d, "DELETE") = <<Tag("none")>>
    /\ Reading(d, "CREATED") = <<Tag("CREATED")>>
    /\ Reading(d, "GROWDIR") = <<Tag("GROWDIR")>>

(* A boot that reports success left every file as its proof wrote it, also *)
(* after the proofs that ran later, on a volume where no chain meets       *)
(* another or runs into a free cluster; and on the first boot, with FAT    *)
(* copies that agree.  The exception is a volume a restart found torn.     *)
PassMeansIntact ==
    result = "PASS" =>
        /\ ~torn => AsWritten(disk) /\ ~Dangling(disk) /\ ~Shared(disk)
        /\ restarts = 0 => \A k \in 1 .. NUM_FATS : disk.fat[k] = disk.fat[1]

(* The order of the writes: while no request fails, a stop between any two *)
(* of them leaves no cluster in two chains and no chain into a free        *)
(* cluster, except inside run_delete_proof, which frees before it marks.   *)
CrashConsistent ==
    faults = 0 /\ ~torn => /\ ~Shared(disk)
                           /\ Dangling(disk) => Proofs[cpu.proof] = "delete"

(* write_fat_entry stops at the copy it cannot write and nobody repairs    *)
(* the others: a failing request or a stop costs one differing entry, and  *)
(* the entry being written is the only other one that may differ.          *)
Differing(d) == {c \in 0 .. CLUSTERS : \E k \in 1 .. NUM_FATS : d.fat[k][c] # d.fat[1][c]}
MirrorDriftBounded ==
    Cardinality(Differing(disk)) <= faults + restarts + (IF cpu.fe.copy > 1 THEN 1 ELSE 0)

(* adjust_fsinfo_free_count: the hint a volume maintains is off by at most *)
(* one per failing request or stop, besides the entry being written.       *)
HintDriftBounded ==
    LET free == Cardinality({c \in Cluster : disk.fat[1][c] = FREE})
        off == faults + restarts + (IF cpu.fe.copy > 1 THEN 1 ELSE 0)
    IN  disk.free_count # FSINFO_UNKNOWN =>
            free <= disk.free_count + off /\ disk.free_count <= free + off

(* allocate_cluster_chain's rollback, which frees what the call reserved   *)
(* as far as the device lets it (free_clusters is best effort): a failing  *)
(* request or a stop leaks at most the two clusters of one call; the rest  *)
(* of what is marked used is in a chain or in the driver's hands.          *)
OrphansBounded ==
    LET used == {c \in Cluster : disk.fat[1][c] \notin {FREE, BAD_CLUSTER}}
        held == Range(cpu.out) \cup {cpu.new, cpu.fe.cl}
    IN  Cardinality((used \ Reachable(disk)) \ held) <= 2 * (faults + restarts)

(* QueueHealth: once a request has timed out, the disk changes only by     *)
(* that very request landing late, until the machine restarts.             *)
QuarantineHolds ==
    [][fat_health = "Faulted" /\ fat_health' = "Faulted" => disk' = disk \/ disk' \in fat_late]_fatVars

(* Whatever fails, every loop of every proof ends and a result is reported.*)
Reports == <>[](result # "none")

(* The volume after a boot that passed, and at every point where the       *)
(* machine could stop, is one whose files can be read back; and what a     *)
(* failing request or a stop can cost in the FSInfo hint and in leaked     *)
(* clusters is bounded, however often the proofs run over it.              *)
VolumeIntact ==
    /\ FatTypeOK
    /\ PassMeansIntact
    /\ CrashConsistent
    /\ HintDriftBounded
    /\ OrphansBounded
=============================================================================
