-------------------------------- MODULE Lfn --------------------------------
(***************************************************************************)
(* The long-name lookup of blk-driver-host: find_entry_by_long_name of     *)
(* main.rs, one step per 32-byte directory slot, over any directory made   *)
(* of the given slots, well formed or not.                                 *)
(*                                                                         *)
(* A character is a number, 0 the terminator; c and c + CASE_STEP differ   *)
(* in case only.  A fragment carries FRAGMENT_CHARS characters instead of  *)
(* 13, checksums are numbered from 1, and a short entry's checksum is      *)
(* written into its slot.                                                  *)
(***************************************************************************)
EXTENDS Naturals, Sequences, FiniteSetsExt

CONSTANTS
    SlotKinds,              \* the slots a directory is made of
    MAX_SLOTS,              \* slots in a directory, at most
    Targets,                \* names looked up
    MAX_LFN_FRAGMENTS,
    FRAGMENT_CHARS,         \* characters in a fragment: 13
    CASE_STEP               \* 'a' - 'A'

VARIABLES
    dir,                    \* the directory's slots
    target,                 \* target_ascii
    scan                    \* the locals: [at, fragments, have, sum, count, end, result]

lfnVars == <<dir, target, scan>>

NONE == 0                   \* no checksum pending; no entry found

DirSlot == [kind: {"lfn", "short", "end"}, seq: Nat, last: BOOLEAN, sum: Nat, chars: Seq(Nat)]

ASSUME LfnAssumption ==
    /\ SlotKinds \subseteq DirSlot
    /\ \A slot \in SlotKinds :
          slot.kind = "lfn" => slot.sum # NONE /\ Len(slot.chars) = FRAGMENT_CHARS
    /\ Targets \subseteq Seq(Nat)
    /\ MAX_SLOTS \in Nat /\ MAX_LFN_FRAGMENTS \in Nat /\ FRAGMENT_CHARS \in Nat \ {0}

LfnSlot(seq, last, sum, chars) ==
    [kind |-> "lfn", seq |-> seq, last |-> last, sum |-> sum, chars |-> chars]
Other(kind, sum) == [kind |-> kind, seq |-> 0, last |-> FALSE, sum |-> sum, chars |-> <<>>]

Fresh == [at |-> 1, have |-> {}, sum |-> NONE, count |-> 0, end |-> "none", result |-> NONE,
          fragments |-> [i \in 1 .. MAX_LFN_FRAGMENTS |-> [c \in 1 .. FRAGMENT_CHARS |-> 0]]]

LfnInit ==
    /\ dir \in UNION {[1 .. n -> SlotKinds] : n \in 0 .. MAX_SLOTS}
    /\ target \in Targets
    /\ scan = Fresh

Fold(c) == IF c > CASE_STEP THEN c - CASE_STEP ELSE c
ascii_case_insensitive_eq(a, b) == Fold(a) = Fold(b)

(* The characters of the first n fragments, in turn.                       *)
Chars(fragments, n) ==
    [i \in 1 .. n * FRAGMENT_CHARS |->
        fragments[((i - 1) \div FRAGMENT_CHARS) + 1][((i - 1) % FRAGMENT_CHARS) + 1]]

(* The first terminator decides, or the first character that differs, or   *)
(* the end of both.                                                        *)
long_name_matches(chars, name) ==
    LET stops == {i \in DOMAIN chars :
                     \/ chars[i] = 0
                     \/ i \notin DOMAIN name
                     \/ ~ascii_case_insensitive_eq(chars[i], name[i])}
    IN  IF stops = {} THEN DOMAIN name = DOMAIN chars
        ELSE chars[Min(stops)] = 0 /\ DOMAIN name = 1 .. Min(stops) - 1

(* parse_lfn_fragment refuses sequence 0, which then ends a run.           *)
IsFragment(slot) == slot.kind = "lfn" /\ slot.seq > 0

(* On to the next slot, with these locals; out of the loop.                *)
Advance(s, fragments, have, sum, count) ==
    [at |-> s.at + 1, fragments |-> fragments, have |-> have, sum |-> sum, count |-> count,
     end |-> "none", result |-> NONE]
Leave(s, end, result) ==
    [at |-> s.at, fragments |-> s.fragments, have |-> s.have, sum |-> s.sum, count |-> s.count,
     end |-> end, result |-> result]

(* Any slot that is no fragment ends the run before it.                    *)
EndRun_keeps(s) == Advance(s, s.fragments, s.have, NONE, 0)
EndRun(s) == Advance(s, s.fragments, {}, NONE, 0)

Collect(s, slot) ==
    IF slot.seq > MAX_LFN_FRAGMENTS THEN Advance(s, s.fragments, s.have, s.sum, s.count)
    ELSE Advance(s, [s.fragments EXCEPT ![slot.seq] = slot.chars], s.have \cup {slot.seq},
                 IF slot.last THEN slot.sum ELSE s.sum, IF slot.last THEN slot.seq ELSE s.count)

(* The run before this short entry is whole and vouches for it.            *)
Complete(s, slot) ==
    /\ slot.kind = "short" /\ s.sum # NONE
    /\ s.count > 0 /\ 1 .. s.count \subseteq s.have
    /\ s.sum = slot.sum

ScanSlot(s, slot) ==
    IF slot.kind = "end" THEN Leave(s, "directory", NONE)
    ELSE IF IsFragment(slot) THEN Collect(s, slot)
    ELSE IF Complete(s, slot) /\ long_name_matches(Chars(s.fragments, s.count), target)
    THEN Leave(s, "found", s.at)
    ELSE EndRun(s)

find_entry_by_long_name ==
    /\ scan.end = "none"
    /\ scan' = IF scan.at > Len(dir) THEN Leave(scan, "directory", NONE)
               ELSE ScanSlot(scan, dir[scan.at])
    /\ UNCHANGED <<dir, target>>

(* A sector or a FAT entry that cannot be read, and a chain that leaves    *)
(* the volume or has more clusters than the loop follows, end it early.    *)
Unread ==
    /\ scan.end = "none"
    /\ scan' = Leave(scan, "unread", NONE)
    /\ UNCHANGED <<dir, target>>

Scanned == scan.end # "none" /\ UNCHANGED lfnVars

LfnNext == find_entry_by_long_name \/ Unread \/ Scanned

LfnSpec == LfnInit /\ [][LfnNext]_lfnVars
-----------------------------------------------------------------------------
(* Properties.                                                             *)

(* The fragments before slot k: those since the last slot that is none of  *)
(* them, the latest of each sequence number, up to the latest last one.    *)
Run(k) == {j \in 1 .. k - 1 : \A i \in j .. k - 1 : IsFragment(dir[i])}
Of(k, seq) == {j \in Run(k) : dir[j].seq = seq}
LastOf(k) == {j \in Run(k) : dir[j].last /\ dir[j].seq <= MAX_LFN_FRAGMENTS}
Count(k) == dir[Max(LastOf(k))].seq

Whole(k) ==
    /\ dir[k].kind = "short" /\ LastOf(k) # {}
    /\ \A i \in 1 .. Count(k) : Of(k, i) # {}

(* The short entry at k has a long name, as the scan's doc comment puts    *)
(* it: no fragment is missing, and its checksum "matches what every        *)
(* fragment claimed".                                                      *)
Named(k) == Whole(k) /\ \A j \in Run(k) : dir[j].sum = dir[k].sum

(* What the code takes for one as well: it compares the checksum of the    *)
(* latest last fragment only, and here another fragment has a different    *)
(* one.                                                                    *)
Stray(k) ==
    /\ Whole(k) /\ dir[Max(LastOf(k))].sum = dir[k].sum
    /\ \E j \in Run(k) : dir[j].sum # dir[k].sum

(* The characters before the first terminator, if there is one.            *)
Terminated(chars) ==
    LET ends == {i \in DOMAIN chars : chars[i] = 0}
    IN  IF ends = {} THEN chars ELSE [i \in 1 .. Min(ends) - 1 |-> chars[i]]

NameAt(k) == Terminated(Chars([i \in 1 .. Count(k) |-> dir[Max(Of(k, i))].chars], Count(k)))

SameName(a, b) ==
    DOMAIN a = DOMAIN b /\ \A i \in DOMAIN a : ascii_case_insensitive_eq(a[i], b[i])

Matches ==
    {k \in DOMAIN dir : /\ \A j \in 1 .. k : dir[j].kind # "end"
                        /\ Named(k) \/ Stray(k)
                        /\ SameName(NameAt(k), target)}

(* The scan, which keeps one array and one checksum across the slots it    *)
(* sees, returns the first entry that has the name when the directory is   *)
(* read as a whole: no fragment of another entry, of an orphaned run or of *)
(* a run begun earlier ever counts for it.  If it had to stop before it    *)
(* saw everything it returns nothing, and passed over no such entry.  The  *)
(* exception to what its doc comment and LfnFragment's say is Stray: a     *)
(* fragment whose checksum is not the entry's counts all the same when the *)
(* last fragment's is.                                                     *)
ScanFindsTheName ==
    /\ scan.end = "directory" => scan.result = NONE /\ Matches = {}
    /\ scan.end = "found" => Matches # {} /\ scan.result = Min(Matches)
    /\ scan.end = "unread" => scan.result = NONE /\ \A k \in Matches : scan.at <= k

=============================================================================
