------------------------------- MODULE Loader -------------------------------
(***************************************************************************)
(* Loading a program: the ELF parsers and loaders of both kernels          *)
(* (kernel-arm's elf.rs and loader.rs; kernel's elf.rs), over images that  *)
(* grow by one program header at a time.                                   *)
(*                                                                         *)
(* A page is PAGE bytes, an address 0 .. MAX_ADDR.  Byte i of an image is  *)
(* i + 1, so that a byte from the wrong place is seen.  The header is its  *)
(* defect: which of parse's header checks it fails, if any.                *)
(***************************************************************************)
EXTENDS Naturals, FiniteSets, Sequences, SequencesExt, TLC

CONSTANTS
    PAGE, MAX_ADDR,
    IMAGE_LEN,
    PRIVATE_REGION_BASE, PRIVATE_REGION_END, STACK_SIZE, STACK_GUARD_SIZE,
    Segments,               \* the PT_LOAD headers an image may have, in each place
    EntryPoints

VARIABLES headers, defect
loaderVars == <<headers, defect>>

HeaderDefects == {"none", "TooShort", "BadMagic", "Not64Bit", "NotLittleEndian", "NotExecutable",
                  "WrongMachine", "UnexpectedProgramHeaderSize", "ProgramHeadersOutOfBounds"}

PF_X == "X"
PF_W == "W"
PF_R == "R"

STACK_BASE == PRIVATE_REGION_END - STACK_SIZE
SEGMENT_WINDOW_END == STACK_BASE - STACK_GUARD_SIZE

Page(a) == a - (a % PAGE)
PagesIn(first, last) ==
    [i \in 1 .. ((Page(last) - Page(first)) \div PAGE) + 1 |-> Page(first) + (i - 1) * PAGE]
Stack == Range(PagesIn(STACK_BASE, PRIVATE_REGION_END - 1))

(* The first of a list of checks that fails.                               *)
FirstFailing(checks) ==
    LET failing == {i \in DOMAIN checks : checks[i][1]}
    IN  IF failing = {} THEN "none"
        ELSE checks[CHOOSE i \in failing : \A j \in failing : i <= j][2]

-----------------------------------------------------------------------------
(* kernel-arm.                                                             *)

(* Elf64::parse on one segment, with the u64 additions it checks.          *)
SegmentDefect(s) ==
    FirstFailing(<< <<s.memsz < s.filesz, "SegmentSmallerThanFileContent">>,
                    <<s.offset + s.filesz > IMAGE_LEN, "SegmentOutOfBounds">>,
                    <<s.vaddr + s.memsz > MAX_ADDR, "SegmentOutOfBounds">> >>)
parse(d, segs) ==
    FirstFailing(<< <<d # "none", d>> >>
                 \o [i \in DOMAIN segs |-> <<SegmentDefect(segs[i]) # "none", SegmentDefect(segs[i])>>]
                 \o << <<segs = <<>>, "NoLoadableSegments">> >>)

page_permissions(flags) ==
    CASE PF_R \notin flags -> "SegmentNotReadable"
      [] {PF_R, PF_W, PF_X} \subseteq flags -> "SegmentWritableAndExecutable"
      [] OTHER -> "ok"

(* One page of a segment: zero, and the file's bytes between copy_start    *)
(* and copy_end.                                                           *)
PageContent(s, page) ==
    LET file_end == s.vaddr + s.filesz
        copy_start == IF page > s.vaddr THEN page ELSE s.vaddr
        copy_end == IF page + PAGE < file_end THEN page + PAGE ELSE file_end
        into == copy_start - page
        from == copy_start - s.vaddr
        len == IF copy_end > copy_start THEN copy_end - copy_start ELSE 0
    IN  [i \in 0 .. PAGE - 1 |->
            IF i >= into /\ i < into + len THEN s.offset + from + (i - into) + 1 ELSE 0]

(* PrivatePageMapper::map_page: fails at one address, when out of memory.  *)
MapPage(l, page, flags, content, fail_at) ==
    IF l.err # "none" THEN l
    ELSE IF page = fail_at THEN [l EXCEPT !.err = "MapFailed"]
    ELSE [l EXCEPT !.mem = @ @@ (page :> [flags |-> flags, bytes |-> content])]

LoadPage(l, s, page, fail_at) ==
    IF l.err = "none" /\ page \in DOMAIN l.mem THEN [l EXCEPT !.err = "OverlappingSegments"]
    ELSE MapPage(l, page, s.flags, PageContent(s, page), fail_at)

(* The body of load's loop over the segments.                              *)
SegmentRefused_past(s) ==
    FirstFailing(<< <<page_permissions(s.flags) # "ok", page_permissions(s.flags)>>,
                    <<s.vaddr < PRIVATE_REGION_BASE, "SegmentOutsideWindow">>,
                    <<s.vaddr + s.memsz > STACK_BASE, "SegmentOutsideWindow">> >>)
SegmentRefused(s) ==
    FirstFailing(<< <<page_permissions(s.flags) # "ok", page_permissions(s.flags)>>,
                    <<s.vaddr < PRIVATE_REGION_BASE, "SegmentOutsideWindow">>,
                    <<s.vaddr + s.memsz > SEGMENT_WINDOW_END, "SegmentOutsideWindow">> >>)
LoadSegment(l, s, entry, fail_at) ==
    IF l.err # "none" \/ s.memsz = 0 THEN l
    ELSE IF SegmentRefused(s) # "none" THEN [l EXCEPT !.err = SegmentRefused(s)]
    ELSE FoldLeft(LAMBDA k, page : LoadPage(k, s, page, fail_at),
                  [l EXCEPT !.exec = @ \/ (PF_X \in s.flags /\ entry \in s.vaddr .. s.vaddr + s.memsz - 1)],
                  PagesIn(s.vaddr, s.vaddr + s.memsz - 1))

NothingLoaded == [err |-> "none", mem |-> <<>>, exec |-> FALSE]
Zeroes == [i \in 0 .. PAGE - 1 |-> 0]

load(segs, entry, fail_at) ==
    LET l == FoldLeft(LAMBDA k, s : LoadSegment(k, s, entry, fail_at), NothingLoaded, segs)
    IN  IF l.err # "none" THEN l
        ELSE IF ~l.exec THEN [l EXCEPT !.err = "EntryPointNotExecutable"]
        ELSE FoldLeft(LAMBDA k, page : MapPage(k, page, {PF_R, PF_W}, Zeroes, fail_at), l,
                      PagesIn(STACK_BASE, PRIVATE_REGION_END - 1))

-----------------------------------------------------------------------------
(* kernel (x86_64).                                                        *)

(* The header checks only; e_type and the segments are not looked at.      *)
x86_parse(d) ==
    CASE d = "NotExecutable" -> "none"
      [] d = "ProgramHeadersOutOfBounds" -> "TooShort"
      [] OTHER -> d

(* PF_R is not looked at: a page present is a page readable.               *)
translate_flags(pf) == {PF_R} \cup (pf \cap {PF_W, PF_X})

(* A page mapped twice, or an address past the last, panics.               *)
x86_LoadPage(l, s, page) ==
    IF l.err # "none" THEN l
    ELSE IF page \in DOMAIN l.mem THEN [l EXCEPT !.err = "panic"]
    ELSE [l EXCEPT !.mem = @ @@ (page :> [flags |-> translate_flags(s.flags), bytes |-> PageContent(s, page)])]
x86_LoadSegment(l, s) ==
    LET end_addr == s.vaddr + (IF s.memsz = 0 THEN 0 ELSE s.memsz - 1)
    IN  IF l.err # "none" THEN l
        ELSE IF s.offset + s.filesz > IMAGE_LEN \/ end_addr > MAX_ADDR
             THEN [l EXCEPT !.err = "SegmentOutOfBounds"]
        ELSE IF s.vaddr + s.filesz > MAX_ADDR THEN [l EXCEPT !.err = "panic"]
        ELSE FoldLeft(LAMBDA k, page : x86_LoadPage(k, s, page), l, PagesIn(s.vaddr, end_addr))
load_segments(segs) == FoldLeft(LAMBDA k, s : x86_LoadSegment(k, s), NothingLoaded, segs)

-----------------------------------------------------------------------------
(* Images.                                                                 *)

LoaderInit == headers = <<>> /\ defect \in HeaderDefects

NextHeader ==
    /\ Len(headers) < (IF defect = "none" THEN Len(Segments) ELSE 1)
    /\ \E s \in Segments[Len(headers) + 1] : headers' = Append(headers, s)
    /\ UNCHANGED defect

-----------------------------------------------------------------------------
(* What a loaded image should be, address by address.                      *)

Covers(s, a) == s.memsz > 0 /\ a \in s.vaddr .. s.vaddr + s.memsz - 1
Touches(s, page) == \E a \in page .. page + PAGE - 1 : Covers(s, a)
SegsOf(segs) == {segs[i] : i \in DOMAIN segs}
ByteAt(segs, a) ==
    LET here == {s \in SegsOf(segs) : a >= s.vaddr /\ a < s.vaddr + s.filesz}
    IN  IF here = {} THEN 0 ELSE LET s == CHOOSE s \in here : TRUE IN s.offset + (a - s.vaddr) + 1
Touched(segs) == {page \in {Page(a) : a \in 0 .. MAX_ADDR} : \E s \in SegsOf(segs) : Touches(s, page)}

WellFormed(s) == s.filesz <= s.memsz /\ s.offset + s.filesz <= IMAGE_LEN /\ s.vaddr + s.memsz <= MAX_ADDR
Apart(segs) == \A i, j \in DOMAIN segs : i < j => \A page \in Touched(segs) :
                                                    ~(Touches(segs[i], page) /\ Touches(segs[j], page))
Acceptable(segs, entry) ==
    /\ Apart(segs)
    /\ \A s \in SegsOf(segs) : s.memsz > 0 =>
          /\ s.flags \in {{PF_R}, {PF_R, PF_W}, {PF_R, PF_X}}
          /\ \A a \in s.vaddr .. s.vaddr + s.memsz - 1 :
                a >= PRIVATE_REGION_BASE /\ a < SEGMENT_WINDOW_END
    /\ \E s \in SegsOf(segs) : PF_X \in s.flags /\ Covers(s, entry)

(* On ARM, exactly the images whose segments lie apart in the window, keep *)
(* writable and executable apart and hold their entry point are loaded;    *)
(* then each byte of each page is the file's or zero, with its segment's   *)
(* permissions, and the only other pages are the stack's.  A load that     *)
(* fails anywhere, the mapper running out included, has mapped nothing     *)
(* executable that is writable, and nothing in the guard gap (loader.rs    *)
(* load over what elf.rs parse lets through).                              *)
LoadedExactly ==
    parse(defect, headers) = "none" =>
        \A entry \in EntryPoints, fail_at \in {MAX_ADDR + 1, PRIVATE_REGION_BASE, STACK_BASE} :
            LET l == load(headers, entry, fail_at)
            IN  /\ l.err = "none" <=> /\ Acceptable(headers, entry)
                                      /\ fail_at \notin Touched(headers) \cup Stack
                /\ l.err = "none" => DOMAIN l.mem = Touched(headers) \cup Stack
                /\ \A page \in DOMAIN l.mem :
                      /\ ~({PF_W, PF_X} \subseteq l.mem[page].flags)
                      /\ page >= PRIVATE_REGION_BASE /\ page \notin SEGMENT_WINDOW_END .. STACK_BASE - 1
                      /\ l.err = "none" =>
                            \A i \in 0 .. PAGE - 1 : l.mem[page].bytes[i] = ByteAt(headers, page + i)

(* On x86_64, an image whose well-formed segments lie apart loads, and     *)
(* every byte of memory is the file's or zero; a page without PF_W is not  *)
(* writable and one without PF_X is not executable (kernel/src/elf.rs      *)
(* load_segments and translate_flags).                                     *)
SegmentsInPlace ==
    x86_parse(defect) = "none" /\ (\A s \in SegsOf(headers) : WellFormed(s)) =>
        LET l == load_segments(headers)
        IN  /\ l.err \in {"none", "panic"}
            /\ l.err = "panic" => ~Apart(headers) \/ \E s \in SegsOf(headers) : s.memsz = 0
            /\ l.err = "none" =>
                  \A page \in DOMAIN l.mem : \A i \in 0 .. PAGE - 1 :
                      l.mem[page].bytes[i] = ByteAt(headers, page + i)
            /\ \A s \in SegsOf(headers) : \A page \in DOMAIN l.mem :
                  Apart(headers) /\ l.err = "none" /\ Touches(s, page) =>
                      \A f \in {PF_W, PF_X} : f \in l.mem[page].flags <=> f \in s.flags

(* Both loaders put every byte of an image they accept where its headers   *)
(* say, with its segment's permissions, and refuse or fail without a page  *)
(* that breaks them.                                                       *)
ImagesLoaded ==
    /\ LoadedExactly
    /\ SegmentsInPlace
=============================================================================
