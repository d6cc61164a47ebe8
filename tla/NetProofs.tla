----------------------------- MODULE NetProofs -----------------------------
(***************************************************************************)
(* Proofs about the network: the driver's rings account for every buffer,  *)
(* whatever the device reports and however the indices wrap (NetRing); the *)
(* boot sequence's clock and results (NetBoot).                            *)
(***************************************************************************)
EXTENDS NetRing, NetBoot, Integers, FiniteSetTheorems, TLAPS

(* The virtio-net rings (NetRing).  First the arithmetic of free-running   *)
(* indices: a ring of a size that divides their range keeps its entries    *)
(* apart.                                                                  *)

(* A number below the modulus is its own remainder.                        *)
LEMMA Small ==
    ASSUME NEW n \in Nat \ {0}, NEW x \in 0 .. n - 1
    PROVE  x % n = x
OBVIOUS

(* One turn past the modulus.                                              *)
LEMMA Once ==
    ASSUME NEW n \in Nat \ {0}, NEW x \in n .. 2 * n - 1
    PROVE  x % n = x - n
OBVIOUS

(* Quotient and remainder.                                                 *)
LEMMA Divided ==
    ASSUME NEW n \in Nat \ {0}, NEW x \in Nat
    PROVE  \E a \in Nat : x = n * a + (x % n) /\ x % n \in 0 .. n - 1
<1>1. x % n \in 0 .. n - 1 /\ x \div n \in Nat /\ x = n * (x \div n) + (x % n)
    OBVIOUS
<1> QED
    BY ZenonT(30), <1>1

(* The remainder of a number given by its quotient and remainder.          *)
LEMMA Remains ==
    ASSUME NEW n \in Nat \ {0}, NEW a \in Nat, NEW b \in 0 .. n - 1
    PROVE  (n * a + b) % n = b
OBVIOUS

(* A multiple of the modulus does not change the remainder.                *)
LEMMA Multiple ==
    ASSUME NEW n \in Nat \ {0}, NEW m \in Nat, NEW x \in Nat
    PROVE  (x + n * m) % n = x % n
<1>1. PICK a \in Nat : x = n * a + (x % n) /\ x % n \in 0 .. n - 1
    BY ZenonT(30), Divided
<1>2. x + n * m = n * (a + m) + (x % n) /\ a + m \in Nat
    BY <1>1
<1>3. (n * (a + m) + (x % n)) % n = x % n
    BY ZenonT(30), <1>1, <1>2, Remains
<1> QED
    BY Zenon, <1>2, <1>3

(* Numbers less than the modulus apart have different remainders.          *)
LEMMA Apart ==
    ASSUME NEW n \in Nat \ {0}, NEW x \in Nat, NEW y \in Nat, x < y, y < x + n
    PROVE  x % n # y % n
<1>1. PICK a \in Nat : x = n * a + (x % n) /\ x % n \in 0 .. n - 1
    BY ZenonT(30), Divided
<1>2. PICK b \in Nat : y = n * b + (y % n) /\ y % n \in 0 .. n - 1
    BY ZenonT(30), Divided
<1>3. SUFFICES ASSUME x % n = y % n PROVE FALSE
    BY Zenon
<1>4. y - x = n * (b - a) /\ y - x \in 1 .. n - 1 /\ b - a \in Int
    BY <1>1, <1>2, <1>3
<1>5. CASE b - a <= 0
    BY <1>4, <1>5
<1>6. CASE b - a >= 1
    BY <1>4, <1>6
<1> QED
    BY <1>4, <1>5, <1>6

Idx == 0 .. IDX_MOD - 1
Sizes == {n \in Nat \ {0} : \E m \in Nat : IDX_MOD = n * m}

(* A ring index is kept in a machine word of at least one bit.             *)
LEMMA ModFacts == IDX_MOD \in Nat \ {0, 1}
BY RingAssumption

(* Counting on from an index wraps once at most.                           *)
LEMMA Wraps ==
    ASSUME NEW t \in Idx, NEW k \in 0 .. IDX_MOD
    PROVE  /\ (t + k) % IDX_MOD = IF t + k < IDX_MOD THEN t + k ELSE (t + k) - IDX_MOD
           /\ (t + k) % IDX_MOD \in Idx
<1>0. t + k \in Nat /\ IDX_MOD \in Nat \ {0}
    BY ModFacts DEF Idx
<1>1. CASE t + k < IDX_MOD
    <2>1. t + k \in 0 .. IDX_MOD - 1
        BY <1>0, <1>1
    <2>2. (t + k) % IDX_MOD = t + k
        BY Zenon, <1>0, <2>1, Small
    <2> QED
        BY Zenon, <1>1, <2>1, <2>2 DEF Idx
<1>2. CASE ~(t + k < IDX_MOD)
    <2>1. t + k \in IDX_MOD .. 2 * IDX_MOD - 1 /\ t \in Nat /\ k \in Nat
        BY <1>0, <1>2 DEF Idx
    <2>2. (t + k) % IDX_MOD = (t + k) - IDX_MOD
        BY Zenon, <1>0, <2>1, Once
    <2>3. (t + k) - IDX_MOD \in Idx
        BY <1>0, <2>1 DEF Idx
    <2> QED
        BY Zenon, <1>2, <2>2, <2>3
<1> QED
    BY Zenon, <1>1, <1>2

(* The slot of an index that has wrapped is the slot it would have had     *)
(* without: the ring's size divides the range of an index.                 *)
LEMMA SlotIs ==
    ASSUME NEW n \in Sizes, NEW t \in Idx, NEW k \in 0 .. IDX_MOD
    PROVE  /\ ((t + k) % IDX_MOD) % n = (t + k) % n
           /\ (t + k) % n \in 0 .. n - 1
<1>0. PICK m \in Nat : IDX_MOD = n * m
    BY Zenon DEF Sizes
<1>1. n \in Nat \ {0} /\ t \in Nat /\ k \in Nat /\ t + k \in Nat /\ IDX_MOD \in Nat
    BY ModFacts DEF Sizes, Idx
<1>2. (t + k) % IDX_MOD = IF t + k < IDX_MOD THEN t + k ELSE (t + k) - IDX_MOD
    BY Zenon, Wraps
<1>3. (t + k) % n \in 0 .. n - 1
    BY Zenon, <1>1, Divided
<1>4. CASE t + k < IDX_MOD
    BY Zenon, <1>2, <1>3, <1>4
<1>5. CASE ~(t + k < IDX_MOD)
    <2> DEFINE x == (t + k) - IDX_MOD
    <2>1. x \in Nat
        BY <1>1, <1>5
    <2>2. (x + n * m) % n = x % n
        BY Zenon, <1>1, <2>1, Multiple
    <2>3. x + n * m = t + k
        BY <1>0, <1>1
    <2> QED
        BY Zenon, <1>2, <1>3, <1>5, <2>2, <2>3
<1> QED
    BY Zenon, <1>4, <1>5

(* Two entries less than a ring apart are in different slots.              *)
LEMMA SlotsDiffer ==
    ASSUME NEW n \in Sizes, NEW t \in Idx, NEW j \in 0 .. IDX_MOD, NEW k \in 0 .. IDX_MOD,
           j < k, k < j + n
    PROVE  (t + j) % n # (t + k) % n
<1>1. n \in Nat \ {0} /\ t + j \in Nat /\ t + k \in Nat /\ t + j < t + k /\ t + k < (t + j) + n
    BY ModFacts DEF Sizes, Idx
<1> QED
    BY Zenon, <1>1, Apart

(* The wrapped distance between two indices, and what one more write or    *)
(* one more read does to it.                                               *)
LEMMA Distances ==
    ASSUME NEW t \in Idx, NEW u \in Idx
    PROVE  /\ Distance(t, u) \in Idx
           /\ u = (t + Distance(t, u)) % IDX_MOD
           /\ Distance(t, u) = 0 <=> t = u
           /\ wrapping_add(u) \in Idx
           /\ wrapping_add(u) = (u + 1) % IDX_MOD
           /\ Distance(t, u) + 1 < IDX_MOD => Distance(t, wrapping_add(u)) = Distance(t, u) + 1
           /\ Distance(t, u) > 0 => Distance(wrapping_add(t), u) = Distance(t, u) - 1
<1>0. IDX_MOD \in Nat \ {0, 1}
    BY Zenon, ModFacts
<1>1. ASSUME NEW a \in Idx, NEW b \in Idx
      PROVE  Distance(a, b) = IF a <= b THEN b - a ELSE b + IDX_MOD - a
    <2>1. CASE a <= b
        <3>1. b + IDX_MOD - a \in IDX_MOD .. 2 * IDX_MOD - 1 /\ (b + IDX_MOD - a) - IDX_MOD = b - a
            BY <1>0, <2>1 DEF Idx
        <3>2. (b + IDX_MOD - a) % IDX_MOD = (b + IDX_MOD - a) - IDX_MOD
            BY Zenon, <1>0, <3>1, Once
        <3> QED
            BY Zenon, <2>1, <3>1, <3>2 DEF Distance
    <2>2. CASE ~(a <= b)
        <3>1. b + IDX_MOD - a \in 0 .. IDX_MOD - 1
            BY <1>0, <2>2 DEF Idx
        <3>2. (b + IDX_MOD - a) % IDX_MOD = b + IDX_MOD - a
            BY Zenon, <1>0, <3>1, Small
        <3> QED
            BY Zenon, <2>2, <3>2 DEF Distance
    <2> QED
        BY Zenon, <2>1, <2>2
<1>2. ASSUME NEW a \in Idx
      PROVE  wrapping_add(a) = (IF a + 1 = IDX_MOD THEN 0 ELSE a + 1) /\ wrapping_add(a) \in Idx
    <2>1. 1 \in 0 .. IDX_MOD
        BY <1>0
    <2>2. (a + 1) % IDX_MOD = (IF a + 1 < IDX_MOD THEN a + 1 ELSE (a + 1) - IDX_MOD)
        BY Zenon, <2>1, Wraps
    <2>3. (a + 1) % IDX_MOD \in Idx
        BY Zenon, <2>1, Wraps
    <2> HIDE <2>1
    <2>4. a + 1 < IDX_MOD \/ a + 1 = IDX_MOD
        BY <1>0 DEF Idx
    <2>5. CASE a + 1 < IDX_MOD
        BY <1>0, <2>2, <2>3, <2>5 DEF wrapping_add, Idx
    <2>6. CASE a + 1 = IDX_MOD
        BY <1>0, <2>2, <2>3, <2>6 DEF wrapping_add, Idx
    <2> QED
        BY Zenon, <2>4, <2>5, <2>6
<1>3. /\ Distance(t, u) = IF t <= u THEN u - t ELSE u + IDX_MOD - t
      /\ Distance(t, u) \in Idx
    BY <1>0, <1>1 DEF Idx
<1>4. u = (t + Distance(t, u)) % IDX_MOD
    <2>1. Distance(t, u) \in 0 .. IDX_MOD
        BY <1>0, <1>3 DEF Idx
    <2>2. (t + Distance(t, u)) % IDX_MOD =
            IF t + Distance(t, u) < IDX_MOD THEN t + Distance(t, u) ELSE (t + Distance(t, u)) - IDX_MOD
        BY Zenon, <2>1, Wraps
    <2> QED
        BY <1>0, <1>3, <2>2 DEF Idx
<1>5. wrapping_add(u) = (IF u + 1 = IDX_MOD THEN 0 ELSE u + 1) /\ wrapping_add(u) \in Idx
    BY Zenon, <1>2
<1>6. Distance(t, u) + 1 < IDX_MOD => Distance(t, wrapping_add(u)) = Distance(t, u) + 1
    <2>1. Distance(t, wrapping_add(u)) =
             IF t <= wrapping_add(u) THEN wrapping_add(u) - t ELSE wrapping_add(u) + IDX_MOD - t
        BY Zenon, <1>1, <1>5
    <2> QED
        BY <1>0, <1>3, <1>5, <2>1 DEF Idx
<1>7. Distance(t, u) > 0 => Distance(wrapping_add(t), u) = Distance(t, u) - 1
    <2>1. wrapping_add(t) = (IF t + 1 = IDX_MOD THEN 0 ELSE t + 1) /\ wrapping_add(t) \in Idx
        BY Zenon, <1>2
    <2>2. Distance(wrapping_add(t), u) =
             IF wrapping_add(t) <= u THEN u - wrapping_add(t) ELSE u + IDX_MOD - wrapping_add(t)
        BY Zenon, <1>1, <2>1
    <2> QED
        BY <1>0, <1>3, <2>1, <2>2 DEF Idx
<1>8. Distance(t, u) = 0 <=> t = u
    BY <1>0, <1>3 DEF Idx
<1> QED
    BY Zenon, <1>3, <1>4, <1>5, <1>6, <1>7, <1>8 DEF wrapping_add
-----------------------------------------------------------------------------
(* A ring, whatever the two sides have written to it.                      *)
Ring(r) ==
    /\ r = [qsize |-> r.qsize, slot |-> r.slot, idx |-> r.idx, next |-> r.next]
    /\ r.qsize \in Sizes
    /\ r.slot \in [0 .. r.qsize - 1 -> Entry]
    /\ r.idx \in Idx /\ r.next \in Idx

(* What a write and a read change.                                         *)
LEMMA PutFields ==
    ASSUME NEW r, Ring(r), NEW e \in Entry
    PROVE  /\ Ring(Put(r, e))
           /\ Put(r, e).qsize = r.qsize /\ Put(r, e).next = r.next
           /\ Put(r, e).idx = wrapping_add(r.idx)
           /\ Put(r, e).slot = [r.slot EXCEPT ![r.idx % r.qsize] = e]
<1>1. wrapping_add(r.idx) \in Idx
    BY Zenon, Distances DEF Ring
<1>2. r.idx % r.qsize \in 0 .. r.qsize - 1
    <2>1. r.qsize \in Nat \ {0} /\ r.idx \in Nat
        BY ModFacts DEF Ring, Sizes, Idx
    <2> QED
        BY Zenon, <2>1, Divided
<1> DEFINE p == r.idx % r.qsize
           w == wrapping_add(r.idx)
<1>3. /\ Put(r, e) = [r EXCEPT !.slot = [r.slot EXCEPT ![p] = e], !.idx = w]
      /\ w \in Idx /\ p \in 0 .. r.qsize - 1
    BY Zenon, <1>1, <1>2 DEF Put
<1> HIDE DEF p, w
<1>4. [r.slot EXCEPT ![p] = e] \in [0 .. r.qsize - 1 -> Entry]
    BY Zenon, <1>3 DEF Ring
<1>5. Put(r, e) = [qsize |-> r.qsize, slot |-> [r.slot EXCEPT ![p] = e], idx |-> w, next |-> r.next]
    BY ZenonT(30), <1>3 DEF Ring
<1> QED
    BY ZenonT(30), <1>3, <1>4, <1>5 DEF Ring, p, w

(* The same for a read.                                                    *)
LEMMA TakeFields ==
    ASSUME NEW r, Ring(r)
    PROVE  /\ Ring(Take(r))
           /\ Take(r).qsize = r.qsize /\ Take(r).idx = r.idx
           /\ Take(r).next = wrapping_add(r.next)
           /\ Take(r).slot = [r.slot EXCEPT ![r.next % r.qsize] = Empty]
           /\ Oldest(r) \in Entry
<1>1. wrapping_add(r.next) \in Idx
    BY Zenon, Distances DEF Ring
<1>2. r.next % r.qsize \in 0 .. r.qsize - 1
    <2>1. r.qsize \in Nat \ {0} /\ r.next \in Nat
        BY ModFacts DEF Ring, Sizes, Idx
    <2> QED
        BY Zenon, <2>1, Divided
<1>3. Empty \in Entry
    BY Zenon DEF Empty, Entry
<1> DEFINE p == r.next % r.qsize
           w == wrapping_add(r.next)
<1>4. /\ Take(r) = [r EXCEPT !.slot = [r.slot EXCEPT ![p] = Empty], !.next = w]
      /\ w \in Idx /\ p \in 0 .. r.qsize - 1 /\ Oldest(r) = r.slot[p]
    BY Zenon, <1>1, <1>2 DEF Take, Oldest
<1> HIDE DEF p, w
<1>5. r.slot[p] \in Entry
    BY ZenonT(30), <1>4 DEF Ring
<1>6. [r.slot EXCEPT ![p] = Empty] \in [0 .. r.qsize - 1 -> Entry]
    BY Zenon, <1>3, <1>4 DEF Ring
<1>7. Take(r) = [qsize |-> r.qsize, slot |-> [r.slot EXCEPT ![p] = Empty], idx |-> r.idx, next |-> w]
    BY ZenonT(30), <1>4 DEF Ring
<1> QED
    BY ZenonT(30), <1>4, <1>5, <1>6, <1>7 DEF Ring, p, w

(* The k-th unread entry is in the slot k places on.                       *)
LEMMA AtSlot ==
    ASSUME NEW r, Ring(r), NEW k \in 0 .. IDX_MOD
    PROVE  At(r, k) = r.slot[(r.next + k) % r.qsize]
<1>1. ((r.next + k) % IDX_MOD) % r.qsize = (r.next + k) % r.qsize
    BY Zenon, SlotIs DEF Ring
<1> QED
    BY Zenon, <1>1 DEF At

(* Writing puts the entry behind those unread, and disturbs none.          *)
LEMMA PutFacts ==
    ASSUME NEW r, Ring(r), NEW e \in Entry, Unread(r) < r.qsize, Unread(r) + 1 < IDX_MOD
    PROVE  /\ Unread(r) \in Nat
           /\ Unread(Put(r, e)) = Unread(r) + 1
           /\ \A k \in 0 .. Unread(r) - 1 : At(Put(r, e), k) = At(r, k)
           /\ At(Put(r, e), Unread(r)) = e
<1> DEFINE n == r.qsize
           d == Unread(r)
           p == Put(r, e)
<1>1. /\ n \in Sizes /\ n \in Nat \ {0} /\ r.next \in Idx /\ r.idx \in Idx /\ d \in Idx /\ d \in Nat
      /\ d + 1 < IDX_MOD /\ d < n /\ IDX_MOD \in Nat
    <2>1. n \in Sizes /\ r.next \in Idx /\ r.idx \in Idx
        BY Zenon DEF Ring
    <2>2. d \in Idx
        BY Zenon, <2>1, Distances DEF Unread
    <2> QED
        BY <2>1, <2>2, ModFacts DEF Sizes, Idx
<1>2. /\ Ring(p) /\ p.qsize = n /\ p.next = r.next /\ p.idx = wrapping_add(r.idx)
      /\ p.slot = [r.slot EXCEPT ![r.idx % n] = e]
    BY Zenon, PutFields
<1>3. Unread(p) = d + 1
    <2>1. Distance(r.next, wrapping_add(r.idx)) = Distance(r.next, r.idx) + 1
        BY ZenonT(30), <1>1, Distances DEF Unread
    <2> QED
        BY Zenon, <1>2, <2>1 DEF Unread
<1>4. r.idx % n = (r.next + d) % n
    <2>1. r.idx = (r.next + d) % IDX_MOD
        BY ZenonT(30), <1>1, Distances DEF Unread
    <2>2. d \in 0 .. IDX_MOD
        BY <1>1
    <2>3. ((r.next + d) % IDX_MOD) % n = (r.next + d) % n
        BY Zenon, <1>1, <2>2, SlotIs
    <2> QED
        BY Zenon, <2>1, <2>3
<1>5. ASSUME NEW k \in 0 .. d
      PROVE  /\ k \in 0 .. IDX_MOD
             /\ At(p, k) = p.slot[(r.next + k) % n] /\ At(r, k) = r.slot[(r.next + k) % n]
             /\ (r.next + k) % n \in 0 .. n - 1
    <2>1. k \in 0 .. IDX_MOD
        BY <1>1
    <2> QED
        BY ZenonT(30), <1>1, <1>2, <2>1, AtSlot, SlotIs
<1>6. ASSUME NEW k \in 0 .. d - 1
      PROVE  At(p, k) = At(r, k)
    <2>1. k \in 0 .. d /\ k \in 0 .. IDX_MOD /\ d \in 0 .. IDX_MOD /\ k < d /\ d < k + n
        BY <1>1
    <2>2. (r.next + k) % n # (r.next + d) % n
        BY Zenon, <1>1, <2>1, SlotsDiffer
    <2>3. p.slot[(r.next + k) % n] = r.slot[(r.next + k) % n]
        <3> DEFINE x == (r.next + k) % n
                   y == (r.next + d) % n
        <3>1. /\ x \in 0 .. n - 1 /\ x # y /\ p.slot = [r.slot EXCEPT ![y] = e]
              /\ r.slot \in [0 .. n - 1 -> Entry]
            BY Zenon, <1>2, <1>4, <1>5, <2>1, <2>2 DEF Ring
        <3> HIDE DEF x, y, n, p, d
        <3>2. p.slot[x] = r.slot[x]
            BY Zenon, <3>1
        <3> QED
            BY Zenon, <3>2 DEF x
    <2> QED
        BY Zenon, <1>5, <2>1, <2>3
<1>7. At(p, d) = e
    <2> DEFINE y == (r.next + d) % n
    <2>1. /\ y \in 0 .. n - 1 /\ p.slot = [r.slot EXCEPT ![y] = e] /\ r.slot \in [0 .. n - 1 -> Entry]
          /\ At(p, d) = p.slot[y]
        <3>1. d \in 0 .. d
            BY <1>1
        <3> QED
            BY Zenon, <1>2, <1>4, <1>5, <3>1 DEF Ring
    <2> HIDE DEF y, n, p, d
    <2> QED
        BY ZenonT(30), <2>1
<1> QED
    BY Zenon, <1>1, <1>3, <1>6, <1>7

(* Reading leaves the entries behind the oldest, in their order.           *)
LEMMA TakeFacts ==
    ASSUME NEW r, Ring(r), Unread(r) > 0, Unread(r) <= r.qsize
    PROVE  /\ Unread(r) \in Nat
           /\ Unread(Take(r)) = Unread(r) - 1
           /\ \A k \in 0 .. Unread(r) - 2 : At(Take(r), k) = At(r, k + 1)
           /\ Oldest(r) = At(r, 0)
<1> DEFINE n == r.qsize
           d == Unread(r)
           p == Take(r)
<1>1. /\ n \in Sizes /\ n \in Nat \ {0} /\ r.next \in Idx /\ r.idx \in Idx /\ d \in Idx /\ d \in Nat
      /\ d > 0 /\ d <= n /\ IDX_MOD \in Nat \ {0, 1} /\ d < IDX_MOD /\ r.next \in Nat
    <2>1. n \in Sizes /\ r.next \in Idx /\ r.idx \in Idx
        BY Zenon DEF Ring
    <2>2. d \in Idx
        BY Zenon, <2>1, Distances DEF Unread
    <2> QED
        BY <2>1, <2>2, ModFacts DEF Sizes, Idx
<1>2. /\ Ring(p) /\ p.qsize = n /\ p.idx = r.idx /\ p.next = wrapping_add(r.next)
      /\ p.slot = [r.slot EXCEPT ![r.next % n] = Empty]
    BY Zenon, TakeFields
<1>3. Unread(p) = d - 1
    <2>1. Distance(wrapping_add(r.next), r.idx) = Distance(r.next, r.idx) - 1
        BY ZenonT(30), <1>1, Distances DEF Unread
    <2> QED
        BY Zenon, <1>2, <2>1 DEF Unread
<1>4. Oldest(r) = At(r, 0)
    <2>1. 0 \in 0 .. IDX_MOD /\ r.next + 0 = r.next
        BY <1>1
    <2>2. At(r, 0) = r.slot[(r.next + 0) % n]
        BY Zenon, <2>1, AtSlot
    <2> QED
        BY Zenon, <2>1, <2>2 DEF Oldest
<1>5. ASSUME NEW k \in 0 .. d - 2
      PROVE  At(p, k) = At(r, k + 1)
    <2>1. /\ k \in 0 .. IDX_MOD /\ k + 1 \in 0 .. IDX_MOD /\ 0 \in 0 .. IDX_MOD /\ 1 \in 0 .. IDX_MOD
          /\ 0 < k + 1 /\ k + 1 < 0 + n /\ r.next + 0 = r.next /\ k \in Nat
        BY <1>1
    <2>2. (r.next + 0) % n # (r.next + (k + 1)) % n
        BY Zenon, <1>1, <2>1, SlotsDiffer
    <2>3. p.slot[(r.next + (k + 1)) % n] = r.slot[(r.next + (k + 1)) % n]
        <3> DEFINE x == (r.next + (k + 1)) % n
                   y == r.next % n
        <3>1. x \in 0 .. n - 1
            BY Zenon, <1>1, <2>1, SlotIs
        <3>2. x # y /\ p.slot = [r.slot EXCEPT ![y] = Empty] /\ r.slot \in [0 .. n - 1 -> Entry]
            BY Zenon, <1>2, <2>1, <2>2 DEF Ring
        <3> HIDE DEF x, y, n, p, d
        <3>3. p.slot[x] = r.slot[x]
            BY Zenon, <3>1, <3>2
        <3> QED
            BY Zenon, <3>3 DEF x
    <2>4. (p.next + k) % n = (r.next + (k + 1)) % n
        <3>1. p.next = (r.next + 1) % IDX_MOD /\ p.next \in Idx
            BY Zenon, <1>2 DEF wrapping_add, Ring
        <3>2. CASE r.next + 1 < IDX_MOD
            <4>1. (r.next + 1) % IDX_MOD = r.next + 1
                BY Zenon, <1>1, <2>1, <3>2, Wraps
            <4>2. (r.next + 1) + k = r.next + (k + 1)
                BY <1>1, <2>1
            <4> QED
                BY Zenon, <3>1, <4>1, <4>2
        <3>3. CASE ~(r.next + 1 < IDX_MOD)
            <4>1. (r.next + 1) % IDX_MOD = (r.next + 1) - IDX_MOD
                BY Zenon, <1>1, <2>1, <3>3, Wraps
            <4>2. PICK m \in Nat : IDX_MOD = n * m
                BY Zenon, <1>1 DEF Sizes
            <4>3. p.next + k \in Nat /\ (p.next + k) + n * m = r.next + (k + 1)
                <5>1. p.next = (r.next + 1) - IDX_MOD /\ p.next \in Nat
                    BY <1>1, <3>1, <4>1 DEF Idx
                <5>2. p.next + k \in Nat
                    BY <2>1, <5>1
                <5>3. (p.next + k) + IDX_MOD = r.next + (k + 1)
                    BY <1>1, <2>1, <5>1
                <5> QED
                    BY Zenon, <4>2, <5>2, <5>3
            <4>4. ((p.next + k) + n * m) % n = (p.next + k) % n
                BY Zenon, <1>1, <4>2, <4>3, Multiple
            <4> QED
                BY Zenon, <4>3, <4>4
        <3> QED
            BY Zenon, <3>2, <3>3
    <2>5. At(p, k) = p.slot[(p.next + k) % n] /\ At(r, k + 1) = r.slot[(r.next + (k + 1)) % n]
        BY ZenonT(30), <1>2, <2>1, AtSlot
    <2> QED
        BY Zenon, <2>3, <2>4, <2>5
<1> QED
    BY Zenon, <1>1, <1>3, <1>4, <1>5

-----------------------------------------------------------------------------
(* The buffers a ring holds, each once.                                    *)
Distinct(r) ==
    \A j, k \in 0 .. Unread(r) - 1 : At(r, j).id = At(r, k).id => j = k

(* A written entry joins those the ring holds.                             *)
LEMMA PutIds ==
    ASSUME NEW r, Ring(r), NEW e \in Entry, Unread(r) < r.qsize, Unread(r) + 1 < IDX_MOD,
           Distinct(r), e.id \notin Ids(r)
    PROVE  /\ Ids(Put(r, e)) = Ids(r) \cup {e.id}
           /\ Distinct(Put(r, e))
<1> DEFINE d == Unread(r)
           p == Put(r, e)
<1>1. /\ d \in Nat /\ Unread(p) = d + 1 /\ At(p, d) = e
      /\ \A k \in 0 .. d - 1 : At(p, k) = At(r, k)
    BY Zenon, PutFacts
<1>2. /\ \A k \in 0 .. d - 1 : At(r, k).id \in Ids(r) /\ At(r, k).id # e.id
      /\ \A j, k \in 0 .. d - 1 : At(r, j).id = At(r, k).id => j = k
      /\ Ids(r) = {At(r, k).id : k \in 0 .. d - 1}
    BY Zenon DEF Ids, Distinct
<1>3. Ids(p) = {At(p, k).id : k \in 0 .. d} /\ (Distinct(p) <=> \A j, k \in 0 .. d : At(p, j).id = At(p, k).id => j = k)
    <2>1. (d + 1) - 1 = d
        BY <1>1
    <2> QED
        BY Zenon, <1>1, <2>1 DEF Ids, Distinct
<1> HIDE DEF d, p
<1>4. \A k \in 0 .. d : k = d \/ k \in 0 .. d - 1
    BY <1>1
<1>5. \A k \in 0 .. d - 1 : k \in 0 .. d /\ k # d
    BY <1>1
<1>6. d \in 0 .. d
    BY <1>1
<1>7. Ids(p) = Ids(r) \cup {e.id}
    <2>1. ASSUME NEW k \in 0 .. d
          PROVE  At(p, k).id \in Ids(r) \cup {e.id}
        BY Zenon, <1>1, <1>2, <1>4
    <2>2. ASSUME NEW k \in 0 .. d - 1
          PROVE  At(r, k).id \in Ids(p)
        BY Zenon, <1>1, <1>3, <1>5
    <2>3. e.id \in Ids(p)
        BY Zenon, <1>1, <1>3, <1>6
    <2>4. \A x \in Ids(p) : x \in Ids(r) \cup {e.id}
        BY Zenon, <1>3, <2>1
    <2>5. \A x \in Ids(r) : x \in Ids(p)
        BY Zenon, <1>2, <2>2
    <2> QED
        BY ONLY Zenon, <2>3, <2>4, <2>5
<1>8. ASSUME NEW j \in 0 .. d, NEW k \in 0 .. d, At(p, j).id = At(p, k).id
      PROVE  j = k
    BY ZenonT(30), <1>1, <1>2, <1>4, <1>8
<1> QED
    BY Zenon, <1>3, <1>7, <1>8 DEF p

(* The oldest entry leaves.                                                *)
LEMMA TakeIds ==
    ASSUME NEW r, Ring(r), Unread(r) > 0, Unread(r) <= r.qsize, Distinct(r)
    PROVE  /\ Ids(r) = Ids(Take(r)) \cup {Oldest(r).id}
           /\ Oldest(r).id \notin Ids(Take(r))
           /\ Distinct(Take(r))
<1> DEFINE d == Unread(r)
           p == Take(r)
<1>1. /\ d \in Nat /\ Unread(p) = d - 1 /\ Oldest(r) = At(r, 0)
      /\ \A k \in 0 .. d - 2 : At(p, k) = At(r, k + 1)
    BY Zenon, TakeFacts
<1>2. /\ Ids(r) = {At(r, k).id : k \in 0 .. d - 1}
      /\ \A j, k \in 0 .. d - 1 : At(r, j).id = At(r, k).id => j = k
    BY Zenon DEF Ids, Distinct
<1>3. /\ Ids(p) = {At(p, k).id : k \in 0 .. d - 2}
      /\ Distinct(p) <=> \A j, k \in 0 .. d - 2 : At(p, j).id = At(p, k).id => j = k
    <2>1. (d - 1) - 1 = d - 2
        BY <1>1
    <2> QED
        BY Zenon, <1>1, <2>1 DEF Ids, Distinct
<1>0. d > 0
    BY Zenon
<1> HIDE DEF d, p
<1>4. /\ 0 \in 0 .. d - 1
      /\ \A k \in 0 .. d - 2 : k + 1 \in 0 .. d - 1 /\ k + 1 # 0
      /\ \A j, k \in 0 .. d - 2 : j + 1 = k + 1 => j = k
    BY <1>0, <1>1
<1>5. \A k \in 0 .. d - 1 : k = 0 \/ \E j \in 0 .. d - 2 : k = j + 1
    <2> SUFFICES ASSUME NEW k \in 0 .. d - 1, k # 0 PROVE k - 1 \in 0 .. d - 2 /\ k = (k - 1) + 1
        BY Zenon
    <2> QED
        BY <1>0, <1>1
<1>6. Ids(r) = Ids(p) \cup {Oldest(r).id}
    <2>1. \A x \in Ids(r) : x \in Ids(p) \/ x = Oldest(r).id
        <3> SUFFICES ASSUME NEW k \in 0 .. d - 1 PROVE At(r, k).id \in Ids(p) \/ At(r, k).id = Oldest(r).id
            BY Zenon, <1>2
        <3>1. CASE k = 0
            BY Zenon, <1>1, <3>1
        <3>2. ASSUME NEW j \in 0 .. d - 2, k = j + 1
              PROVE  At(r, k).id \in Ids(p)
            BY Zenon, <1>1, <1>3, <3>2
        <3> QED
            BY Zenon, <1>5, <3>1, <3>2
    <2>2. \A x \in Ids(p) : x \in Ids(r)
        <3> SUFFICES ASSUME NEW k \in 0 .. d - 2 PROVE At(p, k).id \in Ids(r)
            BY Zenon, <1>3
        <3>1. At(p, k).id = At(r, k + 1).id /\ k + 1 \in 0 .. d - 1
            BY Zenon, <1>1, <1>3, <1>4
        <3> QED
            BY Zenon, <1>2, <3>1
    <2>3. Oldest(r).id \in Ids(r)
        <3>1. Oldest(r).id = At(r, 0).id /\ 0 \in 0 .. d - 1
            BY Zenon, <1>1, <1>4
        <3> QED
            BY Zenon, <1>2, <3>1
    <2> QED
        BY ZenonT(30), <2>1, <2>2, <2>3
<1>7. Oldest(r).id \notin Ids(p)
    <2>1. ASSUME NEW k \in 0 .. d - 2, At(p, k).id = Oldest(r).id
          PROVE  FALSE
        <3>1. At(r, k + 1).id = At(r, 0).id
            BY Zenon, <1>1, <2>1
        <3> QED
            BY Zenon, <1>2, <1>4, <3>1
    <2> QED
        BY Zenon, <1>3, <2>1
<1>8. ASSUME NEW j \in 0 .. d - 2, NEW k \in 0 .. d - 2, At(p, j).id = At(p, k).id
      PROVE  j = k
    <2>1. At(r, j + 1).id = At(r, k + 1).id
        BY Zenon, <1>1, <1>8
    <2> QED
        BY Zenon, <1>2, <1>4, <2>1
<1> QED
    BY Zenon, <1>3, <1>6, <1>7, <1>8 DEF p

-----------------------------------------------------------------------------
(* A queue, whatever is in its rings.                                      *)
Queue(q) ==
    /\ q = [avail |-> q.avail, used |-> q.used, held |-> q.held]
    /\ Ring(q.avail) /\ Ring(q.used)
    /\ q.held \in SUBSET Nat

(* Exactly the buffers of owned are in the queue, each in one place: in    *)
(* the avail ring, with the device, or in the used ring.                   *)
Apiece(q, owned) ==
    /\ Distinct(q.avail) /\ Distinct(q.used)
    /\ Ids(q.avail) \cap q.held = {}
    /\ Ids(q.avail) \cap Ids(q.used) = {}
    /\ q.held \cap Ids(q.used) = {}
    /\ IsFiniteSet(q.held) /\ IsFiniteSet(owned)
    /\ Exact(q, owned)

(* The unread entries are counted, and none are unread when the reader has *)
(* caught up.                                                              *)
LEMMA UnreadNat ==
    ASSUME NEW r, Ring(r)
    PROVE  Unread(r) \in Nat /\ Unread(r) < IDX_MOD /\ (Unread(r) = 0 <=> r.next = r.idx)
<1>1. r.next \in Idx /\ r.idx \in Idx
    BY Zenon DEF Ring
<1>2. Unread(r) \in Idx /\ (Unread(r) = 0 <=> r.next = r.idx)
    BY ZenonT(30), <1>1, Distances DEF Unread
<1> QED
    BY <1>2, ModFacts DEF Idx

(* Virtqueue::post of a buffer that is not in the queue.                   *)
LEMMA PostKeeps ==
    ASSUME NEW q, Queue(q), NEW owned, NEW index \in Nat
    PROVE  /\ Queue(post(q, index))
           /\ post(q, index).avail.qsize = q.avail.qsize /\ post(q, index).used.qsize = q.used.qsize
           /\ /\ Apiece(q, owned) /\ index \notin owned
              /\ Cardinality(owned) < q.avail.qsize /\ Cardinality(owned) + 1 < IDX_MOD
              => Apiece(post(q, index), owned \cup {index})
<1> DEFINE e == [id |-> index, ok |-> TRUE]
           p == post(q, index)
<1>0. e \in Entry /\ e.id = index
    BY Zenon DEF Entry
<1>1. /\ p = [avail |-> Put(q.avail, e), used |-> q.used, held |-> q.held]
      /\ Ring(Put(q.avail, e)) /\ Put(q.avail, e).qsize = q.avail.qsize
    <2>1. Ring(Put(q.avail, e)) /\ Put(q.avail, e).qsize = q.avail.qsize
        BY Zenon, <1>0, PutFields DEF Queue
    <2> QED
        BY <2>1 DEF Queue, post
<1> HIDE DEF e, p
<1>2. Queue(p) /\ p.avail = Put(q.avail, e) /\ p.used = q.used /\ p.held = q.held
    BY Zenon, <1>1 DEF Queue
<1>3. ASSUME Apiece(q, owned), index \notin owned,
             Cardinality(owned) < q.avail.qsize, Cardinality(owned) + 1 < IDX_MOD
      PROVE  Apiece(p, owned \cup {index})
    <2>1. /\ Unread(q.avail) \in Nat /\ Unread(q.used) \in Nat /\ Cardinality(q.held) \in Nat
          /\ q.avail.qsize \in Nat
        BY Zenon, <1>3, UnreadNat, FS_CardinalityType DEF Queue, Apiece, Ring, Sizes
    <2>2. Unread(q.avail) < q.avail.qsize /\ Unread(q.avail) + 1 < IDX_MOD
        BY <1>3, <2>1, ModFacts DEF Apiece, Exact
    <2>3. Ids(q.avail) \subseteq owned /\ e.id \notin Ids(q.avail)
        BY Zenon, <1>0, <1>3 DEF Apiece, Exact
    <2>4. Ids(p.avail) = Ids(q.avail) \cup {index} /\ Distinct(p.avail)
        <3>1. Ring(q.avail) /\ Distinct(q.avail)
            BY Zenon, <1>3 DEF Queue, Apiece
        <3>2. Ids(Put(q.avail, e)) = Ids(q.avail) \cup {e.id} /\ Distinct(Put(q.avail, e))
            BY Zenon, <1>0, <2>2, <2>3, <3>1, PutIds
        <3> QED
            BY Zenon, <1>0, <1>2, <3>2
    <2>5. Unread(p.avail) = Unread(q.avail) + 1
        BY Zenon, <1>0, <1>2, <2>2, PutFacts DEF Queue
    <2>6. IsFiniteSet(owned \cup {index}) /\ Cardinality(owned \cup {index}) = Cardinality(owned) + 1
        BY Zenon, <1>3, FS_AddElement DEF Apiece
    <2>7. Exact(p, owned \cup {index})
        <3>1. Ids(p.avail) \cup p.held \cup Ids(p.used) = owned \cup {index}
            BY Zenon, <1>2, <1>3, <2>4 DEF Apiece, Exact
        <3>2. Unread(p.avail) + Cardinality(p.held) + Unread(p.used) = Cardinality(owned) + 1
            BY <1>2, <1>3, <2>1, <2>5 DEF Apiece, Exact
        <3> QED
            BY Zenon, <2>6, <3>1, <3>2 DEF Exact
    <2>8. index \notin q.held /\ index \notin Ids(q.used)
        BY Zenon, <1>3 DEF Apiece, Exact
    <2> QED
        BY Zenon, <1>2, <1>3, <2>4, <2>6, <2>7, <2>8 DEF Apiece
<1> QED
    BY Zenon, <1>1, <1>2, <1>3 DEF p

(* What bounds the rings of a queue that holds each buffer once.           *)
LEMMA Bounds ==
    ASSUME NEW q, Queue(q), NEW owned, Apiece(q, owned)
    PROVE  /\ Unread(q.avail) \in Nat /\ Unread(q.used) \in Nat
           /\ Cardinality(q.held) \in Nat /\ Cardinality(owned) \in Nat
           /\ q.avail.qsize \in Nat /\ q.used.qsize \in Nat
           /\ Unread(q.avail) + Cardinality(q.held) + Unread(q.used) = Cardinality(owned)
           /\ Ids(q.avail) \cup q.held \cup Ids(q.used) = owned
           /\ IsFiniteSet(q.held) /\ IsFiniteSet(owned)
           /\ Ring(q.avail) /\ Ring(q.used) /\ Distinct(q.avail) /\ Distinct(q.used)
<1>1. Ring(q.avail) /\ Ring(q.used)
    BY Zenon DEF Queue
<1>2. Unread(q.avail) \in Nat /\ Unread(q.used) \in Nat
    BY Zenon, <1>1, UnreadNat
<1>3. q.avail.qsize \in Nat /\ q.used.qsize \in Nat
    BY Zenon, <1>1 DEF Ring, Sizes
<1>4. /\ Unread(q.avail) + Cardinality(q.held) + Unread(q.used) = Cardinality(owned)
      /\ Ids(q.avail) \cup q.held \cup Ids(q.used) = owned
      /\ IsFiniteSet(q.held) /\ IsFiniteSet(owned) /\ Distinct(q.avail) /\ Distinct(q.used)
    BY Zenon DEF Apiece, Exact
<1> QED
    BY Zenon, <1>1, <1>2, <1>3, <1>4, FS_CardinalityType

(* A queue with one or two of its three fields rewritten.                  *)
LEMMA TwoFields ==
    ASSUME NEW q, Queue(q), NEW x, NEW y
    PROVE  /\ [q EXCEPT !.held = y, !.avail = x] = [avail |-> x, used |-> q.used, held |-> y]
           /\ [q EXCEPT !.used = x, !.held = y] = [avail |-> q.avail, used |-> x, held |-> y]
           /\ [q EXCEPT !.used = x] = [avail |-> q.avail, used |-> x, held |-> q.held]
<1>0. q = [avail |-> q.avail, used |-> q.used, held |-> q.held]
    BY Zenon DEF Queue
<1>1. /\ [q EXCEPT !.held = y] = [avail |-> q.avail, used |-> q.used, held |-> y]
      /\ [q EXCEPT !.used = x] = [avail |-> q.avail, used |-> x, held |-> q.held]
    BY <1>0
<1> DEFINE v == [q EXCEPT !.held = y]
           w == [q EXCEPT !.used = x]
<1> HIDE DEF v, w
<1>2. /\ [v EXCEPT !.avail = x] = [avail |-> x, used |-> q.used, held |-> y]
      /\ [w EXCEPT !.held = y] = [avail |-> q.avail, used |-> x, held |-> y]
    <2>1. v = [avail |-> q.avail, used |-> q.used, held |-> y]
        BY Zenon, <1>1 DEF v
    <2>2. w = [avail |-> q.avail, used |-> x, held |-> q.held]
        BY Zenon, <1>1 DEF w
    <2> QED
        BY <2>1, <2>2
<1>3. /\ [q EXCEPT !.held = y, !.avail = x] = [v EXCEPT !.avail = x]
      /\ [q EXCEPT !.used = x, !.held = y] = [w EXCEPT !.held = y]
    BY Zenon DEF v, w
<1> QED
    BY Zenon, <1>1, <1>2, <1>3

(* A queue of which only the used ring and the held entries change.        *)
LEMMA UsedAndHeld ==
    ASSUME NEW q, Queue(q), NEW x, NEW y
    PROVE  [q EXCEPT !.used = x, !.held = y] = [avail |-> q.avail, used |-> x, held |-> y]
<1> DEFINE w == [q EXCEPT !.used = x]
<1>1. w = [avail |-> q.avail, used |-> x, held |-> q.held]
    BY DEF Queue
<1> HIDE DEF w
<1>2. [w EXCEPT !.held = y] = [avail |-> q.avail, used |-> x, held |-> y]
    BY <1>1
<1> QED
    BY Zenon, <1>2 DEF w

(* The device takes a buffer it was offered.                               *)
LEMMA TakeKeeps ==
    ASSUME NEW q, Queue(q), NEW owned
    PROVE  /\ Queue(TakeFrom(q))
           /\ TakeFrom(q).avail.qsize = q.avail.qsize /\ TakeFrom(q).used.qsize = q.used.qsize
           /\ /\ Apiece(q, owned) /\ q.avail.next # q.avail.idx
              /\ Cardinality(owned) <= q.avail.qsize
              => Apiece(TakeFrom(q), owned)
<1> DEFINE r == q.avail
           x == Oldest(r).id
           p == TakeFrom(q)
<1>0. Ring(r) /\ Ring(Take(r)) /\ Take(r).qsize = r.qsize /\ x \in Nat
    <2>1. Ring(r)
        BY Zenon DEF Queue
    <2>2. Ring(Take(r)) /\ Take(r).qsize = r.qsize /\ Oldest(r) \in Entry
        BY Zenon, <2>1, TakeFields
    <2> QED
        BY Zenon, <2>1, <2>2 DEF Entry
<1>1. p = [avail |-> Take(r), used |-> q.used, held |-> q.held \cup {x}]
    BY Zenon, TwoFields DEF TakeFrom
<1> HIDE DEF r, x, p
<1>2. Queue(p) /\ p.avail = Take(r) /\ p.used = q.used /\ p.held = q.held \cup {x}
    BY Zenon, <1>0, <1>1 DEF Queue
<1>3. ASSUME Apiece(q, owned), r.next # r.idx, Cardinality(owned) <= r.qsize
      PROVE  Apiece(p, owned)
    <2>1. /\ Unread(r) \in Nat /\ Unread(q.used) \in Nat
          /\ Cardinality(q.held) \in Nat /\ Cardinality(owned) \in Nat /\ r.qsize \in Nat
          /\ Unread(r) + Cardinality(q.held) + Unread(q.used) = Cardinality(owned)
          /\ Ids(r) \cup q.held \cup Ids(q.used) = owned
          /\ IsFiniteSet(q.held) /\ IsFiniteSet(owned)
          /\ Distinct(r) /\ Distinct(q.used)
        BY Zenon, <1>3, Bounds DEF r
    <2>2. Unread(r) > 0 /\ Unread(r) <= r.qsize
        <3>1. Unread(r) # 0
            BY Zenon, <1>0, <1>3, UnreadNat
        <3> QED
            BY <1>3, <2>1, <3>1
    <2>3. Ids(r) = Ids(Take(r)) \cup {x} /\ x \notin Ids(Take(r)) /\ Distinct(Take(r))
        BY Zenon, <1>0, <2>1, <2>2, TakeIds DEF x
    <2>4. Unread(Take(r)) = Unread(r) - 1
        BY Zenon, <1>0, <2>2, TakeFacts
    <2>5. /\ Ids(r) \cap q.held = {} /\ Ids(r) \cap Ids(q.used) = {} /\ q.held \cap Ids(q.used) = {}
        BY Zenon, <1>3 DEF Apiece, r
    <2>6. IsFiniteSet(p.held) /\ Cardinality(p.held) = Cardinality(q.held) + 1
        <3>1. x \notin q.held
            BY Zenon, <2>3, <2>5
        <3>2. IsFiniteSet(q.held \cup {x}) /\ Cardinality(q.held \cup {x}) = Cardinality(q.held) + 1
            BY Zenon, <2>1, <3>1, FS_AddElement
        <3> QED
            BY Zenon, <1>2, <3>2
    <2>7. Unread(p.avail) + Cardinality(p.held) + Unread(p.used) = Cardinality(owned)
        BY <1>2, <2>1, <2>4, <2>6
    <2>8. Ids(p.avail) \cup p.held \cup Ids(p.used) = owned
        BY Zenon, <1>2, <2>1, <2>3
    <2>9. /\ Ids(p.avail) \cap p.held = {} /\ Ids(p.avail) \cap Ids(p.used) = {}
          /\ p.held \cap Ids(p.used) = {}
        BY Zenon, <1>2, <2>3, <2>5
    <2> QED
        BY Zenon, <1>2, <2>1, <2>3, <2>6, <2>7, <2>8, <2>9 DEF Apiece, Exact
<1> QED
    BY Zenon, <1>0, <1>2, <1>3 DEF p, r

(* The device completes a buffer it holds; or writes any entry.            *)
LEMMA PutUsedKeeps ==
    ASSUME NEW q, Queue(q), NEW owned, NEW id \in Nat, NEW ok \in BOOLEAN
    PROVE  /\ Queue(PutUsed(q, id, ok)) /\ Queue([q EXCEPT !.used = Put(@, [id |-> id, ok |-> ok])])
           /\ PutUsed(q, id, ok).avail.qsize = q.avail.qsize
           /\ PutUsed(q, id, ok).used.qsize = q.used.qsize
           /\ [q EXCEPT !.used = Put(@, [id |-> id, ok |-> ok])].avail.qsize = q.avail.qsize
           /\ [q EXCEPT !.used = Put(@, [id |-> id, ok |-> ok])].used.qsize = q.used.qsize
           /\ /\ Apiece(q, owned) /\ id \in q.held
              /\ Cardinality(owned) <= q.used.qsize /\ Cardinality(owned) < IDX_MOD
              => Apiece(PutUsed(q, id, ok), owned)
<1> DEFINE e == [id |-> id, ok |-> ok]
           r == q.used
           w == Put(r, e)
           p == PutUsed(q, id, ok)
           l == [q EXCEPT !.used = Put(@, e)]
<1>0. e \in Entry /\ e.id = id
    BY Zenon DEF Entry
<1>1. Ring(r) /\ Ring(w) /\ w.qsize = r.qsize
    <2>1. Ring(r)
        BY Zenon DEF Queue
    <2> QED
        BY Zenon, <1>0, <2>1, PutFields
<1>2. /\ p = [avail |-> q.avail, used |-> w, held |-> q.held \ {id}]
      /\ l = [avail |-> q.avail, used |-> w, held |-> q.held]
    <2>1. PutUsed(q, id, ok) = [avail |-> q.avail, used |-> Put(q.used, e), held |-> q.held \ {id}]
        <3> DEFINE y == q.held \ {id}
                   x == Put(q.used, e)
        <3>1. PutUsed(q, id, ok) = [q EXCEPT !.used = x, !.held = y]
            BY Zenon DEF PutUsed
        <3> HIDE DEF x, y
        <3>2. [q EXCEPT !.used = x, !.held = y] = [avail |-> q.avail, used |-> x, held |-> y]
            BY Zenon, UsedAndHeld
        <3> QED
            BY Zenon, <3>1, <3>2 DEF x, y
    <2>2. [q EXCEPT !.used = Put(q.used, e)] = [avail |-> q.avail, used |-> Put(q.used, e), held |-> q.held]
        BY Zenon, TwoFields
    <2> QED
        BY Zenon, <2>1, <2>2
<1> HIDE DEF e, r, w, p, l
<1>3. /\ Queue(p) /\ p.avail = q.avail /\ p.used = w /\ p.held = q.held \ {id}
      /\ Queue(l) /\ l.avail = q.avail /\ l.used = w
    BY Zenon, <1>1, <1>2 DEF Queue
<1>4. ASSUME Apiece(q, owned), id \in q.held, Cardinality(owned) <= r.qsize, Cardinality(owned) < IDX_MOD
      PROVE  Apiece(p, owned)
    <2>1. /\ Unread(q.avail) \in Nat /\ Unread(r) \in Nat
          /\ Cardinality(q.held) \in Nat /\ Cardinality(owned) \in Nat /\ r.qsize \in Nat
          /\ Unread(q.avail) + Cardinality(q.held) + Unread(r) = Cardinality(owned)
          /\ Ids(q.avail) \cup q.held \cup Ids(r) = owned
          /\ IsFiniteSet(q.held) /\ IsFiniteSet(owned)
          /\ Distinct(q.avail) /\ Distinct(r)
        BY Zenon, <1>4, Bounds DEF r
    <2>2. /\ IsFiniteSet(q.held \ {id}) /\ Cardinality(q.held \ {id}) = Cardinality(q.held) - 1
          /\ Cardinality(q.held \ {id}) \in Nat
        BY Zenon, <1>4, <2>1, FS_RemoveElement, FS_CardinalityType
    <2>3. Unread(r) < r.qsize /\ Unread(r) + 1 < IDX_MOD + 1 /\ Unread(r) + 1 <= Cardinality(owned)
        BY <1>4, <2>1, <2>2, ModFacts
    <2>4. Unread(r) + 1 < IDX_MOD
        BY <1>4, <2>1, <2>3, ModFacts
    <2>5. Ids(q.avail) \cap q.held = {} /\ Ids(q.avail) \cap Ids(r) = {} /\ q.held \cap Ids(r) = {}
        BY Zenon, <1>4 DEF Apiece, r
    <2>6. e.id \notin Ids(r)
        BY Zenon, <1>0, <1>4, <2>5
    <2>7. Ids(w) = Ids(r) \cup {id} /\ Distinct(w)
        <3>1. Ids(Put(r, e)) = Ids(r) \cup {e.id} /\ Distinct(Put(r, e))
            BY Zenon, <1>0, <1>1, <2>1, <2>3, <2>4, <2>6, PutIds
        <3> QED
            BY Zenon, <1>0, <3>1 DEF w
    <2>8. Unread(w) = Unread(r) + 1
        BY ZenonT(30), <1>0, <1>1, <2>3, <2>4, PutFacts DEF w
    <2>9. Unread(p.avail) + Cardinality(p.held) + Unread(p.used) = Cardinality(owned)
        BY <1>3, <2>1, <2>2, <2>8
    <2>10. Ids(p.avail) \cup p.held \cup Ids(p.used) = owned
        BY Zenon, <1>3, <1>4, <2>1, <2>7
    <2>11. /\ Ids(p.avail) \cap p.held = {} /\ Ids(p.avail) \cap Ids(p.used) = {}
           /\ p.held \cap Ids(p.used) = {}
        BY Zenon, <1>3, <1>4, <2>5, <2>7
    <2> QED
        BY ZenonT(30), <1>3, <2>1, <2>2, <2>7, <2>9, <2>10, <2>11 DEF Apiece, Exact
<1> QED
    BY Zenon, <1>1, <1>3, <1>4 DEF p, l, r, e

(* Virtqueue::poll_used takes the oldest completion: a buffer that was the *)
(* device's, and is not any more.                                          *)
LEMMA PollKeeps ==
    ASSUME NEW q, Queue(q), NEW owned
    PROVE  /\ Queue(poll_used(q)) /\ HeadUsed(q) \in Entry
           /\ poll_used(q).avail.qsize = q.avail.qsize /\ poll_used(q).used.qsize = q.used.qsize
           /\ /\ Apiece(q, owned) /\ HasUsed(q) /\ Cardinality(owned) <= q.used.qsize
              => HeadUsed(q).id \in owned /\ Apiece(poll_used(q), owned \ {HeadUsed(q).id})
<1> DEFINE r == q.used
           x == Oldest(r).id
           p == poll_used(q)
<1>0. Ring(r) /\ Ring(Take(r)) /\ Take(r).qsize = r.qsize /\ Oldest(r) \in Entry
    <2>1. Ring(r)
        BY Zenon DEF Queue
    <2> QED
        BY Zenon, <2>1, TakeFields
<1>1. p = [avail |-> q.avail, used |-> Take(r), held |-> q.held]
    BY Zenon, TwoFields DEF poll_used
<1> HIDE DEF r, x, p
<1>2. Queue(p) /\ p.avail = q.avail /\ p.used = Take(r) /\ p.held = q.held
    BY Zenon, <1>0, <1>1 DEF Queue
<1>3. ASSUME Apiece(q, owned), HasUsed(q), Cardinality(owned) <= r.qsize
      PROVE  x \in owned /\ Apiece(p, owned \ {x})
    <2>1. /\ Unread(q.avail) \in Nat /\ Unread(r) \in Nat
          /\ Cardinality(q.held) \in Nat /\ Cardinality(owned) \in Nat /\ r.qsize \in Nat
          /\ Unread(q.avail) + Cardinality(q.held) + Unread(r) = Cardinality(owned)
          /\ Ids(q.avail) \cup q.held \cup Ids(r) = owned
          /\ IsFiniteSet(q.held) /\ IsFiniteSet(owned)
          /\ Distinct(q.avail) /\ Distinct(r)
        BY Zenon, <1>3, Bounds DEF r
    <2>2. Unread(r) > 0 /\ Unread(r) <= r.qsize
        <3>1. Unread(r) # 0
            BY Zenon, <1>0, <1>3, UnreadNat DEF HasUsed, r
        <3> QED
            BY <1>3, <2>1, <3>1
    <2>3. Ids(r) = Ids(Take(r)) \cup {x} /\ x \notin Ids(Take(r)) /\ Distinct(Take(r))
        BY Zenon, <1>0, <2>1, <2>2, TakeIds DEF x
    <2>4. Unread(Take(r)) = Unread(r) - 1
        BY Zenon, <1>0, <2>2, TakeFacts
    <2>5. Ids(q.avail) \cap q.held = {} /\ Ids(q.avail) \cap Ids(r) = {} /\ q.held \cap Ids(r) = {}
        BY Zenon, <1>3 DEF Apiece, r
    <2>6. x \in owned
        BY Zenon, <2>1, <2>3
    <2>7. IsFiniteSet(owned \ {x}) /\ Cardinality(owned \ {x}) = Cardinality(owned) - 1
        BY Zenon, <2>1, <2>6, FS_RemoveElement
    <2>8. Unread(p.avail) + Cardinality(p.held) + Unread(p.used) = Cardinality(owned \ {x})
        BY <1>2, <2>1, <2>4, <2>7
    <2>9. Ids(p.avail) \cup p.held \cup Ids(p.used) = owned \ {x}
        BY Zenon, <1>2, <2>1, <2>3, <2>5
    <2>10. /\ Ids(p.avail) \cap p.held = {} /\ Ids(p.avail) \cap Ids(p.used) = {}
           /\ p.held \cap Ids(p.used) = {}
        BY Zenon, <1>2, <2>3, <2>5
    <2> QED
        BY ZenonT(30), <1>2, <2>1, <2>3, <2>6, <2>7, <2>8, <2>9, <2>10 DEF Apiece, Exact
<1> QED
    BY Zenon, <1>0, <1>1, <1>2, <1>3 DEF p, r, x, HeadUsed

-----------------------------------------------------------------------------
(* The inductive invariant of the two rings.  RingSound is not inductive:  *)
(* an index that wraps early, an entry that repeats a buffer in a ring, or *)
(* a call that forgets its slot keeps it for one step.                     *)
Queues ==
    /\ Queue(rxq) /\ Queue(txq)
    /\ RX_BUFFER_COUNT <= rxq.avail.qsize /\ RX_BUFFER_COUNT <= rxq.used.qsize
    /\ TX_BUFFER_COUNT <= txq.avail.qsize /\ TX_BUFFER_COUNT <= txq.used.qsize
CallOK ==
    /\ call = [pc |-> call.pc, tx |-> call.tx, left |-> call.left, pending |-> call.pending,
               found |-> call.found]
    /\ call.pc \in {"idle", "receive", "transmit", "scan", "repost"}
    /\ call.tx \in 0 .. NoSlot /\ call.left \in 0 .. MAX_ENTRIES_PER_CALL
    /\ call.pending \subseteq RxBuffer /\ call.found \in 0 .. NoFrame
    /\ call.pc \in {"idle", "receive", "transmit"} =>
          call.tx = NoSlot /\ call.left = 0 /\ call.pending = {} /\ call.found = NoFrame
TokenOK ==
    /\ token = [rx |-> token.rx, tx |-> token.tx]
    /\ token.rx \in 0 .. NoFrame /\ token.tx \in 0 .. NoSlot
    /\ token.rx = NoFrame => token.tx = NoSlot
    /\ call.pc # "idle" => token = NoToken
Buffers ==
    /\ posted \subseteq RxBuffer
    /\ RxBuffer \subseteq posted \cup Kept /\ posted \cap Kept = {}
    /\ call.found \notin call.pending
Slots ==
    /\ in_use \subseteq TxBuffer
    /\ call.tx \notin in_use /\ token.tx \notin in_use
    /\ Apiece(txq, in_use)
RingInv ==
    /\ lies \in Nat
    /\ Queues /\ CallOK /\ TokenOK /\ Buffers /\ Slots
    /\ lies = 0 => Apiece(rxq, posted)

(* A set of buffers is no larger than the pool, and smaller while a buffer *)
(* is missing from it.                                                     *)
LEMMA Room ==
    ASSUME NEW n \in Nat, NEW S, S \subseteq 0 .. n - 1
    PROVE  /\ IsFiniteSet(S) /\ Cardinality(S) \in Nat /\ Cardinality(S) <= n
           /\ \A b \in 0 .. n - 1 : b \notin S => Cardinality(S) < n
<1>1. IsFiniteSet(0 .. n - 1) /\ Cardinality(0 .. n - 1) = n
    <2>1. 0 \in Int /\ n - 1 \in Int
        OBVIOUS
    <2>2. /\ IsFiniteSet(0 .. n - 1)
          /\ Cardinality(0 .. n - 1) = IF 0 > n - 1 THEN 0 ELSE (n - 1) - 0 + 1
        BY Zenon, <2>1, FS_Interval
    <2> QED
        BY <2>2
<1>2. IsFiniteSet(S) /\ Cardinality(S) <= n
    BY ZenonT(30), <1>1, FS_Subset
<1>3. ASSUME NEW b \in 0 .. n - 1, b \notin S
      PROVE  Cardinality(S) < n
    <2>1. IsFiniteSet(S \cup {b}) /\ Cardinality(S \cup {b}) = Cardinality(S) + 1
        BY Zenon, <1>2, <1>3, FS_AddElement
    <2>2. S \cup {b} \subseteq 0 .. n - 1
        BY Zenon
    <2>3. Cardinality(S \cup {b}) <= n
        BY ZenonT(30), <1>1, <2>2, FS_Subset
    <2> QED
        BY <1>2, <2>1, <2>3, FS_CardinalityType
<1> QED
    BY Zenon, <1>2, <1>3, FS_CardinalityType

(* The buffer counts and the scan bound are numbers an index can count.    *)
LEMMA Counts ==
    /\ RX_BUFFER_COUNT \in Nat \ {0} /\ TX_BUFFER_COUNT \in Nat \ {0} /\ IDX_MOD \in Nat
    /\ RX_BUFFER_COUNT < IDX_MOD /\ TX_BUFFER_COUNT < IDX_MOD
    /\ MAX_ENTRIES_PER_CALL \in Nat
BY RingAssumption

(* What the sizes give a step that posts or polls.                         *)
LEMMA Fits ==
    ASSUME RingInv
    PROVE  /\ Cardinality(posted) <= rxq.avail.qsize /\ Cardinality(posted) <= rxq.used.qsize
           /\ Cardinality(in_use) <= txq.avail.qsize /\ Cardinality(in_use) <= txq.used.qsize
           /\ Cardinality(posted) < IDX_MOD /\ Cardinality(in_use) < IDX_MOD
           /\ \A b \in RxBuffer : b \notin posted =>
                 Cardinality(posted) < rxq.avail.qsize /\ Cardinality(posted) + 1 < IDX_MOD
           /\ \A b \in TxBuffer : b \notin in_use =>
                 Cardinality(in_use) < txq.avail.qsize /\ Cardinality(in_use) + 1 < IDX_MOD
<1>1. /\ Cardinality(posted) \in Nat /\ Cardinality(posted) <= RX_BUFFER_COUNT
      /\ \A b \in RxBuffer : b \notin posted => Cardinality(posted) < RX_BUFFER_COUNT
    <2>1. posted \subseteq 0 .. RX_BUFFER_COUNT - 1 /\ RX_BUFFER_COUNT \in Nat
        BY Zenon, Counts DEF RingInv, Buffers, RxBuffer
    <2> QED
        BY Zenon, <2>1, Room DEF RxBuffer
<1>2. /\ Cardinality(in_use) \in Nat /\ Cardinality(in_use) <= TX_BUFFER_COUNT
      /\ \A b \in TxBuffer : b \notin in_use => Cardinality(in_use) < TX_BUFFER_COUNT
    <2>1. in_use \subseteq 0 .. TX_BUFFER_COUNT - 1 /\ TX_BUFFER_COUNT \in Nat
        BY Zenon, Counts DEF RingInv, Slots, TxBuffer
    <2> QED
        BY Zenon, <2>1, Room DEF TxBuffer
<1>3. /\ rxq.avail.qsize \in Nat /\ rxq.used.qsize \in Nat
      /\ txq.avail.qsize \in Nat /\ txq.used.qsize \in Nat
    BY Zenon DEF RingInv, Queues, Queue, Ring, Sizes
<1>4. /\ RX_BUFFER_COUNT <= rxq.avail.qsize /\ RX_BUFFER_COUNT <= rxq.used.qsize
      /\ TX_BUFFER_COUNT <= txq.avail.qsize /\ TX_BUFFER_COUNT <= txq.used.qsize
    BY Zenon DEF RingInv, Queues
<1> QED
    BY SMTT(30), <1>1, <1>2, <1>3, <1>4, Counts

(* A step of the device on the RX queue.                                   *)
LEMMA RxDevice ==
    ASSUME RingInv, UNCHANGED <<txq, posted, in_use, call, token>>, lies' \in Nat,
           Queue(rxq'), rxq'.avail.qsize = rxq.avail.qsize, rxq'.used.qsize = rxq.used.qsize,
           lies' = 0 => Apiece(rxq', posted)
    PROVE  RingInv'
BY Zenon DEF RingInv, Queues, CallOK, TokenOK, Buffers, Slots, Kept

(* A step of the device on the TX queue.                                   *)
LEMMA TxDevice ==
    ASSUME RingInv, UNCHANGED <<rxq, posted, in_use, call, token, lies>>,
           Queue(txq'), txq'.avail.qsize = txq.avail.qsize, txq'.used.qsize = txq.used.qsize,
           Apiece(txq', in_use)
    PROVE  RingInv'
BY Zenon DEF RingInv, Queues, CallOK, TokenOK, Buffers, Slots, Kept

(* The device takes a posted entry off an available ring: the entry moves  *)
(* from the ring to those the device holds.                                *)
LEMMA DeviceTakesStep ==
    ASSUME RingInv, DeviceTakes
    PROVE  RingInv'
<1>1. CASE /\ rxq.avail.next # rxq.avail.idx /\ rxq' = TakeFrom(rxq)
           /\ UNCHANGED <<txq, posted, in_use, call, token, lies>>
    <2>1. Queue(rxq) /\ lies \in Nat /\ (lies = 0 => Apiece(rxq, posted)) /\ Cardinality(posted) <= rxq.avail.qsize
        BY Zenon, Fits DEF RingInv, Queues
    <2>2. /\ Queue(rxq') /\ rxq'.avail.qsize = rxq.avail.qsize /\ rxq'.used.qsize = rxq.used.qsize
          /\ lies' = 0 => Apiece(rxq', posted)
        BY Zenon, <1>1, <2>1, TakeKeeps
    <2> QED
        BY Zenon, <1>1, <2>1, <2>2, RxDevice
<1>2. CASE /\ txq.avail.next # txq.avail.idx /\ txq' = TakeFrom(txq)
           /\ UNCHANGED <<rxq, posted, in_use, call, token, lies>>
    <2>1. Queue(txq) /\ Apiece(txq, in_use) /\ Cardinality(in_use) <= txq.avail.qsize
        BY Zenon, Fits DEF RingInv, Queues, Slots
    <2>2. /\ Queue(txq') /\ txq'.avail.qsize = txq.avail.qsize /\ txq'.used.qsize = txq.used.qsize
          /\ Apiece(txq', in_use)
        BY Zenon, <1>2, <2>1, TakeKeeps
    <2> QED
        BY Zenon, <1>2, <2>2, TxDevice
<1> QED
    BY Zenon, <1>1, <1>2 DEF DeviceTakes

(* The device completes a receive buffer.                                  *)
LEMMA FrameArrivesStep ==
    ASSUME RingInv, FrameArrives
    PROVE  RingInv'
<1>1. PICK id \in rxq.held, ok \in BOOLEAN : rxq' = PutUsed(rxq, id, ok)
    BY Zenon DEF FrameArrives
<1>2. UNCHANGED <<txq, posted, in_use, call, token, lies>>
    BY Zenon DEF FrameArrives
<1>3. /\ Queue(rxq) /\ lies \in Nat /\ (lies = 0 => Apiece(rxq, posted))
      /\ Cardinality(posted) <= rxq.used.qsize /\ Cardinality(posted) < IDX_MOD
    BY Zenon, Fits DEF RingInv, Queues
<1>4. id \in Nat
    BY Zenon, <1>3 DEF Queue
<1>5. /\ Queue(rxq') /\ rxq'.avail.qsize = rxq.avail.qsize /\ rxq'.used.qsize = rxq.used.qsize
      /\ lies' = 0 => Apiece(rxq', posted)
    BY ZenonT(30), <1>1, <1>2, <1>3, <1>4, PutUsedKeeps
<1> QED
    BY Zenon, <1>2, <1>3, <1>5, RxDevice

(* The device completes a transmit buffer.                                 *)
LEMMA FrameSentStep ==
    ASSUME RingInv, FrameSent
    PROVE  RingInv'
<1>1. PICK id \in txq.held : txq' = PutUsed(txq, id, TRUE)
    BY Zenon DEF FrameSent
<1>2. UNCHANGED <<rxq, posted, in_use, call, token, lies>>
    BY Zenon DEF FrameSent
<1>3. /\ Queue(txq) /\ Apiece(txq, in_use)
      /\ Cardinality(in_use) <= txq.used.qsize /\ Cardinality(in_use) < IDX_MOD
    BY Zenon, Fits DEF RingInv, Queues, Slots
<1>4. id \in Nat
    BY Zenon, <1>3 DEF Queue
<1>5. /\ Queue(txq') /\ txq'.avail.qsize = txq.avail.qsize /\ txq'.used.qsize = txq.used.qsize
      /\ Apiece(txq', in_use)
    BY Zenon, <1>1, <1>3, <1>4, PutUsedKeeps
<1> QED
    BY Zenon, <1>2, <1>5, TxDevice

(* The device writes a used entry that stands for no buffer it holds, with *)
(* any id and length.                                                      *)
LEMMA DeviceLiesStep ==
    ASSUME RingInv, DeviceLies
    PROVE  RingInv'
<1>1. PICK id \in 0 .. RX_BUFFER_COUNT, ok \in BOOLEAN :
          rxq' = [rxq EXCEPT !.used = Put(@, [id |-> id, ok |-> ok])]
    BY Zenon DEF DeviceLies
<1>2. UNCHANGED <<txq, posted, in_use, call, token>> /\ lies' = lies + 1
    BY Zenon DEF DeviceLies
<1>3. Queue(rxq) /\ lies' \in Nat /\ lies' # 0
    BY <1>2 DEF RingInv, Queues
<1>4. id \in Nat
    BY Counts
<1>5. /\ Queue(rxq') /\ rxq'.avail.qsize = rxq.avail.qsize /\ rxq'.used.qsize = rxq.used.qsize
    BY ZenonT(30), <1>1, <1>3, <1>4, PutUsedKeeps
<1> QED
    BY Zenon, <1>2, <1>3, <1>5, RxDevice

(* post_rx_buffer, for a buffer the driver has kept.                       *)
LEMMA PostsRx ==
    ASSUME RingInv, NEW b \in RxBuffer, b \notin posted, post_rx_buffer(b)
    PROVE  /\ posted' = posted \cup {b}
           /\ Queue(rxq') /\ rxq'.avail.qsize = rxq.avail.qsize /\ rxq'.used.qsize = rxq.used.qsize
           /\ lies = 0 => Apiece(rxq', posted')
<1>1. posted' = posted \cup {b} /\ rxq' = post(rxq, b)
    BY Zenon DEF post_rx_buffer
<1>2. b \in Nat /\ Queue(rxq) /\ (lies = 0 => Apiece(rxq, posted))
    BY Counts DEF RingInv, Queues, RxBuffer
<1>3. Cardinality(posted) < rxq.avail.qsize /\ Cardinality(posted) + 1 < IDX_MOD
    BY Zenon, Fits
<1> QED
    BY Zenon, <1>1, <1>2, <1>3, PostKeeps

(* Virtqueue::post of a TX slot that is free.                              *)
LEMMA PostsTx ==
    ASSUME RingInv, NEW i \in TxBuffer, i \notin in_use, txq' = post(txq, i), in_use' = in_use \cup {i}
    PROVE  /\ Queue(txq') /\ txq'.avail.qsize = txq.avail.qsize /\ txq'.used.qsize = txq.used.qsize
           /\ Apiece(txq', in_use')
<1>1. i \in Nat /\ Queue(txq) /\ Apiece(txq, in_use)
    BY Counts DEF RingInv, Queues, Slots, TxBuffer
<1>2. Cardinality(in_use) < txq.avail.qsize /\ Cardinality(in_use) + 1 < IDX_MOD
    BY Zenon, Fits
<1> QED
    BY Zenon, <1>1, <1>2, PostKeeps

(* Where Virtqueues and lies are left alone.                               *)
LEMMA Calling ==
    ASSUME RingInv, UNCHANGED <<rxq, txq, posted, in_use, lies>>,
           CallOK', TokenOK', Kept' = Kept, call'.found \notin call'.pending,
           call'.tx \notin in_use, token'.tx \notin in_use
    PROVE  RingInv'
BY Zenon DEF RingInv, Queues, Buffers, Slots

(* The markers for no slot and no frame are not buffers.                   *)
LEMMA Nobody ==
    ASSUME RingInv
    PROVE  NoSlot \notin in_use /\ NoFrame \notin posted /\ NoFrame \notin RxBuffer /\ NoSlot \notin TxBuffer
           /\ NoFrame \in 0 .. NoFrame /\ NoSlot \in 0 .. NoSlot
BY Counts DEF RingInv, Slots, Buffers, NoSlot, NoFrame, TxBuffer, RxBuffer

(* smoltcp calls receive or transmit.                                      *)
LEMMA CallsStep ==
    ASSUME RingInv, receive \/ transmit
    PROVE  RingInv'
<1>1. PICK which \in {"receive", "transmit"} : Calls(which)
    BY Zenon DEF receive, transmit
<1>2. /\ call.pc = "idle" /\ token = NoToken /\ call' = [call EXCEPT !.pc = which]
      /\ UNCHANGED <<rxq, txq, posted, in_use, token, lies>>
    BY Zenon, <1>1 DEF Calls
<1>3. call' = [pc |-> which, tx |-> call.tx, left |-> call.left, pending |-> call.pending, found |-> call.found]
    BY Zenon, <1>2 DEF RingInv, CallOK
<1>4. /\ call'.pc = which /\ call'.tx = call.tx /\ call'.left = call.left
      /\ call'.pending = call.pending /\ call'.found = call.found
    BY Zenon, <1>3
<1>5. CallOK'
    <2>1. /\ call.tx \in 0 .. NoSlot /\ call.left \in 0 .. MAX_ENTRIES_PER_CALL
          /\ call.pending \subseteq RxBuffer /\ call.found \in 0 .. NoFrame
          /\ call.tx = NoSlot /\ call.left = 0 /\ call.pending = {} /\ call.found = NoFrame
        BY Zenon, <1>2 DEF RingInv, CallOK
    <2>2. call' = [pc |-> call'.pc, tx |-> call'.tx, left |-> call'.left, pending |-> call'.pending,
                   found |-> call'.found]
        BY Zenon, <1>3
    <2> QED
        BY Zenon, <1>4, <2>1, <2>2 DEF CallOK
<1>6. TokenOK'
    BY Zenon, <1>2 DEF RingInv, TokenOK
<1>7. Kept' = Kept
    BY Zenon, <1>2, <1>4 DEF Kept
<1>8. call'.found \notin call'.pending /\ call'.tx \notin in_use /\ token'.tx \notin in_use
    BY ZenonT(30), <1>2, <1>4 DEF RingInv, Buffers, Slots
<1> QED
    BY ZenonT(30), <1>2, <1>5, <1>6, <1>7, <1>8, Calling

(* What an idle call holds.                                                *)
LEMMA IdleFacts ==
    /\ Idle.pc = "idle" /\ Idle.tx = NoSlot /\ Idle.left = 0 /\ Idle.pending = {} /\ Idle.found = NoFrame
    /\ Idle = [pc |-> Idle.pc, tx |-> Idle.tx, left |-> Idle.left, pending |-> Idle.pending,
               found |-> Idle.found]
    /\ NoToken.rx = NoFrame /\ NoToken.tx = NoSlot /\ NoToken = [rx |-> NoToken.rx, tx |-> NoToken.tx]
BY Zenon DEF Idle, NoToken

(* Between two of smoltcp's calls nothing is claimed.                      *)
LEMMA IdleOK ==
    ASSUME RingInv, call' = Idle
    PROVE  CallOK'
<1>1. 0 \in 0 .. MAX_ENTRIES_PER_CALL /\ NoFrame \in 0 .. NoFrame /\ NoSlot \in 0 .. NoSlot /\ {} \subseteq RxBuffer
    BY Counts DEF NoFrame, NoSlot
<1> QED
    BY Zenon, <1>1, IdleFacts DEF CallOK

(* No transmit buffer is free: the call returns no token.                  *)
LEMMA NoneFreeStep ==
    ASSUME RingInv, NoneFree
    PROVE  RingInv'
<1>1. /\ call.pc \in {"receive", "transmit"} /\ call' = Idle
      /\ UNCHANGED <<rxq, txq, posted, in_use, token, lies>>
    BY Zenon DEF NoneFree
<1>2. CallOK'
    BY Zenon, <1>1, IdleOK
<1>3. /\ call.tx = NoSlot /\ call.pending = {} /\ call.found = NoFrame
    BY Zenon, <1>1 DEF RingInv, CallOK
<1>4. TokenOK'
    BY Zenon, <1>1, IdleFacts DEF RingInv, TokenOK
<1>5. Kept' = Kept
    BY Zenon, <1>1, <1>3, IdleFacts DEF Kept
<1>6. call'.found \notin call'.pending /\ call'.tx \notin in_use /\ token'.tx \notin in_use
    BY Zenon, <1>1, <1>3, IdleFacts DEF RingInv, Buffers, Slots
<1> QED
    BY Zenon, <1>1, <1>2, <1>4, <1>5, <1>6, Calling

(* free_tx_slot takes one used entry of the transmit queue off its ring.   *)
LEMMA ReapStep ==
    ASSUME RingInv, Reap
    PROVE  RingInv'
<1> DEFINE x == HeadUsed(txq).id
<1>1. /\ HasUsed(txq) /\ in_use' = in_use \ {x} /\ txq' = poll_used(txq)
      /\ UNCHANGED <<rxq, posted, call, token, lies>>
    BY Zenon DEF Reap, StillInUse
<1>2. Queue(txq) /\ Apiece(txq, in_use) /\ Cardinality(in_use) <= txq.used.qsize
    BY Zenon, Fits DEF RingInv, Queues, Slots
<1>3. /\ Queue(txq') /\ txq'.avail.qsize = txq.avail.qsize /\ txq'.used.qsize = txq.used.qsize
      /\ Apiece(txq', in_use')
    BY Zenon, <1>1, <1>2, PollKeeps
<1> HIDE DEF x
<1> QED
    BY Zenon, <1>1, <1>3 DEF RingInv, Queues, CallOK, TokenOK, Buffers, Slots, Kept

(* A transmit token is consumed: its buffer is posted and in use.          *)
LEMMA TxConsumeStep ==
    ASSUME RingInv, tx_consume
    PROVE  RingInv'
<1>1. PICK i \in Free : free_tx_slot(i) /\ txq' = post(txq, i) /\ in_use' = in_use \cup {i}
    BY Zenon DEF tx_consume
<1>2. call.pc = "transmit" /\ call' = Idle /\ UNCHANGED <<rxq, posted, token, lies>>
    BY Zenon DEF tx_consume, Reaped
<1>3. i \in TxBuffer /\ i \notin in_use
    BY Zenon DEF Free
<1>4. /\ Queue(txq') /\ txq'.avail.qsize = txq.avail.qsize /\ txq'.used.qsize = txq.used.qsize
      /\ Apiece(txq', in_use')
    BY Zenon, <1>1, <1>3, PostsTx
<1>5. CallOK'
    BY Zenon, <1>2, IdleOK
<1>6. call.tx = NoSlot /\ call.pending = {} /\ call.found = NoFrame /\ token = NoToken
    BY Zenon, <1>2 DEF RingInv, CallOK, TokenOK
<1>7. TokenOK'
    BY Zenon, <1>2, IdleFacts DEF RingInv, TokenOK
<1>8. Buffers'
    BY Zenon, <1>2, <1>6, IdleFacts DEF RingInv, Buffers, Kept
<1>9. in_use' \subseteq TxBuffer /\ call'.tx \notin in_use' /\ token'.tx \notin in_use'
    <2>1. in_use' \subseteq TxBuffer
        BY Zenon, <1>1, <1>3 DEF RingInv, Slots
    <2>2. NoSlot \notin TxBuffer
        BY Zenon, Nobody
    <2> QED
        BY ZenonT(30), <1>2, <1>6, <2>1, <2>2, IdleFacts
<1> QED
    BY ZenonT(30), <1>2, <1>4, <1>5, <1>7, <1>8, <1>9 DEF RingInv, Queues, Slots

(* service_rx begins a pass over the used ring.                            *)
LEMMA ServiceRxStep ==
    ASSUME RingInv, service_rx
    PROVE  RingInv'
<1>1. PICK i \in Free :
          call' = [pc |-> "scan", tx |-> i, left |-> MAX_ENTRIES_PER_CALL, pending |-> {}, found |-> NoFrame]
    BY Zenon DEF service_rx
<1>2. call.pc = "receive" /\ UNCHANGED <<rxq, txq, posted, in_use, token, lies>>
    BY Zenon DEF service_rx, Reaped
<1>3. i \in TxBuffer /\ i \notin in_use
    BY Zenon DEF Free
<1>4. /\ call'.pc = "scan" /\ call'.tx = i /\ call'.left = MAX_ENTRIES_PER_CALL
      /\ call'.pending = {} /\ call'.found = NoFrame
      /\ call' = [pc |-> call'.pc, tx |-> call'.tx, left |-> call'.left, pending |-> call'.pending,
                  found |-> call'.found]
    BY Zenon, <1>1
<1>5. /\ i \in 0 .. NoSlot /\ MAX_ENTRIES_PER_CALL \in 0 .. MAX_ENTRIES_PER_CALL
      /\ NoFrame \in 0 .. NoFrame /\ {} \subseteq RxBuffer
    BY <1>3, Counts DEF TxBuffer, NoSlot, NoFrame
<1>6. CallOK'
    BY Zenon, <1>4, <1>5 DEF CallOK
<1>7. token = NoToken /\ call.pending = {} /\ call.found = NoFrame
    BY Zenon, <1>2 DEF RingInv, TokenOK, CallOK
<1>8. TokenOK'
    BY Zenon, <1>2, <1>7 DEF RingInv, TokenOK
<1>9. Kept' = Kept
    BY Zenon, <1>2, <1>4, <1>7 DEF Kept
<1>10. call'.found \notin call'.pending /\ call'.tx \notin in_use /\ token'.tx \notin in_use
    BY Zenon, <1>2, <1>3, <1>4 DEF RingInv, Slots
<1> QED
    BY ZenonT(30), <1>2, <1>6, <1>8, <1>9, <1>10, Calling

(* receive returns the frame found, with or without a slot to reply in.    *)
LEMMA ReceivedStep ==
    ASSUME RingInv, Received
    PROVE  RingInv'
<1>1. /\ call.pc = "repost" /\ call.pending = {} /\ token' = TokenFor /\ call' = Idle
      /\ UNCHANGED <<rxq, txq, posted, in_use, lies>>
    BY Zenon DEF Received
<1>2. CallOK'
    BY Zenon, <1>1, IdleOK
<1>3. token = NoToken /\ call.found \in 0 .. NoFrame /\ call.tx \in 0 .. NoSlot
    BY Zenon, <1>1 DEF RingInv, TokenOK, CallOK
<1>4. /\ token' = [rx |-> token'.rx, tx |-> token'.tx] /\ token'.rx = call.found
      /\ token'.tx \in {NoSlot, call.tx} /\ (call.found = NoFrame => token'.tx = NoSlot)
    <2>1. CASE call.found = NoFrame
        BY Zenon, <1>1, <2>1, IdleFacts DEF TokenFor
    <2>2. CASE call.found # NoFrame
        <3>1. token' = [rx |-> call.found, tx |-> call.tx]
            BY Zenon, <1>1, <2>2 DEF TokenFor
        <3> QED
            BY Zenon, <2>2, <3>1
    <2> QED
        BY Zenon, <2>1, <2>2
<1>5. TokenOK'
    BY Zenon, <1>1, <1>3, <1>4, Nobody, IdleFacts DEF TokenOK
<1>6. Kept' = Kept
    BY ZenonT(30), <1>1, <1>3, <1>4, IdleFacts DEF Kept
<1>7. call'.found \notin call'.pending /\ call'.tx \notin in_use /\ token'.tx \notin in_use
    BY Zenon, <1>1, <1>4, Nobody, IdleFacts DEF RingInv, Slots
<1> QED
    BY ZenonT(30), <1>1, <1>2, <1>5, <1>6, <1>7, Calling

(* The reply to a frame goes out in the transmit slot its token was given. *)
LEMMA ReplyStep ==
    ASSUME RingInv, reply
    PROVE  RingInv'
<1>1. /\ token.tx # NoSlot /\ txq' = post(txq, token.tx) /\ in_use' = in_use \cup {token.tx}
      /\ token' = [token EXCEPT !.tx = NoSlot] /\ UNCHANGED <<rxq, posted, call, lies>>
    BY Zenon DEF reply
<1>2. token' = [rx |-> token.rx, tx |-> NoSlot]
    BY Zenon, <1>1 DEF RingInv, TokenOK
<1>3. token'.rx = token.rx /\ token'.tx = NoSlot /\ token' = [rx |-> token'.rx, tx |-> token'.tx]
    BY Zenon, <1>2
<1>4. token # NoToken /\ call.pc = "idle"
    BY Zenon, <1>1, IdleFacts DEF RingInv, TokenOK
<1>5. token.tx \in TxBuffer /\ token.tx \notin in_use /\ call.tx = NoSlot
    <2>1. token.tx \in 0 .. NoSlot
        BY Zenon DEF RingInv, TokenOK
    <2>2. token.tx \in TxBuffer
        BY <1>1, <2>1, Counts DEF TxBuffer, NoSlot
    <2> QED
        BY Zenon, <1>4, <2>2 DEF RingInv, Slots, CallOK
<1>6. /\ Queue(txq') /\ txq'.avail.qsize = txq.avail.qsize /\ txq'.used.qsize = txq.used.qsize
      /\ Apiece(txq', in_use')
    BY Zenon, <1>1, <1>5, PostsTx
<1>7. TokenOK' /\ CallOK'
    BY ZenonT(30), <1>1, <1>3, <1>4, Nobody DEF RingInv, TokenOK, CallOK
<1>8. Buffers'
    BY Zenon, <1>1, <1>3 DEF RingInv, Buffers, Kept
<1>9. in_use' \subseteq TxBuffer /\ call'.tx \notin in_use' /\ token'.tx \notin in_use'
    <2>1. in_use' \subseteq TxBuffer
        BY Zenon, <1>1, <1>5 DEF RingInv, Slots
    <2>2. NoSlot \notin TxBuffer
        BY Zenon, Nobody
    <2> QED
        BY ZenonT(30), <1>1, <1>3, <1>5, <2>1, <2>2
<1> QED
    BY ZenonT(30), <1>1, <1>6, <1>7, <1>8, <1>9 DEF RingInv, Queues, Slots

(* A frame is handed to smoltcp and its buffer is free to be posted again. *)
LEMMA RxConsumeStep ==
    ASSUME RingInv, rx_consume
    PROVE  RingInv'
<1>1. /\ token.rx # NoFrame /\ post_rx_buffer(token.rx) /\ token' = NoToken
      /\ UNCHANGED <<txq, in_use, call, lies>>
    BY Zenon DEF rx_consume
<1>2. token.rx \in RxBuffer /\ token.rx \notin posted
    <2>1. token.rx \in 0 .. NoFrame /\ token.rx \notin posted
        BY Zenon DEF RingInv, TokenOK, Buffers, Kept
    <2> QED
        BY <1>1, <2>1, Counts DEF RxBuffer, NoFrame
<1>3. /\ posted' = posted \cup {token.rx}
      /\ Queue(rxq') /\ rxq'.avail.qsize = rxq.avail.qsize /\ rxq'.used.qsize = rxq.used.qsize
      /\ lies = 0 => Apiece(rxq', posted')
    BY Zenon, <1>1, <1>2, PostsRx
<1>4. token # NoToken /\ call.pc = "idle" /\ call.pending = {} /\ call.found = NoFrame /\ call.tx = NoSlot
    BY Zenon, <1>1, IdleFacts DEF RingInv, TokenOK, CallOK
<1>5. TokenOK' /\ CallOK'
    BY Zenon, <1>1, Nobody, IdleFacts DEF RingInv, TokenOK, CallOK
<1>6. Buffers'
    <2>1. Kept = {NoFrame, token.rx} /\ Kept' = {NoFrame}
        BY ZenonT(30), <1>1, <1>4, IdleFacts DEF Kept
    <2>2. /\ posted' \subseteq RxBuffer /\ RxBuffer \subseteq posted' \cup {NoFrame}
          /\ NoFrame \notin RxBuffer
        BY Zenon, <1>2, <1>3, <2>1, Nobody DEF RingInv, Buffers
    <2> QED
        BY ZenonT(30), <1>1, <1>4, <2>1, <2>2 DEF Buffers
<1>7. Slots'
    BY Zenon, <1>1, Nobody, IdleFacts DEF RingInv, Slots
<1> QED
    BY ZenonT(30), <1>1, <1>3, <1>5, <1>6, <1>7 DEF RingInv, Queues

(* The buffer of a consumed frame is posted again.                         *)
LEMMA RepostStep ==
    ASSUME RingInv, repost
    PROVE  RingInv'
<1>1. PICK b \in call.pending : post_rx_buffer(b) /\ call' = [call EXCEPT !.pending = @ \ {b}]
    BY Zenon DEF repost
<1>2. call.pc = "repost" /\ UNCHANGED <<txq, in_use, token, lies>>
    BY Zenon DEF repost
<1>3. call' = [pc |-> call.pc, tx |-> call.tx, left |-> call.left, pending |-> call.pending \ {b},
               found |-> call.found]
    BY Zenon, <1>1 DEF RingInv, CallOK
<1>4. /\ call'.pc = call.pc /\ call'.tx = call.tx /\ call'.left = call.left
      /\ call'.pending = call.pending \ {b} /\ call'.found = call.found
      /\ call' = [pc |-> call'.pc, tx |-> call'.tx, left |-> call'.left, pending |-> call'.pending,
                  found |-> call'.found]
    BY Zenon, <1>3
<1>5. b \in RxBuffer /\ b \notin posted
    BY Zenon DEF RingInv, CallOK, Buffers, Kept
<1>6. /\ posted' = posted \cup {b}
      /\ Queue(rxq') /\ rxq'.avail.qsize = rxq.avail.qsize /\ rxq'.used.qsize = rxq.used.qsize
      /\ lies = 0 => Apiece(rxq', posted')
    BY Zenon, <1>1, <1>5, PostsRx
<1>7. CallOK' /\ TokenOK'
    BY Zenon, <1>2, <1>4 DEF RingInv, CallOK, TokenOK
<1>8. Buffers'
    <2>1. token.rx = NoFrame
        BY Zenon, <1>2, IdleFacts DEF RingInv, TokenOK
    <2>2. Kept = call.pending \cup {call.found, NoFrame} /\ Kept' = (call.pending \ {b}) \cup {call.found, NoFrame}
        BY Zenon, <1>2, <1>4, <2>1 DEF Kept
    <2>3. b # call.found /\ b # NoFrame
        BY Zenon, <1>5, Nobody DEF RingInv, Buffers
    <2>4. /\ posted \subseteq RxBuffer /\ RxBuffer \subseteq posted \cup Kept /\ posted \cap Kept = {}
          /\ call.found \notin call.pending
        BY Zenon DEF RingInv, Buffers
    <2>5. posted' \subseteq RxBuffer /\ RxBuffer \subseteq posted' \cup Kept' /\ posted' \cap Kept' = {}
        BY Zenon, <1>5, <1>6, <2>2, <2>3, <2>4
    <2> QED
        BY Zenon, <1>4, <2>4, <2>5 DEF Buffers
<1>9. Slots'
    BY Zenon, <1>2, <1>4 DEF RingInv, Slots
<1> QED
    BY ZenonT(30), <1>2, <1>6, <1>7, <1>8, <1>9 DEF RingInv, Queues

(* One turn of next_rx_frame's loop: a completion that is not of a posted  *)
(* buffer changes nothing; the others leave the posted set for the frame   *)
(* found or for the buffers to be given back.                              *)
LEMMA ScanStep ==
    ASSUME RingInv, next_rx_frame, MoreToScan
    PROVE  RingInv'
<1> DEFINE e == HeadUsed(rxq)
           what == classify_rx_completion(e, posted)
<1>1. /\ call.pc = "scan" /\ call.found = NoFrame /\ call.left > 0 /\ HasUsed(rxq)
      /\ rxq' = poll_used(rxq) /\ call' = Scanned(what, e.id)
      /\ posted' = IF what \in {"Deliver", "DropAndRepost"} THEN posted \ {e.id} ELSE posted
      /\ UNCHANGED <<txq, in_use, token, lies>>
    BY Zenon DEF next_rx_frame, MoreToScan
<1>2. /\ Queue(rxq') /\ rxq'.avail.qsize = rxq.avail.qsize /\ rxq'.used.qsize = rxq.used.qsize
      /\ lies = 0 => e.id \in posted /\ Apiece(rxq', posted \ {e.id})
      /\ e \in Entry
    <2>1. Queue(rxq) /\ (lies = 0 => Apiece(rxq, posted)) /\ Cardinality(posted) <= rxq.used.qsize
        BY Zenon, Fits DEF RingInv, Queues
    <2> QED
        BY Zenon, <1>1, <2>1, PollKeeps
<1>3. /\ what \in {"Deliver", "DropAndRepost"} <=> e.id \in posted
      /\ what = "Deliver" => what # "DropAndRepost"
    <2>1. posted \subseteq RxBuffer
        BY Zenon DEF RingInv, Buffers
    <2>2. e.ok \in BOOLEAN
        BY Zenon, <1>2 DEF Entry
    <2> HIDE DEF e
    <2> QED
        BY Zenon, <2>1, <2>2 DEF classify_rx_completion
<1> HIDE DEF e, what
<1>4. /\ call'.pc = "scan" /\ call'.tx = call.tx /\ call'.left = call.left - 1
      /\ call'.pending = (IF what = "DropAndRepost" THEN call.pending \cup {e.id} ELSE call.pending)
      /\ call'.found = (IF what = "Deliver" THEN e.id ELSE call.found)
      /\ call' = [pc |-> call'.pc, tx |-> call'.tx, left |-> call'.left, pending |-> call'.pending,
                  found |-> call'.found]
    BY Zenon, <1>1 DEF Scanned
<1>5. call.left - 1 \in 0 .. MAX_ENTRIES_PER_CALL
    BY <1>1, Counts DEF RingInv, CallOK
<1>6. token = NoToken /\ token.rx = NoFrame /\ call.tx \in 0 .. NoSlot
    BY Zenon, <1>1, IdleFacts DEF RingInv, TokenOK, CallOK
<1>7. TokenOK'
    BY Zenon, <1>1, <1>6 DEF RingInv, TokenOK
<1>8. Slots'
    BY Zenon, <1>1, <1>4 DEF RingInv, Slots
<1>9. /\ posted \subseteq RxBuffer /\ call.pending \subseteq RxBuffer
      /\ RxBuffer \subseteq posted \cup Kept /\ posted \cap Kept = {}
      /\ NoFrame \notin posted /\ NoFrame \notin RxBuffer /\ NoFrame \in 0 .. NoFrame
      /\ Kept = call.pending \cup {NoFrame}
      /\ Kept' = call'.pending \cup {call'.found, NoFrame}
    <2>1. Kept' = call'.pending \cup {call'.found, NoFrame} /\ Kept = call.pending \cup {NoFrame}
        BY Zenon, <1>1, <1>6 DEF Kept
    <2> QED
        BY Zenon, <2>1, Nobody DEF RingInv, Buffers, CallOK
<1>10. RxBuffer \subseteq 0 .. NoFrame
    BY Counts DEF RxBuffer, NoFrame
<1>11. CASE e.id \notin posted
    <2>1. posted' = posted /\ call'.pending = call.pending /\ call'.found = NoFrame
        BY Zenon, <1>1, <1>3, <1>4, <1>11
    <2>2. CallOK'
        BY ZenonT(30), <1>4, <1>5, <1>6, <1>9, <2>1 DEF CallOK
    <2>3. Buffers'
        BY Zenon, <1>9, <2>1 DEF Buffers
    <2>4. lies # 0
        BY Zenon, <1>2, <1>11
    <2> QED
        BY ZenonT(30), <1>1, <1>2, <1>7, <1>8, <2>2, <2>3, <2>4 DEF RingInv, Queues
<1>12. CASE e.id \in posted
    <2>1. /\ posted' = posted \ {e.id} /\ e.id \in RxBuffer /\ e.id \notin call.pending
          /\ \/ call'.pending = call.pending \cup {e.id} /\ call'.found = NoFrame
             \/ call'.pending = call.pending /\ call'.found = e.id
        BY Zenon, <1>1, <1>3, <1>4, <1>9, <1>12
    <2>2. call'.pending \subseteq RxBuffer /\ call'.found \in 0 .. NoFrame
        BY ZenonT(30), <1>9, <1>10, <2>1
    <2>3. CallOK'
        BY Zenon, <1>4, <1>5, <1>6, <2>2 DEF CallOK
    <2>4. /\ posted' \subseteq RxBuffer
          /\ RxBuffer \subseteq posted' \cup Kept' /\ posted' \cap Kept' = {}
          /\ call'.found \notin call'.pending
        BY Zenon, <1>9, <2>1
    <2>5. Buffers'
        BY Zenon, <2>4 DEF Buffers
    <2> QED
        BY ZenonT(30), <1>1, <1>2, <1>7, <1>8, <2>1, <2>3, <2>5 DEF RingInv, Queues
<1> QED
    BY Zenon, <1>11, <1>12

(* next_rx_frame ends: the ring is empty or the bound of entries per call  *)
(* is reached.                                                             *)
LEMMA ScanEnds ==
    ASSUME RingInv, next_rx_frame, ~MoreToScan
    PROVE  RingInv'
<1>1. /\ call.pc = "scan" /\ call' = [call EXCEPT !.pc = "repost"]
      /\ UNCHANGED <<rxq, posted>> /\ UNCHANGED <<txq, in_use, token, lies>>
    BY Zenon DEF next_rx_frame
<1>2. call' = [pc |-> "repost", tx |-> call.tx, left |-> call.left, pending |-> call.pending,
               found |-> call.found]
    BY Zenon, <1>1 DEF RingInv, CallOK
<1>3. /\ call'.pc = "repost" /\ call'.tx = call.tx /\ call'.left = call.left
      /\ call'.pending = call.pending /\ call'.found = call.found
      /\ call' = [pc |-> call'.pc, tx |-> call'.tx, left |-> call'.left, pending |-> call'.pending,
                  found |-> call'.found]
    BY Zenon, <1>2
<1>4. CallOK' /\ TokenOK'
    BY Zenon, <1>1, <1>3 DEF RingInv, CallOK, TokenOK
<1>5. Kept' = Kept
    BY Zenon, <1>1, <1>3 DEF Kept
<1>6. call'.found \notin call'.pending /\ call'.tx \notin in_use /\ token'.tx \notin in_use
    BY Zenon, <1>1, <1>3 DEF RingInv, Buffers, Slots
<1> QED
    BY Zenon, <1>1, <1>4, <1>5, <1>6, Calling

(* queue_size_is_valid accepts only sizes that divide IDX_MOD.             *)
LEMMA ValidSize ==
    ASSUME NEW n \in OfferedSizes, NEW least \in Nat \ {0}, queue_size_is_valid(n, least)
    PROVE  n \in Sizes /\ least <= n
<1>1. PICK k \in 0 .. 8 : n = 2^k
    BY Zenon DEF queue_size_is_valid
<1>2. least <= n /\ n <= MAX_QUEUE_SIZE /\ n \in Nat
    BY Zenon, RingAssumption DEF queue_size_is_valid
<1>3. PICK m \in 1 .. IDX_MOD : IDX_MOD = 2^k * m
    BY Zenon, <1>1, <1>2, RingAssumption
<1>4. IDX_MOD = n * m
    BY Zenon, <1>1, <1>3
<1> QED
    BY <1>2, <1>4, Counts DEF Sizes

(* A ring nobody has written to.                                           *)
LEMMA NewRingFacts ==
    ASSUME NEW n \in Sizes
    PROVE  /\ Ring(NewRing(n)) /\ NewRing(n).qsize = n
           /\ Unread(NewRing(n)) = 0 /\ Ids(NewRing(n)) = {} /\ Distinct(NewRing(n))
<1> DEFINE r == NewRing(n)
           f == [i \in 0 .. n - 1 |-> Empty]
<1>1. r = [qsize |-> n, slot |-> f, idx |-> 0, next |-> 0] /\ f \in [0 .. n - 1 -> Entry]
    BY Zenon DEF NewRing, Empty, Entry
<1> HIDE DEF r, f
<1>2. r.qsize = n /\ r.slot = f /\ r.idx = 0 /\ r.next = 0 /\ 0 \in Idx
    BY <1>1, ModFacts DEF Idx
<1>3. Ring(r)
    BY Zenon, <1>1, <1>2 DEF Ring
<1>4. Unread(r) = 0
    BY Zenon, <1>2, <1>3, UnreadNat
<1>5. 0 .. Unread(r) - 1 = {}
    BY <1>4
<1>6. Ids(r) = {} /\ Distinct(r)
    BY Zenon, <1>5 DEF Ids, Distinct
<1> QED
    BY ZenonT(30), <1>2, <1>3, <1>4, <1>6 DEF r

(* The TX queue starts empty.                                              *)
LEMMA NewQueueFacts ==
    ASSUME NEW n \in Sizes
    PROVE  /\ Queue(NewQueue(n)) /\ NewQueue(n).avail.qsize = n /\ NewQueue(n).used.qsize = n
           /\ Apiece(NewQueue(n), {})
<1> DEFINE r == NewRing(n)
           q == NewQueue(n)
<1>1. Ring(r) /\ r.qsize = n /\ Unread(r) = 0 /\ Ids(r) = {} /\ Distinct(r)
    BY Zenon, NewRingFacts
<1>2. q = [avail |-> r, used |-> r, held |-> {}]
    BY Zenon DEF NewQueue
<1> HIDE DEF r, q
<1>3. q.avail = r /\ q.used = r /\ q.held = {} /\ q = [avail |-> q.avail, used |-> q.used, held |-> q.held]
    BY Zenon, <1>2
<1>4. Queue(q)
    BY Zenon, <1>1, <1>3 DEF Queue
<1>5. IsFiniteSet({}) /\ Cardinality({}) = 0
    BY Zenon, FS_EmptySet
<1>6. Exact(q, {})
    BY <1>1, <1>3, <1>5 DEF Exact
<1>7. Apiece(q, {})
    BY Zenon, <1>1, <1>3, <1>5, <1>6 DEF Apiece
<1> QED
    BY Zenon, <1>1, <1>3, <1>4, <1>7 DEF q

(* The RX queue starts with every buffer in its avail ring.                *)
LEMMA FullQueueFacts ==
    ASSUME NEW n \in Sizes, RX_BUFFER_COUNT <= n
    PROVE  /\ Queue(FullQueue(n)) /\ FullQueue(n).avail.qsize = n /\ FullQueue(n).used.qsize = n
           /\ Apiece(FullQueue(n), RxBuffer)
<1> DEFINE f == [i \in 0 .. n - 1 |-> IF i \in RxBuffer THEN [id |-> i, ok |-> TRUE] ELSE Empty]
           a == [qsize |-> n, slot |-> f, idx |-> RX_BUFFER_COUNT, next |-> 0]
           r == NewRing(n)
           q == FullQueue(n)
<1>0. n \in Nat \ {0} /\ RX_BUFFER_COUNT \in Nat \ {0} /\ RX_BUFFER_COUNT < IDX_MOD /\ IDX_MOD \in Nat \ {0}
    BY Zenon, Counts, ModFacts DEF Sizes
<1>1. Ring(r) /\ r.qsize = n /\ Unread(r) = 0 /\ Ids(r) = {} /\ Distinct(r)
    BY Zenon, NewRingFacts
<1>2. q = [avail |-> a, used |-> r, held |-> {}]
    BY Zenon DEF FullQueue
<1>3. /\ f \in [0 .. n - 1 -> Entry]
      /\ \A k \in RxBuffer : f[k].id = k
    BY <1>0 DEF Entry, Empty, RxBuffer
<1>4. a.qsize = n /\ a.slot = f /\ a.idx = RX_BUFFER_COUNT /\ a.next = 0
    BY Zenon
<1>5. Ring(a)
    <2> HIDE DEF f
    <2> QED
        BY <1>0, <1>3 DEF Ring, Idx
<1> HIDE DEF f, a, r, q
<1>6. q.avail = a /\ q.used = r /\ q.held = {} /\ q = [avail |-> q.avail, used |-> q.used, held |-> q.held]
    BY Zenon, <1>2
<1>7. Queue(q)
    BY Zenon, <1>1, <1>5, <1>6 DEF Queue
<1>8. Unread(a) = RX_BUFFER_COUNT
    <2>1. RX_BUFFER_COUNT + IDX_MOD - 0 \in IDX_MOD .. 2 * IDX_MOD - 1
        BY <1>0
    <2>2. (RX_BUFFER_COUNT + IDX_MOD - 0) % IDX_MOD = (RX_BUFFER_COUNT + IDX_MOD - 0) - IDX_MOD
        BY Zenon, <1>0, <2>1, Once
    <2>3. Unread(a) = (RX_BUFFER_COUNT + IDX_MOD - 0) % IDX_MOD
        BY Zenon, <1>4 DEF Unread, Distance
    <2> QED
        BY <1>0, <2>2, <2>3
<1>9. ASSUME NEW k \in RxBuffer
      PROVE  At(a, k).id = k
    <2>1. 0 + k = k /\ k \in 0 .. IDX_MOD - 1 /\ k \in 0 .. n - 1
        BY <1>0 DEF RxBuffer
    <2>2. k % IDX_MOD = k /\ k % n = k
        BY Zenon, <1>0, <2>1, Small
    <2>3. ((0 + k) % IDX_MOD) % n = k
        BY Zenon, <2>1, <2>2
    <2> QED
        BY Zenon, <1>3, <1>4, <2>3 DEF At
<1>10. 0 .. Unread(a) - 1 = RxBuffer
    BY Zenon, <1>8 DEF RxBuffer
<1>11. Ids(a) = RxBuffer /\ Distinct(a)
    <2>1. Ids(a) = {At(a, k).id : k \in RxBuffer}
        BY Zenon, <1>10 DEF Ids
    <2>2. Distinct(a)
        BY Zenon, <1>9, <1>10 DEF Distinct
    <2> QED
        BY Zenon, <1>9, <2>1, <2>2
<1>12. IsFiniteSet({}) /\ Cardinality({}) = 0 /\ IsFiniteSet(RxBuffer) /\ Cardinality(RxBuffer) = RX_BUFFER_COUNT
    <2>1. 0 \in Int /\ RX_BUFFER_COUNT - 1 \in Int
        BY <1>0
    <2>2. /\ IsFiniteSet(0 .. RX_BUFFER_COUNT - 1)
          /\ Cardinality(0 .. RX_BUFFER_COUNT - 1) =
                IF 0 > RX_BUFFER_COUNT - 1 THEN 0 ELSE (RX_BUFFER_COUNT - 1) - 0 + 1
        BY Zenon, <2>1, FS_Interval
    <2> QED
        BY <1>0, <2>2, FS_EmptySet DEF RxBuffer
<1>13. Exact(q, RxBuffer)
    BY SMTT(30), <1>0, <1>1, <1>6, <1>8, <1>11, <1>12 DEF Exact
<1>14. Apiece(q, RxBuffer)
    BY Zenon, <1>1, <1>6, <1>11, <1>12, <1>13 DEF Apiece
<1> QED
    BY ZenonT(30), <1>1, <1>4, <1>6, <1>7, <1>14 DEF q

(* Initially every receive buffer is posted and no transmit buffer is in   *)
(* use.                                                                    *)
LEMMA RingStarts ==
    ASSUME RingInit
    PROVE  RingInv
<1>1. PICK rx_size, tx_size \in OfferedSizes :
        /\ queue_size_is_valid(rx_size, RX_BUFFER_COUNT) /\ queue_size_is_valid(tx_size, TX_BUFFER_COUNT)
        /\ rxq = FullQueue(rx_size)
        /\ txq = NewQueue(tx_size)
    BY Zenon DEF RingInit
<1>2. posted = RxBuffer /\ in_use = {} /\ call = Idle /\ token = NoToken /\ lies = 0
    BY Zenon DEF RingInit
<1>3. rx_size \in Sizes /\ RX_BUFFER_COUNT <= rx_size /\ tx_size \in Sizes /\ TX_BUFFER_COUNT <= tx_size
    BY Zenon, <1>1, ValidSize, Counts
<1>4. Queues /\ Apiece(txq, in_use) /\ Apiece(rxq, posted)
    BY ZenonT(30), <1>1, <1>2, <1>3, NewQueueFacts, FullQueueFacts DEF Queues
<1>5. /\ 0 \in 0 .. MAX_ENTRIES_PER_CALL /\ NoFrame \in 0 .. NoFrame /\ NoSlot \in 0 .. NoSlot
      /\ {} \subseteq RxBuffer /\ NoFrame \notin RxBuffer /\ lies \in Nat
    BY <1>2, Counts DEF NoFrame, NoSlot, RxBuffer
<1>6. CallOK /\ TokenOK
    BY ZenonT(30), <1>2, <1>5, IdleFacts DEF CallOK, TokenOK
<1>7. Buffers
    <2>1. Kept = {NoFrame}
        BY Zenon, <1>2, IdleFacts DEF Kept
    <2> QED
        BY Zenon, <1>2, <1>5, <2>1, IdleFacts DEF Buffers
<1>8. Slots
    BY Zenon, <1>2, <1>4 DEF Slots
<1> QED
    BY ZenonT(30), <1>4, <1>5, <1>6, <1>7, <1>8 DEF RingInv

(* Every step of the driver, the device and smoltcp keeps the invariant.   *)
LEMMA RingSteps ==
    ASSUME RingInv, [RingNext]_ringVars
    PROVE  RingInv'
<1>1. CASE UNCHANGED ringVars
    BY Zenon, <1>1 DEF ringVars, RingInv, Queues, CallOK, TokenOK, Buffers, Slots, Kept
<1>2. CASE RingNext
    BY ZenonT(30), <1>2, CallsStep, ReapStep, NoneFreeStep, TxConsumeStep, ServiceRxStep, ScanStep, ScanEnds,
       RepostStep, ReceivedStep, ReplyStep, RxConsumeStep, DeviceTakesStep, FrameArrivesStep,
       FrameSentStep, DeviceLiesStep DEF RingNext
<1> QED
    BY Zenon, <1>1, <1>2

(* For every buffer count, ring size and range of the indices, across      *)
(* every wrap: whatever the device reports no RX buffer is lost; while it  *)
(* reports only what it did every posted RX buffer is in one place; and a  *)
(* TX slot is in use exactly while its frame is with the device or its     *)
(* completion is unread.                                                   *)
THEOREM RingsAccountForEveryBuffer == RingSpec => []RingSound
<1>1. RingInit => RingInv
    BY Zenon, RingStarts
<1>2. RingInv /\ [RingNext]_ringVars => RingInv'
    BY Zenon, RingSteps
<1>3. RingInv => RingSound
    <2> SUFFICES ASSUME RingInv PROVE RingSound
        BY Zenon
    <2>1. RingTypeOK /\ RxExact /\ TxExact
        BY Zenon DEF RingInv, RingTypeOK, RxExact, TxExact, Buffers, Slots, CallOK, TokenOK, Apiece
    <2>2. call.pc = "idle" => call = Idle
        BY Zenon DEF RingInv, CallOK, Idle
    <2> QED
        BY Zenon, <2>1, <2>2 DEF RingInv, RingSound, NoBufferLost, Buffers
<1> QED
    BY <1>1, <1>2, <1>3, PTL DEF RingSpec

-----------------------------------------------------------------------------
(* The boot sequence (NetBoot).                                            *)

(* Which timestamps each loop uses, and which verdicts are still open.     *)
Answers == {"none", "other", "exact", "Configured", "Deconfigured", "Pending", "Failed", "ipv4"}
Socket == [sent : BOOLEAN, open : BOOLEAN, up : BOOLEAN, len : 0 .. TCP_PONG_LEN, right : BOOLEAN,
           answer : Answers]
Phases == Proofs \cup {"probe", "serve", "idle", "panicked"}
Shapes ==
    /\ info \in NetBootInfo /\ phase \in Phases
    /\ turn \in Nat /\ clock \in Int
    /\ next_iteration \in 0 .. POLL_BOUND /\ final_iteration \in 0 .. POLL_BOUND - 1
    /\ start_iteration \in Nat
    /\ phase \in Proofs => turn < POLL_BOUND
    /\ phase = "serve" => turn < SERVE_BOUND
    /\ phase \in {"probe", "idle", "panicked"} => turn = 0
Timeline ==
    /\ phase = "probe" => clock = -1 /\ next_iteration = 0
    /\ phase = "dhcp" => clock = turn - 1
    /\ phase = "icmp" => clock = (next_iteration + turn) - 1
    /\ phase \in {"tcp", "dns"} => /\ start_iteration = next_iteration + final_iteration + 1
                                   /\ clock = (start_iteration + turn) - 1
    /\ phase = "serve" => /\ start_iteration = next_iteration + SERVE_OFFSET
                          /\ clock < start_iteration + turn
Asked ==
    /\ phase = "dhcp" => info.use_dhcp
    /\ phase = "tcp" => info.attempt_tcp
    /\ phase = "dns" => info.use_dns
Open ==
    /\ phase \in {"probe", "dhcp"} => results["dhcp"] = "none"
    /\ phase \in {"probe", "dhcp", "icmp"} => results["icmp"] = "none"
    /\ phase \in {"probe", "dhcp", "icmp", "tcp"} => results["tcp"] = "none"
    /\ phase \in {"probe", "dhcp", "icmp", "tcp", "dns"} => results["dns"] = "none"
Earned == \A p \in Proofs : results[p] = "pass" => Evidence(p, sock[p])
BootInv ==
    /\ Shapes /\ Timeline /\ Asked /\ Open /\ OnlyAskedPass /\ Earned
    /\ sock \in [Proofs -> Socket] /\ results \in [Proofs -> {"none", "pass", "fail"}]

(* The poll bounds of the boot sequence are numbers, and the serving clock *)
(* starts past every earlier one.                                          *)
LEMMA BootBounds ==
    /\ POLL_BOUND \in Nat \ {0} /\ SERVE_BOUND \in Nat \ {0} /\ TCP_PONG_LEN \in Nat
    /\ SERVE_OFFSET \in Nat /\ SERVE_OFFSET >= 2 * POLL_BOUND
BY Zenon, BootAssumption

(* The boot sequence starts at the probe, at time zero, with nothing       *)
(* proved.                                                                 *)
LEMMA BootStarts ==
    ASSUME BootInit
    PROVE  BootInv
<1>1. /\ info \in NetBootInfo /\ phase = "probe"
      /\ next_iteration = 0 /\ final_iteration = 0 /\ start_iteration = 0 /\ turn = 0 /\ clock = -1
      /\ sock = [p \in Proofs |-> NewSocket] /\ results = [p \in Proofs |-> "none"]
    BY Zenon DEF BootInit
<1>2. Shapes
    BY <1>1, BootBounds DEF Shapes, Phases, Proofs
<1>3. Timeline /\ Asked
    BY Zenon, <1>1 DEF Timeline, Asked
<1>4. results["dhcp"] = "none" /\ results["icmp"] = "none" /\ results["tcp"] = "none" /\ results["dns"] = "none"
    BY Zenon, <1>1 DEF Proofs
<1>5. Open /\ OnlyAskedPass
    BY Zenon, <1>4 DEF Open, OnlyAskedPass
<1>6. Earned
    BY Zenon, <1>1 DEF Earned
<1>7. NewSocket \in Socket
    BY BootBounds DEF NewSocket, Socket, Answers
<1>8. sock \in [Proofs -> Socket] /\ results \in [Proofs -> {"none", "pass", "fail"}]
    BY Zenon, <1>1, <1>7
<1> QED
    BY Zenon, <1>2, <1>3, <1>5, <1>6, <1>8 DEF BootInv

(* A verdict for proof p, from the socket its loop leaves.                 *)
LEMMA Verdict ==
    ASSUME BootInv, phase \in Proofs, NEW s \in Socket, NEW ok \in BOOLEAN,
           Leaves(s), Reported(phase, ok), ok => Evidence(phase, s), info' = info
    PROVE  /\ sock' \in [Proofs -> Socket] /\ results' \in [Proofs -> {"none", "pass", "fail"}]
           /\ Earned' /\ OnlyAskedPass'
           /\ \A p \in Proofs : results[p] # "none" => results'[p] = results[p]
           /\ \A p \in Proofs : p # phase => results'[p] = results[p]
<1>1. /\ sock \in [Proofs -> Socket] /\ results \in [Proofs -> {"none", "pass", "fail"}]
      /\ sock' = [sock EXCEPT ![phase] = s]
      /\ results' = [results EXCEPT ![phase] = IF ok THEN "pass" ELSE "fail"]
    BY Zenon DEF BootInv, Leaves, Reported
<1>2. /\ sock' \in [Proofs -> Socket] /\ results' \in [Proofs -> {"none", "pass", "fail"}]
    BY Zenon, <1>1
<1>3. /\ \A p \in Proofs : p # phase => results'[p] = results[p] /\ sock'[p] = sock[p]
      /\ results'[phase] = (IF ok THEN "pass" ELSE "fail") /\ sock'[phase] = s
    BY Zenon, <1>1
<1>4. results[phase] = "none"
    BY Zenon DEF BootInv, Open, Proofs
<1>5. Earned'
    <2> SUFFICES ASSUME NEW p \in Proofs, results'[p] = "pass" PROVE Evidence(p, sock'[p])
        BY Zenon DEF Earned, Evidence
    <2>1. CASE p = phase
        <3>1. ok
            BY Zenon, <1>3, <2>1
        <3> QED
            BY Zenon, <1>3, <2>1, <3>1
    <2>2. CASE p # phase
        BY Zenon, <1>3, <2>2 DEF BootInv, Earned
    <2> QED
        BY Zenon, <2>1, <2>2
<1>6. OnlyAskedPass'
    BY Zenon, <1>3 DEF BootInv, OnlyAskedPass, Asked, Proofs
<1> QED
    BY Zenon, <1>2, <1>3, <1>4, <1>5, <1>6

(* A turn that leaves its loop's verdict open.                             *)
LEMMA Undecided ==
    ASSUME BootInv, phase \in Proofs, NEW s \in Socket, Leaves(s), UNCHANGED <<results, info>>
    PROVE  /\ sock' \in [Proofs -> Socket] /\ results' \in [Proofs -> {"none", "pass", "fail"}]
           /\ Earned' /\ OnlyAskedPass'
<1>1. /\ sock \in [Proofs -> Socket] /\ results \in [Proofs -> {"none", "pass", "fail"}]
      /\ sock' = [sock EXCEPT ![phase] = s]
    BY Zenon DEF BootInv, Leaves
<1>2. sock' \in [Proofs -> Socket] /\ \A p \in Proofs : p # phase => sock'[p] = sock[p]
    BY Zenon, <1>1
<1>3. results[phase] = "none"
    BY Zenon DEF BootInv, Open, Proofs
<1>4. Earned'
    <2> SUFFICES ASSUME NEW p \in Proofs, results[p] = "pass" PROVE Evidence(p, sock'[p])
        BY Zenon DEF Earned, Evidence
    <2>1. p # phase
        BY Zenon, <1>3
    <2> QED
        BY Zenon, <1>2, <2>1 DEF BootInv, Earned
<1>5. OnlyAskedPass'
    BY Zenon DEF BootInv, OnlyAskedPass
<1> QED
    BY Zenon, <1>1, <1>2, <1>4, <1>5

(* What follows a proof's loop, and from which timestamp.                  *)
LEMMA Follows ==
    ASSUME BootInv, phase \in {"icmp", "tcp", "dns"}, NEW final \in 0 .. POLL_BOUND - 1, GoOn(final),
           UNCHANGED <<info, next_iteration>>, final_iteration' = final,
           clock' \in Int, clock' < next_iteration + SERVE_OFFSET,
           phase = "icmp" => clock' = next_iteration + final,
           \A p \in Proofs : p # phase => results'[p] = results[p]
    PROVE  Shapes' /\ Timeline' /\ Asked' /\ Open'
<1> DEFINE f == Following(Later)
<1>1. phase' = f /\ turn' = 0 /\ start_iteration' = StartOf(f, final)
    BY Zenon DEF GoOn, Enter
<1>2. /\ f \in {"tcp", "dns", "serve", "idle"}
      /\ f = "tcp" => info.attempt_tcp /\ phase = "icmp"
      /\ f = "dns" => info.use_dns /\ phase \in {"icmp", "tcp"}
    BY Zenon DEF Following, Later
<1>3. info \in NetBootInfo /\ ~(info.attempt_tcp /\ info.use_dns)
    BY Zenon DEF BootInv, Shapes, NetBootInfo
<1>4. f = "dns" => phase = "icmp"
    BY Zenon, <1>2, <1>3 DEF BootInv, Asked
<1> HIDE DEF f
<1>5. /\ next_iteration \in 0 .. POLL_BOUND /\ next_iteration' = next_iteration /\ info' = info
    BY Zenon DEF BootInv, Shapes
<1>6. /\ f = "serve" => start_iteration' = next_iteration + SERVE_OFFSET
      /\ f # "serve" => start_iteration' = next_iteration + final + 1
    BY Zenon, <1>1 DEF StartOf
<1>7. start_iteration' \in Nat
    BY <1>5, <1>6, BootBounds
<1>8. Shapes'
    BY <1>1, <1>2, <1>3, <1>5, <1>7, BootBounds DEF Shapes, Phases, Proofs
<1>9. Timeline'
    <2>1. final_iteration' \in Nat /\ next_iteration' \in Nat /\ clock' \in Int
        BY <1>5, BootBounds
    <2>2. CASE f \in {"tcp", "dns"}
        <3>1. start_iteration' = next_iteration' + final_iteration' + 1 /\ clock' = next_iteration' + final_iteration'
            BY Zenon, <1>2, <1>4, <1>5, <1>6, <2>2
        <3>2. clock' = (start_iteration' + turn') - 1
            BY <1>1, <2>1, <3>1
        <3> QED
            BY Zenon, <1>1, <2>2, <3>1, <3>2 DEF Timeline
    <2>3. CASE f = "serve"
        <3>1. start_iteration' = next_iteration' + SERVE_OFFSET /\ clock' < next_iteration' + SERVE_OFFSET
            BY Zenon, <1>5, <1>6, <2>3
        <3>2. clock' < start_iteration' + turn'
            BY <1>1, <1>7, <3>1
        <3> QED
            BY Zenon, <1>1, <2>3, <3>1, <3>2 DEF Timeline
    <2>4. CASE f = "idle"
        BY Zenon, <1>1, <2>4 DEF Timeline
    <2> QED
        BY Zenon, <1>2, <2>2, <2>3, <2>4
<1>10. Asked'
    BY Zenon, <1>1, <1>2, <1>5 DEF Asked
<1>11. Open'
    BY Zenon, <1>1, <1>2, <1>4 DEF BootInv, Open, Proofs
<1> QED
    BY Zenon, <1>8, <1>9, <1>10, <1>11

(* One more turn of a proof's loop.                                        *)
LEMMA AnotherTurn ==
    ASSUME BootInv, phase \in Proofs, Again, ~LastTurn, UNCHANGED <<info, next_iteration, start_iteration>>,
           final_iteration' \in 0 .. POLL_BOUND - 1, phase \in {"tcp", "dns"} => final_iteration' = final_iteration,
           clock' = clock + 1
    PROVE  Shapes' /\ Timeline' /\ Asked' /\ Open'
<1>1. turn' = turn + 1 /\ phase' = phase /\ results' = results /\ turn # POLL_BOUND - 1
    BY Zenon DEF Again, LastTurn
<1>2. Shapes'
    BY <1>1, BootBounds DEF BootInv, Shapes, Proofs
<1>3. Timeline'
    <2>1. /\ turn \in Nat /\ clock \in Int /\ next_iteration \in Nat /\ start_iteration \in Nat
          /\ next_iteration' = next_iteration /\ start_iteration' = start_iteration
        BY BootBounds DEF BootInv, Shapes
    <2>2. CASE phase = "dhcp"
        <3>1. clock' = turn' - 1
            BY <1>1, <2>1, <2>2 DEF BootInv, Timeline
        <3> QED
            BY Zenon, <1>1, <2>2, <3>1 DEF Timeline
    <2>3. CASE phase = "icmp"
        <3>1. clock' = (next_iteration' + turn') - 1
            BY <1>1, <2>1, <2>3 DEF BootInv, Timeline
        <3> QED
            BY Zenon, <1>1, <2>3, <3>1 DEF Timeline
    <2>4. CASE phase \in {"tcp", "dns"}
        <3>1. start_iteration' = next_iteration' + final_iteration' + 1
            BY Zenon, <2>1, <2>4 DEF BootInv, Timeline
        <3>2. clock' = (start_iteration' + turn') - 1
            BY <1>1, <2>1, <2>4 DEF BootInv, Timeline
        <3> QED
            BY Zenon, <1>1, <2>4, <3>1, <3>2 DEF Timeline
    <2> QED
        BY Zenon, <2>2, <2>3, <2>4 DEF Proofs
<1>4. Asked' /\ Open'
    BY Zenon, <1>1 DEF BootInv, Asked, Open
<1> QED
    BY Zenon, <1>2, <1>3, <1>4

(* What a step may never do: poll with a timestamp again, change a verdict *)
(* or give one without its evidence.                                       *)
StepOK ==
    /\ phase = "probe" \/ phase' = "panicked" \/ clock' > clock
    /\ \A p \in Proofs : /\ results[p] # "none" => results'[p] = results[p]
                         /\ results'[p] = "pass" => Evidence(p, sock'[p])

(* One turn of the DHCP poll loop.                                         *)
LEMMA DhcpTurn ==
    ASSUME BootInv, run_dhcp
    PROVE  BootInv' /\ StepOK
<1>1. PICK event \in {"Configured", "Deconfigured", "none"} :
          /\ Leaves([sock["dhcp"] EXCEPT !.answer = event])
          /\ IF event = "Configured" \/ LastTurn THEN DhcpEnd(event = "Configured")
             ELSE Again /\ UNCHANGED next_iteration
    BY Zenon DEF run_dhcp
<1>2. phase = "dhcp" /\ clock' = turn /\ UNCHANGED <<info, final_iteration, start_iteration>> /\ phase \in Proofs
    BY Zenon DEF run_dhcp, Polled, Proofs
<1> DEFINE s == [sock["dhcp"] EXCEPT !.answer = event]
<1>3. s \in Socket /\ s.answer = event
    BY ZenonT(30), <1>2 DEF BootInv, Socket, Answers, Proofs
<1>4. clock' = clock + 1 /\ clock' > clock
    BY <1>2 DEF BootInv, Shapes, Timeline
<1> HIDE DEF s
<1>5. CASE event = "Configured" \/ LastTurn
    <2> DEFINE ok == event = "Configured"
    <2>1. next_iteration' = turn + 1 /\ Reported("dhcp", ok) /\ phase' = "icmp" /\ turn' = 0
        BY Zenon, <1>1, <1>5 DEF DhcpEnd, Enter
    <2>2. ok \in BOOLEAN /\ (ok => Evidence(phase, s))
        BY Zenon, <1>2, <1>3 DEF Evidence
    <2> HIDE DEF ok
    <2>3. /\ sock' \in [Proofs -> Socket] /\ results' \in [Proofs -> {"none", "pass", "fail"}]
          /\ Earned' /\ OnlyAskedPass'
          /\ \A p \in Proofs : results[p] # "none" => results'[p] = results[p]
          /\ \A p \in Proofs : p # phase => results'[p] = results[p]
        BY Zenon, <1>1, <1>2, <1>3, <2>1, <2>2, Verdict DEF s
    <2>4. Shapes' /\ Timeline'
        BY <1>2, <2>1, BootBounds DEF BootInv, Shapes, Timeline, Phases, Proofs
    <2>5. Asked' /\ Open'
        BY Zenon, <1>2, <2>1, <2>3 DEF BootInv, Asked, Open, Proofs
    <2> QED
        BY Zenon, <1>4, <2>3, <2>4, <2>5 DEF BootInv, StepOK, Earned
<1>6. CASE ~(event = "Configured" \/ LastTurn)
    <2>1. Again /\ UNCHANGED next_iteration /\ ~LastTurn /\ results' = results
        BY Zenon, <1>1, <1>6 DEF Again
    <2>2. /\ sock' \in [Proofs -> Socket] /\ results' \in [Proofs -> {"none", "pass", "fail"}]
          /\ Earned' /\ OnlyAskedPass'
        BY Zenon, <1>1, <1>2, <1>3, <2>1, Undecided DEF s
    <2>3. Shapes' /\ Timeline' /\ Asked' /\ Open'
        <3>1. final_iteration' \in 0 .. POLL_BOUND - 1 /\ final_iteration' = final_iteration
            BY Zenon, <1>2 DEF BootInv, Shapes
        <3> QED
            BY Zenon, <1>2, <1>4, <2>1, <3>1, AnotherTurn
    <2> QED
        BY Zenon, <1>4, <2>1, <2>2, <2>3 DEF BootInv, StepOK, Earned
<1> QED
    BY Zenon, <1>5, <1>6

(* One turn of the ICMP echo loop.                                         *)
LEMMA IcmpTurn ==
    ASSUME BootInv, IcmpProof
    PROVE  BootInv' /\ StepOK
<1>1. PICK got \in {"none", "other"} \cup (IF sock["icmp"].sent THEN {"exact"} ELSE {}) :
          /\ Leaves([sock["icmp"] EXCEPT !.sent = TRUE, !.answer = got])
          /\ IF FoundBy(got) \/ LastTurn THEN Reported("icmp", FoundBy(got)) /\ GoOn(turn)
             ELSE Again /\ UNCHANGED start_iteration
    BY Zenon DEF IcmpProof
<1>2. /\ phase = "icmp" /\ clock' = next_iteration + turn /\ final_iteration' = turn
      /\ UNCHANGED <<info, next_iteration>> /\ phase \in Proofs
    BY Zenon DEF IcmpProof, Polled, Proofs
<1> DEFINE s == [sock["icmp"] EXCEPT !.sent = TRUE, !.answer = got]
           u == [sock["icmp"] EXCEPT !.sent = TRUE]
<1>3. s \in Socket /\ s.answer = got /\ s.sent = TRUE
    <2>1. u \in Socket /\ u.sent = TRUE
        BY Zenon, <1>2 DEF BootInv, Socket, Proofs
    <2>2. got \in Answers
        BY Zenon DEF Answers
    <2> HIDE DEF u
    <2>3. [u EXCEPT !.answer = got] \in Socket /\ [u EXCEPT !.answer = got].answer = got
          /\ [u EXCEPT !.answer = got].sent = TRUE
        BY Zenon, <2>1, <2>2 DEF Socket
    <2>4. s = [u EXCEPT !.answer = got]
        BY Zenon DEF u
    <2> QED
        BY Zenon, <2>3, <2>4
<1>4. /\ clock' = clock + 1 /\ clock' > clock /\ turn \in 0 .. POLL_BOUND - 1
      /\ clock' \in Int /\ clock' < next_iteration + SERVE_OFFSET
    BY <1>2, BootBounds DEF BootInv, Shapes, Timeline
<1> HIDE DEF s
<1>5. CASE FoundBy(got) \/ LastTurn
    <2>1. Reported("icmp", FoundBy(got)) /\ GoOn(turn)
        BY Zenon, <1>1, <1>5
    <2>2. FoundBy(got) \in BOOLEAN /\ (FoundBy(got) => Evidence(phase, s))
        BY Zenon, <1>2, <1>3 DEF Evidence, FoundBy
    <2>3. /\ sock' \in [Proofs -> Socket] /\ results' \in [Proofs -> {"none", "pass", "fail"}]
          /\ Earned' /\ OnlyAskedPass'
          /\ \A p \in Proofs : results[p] # "none" => results'[p] = results[p]
          /\ \A p \in Proofs : p # phase => results'[p] = results[p]
        BY Zenon, <1>1, <1>2, <1>3, <2>1, <2>2, Verdict DEF s
    <2>4. Shapes' /\ Timeline' /\ Asked' /\ Open'
        <3>1. phase \in {"icmp", "tcp", "dns"}
            BY Zenon, <1>2
        <3> QED
            BY Zenon, <1>2, <1>4, <2>1, <2>3, <3>1, Follows
    <2> QED
        BY Zenon, <1>4, <2>3, <2>4 DEF BootInv, StepOK, Earned
<1>6. CASE ~(FoundBy(got) \/ LastTurn)
    <2>1. Again /\ UNCHANGED start_iteration /\ ~LastTurn /\ results' = results
        BY Zenon, <1>1, <1>6 DEF Again
    <2>2. /\ sock' \in [Proofs -> Socket] /\ results' \in [Proofs -> {"none", "pass", "fail"}]
          /\ Earned' /\ OnlyAskedPass'
        BY Zenon, <1>1, <1>2, <1>3, <2>1, Undecided DEF s
    <2>3. Shapes' /\ Timeline' /\ Asked' /\ Open'
        <3>1. phase \notin {"tcp", "dns"}
            BY Zenon, <1>2
        <3> QED
            BY Zenon, <1>2, <1>4, <2>1, <3>1, AnotherTurn
    <2> QED
        BY Zenon, <1>4, <2>1, <2>2, <2>3 DEF BootInv, StepOK, Earned
<1> QED
    BY Zenon, <1>5, <1>6

(* A turn of the TCP or the DNS loop, which differ in what they report.    *)
LEMMA LaterTurn ==
    ASSUME BootInv, phase \in {"tcp", "dns"}, clock' = start_iteration + turn,
           UNCHANGED <<info, next_iteration, final_iteration>>,
           NEW s \in Socket, Leaves(s), NEW ok \in BOOLEAN, ok => Evidence(phase, s),
           \/ Reported(phase, ok) /\ GoOn(final_iteration)
           \/ ~LastTurn /\ Again /\ UNCHANGED start_iteration
    PROVE  BootInv' /\ StepOK
<1>1. phase \in Proofs /\ phase \in {"icmp", "tcp", "dns"} /\ phase # "icmp"
    BY Zenon DEF Proofs
<1>2. /\ clock' = clock + 1 /\ clock' > clock /\ final_iteration \in 0 .. POLL_BOUND - 1
      /\ clock' \in Int /\ clock' < next_iteration + SERVE_OFFSET
    <2>1. turn \in 0 .. POLL_BOUND - 1 /\ final_iteration \in 0 .. POLL_BOUND - 1 /\ next_iteration \in Nat
        BY <1>1, BootBounds DEF BootInv, Shapes
    <2>2. /\ start_iteration = next_iteration + final_iteration + 1
          /\ clock = (start_iteration + turn) - 1
        BY Zenon DEF BootInv, Timeline
    <2> QED
        BY <2>1, <2>2, BootBounds
<1>3. CASE Reported(phase, ok) /\ GoOn(final_iteration)
    <2>1. /\ sock' \in [Proofs -> Socket] /\ results' \in [Proofs -> {"none", "pass", "fail"}]
          /\ Earned' /\ OnlyAskedPass'
          /\ \A p \in Proofs : results[p] # "none" => results'[p] = results[p]
          /\ \A p \in Proofs : p # phase => results'[p] = results[p]
        BY Zenon, <1>1, <1>3, Verdict
    <2>2. Shapes' /\ Timeline' /\ Asked' /\ Open'
        BY Zenon, <1>1, <1>2, <1>3, <2>1, Follows
    <2> QED
        BY Zenon, <1>2, <2>1, <2>2 DEF BootInv, StepOK, Earned
<1>4. CASE ~LastTurn /\ Again /\ UNCHANGED start_iteration
    <2>1. results' = results
        BY Zenon, <1>4 DEF Again
    <2>2. /\ sock' \in [Proofs -> Socket] /\ results' \in [Proofs -> {"none", "pass", "fail"}]
          /\ Earned' /\ OnlyAskedPass'
        BY Zenon, <1>1, <2>1, Undecided
    <2>3. Shapes' /\ Timeline' /\ Asked' /\ Open'
        BY Zenon, <1>1, <1>2, <1>4, AnotherTurn
    <2> QED
        BY Zenon, <1>2, <2>1, <2>2, <2>3 DEF BootInv, StepOK, Earned
<1> QED
    BY Zenon, <1>3, <1>4

(* One turn of the TCP ping-pong loop.                                     *)
LEMMA TcpTurn ==
    ASSUME BootInv, run_tcp_proof
    PROVE  BootInv' /\ StepOK
<1>1. PICK t \in TcpPolls(sock["tcp"]) :
          LET s == [t EXCEPT !.sent = @ \/ (t.up /\ t.open)]
          IN  /\ Leaves(s)
              /\ IF s.len >= TCP_PONG_LEN \/ (s.sent /\ ~s.open) \/ LastTurn
                 THEN Reported("tcp", TcpPass(s)) /\ GoOn(final_iteration)
                 ELSE Again /\ UNCHANGED start_iteration
    BY Zenon DEF run_tcp_proof
<1> DEFINE s == [t EXCEPT !.sent = t.sent \/ (t.up /\ t.open)]
           ok == TcpPass(s)
<1>2. /\ phase = "tcp" /\ clock' = start_iteration + turn
      /\ UNCHANGED <<info, next_iteration, final_iteration>>
    BY Zenon DEF run_tcp_proof, Polled
<1>3. t \in [sent : BOOLEAN, open : BOOLEAN, up : BOOLEAN, len : 0 .. TCP_PONG_LEN, right : BOOLEAN,
             answer : {"none"}]
    <2>1. sock["tcp"] \in Socket
        BY Zenon DEF BootInv, Proofs
    <2>2. sock["tcp"].sent \in BOOLEAN /\ sock["tcp"].len \in 0 .. TCP_PONG_LEN
        BY Zenon, <2>1 DEF Socket
    <2>3. t \in [sent : {sock["tcp"].sent}, open : BOOLEAN, up : BOOLEAN, len : sock["tcp"].len .. TCP_PONG_LEN,
                 right : BOOLEAN, answer : {"none"}]
        BY Zenon DEF TcpPolls
    <2> HIDE DEF s, ok
    <2> QED
        BY <2>2, <2>3, BootBounds
<1>4. s \in Socket /\ s.len = t.len /\ s.right = t.right
    BY Zenon, <1>3 DEF Socket, Answers
<1>5. ok \in BOOLEAN /\ (ok => Evidence(phase, s))
    <2>1. s.len \in 0 .. TCP_PONG_LEN /\ s.right \in BOOLEAN
        BY Zenon, <1>4 DEF Socket
    <2> HIDE DEF s
    <2> QED
        BY <1>2, <2>1, BootBounds DEF Evidence, TcpPass
<1>6. /\ Leaves(s)
      /\ \/ Reported("tcp", ok) /\ GoOn(final_iteration)
         \/ ~LastTurn /\ Again /\ UNCHANGED start_iteration
    BY Zenon, <1>1
<1> HIDE DEF s, ok
<1>7. phase \in {"tcp", "dns"}
    BY Zenon, <1>2
<1> QED
    BY Zenon, <1>2, <1>4, <1>5, <1>6, <1>7, LaterTurn

(* The panic of the TCP proof's connect stops the process where it is.     *)
LEMMA PanicStep ==
    ASSUME BootInv, ConnectPanics
    PROVE  BootInv' /\ StepOK
<1>1. /\ phase = "tcp" /\ phase' = "panicked" /\ turn' = 0
      /\ UNCHANGED <<info, next_iteration, final_iteration, start_iteration, clock, sock, results>>
    BY Zenon DEF ConnectPanics, Enter
<1>2. Shapes' /\ Timeline'
    BY <1>1, BootBounds DEF BootInv, Shapes, Timeline, Phases, Proofs
<1>3. Asked' /\ Open'
    BY Zenon, <1>1 DEF Asked, Open
<1>4. OnlyAskedPass' /\ Earned'
    BY Zenon, <1>1 DEF BootInv, OnlyAskedPass, Earned, Evidence
<1> QED
    BY Zenon, <1>1, <1>2, <1>3, <1>4 DEF BootInv, StepOK, Earned

(* One turn of the DNS lookup.                                             *)
LEMMA DnsTurn ==
    ASSUME BootInv, run_dns_lookup
    PROVE  BootInv' /\ StepOK
<1>1. PICK answer \in {"Pending", "Failed", "other", "ipv4"} :
          /\ Leaves([sock["dns"] EXCEPT !.answer = answer])
          /\ IF answer # "Pending" \/ LastTurn
             THEN Reported("dns", answer = "ipv4") /\ GoOn(final_iteration)
             ELSE Again /\ UNCHANGED start_iteration
    BY Zenon DEF run_dns_lookup
<1> DEFINE s == [sock["dns"] EXCEPT !.answer = answer]
           ok == answer = "ipv4"
<1>2. /\ phase = "dns" /\ clock' = start_iteration + turn
      /\ UNCHANGED <<info, next_iteration, final_iteration>>
    BY Zenon DEF run_dns_lookup, Polled
<1>3. s \in Socket /\ s.answer = answer
    BY Zenon DEF BootInv, Socket, Answers, Proofs
<1>4. ok \in BOOLEAN /\ (ok => Evidence(phase, s))
    BY Zenon, <1>2, <1>3 DEF Evidence
<1>5. /\ Leaves(s)
      /\ \/ Reported("dns", ok) /\ GoOn(final_iteration)
         \/ ~LastTurn /\ Again /\ UNCHANGED start_iteration
    BY Zenon, <1>1
<1> HIDE DEF s, ok
<1>6. phase \in {"tcp", "dns"}
    BY Zenon, <1>2
<1> QED
    BY Zenon, <1>2, <1>3, <1>4, <1>5, <1>6, LaterTurn

(* One turn of the socket server's loop.                                   *)
LEMMA ServeTurn ==
    ASSUME BootInv, run_socket_ipc_server
    PROVE  BootInv' /\ StepOK
<1>1. /\ phase = "serve" /\ clock' = start_iteration + turn
      /\ \/ turn = SERVE_BOUND - 1 /\ phase' = "idle" /\ turn' = 0
         \/ turn # SERVE_BOUND - 1 /\ phase' = "serve" /\ turn' = turn + 1
      /\ UNCHANGED <<info, next_iteration, final_iteration, start_iteration, sock, results>>
    BY Zenon DEF run_socket_ipc_server, Polled, Enter, Again
<1>2. /\ turn \in Nat /\ turn < SERVE_BOUND /\ start_iteration \in Nat /\ clock \in Int
      /\ clock < start_iteration + turn /\ start_iteration = next_iteration + SERVE_OFFSET
    BY Zenon, <1>1 DEF BootInv, Shapes, Timeline
<1>3. clock' > clock /\ clock' \in Int
    BY <1>1, <1>2
<1>4. Shapes'
    BY <1>1, <1>2, <1>3, BootBounds DEF BootInv, Shapes, Phases, Proofs
<1>5. Timeline'
    BY <1>1, <1>2 DEF Timeline
<1>6. Asked' /\ Open'
    BY Zenon, <1>1 DEF Asked, Open
<1>7. OnlyAskedPass' /\ Earned'
    BY Zenon, <1>1 DEF BootInv, OnlyAskedPass, Earned, Evidence
<1> QED
    BY Zenon, <1>1, <1>3, <1>4, <1>5, <1>6, <1>7 DEF BootInv, StepOK, Earned

(* The probe finds the device, or the boot sequence ends.                  *)
LEMMA ProbeTurn ==
    ASSUME BootInv, probe
    PROVE  BootInv' /\ StepOK
<1>1. /\ phase = "probe" /\ turn' = 0
      /\ UNCHANGED <<info, next_iteration, final_iteration, start_iteration, clock, sock>>
      /\ \/ phase' = (IF info.use_dhcp THEN "dhcp" ELSE "icmp") /\ results' = results
         \/ phase' = "idle" /\ results' = [p \in Proofs |-> "fail"]
    BY Zenon DEF probe, Enter
<1>2. /\ clock = -1 /\ next_iteration = 0 /\ turn = 0
    BY Zenon, <1>1 DEF BootInv, Shapes, Timeline
<1>3. Shapes' /\ Timeline'
    BY <1>1, <1>2, BootBounds DEF BootInv, Shapes, Timeline, Phases, Proofs
<1>4. Asked' /\ Open'
    BY Zenon, <1>1 DEF BootInv, Asked, Open
<1>5. \A p \in Proofs : results[p] = "none" /\ results'[p] # "pass"
    BY Zenon, <1>1 DEF BootInv, Open, Proofs
<1>6. OnlyAskedPass' /\ Earned' /\ results' \in [Proofs -> {"none", "pass", "fail"}]
    BY Zenon, <1>1, <1>5 DEF BootInv, OnlyAskedPass, Earned, Proofs
<1> QED
    BY Zenon, <1>1, <1>3, <1>4, <1>5, <1>6 DEF BootInv, StepOK

(* Every step of the boot sequence keeps the invariant.                    *)
LEMMA BootSteps ==
    ASSUME BootInv, BootNext
    PROVE  BootInv' /\ StepOK
BY Zenon, ProbeTurn, DhcpTurn, IcmpTurn, TcpTurn, PanicStep, DnsTurn, ServeTurn DEF BootNext

(* For every poll bound and whatever the network answers: smoltcp is never *)
(* polled with a timestamp it has seen, a proof passes only on its own     *)
(* socket's evidence and when it was asked for, and no later phase         *)
(* rewrites its result.                                                    *)
THEOREM BootStaysSound == BootSpec => StartSound
<1>1. BootInit => BootInv
    BY Zenon, BootStarts
<1>2. BootInv /\ [BootNext]_bootVars => BootInv'
    <2> SUFFICES ASSUME BootInv, [BootNext]_bootVars PROVE BootInv'
        BY Zenon
    <2>1. CASE UNCHANGED bootVars
        <3>1. /\ info' = info /\ phase' = phase /\ next_iteration' = next_iteration
              /\ final_iteration' = final_iteration /\ start_iteration' = start_iteration
              /\ turn' = turn /\ clock' = clock /\ sock' = sock /\ results' = results
            BY Zenon, <2>1 DEF bootVars
        <3>2. Shapes'
            BY Zenon, <3>1 DEF BootInv, Shapes
        <3>3. Timeline'
            BY Zenon, <3>1 DEF BootInv, Timeline
        <3>4. Asked' /\ OnlyAskedPass'
            BY Zenon, <3>1 DEF BootInv, Asked, OnlyAskedPass
        <3>5. Open'
            BY Zenon, <3>1 DEF BootInv, Open
        <3>6. Earned'
            BY Zenon, <3>1 DEF BootInv, Earned, Evidence
        <3> QED
            BY Zenon, <3>1, <3>2, <3>3, <3>4, <3>5, <3>6 DEF BootInv
    <2> QED
        BY Zenon, <2>1, BootSteps
<1>3. BootInv => BootTypeOK /\ OnlyAskedPass
    <2> SUFFICES ASSUME BootInv PROVE BootTypeOK /\ OnlyAskedPass
        BY Zenon
    <2>1. sock["tcp"].len \in 0 .. TCP_PONG_LEN
        BY Zenon DEF BootInv, Socket, Proofs
    <2>2. turn \in 0 .. POLL_BOUND + SERVE_BOUND
        <3>1. turn \in Nat /\ (turn < POLL_BOUND \/ turn < SERVE_BOUND \/ turn = 0)
            BY Zenon DEF BootInv, Shapes, Phases
        <3> QED
            BY <3>1, BootBounds
    <2> QED
        BY Zenon, <2>1, <2>2 DEF BootInv, BootTypeOK, Shapes, Phases
<1>4. BootInv /\ [BootNext]_bootVars => [phase = "probe" \/ phase' = "panicked" \/ clock' > clock]_bootVars
    BY Zenon, BootSteps DEF StepOK
<1>5. BootInv /\ [BootNext]_bootVars =>
         [\A p \in Proofs : /\ results[p] # "none" => results'[p] = results[p]
                            /\ results'[p] = "pass" => Evidence(p, sock'[p])]_bootVars
    BY Zenon, BootSteps DEF StepOK
<1> QED
    BY <1>1, <1>2, <1>3, <1>4, <1>5, PTL DEF BootSpec, StartSound, ClockIncreases, PassIsEarned
=============================================================================
