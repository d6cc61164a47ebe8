---------------------------- MODULE PolicyProofs ----------------------------
(***************************************************************************)
(* Proofs about the two places where policy is applied outside the kernel: *)
(* citadel_proxy counts its places, records what it forwards, forwards     *)
(* what was asked and tells each connection its own verdict, for any       *)
(* number of connections, any cap, any requests and any replies of CITADEL *)
(* (Proxy); select_network names the best network a plan allows            *)
(* (Selection).                                                            *)
(***************************************************************************)
EXTENDS Proxy, Selection, FiniteSetTheorems, TLAPS

(* The governance proxy (Proxy).                                           *)

(* A sequence t that is s with one element more at the end.                *)
Appended(s, t, e) ==
    /\ \E T : t \in Seq(T)
    /\ Len(t) = Len(s) + 1 /\ Len(s) \in Nat
    /\ DOMAIN s = 1 .. Len(s) /\ DOMAIN t = DOMAIN s \cup {Len(s) + 1}
    /\ \A k \in DOMAIN s : t[k] = s[k]
    /\ t[Len(s) + 1] = e

(* A sequence of whatever elements can be appended to.                     *)
LEMMA AppendsAnything == \A S, s, e : s \in Seq(S) => Appended(s, Append(s, e), e)
<1> SUFFICES ASSUME NEW S, NEW s \in Seq(S), NEW e PROVE Appended(s, Append(s, e), e)
  BY Zenon
<1>1. s \in Seq(S \cup {e})
  OBVIOUS
<1>2. Append(s, e) \in Seq(S \cup {e})
  BY <1>1
<1>3. /\ Len(Append(s, e)) = Len(s) + 1 /\ Len(s) \in Nat
      /\ DOMAIN s = 1 .. Len(s) /\ DOMAIN Append(s, e) = DOMAIN s \cup {Len(s) + 1}
      /\ \A k \in DOMAIN s : Append(s, e)[k] = s[k]
      /\ Append(s, e)[Len(s) + 1] = e
  BY <1>1, <1>2
<1> QED
  BY Zenon, <1>2, <1>3 DEF Appended

-----------------------------------------------------------------------------
(* The inductive invariant of the proxy.  A connection's record, and the   *)
(* entry that CITADEL has of it, if any.                                   *)
Conn ==
    [sent : {"nothing", "part", "whole", "too long", "closed", "done"},
     read : {"nothing", "part", "done"},
     pc : {"away", "backlog", "first byte", "frame", "check", "submit", "write", "release",
           "refused", "drop", "closed"},
     env : KernelMinimalEnvelope \cup {Unparsable},
     answer : Answers \cup {"none"}, result : Answers \cup {"none", "EOF"}]
Mine(c) == {f \in forwarded : f.conn = c}

ProxyTyped ==
    /\ conn \in [Conns -> Conn]
    /\ pcase \in DOMAIN ProxyCases
    /\ \E S : worm \in Seq(S)
    /\ \A f \in forwarded : f.conn \in Conns

(* What a connection's answer rests on: an envelope that does not parse,   *)
(* the policy's refusal, or what became of the one request forwarded.      *)
Told(x, c, mine) ==
    \/ x.env = Unparsable /\ x.answer = "BadResponse" /\ mine = {}
    \/ x.env # Unparsable /\ ~check(x.env) /\ x.answer = "PolicyRefused" /\ mine = {}
    \/ /\ x.env # Unparsable /\ check(x.env)
       /\ \E r \in HttpReplies :
             /\ x.answer = submit_and_translate(r)
             /\ mine = IF r.status = "not configured" THEN {}
                       ELSE {[conn |-> c, reply |-> r, envelope |-> build_enriched_envelope(x.env)]}

(* How far a connection has got, and what it may have been told by then.   *)
Early == {"away", "backlog", "first byte", "frame", "check", "submit"}
Settled(x, c, mine) ==
    /\ x.pc \in Early => x.answer = "none" /\ x.result = "none"
    /\ IF x.answer = "none" THEN mine = {} ELSE Told(x, c, mine)
    /\ x.pc = "submit" => x.env # Unparsable /\ check(x.env)
    /\ x.pc = "write" => x.answer # "none"
    /\ x.result \in Answers => x.result = x.answer
VerdictsInv == \A c \in Conns : Settled(conn[c], c, Mine(c))

Held == Reading \cup {"check", "submit", "write", "release", "refused"}
Holders == {c \in Conns : conn[c].pc \in Held}
Refusals == {c \in Conns : conn[c].pc = "refused"}
PlacesInv ==
    /\ active = Cardinality(Holders) /\ active <= MAX_CONNECTIONS + 1
    /\ Refusals = {} => active <= MAX_CONNECTIONS
    /\ \A c, d \in Refusals : c = d

(* The connections with the same subject that CITADEL has heard of or is   *)
(* about to, and the entries of the log that let them pass.                *)
Sponsors(ids) ==
    {c \in Conns : (conn[c].pc = "submit" \/ Mine(c) # {}) /\ audit_ids(conn[c].env) = ids}
Approved(ids) == {i \in DOMAIN worm : worm[i] = <<ids, TRUE>>}
LedgerInv == \A ids : Cardinality(Sponsors(ids)) <= Cardinality(Approved(ids))

ProxyInv == ProxyTyped /\ VerdictsInv /\ PlacesInv /\ LedgerInv

-----------------------------------------------------------------------------
(* Places, subjects and entries are finite in number.                      *)
LEMMA ProxyCounts ==
    ASSUME ProxyTyped
    PROVE  /\ IsFiniteSet(Holders) /\ Cardinality(Holders) \in Nat
           /\ Cardinality(Holders) <= Cardinality(Conns) /\ Cardinality(Conns) \in Nat
           /\ \A ids : /\ IsFiniteSet(Sponsors(ids)) /\ Cardinality(Sponsors(ids)) \in Nat
                       /\ IsFiniteSet(Approved(ids)) /\ Cardinality(Approved(ids)) \in Nat
<1>1. IsFiniteSet(Conns)
  BY Zenon, ProxyAssumption
<1>2. Holders \in SUBSET Conns /\ \A ids : Sponsors(ids) \in SUBSET Conns
  BY Zenon DEF Holders, Sponsors
<1>3. /\ IsFiniteSet(Holders) /\ Cardinality(Holders) <= Cardinality(Conns)
      /\ \A ids : IsFiniteSet(Sponsors(ids))
  BY Zenon, <1>1, <1>2, FS_Subset
<1>4. IsFiniteSet(DOMAIN worm)
  <2>1. PICK S : worm \in Seq(S)
    BY Zenon DEF ProxyTyped
  <2>2. DOMAIN worm = 1 .. Len(worm) /\ 1 \in Int /\ Len(worm) \in Int
    BY <2>1
  <2> QED
    BY Zenon, <2>2, FS_Interval
<1>5. \A ids : IsFiniteSet(Approved(ids))
  <2>1. \A ids : Approved(ids) \in SUBSET DOMAIN worm
    BY ZenonT(30) DEF Approved
  <2> QED
    BY Zenon, <1>4, <2>1, FS_Subset
<1> QED
  BY Zenon, <1>1, <1>3, <1>5, FS_CardinalityType

(* A connection's place is kept, taken or given back.                      *)
LEMMA PlaceKept ==
    ASSUME ProxyTyped, PlacesInv, NEW c \in Conns, NEW new, Upd(c, new), UNCHANGED active,
           new.pc \in Held <=> conn[c].pc \in Held, new.pc # "refused", conn[c].pc # "refused"
    PROVE  PlacesInv'
<1>1. Holders' = Holders /\ Refusals' = Refusals
  BY Zenon DEF Upd, Holders, Refusals, ProxyTyped
<1> QED
  BY Zenon, <1>1 DEF PlacesInv

(* serve_listener adds one for a connection it has not counted while it    *)
(* has none to refuse, and serves it only below the cap.                   *)
LEMMA PlaceTaken ==
    ASSUME ProxyTyped, PlacesInv, NEW c \in Conns, NEW new, Upd(c, new), active' = active + 1,
           Refusals = {}, AtCap(active) => new.pc = "refused",
           conn[c].pc \notin Held, new.pc \in Held
    PROVE  PlacesInv'
<1>1. Holders' = Holders \cup {c} /\ c \notin Holders
  BY Zenon DEF Upd, Holders, ProxyTyped
<1>2. Cardinality(Holders \cup {c}) = Cardinality(Holders) + 1 /\ Cardinality(Holders) \in Nat
  BY ZenonT(30), <1>1, ProxyCounts, FS_AddElement
<1>3. active' = Cardinality(Holders') /\ active' <= MAX_CONNECTIONS + 1
  BY <1>1, <1>2, ProxyAssumption DEF PlacesInv
<1>4. Refusals' = IF new.pc = "refused" THEN {c} ELSE {}
  BY ZenonT(30) DEF Upd, Refusals, ProxyTyped
<1>5. Refusals' = {} => active' <= MAX_CONNECTIONS
  <2>1. Refusals' = {} => ~AtCap(active)
    BY Zenon, <1>4
  <2> QED
    BY <1>2, <2>1, ProxyAssumption DEF PlacesInv, AtCap
<1>6. \A a, b \in Refusals' : a = b
  BY Zenon, <1>4
<1> QED
  BY Zenon, <1>3, <1>5, <1>6 DEF PlacesInv

(* A thread that leaves, and the loop that refuses a connection, take off  *)
(* the one it was counted for.                                             *)
LEMMA PlaceGivenBack ==
    ASSUME ProxyTyped, PlacesInv, NEW c \in Conns, NEW new, Upd(c, new), active' = active - 1,
           conn[c].pc \in Held, new.pc \notin Held
    PROVE  PlacesInv'
<1>1. Holders' = Holders \ {c} /\ c \in Holders
  BY Zenon DEF Upd, Holders, ProxyTyped
<1>2. Cardinality(Holders \ {c}) = Cardinality(Holders) - 1 /\ Cardinality(Holders) \in Nat
  BY ZenonT(30), <1>1, ProxyCounts, FS_RemoveElement
<1>3. Refusals' \in SUBSET Refusals
  <2>1. new.pc # "refused"
    BY Zenon DEF Held
  <2> QED
    BY Zenon, <2>1 DEF Upd, Refusals, ProxyTyped
<1>4. active' = Cardinality(Holders') /\ active' <= MAX_CONNECTIONS
  BY <1>1, <1>2, ProxyAssumption DEF PlacesInv
<1>5. \A a, b \in Refusals' : a = b
  BY Zenon, <1>3 DEF PlacesInv
<1>6. active' <= MAX_CONNECTIONS + 1
  BY <1>1, <1>2, <1>4, ProxyAssumption DEF PlacesInv
<1> QED
  BY Zenon, <1>4, <1>5, <1>6 DEF PlacesInv

(* A step of one connection leaves the verdicts of the others alone.       *)
LEMMA OwnVerdictOnly ==
    ASSUME ProxyTyped, VerdictsInv, NEW c \in Conns, NEW new, Upd(c, new),
           \A d \in Conns \ {c} : Mine(d)' = Mine(d),
           Settled(new, c, Mine(c)')
    PROVE  VerdictsInv'
<1>1. \A d \in Conns : conn'[d] = IF d = c THEN new ELSE conn[d]
  BY Zenon DEF Upd, ProxyTyped
<1>2. ASSUME NEW d \in Conns
      PROVE  Settled(conn'[d], d, Mine(d)')
  BY Zenon, <1>1 DEF VerdictsInv
<1> QED
  BY Zenon, <1>2 DEF VerdictsInv

(* A move of a connection that neither answers nor forwards it.            *)
LEMMA MoveKeeps ==
    ASSUME ProxyTyped, VerdictsInv, LedgerInv, NEW c \in Conns, NEW new \in Conn, Upd(c, new),
           UNCHANGED <<worm, forwarded, pcase>>,
           new.answer = conn[c].answer, new.env = conn[c].env \/ conn[c].pc = "away",
           new.pc \in Early => conn[c].pc \in Early /\ new.result = conn[c].result,
           new.pc \notin {"submit", "write"},
           new.result \in {conn[c].result, "EOF", conn[c].answer}
    PROVE  ProxyTyped' /\ VerdictsInv' /\ LedgerInv'
<1>1. /\ conn[c] \in Conn /\ Settled(conn[c], c, Mine(c))
      /\ \A d \in Conns : conn'[d] = IF d = c THEN new ELSE conn[d]
      /\ \A d : Mine(d)' = Mine(d)
  BY Zenon DEF ProxyTyped, VerdictsInv, Upd, Mine
<1>2. ProxyTyped'
  BY Zenon DEF ProxyTyped, Upd
<1>3. conn[c].pc = "away" => conn[c].answer = "none" /\ Mine(c) = {}
  BY ZenonT(30), <1>1 DEF Settled, Early
<1>4. Settled(new, c, Mine(c))
  <2>1. IF new.answer = "none" THEN Mine(c) = {} ELSE Told(new, c, Mine(c))
    BY ZenonT(30), <1>1, <1>3 DEF Settled, Told
  <2>2. "EOF" \notin Answers /\ "none" \notin Answers
    BY Zenon DEF Answers
  <2> QED
    BY Zenon, <1>1, <2>1, <2>2 DEF Settled
<1>5. VerdictsInv'
  BY Zenon, <1>1, <1>4, OwnVerdictOnly
<1>6. ASSUME NEW ids
      PROVE  Cardinality(Sponsors(ids)') <= Cardinality(Approved(ids)')
  <2>1. Sponsors(ids)' \in SUBSET Sponsors(ids)
    BY Zenon, <1>1, <1>3 DEF Sponsors
  <2>2. /\ Cardinality(Sponsors(ids)') <= Cardinality(Sponsors(ids))
        /\ Cardinality(Sponsors(ids)) \in Nat /\ Cardinality(Approved(ids)) \in Nat
        /\ Cardinality(Sponsors(ids)') \in Nat
    BY Zenon, <2>1, ProxyCounts, FS_Subset, FS_CardinalityType
  <2>3. Approved(ids)' = Approved(ids)
    BY Zenon DEF Approved
  <2> QED
    BY <2>2, <2>3 DEF LedgerInv
<1> QED
  BY Zenon, <1>2, <1>5, <1>6 DEF LedgerInv


-----------------------------------------------------------------------------
(* build_response's own moves: the answer it gives without CITADEL, and    *)
(* the entry it makes of every envelope it can read.                       *)
LEMMA BuildResponseKeeps ==
    ASSUME ProxyInv, NEW c \in Conns, build_response(c)
    PROVE  ProxyInv'
<1> DEFINE x == conn[c]
<1>1. /\ x \in Conn /\ x.pc = "check" /\ Settled(x, c, Mine(c)) /\ UNCHANGED <<active, forwarded, pcase>>
      /\ \A d : Mine(d)' = Mine(d)
  BY Zenon DEF ProxyInv, ProxyTyped, VerdictsInv, build_response, Mine
<1>2. x.answer = "none" /\ x.result = "none" /\ Mine(c) = {}
  BY Zenon, <1>1 DEF Settled, Early
<1>3. PICK new : /\ Upd(c, new) /\ new \in Conn /\ new.env = x.env /\ new.result = "none"
                 /\ \/ /\ x.env = Unparsable /\ new.pc = "write" /\ new.answer = "BadResponse"
                       /\ UNCHANGED worm
                    \/ /\ x.env # Unparsable /\ ~check(x.env) /\ new.pc = "write"
                       /\ new.answer = "PolicyRefused" /\ worm' = Record(worm, x.env, check(x.env))
                    \/ /\ x.env # Unparsable /\ check(x.env) /\ new.pc = "submit"
                       /\ new.answer = "none" /\ worm' = Record(worm, x.env, check(x.env))
  <2>1. CASE x.env = Unparsable
    <3> DEFINE n == [x EXCEPT !.pc = "write", !.answer = "BadResponse"]
    <3>1. Upd(c, n) /\ UNCHANGED worm
      BY Zenon, <2>1 DEF build_response
    <3>2. n \in Conn /\ n.env = x.env /\ n.result = "none" /\ n.pc = "write" /\ n.answer = "BadResponse"
      BY ZenonT(30), <1>1, <1>2 DEF Conn, Answers
    <3> QED
      BY ZenonT(30), <2>1, <3>1, <3>2
  <2>2. CASE x.env # Unparsable /\ ~check(x.env)
    <3> DEFINE n == [x EXCEPT !.pc = "write", !.answer = "PolicyRefused"]
    <3>1. Upd(c, n) /\ worm' = Record(worm, x.env, check(x.env))
      BY Zenon, <2>2 DEF build_response
    <3>2. n \in Conn /\ n.env = x.env /\ n.result = "none" /\ n.pc = "write" /\ n.answer = "PolicyRefused"
      BY ZenonT(30), <1>1, <1>2 DEF Conn, Answers
    <3> QED
      BY ZenonT(30), <2>2, <3>1, <3>2
  <2>3. CASE x.env # Unparsable /\ check(x.env)
    <3> DEFINE n == [x EXCEPT !.pc = "submit"]
    <3>1. Upd(c, n) /\ worm' = Record(worm, x.env, check(x.env))
      BY Zenon, <2>3 DEF build_response
    <3>2. n \in Conn /\ n.env = x.env /\ n.result = "none" /\ n.pc = "submit" /\ n.answer = "none"
      BY ZenonT(30), <1>1, <1>2 DEF Conn
    <3> QED
      BY ZenonT(30), <2>3, <3>1, <3>2
  <2> QED
    BY Zenon, <2>1, <2>2, <2>3
<1>4. PlacesInv'
  <2>1. new.pc \in Held /\ x.pc \in Held /\ new.pc # "refused" /\ x.pc # "refused"
    BY Zenon, <1>1, <1>3 DEF Held
  <2> QED
    BY Zenon, <1>1, <1>3, <2>1, PlaceKept DEF ProxyInv
<1>5. VerdictsInv'
  <2>1. Settled(new, c, Mine(c))
    <3>1. IF new.answer = "none" THEN Mine(c) = {} ELSE Told(new, c, Mine(c))
      BY ZenonT(30), <1>2, <1>3 DEF Told
    <3>2. "none" \notin Answers
      BY Zenon DEF Answers
    <3> QED
      BY ZenonT(30), <1>3, <3>1, <3>2 DEF Settled, Early
  <2> QED
    BY Zenon, <1>1, <1>3, <2>1, OwnVerdictOnly DEF ProxyInv
<1>6. \A d \in Conns : conn'[d] = IF d = c THEN new ELSE conn[d]
  BY Zenon, <1>3 DEF Upd, ProxyInv, ProxyTyped
<1>7. CASE UNCHANGED worm
  <2>1. ProxyTyped'
    BY Zenon, <1>1, <1>3, <1>7 DEF ProxyInv, ProxyTyped, Upd
  <2>2. new.pc # "submit" \/ x.env # Unparsable
    BY Zenon, <1>3
  <2>3. CASE new.pc # "submit"
    <3>1. ASSUME NEW ids
          PROVE  Sponsors(ids)' = Sponsors(ids) /\ Approved(ids)' = Approved(ids)
      BY Zenon, <1>1, <1>2, <1>6, <1>7, <2>3 DEF Sponsors, Approved
    <3> QED
      BY Zenon, <1>4, <1>5, <2>1, <3>1 DEF ProxyInv, LedgerInv
  <2>4. CASE new.pc = "submit"
    <3>1. PICK S : worm \in Seq(S)
      BY Zenon DEF ProxyInv, ProxyTyped
    <3>2. worm' = Append(worm, <<audit_ids(x.env), check(x.env)>>)
      BY Zenon, <1>3, <2>4 DEF Record
    <3>3. Appended(worm, worm', <<audit_ids(x.env), check(x.env)>>)
      BY Zenon, <3>1, <3>2, AppendsAnything
    <3> QED
      BY <1>7, <3>3 DEF Appended
  <2> QED
    BY Zenon, <2>3, <2>4
<1>8. CASE worm' = Record(worm, x.env, check(x.env))
  <2> DEFINE entry == <<audit_ids(x.env), check(x.env)>>
  <2>1. PICK S : worm \in Seq(S)
    BY Zenon DEF ProxyInv, ProxyTyped
  <2>2. Appended(worm, worm', entry)
    BY Zenon, <1>8, <2>1, AppendsAnything DEF Record
  <2> HIDE DEF entry
  <2>3. ProxyTyped'
    <3>1. \E T : worm' \in Seq(T)
      BY Zenon, <2>2 DEF Appended
    <3> QED
      BY Zenon, <1>1, <1>3, <3>1 DEF ProxyInv, ProxyTyped, Upd
  <2>4. \A ids : Approved(ids) \in SUBSET Approved(ids)'
    BY ZenonT(30), <2>2 DEF Appended, Approved
  <2>5. \A ids : /\ IsFiniteSet(Approved(ids)') /\ Cardinality(Approved(ids)') \in Nat
                 /\ Cardinality(Approved(ids)) \in Nat /\ IsFiniteSet(Approved(ids))
                 /\ Cardinality(Sponsors(ids)) \in Nat /\ IsFiniteSet(Sponsors(ids))
                 /\ Cardinality(Sponsors(ids)) <= Cardinality(Approved(ids))
    <3>1. \A ids : /\ IsFiniteSet(Approved(ids)) /\ Cardinality(Approved(ids)) \in Nat
                   /\ Cardinality(Sponsors(ids)) \in Nat /\ IsFiniteSet(Sponsors(ids))
      BY Zenon, ProxyCounts DEF ProxyInv
    <3>2. \A ids : IsFiniteSet(Approved(ids)')
      <4>1. Len(worm') \in Nat /\ DOMAIN worm' = 1 .. Len(worm')
        BY <2>2 DEF Appended
      <4>2. IsFiniteSet(DOMAIN worm')
        <5>1. 1 \in Int /\ Len(worm') \in Int
          BY <4>1
        <5> QED
          BY Zenon, <4>1, <5>1, FS_Interval
      <4>3. \A ids : Approved(ids)' \in SUBSET DOMAIN worm'
        BY ZenonT(30) DEF Approved
      <4> QED
        BY Zenon, <4>2, <4>3, FS_Subset
    <3> QED
      BY Zenon, <3>1, <3>2, FS_CardinalityType DEF ProxyInv, LedgerInv
  <2>6. ASSUME NEW ids
        PROVE  Cardinality(Sponsors(ids)') <= Cardinality(Approved(ids)')
    <3>1. CASE new.pc = "submit" /\ audit_ids(x.env) = ids
      <4>1. entry = <<ids, TRUE>>
        <5>1. check(x.env) = TRUE
          BY Zenon, <1>3, <3>1 DEF check
        <5> QED
          BY ZenonT(30), <3>1, <5>1 DEF entry
      <4> DEFINE k == Len(worm) + 1
      <4>2. k \notin Approved(ids) /\ k \in Approved(ids)'
        <5>1. k \notin DOMAIN worm /\ k \in DOMAIN worm'
          BY <2>2 DEF Appended
        <5>2. worm'[k] = <<ids, TRUE>>
          BY Zenon, <2>2, <4>1 DEF Appended
        <5> HIDE DEF k
        <5> QED
          BY Zenon, <5>1, <5>2 DEF Approved
      <4>3. Cardinality(Approved(ids) \cup {k}) = Cardinality(Approved(ids)) + 1
        BY ZenonT(30), <2>5, <4>2, FS_AddElement
      <4>4. Approved(ids) \cup {k} \in SUBSET Approved(ids)'
        BY Zenon, <2>4, <4>2
      <4>5. Cardinality(Approved(ids) \cup {k}) <= Cardinality(Approved(ids)')
        BY Zenon, <2>5, <4>4, FS_Subset
      <4>6. Sponsors(ids)' = Sponsors(ids) \cup {c} /\ c \notin Sponsors(ids)
        BY Zenon, <1>1, <1>2, <1>3, <1>6, <3>1 DEF Sponsors
      <4>7. Cardinality(Sponsors(ids)') = Cardinality(Sponsors(ids)) + 1
        BY ZenonT(30), <2>5, <4>6, FS_AddElement
      <4> QED
        BY <2>5, <4>3, <4>5, <4>7
    <3>2. CASE new.pc # "submit" \/ audit_ids(x.env) # ids
      <4>1. Sponsors(ids)' = Sponsors(ids)
        BY Zenon, <1>1, <1>2, <1>3, <1>6, <3>2 DEF Sponsors
      <4>2. Cardinality(Approved(ids)) <= Cardinality(Approved(ids)')
        BY Zenon, <2>4, <2>5, FS_Subset
      <4> QED
        BY <2>5, <4>1, <4>2
    <3> QED
      BY Zenon, <3>1, <3>2
  <2> QED
    BY Zenon, <1>4, <1>5, <2>3, <2>6 DEF ProxyInv, LedgerInv
<1> QED
  BY Zenon, <1>3, <1>7, <1>8


(* What submit_async and submit_and_translate make of CITADEL's replies.   *)
LEMMA RepliesTranslated ==
    ASSUME NEW r \in HttpReplies
    PROVE  /\ submit_and_translate(r) \in Answers \ {"PolicyRefused"}
           /\ submit_and_translate(r) = "Execute" <=> r = [status |-> "200", body |-> "Execute"]
           /\ r.status \in {"200", "403"} /\ r.body \in {"Refuse", "HardStop"} => submit_and_translate(r) = r.body
           /\ r.status = "not configured" => submit_and_translate(r) = "Unreachable"
<1>1. /\ r.status = "timeout" => submit(r) = "Timeout"
      /\ r.status \in {"not configured", "unreachable"} => submit(r) = "Unreachable"
      /\ r.status = "403" => submit(r) = IF r.body \in {"Refuse", "HardStop"} THEN r.body ELSE "BadResponse"
      /\ r.status = "500" => submit(r) = "BadResponse"
      /\ r.status = "200" => submit(r) = r.body
  BY Zenon DEF submit
<1>2. /\ \/ r.status \in {"200", "403", "500"} /\ r.body \in {"Execute", "Refuse", "HardStop", "garbage"}
         \/ r.status \in {"not configured", "unreachable", "timeout"} /\ r.body = "none"
      /\ r = [status |-> "200", body |-> "Execute"] <=> r.status = "200" /\ r.body = "Execute"
  <2>1. CASE r \in [status : {"200", "403", "500"}, body : {"Execute", "Refuse", "HardStop", "garbage"}]
    <3>1. r = [status |-> r.status, body |-> r.body]
      BY Zenon, <2>1
    <3>2. r = [status |-> "200", body |-> "Execute"] <=> r.status = "200" /\ r.body = "Execute"
      BY ONLY <3>1
    <3> QED
      BY ZenonT(30), <2>1, <3>2
  <2>2. CASE r \in [status : {"not configured", "unreachable", "timeout"}, body : {"none"}]
    <3>1. r = [status |-> r.status, body |-> r.body]
      BY ZenonT(30), <2>2
    <3>2. r = [status |-> "200", body |-> "Execute"] <=> r.status = "200" /\ r.body = "Execute"
      BY ONLY <3>1
    <3> QED
      BY ZenonT(30), <2>2, <3>2
  <2> QED
    BY Zenon, <2>1, <2>2 DEF HttpReplies
<1>3. submit_and_translate(r) = IF submit(r) = "garbage" THEN "BadResponse" ELSE submit(r)
  BY Zenon DEF submit_and_translate
<1>4. submit_and_translate(r) \in Answers \ {"PolicyRefused"}
  BY ZenonT(30), <1>1, <1>2, <1>3 DEF Answers
<1>5. submit_and_translate(r) = "Execute" <=> r.status = "200" /\ r.body = "Execute"
  BY ZenonT(30), <1>1, <1>2, <1>3
<1>6. r.status \in {"200", "403"} /\ r.body \in {"Refuse", "HardStop"} => submit_and_translate(r) = r.body
  BY ZenonT(30), <1>1, <1>2, <1>3
<1>7. r.status = "not configured" => submit_and_translate(r) = "Unreachable"
  BY ZenonT(30), <1>1, <1>2, <1>3
<1> QED
  BY Zenon, <1>2, <1>4, <1>5, <1>6, <1>7

(* CITADEL's answer settles the one connection that asked.                 *)
LEMMA SubmitKeeps ==
    ASSUME ProxyInv, NEW c \in Conns, Submit(c)
    PROVE  ProxyInv'
<1> DEFINE x == conn[c]
<1>1. x \in Conn /\ x.pc = "submit" /\ Settled(x, c, Mine(c)) /\ UNCHANGED <<active, worm, pcase>>
  BY ZenonT(30) DEF ProxyInv, ProxyTyped, VerdictsInv, Submit
<1>2. x.answer = "none" /\ x.result = "none" /\ Mine(c) = {} /\ x.env # Unparsable /\ check(x.env)
  BY Zenon, <1>1 DEF Settled, Early
<1> DEFINE sent(r) == [conn |-> c, reply |-> r, envelope |-> build_enriched_envelope(x.env)]
           new(r) == [x EXCEPT !.pc = "write", !.answer = submit_and_translate(r)]
<1>3. PICK r \in HttpReplies :
         /\ forwarded' = IF r.status = "not configured" THEN forwarded ELSE forwarded \cup {sent(r)}
         /\ Upd(c, new(r))
  BY ZenonT(30), ProxyAssumption DEF ProxyInv, ProxyTyped, Submit
<1> DEFINE n == new(r)
           answer == submit_and_translate(r)
<1>4. answer \in Answers
  BY ZenonT(30), RepliesTranslated
<1>5. n \in Conn /\ n.env = x.env /\ n.result = "none" /\ n.pc = "write" /\ n.answer = answer
  <2> HIDE DEF answer
  <2>1. n = [x EXCEPT !.pc = "write", !.answer = answer]
    BY Zenon DEF answer
  <2> HIDE DEF n
  <2> QED
    BY ZenonT(30), <1>1, <1>2, <1>4, <2>1 DEF Conn
<1>6. sent(r).conn = c
  BY Zenon
<1> HIDE DEF sent
<1>7. Mine(c)' = IF r.status = "not configured" THEN {} ELSE {sent(r)}
  BY ZenonT(30), <1>2, <1>3, <1>6 DEF Mine
<1>8. \A d \in Conns \ {c} : Mine(d)' = Mine(d)
  BY ZenonT(30), <1>3, <1>6 DEF Mine
<1>9. Upd(c, n)
  BY ZenonT(30), <1>3
<1> HIDE DEF n
<1>10. ProxyTyped'
  BY ZenonT(30), <1>1, <1>3, <1>5, <1>6, <1>9 DEF ProxyInv, ProxyTyped, Upd
<1>11. VerdictsInv'
  <2>1. Settled(n, c, Mine(c)')
    <3>1. "none" \notin Answers
      BY Zenon DEF Answers
    <3>2. Mine(c)' = IF r.status = "not configured" THEN {}
                     ELSE {[conn |-> c, reply |-> r, envelope |-> build_enriched_envelope(n.env)]}
      BY ZenonT(30), <1>5, <1>7 DEF sent
    <3>3. n.answer = submit_and_translate(r) /\ n.env # Unparsable /\ check(n.env)
      BY Zenon, <1>2, <1>5
    <3>4. Told(n, c, Mine(c)')
      BY Zenon, <1>3, <3>2, <3>3 DEF Told
    <3> QED
      BY Zenon, <1>4, <1>5, <3>1, <3>4 DEF Settled, Early
  <2> QED
    BY Zenon, <1>8, <1>9, <2>1, OwnVerdictOnly DEF ProxyInv
<1>12. PlacesInv'
  <2>1. n.pc \in Held /\ x.pc \in Held /\ n.pc # "refused" /\ x.pc # "refused"
    BY Zenon, <1>1, <1>5 DEF Held
  <2> QED
    BY Zenon, <1>1, <1>9, <2>1, PlaceKept DEF ProxyInv
<1>13. ASSUME NEW ids
       PROVE  Cardinality(Sponsors(ids)') <= Cardinality(Approved(ids)')
  <2>1. \A d \in Conns : conn'[d] = IF d = c THEN n ELSE conn[d]
    BY Zenon, <1>9 DEF Upd, ProxyInv, ProxyTyped
  <2>2. Sponsors(ids)' \in SUBSET Sponsors(ids)
    BY Zenon, <1>1, <1>5, <1>8, <2>1 DEF Sponsors
  <2>3. /\ Cardinality(Sponsors(ids)) \in Nat /\ IsFiniteSet(Sponsors(ids))
        /\ Cardinality(Approved(ids)) \in Nat
    BY Zenon, ProxyCounts DEF ProxyInv
  <2>4. Cardinality(Sponsors(ids)') <= Cardinality(Sponsors(ids)) /\ Cardinality(Sponsors(ids)') \in Nat
    BY Zenon, <2>2, <2>3, FS_Subset, FS_CardinalityType
  <2>5. Approved(ids)' = Approved(ids)
    BY Zenon, <1>1 DEF Approved
  <2> QED
    BY <2>3, <2>4, <2>5 DEF ProxyInv, LedgerInv
<1> QED
  BY Zenon, <1>10, <1>11, <1>12, <1>13 DEF ProxyInv, LedgerInv


(* The moves of a client, of the accept loop and of a thread that neither  *)
(* answer nor forward.                                                     *)
LEMMA PlainMovesKeep ==
    ASSUME ProxyInv, NEW c \in Conns,
           \/ Dial(c) \/ ClientSend(c) \/ Accept(c) \/ read_marshal_request(c)
           \/ Expire(c) \/ Write(c) \/ Leave(c) \/ Drop(c) \/ Refuse(c)
    PROVE  ProxyInv'
<1> DEFINE x == conn[c]
           Quiet(new) ==
               /\ new \in Conn /\ Upd(c, new)
               /\ new.answer = x.answer /\ (new.env = x.env \/ x.pc = "away")
               /\ new.pc \in Early => x.pc \in Early /\ new.result = x.result
               /\ new.pc \notin {"submit", "write"}
               /\ new.result \in {x.result, "EOF", x.answer}
<1>1. x \in Conn /\ Settled(x, c, Mine(c))
  BY Zenon DEF ProxyInv, ProxyTyped, VerdictsInv
<1>2. ASSUME NEW new, Quiet(new), UNCHANGED <<worm, forwarded, pcase>>, PlacesInv'
      PROVE  ProxyInv'
  BY Zenon, <1>2, MoveKeeps DEF ProxyInv
<1>3. ASSUME NEW new, Quiet(new), UNCHANGED <<active, worm, forwarded, pcase>>,
             new.pc \in Held <=> x.pc \in Held, new.pc # "refused", x.pc # "refused"
      PROVE  ProxyInv'
  <2>1. PlacesInv'
    BY Zenon, <1>3, PlaceKept DEF ProxyInv
  <2> QED
    BY Zenon, <1>2, <1>3, <2>1
<1>4. CASE Dial(c)
  <2>1. PICK e \in KernelMinimalEnvelope \cup {Unparsable} : Upd(c, [x EXCEPT !.pc = "backlog", !.env = e])
    BY ZenonT(30), <1>4, ProxyAssumption DEF Dial, ProxyInv, ProxyTyped
  <2>2. x.pc = "away" /\ UNCHANGED <<active, worm, forwarded, pcase>>
    BY ZenonT(30), <1>4 DEF Dial
  <2> DEFINE n == [x EXCEPT !.pc = "backlog", !.env = e]
  <2>3. n \in Conn /\ n.answer = x.answer /\ n.pc = "backlog" /\ n.result = x.result
    BY ZenonT(30), <1>1 DEF Conn
  <2>4. Upd(c, n)
    BY Zenon, <2>1
  <2> HIDE DEF n
  <2>5. Quiet(n)
    BY Zenon, <2>2, <2>3, <2>4 DEF Early
  <2>6. n.pc \notin Held /\ x.pc \notin Held /\ n.pc # "refused" /\ x.pc # "refused"
    BY Zenon, <2>2, <2>3 DEF Held, Reading
  <2> QED
    BY Zenon, <1>3, <2>2, <2>5, <2>6
<1>5. CASE ClientSend(c)
  <2>1. PICK s \in {"part", "whole", "too long", "closed"} : Upd(c, [x EXCEPT !.sent = s])
    BY ZenonT(30), <1>5 DEF ClientSend
  <2>2. x.pc \in {"backlog", "first byte", "frame"} /\ UNCHANGED <<active, worm, forwarded, pcase>>
    BY ZenonT(30), <1>5 DEF ClientSend, Reading
  <2> DEFINE n == [x EXCEPT !.sent = s]
  <2>3. n \in Conn /\ n.answer = x.answer /\ n.pc = x.pc /\ n.result = x.result /\ n.env = x.env
    BY ZenonT(30), <1>1 DEF Conn
  <2>4. Upd(c, n)
    BY ZenonT(30), <2>1
  <2> HIDE DEF n
  <2>5. Quiet(n)
    BY ZenonT(30), <2>2, <2>3, <2>4
  <2> QED
    BY ZenonT(30), <1>3, <2>2, <2>3, <2>5
<1>6. CASE Accept(c)
  <2>1. x.pc = "backlog" /\ active' = active + 1 /\ UNCHANGED <<worm, forwarded, pcase>>
    BY ZenonT(30), <1>6 DEF Accept
  <2>2. x.pc \notin Held /\ x.pc \in Early /\ Refusals = {}
    BY ZenonT(30), <1>6, <2>1 DEF Held, Reading, Early, Refusals, Accept
  <2> DEFINE n == [x EXCEPT !.pc = "first byte"]
             m == Read(c, "refused")
  <2>3. CASE ~AtCap(active) /\ Upd(c, n)
    <3>1. n \in Conn /\ n.answer = x.answer /\ n.pc = "first byte" /\ n.result = x.result /\ n.env = x.env
      BY ZenonT(30), <1>1 DEF Conn
    <3> HIDE DEF n
    <3>2. Quiet(n)
      BY ZenonT(30), <2>2, <2>3, <3>1
    <3>3. n.pc \in Held
      BY ZenonT(30), <3>1 DEF Held, Reading
    <3>4. PlacesInv'
      BY Zenon, <2>1, <2>2, <2>3, <3>3, PlaceTaken DEF ProxyInv
    <3> QED
      BY Zenon, <1>2, <2>1, <3>2, <3>4
  <2>4. CASE Upd(c, m)
    <3>1. m \in Conn /\ m.answer = x.answer /\ m.pc = "refused" /\ m.result = x.result /\ m.env = x.env
      BY ZenonT(30), <1>1 DEF Conn, Read
    <3> HIDE DEF m
    <3>2. Quiet(m)
      BY Zenon, <2>4, <3>1 DEF Early
    <3>3. m.pc \in Held
      BY Zenon, <3>1 DEF Held
    <3>4. PlacesInv'
      BY Zenon, <2>1, <2>2, <2>4, <3>1, <3>3, PlaceTaken DEF ProxyInv
    <3> QED
      BY Zenon, <1>2, <2>1, <3>2, <3>4
  <2> QED
    BY ZenonT(30), <1>6, <2>3, <2>4 DEF Accept
<1>7. ASSUME NEW pc, pc \in {"check", "release"}, x.pc \in Reading, Upd(c, Read(c, pc)),
             UNCHANGED <<active, worm, forwarded, pcase>>
      PROVE  ProxyInv'
  <2> DEFINE n == Read(c, pc)
  <2>1. n \in Conn /\ n.answer = x.answer /\ n.pc = pc /\ n.result = x.result /\ n.env = x.env
    <3>1. CASE pc = "check"
      BY ZenonT(30), <1>1, <3>1 DEF Conn, Read
    <3>2. CASE pc = "release"
      BY ZenonT(30), <1>1, <3>2 DEF Conn, Read
    <3> QED
      BY Zenon, <1>7, <3>1, <3>2
  <2>2. Upd(c, n)
    BY Zenon, <1>7
  <2> HIDE DEF n
  <2>3. Quiet(n)
    BY ZenonT(30), <1>7, <2>1, <2>2 DEF Early, Reading
  <2>4. n.pc \in Held /\ x.pc \in Held /\ n.pc # "refused" /\ x.pc # "refused"
    BY ZenonT(30), <1>7, <2>1 DEF Held, Reading
  <2> QED
    BY Zenon, <1>3, <1>7, <2>3, <2>4
<1>8. CASE read_marshal_request(c)
  <2>1. x.pc \in Reading /\ UNCHANGED <<active, worm, forwarded, pcase>>
    BY Zenon, <1>8 DEF read_marshal_request
  <2> DEFINE n == [x EXCEPT !.read = "part", !.pc = "frame"]
  <2>2. \/ Upd(c, n)
        \/ Upd(c, Read(c, "check"))
        \/ Upd(c, Read(c, "release"))
    <3>1. x.sent = "part" => Upd(c, n)
      BY Zenon, <1>8 DEF read_marshal_request
    <3>2. x.sent = "whole" => Upd(c, Read(c, "check"))
      BY Zenon, <1>8 DEF read_marshal_request
    <3>3. x.sent \notin {"part", "whole"} => Upd(c, Read(c, "release"))
      BY ZenonT(30), <1>8 DEF read_marshal_request
    <3> QED
      BY Zenon, <3>1, <3>2, <3>3
  <2>3. CASE Upd(c, n)
    <3>1. n \in Conn /\ n.answer = x.answer /\ n.pc = "frame" /\ n.result = x.result /\ n.env = x.env
      BY ZenonT(30), <1>1 DEF Conn
    <3> HIDE DEF n
    <3>2. Quiet(n)
      BY ZenonT(30), <2>1, <2>3, <3>1 DEF Early, Reading
    <3>3. n.pc \in Held /\ x.pc \in Held /\ n.pc # "refused" /\ x.pc # "refused"
      BY ZenonT(30), <2>1, <3>1 DEF Held, Reading
    <3> QED
      BY Zenon, <1>3, <2>1, <3>2, <3>3
  <2> QED
    BY Zenon, <1>7, <2>1, <2>2, <2>3
<1>9. CASE Expire(c)
  BY Zenon, <1>7, <1>9 DEF Expire, Deadlines
<1>10. CASE Write(c)
  <2>1. x.pc = "write" /\ UNCHANGED <<active, worm, forwarded, pcase>>
    BY ZenonT(30), <1>10 DEF Write
  <2>2. PICK v \in {x.answer, x.result} : Upd(c, [x EXCEPT !.pc = "release", !.result = v])
    <3>1. PICK arrived \in BOOLEAN :
             Upd(c, [x EXCEPT !.pc = "release", !.result = IF arrived THEN x.answer ELSE x.result])
      BY Zenon, <1>10 DEF Write
    <3>2. (IF arrived THEN x.answer ELSE x.result) \in {x.answer, x.result}
      BY Zenon
    <3> QED
      BY Zenon, <3>1, <3>2
  <2>3. v \in Answers \cup {"none", "EOF"}
    BY ZenonT(30), <1>1, <2>2 DEF Conn
  <2> DEFINE n == [x EXCEPT !.pc = "release", !.result = v]
  <2>4. n \in Conn /\ n.answer = x.answer /\ n.pc = "release" /\ n.result = v /\ n.env = x.env
    BY ZenonT(30), <1>1, <2>3 DEF Conn
  <2>5. Upd(c, n)
    BY Zenon, <2>2
  <2> HIDE DEF n
  <2>6. Quiet(n)
    BY Zenon, <2>2, <2>4, <2>5 DEF Early
  <2>7. n.pc \in Held /\ x.pc \in Held /\ n.pc # "refused" /\ x.pc # "refused"
    BY Zenon, <2>1, <2>4 DEF Held
  <2> QED
    BY Zenon, <1>3, <2>1, <2>6, <2>7
<1>11. CASE Leave(c) \/ Refuse(c)
  <2>1. x.pc \in {"release", "refused"} /\ active' = active - 1 /\ UNCHANGED <<worm, forwarded, pcase>>
    BY Zenon, <1>11 DEF Leave, Refuse, Release
  <2> DEFINE n == [x EXCEPT !.pc = "drop"]
  <2>2. n \in Conn /\ n.answer = x.answer /\ n.pc = "drop" /\ n.result = x.result /\ n.env = x.env
    BY ZenonT(30), <1>1 DEF Conn
  <2>3. Upd(c, n)
    BY Zenon, <1>11 DEF Leave, Refuse
  <2> HIDE DEF n
  <2>4. Quiet(n)
    BY Zenon, <2>2, <2>3 DEF Early
  <2>5. n.pc \notin Held /\ x.pc \in Held
    BY Zenon, <2>1, <2>2 DEF Held, Reading
  <2>6. PlacesInv'
    BY Zenon, <2>1, <2>3, <2>5, PlaceGivenBack DEF ProxyInv
  <2> QED
    BY Zenon, <1>2, <2>1, <2>4, <2>6
<1>12. CASE Drop(c)
  <2>1. x.pc = "drop" /\ UNCHANGED <<active, worm, forwarded, pcase>>
    BY Zenon, <1>12 DEF Drop
  <2>2. PICK v \in {x.result, "EOF"} : Upd(c, [x EXCEPT !.pc = "closed", !.result = v])
    BY ZenonT(30), <1>12 DEF Drop
  <2>3. v \in Answers \cup {"none", "EOF"}
    BY ZenonT(30), <1>1, <2>2 DEF Conn
  <2> DEFINE n == [x EXCEPT !.pc = "closed", !.result = v]
  <2>4. n \in Conn /\ n.answer = x.answer /\ n.pc = "closed" /\ n.result = v /\ n.env = x.env
    BY ZenonT(30), <1>1, <2>3 DEF Conn
  <2>5. Upd(c, n)
    BY Zenon, <2>2
  <2> HIDE DEF n
  <2>6. Quiet(n)
    BY Zenon, <2>2, <2>4, <2>5 DEF Early
  <2>7. n.pc \notin Held /\ x.pc \notin Held /\ n.pc # "refused" /\ x.pc # "refused"
    BY Zenon, <2>1, <2>4 DEF Held, Reading
  <2> QED
    BY Zenon, <1>3, <2>1, <2>6, <2>7
<1> QED
  BY Zenon, <1>4, <1>5, <1>6, <1>8, <1>9, <1>10, <1>11, <1>12


(* Every step of the proxy keeps what its answers rest on.                 *)
LEMMA ProxyInvNext ==
    ASSUME ProxyInv, [ProxyNext]_proxyVars
    PROVE  ProxyInv'
<1>1. CASE ProxyNext
  <2>1. PICK c \in Conns : Dial(c) \/ ClientSend(c) \/ Accept(c) \/ Refuse(c) \/ Handler(c)
    BY Zenon, <1>1 DEF ProxyNext
  <2> QED
    BY Zenon, <2>1, PlainMovesKeep, BuildResponseKeeps, SubmitKeeps DEF Handler
<1>2. CASE UNCHANGED proxyVars
  <2>1. UNCHANGED <<conn, active, worm, forwarded, pcase>>
    BY Zenon, <1>2 DEF proxyVars
  <2>2. UNCHANGED <<Holders, Refusals>> /\ \A c : Mine(c)' = Mine(c)
    BY Zenon, <2>1 DEF Holders, Refusals, Mine
  <2>3. \A ids : Sponsors(ids)' = Sponsors(ids) /\ Approved(ids)' = Approved(ids)
    BY Zenon, <2>1, <2>2 DEF Sponsors, Approved
  <2>4. ProxyTyped' /\ VerdictsInv'
    BY Zenon, <2>1, <2>2 DEF ProxyInv, ProxyTyped, VerdictsInv
  <2> QED
    BY Zenon, <2>1, <2>2, <2>3, <2>4 DEF ProxyInv, PlacesInv, LedgerInv
<1> QED
  BY Zenon, <1>1, <1>2

(* Nobody has connected when the proxy starts.                             *)
LEMMA ProxyInvInit ==
    ASSUME ProxyInit
    PROVE  ProxyInv
<1>1. \A c \in Conns : /\ conn[c].env = Unparsable /\ conn[c].pc = "away"
                       /\ conn[c].answer = "none" /\ conn[c].result = "none"
  BY Zenon DEF ProxyInit
<1>2. ProxyTyped
  <2>1. conn \in [Conns -> Conn]
    BY Zenon DEF ProxyInit, Conn
  <2>2. worm \in Seq({})
    BY DEF ProxyInit
  <2> QED
    BY Zenon, <2>1, <2>2 DEF ProxyTyped, ProxyInit
<1>3. \A c : Mine(c) = {}
  BY Zenon DEF Mine, ProxyInit
<1>4. VerdictsInv
  <2>1. "none" \notin Answers
    BY Zenon DEF Answers
  <2> QED
    BY Zenon, <1>1, <1>3, <2>1 DEF VerdictsInv, Settled
<1>5. PlacesInv
  <2>1. Holders = {} /\ Refusals = {}
    BY ZenonT(30), <1>1 DEF Holders, Refusals, Held, Reading
  <2> QED
    BY SMTT(30), <2>1, FS_EmptySet, ProxyAssumption DEF PlacesInv, ProxyInit
<1>6. LedgerInv
  <2>1. \A ids : Sponsors(ids) = {}
    BY Zenon, <1>1, <1>3 DEF Sponsors
  <2> QED
    BY SMTT(30), <1>2, <2>1, ProxyCounts, FS_EmptySet DEF LedgerInv
<1> QED
  BY Zenon, <1>2, <1>4, <1>5, <1>6 DEF ProxyInv

(* The subject of a numbered action is given by some of the numbers.       *)
LEMMA SubjectNumbered == \A t : Identified(t) \subseteq Numbers
<1> SUFFICES ASSUME NEW t PROVE Identified(t) \subseteq Numbers
  BY Zenon
<1>1. \/ Identified(t) = {"account", "slot", "profile"} \/ Identified(t) = {"account"}
      \/ Identified(t) = {"slot", "profile"} \/ Identified(t) = {}
  <2>1. t = "mvno.bind_profile" => Identified(t) = {"account", "slot", "profile"}
    BY Zenon DEF Identified, is_data_action, is_esim_action
  <2>2. t \in {"data.reset_usage", "mvno.suspend_account", "mvno.reactivate_account"} => Identified(t) = {"account"}
    BY Zenon DEF Identified, is_data_action, is_esim_action
  <2>3. t \in {"esim.enable", "esim.delete"} => Identified(t) = {"slot", "profile"}
    BY Zenon DEF Identified, is_data_action, is_esim_action
  <2>4. t \notin {"mvno.bind_profile", "data.reset_usage", "mvno.suspend_account", "mvno.reactivate_account",
                  "esim.enable", "esim.delete"} => Identified(t) = {}
    BY Zenon DEF Identified, is_data_action, is_esim_action
  <2> QED
    BY Zenon, <2>1, <2>2, <2>3, <2>4
<1> QED
  BY Zenon, <1>1 DEF Numbers

(* What a request that passed policy::check says of its subject: the       *)
(* numbers of a numbered action, the names of any other.                   *)
LEMMA SubjectPresent ==
    ASSUME NEW e, check(e)
    PROVE  {n \in Numbers : e[n] # NoField} \cup {n \in Names : e[n] # ""}
             = IF Identified(e.type) = {} THEN Names ELSE Identified(e.type)
<1>1. \A f \in Numbers : (e[f] # NoField) <=> f \in Identified(e.type)
  BY Zenon DEF check
<1>2. IF Identified(e.type) = {} THEN e.module_id = "ok" /\ e.instance_id = "ok"
      ELSE e.module_id = "" /\ e.instance_id = ""
  BY Zenon DEF check, Named
<1>3. Identified(e.type) \subseteq Numbers
  BY Zenon, SubjectNumbered
<1>4. {n \in Numbers : e[n] # NoField} = Identified(e.type)
  BY Zenon, <1>1, <1>3
<1>5. CASE Identified(e.type) = {}
  <2>1. "ok" # ""
    BY Zenon
  <2>2. {n \in Names : e[n] # ""} = Names
    BY Zenon, <1>2, <1>5, <2>1 DEF Names
  <2> QED
    BY Zenon, <1>4, <1>5, <2>2
<1>6. CASE Identified(e.type) # {}
  <2>1. {n \in Names : e[n] # ""} = {}
    BY Zenon, <1>2, <1>6 DEF Names
  <2> QED
    BY Zenon, <1>4, <1>6, <2>1
<1> QED
  BY ZenonT(30), <1>5, <1>6


(* What the invariant says of a request that CITADEL was sent.             *)
LEMMA ForwardedSettled ==
    ASSUME ProxyInv, NEW f \in forwarded
    PROVE  /\ f.conn \in Conns /\ f \in Mine(f.conn)
           /\ conn[f.conn].env # Unparsable /\ check(conn[f.conn].env)
           /\ f.envelope = build_enriched_envelope(conn[f.conn].env)
           /\ \A g \in forwarded : g.conn = f.conn => g = f
<1> DEFINE c == f.conn
<1>1. c \in Conns /\ f \in Mine(c) /\ Settled(conn[c], c, Mine(c))
  BY Zenon DEF ProxyInv, ProxyTyped, Mine, VerdictsInv
<1>2. Told(conn[c], c, Mine(c)) /\ Mine(c) # {}
  BY Zenon, <1>1 DEF Settled
<1>3. /\ conn[c].env # Unparsable /\ check(conn[c].env)
      /\ \E r \in HttpReplies :
            Mine(c) = {[conn |-> c, reply |-> r, envelope |-> build_enriched_envelope(conn[c].env)]}
  BY Zenon, <1>2 DEF Told
<1>4. PICK r \in HttpReplies :
         Mine(c) = {[conn |-> c, reply |-> r, envelope |-> build_enriched_envelope(conn[c].env)]}
  BY Zenon, <1>3
<1>5. f = [conn |-> c, reply |-> r, envelope |-> build_enriched_envelope(conn[c].env)]
  BY Zenon, <1>1, <1>4
<1>6. f.envelope = build_enriched_envelope(conn[c].env)
  <2> DEFINE b == build_enriched_envelope(conn[c].env)
             d == c
  <2> HIDE DEF b, d
  <2>1. f = [conn |-> d, reply |-> r, envelope |-> b]
    BY Zenon, <1>5 DEF b, d
  <2>2. f.envelope = b
    BY ONLY Zenon, <2>1
  <2> QED
    BY Zenon, <2>2 DEF b
<1>7. \A g \in forwarded : g.conn = c => g \in Mine(c)
  BY Zenon DEF Mine
<1> QED
  BY ZenonT(30), <1>1, <1>3, <1>4, <1>6, <1>7

(* Each forwarded envelope has its entry in the log.                       *)
LEMMA ForwardedAreRecorded ==
    ASSUME ProxyInv
    PROVE  ForwardedIsRecorded
<1> SUFFICES ASSUME NEW f \in forwarded
             PROVE  /\ check(conn[f.conn].env)
                    /\ Cardinality({g \in forwarded : audit_ids(conn[g.conn].env) = audit_ids(conn[f.conn].env)})
                         <= Quantify(DOMAIN worm, LAMBDA i : worm[i] = <<audit_ids(conn[f.conn].env), TRUE>>)
  BY Zenon DEF ForwardedIsRecorded
<1> DEFINE ids == audit_ids(conn[f.conn].env)
           G == {g \in forwarded : audit_ids(conn[g.conn].env) = ids}
           to == [g \in G |-> g.conn]
<1>1. \A g \in forwarded : /\ g.conn \in Conns /\ Mine(g.conn) # {} /\ check(conn[g.conn].env)
                           /\ \A h \in forwarded : h.conn = g.conn => h = g
  BY Zenon, ForwardedSettled
<1>2. Quantify(DOMAIN worm, LAMBDA i : worm[i] = <<ids, TRUE>>) = Cardinality(Approved(ids))
  BY Zenon DEF Quantify, Approved
<1>3. IsFiniteSet(Sponsors(ids)) /\ Cardinality(Sponsors(ids)) \in Nat /\ Cardinality(Approved(ids)) \in Nat
  BY Zenon, ProxyCounts DEF ProxyInv
<1> HIDE DEF ids
<1>4. \A g \in G : g \in forwarded /\ g.conn \in Sponsors(ids)
  BY Zenon, <1>1 DEF Sponsors
<1>5. to \in Injection(G, Sponsors(ids))
  <2> HIDE DEF G
  <2>1. to \in [G -> Sponsors(ids)] /\ \A g \in G : to[g] = g.conn
    BY Zenon, <1>4
  <2> HIDE DEF to
  <2>2. \A g, h \in G : to[g] = to[h] => g = h
    BY Zenon, <1>1, <1>4, <2>1
  <2> QED
    BY Zenon, <2>1, <2>2 DEF Injection, IsInjective
<1>6. IsFiniteSet(G) /\ Cardinality(G) <= Cardinality(Sponsors(ids))
  <2> HIDE DEF G, to
  <2> QED
    BY ZenonT(30), <1>3, <1>5, FS_Injection
<1>7. Cardinality(G) \in Nat
  BY Zenon, <1>6, FS_CardinalityType
<1>8. Cardinality(G) <= Cardinality(Approved(ids))
  <2> HIDE DEF G
  <2> QED
    BY <1>3, <1>6, <1>7 DEF ProxyInv, LedgerInv
<1> QED
  BY Zenon, <1>1, <1>2, <1>8 DEF ids

(* The evidence CITADEL is sent names the request's subject and no other.  *)
LEMMA EvidenceExact ==
    ASSUME NEW e, check(e)
    PROVE  {p \in EvidenceExtra(e) : p[1] # "kernel_execution_id"}
             = {<<n, e[n]>> : n \in {m \in Numbers : e[m] # NoField} \cup {m \in Names : e[m] # ""}}
<1> DEFINE here == IF Identified(e.type) = {} THEN Names ELSE Identified(e.type)
           body == {<<n, e[n]>> : n \in here}
           more == IF e.execution_id = "" THEN {} ELSE {<<"kernel_execution_id", e.execution_id>>}
<1>1. {m \in Numbers : e[m] # NoField} \cup {m \in Names : e[m] # ""} = here
  BY Zenon, SubjectPresent
<1>2. \A n \in here : n # "kernel_execution_id"
  <2>1. here \subseteq Names \cup Numbers
    <3>1. {m \in Numbers : e[m] # NoField} \subseteq Numbers /\ {m \in Names : e[m] # ""} \subseteq Names
      BY Zenon
    <3> HIDE DEF here
    <3> QED
      BY Zenon, <1>1, <3>1
  <2> HIDE DEF here
  <2> QED
    BY Zenon, <2>1 DEF Names, Numbers
<1>3. EvidenceExtra(e) = body \cup more
  <2>1. CASE Identified(e.type) = {}
    BY Zenon, <2>1 DEF EvidenceExtra
  <2>2. CASE Identified(e.type) # {}
    <3>1. \A f \in Identified(e.type) : e[f] # NoField
      <4>1. \A f \in Identified(e.type) : f \in {m \in Numbers : e[m] # NoField} \/ f \in Names
        BY Zenon, <1>1, <2>2
      <4>2. Identified(e.type) \cap Names = {}
        BY Zenon, SubjectNumbered DEF Names, Numbers
      <4> QED
        BY Zenon, <4>1, <4>2
    <3>2. {<<f, unwrap_or_default(e[f])>> : f \in Identified(e.type)} = {<<f, e[f]>> : f \in Identified(e.type)}
      BY Zenon, <3>1 DEF unwrap_or_default
    <3> QED
      BY Zenon, <2>2, <3>2 DEF EvidenceExtra
  <2> QED
    BY ZenonT(30), <2>1, <2>2
<1>4. more = {} \/ more = {<<"kernel_execution_id", e.execution_id>>}
  BY Zenon
<1>5. \A p \in more : p[1] = "kernel_execution_id"
  <2> HIDE DEF more
  <2> QED
    BY <1>4
<1> HIDE DEF here, more
<1>6. \A p \in body : p[1] # "kernel_execution_id"
  BY <1>2
<1> HIDE DEF body
<1>7. {p \in EvidenceExtra(e) : p[1] # "kernel_execution_id"} = body
  BY Zenon, <1>3, <1>5, <1>6
<1> QED
  BY Zenon, <1>1, <1>7 DEF body

(* The threads are the places counted but for the connection refused.      *)
LEMMA PlacesAreCounted ==
    ASSUME ProxyInv
    PROVE  PlacesCounted
<1> DEFINE served == {c \in Conns : conn[c].pc \in Serving}
<1>1. Holders = {c \in Conns : conn[c].pc \in Serving \cup {"refused"}}
  BY Zenon DEF Holders, Held, Serving
<1>2. served = Holders \ Refusals
  <2>1. "refused" \notin Serving
    BY Zenon DEF Serving, Reading
  <2> QED
    BY Zenon, <1>1, <2>1 DEF Refusals
<1>3. Cardinality(served) <= MAX_CONNECTIONS
  <2>1. CASE Refusals = {}
    <3>1. served = Holders
      BY Zenon, <1>2, <2>1
    <3> QED
      BY Zenon, <2>1, <3>1 DEF ProxyInv, PlacesInv
  <2>2. CASE Refusals # {}
    <3>1. PICK c \in Refusals : Refusals = {c}
      BY ZenonT(30), <2>2 DEF ProxyInv, PlacesInv
    <3>2. c \in Holders /\ served = Holders \ {c}
      BY Zenon, <1>2, <3>1 DEF Holders, Refusals, Held
    <3>3. IsFiniteSet(Holders) /\ Cardinality(Holders) \in Nat
      BY Zenon, ProxyCounts DEF ProxyInv
    <3>4. Cardinality(served) = Cardinality(Holders) - 1
      BY Zenon, <3>2, <3>3, FS_RemoveElement
    <3> HIDE DEF served
    <3> QED
      BY <3>3, <3>4, ProxyAssumption DEF ProxyInv, PlacesInv
  <2> QED
    BY Zenon, <2>1, <2>2
<1> QED
  BY Zenon, <1>1, <1>3 DEF ProxyInv, PlacesInv, PlacesCounted

(* Between the kernel and CITADEL, whatever the number of connections and  *)
(* the cap, and whatever they carry and CITADEL replies: places are        *)
(* counted (serve_listener), nothing is forwarded unrecorded or altered    *)
(* (build_response, build_enriched_envelope), and each connection is told  *)
(* its own verdict (submit_and_translate).                                 *)
THEOREM ProxyStaysSound == ProxySpec => []ProxySound
<1>1. ProxyInit => ProxyInv
  BY Zenon, ProxyInvInit
<1>2. ProxyInv /\ [ProxyNext]_proxyVars => ProxyInv'
  BY Zenon, ProxyInvNext
<1>3. ProxyInv => ProxySound
  <2> SUFFICES ASSUME ProxyInv PROVE ProxySound
    BY Zenon
  <2>1. ProxyTypeOK
    <3>1. active \in 0 .. Cardinality(Conns)
      BY SMTT(30), ProxyCounts DEF ProxyInv, PlacesInv
    <3>2. ASSUME NEW c \in Conns
          PROVE  /\ conn[c].answer \in Answers \cup {"none"}
                 /\ conn[c].result \in Answers \cup {"none", "EOF"}
                 /\ conn[c].result \in Answers => conn[c].result = conn[c].answer
      BY ZenonT(30) DEF ProxyInv, ProxyTyped, Conn, VerdictsInv, Settled
    <3> QED
      BY Zenon, <3>1, <3>2 DEF ProxyTypeOK
  <2>2. PlacesCounted
    BY Zenon, PlacesAreCounted
  <2>3. ForwardedIsRecorded
    BY Zenon, ForwardedAreRecorded
  <2>4. EvidenceIsTheRequests
    <3>1. ASSUME NEW f \in forwarded, NEW e, e = conn[f.conn].env
          PROVE  {p \in f.envelope.extra : p[1] # "kernel_execution_id"}
                   = {<<n, e[n]>> : n \in {m \in Numbers : e[m] # NoField} \cup {m \in Names : e[m] # ""}}
      <4>1. check(e) /\ f.envelope = build_enriched_envelope(e)
        BY Zenon, <3>1, ForwardedSettled
      <4>2. f.envelope.extra = EvidenceExtra(e)
        <5> DEFINE v == EvidenceExtra(e)
        <5> HIDE DEF v
        <5>1. f.envelope = [type |-> e.type, extra |-> v, operator |-> e.user_id,
                            verifier |-> "citadel_proxy:verifier"]
          BY ZenonT(30), <4>1 DEF build_enriched_envelope, v
        <5>2. f.envelope.extra = v
          BY ONLY <5>1
        <5> QED
          BY Zenon, <5>2 DEF v
      <4> QED
        BY Zenon, <4>1, <4>2, EvidenceExact
    <3> QED
      BY Zenon, <3>1 DEF EvidenceIsTheRequests
  <2>5. VerdictCarried
    <3> SUFFICES ASSUME NEW c \in Conns, conn[c].result \notin {"none", "EOF"}
                 PROVE  /\ conn[c].result = "Execute"
                             <=> \E f \in Mine(c) : f.reply = [status |-> "200", body |-> "Execute"]
                        /\ \A f \in Mine(c) :
                              f.reply.status \in {"200", "403"} /\ f.reply.body \in {"Refuse", "HardStop"} =>
                                  conn[c].result = f.reply.body
                        /\ conn[c].env # Unparsable /\ Mine(c) = {} =>
                               conn[c].result = IF check(conn[c].env) THEN "Unreachable" ELSE "PolicyRefused"
      BY Zenon DEF VerdictCarried, Mine
    <3> DEFINE x == conn[c]
    <3>1. x \in Conn /\ Settled(x, c, Mine(c))
      BY Zenon DEF ProxyInv, ProxyTyped, VerdictsInv
    <3>2. x.result \in Answers
      BY ZenonT(30), <3>1 DEF Conn
    <3>3. x.result = x.answer /\ x.answer # "none" /\ Told(x, c, Mine(c))
      BY Zenon, <3>1, <3>2 DEF Settled, Answers
    <3>4. CASE x.env = Unparsable /\ x.answer = "BadResponse" /\ Mine(c) = {}
      BY Zenon, <3>3, <3>4
    <3>5. CASE x.env # Unparsable /\ ~check(x.env) /\ x.answer = "PolicyRefused" /\ Mine(c) = {}
      BY Zenon, <3>3, <3>5
    <3>6. CASE /\ x.env # Unparsable /\ check(x.env)
               /\ \E r \in HttpReplies :
                     /\ x.answer = submit_and_translate(r)
                     /\ Mine(c) = IF r.status = "not configured" THEN {}
                                  ELSE {[conn |-> c, reply |-> r, envelope |-> build_enriched_envelope(x.env)]}
      <4>1. PICK r \in HttpReplies :
               /\ x.answer = submit_and_translate(r)
               /\ Mine(c) = IF r.status = "not configured" THEN {}
                            ELSE {[conn |-> c, reply |-> r, envelope |-> build_enriched_envelope(x.env)]}
        BY Zenon, <3>6
      <4>2. /\ x.result = "Execute" <=> r = [status |-> "200", body |-> "Execute"]
            /\ r.status \in {"200", "403"} /\ r.body \in {"Refuse", "HardStop"} => x.result = r.body
            /\ r.status = "not configured" => x.result = "Unreachable"
        BY ZenonT(30), <3>3, <4>1, RepliesTranslated
      <4>3. CASE r.status = "not configured"
        BY ZenonT(30), <3>6, <4>1, <4>2, <4>3
      <4>4. CASE r.status # "not configured"
        <5>1. PICK f : Mine(c) = {f} /\ f.reply = r
          <6> DEFINE b == build_enriched_envelope(x.env)
          <6> HIDE DEF b
          <6>1. Mine(c) = {[conn |-> c, reply |-> r, envelope |-> b]}
            BY ZenonT(30), <4>1, <4>4 DEF b
          <6>2. [conn |-> c, reply |-> r, envelope |-> b].reply = r
            BY Zenon
          <6> QED
            BY Zenon, <6>1, <6>2
        <5> HIDE DEF x
        <5> QED
          BY Zenon, <4>2, <5>1 DEF x
      <4> QED
        BY ZenonT(30), <4>3, <4>4
    <3> QED
      BY Zenon, <3>3, <3>4, <3>5, <3>6 DEF Told
  <2> QED
    BY Zenon, <2>1, <2>2, <2>3, <2>4, <2>5 DEF ProxySound
<1> QED
  BY <1>1, <1>2, <1>3, PTL DEF ProxySpec

-----------------------------------------------------------------------------
(* Network selection (Selection).                                          *)

Candidate == [network : Nat \X Nat, signal : Int, is_home : BOOLEAN]

(* rank's comparison, field by field.                                      *)
Outranks(p, c, d) ==
    LET P == Bit(is_pref(p, c))
        Q == Bit(is_pref(p, d))
        H == Bit(c.is_home)
        G == Bit(d.is_home)
    IN  \/ P > Q
        \/ P = Q /\ H > G
        \/ P = Q /\ H = G /\ c.signal > d.signal
        \/ P = Q /\ H = G /\ c.signal = d.signal /\ -c.network[1] > -d.network[1]
        \/ P = Q /\ H = G /\ c.signal = d.signal /\ -c.network[1] = -d.network[1]
              /\ -c.network[2] > -d.network[2]

(* The comparison of two rank tuples is the lexicographic order of their   *)
(* parts.                                                                  *)
LEMMA GreaterIs ==
    ASSUME NEW p, NEW c \in Candidate, NEW d \in Candidate
    PROVE  Greater(rank(p, c), rank(p, d)) <=> Outranks(p, c, d)
<1> DEFINE r == rank(p, c)
           s == rank(p, d)
<1>1. /\ r[1] = Bit(is_pref(p, c)) /\ r[2] = Bit(c.is_home) /\ r[3] = c.signal
      /\ r[4] = -c.network[1] /\ r[5] = -c.network[2]
      /\ s[1] = Bit(is_pref(p, d)) /\ s[2] = Bit(d.is_home) /\ s[3] = d.signal
      /\ s[4] = -d.network[1] /\ s[5] = -d.network[2]
    BY Zenon DEF rank
<1> HIDE DEF r, s
<1>2. Greater(r, s) <=> \/ r[1] > s[1]
                        \/ r[1] = s[1] /\ r[2] > s[2]
                        \/ r[1] = s[1] /\ r[2] = s[2] /\ r[3] > s[3]
                        \/ r[1] = s[1] /\ r[2] = s[2] /\ r[3] = s[3] /\ r[4] > s[4]
                        \/ r[1] = s[1] /\ r[2] = s[2] /\ r[3] = s[3] /\ r[4] = s[4] /\ r[5] > s[5]
    <2> DEFINE G(i) == r[i] > s[i] /\ \A j \in 1 .. i - 1 : r[j] = s[j]
    <2>1. Greater(r, s) <=> G(1) \/ G(2) \/ G(3) \/ G(4) \/ G(5)
        <3>1. 1 .. 5 = {1, 2, 3, 4, 5}
            OBVIOUS
        <3> QED
            BY Zenon, <3>1 DEF Greater
    <2>2. /\ 1 .. 1 - 1 = {} /\ 1 .. 2 - 1 = {1} /\ 1 .. 3 - 1 = {1, 2} /\ 1 .. 4 - 1 = {1, 2, 3}
          /\ 1 .. 5 - 1 = {1, 2, 3, 4}
        BY SMTT(30)
    <2> QED
        BY Zenon, <2>1, <2>2
<1> QED
    BY ZenonT(30), <1>1, <1>2 DEF Outranks, r, s

(* The order of the ranks is strict.                                       *)
LEMMA OutranksOrder ==
    ASSUME NEW p, NEW c \in Candidate, NEW d \in Candidate, NEW e \in Candidate
    PROVE  /\ ~Outranks(p, c, c)
           /\ Outranks(p, c, d) /\ Outranks(p, d, e) => Outranks(p, c, e)
BY DEF Outranks, Candidate, Bit

(* The loop's locals, after the candidates seen.                           *)
LoopInv ==
    /\ plan \in SelectionPlans /\ seen \in Seq(Candidates)
    /\ any_allowed = (Visible # {})
    /\ best \subseteq Usable
    /\ Usable # {} => \E b \in best : best = {b}
    /\ \A b \in best, d \in Usable : ~Greater(rank(plan, d), rank(plan, b))

(* One more candidate seen adds at most itself to those visible and        *)
(* usable.                                                                 *)
LEMMA SeenGrows ==
    ASSUME NEW c \in Candidates, seen \in Seq(Candidates), seen' = Append(seen, c), plan' = plan
    PROVE  /\ seen' \in Seq(Candidates)
           /\ Visible' = Visible \cup (IF c.network \in Range(plan.allowed) THEN {c} ELSE {})
           /\ Usable' = Usable \cup
                 (IF c.network \in Range(plan.allowed) /\ Eligible(plan, c) THEN {c} ELSE {})
<1>1. seen' \in Seq(Candidates)
    OBVIOUS
<1>2. Range(seen') = Range(seen) \cup {c}
    BY DEF Range
<1>3. Visible' = Visible \cup (IF c.network \in Range(plan.allowed) THEN {c} ELSE {})
    BY Zenon, <1>2 DEF Visible
<1>4. Usable' = Usable \cup (IF c.network \in Range(plan.allowed) /\ Eligible(plan, c) THEN {c} ELSE {})
    BY Zenon, <1>3 DEF Usable, Eligible
<1> QED
    BY Zenon, <1>1, <1>3, <1>4

(* What the loop has seen are candidates.                                  *)
LEMMA SeenAreCandidates ==
    ASSUME seen \in Seq(Candidates)
    PROVE  Usable \subseteq Candidate /\ Visible \subseteq Candidate /\ Candidates \subseteq Candidate
BY SelectionAssumption DEF Usable, Visible, Range, Candidate

(* One turn of the loop of select_network.                                 *)
LEMMA LoopTurns ==
    ASSUME LoopInv, Scan
    PROVE  LoopInv'
<1>1. PICK c \in Candidates :
          /\ seen' = Append(seen, c)
          /\ IF c.network \in Range(plan.allowed)
             THEN /\ any_allowed' = TRUE
                  /\ best' = IF Eligible(plan, c) /\ \A b \in best : Greater(rank(plan, c), rank(plan, b))
                             THEN {c} ELSE best
             ELSE UNCHANGED <<any_allowed, best>>
    BY Zenon DEF Scan
<1>2. plan' = plan /\ plan \in SelectionPlans /\ seen \in Seq(Candidates)
    BY Zenon DEF Scan, LoopInv
<1>3. /\ seen' \in Seq(Candidates)
      /\ Visible' = Visible \cup (IF c.network \in Range(plan.allowed) THEN {c} ELSE {})
      /\ Usable' = Usable \cup
                 (IF c.network \in Range(plan.allowed) /\ Eligible(plan, c) THEN {c} ELSE {})
    BY Zenon, <1>1, <1>2, SeenGrows
<1>4. Usable \subseteq Candidate /\ c \in Candidate
    BY Zenon, <1>2, SeenAreCandidates
<1>5. /\ any_allowed = (Visible # {})
      /\ best \subseteq Usable
      /\ Usable # {} => \E b \in best : best = {b}
      /\ \A b \in best, d \in Usable : ~Greater(rank(plan, d), rank(plan, b))
    BY Zenon DEF LoopInv
<1>6. CASE c.network \notin Range(plan.allowed)
    <2>1. Visible' = Visible /\ Usable' = Usable /\ any_allowed' = any_allowed /\ best' = best
        BY Zenon, <1>1, <1>3, <1>6
    <2> QED
        BY ZenonT(30), <1>2, <1>3, <1>5, <2>1 DEF LoopInv
<1>7. CASE c.network \in Range(plan.allowed) /\ ~Eligible(plan, c)
    <2>1. Visible' = Visible \cup {c} /\ Usable' = Usable /\ any_allowed' = TRUE /\ best' = best
        BY Zenon, <1>1, <1>3, <1>7
    <2>2. any_allowed' = (Visible' # {})
        BY Zenon, <2>1
    <2>3. /\ best' \subseteq Usable' /\ (Usable' # {} => \E b \in best' : best' = {b})
          /\ \A b \in best', d \in Usable' : ~Greater(rank(plan', d), rank(plan', b))
        BY Zenon, <1>2, <1>5, <2>1
    <2> QED
        BY ZenonT(30), <1>2, <1>3, <2>2, <2>3 DEF LoopInv
<1>8. CASE c.network \in Range(plan.allowed) /\ Eligible(plan, c)
    <2>1. Visible' = Visible \cup {c} /\ Usable' = Usable \cup {c} /\ any_allowed' = TRUE
        BY Zenon, <1>1, <1>3, <1>8
    <2>2. \A x, y \in Usable \cup {c} : Greater(rank(plan, x), rank(plan, y)) <=> Outranks(plan, x, y)
        BY Zenon, <1>4, GreaterIs
    <2>3. \A x, y, z \in Usable \cup {c} :
             /\ ~Outranks(plan, x, x)
             /\ Outranks(plan, x, y) /\ Outranks(plan, y, z) => Outranks(plan, x, z)
        <3> SUFFICES ASSUME NEW x \in Usable \cup {c}, NEW y \in Usable \cup {c}, NEW z \in Usable \cup {c}
                     PROVE  /\ ~Outranks(plan, x, x)
                            /\ Outranks(plan, x, y) /\ Outranks(plan, y, z) => Outranks(plan, x, z)
            BY Zenon
        <3>1. x \in Candidate /\ y \in Candidate /\ z \in Candidate
            BY Zenon, <1>4
        <3> QED
            BY ZenonT(30), <3>1, OutranksOrder
    <2>4. CASE \A b \in best : Greater(rank(plan, c), rank(plan, b))
        <3>1. best' = {c}
            BY Zenon, <1>1, <1>8, <2>4
        <3>2. ASSUME NEW d \in Usable, Greater(rank(plan, d), rank(plan, c))
              PROVE  FALSE
            <4>1. PICK b \in best : TRUE
                BY Zenon, <1>5
            <4>2. Outranks(plan, d, c) /\ Outranks(plan, c, b) /\ b \in Usable
                BY Zenon, <1>5, <2>2, <2>4, <3>2
            <4>3. Outranks(plan, d, b)
                BY Zenon, <2>3, <4>2
            <4> QED
                BY Zenon, <1>5, <2>2, <4>2, <4>3
        <3>3. \A b \in best', d \in Usable' : ~Greater(rank(plan', d), rank(plan', b))
            BY ZenonT(30), <1>2, <2>1, <2>2, <2>3, <3>1, <3>2
        <3> QED
            BY ZenonT(30), <1>2, <1>3, <2>1, <3>1, <3>3 DEF LoopInv
    <2>5. CASE ~\A b \in best : Greater(rank(plan, c), rank(plan, b))
        <3>1. best' = best
            BY Zenon, <1>1, <1>8, <2>5
        <3>2. PICK b \in best : best = {b} /\ ~Greater(rank(plan, c), rank(plan, b))
            BY Zenon, <1>5, <2>5
        <3>3. \A b2 \in best', d \in Usable' : ~Greater(rank(plan', d), rank(plan', b2))
            BY ZenonT(30), <1>2, <1>5, <2>1, <3>1, <3>2
        <3> QED
            BY ZenonT(30), <1>2, <1>3, <1>5, <2>1, <3>1, <3>2, <3>3 DEF LoopInv
    <2> QED
        BY ZenonT(30), <2>4, <2>5
<1> QED
    BY Zenon, <1>6, <1>7, <1>8

(* The loop starts with nothing seen.                                      *)
LEMMA LoopStarts ==
    ASSUME SelectionInit
    PROVE  LoopInv
<1>1. Range(seen) = {} /\ seen \in Seq(Candidates)
    BY DEF SelectionInit, Range
<1>2. Visible = {} /\ Usable = {}
    BY Zenon, <1>1 DEF Visible, Usable
<1> QED
    BY ZenonT(30), <1>1, <1>2 DEF LoopInv, SelectionInit

(* The candidate nothing outranks is the one the four rules leave, and the *)
(* only one.                                                               *)
LEMMA RulesLeaveTheBest ==
    ASSUME LoopInv, NEW b \in Usable, \A d \in Usable : ~Greater(rank(plan, d), rank(plan, b))
    PROVE  /\ Lowest = {b.network}
           /\ Preferred # {} <=> b.network = plan.preferred
           /\ Home # {} /\ Preferred = {} => b.is_home
           /\ b.is_home => Home # {}
<1>1. Usable \subseteq Candidate
    BY Zenon, SeenAreCandidates DEF LoopInv
<1>2. \A d \in Usable : ~Outranks(plan, d, b)
    BY Zenon, <1>1, GreaterIs
<1>3. ASSUME NEW d \in Usable
      PROVE  /\ d.network = plan.preferred => b.network = plan.preferred
             /\ (d.network = plan.preferred) = (b.network = plan.preferred) /\ d.is_home => b.is_home
             /\ /\ (d.network = plan.preferred) = (b.network = plan.preferred)
                /\ d.is_home = b.is_home
                => /\ d.signal <= b.signal
                   /\ d.signal = b.signal => ~Below(d.network, b.network)
    <2>1. d \in Candidate /\ b \in Candidate /\ ~Outranks(plan, d, b)
        BY Zenon, <1>1, <1>2
    <2>2. /\ d.signal \in Int /\ b.signal \in Int /\ d.is_home \in BOOLEAN /\ b.is_home \in BOOLEAN
          /\ d.network[1] \in Nat /\ d.network[2] \in Nat /\ b.network[1] \in Nat /\ b.network[2] \in Nat
        BY Zenon, <2>1 DEF Candidate
    <2> QED
        BY <2>1, <2>2 DEF Outranks, Bit, is_pref, Below
<1>4. Preferred # {} <=> b.network = plan.preferred
    BY Zenon, <1>3 DEF Preferred
<1> DEFINE S == Narrowed(Usable, Preferred)
<1>5. S = {d \in Usable : (d.network = plan.preferred) = (b.network = plan.preferred)}
    BY Zenon, <1>3, <1>4 DEF Narrowed, Preferred
<1>6. b \in S /\ S \subseteq Usable
    BY Zenon, <1>5
<1> HIDE DEF S
<1>7. First = Narrowed(S, Home)
    BY Zenon DEF First, S
<1>8. First = {d \in S : d.is_home = b.is_home}
    <2>1. S \cap Home = {d \in S : d.is_home}
        BY Zenon, <1>6 DEF Home
    <2>2. \A d \in S : d.is_home \in BOOLEAN /\ b.is_home \in BOOLEAN /\ (d.is_home => b.is_home)
        BY Zenon, <1>1, <1>3, <1>5, <1>6 DEF Candidate
    <2>3. CASE b.is_home
        <3>1. S \cap Home # {}
            BY Zenon, <1>6, <2>1, <2>3
        <3> QED
            BY ZenonT(30), <1>7, <2>1, <2>2, <2>3, <3>1 DEF Narrowed
    <2>4. CASE ~b.is_home
        <3>1. S \cap Home = {}
            BY Zenon, <2>1, <2>2, <2>4
        <3> QED
            BY Zenon, <1>7, <2>1, <2>2, <2>4, <3>1 DEF Narrowed
    <2> QED
        BY Zenon, <2>3, <2>4
<1>9. b \in First /\ \A d \in First : d \in Usable /\ d.signal <= b.signal
    BY Zenon, <1>3, <1>5, <1>6, <1>8
<1>10. b \in Strongest /\ \A d \in Strongest : d \in First /\ d.signal = b.signal
    BY SMTT(30), <1>1, <1>9 DEF Strongest, Candidate
<1>11. \A d \in Strongest : ~Below(d.network, b.network)
    BY Zenon, <1>3, <1>5, <1>8, <1>9, <1>10
<1>12. ASSUME NEW d \in Strongest, ~Below(b.network, d.network)
       PROVE  d.network = b.network
    <2>1. d \in Candidate /\ b \in Candidate /\ ~Below(d.network, b.network)
        BY ZenonT(30), <1>1, <1>9, <1>10, <1>11
    <2> QED
        BY <1>12, <2>1 DEF Below, Candidate
<1>13. Lowest = {b.network}
    BY Zenon, <1>10, <1>11, <1>12 DEF Lowest
<1>14. Home # {} /\ Preferred = {} => b.is_home
    BY Zenon, <1>3, <1>4 DEF Home, Preferred
<1>15. b.is_home => Home # {}
    BY Zenon DEF Home
<1> QED
    BY Zenon, <1>4, <1>13, <1>14, <1>15

(* What the loop knows after the last candidate is the answer.             *)
LEMMA LoopFindsTheBest ==
    ASSUME LoopInv
    PROVE  SelectionIsBest
<1>1. /\ plan \in SelectionPlans /\ seen \in Seq(Candidates)
      /\ any_allowed = (Visible # {})
      /\ best \subseteq Usable
      /\ Usable # {} => \E b \in best : best = {b}
      /\ \A b \in best, d \in Usable : ~Greater(rank(plan, d), rank(plan, b))
    BY Zenon DEF LoopInv
<1>2. /\ plan.standing \in {"Active", "Suspended", "Closed"} /\ plan.roaming_allowed \in BOOLEAN
      /\ Len(plan.allowed) \in Nat /\ Len(seen) \in Nat /\ MAX_CANDIDATES \in Nat /\ MAX_ALLOWED_NETWORKS \in Nat
    BY SMTT(30), <1>1, SelectionAssumption
<1>3. Visible # {} => seen # <<>> /\ plan.allowed # <<>>
    BY DEF Visible, Range
<1>4. Usable \subseteq Visible /\ (Usable = {} => \A c \in Visible : ~plan.roaming_allowed)
    BY Zenon DEF Usable, Eligible
<1> DEFINE Ready == /\ plan.standing = "Active"
                    /\ Len(seen) <= MAX_CANDIDATES /\ Len(plan.allowed) <= MAX_ALLOWED_NETWORKS
<1>5. CASE Ready /\ Usable # {}
    <2>1. PICK b \in best : best = {b}
        BY Zenon, <1>1, <1>5
    <2> DEFINE chosen == CHOOSE x \in best : TRUE
    <2>2. chosen = b /\ best # {}
        BY Zenon, <2>1
    <2>a. /\ plan.standing # "Suspended" /\ plan.standing # "Closed" /\ ~(Len(seen) > MAX_CANDIDATES)
          /\ ~(Len(plan.allowed) > MAX_ALLOWED_NETWORKS) /\ seen # <<>> /\ plan.allowed # <<>>
        BY <1>2, <1>3, <1>4, <1>5
    <2>b. select_network = Found(chosen, Why(plan, chosen))
        BY Zenon, <2>2, <2>a DEF select_network
    <2>3. select_network = Found(b, Why(plan, b))
        BY Zenon, <2>2, <2>b
    <2>4. b \in Usable /\ \A d \in Usable : ~Greater(rank(plan, d), rank(plan, b))
        BY Zenon, <1>1, <2>1
    <2>5. /\ Lowest = {b.network}
          /\ Preferred # {} <=> b.network = plan.preferred
          /\ Home # {} /\ Preferred = {} => b.is_home
          /\ b.is_home => Home # {}
        BY ZenonT(30), <2>4, RulesLeaveTheBest
    <2>6. /\ select_network.allowed = TRUE /\ select_network.network = b.network
          /\ select_network.reason = Why(plan, b)
        BY Zenon, <2>3 DEF Found
    <2>7. Why(plan, b) = IF Preferred # {} THEN "PlanPreferred"
                         ELSE IF Home # {} THEN "HomeNetwork" ELSE "StrongestSignal"
        BY Zenon, <2>5 DEF Why, is_pref
    <2>8. Why(plan, b) \notin {"RoamingNotPermitted", "NoAllowedCandidate"}
        BY Zenon DEF Why
    <2> QED
        BY ZenonT(30), <1>5, <2>5, <2>6, <2>7, <2>8 DEF SelectionIsBest
<1>6. CASE Ready /\ Usable = {}
    <2>1. best = {}
        BY Zenon, <1>1, <1>6
    <2>2. PICK why : /\ select_network = Refused(why)
                     /\ why = "RoamingNotPermitted" => any_allowed
                     /\ why = "NoAllowedCandidate" => ~any_allowed
        BY SMTT(30), <1>2, <1>6, <2>1 DEF select_network
    <2>3. select_network.allowed = FALSE /\ select_network.reason = why
        BY Zenon, <2>2 DEF Refused
    <2> QED
        BY ZenonT(30), <1>1, <1>4, <1>6, <2>2, <2>3 DEF SelectionIsBest
<1>7. CASE ~Ready
    <2>1. \/ plan.standing = "Suspended" \/ plan.standing = "Closed" \/ Len(seen) > MAX_CANDIDATES
          \/ Len(plan.allowed) > MAX_ALLOWED_NETWORKS
        BY <1>2, <1>7
    <2>2. PICK why : /\ select_network = Refused(why)
                     /\ why \notin {"RoamingNotPermitted", "NoAllowedCandidate"}
        <3>1. \E why \in {"AccountSuspended", "AccountClosed", "TooManyCandidates", "TooManyAllowedNetworks"} :
                 select_network = Refused(why)
            BY Zenon, <2>1 DEF select_network
        <3> QED
            BY Zenon, <3>1
    <2>3. select_network.allowed = FALSE /\ select_network.reason = why
        BY Zenon, <2>2 DEF Refused
    <2> QED
        BY Zenon, <1>7, <2>2, <2>3 DEF SelectionIsBest
<1> QED
    BY Zenon, <1>5, <1>6, <1>7

(* For every plan and every list of candidates, of any length and in any   *)
(* order, select_network allows an active account a network exactly when a *)
(* usable one was listed, names the best of them and the rule that         *)
(* decided, and refuses with the right reason otherwise.                   *)
THEOREM SelectionStaysBest == SelectionSpec => []SelectionIsBest
<1>1. SelectionInit => LoopInv
    BY Zenon, LoopStarts
<1>2. LoopInv /\ [Scan]_selectionVars => LoopInv'
    <2> SUFFICES ASSUME LoopInv, [Scan]_selectionVars PROVE LoopInv'
        BY Zenon
    <2>1. CASE UNCHANGED selectionVars
        BY Zenon, <2>1 DEF selectionVars, LoopInv, Visible, Usable
    <2> QED
        BY Zenon, <2>1, LoopTurns
<1>3. LoopInv => SelectionIsBest
    BY Zenon, LoopFindsTheBest
<1> QED
    BY <1>1, <1>2, <1>3, PTL DEF SelectionSpec
=============================================================================
