------------------------------- MODULE NetRing -------------------------------
(***************************************************************************)
(* The network driver's two virtqueues and the buffers it lends to the     *)
(* device through them: net-driver-host's virtio.rs (Virtqueue),           *)
(* smoltcp_device.rs and smoltcp_device/rx_policy.rs, which                *)
(* net-driver-host-arm repeats.                                            *)
(*                                                                         *)
(* Indices are IDX_MOD wide (16 bits in the code) and wrap.  A frame is a  *)
(* buffer number and whether its length is valid.  The device runs beside  *)
(* the driver; it may also write up to MAX_LIES used entries of its own    *)
(* invention to the RX queue.                                              *)
(***************************************************************************)
EXTENDS Naturals, FiniteSets

CONSTANTS
    RX_BUFFER_COUNT, TX_BUFFER_COUNT,
    IDX_MOD,
    MAX_QUEUE_SIZE,
    OfferedSizes,           \* queue sizes a device may report
    MAX_ENTRIES_PER_CALL,
    MAX_LIES

(* What makes an index that wraps keep its ring slot: IDX_MOD is a         *)
(* multiple of every queue size that is accepted, and no ring fills it.    *)
ASSUME RingAssumption ==
    /\ {RX_BUFFER_COUNT, TX_BUFFER_COUNT} \subseteq 1 .. IDX_MOD - 1
    /\ {IDX_MOD, MAX_QUEUE_SIZE, MAX_ENTRIES_PER_CALL, MAX_LIES} \subseteq Nat
    /\ OfferedSizes \subseteq Nat
    /\ \A k \in 0 .. 8 : 2^k <= MAX_QUEUE_SIZE => \E m \in 1 .. IDX_MOD : IDX_MOD = 2^k * m

VARIABLES
    rxq, txq,               \* the queues, as both sides see them
    posted,                 \* RxPosted: the RX buffers marked as the device's
    in_use,                 \* tx_in_use
    call,                   \* receive or transmit, where it is and its locals
    token,                  \* what receive has handed to smoltcp
    lies                    \* history

ringVars == <<rxq, txq, posted, in_use, call, token, lies>>

RxBuffer == 0 .. RX_BUFFER_COUNT - 1
TxBuffer == 0 .. TX_BUFFER_COUNT - 1
NoFrame == RX_BUFFER_COUNT
NoSlot == TX_BUFFER_COUNT
NoToken == [rx |-> NoFrame, tx |-> NoSlot]

wrapping_add(n) == (n + 1) % IDX_MOD
Distance(from, upto) == (upto + IDX_MOD - from) % IDX_MOD

(* lib.rs: a power of two, so that a wrapping index keeps its ring slot.   *)
queue_size_is_valid(qsize, min_size) ==
    /\ qsize >= min_size /\ qsize <= MAX_QUEUE_SIZE
    /\ \E k \in 0 .. 8 : qsize = 2^k

-----------------------------------------------------------------------------
(* Virtqueue: two rings, each written by one side at idx and read by the   *)
(* other at next.  A slot that has been read is not read again before it   *)
(* is written; reading empties it.                                         *)

Entry == [id : Nat, ok : BOOLEAN]
Empty == [id |-> 0, ok |-> TRUE]
NewRing(qsize) == [qsize |-> qsize, slot |-> [i \in 0 .. qsize - 1 |-> Empty], idx |-> 0, next |-> 0]

Put(r, e) == [r EXCEPT !.slot[r.idx % r.qsize] = e, !.idx = wrapping_add(@)]
Oldest(r) == r.slot[r.next % r.qsize]
Take(r) == [r EXCEPT !.slot[r.next % r.qsize] = Empty, !.next = wrapping_add(@)]

(* What is written and not read, oldest first.                             *)
Unread(r) == Distance(r.next, r.idx)
At(r, k) == r.slot[((r.next + k) % IDX_MOD) % r.qsize]
Ids(r) == {At(r, k).id : k \in 0 .. Unread(r) - 1}

(* held: what the device has taken and not completed.                      *)
NewQueue(qsize) == [avail |-> NewRing(qsize), used |-> NewRing(qsize), held |-> {}]

post(q, index) == [q EXCEPT !.avail = Put(@, [id |-> index, ok |-> TRUE])]

(* last_used_seen is used.next.                                            *)
HasUsed(q) == q.used.idx # q.used.next
HeadUsed(q) == Oldest(q.used)
poll_used(q) == [q EXCEPT !.used = Take(@)]

-----------------------------------------------------------------------------
(* rx_policy.rs.                                                           *)

classify_rx_completion(e, owned) ==
    IF e.id \notin RxBuffer THEN "DropUnidentified"
    ELSE IF e.id \notin owned THEN "DropNotOwned"
    ELSE IF e.ok THEN "Deliver" ELSE "DropAndRepost"

(* post_rx_buffer: a buffer already marked is not written again.           *)
post_rx_buffer(index) ==
    IF index \in posted THEN UNCHANGED <<rxq, posted>>
    ELSE posted' = posted \cup {index} /\ rxq' = post(rxq, index)

-----------------------------------------------------------------------------
(* Every RX buffer is posted, in order, before the device is ready.        *)
FullQueue(qsize) ==
    LET slot == [i \in 0 .. qsize - 1 |-> IF i \in RxBuffer THEN [id |-> i, ok |-> TRUE] ELSE Empty]
    IN  [avail |-> [qsize |-> qsize, slot |-> slot, idx |-> RX_BUFFER_COUNT, next |-> 0],
         used |-> NewRing(qsize), held |-> {}]

Idle == [pc |-> "idle", tx |-> NoSlot, left |-> 0, pending |-> {}, found |-> NoFrame]

RingInit ==
    /\ \E rx_size, tx_size \in OfferedSizes :
        /\ queue_size_is_valid(rx_size, RX_BUFFER_COUNT) /\ queue_size_is_valid(tx_size, TX_BUFFER_COUNT)
        /\ rxq = FullQueue(rx_size)
        /\ txq = NewQueue(tx_size)
    /\ posted = RxBuffer
    /\ in_use = {}
    /\ call = Idle
    /\ token = NoToken
    /\ lies = 0

(* smoltcp calls Device::receive or Device::transmit; both start with      *)
(* TxSlots::free_tx_slot.                                                  *)
Calls(which) ==
    /\ call.pc = "idle" /\ token = NoToken
    /\ call' = [call EXCEPT !.pc = which]
    /\ UNCHANGED <<rxq, txq, posted, in_use, token, lies>>
receive == Calls("receive")
transmit == Calls("transmit")

(* free_tx_slot: every TX completion is reaped, one by one; then the first *)
(* slot not in use.                                                        *)
StillInUse_unreaped(id) == in_use
StillInUse(id) == in_use \ {id}
Reap ==
    /\ call.pc \in {"receive", "transmit"} /\ HasUsed(txq)
    /\ in_use' = StillInUse(HeadUsed(txq).id)
    /\ txq' = poll_used(txq)
    /\ UNCHANGED <<rxq, posted, call, token, lies>>

Free == TxBuffer \ in_use
Reaped(which) == call.pc = which /\ ~HasUsed(txq)
free_tx_slot(i) == i \in Free /\ \A j \in Free : i <= j

NoneFree ==
    /\ Reaped(call.pc) /\ call.pc \in {"receive", "transmit"} /\ Free = {}
    /\ call' = Idle
    /\ UNCHANGED <<rxq, txq, posted, in_use, token, lies>>

(* The consume of transmit's token: smoltcp takes one only to use it.      *)
tx_consume ==
    /\ Reaped("transmit")
    /\ \E i \in Free : free_tx_slot(i) /\ txq' = post(txq, i) /\ in_use' = in_use \cup {i}
    /\ call' = Idle
    /\ UNCHANGED <<rxq, posted, token, lies>>

(* service_rx: only with a TX slot is the RX ring touched.                 *)
service_rx ==
    /\ Reaped("receive")
    /\ \E i \in Free :
          /\ free_tx_slot(i)
          /\ call' = [pc |-> "scan", tx |-> i, left |-> MAX_ENTRIES_PER_CALL, pending |-> {},
                      found |-> NoFrame]
    /\ UNCHANGED <<rxq, txq, posted, in_use, token, lies>>

(* One turn of next_rx_frame's loop, and its end.                          *)
MoreToScan == call.found = NoFrame /\ call.left > 0 /\ HasUsed(rxq)
Scanned_forgets(what, id) ==
    [pc |-> "scan", tx |-> call.tx, left |-> call.left - 1, pending |-> call.pending,
     found |-> IF what = "Deliver" THEN id ELSE call.found]
Scanned(what, id) ==
    [pc |-> "scan", tx |-> call.tx, left |-> call.left - 1,
     pending |-> IF what = "DropAndRepost" THEN call.pending \cup {id} ELSE call.pending,
     found |-> IF what = "Deliver" THEN id ELSE call.found]
next_rx_frame ==
    /\ call.pc = "scan"
    /\ IF MoreToScan
       THEN LET e == HeadUsed(rxq)
                what == classify_rx_completion(e, posted)
            IN  /\ rxq' = poll_used(rxq)
                /\ posted' = IF what \in {"Deliver", "DropAndRepost"} THEN posted \ {e.id} ELSE posted
                /\ call' = Scanned(what, e.id)
       ELSE call' = [call EXCEPT !.pc = "repost"] /\ UNCHANGED <<rxq, posted>>
    /\ UNCHANGED <<txq, in_use, token, lies>>

(* The dropped buffers are re-posted, lowest first; then a frame comes     *)
(* with a TX slot to answer it, or nothing is handed out.                  *)
repost ==
    /\ call.pc = "repost"
    /\ \E b \in call.pending :
          /\ \A c \in call.pending : b <= c
          /\ post_rx_buffer(b)
          /\ call' = [call EXCEPT !.pending = @ \ {b}]
    /\ UNCHANGED <<txq, in_use, token, lies>>
TokenFor == IF call.found = NoFrame THEN NoToken ELSE [rx |-> call.found, tx |-> call.tx]
Received ==
    /\ call.pc = "repost" /\ call.pending = {}
    /\ token' = TokenFor
    /\ call' = Idle
    /\ UNCHANGED <<rxq, txq, posted, in_use, lies>>

(* RunixTxToken::consume, while smoltcp reads the frame: a reply.          *)
reply ==
    /\ token.tx # NoSlot
    /\ txq' = post(txq, token.tx) /\ in_use' = in_use \cup {token.tx}
    /\ token' = [token EXCEPT !.tx = NoSlot]
    /\ UNCHANGED <<rxq, posted, call, lies>>

(* The end of RunixRxToken::consume: the buffer goes back to the device.   *)
rx_consume ==
    /\ token.rx # NoFrame
    /\ post_rx_buffer(token.rx)
    /\ token' = NoToken
    /\ UNCHANGED <<txq, in_use, call, lies>>

-----------------------------------------------------------------------------
(* The device.                                                             *)

TakeFrom(q) == [q EXCEPT !.held = @ \cup {Oldest(q.avail).id}, !.avail = Take(@)]
PutUsed(q, id, ok) == [q EXCEPT !.used = Put(@, [id |-> id, ok |-> ok]), !.held = @ \ {id}]

DeviceTakes ==
    \/ /\ rxq.avail.next # rxq.avail.idx /\ rxq' = TakeFrom(rxq)
       /\ UNCHANGED <<txq, posted, in_use, call, token, lies>>
    \/ /\ txq.avail.next # txq.avail.idx /\ txq' = TakeFrom(txq)
       /\ UNCHANGED <<rxq, posted, in_use, call, token, lies>>

FrameArrives ==
    /\ \E id \in rxq.held, ok \in BOOLEAN : rxq' = PutUsed(rxq, id, ok)
    /\ UNCHANGED <<txq, posted, in_use, call, token, lies>>

FrameSent ==
    /\ \E id \in txq.held : txq' = PutUsed(txq, id, TRUE)
    /\ UNCHANGED <<rxq, posted, in_use, call, token, lies>>

(* A used entry for no buffer, or for one the device was not given.        *)
DeviceLies ==
    /\ lies < MAX_LIES /\ lies' = lies + 1
    /\ Unread(rxq.used) < rxq.used.qsize
    /\ \E id \in 0 .. RX_BUFFER_COUNT, ok \in BOOLEAN :
          rxq' = [rxq EXCEPT !.used = Put(@, [id |-> id, ok |-> ok])]
    /\ UNCHANGED <<txq, posted, in_use, call, token>>

RingNext ==
    \/ receive \/ transmit \/ Reap \/ NoneFree \/ tx_consume \/ service_rx
    \/ next_rx_frame \/ repost \/ Received \/ reply \/ rx_consume
    \/ DeviceTakes \/ FrameArrives \/ FrameSent \/ DeviceLies

RingSpec == RingInit /\ [][RingNext]_ringVars

-----------------------------------------------------------------------------
RingTypeOK ==
    /\ posted \subseteq RxBuffer /\ in_use \subseteq TxBuffer
    /\ token.rx \in 0 .. NoFrame /\ token.tx \in 0 .. NoSlot
    /\ token.rx = NoFrame => token.tx = NoSlot
    /\ call.pending \subseteq RxBuffer /\ call.left \in 0 .. MAX_ENTRIES_PER_CALL

(* What the driver has taken from the device and not given back.           *)
Kept == call.pending \cup {call.found, token.rx}

(* Whatever the device reports, every RX buffer is marked as the device's  *)
(* or is one the driver is dealing with, which it gives back: no sequence  *)
(* of bad, repeated or invented completions drains the pool (rx_policy.rs, *)
(* rules 1-6).                                                             *)
NoBufferLost ==
    /\ RxBuffer \subseteq posted \cup Kept /\ posted \cap Kept = {}
    /\ call.found \notin call.pending
    /\ call.pc = "idle" => call = Idle

(* With a device that reports only what it did, a buffer marked posted is  *)
(* in exactly one place (offered, held or returned) and one in smoltcp's   *)
(* hands is in none, across any number of index wraps: the device never    *)
(* writes into a frame being read, and is never offered a buffer twice.    *)
Exact(q, owned) ==
    /\ Ids(q.avail) \cup q.held \cup Ids(q.used) = owned
    /\ Unread(q.avail) + Cardinality(q.held) + Unread(q.used) = Cardinality(owned)
RxExact == lies = 0 => Exact(rxq, posted)

(* A TX slot is in use exactly while its frame is with the device or its   *)
(* completion is unread, so a frame is never overwritten before it is sent *)
(* and no slot is lost (tx_in_use, set after post and cleared by           *)
(* free_tx_slot).                                                          *)
TxExact ==
    /\ Exact(txq, in_use)
    /\ \A i \in {call.tx, token.tx} : i \notin in_use

(* A frame an honest device returned is served, even when every TX slot is *)
(* busy at first: the driver comes back for it.  Only a stack that         *)
(* transmits for ever can keep it waiting, by taking each slot as it is    *)
(* freed.                                                                  *)
FrameServed ==
    \/ []<><<tx_consume>>_ringVars
    \/ \A b \in RxBuffer : b \in Ids(rxq.used) ~> (b \notin Ids(rxq.used) \/ lies > 0)

(* The poll loop calls receive again, which smoltcp lets it do by          *)
(* finishing with its token; the device sends what it was given (its       *)
(* ENABLED written out).                                                   *)
DeviceCanSend == txq.avail.next # txq.avail.idx \/ txq.held # {}
RingFairness ==
    /\ []<><<receive>>_ringVars
    /\ []<>~DeviceCanSend \/ []<><<FrameSent \/ (DeviceTakes /\ UNCHANGED rxq)>>_ringVars

(* The buffers of both rings are accounted for at every step of the driver *)
(* and the device, across index wraps and bad completions.                 *)
RingSound ==
    /\ RingTypeOK
    /\ NoBufferLost
    /\ RxExact
    /\ TxExact
=============================================================================
