---------------------------- MODULE SectorStore ----------------------------
(***************************************************************************)
(* What BlkDevice promises its callers: sectors that are read and written  *)
(* one request at a time.  A request takes effect at most once; a success  *)
(* is returned only after the effect of that very request, with what it    *)
(* read; and once one request has been given up, every later one fails     *)
(* and none of them touches the store.                                     *)
(***************************************************************************)
EXTENDS Naturals, Sequences

CONSTANTS Sector, Data, None

VARIABLES
    store,      \* the contents of each sector
    op,         \* the request handed to the device, or None
    alive,      \* no request has been given up
    answers     \* what the calls have returned

storeVars == <<store, op, alive, answers>>

Failed == [ok |-> FALSE, data |-> None]

(* A request: kind "in" reads into data, kind "out" writes data.           *)
Request == [kind : {"out"}, sector : Sector, data : Data]
           \cup [kind : {"in"}, sector : Sector, data : {None}]

StoreInit ==
    /\ store \in [Sector -> Data]
    /\ op = None
    /\ alive = TRUE
    /\ answers = <<>>

Call(r) ==
    /\ alive /\ op = None
    /\ op' = [req |-> r, done |-> FALSE, ok |-> FALSE, data |-> None]
    /\ UNCHANGED <<store, alive, answers>>

(* A failing request may or may not have written its sector.               *)
Effect(ok, written) ==
    /\ op # None
    /\ ~op.done
    /\ ok => written
    /\ store' = IF op.req.kind = "out" /\ written
                THEN [store EXCEPT ![op.req.sector] = op.req.data] ELSE store
    /\ op' = [req |-> op.req, done |-> TRUE, ok |-> ok,
              data |-> IF op.req.kind = "in" /\ ok THEN store[op.req.sector] ELSE None]
    /\ UNCHANGED <<alive, answers>>

Answer ==
    /\ alive /\ op # None
    /\ op.done
    /\ answers' = Append(answers, [ok |-> op.ok, data |-> op.data])
    /\ op' = None
    /\ UNCHANGED <<store, alive>>

(* The caller stops waiting; the request stays with the device.            *)
GiveUp ==
    /\ alive /\ op # None
    /\ alive' = FALSE
    /\ answers' = Append(answers, Failed)
    /\ UNCHANGED <<store, op>>

Refuse ==
    /\ ~alive
    /\ answers' = Append(answers, Failed)
    /\ UNCHANGED <<store, op, alive>>

StoreNext ==
    \/ \E r \in Request : Call(r)
    \/ \E ok, written \in BOOLEAN : Effect(ok, written)
    \/ Answer \/ GiveUp \/ Refuse

StoreSpec == StoreInit /\ [][StoreNext]_storeVars

(* Every request is answered or given up.                                  *)
StoreLive == WF_storeVars(Answer \/ GiveUp)

=============================================================================
