------------------------------- MODULE Proxy --------------------------------
(***************************************************************************)
(* citadel_proxy, the hosted process that vouches for the kernel's MARSHAL *)
(* requests and forwards them to CITADEL (desktop/src/citadel): the accept *)
(* loop with its connection cap, one thread per connection, the two read   *)
(* deadlines, the policy check, the evidence log shared under its mutex,   *)
(* the enriched envelope and the translation of CITADEL's HTTP answer.     *)
(*                                                                         *)
(* Strings are the classes the policy tells apart: "" (empty), "ok" (well  *)
(* formed) and "bad".  A deadline may expire at any time in its phase, but *)
(* no phase lasts for ever.  CITADEL and the clients are external.         *)
(***************************************************************************)
EXTENDS Naturals, FiniteSets, Sequences, FiniteSetsExt

CONSTANTS
    Conns,                  \* connections made to the proxy
    MAX_CONNECTIONS,        \* ProxyLimits::max_connections
    ProxyCases,             \* for each case, the envelopes a connection may carry and CITADEL's replies
    NoField                 \* an Option field that is absent

VARIABLES
    conn,                   \* client, what has been read, where its thread is, the answer
    active,                 \* the AtomicUsize
    worm,                   \* the WormLog behind its mutex
    forwarded,              \* the envelopes CITADEL has been sent, and what it answered
    pcase

proxyVars == <<conn, active, worm, forwarded, pcase>>

-----------------------------------------------------------------------------
(* The policy (policy.rs).                                                 *)

is_data_action(t) == t = "data.reset_usage"
is_mvno_action(t) == t \in {"mvno.bind_profile", "mvno.suspend_account", "mvno.reactivate_account"}
is_esim_action(t) == t \in {"esim.enable", "esim.delete"}
RECOGNIZED_ACTION_TYPES ==
    {"grid_sandbox.spawn_instance", "esim.enable", "esim.delete", "mvno.bind_profile",
     "mvno.suspend_account", "mvno.reactivate_account", "data.reset_usage"}
ActionTypes == RECOGNIZED_ACTION_TYPES \cup {"other"}
Numbers == {"account", "slot", "profile"}
Names == {"module_id", "instance_id"}

KernelMinimalEnvelope ==
    [type : ActionTypes, module_id : {"", "ok", "bad"}, instance_id : {"", "ok", "bad"},
     account : {NoField, 1}, slot : {NoField, 2}, profile : {NoField, 3},
     verifier : BOOLEAN, user_id : {"", "ok", "bad"}, execution_id : {"", "ok"}]
Unparsable == [type |-> "not an envelope"]

(* The numbers that identify an action; a sandbox instance is named.       *)
Identified(t) ==
    CASE t = "mvno.bind_profile" -> {"account", "slot", "profile"}
      [] is_data_action(t) \/ t \in {"mvno.suspend_account", "mvno.reactivate_account"} -> {"account"}
      [] is_esim_action(t) -> {"slot", "profile"}
      [] OTHER -> {}

Named(e) ==
    IF Identified(e.type) = {} THEN e.module_id = "ok" /\ e.instance_id = "ok"
    ELSE e.module_id = "" /\ e.instance_id = ""
check(e) ==
    /\ ~e.verifier
    /\ e.type \in RECOGNIZED_ACTION_TYPES
    /\ \A f \in Numbers : (e[f] # NoField) <=> f \in Identified(e.type)
    /\ Named(e)
    /\ e.user_id = "ok"

(* Whom the log entry is about: a refused envelope may lack a field.       *)
audit_ids(e) ==
    CASE is_data_action(e.type) -> <<"data", {<<"account", e.account>>}>>
      [] is_mvno_action(e.type) -> <<"mvno", {<<f, e[f]>> : f \in Identified(e.type)}>>
      [] is_esim_action(e.type) -> <<"esim", {<<f, e[f]>> : f \in Identified(e.type)}>>
      [] OTHER -> <<e.module_id, {e.instance_id}>>

-----------------------------------------------------------------------------
(* The envelope CITADEL is sent: a missing number would become a zero      *)
(* (unwrap_or_default).                                                    *)

unwrap_or_default(v) == IF v = NoField THEN 0 ELSE v
EvidenceExtra(e) ==
    (IF Identified(e.type) = {} THEN {<<f, e[f]>> : f \in Names}
     ELSE {<<f, unwrap_or_default(e[f])>> : f \in Identified(e.type)})
        \cup (IF e.execution_id = "" THEN {} ELSE {<<"kernel_execution_id", e.execution_id>>})
build_enriched_envelope(e) ==
    [type |-> e.type, extra |-> EvidenceExtra(e), operator |-> e.user_id, verifier |-> "citadel_proxy:verifier"]

(* What may become of the HTTP request; DEFAULT_REQUEST_TIMEOUT bounds it. *)
HttpReplies ==
    [status : {"200", "403", "500"}, body : {"Execute", "Refuse", "HardStop", "garbage"}]
        \cup [status : {"not configured", "unreachable", "timeout"}, body : {"none"}]

(* submit_async: a 403 is a denial only when its body says so.             *)
submit(r) ==
    CASE r.status = "timeout" -> "Timeout"
      [] r.status \in {"not configured", "unreachable"} -> "Unreachable"
      [] r.status = "403" -> IF r.body \in {"Refuse", "HardStop"} THEN r.body ELSE "BadResponse"
      [] r.status = "500" -> "BadResponse"      \* and any other that is no success
      [] OTHER -> r.body
submit_and_translate(r) == IF submit(r) = "garbage" THEN "BadResponse" ELSE submit(r)

ASSUME ProxyAssumption ==
    /\ IsFiniteSet(Conns) /\ MAX_CONNECTIONS \in Nat
    /\ \A k \in DOMAIN ProxyCases :
          /\ \A c \in Conns : ProxyCases[k].requests[c] \subseteq KernelMinimalEnvelope \cup {Unparsable}
          /\ ProxyCases[k].replies \subseteq HttpReplies

-----------------------------------------------------------------------------
(* A client: connects, sends a first part and the rest, or a declared      *)
(* length over MAX_JSON_LEN; or closes.  What it does once its request has *)
(* been read, or given up, is never looked at.                             *)

ProxyInit ==
    /\ pcase \in DOMAIN ProxyCases
    /\ conn = [c \in Conns |-> [sent |-> "nothing", read |-> "nothing", pc |-> "away",
                                env |-> Unparsable, answer |-> "none", result |-> "none"]]
    /\ active = 0
    /\ worm = <<>>
    /\ forwarded = {}

Reading == {"first byte", "frame"}
Read(c, pc) == [conn[c] EXCEPT !.pc = pc, !.sent = "done", !.read = "done"]
Upd(c, new) == conn' = [conn EXCEPT ![c] = new]

Dial(c) ==
    /\ conn[c].pc = "away" /\ conn[c].sent = "nothing"
    /\ \E e \in ProxyCases[pcase].requests[c] : Upd(c, [conn[c] EXCEPT !.pc = "backlog", !.env = e])
    /\ UNCHANGED <<active, worm, forwarded, pcase>>
ClientSend(c) ==
    /\ conn[c].pc \in {"backlog"} \cup Reading
    /\ \/ conn[c].sent = "nothing" /\ \E s \in {"part", "whole", "too long", "closed"} :
                                         Upd(c, [conn[c] EXCEPT !.sent = s])
       \/ conn[c].sent = "part" /\ \E s \in {"whole", "closed"} : Upd(c, [conn[c] EXCEPT !.sent = s])
    /\ UNCHANGED <<active, worm, forwarded, pcase>>

(* serve_listener counts a connection before it looks at the count.  Past  *)
(* the cap, or when no thread can be had, the count is taken back and the  *)
(* stream dropped (Refuse) before the loop accepts another.                *)
AtCap(n) == n >= MAX_CONNECTIONS
Release(c) == active - 1
Accept(c) ==
    /\ conn[c].pc = "backlog" /\ \A d \in Conns : conn[d].pc # "refused"
    /\ active' = active + 1
    /\ \/ ~AtCap(active) /\ Upd(c, [conn[c] EXCEPT !.pc = "first byte"])
       \/ Upd(c, Read(c, "refused"))       \* at the cap, or the spawn fails
    /\ UNCHANGED <<worm, forwarded, pcase>>
Refuse(c) ==
    /\ conn[c].pc = "refused"
    /\ active' = Release(c)
    /\ Upd(c, [conn[c] EXCEPT !.pc = "drop"])
    /\ UNCHANGED <<worm, forwarded, pcase>>

(* One turn of read_marshal_request: what is in the socket is read; whole  *)
(* frames are decoded, impossible lengths and early ends are errors.       *)
read_marshal_request(c) ==
    /\ conn[c].pc \in Reading
    /\ conn[c].sent # conn[c].read
    /\ Upd(c, CASE conn[c].sent = "part" -> [conn[c] EXCEPT !.read = "part", !.pc = "frame"]
                [] conn[c].sent = "whole" -> Read(c, "check")
                [] OTHER -> Read(c, "release"))
    /\ UNCHANGED <<active, worm, forwarded, pcase>>

(* Either deadline: first_byte_timeout, then frame_deadline for all of the *)
(* rest.                                                                   *)
Deadlines_idle == {"first byte"}
Deadlines == Reading
Expire(c) ==
    /\ conn[c].pc \in Deadlines
    /\ Upd(c, Read(c, "release"))
    /\ UNCHANGED <<active, worm, forwarded, pcase>>

(* build_response up to the forwarding: parse, check, record.              *)
Record_late(log, e, ok) == log
Record(log, e, ok) == Append(log, <<audit_ids(e), ok>>)
build_response(c) ==
    LET e == conn[c].env
    IN  /\ conn[c].pc = "check"
        /\ IF e = Unparsable
           THEN Upd(c, [conn[c] EXCEPT !.pc = "write", !.answer = "BadResponse"]) /\ UNCHANGED worm
           ELSE /\ worm' = Record(worm, e, check(e))
                /\ Upd(c, IF check(e) THEN [conn[c] EXCEPT !.pc = "submit"]
                          ELSE [conn[c] EXCEPT !.pc = "write", !.answer = "PolicyRefused"])
        /\ UNCHANGED <<active, forwarded, pcase>>

(* CITADEL has the enriched envelope, and its answer or the lack of one    *)
(* comes back.                                                             *)
Submit(c) ==
    /\ conn[c].pc = "submit"
    /\ \E r \in ProxyCases[pcase].replies :
          /\ forwarded' = IF r.status = "not configured" THEN forwarded
                          ELSE forwarded \cup {[conn |-> c, reply |-> r,
                                                envelope |-> build_enriched_envelope(conn[c].env)]}
          /\ Upd(c, [conn[c] EXCEPT !.pc = "write", !.answer = submit_and_translate(r)])
    /\ UNCHANGED <<active, worm, pcase>>

(* The response is written, or the write fails or times out.               *)
Write(c) ==
    /\ conn[c].pc = "write"
    /\ \E arrived \in BOOLEAN :
          Upd(c, [conn[c] EXCEPT !.pc = "release", !.result = IF arrived THEN conn[c].answer ELSE @])
    /\ UNCHANGED <<active, worm, forwarded, pcase>>

(* The thread gives its place back, then drops the stream.                 *)
Leave(c) ==
    /\ conn[c].pc = "release"
    /\ active' = Release(c)
    /\ Upd(c, [conn[c] EXCEPT !.pc = "drop"])
    /\ UNCHANGED <<worm, forwarded, pcase>>
Drop(c) ==
    /\ conn[c].pc = "drop"
    /\ Upd(c, [conn[c] EXCEPT !.pc = "closed", !.result = IF @ = "none" THEN "EOF" ELSE @])
    /\ UNCHANGED <<active, worm, forwarded, pcase>>

Handler(c) ==
    \/ read_marshal_request(c) \/ Expire(c) \/ build_response(c) \/ Submit(c)
    \/ Write(c) \/ Leave(c) \/ Drop(c)
ProxyNext == \E c \in Conns : Dial(c) \/ ClientSend(c) \/ Accept(c) \/ Refuse(c) \/ Handler(c)
ProxySpec == ProxyInit /\ [][ProxyNext]_proxyVars

(* The proxy keeps running: while its accept loop or a connection's thread *)
(* can move, one of them does.  Clients need not.                          *)
HandlerCanMove(c) ==
    \/ conn[c].pc \in {"check", "submit", "write", "release", "drop", "backlog", "refused"} \cup Deadlines
    \/ conn[c].pc \in Reading /\ conn[c].sent # conn[c].read
ProxyFairness ==
    \/ []<>(\A c \in Conns : ~HandlerCanMove(c))
    \/ []<><<\E c \in Conns : Accept(c) \/ Refuse(c) \/ Handler(c)>>_proxyVars

-----------------------------------------------------------------------------
Answers == {"Execute", "Refuse", "HardStop", "BadResponse", "Timeout", "Unreachable", "PolicyRefused"}
ProxyTypeOK ==
    /\ active \in 0 .. Cardinality(Conns)
    /\ \A c \in Conns :
          /\ conn[c].answer \in Answers \cup {"none"}
          /\ conn[c].result \in Answers \cup {"none", "EOF"}
          /\ conn[c].result \in Answers => conn[c].result = conn[c].answer

(* No more connections are served at once than the cap allows, and the     *)
(* count is the threads that hold a place and the connection the loop is   *)
(* about to refuse: every way out of a connection, refused, failed, timed  *)
(* out or answered, gives its place back exactly once, and the count runs  *)
(* past the cap by that one refusal only (serve_listener's active).        *)
Serving == Reading \cup {"check", "submit", "write", "release"}
PlacesCounted ==
    /\ active = Cardinality({c \in Conns : conn[c].pc \in Serving \cup {"refused"}})
    /\ Cardinality({c \in Conns : conn[c].pc \in Serving}) <= MAX_CONNECTIONS
    /\ active <= MAX_CONNECTIONS + 1

(* CITADEL never hears of a request that the proxy's own policy refused or *)
(* has not yet recorded: each forwarded envelope has its entry in the log, *)
(* made before it left (build_response).                                   *)
ForwardedIsRecorded ==
    \A f \in forwarded :
        LET ids == audit_ids(conn[f.conn].env)
        IN  /\ check(conn[f.conn].env)
            /\ Cardinality({g \in forwarded : audit_ids(conn[g.conn].env) = ids})
                 <= Quantify(DOMAIN worm, LAMBDA i : worm[i] = <<ids, TRUE>>)

(* What CITADEL judges is what was asked: every number and name that       *)
(* identifies the action is in the evidence with the request's own value,  *)
(* never the default of a missing field, and nothing else is               *)
(* (build_enriched_envelope against policy::check).                        *)
EvidenceIsTheRequests ==
    \A f \in forwarded :
        LET e == conn[f.conn].env
            present == {n \in Numbers : e[n] # NoField} \cup {n \in Names : e[n] # ""}
        IN  {p \in f.envelope.extra : p[1] # "kernel_execution_id"} = {<<n, e[n]>> : n \in present}

(* The kernel is told what was decided: a denial, by the policy or by      *)
(* CITADEL at whatever status, never reaches it as one of the errors it    *)
(* takes for "unavailable", and EXECUTE only when CITADEL said so with a   *)
(* success (submit_async, submit_and_translate).                           *)
VerdictCarried ==
    \A c \in Conns : conn[c].result \notin {"none", "EOF"} =>
        LET mine == {f \in forwarded : f.conn = c}
        IN  /\ conn[c].result = "Execute" <=> \E f \in mine : f.reply = [status |-> "200", body |-> "Execute"]
            /\ \A f \in mine : f.reply.status \in {"200", "403"} /\ f.reply.body \in {"Refuse", "HardStop"} =>
                   conn[c].result = f.reply.body
            /\ conn[c].env # Unparsable /\ mine = {} =>
                   conn[c].result = IF check(conn[c].env) THEN "Unreachable" ELSE "PolicyRefused"

(* No client keeps a place: whatever it sends or does not send, each       *)
(* connection made is closed in the end (first_byte_timeout and            *)
(* frame_deadline).                                                        *)
ConnectionEnds == \A c \in Conns : conn[c].pc = "backlog" ~> conn[c].pc = "closed"

(* Between the kernel and CITADEL, with any number of connections at once: *)
(* places are counted, nothing is forwarded unrecorded or altered, and     *)
(* each connection is told its own verdict.                                *)
ProxySound ==
    /\ ProxyTypeOK
    /\ PlacesCounted
    /\ ForwardedIsRecorded
    /\ EvidenceIsTheRequests
    /\ VerdictCarried
=============================================================================
