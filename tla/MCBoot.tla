------------------------------- MODULE MCBoot -------------------------------
(***************************************************************************)
(* What is let into the system and on whose word: the memory a process is  *)
(* built from (KernelSpaces), the image loaded into it (Loader), the       *)
(* signed allowlists it is checked against (Allowlist), the tokens it then *)
(* holds (Tokens), the proxy that vouches for what it asks (Proxy) and the *)
(* evidence kept (AuditChain).  They share no state: each behaviour is of  *)
(* one of them, the others staying as they start.                          *)
(***************************************************************************)
EXTENDS KernelSpaces, Loader, Allowlist, Tokens, Proxy, AuditChain

CONSTANTS Applied, CleanPass

VARIABLE part

-----------------------------------------------------------------------------
(* The boots: everything loaded, with the drivers' top-level entry in use  *)
(* and memory in one piece, or with the entry free and a gap in memory;    *)
(* the block driver loaded while another thread spawns an instance; and    *)
(* the same for a host, with a thread that exits meanwhile.                *)
MCBoots ==
    {[loads |-> {"grid", "net", "blk"}, instance |-> FALSE, gap |-> IF used THEN TOTAL_FRAMES ELSE 14,
      private_used |-> used, exits |-> 1] : used \in BOOLEAN}
        \cup {[loads |-> {"blk"}, instance |-> TRUE, gap |-> TOTAL_FRAMES, private_used |-> TRUE, exits |-> 0],
              [loads |-> {"grid"}, instance |-> TRUE, gap |-> TOTAL_FRAMES, private_used |-> TRUE, exits |-> 1]}

(* The images: any first segment, and a second one to meet it.             *)
MCSegment ==
    {[flags |-> f, offset |-> o, vaddr |-> v, filesz |-> z[1], memsz |-> z[2]] :
        f \in {{"R"}, {"R", "X"}, {"R", "W"}, {"R", "W", "X"}, {"X"}}, o \in {0, 2}, v \in {1, 2, 3, 5, 11},
        z \in {<<0, 0>>, <<1, 0>>, <<0, 2>>, <<1, 1>>, <<2, 3>>, <<3, 3>>}}
MCSegments == <<MCSegment, {s \in MCSegment : s.offset = 0 /\ s.flags \in {{"R", "W"}, {"R", "X"}}}>>

(* The allowlists: a first entry for module a with at most one id, the     *)
(* digest or the tier changed since it was signed, or both ids, or signed  *)
(* as an entry of the other list, or by someone else; and a second,        *)
(* genuine one.  The ids a and b|c, joined, are the ids a|b and c, joined. *)
MCModules == {<<"a">>, <<"a", PIPE, "b">>}
MCInstances == {<<"c">>, <<"b", PIPE, "c">>}
Genuine(kind, fields) == [list |-> kind, fields |-> fields, kind |-> kind, signed |-> fields, by |-> Root]
OfA(kind) == {s \in ManifestFields(kind) : s.module_id = <<"a">>}
Altered(kind, s) ==
    {f \in ManifestFields(kind) :
        \/ f.sha256 = s.sha256 /\ f.tier = s.tier
        \/ f.module_id = s.module_id /\ f.instance_id = s.instance_id /\ (f.sha256 = s.sha256 \/ f.tier = s.tier)}
Alterations(kind) ==
    UNION {{[Genuine(kind, s) EXCEPT !.fields = f] : f \in Altered(kind, s)} : s \in OfA(kind)}
Relisted(kind, other) ==
    {[Genuine(kind, f) EXCEPT !.kind = other, !.signed = s] :
        f \in OfA(kind), s \in {s \in ManifestFields(other) : s.sha256 = "c1" /\ s.tier = "t1"}}
MCInsertions ==
    <<UNION {Alterations(k) \cup {[Genuine(k, s) EXCEPT !.by = "other"] : s \in ManifestFields(k)} : k \in ListKinds}
          \cup Relisted("BootAllowlist", "InstanceAllowlist") \cup Relisted("InstanceAllowlist", "BootAllowlist"),
      UNION {{Genuine(k, s) : s \in {s \in OfA(k) : s.tier = "t1"}} : k \in ListKinds}>>

(* The proxy's requests: every envelope with at most one of the fields     *)
(* checked for every type wrong, one connection at a time, with every      *)
(* reply; and three connections at once, one request to be forwarded, one  *)
(* refused and one not parsed, with a reply of each kind.                  *)
Enable ==
    [type |-> "esim.enable", module_id |-> "", instance_id |-> "", account |-> NoField, slot |-> 2,
     profile |-> 3, verifier |-> FALSE, user_id |-> "ok", execution_id |-> ""]
MCProxyCases ==
    <<[requests |-> [c \in Conns |->
                        IF c # 1 THEN {}
                        ELSE {e \in KernelMinimalEnvelope :
                                /\ e.verifier => e.user_id = "ok"
                                /\ e.verifier \/ e.user_id # "ok" => e.module_id = e.instance_id
                                /\ e.execution_id = "" \/ e.type = "esim.delete"}],
       replies |-> HttpReplies],
      [requests |-> <<{Enable}, {[Enable EXCEPT !.type = "other"]}, {Unparsable}>>,
       replies |-> {[status |-> "200", body |-> "Execute"], [status |-> "403", body |-> "HardStop"],
                    [status |-> "timeout", body |-> "none"], [status |-> "not configured", body |-> "none"]}]>>

(* Two classes of evidence.  Summaries come at 1 and 4 dropped events, and *)
(* the third only after the counters saturate.                             *)
MCQuota == [c \in AuditClass |-> IF c = Applied THEN 2 ELSE 1]

-----------------------------------------------------------------------------
SpacesIdle == SpacesInit /\ exits.max = 0
LoaderIdle == LoaderInit /\ defect = "none"
AllowIdle == AllowInit /\ list_kind = "BootAllowlist"
ProxyIdle == ProxyInit /\ pcase = 1
othersOfSpaces == <<loaderVars, allowVars, tokenVars, proxyVars, auditVars>>
othersOfLoader == <<spaceVars, allowVars, tokenVars, proxyVars, auditVars>>
othersOfAllow == <<spaceVars, loaderVars, tokenVars, proxyVars, auditVars>>
othersOfTokens == <<spaceVars, loaderVars, allowVars, proxyVars, auditVars>>
othersOfProxy == <<spaceVars, loaderVars, allowVars, tokenVars, auditVars>>
othersOfAudit == <<spaceVars, loaderVars, allowVars, tokenVars, proxyVars>>

TrustInit ==
    /\ TokensInit /\ AuditInit
    /\ \/ part = "spaces" /\ SpacesInit /\ LoaderIdle /\ AllowIdle /\ ProxyIdle
       \/ part = "loader" /\ SpacesIdle /\ LoaderInit /\ AllowIdle /\ ProxyIdle
       \/ part = "allow" /\ SpacesIdle /\ LoaderIdle /\ AllowInit /\ ProxyIdle
       \/ part = "proxy" /\ SpacesIdle /\ LoaderIdle /\ AllowIdle /\ ProxyInit
       \/ part \in {"tokens", "audit"} /\ SpacesIdle /\ LoaderIdle /\ AllowIdle /\ ProxyIdle

TrustNext ==
    /\ UNCHANGED part
    /\ \/ part = "spaces" /\ SpacesNext /\ UNCHANGED othersOfSpaces
       \/ part = "loader" /\ NextHeader /\ UNCHANGED othersOfLoader
       \/ part = "allow" /\ AllowNext /\ UNCHANGED othersOfAllow
       \/ part = "tokens" /\ TokensNext /\ UNCHANGED othersOfTokens
       \/ part = "proxy" /\ ProxyNext /\ UNCHANGED othersOfProxy
       \/ part = "audit" /\ AuditNext /\ UNCHANGED othersOfAudit

TrustSpec ==
    /\ TrustInit /\ [][TrustNext]_<<part, spaceVars, othersOfSpaces>>
    /\ ProxyFairness
=============================================================================
