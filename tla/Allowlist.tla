----------------------------- MODULE Allowlist ------------------------------
(***************************************************************************)
(* CITADEL's boot-time gate (citadel-integration): the signed manifest     *)
(* entries of modules (BootAllowlist) and of instances of a module         *)
(* (InstanceAllowlist), and the evidence log every decision leaves.        *)
(*                                                                         *)
(* A signature is the message signed and the key that signed it; a digest  *)
(* is its preimage.  A module or instance id is the sequence of its        *)
(* characters, the field separator possibly among them; a digest (in hex)  *)
(* and a tier are one token each, never a separator.  An entry may reach   *)
(* the kernel altered after it was signed, signed as an entry of the other *)
(* list, or signed by a key that is not the trust root.                    *)
(***************************************************************************)
EXTENDS Naturals, Sequences

CONSTANTS
    ListKinds,              \* BootAllowlist, InstanceAllowlist
    Modules, Instances, Contents, Tiers, Root,
    Insertions,             \* which entries may be inserted at each place
    MAX_LOADS

VARIABLES
    list_kind,
    manifest,               \* the allowlist's entries, oldest first, with what was signed
    evidence                \* its WormLog, each record with the content it was about

allowVars == <<list_kind, manifest, evidence>>

PIPE == "|"
NoInstance == <<>>

(* An entry of a BootAllowlist names a module, one of an InstanceAllowlist *)
(* an instance of it too.                                                  *)
InstancesOf(kind) == IF kind = "BootAllowlist" THEN {NoInstance} ELSE Instances
ManifestFields(kind) ==
    [module_id : Modules, instance_id : InstancesOf(kind), sha256 : Contents, tier : Tiers]

ASSUME AllowAssumption ==
    /\ ListKinds \subseteq {"BootAllowlist", "InstanceAllowlist"}
    /\ Modules \cup Instances \subseteq Seq(STRING)
    /\ Contents \cup Tiers \subseteq STRING \ {PIPE}
    /\ \A n \in 1 .. Len(Insertions) : \A c \in Insertions[n] :
          /\ {c.list, c.kind} \subseteq {"BootAllowlist", "InstanceAllowlist"}
          /\ c.fields \in ManifestFields(c.list) /\ c.signed \in ManifestFields(c.kind)

(* The bytes under the signature: a version, so that one kind of entry is  *)
(* never taken for the other, then the ids, the digest and the tier, with  *)
(* separators between them that nothing escapes in an id.                  *)
Version(kind) == IF kind = "BootAllowlist" THEN "v2" ELSE "vi1"
Ids(kind, e) == IF kind = "BootAllowlist" THEN e.module_id ELSE e.module_id \o <<PIPE>> \o e.instance_id
canonical_string_no_tier(kind, e) == <<Version(kind), PIPE>> \o Ids(kind, e) \o <<PIPE, e.sha256>>
canonical_string(kind, e) == <<Version(kind), PIPE>> \o Ids(kind, e) \o <<PIPE, e.sha256, PIPE, e.tier>>

issue(kind, fields, key) ==
    [fields |-> fields, kind |-> kind, signed |-> fields,
     signature |-> [over |-> canonical_string(kind, fields), by |-> key]]

AllowInit ==
    /\ list_kind \in ListKinds
    /\ manifest = <<>> /\ evidence = <<>>

insert ==
    /\ Len(manifest) < Len(Insertions)
    /\ \E c \in Insertions[Len(manifest) + 1] :
          /\ c.list = list_kind
          /\ manifest' = Append(manifest, [issue(c.kind, c.signed, c.by) EXCEPT !.fields = c.fields])
    /\ UNCHANGED <<list_kind, evidence>>

-----------------------------------------------------------------------------
(* find: the place of the first entry of that name, or 0.                  *)
Named1(e, m, i) == e.fields.module_id = m /\ (list_kind = "InstanceAllowlist" => e.fields.instance_id = i)
find(m, i) ==
    LET named == {n \in DOMAIN manifest : Named1(manifest[n], m, i)}
    IN  IF named = {} THEN 0 ELSE CHOOSE n \in named : \A k \in named : n <= k

verify_entry(e, m, i, digest) ==
    IF e.fields.module_id # m THEN "WrongModule"
    ELSE IF list_kind = "InstanceAllowlist" /\ e.fields.instance_id # i THEN "WrongInstance"
    ELSE IF e.fields.sha256 # digest THEN "HashMismatch"
    ELSE IF e.signature # [over |-> canonical_string(list_kind, e.fields), by |-> Root] THEN "InvalidSignature"
    ELSE "ok"

evaluate_load(m, i, bytes) ==
    LET n == find(m, i)
        verdict == verify_entry(manifest[n], m, i, bytes)
    IN  IF n = 0 THEN [tier |-> "none", reason |-> "NotAllowlisted"]
        ELSE IF verdict # "ok" THEN [tier |-> "none", reason |-> verdict]
        ELSE [tier |-> manifest[n].fields.tier, reason |-> "none"]

(* authorize_module_load, authorize_instance_load: one record, whatever    *)
(* the decision, which is then the answer.                                 *)
Evidence1(m, i, bytes, r) ==
    [module_id |-> m, instance_id |-> i, tier |-> r.tier, authorized |-> r.reason = "none",
     reason |-> r.reason, bytes |-> bytes]
authorize_load ==
    /\ Len(evidence) < MAX_LOADS
    /\ \E m \in Modules, i \in InstancesOf(list_kind), bytes \in Contents :
          evidence' = Append(evidence, Evidence1(m, i, bytes, evaluate_load(m, i, bytes)))
    /\ UNCHANGED <<list_kind, manifest>>

AllowNext == insert \/ authorize_load
AllowSpec == AllowInit /\ [][AllowNext]_allowVars

-----------------------------------------------------------------------------
(* An id without a separator.                                              *)
Plain(id) == \A n \in DOMAIN id : id[n] # PIPE

(* The trust root signed entry e for what record d let in: as an entry of  *)
(* this list, for the content, at the tier and under the ids of d, these   *)
(* as they are joined, and one by one unless a module id of an instance's  *)
(* entry holds the separator: canonical_string escapes none, so that there *)
(* one signature is good for every split of the joined ids.                *)
SignedFor(e, d) ==
    /\ e.signature.by = Root
    /\ e.kind = list_kind
    /\ e.signed.sha256 = d.bytes
    /\ e.signed.tier = d.tier
    /\ Ids(list_kind, e.signed) = Ids(list_kind, d)
    /\ \/ e.signed.module_id = d.module_id /\ e.signed.instance_id = d.instance_id
       \/ list_kind = "InstanceAllowlist" /\ (~Plain(e.signed.module_id) \/ ~Plain(d.module_id))

(* What is loaded is what the trust root signed: the module, for an        *)
(* InstanceAllowlist the instance, the content and the tier together, in   *)
(* one entry, the first of the name, whatever else is on the list and      *)
(* whatever was done to the entries since (authorize_module_load,          *)
(* authorize_instance_load).                                               *)
LoadedAsSigned ==
    \A k \in DOMAIN evidence : evidence[k].authorized =>
        \E n \in DOMAIN manifest :
            /\ SignedFor(manifest[n], evidence[k])
            /\ \A p \in 1 .. n - 1 : ~Named1(manifest[p], evidence[k].module_id, evidence[k].instance_id)

(* A decision stands: once a name is on the list, the same content asked   *)
(* for under it gets the same answer, tier and reason for good, whatever   *)
(* is inserted in between (insert pushes at the end, find takes the        *)
(* first); only a refusal for want of an entry can change.                 *)
DecisionsStand ==
    \A j, k \in DOMAIN evidence :
        /\ j < k
        /\ evidence[j].module_id = evidence[k].module_id
        /\ evidence[j].instance_id = evidence[k].instance_id
        /\ evidence[j].bytes = evidence[k].bytes
        => evidence[j].reason = "NotAllowlisted" \/ evidence[k] = evidence[j]

(* What is loaded is what the root signed, and decisions stand.            *)
AllowlistHolds ==
    /\ LoadedAsSigned
    /\ DecisionsStand
=============================================================================
