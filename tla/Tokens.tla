------------------------------- MODULE Tokens -------------------------------
(***************************************************************************)
(* Capability tokens (capability-manager) and the checks the two kernels   *)
(* make with them (capabilities.rs of kernel and kernel-arm): expiry,      *)
(* resource and signature, revocation by signature and by its 64-bit       *)
(* fingerprint, and the tokens that name a range: of I/O ports on x86_64,  *)
(* of device memory on ARM.                                                *)
(*                                                                         *)
(* A signature is what was signed; fingerprints of different signatures    *)
(* may collide.  Ports and addresses are MAX_PORT-bounded machine words:   *)
(* a checked operation past MAX_PORT fails, an unchecked one wraps.        *)
(***************************************************************************)
EXTENDS Naturals, FiniteSets

CONSTANTS
    MAX_PORT,               \* u16::MAX; usize::MAX for device memory
    Lengths, Widths,        \* range lengths asked for, access widths
    LIFETIME, MAX_TICKS, MAX_TOKENS

ASSUME TokensAssumption ==
    MAX_PORT \in Nat /\ Lengths \subseteq Nat /\ Widths \subseteq Nat /\ LIFETIME \in Nat

VARIABLES
    ticks,
    issued,                 \* tokens, each with the range its issuer asked for
    revocations,            \* RevocationList: signatures and their fingerprints
    access                  \* the last access asked for and its answer

tokenVars == <<ticks, issued, revocations, access>>

Word == 0 .. MAX_PORT
checked_add(a, b) == IF a + b \in Word THEN {a + b} ELSE {}

-----------------------------------------------------------------------------
(* The resource a range token names.  A port range is written down with    *)
(* its last port, computed in a wider type, and read back as two u16.      *)

ioport_range_resource(base, len) ==
    IF len = 0 THEN [kind |-> "ioport:empty", first |-> 0, second |-> 0]
    ELSE [kind |-> "ioport", first |-> base, second |-> base + len - 1]
mmio_window_resource(base, len) == [kind |-> "mmio", first |-> base, second |-> len]
port_resource == [kind |-> "port", first |-> 0, second |-> 0]

parse_ioport_range(r) ==
    IF r.kind = "ioport" /\ r.first \in Word /\ r.second \in Word /\ r.first <= r.second
    THEN {<<r.first, r.second>>} ELSE {}

ioport_access_within_wrapping(r, port, width) ==
    \E range \in parse_ioport_range(r) :
        /\ width > 0
        /\ range[1] <= port /\ (port + width - 1) % (MAX_PORT + 1) <= range[2]
ioport_access_within(r, port, width) ==
    \E range \in parse_ioport_range(r) :
        /\ width > 0
        /\ \E last \in checked_add(port, width - 1) : range[1] <= port /\ last <= range[2]

mmio_window_contains(granted_base, granted_len, requested_base, requested_len) ==
    \E granted_end \in checked_add(granted_base, granted_len) :
        \E requested_end \in checked_add(requested_base, requested_len) :
            requested_base >= granted_base /\ requested_end <= granted_end

-----------------------------------------------------------------------------
canonical_token(t) == <<t.resource, t.issued_at, t.expires_at>>
signature(t) == canonical_token(t)
signature_fingerprint(sig) == sig[3] % 2

(* CapabilityToken::verify, against the token's own resource, which the    *)
(* range checks use; the signature is over the token's own fields.         *)
verify_token(t) == ticks <= t.expires_at

is_revoked(t) == signature(t) \in revocations.signatures
is_fingerprint_revoked(fp) == fp \in revocations.fingerprints

(* authorized_for_ioport; check_mmio_window, which knows no revocation.    *)
authorized_for_ioport(t, port, width) ==
    ~is_revoked(t) /\ verify_token(t) /\ ioport_access_within(t.resource, port, width)
check_mmio_window(t, base, len) ==
    /\ verify_token(t)
    /\ t.resource.kind = "mmio" /\ mmio_window_contains(t.resource.first, t.resource.second, base, len)

-----------------------------------------------------------------------------
NoAccess == [on |-> "none"]
TokensInit ==
    /\ ticks = 0
    /\ issued = {}
    /\ revocations = [signatures |-> {}, fingerprints |-> {}]
    /\ access = NoAccess

issue_token(resource, base, len) ==
    /\ Cardinality(issued) < MAX_TOKENS
    /\ issued' = issued \cup {[resource |-> resource, issued_at |-> ticks, expires_at |-> ticks + LIFETIME,
                               base |-> base, len |-> len]}
    /\ access' = NoAccess
    /\ UNCHANGED <<ticks, revocations>>

WithRevoked(list, t) ==
    [signatures |-> list.signatures \cup {signature(t)},
     fingerprints |-> list.fingerprints \cup {signature_fingerprint(signature(t))}]
revoke_token(t) ==
    /\ revocations' = WithRevoked(revocations, t)
    /\ access' = NoAccess
    /\ UNCHANGED <<ticks, issued>>

TimePasses ==
    /\ ticks < MAX_TICKS
    /\ ticks' = ticks + 1
    /\ access' = NoAccess
    /\ UNCHANGED <<issued, revocations>>

(* SYS_PORT_IN and SYS_PORT_OUT; the mapping of a device window; the       *)
(* driver's SYS_CAP_IS_REVOKED.                                            *)
port_io(t) ==
    \E port \in Word, width \in Widths :
        access' = [on |-> "ports", token |-> t, at |-> port, len |-> width,
                   ok |-> authorized_for_ioport(t, port, width)]
map_window(t) ==
    \E base \in Word, len \in Lengths :
        access' = [on |-> "memory", token |-> t, at |-> base, len |-> len, ok |-> check_mmio_window(t, base, len)]
ask_revoked(t) ==
    access' = [on |-> "query", token |-> t, at |-> 0, len |-> 0,
               ok |-> is_fingerprint_revoked(signature_fingerprint(signature(t)))]
Use(t) == (port_io(t) \/ map_window(t) \/ ask_revoked(t)) /\ UNCHANGED <<ticks, issued, revocations>>

TokensNext ==
    \/ \E base \in Word, len \in Lengths :
          \/ issue_token(ioport_range_resource(base, len), base, len)
          \/ issue_token(mmio_window_resource(base, len), base, len)
    \/ issue_token(port_resource, 0, 0)
    \/ \E t \in issued : revoke_token(t) \/ Use(t)
    \/ TimePasses

TokensSpec == TokensInit /\ [][TokensNext]_tokenVars

-----------------------------------------------------------------------------
Asked(a) == {a.at + k : k \in 0 .. a.len - 1}
Granted(t) == {t.base + k : k \in 0 .. t.len - 1}

(* An access is allowed exactly when every port it touches is one the      *)
(* token was issued for, the token has not expired and has not been        *)
(* revoked: nothing wraps at the top of the port space, an empty range     *)
(* grants nothing and a token of another kind is no range                  *)
(* (authorized_for_ioport).  A range that was asked for past the last port *)
(* grants nothing at all.                                                  *)
PortAccessExact ==
    access.on = "ports" =>
        LET t == access.token
        IN  access.ok <=> /\ t.resource.kind = "ioport"
                          /\ access.len > 0 /\ Asked(access) \subseteq Granted(t)
                          /\ Granted(t) \subseteq Word
                          /\ ticks <= t.issued_at + LIFETIME
                          /\ <<t.resource, t.issued_at, t.expires_at>> \notin revocations.signatures

(* A device window is mapped only inside the window the token names, on    *)
(* both sides short of the top of the address space (check_mmio_window).   *)
WindowInside ==
    (access.on = "memory" /\ access.ok) =>
        /\ access.token.resource.kind = "mmio"
        /\ Asked(access) \subseteq Granted(access.token) \cap Word
        /\ ticks <= access.token.issued_at + LIFETIME

(* A revoked token is revoked for every asker: the fingerprint query, which*)
(* the file server relies on, may refuse a token it should not, but never  *)
(* passes one whose signature is on the list (RevocationList::revoke keeps *)
(* both sets).                                                             *)
QueryFailsClosed ==
    (access.on = "query" /\ is_revoked(access.token)) => access.ok

(* A token opens exactly the ports it names, until it expires or is        *)
(* revoked, and only the window it names, until it expires                 *)
(* (check_mmio_window does not ask for revocations); the query knows of    *)
(* every revocation.                                                       *)
TokensHold ==
    /\ PortAccessExact
    /\ WindowInside
    /\ QueryFailsClosed
=============================================================================
