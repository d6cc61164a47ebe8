-------------------------------- MODULE Wire --------------------------------
(***************************************************************************)
(* The byte formats of the sockets surface (ipc/src/sockets.rs) and of a   *)
(* MARSHAL reply (ipc/src/marshal.rs), and a stream that reaches their     *)
(* decoders one byte at a time.                                            *)
(*                                                                         *)
(* Tags, outcomes and error kinds have the code's values.  The length      *)
(* fields of marshal.rs have a width each (u32 and u16 in the code) and    *)
(* are little-endian; those of sockets.rs are one byte wide, a Connect's   *)
(* addresses are one byte, and NOT_UTF8 is the byte no string may contain. *)
(***************************************************************************)
EXTENDS Naturals, Sequences, SequencesExt

CONSTANTS
    MAX_BYTE,               \* bytes are 0 .. MAX_BYTE
    NOT_UTF8,
    MAX_SOCKETS,
    MAX_PAYLOAD_LEN,
    MAX_JSON_LEN,
    MAX_MESSAGE_LEN,
    JSON_LEN_BYTES,         \* width of the length before a JSON blob
    STRING_LEN_BYTES,       \* width of the length before a message
    Arriving(_)             \* the bytes that may follow a stream

VARIABLE stream             \* the bytes received so far
wireVars == <<stream>>

Byte == 0 .. MAX_BYTE
Blobs(n) == UNION {[1 .. k -> Byte] : k \in 0 .. n}

(* None, or a message and the bytes it took.                               *)
None == <<>>
Got(m, n) == <<m, n>>
Value(d) == d[1]
Consumed(d) == d[2]
After(b, n) == SubSeq(b, n + 1, Len(b))

-----------------------------------------------------------------------------
(* sockets.rs: errors, requests, responses.                                *)

AlreadyOpen == 0
NotOpen == 1
InvalidLength == 2
ConnectFailedErr == 3
TooManyOpen == 4
InvalidHandle == 5
SocketErrors == 0 .. 5

Connect(h, remote) == [tag |-> 0, body |-> <<h, remote>>]
SendData(h, data) == [tag |-> 1, body |-> <<h, Len(data)>> \o data]
RecvUpTo(h, max) == [tag |-> 2, body |-> <<h, max>>]
Close(h) == [tag |-> 3, body |-> <<h>>]
OpenSocket == [tag |-> 4, body |-> <<>>]

Connected(h) == [tag |-> 0, body |-> <<h>>]
OpenFailed(e) == [tag |-> 1, body |-> <<e>>]
Sent(h, n) == [tag |-> 2, body |-> <<h, n>>]
SendFailed(h, e) == [tag |-> 3, body |-> <<h, e>>]
DataIs(h, data) == [tag |-> 4, body |-> <<h, Len(data)>> \o data]
Closed(h) == [tag |-> 5, body |-> <<h>>]
Error(h, e) == [tag |-> 6, body |-> <<h, e>>]
Opened(h) == [tag |-> 7, body |-> <<h>>]
ConnectFailed(h, e) == [tag |-> 8, body |-> <<h, e>>]

SocketEncode(m) == <<m.tag>> \o m.body

(* A body of n bytes, whatever they are.                                   *)
Fixed(b, n) == IF Len(b) > n THEN Got([tag |-> b[1], body |-> SubSeq(b, 2, n + 1)], n + 1) ELSE None
(* A body of n bytes that ends with a SocketError.                         *)
WithError(b, n) == IF Len(b) > n /\ b[n + 1] \in SocketErrors THEN Fixed(b, n) ELSE None
(* A handle, a length and that many bytes; a length past the bound never   *)
(* becomes a message.                                                      *)
Payload(b) == IF Len(b) >= 3 /\ b[3] <= MAX_PAYLOAD_LEN THEN Fixed(b, 2 + b[3]) ELSE None

Request_decode(b) ==
    IF b = <<>> THEN None ELSE
    CASE b[1] \in {0, 2} -> Fixed(b, 2)
      [] b[1] = 1 -> Payload(b)
      [] b[1] = 3 -> Fixed(b, 1)
      [] b[1] = 4 -> Fixed(b, 0)
      [] OTHER -> None

Response_decode(b) ==
    IF b = <<>> THEN None ELSE
    CASE b[1] \in {0, 5, 7} -> Fixed(b, 1)
      [] b[1] = 1 -> WithError(b, 1)
      [] b[1] = 2 -> Fixed(b, 2)
      [] b[1] \in {3, 6, 8} -> WithError(b, 2)
      [] b[1] = 4 -> Payload(b)
      [] OTHER -> None

-----------------------------------------------------------------------------
(* marshal.rs: a reply is a Decision or an Error.                          *)

Execute == 0
Refuse == 1
HardStop == 2
Outcomes == {Execute, Refuse, HardStop}

Unreachable == 0
Timeout == 1
BadResponse == 2
OtherError == 3
PolicyRefused == 4
ErrorKinds == 0 .. 4

Decision(o, json) == [tag |-> 0, kind |-> o, text |-> json]
MarshalErr(k, msg) == [tag |-> 1, kind |-> k, text |-> msg]

(* A length of w bytes, written and read; what follows it.                 *)
to_le_bytes(n, w) == [i \in 1 .. w |-> (n \div (MAX_BYTE + 1) ^ (i - 1)) % (MAX_BYTE + 1)]
from_le_bytes(b, w) == FoldRight(LAMBDA digit, n : digit + (MAX_BYTE + 1) * n, SubSeq(b, 1, w), 0)
Counted(s, w) == to_le_bytes(Len(s), w) \o s
Text(b, w) == SubSeq(b, w + 1, w + from_le_bytes(b, w))

MarshalEncode(r) ==
    <<r.tag, r.kind>> \o
        CASE r.tag = 0 -> Counted(r.text, JSON_LEN_BYTES)
          [] r.tag = 1 /\ r.kind = Timeout -> <<>>
          [] OTHER -> Counted(r.text, STRING_LEN_BYTES)

Utf8(s) == \A i \in DOMAIN s : s[i] # NOT_UTF8

(* decode_bytes and decode_string.                                         *)
Whole(b, w, max) ==
    Len(b) >= w /\ from_le_bytes(b, w) <= max /\ Len(b) >= w + from_le_bytes(b, w)
decode_bytes(b) ==
    IF Whole(b, JSON_LEN_BYTES, MAX_JSON_LEN)
    THEN LET t == Text(b, JSON_LEN_BYTES) IN Got(t, JSON_LEN_BYTES + Len(t)) ELSE None
decode_string(b) ==
    IF Whole(b, STRING_LEN_BYTES, MAX_MESSAGE_LEN) /\ Utf8(Text(b, STRING_LEN_BYTES))
    THEN LET t == Text(b, STRING_LEN_BYTES) IN Got(t, STRING_LEN_BYTES + Len(t)) ELSE None

MarshalRequestEncode(json) == Counted(json, JSON_LEN_BYTES)
MarshalRequest_decode(b) == decode_bytes(b)

Marshal_decode(b) ==
    LET Then(make(_, _), d) == IF d = None THEN None ELSE Got(make(b[2], Value(d)), 2 + Consumed(d))
    IN  IF Len(b) < 2 THEN None ELSE
        CASE b[1] = 0 /\ b[2] \in Outcomes -> Then(Decision, decode_bytes(After(b, 2)))
          [] b[1] = 1 /\ b[2] = Timeout -> Got(MarshalErr(Timeout, <<>>), 2)
          [] b[1] = 1 /\ b[2] \in ErrorKinds \ {Timeout} -> Then(MarshalErr, decode_string(After(b, 2)))
          [] OTHER -> None

(* status_bytes and status_string: "more", "never" or "whole".  A length   *)
(* is judged when all of it is there, and so is a message's text.          *)
StatusBytes(b) ==
    LET w == JSON_LEN_BYTES
    IN  CASE Len(b) < w -> "more"
          [] Len(b) >= w /\ from_le_bytes(b, w) > MAX_JSON_LEN -> "never"
          [] OTHER -> IF Len(b) < w + from_le_bytes(b, w) THEN "more" ELSE "whole"
StatusText(b) ==
    LET w == STRING_LEN_BYTES
    IN  IF Len(b) < w + from_le_bytes(b, w) THEN "more" ELSE IF Utf8(Text(b, w)) THEN "whole" ELSE "never"
StatusString_lazy(b) == IF Len(b) < STRING_LEN_BYTES THEN "more" ELSE StatusText(b)
StatusString(b) ==
    CASE Len(b) < STRING_LEN_BYTES -> "more"
      [] Len(b) >= STRING_LEN_BYTES /\ from_le_bytes(b, STRING_LEN_BYTES) > MAX_MESSAGE_LEN -> "never"
      [] OTHER -> StatusText(b)

ErrorStatus(b) ==
    CASE Len(b) < 2 -> "more"
      [] Len(b) >= 2 /\ b[2] \notin ErrorKinds -> "never"
      [] OTHER -> IF b[2] = Timeout THEN "whole" ELSE StatusString(After(b, 2))

Verdict(b) ==
    CASE b = <<>> -> "more"
      [] b # <<>> /\ b[1] = 0 ->
             IF Len(b) < 2 THEN "more"
             ELSE IF b[2] \notin Outcomes THEN "never" ELSE StatusBytes(After(b, 2))
      [] b # <<>> /\ b[1] = 1 -> ErrorStatus(b)
      [] OTHER -> "never"

decode_status(b) ==
    CASE Verdict(b) = "more" -> "Incomplete"
      [] Verdict(b) = "never" -> "Malformed"
      [] OTHER -> IF Marshal_decode(b) # None THEN "Complete" ELSE "Malformed"

-----------------------------------------------------------------------------
(* The stream.                                                             *)

WireInit == stream = <<>>

NextByte == \E b \in Arriving(stream) : stream' = Append(stream, b)

-----------------------------------------------------------------------------
(* Every message, and its encoding.                                        *)

Requests ==
    {Connect(h, r) : h \in Byte, r \in Byte} \cup {RecvUpTo(h, n) : h \in Byte, n \in Byte}
        \cup {SendData(h, d) : h \in Byte, d \in Blobs(MAX_PAYLOAD_LEN)}
        \cup {Close(h) : h \in Byte} \cup {OpenSocket}
Responses ==
    {Connected(h) : h \in Byte} \cup {OpenFailed(e) : e \in SocketErrors}
        \cup {Sent(h, n) : h \in Byte, n \in Byte} \cup {SendFailed(h, e) : h \in Byte, e \in SocketErrors}
        \cup {DataIs(h, d) : h \in Byte, d \in Blobs(MAX_PAYLOAD_LEN)}
        \cup {Closed(h) : h \in Byte} \cup {Error(h, e) : h \in Byte, e \in SocketErrors}
        \cup {Opened(h) : h \in Byte} \cup {ConnectFailed(h, e) : h \in Byte, e \in SocketErrors}
Replies ==
    {Decision(o, j) : o \in Outcomes, j \in Blobs(MAX_JSON_LEN)} \cup {MarshalErr(Timeout, <<>>)}
        \cup {MarshalErr(k, t) : k \in ErrorKinds \ {Timeout},
                                 t \in {s \in Blobs(MAX_MESSAGE_LEN) : Utf8(s)}}

(* What a decoder of Messages should make of a stream: the message whose   *)
(* encoding the stream starts with.                                        *)
Expected(Messages, encode(_), b) ==
    LET here == {m \in Messages : b # <<>> /\ m.tag = b[1] /\ IsPrefix(encode(m), b)}
    IN  IF here = {} THEN None
        ELSE LET m == CHOOSE m \in here : TRUE IN Got(m, Len(encode(m)))

(* A socket request and a socket response decode to the message the stream *)
(* starts with, as soon as it is whole and never before, and no stream     *)
(* starts with two: the server and the client can take one byte at a time  *)
(* and be left with an empty buffer after each message (the decoders of    *)
(* sockets.rs against its encoders).                                       *)
SocketCodecExact ==
    /\ Request_decode(stream) = Expected(Requests, SocketEncode, stream)
    /\ Response_decode(stream) = Expected(Responses, SocketEncode, stream)

(* The field of a reply that is being read is not whole yet: a length, or  *)
(* the text after a length that is not too long.                           *)
MidField(b) ==
    /\ Len(b) >= 2
    /\ \/ b[1] = 0 /\ b[2] \in Outcomes /\ Len(b) < 2 + JSON_LEN_BYTES
       \/ /\ b[1] = 1 /\ b[2] \in ErrorKinds \ {Timeout}
          /\ \/ Len(b) < 2 + STRING_LEN_BYTES
             \/ \E n \in 0 .. MAX_MESSAGE_LEN :
                   /\ SubSeq(b, 3, 2 + STRING_LEN_BYTES) = to_le_bytes(n, STRING_LEN_BYTES)
                   /\ Len(b) < 2 + STRING_LEN_BYTES + n

(* decode_status says Complete when a whole reply has arrived, Incomplete  *)
(* while the bytes are the beginning of one, and Malformed when no reply   *)
(* begins that way, so that a stream once Malformed stays Malformed: what  *)
(* its doc comment promises a streaming caller, and what keeps a faulty    *)
(* reply (fail-closed) apart from a slow one (fail-open).  The exception:  *)
(* in the middle of a length or of a message's text it says Incomplete     *)
(* even when no reply begins that way (a length already too long, a byte   *)
(* that is no UTF-8), although ResponseDecode calls Incomplete "a (so far) *)
(* valid prefix of a message".                                             *)
StatusExact ==
    /\ decode_status(stream) =
           CASE Expected(Replies, MarshalEncode, stream) # None -> "Complete"
             [] \E r \in Replies : IsStrictPrefix(stream, MarshalEncode(r)) -> "Incomplete"
             [] OTHER -> IF MidField(stream) THEN "Incomplete" ELSE "Malformed"
    /\ \A n \in DOMAIN stream :
           decode_status(SubSeq(stream, 1, n)) = "Malformed" => decode_status(stream) = "Malformed"

(* Both wire formats are read exactly as they are written, from any        *)
(* beginning of a stream: a whole message gives that message, anything     *)
(* else none, and a reply is called malformed only when it can no longer   *)
(* become one, at the latest at the end of the field that is wrong.        *)
WireExact ==
    /\ SocketCodecExact
    /\ StatusExact
=============================================================================
