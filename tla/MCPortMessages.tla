--------------------------- MODULE MCPortMessages --------------------------
(***************************************************************************)
(* Two senders and a receiver on one port, with messages longer than the   *)
(* channel.                                                                *)
(***************************************************************************)
EXTENDS PortMessages

AllGrants == ThreadId \X Port
PortCalls == {{"SYS_IPC_SEND", "SYS_IPC_SEND_LOCK", "SYS_IPC_SEND_UNLOCK",
               "SYS_IPC_RECV"}}
SenderTokens == Sender \X Port
=============================================================================
