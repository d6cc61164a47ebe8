---------------------------- MODULE PortMessages ---------------------------
(***************************************************************************)
(* Multi-byte messages over a fixed port: senders that follow the          *)
(* discipline the comment on begin_send states (lock, one SYS_IPC_SEND per *)
(* byte, unlock) and a receiver, on top of the kernel.  A message is       *)
(* longer than the channel, so a sender blocks in the middle of one.       *)
(***************************************************************************)
EXTENDS Kernel

CONSTANTS MSG_LEN,       \* bytes in a message
          TheChannel     \* the port the senders share

ASSUME MessageAssumption == MSG_LEN \in Nat \ {0} /\ TheChannel \in Port

VARIABLES
    holding,             \* the threads whose SYS_IPC_SEND_LOCK has returned
    sent,                \* bytes of its message a thread has sent
    received             \* bytes received since the last whole message

msgVars == <<kernelVars, holding, sent, received>>

MsgInit ==
    /\ KernelInit
    /\ holding = {}
    /\ sent = [t \in ThreadId |-> 0]
    /\ received = <<>>

Sender == ThreadId \ {Boot}

(***************************************************************************)
(* The next syscall of a sender.  A call that has returned moves it on; an *)
(* iteration that waits does not.                                          *)
(***************************************************************************)
SenderLock ==
    /\ current \in Sender \ holding
    /\ SYS_IPC_SEND_LOCK(TheChannel)
    /\ holding' = IF call'[current] = NoCall
                  THEN holding \cup {current} ELSE holding
    /\ UNCHANGED <<sent, received, workload>>

SenderSend ==
    /\ current \in holding
    /\ sent[current] < MSG_LEN
    /\ SYS_IPC_SEND(TheChannel)
    /\ sent' = IF call'[current] = NoCall
               THEN [sent EXCEPT ![current] = @ + 1] ELSE sent
    /\ UNCHANGED <<holding, received, workload>>

SenderUnlock ==
    /\ current \in holding
    /\ sent[current] = MSG_LEN
    /\ SYS_IPC_SEND_UNLOCK(TheChannel)
    /\ holding' = holding \ {current}
    /\ sent' = [sent EXCEPT ![current] = 0]
    /\ UNCHANGED <<received, workload>>

SenderStep == SenderLock \/ SenderSend \/ SenderUnlock

(* The receiver, on the boot thread, takes bytes and cuts them into        *)
(* messages by their length.                                               *)
ReceiverStep ==
    /\ current = Boot
    /\ SYS_IPC_RECV(TheChannel)
    /\ received' = IF Len(received) + 1 = MSG_LEN THEN <<>>
                   ELSE Append(received, Head(queue[TheChannel]))
    /\ UNCHANGED <<holding, sent, workload>>

(* Everything else the kernel does; a thread exits between messages only.  *)
OtherStep ==
    /\ \/ Spawn
       \/ Push
       \/ SYS_YIELD
       \/ current \notin holding /\ Exit
       \/ ExitInt
       \/ Tick
       \/ \E token \in Revocable : Revoke(token)
    /\ UNCHANGED <<holding, sent, received, workload>>

MsgNext == SenderStep \/ ReceiverStep \/ OtherStep

(***************************************************************************)
(* A thread that gets the CPU again and again makes its next syscall: a    *)
(* time slice is long compared to the code between two syscalls.           *)
(***************************************************************************)
MsgSpec ==
    /\ MsgInit
    /\ [][MsgNext]_msgVars
    /\ WF_msgVars(Tick /\ UNCHANGED <<holding, sent, received, workload>>)
    /\ \A t \in Sender : SF_msgVars(current = t /\ SenderStep)
    /\ SF_msgVars(ReceiverStep)
    /\ \A t \in ThreadId : SF_msgVars(current = t /\ OtherStep /\ Push)

-----------------------------------------------------------------------------
(* The types of the clients' state.                                        *)
MsgTypeOK ==
    /\ KernelTypeOK
    /\ holding \subseteq Sender
    /\ sent \in [ThreadId -> 0 .. MSG_LEN]
    /\ received \in Seq(Sender) /\ Len(received) < MSG_LEN

(* Two senders' messages never interleave: counting from the last message  *)
(* boundary, the stream of bytes, those received and those in the channel, *)
(* passes from one sender to another only after a multiple of MSG_LEN      *)
(* bytes, whoever was preempted, blocked or revoked.                       *)
Stream == received \o queue[TheChannel]
MessagesContiguous ==
    \A i \in 1 .. Len(Stream) - 1 : Stream[i] # Stream[i + 1] => i % MSG_LEN = 0

(* A send lock that has been claimed is released: its holder gets its      *)
(* bytes through the full channel and its unlock succeeds, unless a token  *)
(* is revoked or expires.                                                  *)
LockReleasedUnlessRevoked ==
    send_lock[TheChannel] ~> ~send_lock[TheChannel] \/ revoked # {}

(* No MSG_LEN bytes from one message boundary to the next mix two senders, *)
(* and the channel, the lock and the clients keep their types: the lock    *)
(* and the blocking send keep messages whole.                              *)
MessagesWhole ==
    /\ MsgTypeOK
    /\ MessagesContiguous
=============================================================================
