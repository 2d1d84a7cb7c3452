--------------------------- MODULE NetlinkSocket ---------------------------
(***************************************************************************)
(* The netlink inet_diag socket of one Poller: pkg/xtcpnl opens it and     *)
(* sends the dump request, the kernel queues the datagrams of the answer   *)
(* on it, and the netlinkers take them off with syscall.Recvfrom.  The     *)
(* kernel is not in the repository; it is modelled by the answers that     *)
(* pkg/netlinker is written to read.                                       *)
(***************************************************************************)
EXTENDS Integers, Sequences

CONSTANTS Dumps,        (* the answers the kernel may give to a dump request *)
          Timeout,      (* -timeout, milliseconds; 0 sets no SO_RCVTIMEO     *)
          KernelPrompt  (* TRUE: a queued answer never misses the timeout    *)

(* What CheckNetlinkMessageType tells apart; "data" is its default.        *)
MessageType == {"data", "noop", "error", "overrun", "done"}

(* A dump is a sequence of datagrams, a datagram a sequence of messages.   *)
(* NLMSG_DONE ends a dump: only the last message of the last datagram may  *)
(* be "done", and a dump may lack it (NLMSG_ERROR answers do).             *)
IsDump(d) ==
    /\ d \in Seq(Seq(MessageType))
    /\ \A i \in DOMAIN d :
          /\ d[i] # <<>>
          /\ \A j \in DOMAIN d[i] :
                d[i][j] = "done" => i = Len(d) /\ j = Len(d[i])

ASSUME SocketAssumption ==
    /\ \A d \in Dumps : IsDump(d)
    /\ Timeout \in Nat
    /\ KernelPrompt \in BOOLEAN

VARIABLES
    socket,   (* the datagrams queued on the socket and not yet received *)
    answers   (* the dumps the kernel has given, one for each request    *)

socketVars == <<socket, answers>>

(* A datagram knows the request it answers (poll, counted from 0) and its  *)
(* place in the dump (num): this is what the properties tell apart.        *)
Datagram == [poll : Nat, num : Nat, msgs : Seq(MessageType)]

SocketTypeOK ==
    /\ socket \in Seq(Datagram)
    /\ answers \in Seq(Dumps)

SocketInit ==
    /\ socket = <<>>
    /\ answers = <<>>

Datagrams(d, p) ==
    [i \in 1..Len(d) |-> [poll |-> p, num |-> i, msgs |-> d[i]]]

(* SendNetlinkDumpRequest and the kernel's answer to it.                   *)
SendDumpRequest ==
    \E d \in Dumps :
        /\ answers' = Append(answers, d)
        /\ socket' = socket \o Datagrams(d, Len(answers))

(* syscall.Recvfrom returns Head(socket): each goes to one reader only.    *)
Recvfrom ==
    /\ socket # <<>>
    /\ socket' = Tail(socket)
    /\ UNCHANGED answers

(* OpenNetlinkSocketWithTimeout: SO_RCVTIMEO in milliseconds, 0 if none is  *)
(* set; from a second on, whole seconds.                                   *)
ReceiveTimeout ==
    IF Timeout >= 1000 THEN (Timeout \div 1000) * 1000 ELSE Timeout

(* syscall.Recvfrom returns EAGAIN (SO_RCVTIMEO) or EINTR.  Neither comes   *)
(* without a receive timeout: the runtime's signals restart the call then. *)
RecvfromTimesOut ==
    /\ ReceiveTimeout # 0
    /\ KernelPrompt => socket = <<>>
    /\ UNCHANGED socketVars
=============================================================================
