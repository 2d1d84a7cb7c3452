----------------------------- MODULE Netlinker -----------------------------
(***************************************************************************)
(* The netlinker goroutines of one Poller (pkg/netlinker).  The Poller     *)
(* starts one per id for each dump; each takes datagrams off the shared    *)
(* socket, reads their messages in order, sends the sampled ones to        *)
(* netlinkerCh, signals NLMSG_DONE to the Poller, and returns when its     *)
(* Recvfrom times out.  Module NetlinkerParse has one of them in detail:   *)
(* the bytes of its datagrams, the errors of Recvfrom and its counters.    *)
(***************************************************************************)
EXTENDS NetlinkSocket, Channels

CONSTANTS Netlinkers,      (* the netlinker ids: -netlinkers4 / -netlinkers6 *)
          SamplingModulus  (* -samplingModulus                               *)

(* A modulus of 0 divides by zero in the first datagram.                   *)
ASSUME NetlinkerAssumption == SamplingModulus \in Nat \ {0}

VARIABLES
    netlinkerPc,      (* where each netlinker is                            *)
    packet,           (* the datagram it reads, NoPacket between datagrams  *)
    netlinkMsgCount,  (* the index of its next message in that datagram     *)
    startTime         (* the poll time it was started with                  *)

netlinkerVars == <<netlinkerPc, packet, netlinkMsgCount, startTime>>

NoPacket == [poll |-> 0, num |-> 0, msgs |-> <<>>]

NetlinkerTypeOK ==
    /\ netlinkerPc \in [Netlinkers ->
          {"off", "recvfrom", "read", "blocked", "sendDone", "stats"}]
    /\ packet \in [Netlinkers -> Datagram]
    /\ netlinkMsgCount \in [Netlinkers -> Nat]
    /\ startTime \in [Netlinkers -> Nat]

NetlinkerInit ==
    /\ netlinkerPc = [n \in Netlinkers |-> "off"]
    /\ packet = [n \in Netlinkers |-> NoPacket]
    /\ netlinkMsgCount = [n \in Netlinkers |-> 0]
    /\ startTime = [n \in Netlinkers |-> 0]

(* go netlinker.Netlinker(..., startPollTime, ...), for every id.          *)
StartNetlinkers(time) ==
    /\ netlinkerPc' = [n \in Netlinkers |-> "recvfrom"]
    /\ startTime' = [n \in Netlinkers |-> time]
    /\ UNCHANGED <<packet, netlinkMsgCount>>

NetlinkersDone == \A n \in Netlinkers : netlinkerPc[n] = "off"

-----------------------------------------------------------------------------
Goto(n, pc) == netlinkerPc' = [netlinkerPc EXCEPT ![n] = pc]

RecvDatagram(n) ==
    /\ netlinkerPc[n] = "recvfrom"
    /\ Recvfrom
    /\ packet' = [packet EXCEPT ![n] = Head(socket)]
    /\ Goto(n, "read")
    /\ UNCHANGED <<channelVars, netlinkMsgCount, startTime>>

(* nerr.Temporary(): the loop over datagrams ends.                         *)
RecvTemporary(n) ==
    /\ netlinkerPc[n] = "recvfrom"
    /\ RecvfromTimesOut
    /\ Goto(n, "stats")
    /\ UNCHANGED <<channelVars, packet, netlinkMsgCount, startTime>>

(* The type and the inet_diag content of the message being read.           *)
Type(n) == packet[n].msgs[netlinkMsgCount[n] + 1]

MessageOf(n) == [poll |-> packet[n].poll, num |-> packet[n].num,
                 idx |-> netlinkMsgCount[n], time |-> startTime[n]]

(* The count restarts at 0 with every datagram.                            *)
Sampled(count) == SamplingModulus = 1 \/ count % SamplingModulus = 1

(* The datagram is done with: the next Recvfrom, and a count from 0.       *)
NextDatagram(n) ==
    /\ packet' = [packet EXCEPT ![n] = NoPacket]
    /\ netlinkMsgCount' = [netlinkMsgCount EXCEPT ![n] = 0]
    /\ Goto(n, "recvfrom")
    /\ UNCHANGED startTime

(* The message is done with: the next one, or the next datagram.           *)
NextMessage(n) ==
    \/ /\ netlinkMsgCount[n] + 1 < Len(packet[n].msgs)
       /\ netlinkMsgCount' = [netlinkMsgCount EXCEPT ![n] = @ + 1]
       /\ Goto(n, "read")
       /\ UNCHANGED <<packet, startTime>>
    \/ /\ netlinkMsgCount[n] + 1 = Len(packet[n].msgs)
       /\ NextDatagram(n)

ReadData(n) == netlinkerPc[n] = "read" /\ Type(n) = "data"

SkipMessage(n) ==
    /\ ReadData(n)
    /\ ~Sampled(netlinkMsgCount[n])
    /\ NextMessage(n)
    /\ UNCHANGED <<socketVars, channelVars>>

(* select { case out <- m: ...                                             *)
SendMessage(n) ==
    /\ ReadData(n)
    /\ Sampled(netlinkMsgCount[n])
    /\ Send(MessageOf(n))
    /\ NextMessage(n)
    /\ UNCHANGED socketVars

(* Mutant of SendWouldBlock: a message that finds no room is dropped.      *)
SendOrDrop(n) ==
    /\ ReadData(n)
    /\ Sampled(netlinkMsgCount[n])
    /\ ~HasRoom
    /\ NextMessage(n)
    /\ UNCHANGED <<socketVars, channelVars>>

(* ... default: outBlocked++ ...                                           *)
SendWouldBlock(n) ==
    /\ ReadData(n)
    /\ Sampled(netlinkMsgCount[n])
    /\ ~HasRoom
    /\ Goto(n, "blocked")
    /\ UNCHANGED <<socketVars, channelVars, packet, netlinkMsgCount, startTime>>

(* ... out <- m // block                                                   *)
SendBlocked(n) ==
    /\ netlinkerPc[n] = "blocked"
    /\ Send(MessageOf(n))
    /\ NextMessage(n)
    /\ UNCHANGED socketVars

(* NLMSG_NOOP, NLMSG_ERROR, NLMSG_OVERRUN: what follows in the datagram is *)
(* not read.                                                               *)
ReadControl(n) ==
    /\ netlinkerPc[n] = "read"
    /\ Type(n) \in {"noop", "error", "overrun"}
    /\ NextDatagram(n)
    /\ UNCHANGED <<socketVars, channelVars>>

ReadDone(n) ==
    /\ netlinkerPc[n] = "read"
    /\ Type(n) = "done"
    /\ Goto(n, "sendDone")
    /\ UNCHANGED <<socketVars, channelVars, packet, netlinkMsgCount, startTime>>

(* Mutant of SignalDone: the DONE is signalled again for the same message. *)
SignalDoneTwice(n) ==
    /\ netlinkerPc[n] = "sendDone"
    /\ UNCHANGED netlinkerVars

(* The netlinker's half of the unbuffered netlinkerRecievedDoneCh.  It     *)
(* ends the datagram, not the netlinker, which calls Recvfrom again.       *)
SignalDone(n) ==
    /\ netlinkerPc[n] = "sendDone"
    /\ NextDatagram(n)

(* The statistics, then wg.Done().                                         *)
ReturnNetlinker(n) ==
    /\ netlinkerPc[n] = "stats"
    /\ SendToStater("netlinker")
    /\ Goto(n, "off")
    /\ UNCHANGED <<socketVars, packet, netlinkMsgCount, startTime>>

(* Every step a netlinker takes on its own.                                *)
NetlinkerStep(n) ==
    \/ RecvDatagram(n)
    \/ RecvTemporary(n)
    \/ SkipMessage(n)
    \/ SendMessage(n)
    \/ SendWouldBlock(n)
    \/ SendBlocked(n)
    \/ ReadControl(n)
    \/ ReadDone(n)
    \/ ReturnNetlinker(n)
=============================================================================
