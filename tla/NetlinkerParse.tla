--------------------------- MODULE NetlinkerParse ---------------------------
(***************************************************************************)
(* The netlinkers at work on the bytes of their datagrams: the actions of  *)
(* module Netlinker in detail.  A netlinker receives a datagram into its   *)
(* buffer, and walks over the netlink messages there with a reader over    *)
(* the whole buffer and a count of the bytes that remain of the datagram:  *)
(* it reads a header, and the payload that the header's Length announces,  *)
(* and sends the payload on.  Where the flags are not exactly NLM_F_MULTI  *)
(* it reads no payload, and takes the bytes there for headers.             *)
(*                                                                         *)
(* The Poller, which starts the netlinkers, sends the dump requests and    *)
(* takes one signal of NLMSG_DONE for each, is reduced to StartPoll and to *)
(* whether it waits for that signal (module Poller has the rest), and the  *)
(* inetdiagers to taking messages.                                         *)
(***************************************************************************)
EXTENDS NetlinkerStater, FiniteSetsExt

CONSTANTS Dumps,             (* the answers the kernel may give to a request *)
          PacketBufferSizes, (* -packetSize (or the page size) times         *)
                             (* -packetSizeMply                              *)
          Strays,            (* headers that bytes which are none look like  *)
          SamplingModulus,
          NetlinkerChSize,
          MaxDatagrams       (* bound: datagrams in the answers of all      *)
                             (* polls, and failing Recvfroms                *)

HdrLen == 16

(* CheckNetlinkMessageType's types, and the flags Netlinker looks for.     *)
MessageType == {"data", "noop", "error", "overrun", "done"}
Header == [type : MessageType, multi : BOOLEAN, len : Nat]

(* Message i of a datagram lies at start[i], and the datagram ends with    *)
(* the last.  NLMSG_ALIGN adds nothing, the attributes of inet_diag being  *)
(* aligned already.                                                        *)
IsDatagram(d) ==
    /\ d.msgs \in Seq(Header) /\ d.msgs # <<>>
    /\ d.start \in [1 .. Len(d.msgs) + 1 -> Nat]
    /\ d.start[1] = 0
    /\ \A i \in DOMAIN d.msgs :
          /\ d.msgs[i].len >= HdrLen
          /\ d.start[i + 1] = d.start[i] + d.msgs[i].len

(* A dump is a sequence of datagrams.                                      *)
IsDump(dump) ==
    /\ dump \in Seq([msgs : Seq(Header), start : Seq(Nat)])
    /\ \A i \in DOMAIN dump : IsDatagram(dump[i])

ASSUME NetlinkerParseAssumption ==
    /\ \A dump \in Dumps : IsDump(dump)
    /\ PacketBufferSizes \subseteq Nat
    /\ Strays \subseteq Header
    /\ SamplingModulus \in Nat \ {0}
    /\ NetlinkerChSize \in Nat \ {0}
    /\ MaxDatagrams \in Nat

VARIABLES
    bufferSize,      (* the size of a netlinker's packetBuffer              *)
    polls,           (* how many polls there have been                      *)
    datagrams,       (* how many datagrams their answers had, and failures  *)
    pollerWaits,     (* the Poller is to receive from netlinkerRecievedDoneCh *)
    socket,          (* the datagrams queued and not yet received           *)
    netlinkerCh,     (* the messages buffered in netlinkerCh                *)
    netlinkerPc,     (* where each netlinker is                             *)
    packet,          (* the datagram in its buffer                          *)
    offset,          (* where its packetReader is                           *)
    remaining,       (* packetBufferBytesRemaining                          *)
    netlinkMsgCount, (* the index of the message in work                    *)
    header,          (* the netlinkMsgHeader read last                      *)
    at,              (* the message that header is of, 0 if it is of none   *)
    whole,           (* the payload read last is that of message at         *)
    stats,           (* what it reports when it returns                     *)
    taken            (* history: the datagrams it has taken off the socket  *)

pollVars == <<bufferSize, polls, datagrams, pollerWaits>>
walkVars == <<packet, offset, remaining, netlinkMsgCount, header, at, whole>>
netlinkerParseVars ==
    <<netlinkerStaterVars, pollVars, socket, netlinkerCh, netlinkerPc,
      walkVars, stats, taken>>

(* A datagram also knows the poll it answers and its place in the dump.    *)
NoPacket == [poll |-> 0, num |-> 0, msgs |-> <<>>, start |-> <<0>>]
NoHeader == [type |-> "data", multi |-> FALSE, len |-> 0]

DatagramsOf(dump, p) ==
    [i \in DOMAIN dump |-> [poll |-> p, num |-> i, msgs |-> dump[i].msgs,
                            start |-> dump[i].start]]

NetlinkerParseInit ==
    /\ NetlinkerStaterInit
    /\ bufferSize \in PacketBufferSizes
    /\ polls = 0
    /\ datagrams = 0
    /\ pollerWaits = FALSE
    /\ socket = <<>>
    /\ netlinkerCh = <<>>
    /\ netlinkerPc = [n \in Netlinkers |-> "off"]
    /\ packet = [n \in Netlinkers |-> NoPacket]
    /\ offset = [n \in Netlinkers |-> 0]
    /\ remaining = [n \in Netlinkers |-> 0]
    /\ netlinkMsgCount = [n \in Netlinkers |-> 0]
    /\ header = [n \in Netlinkers |-> NoHeader]
    /\ at = [n \in Netlinkers |-> 0]
    /\ whole = [n \in Netlinkers |-> FALSE]
    /\ stats = [n \in Netlinkers |-> NoCounts]
    /\ taken = [n \in Netlinkers |-> <<>>]

-----------------------------------------------------------------------------
(* The Poller starts the netlinkers of a poll and sends its request, once  *)
(* it has received the DONE of the poll before and its netlinkers have     *)
(* returned.                                                               *)
StartPoll ==
    /\ ~pollerWaits /\ pollerWaits' = TRUE
    /\ \A n \in Netlinkers : netlinkerPc[n] = "off"
    /\ polls' = polls + 1
    /\ netlinkerPc' = [n \in Netlinkers |-> "recvfrom"]
    /\ \E dump \in Dumps :
          /\ socket' = socket \o DatagramsOf(dump, polls')
          /\ datagrams' = datagrams + Len(dump)
    /\ datagrams' <= MaxDatagrams
    /\ UNCHANGED <<netlinkerStaterVars, bufferSize, netlinkerCh, walkVars,
                   stats, taken>>

(* An inetdiager takes a message.                                          *)
TakeMessage ==
    /\ netlinkerCh # <<>>
    /\ netlinkerCh' = Tail(netlinkerCh)
    /\ UNCHANGED <<netlinkerStaterVars, pollVars, socket, netlinkerPc,
                   walkVars, stats, taken>>

StaterStep ==
    /\ DialStatsd \/ DialFails \/ ReceiveReport
    /\ UNCHANGED <<pollVars, socket, netlinkerCh, netlinkerPc, walkVars,
                   stats, taken>>

-----------------------------------------------------------------------------
Goto(n, pc) == netlinkerPc' = [netlinkerPc EXCEPT ![n] = pc]

Amount(names, k) == [c \in Counter |-> IF c \in names THEN k ELSE 0]

Count(n, more) == stats' = [stats EXCEPT ![n] = Plus(@, more)]

DatagramSize(d) == d.start[Len(d.msgs) + 1]

(* What Recvfrom returns: no more than the buffer holds, and the rest of   *)
(* the datagram is lost.                                                   *)
InSize(d) == Min({DatagramSize(d), bufferSize})

TakeDatagram(n) ==
    /\ netlinkerPc[n] = "recvfrom"
    /\ socket # <<>>
    /\ socket' = Tail(socket)
    /\ taken' = [taken EXCEPT ![n] = Append(@, Head(socket))]
    /\ UNCHANGED <<netlinkerStaterVars, pollVars, netlinkerCh>>

RecvDatagram(n) ==
    /\ TakeDatagram(n)
    /\ InSize(Head(socket)) >= HdrLen
    /\ packet' = [packet EXCEPT ![n] = Head(socket)]
    /\ offset' = [offset EXCEPT ![n] = 0]
    /\ remaining' = [remaining EXCEPT ![n] = InSize(Head(socket))]
    /\ netlinkMsgCount' = [netlinkMsgCount EXCEPT ![n] = 0]
    /\ Goto(n, "header")
    /\ Count(n, Amount({"in"}, InSize(Head(socket))))
    /\ UNCHANGED <<header, at, whole>>

(* Shorter than a header: nastyContinue++.                                 *)
RecvShort(n) ==
    /\ TakeDatagram(n)
    /\ InSize(Head(socket)) < HdrLen
    /\ Count(n, Amount({"packets", "nasty"}, 1))
    /\ UNCHANGED <<netlinkerPc, walkVars>>

(* An error that is not temporary, such as ENOBUFS: nastyContinue++.       *)
RecvError(n) ==
    /\ netlinkerPc[n] = "recvfrom"
    /\ datagrams < MaxDatagrams
    /\ datagrams' = datagrams + 1
    /\ Count(n, Amount({"packets", "nasty"}, 1))
    /\ UNCHANGED <<netlinkerStaterVars, bufferSize, polls, pollerWaits, socket,
                   netlinkerCh, netlinkerPc, walkVars, taken>>

(* A time-out or EINTR: the loop over datagrams ends.                      *)
RecvTemporary(n) ==
    /\ netlinkerPc[n] = "recvfrom"
    /\ Goto(n, "stats")
    /\ UNCHANGED <<netlinkerStaterVars, pollVars, socket, netlinkerCh,
                   walkVars, stats, taken>>

(* What a netlinker's steps within a datagram leave alone.                 *)
WithinDatagram ==
    UNCHANGED <<pollVars, socket, taken>>

(* The header at the reader's place: a message's own, or what bytes that   *)
(* are none look like.                                                     *)
ReadHeader(n) ==
    /\ netlinkerPc[n] = "header"
    /\ \/ \E i \in DOMAIN packet[n].msgs :
             /\ offset[n] = packet[n].start[i]
             /\ at' = [at EXCEPT ![n] = i]
             /\ header' = [header EXCEPT ![n] = packet[n].msgs[i]]
       \/ /\ \A i \in DOMAIN packet[n].msgs : offset[n] # packet[n].start[i]
          /\ at' = [at EXCEPT ![n] = 0]
          /\ \E h \in Strays : header' = [header EXCEPT ![n] = h]
    /\ offset' = [offset EXCEPT ![n] = @ + HdrLen]
    /\ remaining' = [remaining EXCEPT ![n] = @ - HdrLen]
    /\ Goto(n, "check")
    /\ WithinDatagram
    /\ UNCHANGED <<netlinkerStaterVars, netlinkerCh, packet, netlinkMsgCount,
                   whole, stats>>

(* The datagram is done with; what is left in the variables of the walk is *)
(* not looked at again.                                                    *)
NextDatagram(n) ==
    /\ Goto(n, "recvfrom")
    /\ packet' = [packet EXCEPT ![n] = NoPacket]
    /\ offset' = [offset EXCEPT ![n] = 0]
    /\ remaining' = [remaining EXCEPT ![n] = 0]
    /\ netlinkMsgCount' = [netlinkMsgCount EXCEPT ![n] = 0]
    /\ header' = [header EXCEPT ![n] = NoHeader]
    /\ at' = [at EXCEPT ![n] = 0]
    /\ whole' = [whole EXCEPT ![n] = FALSE]

(* Mutant of Another: the walk goes on while any byte remains.             *)
AnotherByte(n) == remaining[n] > 0

(* The condition of the loop over a datagram's messages.                   *)
Another(n) == remaining[n] >= HdrLen

(* The message is done with: another of the datagram, or another datagram. *)
NextMessage(n, more) ==
    \/ /\ Another(n)
       /\ Goto(n, "header")
       /\ netlinkMsgCount' = [netlinkMsgCount EXCEPT ![n] = @ + 1]
       /\ Count(n, Plus(more, Amount({"msgs"}, 1)))
       /\ UNCHANGED <<packet, offset, remaining, header, at, whole>>
    \/ /\ ~Another(n)
       /\ NextDatagram(n)
       /\ Count(n, Plus(more, Amount({"msgs", "packets"}, 1)))

(* NLMSG_NOOP, NLMSG_ERROR and NLMSG_OVERRUN end the datagram.             *)
ReadControl(n) ==
    /\ netlinkerPc[n] = "check"
    /\ header[n].type \in {"noop", "error", "overrun"}
    /\ NextDatagram(n)
    /\ Count(n, Amount({"errors", "packets"}, 1))
    /\ WithinDatagram
    /\ UNCHANGED <<netlinkerStaterVars, netlinkerCh>>

ReadDone(n) ==
    /\ netlinkerPc[n] = "check"
    /\ header[n].type = "done"
    /\ Goto(n, "sendDone")
    /\ WithinDatagram
    /\ UNCHANGED <<netlinkerStaterVars, netlinkerCh, walkVars, stats>>

(* The Poller takes the signal, one in each poll: the datagram is done     *)
(* with.  A second one finds nobody at the other end of the channel.       *)
SignalDone(n) ==
    /\ netlinkerPc[n] = "sendDone"
    /\ pollerWaits /\ pollerWaits' = FALSE
    /\ NextDatagram(n)
    /\ Count(n, Amount({"packets"}, 1))
    /\ UNCHANGED <<bufferSize, polls, datagrams, socket, taken,
                   netlinkerStaterVars, netlinkerCh>>

(* default: netlinkMsgErrorCount++, and the payload is left to the reader. *)
ReadOtherFlags(n) ==
    /\ netlinkerPc[n] = "check"
    /\ header[n].type = "data" /\ ~header[n].multi
    /\ NextMessage(n, Amount({"errors"}, 1))
    /\ WithinDatagram
    /\ UNCHANGED <<netlinkerStaterVars, netlinkerCh>>

-----------------------------------------------------------------------------
(* case unix.NLM_F_MULTI: a slice for the payload, as long as Length says. *)
HasPayload(n) ==
    netlinkerPc[n] = "check" /\ header[n].type = "data" /\ header[n].multi

PayloadLen(n) == header[n].len - HdrLen
Left(n) == bufferSize - offset[n]

(* A negative length panics.                                               *)
BadLength(n) ==
    /\ HasPayload(n)
    /\ PayloadLen(n) < 0
    /\ panicked' = TRUE
    /\ WithinDatagram
    /\ UNCHANGED <<netlinkerStaterCh, staterVars, netlinkerCh, netlinkerPc,
                   walkVars, stats>>

(* Mutant of ReadBytes: the payload is not taken off the bytes remaining.  *)
ReadBytesUncounted(n) ==
    /\ Count(n, Amount({"read"}, PayloadLen(n)))
    /\ Goto(n, "sample")
    /\ WithinDatagram
    /\ UNCHANGED <<netlinkerStaterVars, netlinkerCh, packet, remaining,
                   netlinkMsgCount, header, at>>

(* What a read of a payload changes, wherever it comes from.               *)
ReadBytes(n) ==
    /\ remaining' = [remaining EXCEPT ![n] = @ - PayloadLen(n)]
    /\ Count(n, Amount({"read"}, PayloadLen(n)))
    /\ Goto(n, "sample")
    /\ WithinDatagram
    /\ UNCHANGED <<netlinkerStaterVars, netlinkerCh, packet, netlinkMsgCount,
                   header, at>>

(* The payload is in the buffer, with what other datagrams have left there *)
(* if a stray header claims more than this one has.                        *)
ReadPayload(n) ==
    /\ HasPayload(n)
    /\ PayloadLen(n) \in 0 .. Left(n)
    /\ offset' = [offset EXCEPT ![n] = @ + PayloadLen(n)]
    /\ whole' = [whole EXCEPT ![n] =
                    at[n] # 0 /\ offset'[n] <= InSize(packet[n])]
    /\ ReadBytes(n)

(* The buffer ends within the payload: io.ErrUnexpectedEOF is not io.EOF,  *)
(* and a payload of zeros is counted and sent.                             *)
ReadPayloadShort(n) ==
    /\ HasPayload(n)
    /\ PayloadLen(n) > Left(n) /\ Left(n) > 0
    /\ offset' = [offset EXCEPT ![n] = bufferSize]
    /\ whole' = [whole EXCEPT ![n] = FALSE]
    /\ ReadBytes(n)

(* Mutant of ReadPayloadEOF: the read is tried again.                      *)
RetryAtEOF(n) ==
    /\ HasPayload(n)
    /\ PayloadLen(n) > 0 /\ Left(n) = 0
    /\ UNCHANGED netlinkerParseVars

(* The buffer ends before the payload: io.EOF, and nothing is sent.        *)
ReadPayloadEOF(n) ==
    /\ HasPayload(n)
    /\ PayloadLen(n) > 0 /\ Left(n) = 0
    /\ NextMessage(n, NoCounts)
    /\ WithinDatagram
    /\ UNCHANGED <<netlinkerStaterVars, netlinkerCh>>

(* Mutant of Sampled: the count is that of the netlinker's life.           *)
SampledOfAll(n) ==
    SamplingModulus = 1 \/ stats[n]["msgs"] % SamplingModulus = 1

Sampled(n) == SamplingModulus = 1 \/ netlinkMsgCount[n] % SamplingModulus = 1

(* TimeSpecandInetDiagMessage, with the datagram it is out of.             *)
MessageOf(n) ==
    [datagram |-> packet[n], idx |-> netlinkMsgCount[n], time |-> polls,
     whole |-> whole[n]]

SkipMessage(n) ==
    /\ netlinkerPc[n] = "sample"
    /\ ~Sampled(n)
    /\ NextMessage(n, NoCounts)
    /\ WithinDatagram
    /\ UNCHANGED <<netlinkerStaterVars, netlinkerCh>>

Send(n) ==
    /\ Len(netlinkerCh) < NetlinkerChSize
    /\ netlinkerCh' = Append(netlinkerCh, MessageOf(n))
    /\ NextMessage(n, Amount({"out"}, PayloadLen(n)))
    /\ WithinDatagram
    /\ UNCHANGED netlinkerStaterVars

SendMessage(n) ==
    /\ netlinkerPc[n] = "sample"
    /\ Sampled(n)
    /\ Send(n)

SendWouldBlock(n) ==
    /\ netlinkerPc[n] = "sample"
    /\ Sampled(n)
    /\ Len(netlinkerCh) >= NetlinkerChSize
    /\ Goto(n, "blocked")
    /\ Count(n, Amount({"blocked"}, 1))
    /\ WithinDatagram
    /\ UNCHANGED <<netlinkerStaterVars, netlinkerCh, walkVars>>

SendBlocked(n) ==
    /\ netlinkerPc[n] = "blocked"
    /\ Send(n)

(* The report of the netlinker's life, then wg.Done().                     *)
ReturnNetlinker(n) ==
    /\ netlinkerPc[n] = "stats"
    /\ SendReport(n, stats[n])
    /\ Goto(n, "off")
    /\ stats' = [stats EXCEPT ![n] = NoCounts]
    /\ UNCHANGED <<pollVars, socket, netlinkerCh, walkVars, taken>>

-----------------------------------------------------------------------------
Receive(n) ==
    \/ RecvDatagram(n)
    \/ RecvShort(n)
    \/ RecvError(n)
    \/ RecvTemporary(n)

Walk(n) ==
    \/ ReadHeader(n)
    \/ ReadControl(n)
    \/ ReadDone(n)
    \/ SignalDone(n)
    \/ ReadOtherFlags(n)
    \/ BadLength(n)
    \/ ReadPayload(n)
    \/ ReadPayloadShort(n)
    \/ ReadPayloadEOF(n)
    \/ SkipMessage(n)
    \/ SendMessage(n)
    \/ SendWouldBlock(n)
    \/ SendBlocked(n)
    \/ ReturnNetlinker(n)

NetlinkerParseNext ==
    /\ ~panicked
    /\ \/ StartPoll
       \/ TakeMessage
       \/ StaterStep
       \/ \E n \in Netlinkers : Receive(n) \/ Walk(n)

NetlinkerParseSpec ==
    NetlinkerParseInit /\ [][NetlinkerParseNext]_netlinkerParseVars
=============================================================================
