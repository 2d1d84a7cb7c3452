---------------------------- MODULE PollerProofs ----------------------------
(***************************************************************************)
(* Theorems about the pipeline of module Poller, for any netlinkers and    *)
(* inetdiagers, any dumps the kernel may give, any channel sizes and       *)
(* flags.                                                                  *)
(***************************************************************************)
EXTENDS PollerInvariant, SequenceTheorems, TLAPS

(* Type correctness is inductive by itself.                                *)
LEMMA InitTypeOK == Init => TypeOK
<1> SUFFICES ASSUME Init PROVE TypeOK
    OBVIOUS
<1>1. SocketTypeOK
  BY DEF Init, SocketInit, SocketTypeOK
<1>2. ChannelsTypeOK
  BY ChannelsAssumption DEF Init, ChannelsInit, ChannelsTypeOK
<1>3. NetlinkerTypeOK
  BY DEF Init, NetlinkerInit, NetlinkerTypeOK, NoPacket, Datagram
<1>4. InetdiagerTypeOK
  BY DEF Init, InetdiagerInit, InetdiagerTypeOK, NoMessage, Message
<1>5. PollerTypeOK
  BY DEF Init, PollerTypeOK
<1> QED
  BY <1>1, <1>2, <1>3, <1>4, <1>5 DEF TypeOK

(* A step that leaves a component's variables alone keeps its types.       *)
LEMMA UnchangedTypeOK ==
    /\ SocketTypeOK /\ UNCHANGED socketVars => SocketTypeOK'
    /\ ChannelsTypeOK /\ UNCHANGED channelVars => ChannelsTypeOK'
    /\ NetlinkerTypeOK /\ UNCHANGED netlinkerVars => NetlinkerTypeOK'
    /\ InetdiagerTypeOK /\ UNCHANGED inetdiagerVars => InetdiagerTypeOK'
    /\ PollerTypeOK /\ UNCHANGED pollerVars => PollerTypeOK'
<1>1. SocketTypeOK /\ UNCHANGED socketVars => SocketTypeOK'
  BY DEF SocketTypeOK, socketVars
<1>2. ChannelsTypeOK /\ UNCHANGED channelVars => ChannelsTypeOK'
  BY DEF ChannelsTypeOK, channelVars
<1>3. NetlinkerTypeOK /\ UNCHANGED netlinkerVars => NetlinkerTypeOK'
  BY DEF NetlinkerTypeOK, netlinkerVars
<1>4. InetdiagerTypeOK /\ UNCHANGED inetdiagerVars => InetdiagerTypeOK'
  BY DEF InetdiagerTypeOK, inetdiagerVars
<1>5. PollerTypeOK /\ UNCHANGED pollerVars => PollerTypeOK'
  BY DEF PollerTypeOK, pollerVars
<1> QED
  BY <1>1, <1>2, <1>3, <1>4, <1>5

-----------------------------------------------------------------------------
(* The operations on the channels and the socket.                          *)
LEMMA SendTypeOK ==
    ASSUME ChannelsTypeOK, NEW m \in Message, Send(m)
    PROVE  ChannelsTypeOK'
BY ChannelsAssumption DEF ChannelsTypeOK, Send, HasRoom

LEMMA ReceiveTypeOK ==
    ASSUME ChannelsTypeOK, Receive
    PROVE  ChannelsTypeOK' /\ Head(netlinkerCh) \in Message
BY ChannelsAssumption DEF ChannelsTypeOK, Receive

LEMMA SendToStaterTypeOK ==
    ASSUME ChannelsTypeOK, NEW s \in Stater, SendToStater(s)
    PROVE  ChannelsTypeOK'
<1>1. \A t \in Stater : StaterChSize[t] \in Nat
  BY ChannelsAssumption
<1>2. staterCh' \in [Stater -> Nat]
  BY DEF ChannelsTypeOK, SendToStater
<1>3. \A t \in Stater : staterCh'[t] <= StaterChSize[t]
  BY <1>1 DEF ChannelsTypeOK, SendToStater
<1> QED
  BY <1>2, <1>3 DEF ChannelsTypeOK, SendToStater

LEMMA StaterReceiveTypeOK ==
    ASSUME ChannelsTypeOK, NEW s \in Stater, StaterReceive(s)
    PROVE  ChannelsTypeOK'
<1>1. \A t \in Stater : StaterChSize[t] \in Nat
  BY ChannelsAssumption
<1>2. staterCh' \in [Stater -> Nat]
  BY DEF ChannelsTypeOK, StaterReceive
<1>3. \A t \in Stater : staterCh'[t] <= StaterChSize[t]
  BY <1>1 DEF ChannelsTypeOK, StaterReceive
<1> QED
  BY <1>2, <1>3 DEF ChannelsTypeOK, StaterReceive

LEMMA MakeCloseTypeOK ==
    ASSUME ChannelsTypeOK, MakeNetlinkerCh \/ CloseNetlinkerCh
    PROVE  ChannelsTypeOK'
<1>1. CASE MakeNetlinkerCh
  <2>1. netlinkerCh' \in Seq(Message) /\ Len(netlinkerCh') <= NetlinkerChSize
    BY <1>1, ChannelsAssumption DEF MakeNetlinkerCh
  <2> QED
    BY <1>1, <2>1 DEF ChannelsTypeOK, MakeNetlinkerCh
<1>2. CASE CloseNetlinkerCh
  BY <1>2 DEF ChannelsTypeOK, CloseNetlinkerCh
<1> QED
  BY <1>1, <1>2

LEMMA RecvfromTypeOK ==
    ASSUME SocketTypeOK, Recvfrom
    PROVE  SocketTypeOK' /\ Head(socket) \in Datagram
BY DEF SocketTypeOK, Recvfrom

LEMMA DatagramsType ==
    ASSUME NEW d \in Dumps, NEW p \in Nat
    PROVE  Datagrams(d, p) \in Seq(Datagram)
<1>1. d \in Seq(Seq(MessageType))
  BY SocketAssumption DEF IsDump
<1>2. \A i \in 1 .. Len(d) : d[i] \in Seq(MessageType)
  BY <1>1
<1>3. \A i \in 1 .. Len(d) : [poll |-> p, num |-> i, msgs |-> d[i]] \in Datagram
  BY <1>2 DEF Datagram
<1>4. Len(d) \in Nat
  BY <1>1
<1> QED
  BY <1>3, <1>4, IsASeq DEF Datagrams

LEMMA SendDumpRequestTypeOK ==
    ASSUME SocketTypeOK, SendDumpRequest
    PROVE  SocketTypeOK'
<1> PICK d \in Dumps : /\ answers' = Append(answers, d)
                       /\ socket' = socket \o Datagrams(d, Len(answers))
  BY DEF SendDumpRequest
<1>1. Len(answers) \in Nat
  BY DEF SocketTypeOK
<1>2. Datagrams(d, Len(answers)) \in Seq(Datagram)
  BY <1>1, DatagramsType
<1> QED
  BY <1>2 DEF SocketTypeOK

-----------------------------------------------------------------------------
(* The netlinkers.                                                         *)
LEMMA MessageOfType ==
    ASSUME NetlinkerTypeOK, NEW n \in Netlinkers
    PROVE  MessageOf(n) \in Message
BY DEF NetlinkerTypeOK, Datagram, MessageOf, Message

LEMMA NextDatagramTypeOK ==
    ASSUME NetlinkerTypeOK, NEW n \in Netlinkers, NextDatagram(n)
    PROVE  NetlinkerTypeOK'
<1>1. NoPacket \in Datagram
  BY DEF NoPacket, Datagram
<1> QED
  BY <1>1 DEF NetlinkerTypeOK, NextDatagram, Goto

LEMMA NextMessageTypeOK ==
    ASSUME NetlinkerTypeOK, NEW n \in Netlinkers, NextMessage(n)
    PROVE  NetlinkerTypeOK'
<1>1. CASE NextDatagram(n)
  BY <1>1, NextDatagramTypeOK
<1>2. CASE ~NextDatagram(n)
  <2>1. /\ netlinkMsgCount' = [netlinkMsgCount EXCEPT ![n] = netlinkMsgCount[n] + 1]
        /\ netlinkerPc' = [netlinkerPc EXCEPT ![n] = "read"]
        /\ UNCHANGED <<packet, startTime>>
    BY <1>2 DEF NextMessage, Goto
  <2>2. netlinkMsgCount' \in [Netlinkers -> Nat]
    BY <2>1 DEF NetlinkerTypeOK
  <2> QED
    BY <2>1, <2>2 DEF NetlinkerTypeOK
<1> QED
  BY <1>1, <1>2

LEMMA NetlinkerStepTypeOK ==
    ASSUME SocketTypeOK, ChannelsTypeOK, NetlinkerTypeOK,
           NEW n \in Netlinkers, NetlinkerStep(n)
    PROVE  SocketTypeOK' /\ ChannelsTypeOK' /\ NetlinkerTypeOK'
<1>1. CASE RecvDatagram(n)
  <2>1. SocketTypeOK' /\ Head(socket) \in Datagram
    BY <1>1, RecvfromTypeOK DEF RecvDatagram
  <2>2. NetlinkerTypeOK'
    BY <1>1, <2>1 DEF RecvDatagram, Goto, NetlinkerTypeOK
  <2> QED
    BY <1>1, <2>1, <2>2, UnchangedTypeOK DEF RecvDatagram
<1>2. CASE RecvTemporary(n)
  <2>1. NetlinkerTypeOK'
    BY <1>2 DEF RecvTemporary, Goto, NetlinkerTypeOK
  <2> QED
    BY <1>2, <2>1, UnchangedTypeOK DEF RecvTemporary, RecvfromTimesOut
<1>3. CASE SkipMessage(n)
  BY <1>3, NextMessageTypeOK, UnchangedTypeOK DEF SkipMessage
<1>4. CASE SendMessage(n)
  BY <1>4, NextMessageTypeOK, UnchangedTypeOK, MessageOfType, SendTypeOK
     DEF SendMessage
<1>5. CASE SendWouldBlock(n)
  <2>1. NetlinkerTypeOK'
    BY <1>5 DEF SendWouldBlock, Goto, NetlinkerTypeOK
  <2> QED
    BY <1>5, <2>1, UnchangedTypeOK DEF SendWouldBlock
<1>6. CASE SendBlocked(n)
  BY <1>6, NextMessageTypeOK, UnchangedTypeOK, MessageOfType, SendTypeOK
     DEF SendBlocked
<1>7. CASE ReadControl(n)
  BY <1>7, NextDatagramTypeOK, UnchangedTypeOK DEF ReadControl
<1>8. CASE ReadDone(n)
  <2>1. NetlinkerTypeOK'
    BY <1>8 DEF ReadDone, Goto, NetlinkerTypeOK
  <2> QED
    BY <1>8, <2>1, UnchangedTypeOK DEF ReadDone
<1>9. CASE ReturnNetlinker(n)
  <2>1. NetlinkerTypeOK'
    BY <1>9 DEF ReturnNetlinker, Goto, NetlinkerTypeOK
  <2>2. ChannelsTypeOK'
    BY <1>9, SendToStaterTypeOK DEF ReturnNetlinker, Stater
  <2> QED
    BY <1>9, <2>1, <2>2, UnchangedTypeOK DEF ReturnNetlinker
<1> QED
  BY <1>1, <1>2, <1>3, <1>4, <1>5, <1>6, <1>7, <1>8, <1>9 DEF NetlinkerStep

-----------------------------------------------------------------------------
(* The inetdiagers.                                                        *)
LEMMA InetdiagerStepTypeOK ==
    ASSUME ChannelsTypeOK, InetdiagerTypeOK,
           NEW i \in Inetdiagers, InetdiagerStep(i)
    PROVE  ChannelsTypeOK' /\ InetdiagerTypeOK'
<1>1. CASE TakeMessage(i)
  <2>1. ChannelsTypeOK' /\ Head(netlinkerCh) \in Message
    BY <1>1, ReceiveTypeOK DEF TakeMessage
  <2>2. InetdiagerTypeOK'
    BY <1>1, <2>1 DEF TakeMessage, InetdiagerTypeOK
  <2> QED
    BY <2>1, <2>2
<1>2. CASE SendStats(i)
  <2>1. ChannelsTypeOK'
    BY <1>2, SendToStaterTypeOK DEF SendStats, Stater
  <2>2. InetdiagerTypeOK'
    BY <1>2 DEF SendStats, InetdiagerTypeOK
  <2> QED
    BY <2>1, <2>2
<1>3. CASE ProcessMessage(i)
  <2>1. inHand[i] \in Message /\ NoMessage \in Message
    BY DEF InetdiagerTypeOK, NoMessage, Message
  <2>2. (inetdiagMsgCount[i] + 1) % InetdiagerReportModulus \in Nat
    BY InetdiagerAssumption DEF InetdiagerTypeOK
  <2>3. handled' \subseteq Message /\ reported' \subseteq handled'
    BY <1>3, <2>1 DEF ProcessMessage, InetdiagerTypeOK
  <2>4. InetdiagerTypeOK'
    BY <1>3, <2>1, <2>2, <2>3 DEF ProcessMessage, InetdiagerTypeOK
  <2> QED
    BY <1>3, <2>4, UnchangedTypeOK DEF ProcessMessage
<1>4. CASE ReturnInetdiager(i)
  <2>1. InetdiagerTypeOK'
    BY <1>4 DEF ReturnInetdiager, InetdiagerTypeOK
  <2> QED
    BY <1>4, <2>1, UnchangedTypeOK DEF ReturnInetdiager
<1> QED
  BY <1>1, <1>2, <1>3, <1>4 DEF InetdiagerStep

-----------------------------------------------------------------------------
(* The Poller.                                                             *)
LEMMA PollerStepTypeOK ==
    ASSUME TypeOK, PollerStep
    PROVE  TypeOK'
<1> USE DEF TypeOK
<1>1. CASE SendPollerStats
  <2>1. PollerTypeOK'
    BY <1>1 DEF SendPollerStats, PollerGoto, PollerTypeOK
  <2>2. ChannelsTypeOK'
    BY <1>1, SendToStaterTypeOK DEF SendPollerStats, Stater
  <2> QED
    BY <1>1, <2>1, <2>2, UnchangedTypeOK DEF SendPollerStats
<1>2. CASE LeaveLoop
  <2>1. PollerTypeOK'
    BY <1>2 DEF LeaveLoop, PollerGoto, PollerTypeOK
  <2> QED
    BY <1>2, <2>1, UnchangedTypeOK DEF LeaveLoop
<1>3. CASE StartWorkers
  <2>1. PollerTypeOK'
    BY <1>3 DEF StartWorkers, PollerGoto, PollerTypeOK
  <2>2. ChannelsTypeOK'
    BY <1>3, MakeCloseTypeOK DEF StartWorkers
  <2>3. InetdiagerTypeOK'
    BY <1>3 DEF StartWorkers, StartInetdiagers, InetdiagerTypeOK
  <2> QED
    BY <1>3, <2>1, <2>2, <2>3, UnchangedTypeOK DEF StartWorkers
<1>4. CASE KeepWorkers
  <2>1. PollerTypeOK'
    BY <1>4 DEF KeepWorkers, PollerGoto, PollerTypeOK
  <2> QED
    BY <1>4, <2>1, UnchangedTypeOK DEF KeepWorkers
<1>5. CASE SendNetlinkDumpRequest
  <2>1. PollerTypeOK'
    BY <1>5 DEF SendNetlinkDumpRequest, PollerGoto, PollerTypeOK
  <2>2. SocketTypeOK'
    BY <1>5, SendDumpRequestTypeOK DEF SendNetlinkDumpRequest
  <2> QED
    BY <1>5, <2>1, <2>2, UnchangedTypeOK DEF SendNetlinkDumpRequest
<1>6. CASE SpawnNetlinkers
  <2>1. PollerTypeOK'
    BY <1>6 DEF SpawnNetlinkers, PollerGoto, PollerTypeOK
  <2>2. NetlinkerTypeOK'
    BY <1>6 DEF SpawnNetlinkers, StartNetlinkers, NetlinkerTypeOK, PollerTypeOK
  <2> QED
    BY <1>6, <2>1, <2>2, UnchangedTypeOK DEF SpawnNetlinkers
<1>7. CASE \E n \in Netlinkers : ReceiveDone(n)
  <2> PICK n \in Netlinkers : ReceiveDone(n)
    BY <1>7
  <2>1. PollerTypeOK'
    BY DEF ReceiveDone, PollerGoto, PollerTypeOK
  <2>2. NetlinkerTypeOK'
    BY NextDatagramTypeOK DEF ReceiveDone, SignalDone
  <2> QED
    BY <2>1, <2>2, UnchangedTypeOK DEF ReceiveDone
<1>8. CASE WaitNetlinkers
  <2>1. PollerTypeOK'
    BY <1>8 DEF WaitNetlinkers, PollerGoto, PollerTypeOK
  <2> QED
    BY <1>8, <2>1, UnchangedTypeOK DEF WaitNetlinkers
<1>9. CASE CloseChannel
  <2>1. PollerTypeOK'
    BY <1>9 DEF CloseChannel, PollerGoto, PollerTypeOK
  <2>2. ChannelsTypeOK'
    BY <1>9, MakeCloseTypeOK DEF CloseChannel
  <2> QED
    BY <1>9, <2>1, <2>2, UnchangedTypeOK DEF CloseChannel
<1>10. CASE WaitInetdiagers
  <2>1. PollerTypeOK'
    BY <1>10 DEF WaitInetdiagers, PollerGoto, PollerTypeOK
  <2> QED
    BY <1>10, <2>1, UnchangedTypeOK DEF WaitInetdiagers
<1>11. CASE WaitTick
  <2>1. PollerTypeOK'
    <3>1. pollerPc' = "for"
      BY <1>11 DEF WaitTick, PollerGoto
    <3>2. tick' \in BOOLEAN
      BY <1>11, Zenon DEF WaitTick
    <3>3. pollingLoops' \in Nat
      BY <1>11 DEF WaitTick, PollerTypeOK
    <3>4. workersStarted' \in BOOLEAN /\ startPollTime' \in Nat
      BY <1>11 DEF WaitTick, PollerTypeOK
    <3> QED
      BY <3>1, <3>2, <3>3, <3>4 DEF PollerTypeOK
  <2> QED
    BY <1>11, <2>1, UnchangedTypeOK DEF WaitTick
<1> QED
  BY <1>1, <1>2, <1>3, <1>4, <1>5, <1>6, <1>7, <1>8, <1>9, <1>10, <1>11
     DEF PollerStep

-----------------------------------------------------------------------------
LEMMA NextTypeOK == TypeOK /\ [Next]_vars => TypeOK'
<1> SUFFICES ASSUME TypeOK, [Next]_vars PROVE TypeOK'
    OBVIOUS
<1>1. CASE PollerStep
  BY <1>1, PollerStepTypeOK
<1>2. ASSUME NEW n \in Netlinkers, NetlinkerStepOf(n) PROVE TypeOK'
  BY <1>2, NetlinkerStepTypeOK, UnchangedTypeOK DEF TypeOK, NetlinkerStepOf
<1>3. ASSUME NEW i \in Inetdiagers, InetdiagerStepOf(i) PROVE TypeOK'
  BY <1>3, InetdiagerStepTypeOK, UnchangedTypeOK DEF TypeOK, InetdiagerStepOf
<1>4. ASSUME NEW s \in Stater, StaterStep(s) PROVE TypeOK'
  BY <1>4, StaterReceiveTypeOK, UnchangedTypeOK DEF TypeOK, StaterStep
<1>5. CASE Tick
  <2>1. PollerTypeOK'
    BY <1>5 DEF TypeOK, Tick, PollerTypeOK
  <2> QED
    BY <1>5, <2>1, UnchangedTypeOK DEF TypeOK, Tick
<1>6. CASE UNCHANGED vars
  BY <1>6, UnchangedTypeOK DEF TypeOK, vars
<1> QED
  BY <1>1, <1>2, <1>3, <1>4, <1>5, <1>6 DEF Next, Terminated

(* Every variable of the pipeline keeps its type, and the channels their   *)
(* bounds, in every run of the Poller and its goroutines.                  *)
THEOREM TypeCorrect == Spec => []TypeOK
<1> QED
  BY InitTypeOK, NextTypeOK, PTL DEF Spec

-----------------------------------------------------------------------------
(* The safety invariant.                                                   *)
LEMMA InitPollInv == Init => PollInv
<1> SUFFICES ASSUME Init PROVE PollInv
    OBVIOUS
<1> USE DEF Init, SocketInit, ChannelsInit, NetlinkerInit, InetdiagerInit
<1>1. DoneIsLast
  BY DEF DoneIsLast, EndsDump, NoPacket
<1>2. ReadingInPacket
  BY DEF ReadingInPacket
<1>3. PollStages /\ WorkersStages
  BY DEF PollStages, WorkersStages, NetlinkersDone
<1>4. PollNumbers
  BY DEF PollNumbers
<1>5. OneTime
  BY DEF OneTime, NoMessage
<1> QED
  BY <1>1, <1>2, <1>3, <1>4, <1>5 DEF PollInv

(* The datagrams of a dump: only the last ends it, and all are of its poll.*)
LEMMA DatagramsEnd ==
    ASSUME NEW d \in Dumps, NEW p \in Nat
    PROVE  \A i \in DOMAIN Datagrams(d, p) :
               /\ EndsDump(Datagrams(d, p)[i]) => i = Len(Datagrams(d, p))
               /\ Datagrams(d, p)[i].poll = p
               /\ Datagrams(d, p)[i].msgs # <<>>
<1>1. d \in Seq(Seq(MessageType)) /\ Len(d) \in Nat /\ DOMAIN d = 1 .. Len(d)
  BY SocketAssumption DEF IsDump
<1>2. Datagrams(d, p) \in Seq(Datagram)
  BY DatagramsType
<1>3. DOMAIN Datagrams(d, p) = 1 .. Len(d) /\ Len(Datagrams(d, p)) = Len(d)
  BY <1>1, <1>2 DEF Datagrams
<1>4. SUFFICES ASSUME NEW i \in 1 .. Len(d)
               PROVE  /\ EndsDump(Datagrams(d, p)[i]) => i = Len(d)
                      /\ Datagrams(d, p)[i].poll = p
                      /\ Datagrams(d, p)[i].msgs # <<>>
  BY <1>3
<1>5. Datagrams(d, p)[i] = [poll |-> p, num |-> i, msgs |-> d[i]]
  BY DEF Datagrams
<1>6. \A j \in DOMAIN d[i] : d[i][j] = "done" => i = Len(d)
  BY <1>1, SocketAssumption DEF IsDump
<1>7. d[i] # <<>>
  BY <1>1, SocketAssumption DEF IsDump
<1> QED
  BY <1>5, <1>6, <1>7 DEF EndsDump

(* A step that leaves alone all that a conjunct is about keeps it.         *)
LEMMA UnchangedPollInv ==
    /\ DoneIsLast /\ UNCHANGED <<socket, packet>> => DoneIsLast'
    /\ ReadingInPacket /\ UNCHANGED <<socket, netlinkerVars>> => ReadingInPacket'
    /\ WorkersStages /\ UNCHANGED <<netlinkerChClosed, pollerVars>> => WorkersStages'
    /\ PollNumbers /\ UNCHANGED <<answers, pollerVars>> => PollNumbers'
<1>1. DoneIsLast /\ UNCHANGED <<socket, packet>> => DoneIsLast'
  BY DEF DoneIsLast, EndsDump
<1>2. ReadingInPacket /\ UNCHANGED <<socket, netlinkerVars>> => ReadingInPacket'
  BY DEF ReadingInPacket, EndsDump, netlinkerVars
<1>3. WorkersStages /\ UNCHANGED <<netlinkerChClosed, pollerVars>> => WorkersStages'
  BY DEF WorkersStages, pollerVars
<1>4. PollNumbers /\ UNCHANGED <<answers, pollerVars>> => PollNumbers'
  BY DEF PollNumbers, pollerVars, MaxLoopsOrForEver
<1> QED
  BY <1>1, <1>2, <1>3, <1>4

(* Taking a datagram off the socket.                                       *)
LEMMA RecvDatagramPollInv ==
    ASSUME TypeOK, PollInv, NEW n \in Netlinkers, RecvDatagram(n), UNCHANGED <<inetdiagerVars, pollerVars>>
    PROVE  PollInv'
<1> USE DEF TypeOK, PollInv
<1>1. /\ socket \in Seq(Datagram) /\ socket # <<>> /\ socket' = Tail(socket)
      /\ netlinkerPc[n] = "recvfrom"
      /\ packet' = [packet EXCEPT ![n] = Head(socket)]
      /\ netlinkerPc' = [netlinkerPc EXCEPT ![n] = "read"]
      /\ UNCHANGED <<answers, channelVars, netlinkMsgCount, startTime>>
  BY DEF RecvDatagram, Recvfrom, Goto, SocketTypeOK
<1>2. /\ Len(Tail(socket)) = Len(socket) - 1 /\ Len(socket) \in Nat
      /\ \A i \in DOMAIN Tail(socket) : /\ i + 1 \in DOMAIN socket
                                       /\ Tail(socket)[i] = socket[i + 1]
      /\ Head(socket) = socket[1] /\ 1 \in DOMAIN socket
  BY <1>1
<1>3. DoneIsLast'
  <2>1. \A i \in DOMAIN socket' : EndsDump(socket'[i]) => i = Len(socket')
    BY <1>1, <1>2 DEF DoneIsLast, EndsDump
  <2>2. EndsDump(Head(socket)) => socket' = <<>>
    BY <1>1, <1>2 DEF DoneIsLast, EndsDump
  <2>3. \A m \in Netlinkers : ~EndsDump(packet[m])
    BY <1>1 DEF DoneIsLast
  <2>4. \A m \in Netlinkers : EndsDump(packet'[m]) => socket' = <<>>
    BY <1>1, <2>2, <2>3 DEF NetlinkerTypeOK
  <2> QED
    BY <2>1, <2>4 DEF DoneIsLast, EndsDump
<1>4. ReadingInPacket'
  <2>1. \A i \in DOMAIN socket' : socket'[i].msgs # <<>>
    BY <1>1, <1>2 DEF ReadingInPacket
  <2>2. Head(socket).msgs # <<>> /\ Head(socket).msgs \in Seq(MessageType)
    BY <1>1, <1>2, RecvfromTypeOK DEF ReadingInPacket, RecvDatagram, Datagram
  <2>3. netlinkMsgCount[n] = 0 /\ 0 < Len(Head(socket).msgs)
    BY <1>1, <2>2 DEF ReadingInPacket
  <2>4. ASSUME NEW m \in Netlinkers
        PROVE  /\ netlinkerPc'[m] \in {"read", "blocked"} =>
                     netlinkMsgCount'[m] < Len(packet'[m].msgs)
               /\ netlinkerPc'[m] = "sendDone" => EndsDump(packet'[m])
               /\ netlinkerPc'[m] \in {"off", "recvfrom", "stats"} =>
                     packet'[m] = NoPacket /\ netlinkMsgCount'[m] = 0
    <3>1. CASE m = n
      BY <1>1, <2>3, <3>1 DEF NetlinkerTypeOK
    <3>2. CASE m # n
      BY <1>1, <3>2 DEF NetlinkerTypeOK, ReadingInPacket
    <3> QED
      BY <3>1, <3>2
  <2> QED
    BY <2>1, <2>4 DEF ReadingInPacket, EndsDump
<1>5. PollStages'
  BY <1>1 DEF PollStages, NetlinkersDone, pollerVars
<1>6. WorkersStages' /\ PollNumbers'
  BY <1>1, UnchangedPollInv DEF channelVars
<1>7. OneTime'
  <2>1. UNCHANGED <<startPollTime, startTime, netlinkerCh, inHand, handled>>
    BY <1>1 DEF channelVars, pollerVars, inetdiagerVars
  <2>2. \A i \in DOMAIN socket' : socket'[i].poll = startPollTime
    BY <1>1, <1>2 DEF OneTime
  <2>3. Head(socket).poll = startPollTime /\ startTime[n] = startPollTime
    BY <1>1, <1>2 DEF OneTime
  <2>4. ASSUME NEW m \in Netlinkers
        PROVE  /\ netlinkerPc'[m] # "off" => startTime[m] = startPollTime
               /\ netlinkerPc'[m] \in {"read", "blocked"} =>
                     packet'[m].poll = startTime[m]
    BY <1>1, <2>3 DEF OneTime, NetlinkerTypeOK
  <2> QED
    BY <2>1, <2>2, <2>4 DEF OneTime
<1> QED
  BY <1>3, <1>4, <1>5, <1>6, <1>7

(* Any other step of a netlinker: it moves on in its datagram, or drops it,*)
(* and may send a message stamped with its own time.                       *)
LEMMA OwnStepPollInv ==
    ASSUME TypeOK, PollInv, NEW n \in Netlinkers, NEW pc, NEW count,
           netlinkerPc[n] # "off",
           netlinkerPc' = [netlinkerPc EXCEPT ![n] = pc],
           netlinkMsgCount' = [netlinkMsgCount EXCEPT ![n] = count],
           packet' = packet \/ packet' = [packet EXCEPT ![n] = NoPacket],
           pc \in {"read", "blocked"} => /\ netlinkerPc[n] \in {"read", "blocked"}
                                        /\ packet' = packet
                                        /\ count < Len(packet[n].msgs),
           pc = "sendDone" => packet' = packet /\ EndsDump(packet[n]),
           pc \in {"off", "recvfrom", "stats"} => packet'[n] = NoPacket /\ count = 0,
           \A k \in DOMAIN netlinkerCh' : netlinkerCh'[k].time = netlinkerCh'[k].poll,
           UNCHANGED <<socketVars, netlinkerChClosed, startTime,
                       inetdiagerVars, pollerVars>>
    PROVE  PollInv'
<1> USE DEF TypeOK, PollInv, socketVars
<1>1. DoneIsLast'
  <2>1. ~EndsDump(NoPacket)
    BY DEF EndsDump, NoPacket
  <2>2. \A m \in Netlinkers : packet'[m] = packet[m] \/ packet'[m] = NoPacket
    BY DEF NetlinkerTypeOK
  <2>3. \A m \in Netlinkers : EndsDump(packet'[m]) => socket' = <<>>
    BY <2>1, <2>2 DEF DoneIsLast
  <2> QED
    BY <2>3 DEF DoneIsLast, EndsDump
<1>2. ReadingInPacket'
  <2>1. ASSUME NEW m \in Netlinkers
        PROVE  /\ netlinkerPc'[m] \in {"read", "blocked"} =>
                     netlinkMsgCount'[m] < Len(packet'[m].msgs)
               /\ netlinkerPc'[m] = "sendDone" => EndsDump(packet'[m])
               /\ netlinkerPc'[m] \in {"off", "recvfrom", "stats"} =>
                     packet'[m] = NoPacket /\ netlinkMsgCount'[m] = 0
    <3>1. CASE m = n
      BY <3>1 DEF NetlinkerTypeOK
    <3>2. CASE m # n
      BY <3>2 DEF NetlinkerTypeOK, ReadingInPacket
    <3> QED
      BY <3>1, <3>2
  <2> QED
    BY <2>1 DEF ReadingInPacket, EndsDump
<1>3. PollStages'
  BY DEF PollStages, NetlinkersDone, pollerVars
<1>4. WorkersStages' /\ PollNumbers'
  BY UnchangedPollInv
<1>5. OneTime'
  <2>1. ASSUME NEW m \in Netlinkers
        PROVE  /\ netlinkerPc'[m] # "off" => startTime[m] = startPollTime
               /\ netlinkerPc'[m] \in {"read", "blocked"} =>
                     packet'[m].poll = startTime[m]
    <3>1. CASE m = n
      BY <3>1 DEF OneTime, NetlinkerTypeOK
    <3>2. CASE m # n
      BY <3>2 DEF OneTime, NetlinkerTypeOK
    <3> QED
      BY <3>1, <3>2
  <2> QED
    BY <2>1 DEF OneTime, inetdiagerVars, pollerVars
<1> QED
  BY <1>1, <1>2, <1>3, <1>4, <1>5

(* The message a netlinker sends carries the time of its dump.             *)
LEMMA SendPollInv ==
    ASSUME TypeOK, PollInv, NEW n \in Netlinkers,
           netlinkerPc[n] \in {"read", "blocked"}, Send(MessageOf(n))
    PROVE  /\ \A k \in DOMAIN netlinkerCh' :
                  netlinkerCh'[k].time = netlinkerCh'[k].poll
           /\ UNCHANGED netlinkerChClosed
<1>1. MessageOf(n).time = MessageOf(n).poll
  BY DEF PollInv, OneTime, MessageOf
<1>2. netlinkerCh \in Seq(Message) /\ MessageOf(n) \in Message
  BY MessageOfType DEF TypeOK, ChannelsTypeOK
<1> QED
  BY <1>1, <1>2 DEF Send, PollInv, OneTime

(* Going on after a message, sent or not.                                  *)
LEMMA NextMessagePollInv ==
    ASSUME TypeOK, PollInv, NEW n \in Netlinkers,
           netlinkerPc[n] \in {"read", "blocked"}, NextMessage(n),
           \A k \in DOMAIN netlinkerCh' : netlinkerCh'[k].time = netlinkerCh'[k].poll,
           UNCHANGED <<socketVars, netlinkerChClosed, inetdiagerVars, pollerVars>>
    PROVE  PollInv'
<1>1. CASE NextDatagram(n)
  <2>1. packet'[n] = NoPacket
    BY <1>1 DEF NextDatagram, TypeOK, NetlinkerTypeOK
  <2> QED
    BY <1>1, <2>1, OwnStepPollInv DEF NextDatagram, Goto
<1>2. CASE ~NextDatagram(n)
  <2>1. /\ netlinkMsgCount[n] + 1 < Len(packet[n].msgs)
        /\ netlinkMsgCount' =
              [netlinkMsgCount EXCEPT ![n] = netlinkMsgCount[n] + 1]
        /\ netlinkerPc' = [netlinkerPc EXCEPT ![n] = "read"]
        /\ UNCHANGED <<packet, startTime>>
    BY <1>2 DEF NextMessage, Goto
  <2> QED
    BY <2>1, OwnStepPollInv
<1> QED
  BY <1>1, <1>2

LEMMA NetlinkerStepPollInv ==
    ASSUME TypeOK, PollInv, NEW n \in Netlinkers, NetlinkerStepOf(n)
    PROVE  PollInv'
<1> USE DEF NetlinkerStepOf
<1>0. UNCHANGED <<netlinkerCh, netlinkerChClosed>> =>
        /\ \A k \in DOMAIN netlinkerCh' : netlinkerCh'[k].time = netlinkerCh'[k].poll
        /\ UNCHANGED netlinkerChClosed
  BY DEF PollInv, OneTime
<1>1. CASE RecvDatagram(n)
  BY <1>1, RecvDatagramPollInv
<1>2. CASE RecvTemporary(n)
  <2>1. packet[n] = NoPacket /\ netlinkMsgCount[n] = 0
    BY <1>2 DEF RecvTemporary, PollInv, ReadingInPacket
  <2>2. netlinkMsgCount' = [netlinkMsgCount EXCEPT ![n] = 0]
    BY <1>2, <2>1 DEF RecvTemporary, TypeOK, NetlinkerTypeOK
  <2> QED
    BY <1>0, <1>2, <2>1, <2>2, OwnStepPollInv
       DEF RecvTemporary, RecvfromTimesOut, Goto, channelVars
<1>3. CASE SkipMessage(n)
  BY <1>0, <1>3, NextMessagePollInv DEF SkipMessage, ReadData, channelVars
<1>4. CASE SendMessage(n)
  BY <1>4, SendPollInv, NextMessagePollInv DEF SendMessage, ReadData
<1>5. CASE SendWouldBlock(n)
  <2>1. netlinkMsgCount' = [netlinkMsgCount EXCEPT ![n] = netlinkMsgCount[n]]
    BY <1>5 DEF SendWouldBlock, TypeOK, NetlinkerTypeOK
  <2>2. netlinkMsgCount[n] < Len(packet[n].msgs)
    BY <1>5 DEF SendWouldBlock, ReadData, PollInv, ReadingInPacket
  <2> QED
    BY <1>0, <1>5, <2>1, <2>2, OwnStepPollInv
       DEF SendWouldBlock, ReadData, Goto, channelVars
<1>6. CASE SendBlocked(n)
  BY <1>6, SendPollInv, NextMessagePollInv DEF SendBlocked
<1>7. CASE ReadControl(n)
  <2>1. packet'[n] = NoPacket
    BY <1>7 DEF ReadControl, NextDatagram, TypeOK, NetlinkerTypeOK
  <2> QED
    BY <1>0, <1>7, <2>1, OwnStepPollInv DEF ReadControl, NextDatagram, Goto, channelVars
<1>8. CASE ReadDone(n)
  <2>1. netlinkMsgCount' = [netlinkMsgCount EXCEPT ![n] = netlinkMsgCount[n]]
    BY <1>8 DEF ReadDone, TypeOK, NetlinkerTypeOK
  <2>2. /\ netlinkMsgCount[n] < Len(packet[n].msgs) /\ netlinkMsgCount[n] \in Nat
        /\ packet[n].msgs \in Seq(MessageType)
    BY <1>8 DEF ReadDone, PollInv, ReadingInPacket, TypeOK, NetlinkerTypeOK, Datagram
  <2>3. EndsDump(packet[n])
    <3>1. netlinkMsgCount[n] + 1 \in DOMAIN packet[n].msgs
      BY <2>2
    <3> QED
      BY <1>8, <3>1 DEF ReadDone, Type, EndsDump
  <2> QED
    BY <1>0, <1>8, <2>1, <2>3, OwnStepPollInv DEF ReadDone, Goto, channelVars
<1>9. CASE ReturnNetlinker(n)
  <2>1. packet[n] = NoPacket /\ netlinkMsgCount[n] = 0
    BY <1>9 DEF ReturnNetlinker, PollInv, ReadingInPacket
  <2>2. netlinkMsgCount' = [netlinkMsgCount EXCEPT ![n] = 0]
    BY <1>9, <2>1 DEF ReturnNetlinker, TypeOK, NetlinkerTypeOK
  <2> QED
    BY <1>0, <1>9, <2>1, <2>2, OwnStepPollInv
       DEF ReturnNetlinker, SendToStater, Goto
<1> QED
  BY <1>1, <1>2, <1>3, <1>4, <1>5, <1>6, <1>7, <1>8, <1>9 DEF NetlinkerStep

LEMMA InetdiagerStepPollInv ==
    ASSUME TypeOK, PollInv, NEW i \in Inetdiagers, InetdiagerStepOf(i)
    PROVE  PollInv'
<1> USE DEF InetdiagerStepOf
<1>1. UNCHANGED <<socketVars, netlinkerVars, pollerVars, netlinkerChClosed>>
  BY DEF InetdiagerStep, TakeMessage, Receive, SendStats, SendToStater,
         ProcessMessage, ReturnInetdiager, channelVars
<1>2. DoneIsLast' /\ ReadingInPacket' /\ WorkersStages' /\ PollNumbers'
  BY <1>1, UnchangedPollInv DEF PollInv, socketVars, netlinkerVars
<1>3. PollStages'
  BY <1>1 DEF PollInv, PollStages, NetlinkersDone, socketVars, netlinkerVars, pollerVars
<1>4. OneTime'
  <2>1. CASE TakeMessage(i)
    <3>1. /\ netlinkerCh \in Seq(Message) /\ netlinkerCh # <<>>
          /\ netlinkerCh' = Tail(netlinkerCh)
          /\ inHand' = [inHand EXCEPT ![i] = Head(netlinkerCh)]
          /\ UNCHANGED handled
      BY <2>1 DEF TakeMessage, Receive, TypeOK, ChannelsTypeOK
    <3>2. /\ Head(netlinkerCh) = netlinkerCh[1] /\ 1 \in DOMAIN netlinkerCh
          /\ \A k \in DOMAIN Tail(netlinkerCh) :
                /\ k + 1 \in DOMAIN netlinkerCh
                /\ Tail(netlinkerCh)[k] = netlinkerCh[k + 1]
      BY <3>1
    <3> QED
      BY <1>1, <3>1, <3>2 DEF PollInv, OneTime, TypeOK, InetdiagerTypeOK,
           socketVars, netlinkerVars, pollerVars
  <2>2. CASE ProcessMessage(i)
    BY <1>1, <2>2 DEF ProcessMessage, NoMessage, PollInv, OneTime, TypeOK,
         InetdiagerTypeOK, socketVars, netlinkerVars, pollerVars, channelVars
  <2>3. CASE SendStats(i) \/ ReturnInetdiager(i)
    BY <1>1, <2>3 DEF SendStats, SendToStater, ReturnInetdiager, PollInv, OneTime,
         socketVars, netlinkerVars, pollerVars, channelVars
  <2> QED
    BY <2>1, <2>2, <2>3 DEF InetdiagerStep
<1> QED
  BY <1>2, <1>3, <1>4 DEF PollInv

(* A step of the Poller that only changes its own variables, and leaves    *)
(* its clock: what remains to show is that the stages still hold.          *)
LEMMA OwnPollerStep ==
    ASSUME PollInv, UNCHANGED <<socketVars, netlinkerCh, netlinkerVars,
                                inHand, handled, startPollTime>>
    PROVE  DoneIsLast' /\ ReadingInPacket' /\ OneTime'
<1>1. DoneIsLast' /\ ReadingInPacket'
  BY UnchangedPollInv DEF PollInv, socketVars, netlinkerVars
<1>2. OneTime'
  BY DEF PollInv, OneTime, socketVars, netlinkerVars
<1> QED
  BY <1>1, <1>2

LEMMA PollerStepPollInv ==
    ASSUME TypeOK, PollInv, PollerStep
    PROVE  PollInv'
<1> USE DEF PollInv
<1>1. CASE SendPollerStats
  <2>1. DoneIsLast' /\ ReadingInPacket' /\ OneTime'
    BY <1>1, OwnPollerStep DEF SendPollerStats, SendToStater, inetdiagerVars
  <2>2. PollStages'
    BY <1>1 DEF SendPollerStats, PollerGoto, PollStages, NetlinkersDone,
         socketVars, netlinkerVars
  <2>3. WorkersStages'
    BY <1>1 DEF SendPollerStats, PollerGoto, WorkersStages, SendToStater
  <2>4. PollNumbers'
    BY <1>1 DEF SendPollerStats, PollerGoto, PollNumbers, MaxLoopsOrForEver,
         socketVars, TypeOK, PollerTypeOK
  <2> QED
    BY <2>1, <2>2, <2>3, <2>4
<1>2. CASE LeaveLoop
  <2>1. DoneIsLast' /\ ReadingInPacket' /\ OneTime'
    BY <1>2, OwnPollerStep DEF LeaveLoop, channelVars, inetdiagerVars
  <2>2. PollStages'
    BY <1>2 DEF LeaveLoop, PollerGoto, PollStages, NetlinkersDone,
         socketVars, netlinkerVars
  <2>3. WorkersStages'
    BY <1>2 DEF LeaveLoop, PollerGoto, WorkersStages, channelVars
  <2>4. PollNumbers'
    BY <1>2 DEF LeaveLoop, PollerGoto, PollNumbers, MaxLoopsOrForEver,
         socketVars, TypeOK, PollerTypeOK
  <2> QED
    BY <2>1, <2>2, <2>3, <2>4
<1>3. CASE StartWorkers
  <2>1. DoneIsLast' /\ ReadingInPacket'
    BY <1>3, UnchangedPollInv DEF StartWorkers, socketVars, netlinkerVars
  <2>2. OneTime'
    BY <1>3 DEF StartWorkers, MakeNetlinkerCh, StartInetdiagers, OneTime,
         socketVars, netlinkerVars
  <2>3. PollStages' /\ WorkersStages'
    BY <1>3 DEF StartWorkers, PollerGoto, MakeNetlinkerCh, PollStages,
         WorkersStages, NetlinkersDone, socketVars, netlinkerVars
  <2>4. PollNumbers'
    BY <1>3 DEF StartWorkers, PollerGoto, PollNumbers, socketVars
  <2> QED
    BY <2>1, <2>2, <2>3, <2>4
<1>4. CASE KeepWorkers
  <2>1. DoneIsLast' /\ ReadingInPacket' /\ OneTime'
    BY <1>4, OwnPollerStep DEF KeepWorkers, channelVars, inetdiagerVars
  <2>2. PollStages'
    BY <1>4 DEF KeepWorkers, PollerGoto, PollStages, NetlinkersDone,
         socketVars, netlinkerVars
  <2>3. WorkersStages'
    BY <1>4 DEF KeepWorkers, PollerGoto, WorkersStages, channelVars
  <2>4. PollNumbers'
    BY <1>4 DEF KeepWorkers, PollerGoto, PollNumbers, MaxLoopsOrForEver,
         socketVars, TypeOK, PollerTypeOK
  <2> QED
    BY <2>1, <2>2, <2>3, <2>4
<1>5. CASE SendNetlinkDumpRequest
  <2>1. PICK d \in Dumps :
            /\ answers' = Append(answers, d)
            /\ socket' = socket \o Datagrams(d, Len(answers))
    BY <1>5 DEF SendNetlinkDumpRequest, SendDumpRequest
  <2>2. /\ pollerPc = "request" /\ pollerPc' = "netlinkers"
        /\ startPollTime' = pollingLoops
        /\ UNCHANGED <<channelVars, netlinkerVars, inetdiagerVars, pollingLoops,
                       workersStarted>>
    BY <1>5 DEF SendNetlinkDumpRequest, PollerGoto
  <2>3. socket = <<>> /\ Len(answers) = pollingLoops /\ NetlinkersDone
    BY <2>2 DEF PollStages, PollNumbers
  <2>4. pollingLoops \in Nat /\ Datagrams(d, pollingLoops) \in Seq(Datagram)
    BY DatagramsType DEF TypeOK, PollerTypeOK
  <2>5. socket' = Datagrams(d, pollingLoops)
    BY <2>1, <2>3, <2>4
  <2>6. \A i \in DOMAIN socket' : /\ EndsDump(socket'[i]) => i = Len(socket')
                                 /\ socket'[i].poll = pollingLoops
                                 /\ socket'[i].msgs # <<>>
    BY <2>4, <2>5, DatagramsEnd
  <2>7. \A n \in Netlinkers : netlinkerPc[n] = "off" /\ packet[n] = NoPacket
    BY <2>3 DEF NetlinkersDone, ReadingInPacket
  <2>8. \A n \in Netlinkers : ~EndsDump(packet[n])
    BY <2>7 DEF EndsDump, NoPacket
  <2>9. DoneIsLast'
    BY <2>2, <2>6, <2>8 DEF DoneIsLast, EndsDump, netlinkerVars
  <2>10. ReadingInPacket'
    BY <2>2, <2>6 DEF ReadingInPacket, EndsDump, netlinkerVars
  <2>11. PollStages' /\ WorkersStages'
    BY <2>2, <2>3 DEF PollStages, WorkersStages, NetlinkersDone, netlinkerVars,
         channelVars
  <2>12. PollNumbers'
    <3>1. Len(answers') = pollingLoops + 1
      BY <2>1, <2>3 DEF TypeOK, SocketTypeOK
    <3> QED
      BY <2>2, <3>1 DEF PollNumbers
  <2>13. OneTime'
    BY <2>2, <2>6, <2>7 DEF OneTime, netlinkerVars, inetdiagerVars, channelVars
  <2> QED
    BY <2>9, <2>10, <2>11, <2>12, <2>13
<1>6. CASE SpawnNetlinkers
  <2>1. /\ pollerPc = "netlinkers" /\ pollerPc' = "done?"
        /\ netlinkerPc' = [n \in Netlinkers |-> "recvfrom"]
        /\ startTime' = [n \in Netlinkers |-> startPollTime]
        /\ UNCHANGED <<socketVars, packet, netlinkMsgCount, channelVars,
                       inetdiagerVars, pollingLoops, workersStarted, startPollTime>>
    BY <1>6 DEF SpawnNetlinkers, StartNetlinkers, PollerGoto
  <2>2. \A n \in Netlinkers : packet[n] = NoPacket /\ netlinkMsgCount[n] = 0
    BY <2>1 DEF PollStages, NetlinkersDone, ReadingInPacket
  <2>3. DoneIsLast'
    BY <2>1, UnchangedPollInv DEF socketVars
  <2>4. ReadingInPacket'
    BY <2>1, <2>2 DEF ReadingInPacket, socketVars
  <2>5. PollStages' /\ WorkersStages' /\ PollNumbers'
    BY <2>1 DEF PollStages, WorkersStages, PollNumbers, socketVars, channelVars
  <2>6. OneTime'
    BY <2>1 DEF OneTime, socketVars, channelVars, inetdiagerVars
  <2> QED
    BY <2>3, <2>4, <2>5, <2>6
<1>7. CASE \E n \in Netlinkers : ReceiveDone(n)
  <2> PICK n \in Netlinkers : ReceiveDone(n)
    BY <1>7
  <2>1. /\ pollerPc = "done?" /\ pollerPc' = "wait"
        /\ netlinkerPc[n] = "sendDone"
        /\ netlinkerPc' = [netlinkerPc EXCEPT ![n] = "recvfrom"]
        /\ packet' = [packet EXCEPT ![n] = NoPacket]
        /\ netlinkMsgCount' = [netlinkMsgCount EXCEPT ![n] = 0]
        /\ UNCHANGED <<socket, answers, netlinkerCh, netlinkerChClosed, startTime,
                       inHand, handled, pollingLoops, workersStarted, startPollTime>>
    BY DEF ReceiveDone, SignalDone, NextDatagram, Goto, PollerGoto, socketVars,
           channelVars, inetdiagerVars
  <2>2. socket = <<>>
    BY <2>1 DEF ReadingInPacket, DoneIsLast
  <2>3. DoneIsLast'
    BY <2>1, <2>2 DEF DoneIsLast
  <2>4. ReadingInPacket'
    <3>1. \A m \in Netlinkers : m # n =>
             /\ netlinkerPc'[m] = netlinkerPc[m] /\ packet'[m] = packet[m]
             /\ netlinkMsgCount'[m] = netlinkMsgCount[m]
      BY <2>1 DEF TypeOK, NetlinkerTypeOK
    <3>2. /\ netlinkerPc'[n] = "recvfrom" /\ packet'[n] = NoPacket
          /\ netlinkMsgCount'[n] = 0
      BY <2>1 DEF TypeOK, NetlinkerTypeOK
    <3> QED
      BY <2>1, <3>1, <3>2 DEF ReadingInPacket, EndsDump
  <2>5. PollStages' /\ WorkersStages' /\ PollNumbers'
    BY <2>1, <2>2 DEF PollStages, WorkersStages, PollNumbers
  <2>6. OneTime'
    BY <2>1 DEF OneTime, TypeOK, NetlinkerTypeOK
  <2> QED
    BY <2>3, <2>4, <2>5, <2>6
<1>8. CASE WaitNetlinkers
  <2>1. DoneIsLast' /\ ReadingInPacket' /\ OneTime'
    BY <1>8, OwnPollerStep DEF WaitNetlinkers, channelVars, inetdiagerVars
  <2>2. PollStages'
    BY <1>8 DEF WaitNetlinkers, PollerGoto, PollStages, NetlinkersDone,
         socketVars, netlinkerVars
  <2>3. WorkersStages'
    BY <1>8 DEF WaitNetlinkers, PollerGoto, WorkersStages, channelVars
  <2>4. PollNumbers'
    BY <1>8 DEF WaitNetlinkers, PollerGoto, PollNumbers, MaxLoopsOrForEver,
         socketVars, TypeOK, PollerTypeOK
  <2> QED
    BY <2>1, <2>2, <2>3, <2>4
<1>9. CASE CloseChannel
  <2>1. DoneIsLast' /\ ReadingInPacket' /\ OneTime'
    BY <1>9, OwnPollerStep DEF CloseChannel, CloseNetlinkerCh, inetdiagerVars
  <2>2. PollStages'
    BY <1>9 DEF CloseChannel, PollerGoto, PollStages, NetlinkersDone,
         socketVars, netlinkerVars
  <2>3. WorkersStages'
    BY <1>9 DEF CloseChannel, PollerGoto, WorkersStages, CloseNetlinkerCh
  <2>4. PollNumbers'
    BY <1>9 DEF CloseChannel, PollerGoto, PollNumbers, MaxLoopsOrForEver,
         socketVars, TypeOK, PollerTypeOK
  <2> QED
    BY <2>1, <2>2, <2>3, <2>4
<1>10. CASE WaitInetdiagers
  <2>1. DoneIsLast' /\ ReadingInPacket' /\ OneTime'
    BY <1>10, OwnPollerStep DEF WaitInetdiagers, channelVars, inetdiagerVars
  <2>2. PollStages'
    BY <1>10 DEF WaitInetdiagers, PollerGoto, PollStages, NetlinkersDone,
         socketVars, netlinkerVars
  <2>3. WorkersStages'
    BY <1>10 DEF WaitInetdiagers, PollerGoto, WorkersStages, channelVars
  <2>4. PollNumbers'
    BY <1>10 DEF WaitInetdiagers, PollerGoto, PollNumbers, MaxLoopsOrForEver,
         socketVars, TypeOK, PollerTypeOK
  <2> QED
    BY <2>1, <2>2, <2>3, <2>4
<1>11. CASE WaitTick
  <2>1. DoneIsLast' /\ ReadingInPacket' /\ OneTime'
    BY <1>11, OwnPollerStep DEF WaitTick, channelVars, inetdiagerVars
  <2>2. PollStages'
    BY <1>11 DEF WaitTick, PollerGoto, PollStages, NetlinkersDone,
         socketVars, netlinkerVars
  <2>3. WorkersStages'
    BY <1>11 DEF WaitTick, PollerGoto, WorkersStages, channelVars
  <2>4. PollNumbers'
    BY <1>11 DEF WaitTick, PollerGoto, PollNumbers, MaxLoopsOrForEver,
         socketVars, TypeOK, PollerTypeOK
  <2> QED
    BY <2>1, <2>2, <2>3, <2>4
<1> QED
  BY <1>1, <1>2, <1>3, <1>4, <1>5, <1>6, <1>7, <1>8, <1>9, <1>10, <1>11
     DEF PollerStep

LEMMA NextPollInv == TypeOK /\ PollInv /\ [Next]_vars => PollInv'
<1> SUFFICES ASSUME TypeOK, PollInv, [Next]_vars PROVE PollInv'
    OBVIOUS
<1>1. ASSUME NEW s \in Stater, StaterStep(s) PROVE PollInv'
  <2>1. UNCHANGED <<socketVars, netlinkerVars, inetdiagerVars, pollerVars,
                    netlinkerCh, netlinkerChClosed>>
    BY <1>1 DEF StaterStep, StaterReceive
  <2>2. DoneIsLast' /\ ReadingInPacket' /\ OneTime'
    BY <2>1, OwnPollerStep DEF inetdiagerVars, pollerVars
  <2>3. PollStages' /\ WorkersStages' /\ PollNumbers'
    BY <2>1, UnchangedPollInv DEF PollInv, PollStages, NetlinkersDone, socketVars,
         netlinkerVars, pollerVars
  <2> QED
    BY <2>2, <2>3 DEF PollInv
<1>2. CASE Tick \/ UNCHANGED vars
  <2>1. UNCHANGED <<socketVars, netlinkerVars, inetdiagerVars, channelVars,
                    pollerPc, pollingLoops, workersStarted, startPollTime>>
    BY <1>2 DEF Tick, vars, pollerVars
  <2>2. DoneIsLast' /\ ReadingInPacket' /\ OneTime'
    BY <2>1, OwnPollerStep DEF inetdiagerVars, channelVars
  <2>3. PollStages' /\ WorkersStages' /\ PollNumbers'
    BY <2>1 DEF PollInv, PollStages, WorkersStages, PollNumbers, NetlinkersDone,
         MaxLoopsOrForEver, socketVars, netlinkerVars, channelVars
  <2> QED
    BY <2>2, <2>3 DEF PollInv
<1> QED
  BY <1>1, <1>2, PollerStepPollInv, NetlinkerStepPollInv, InetdiagerStepPollInv
     DEF Next, Terminated

LEMMA Invariance == Spec => [](TypeOK /\ PollInv)
<1>1. Init => TypeOK /\ PollInv
  BY InitTypeOK, InitPollInv
<1>2. TypeOK /\ PollInv /\ [Next]_vars => (TypeOK /\ PollInv)'
  BY NextTypeOK, NextPollInv
<1> QED
  BY <1>1, <1>2, PTL DEF Spec

(* The inductive invariant itself, which PollCycleProofs builds on: where  *)
(* each netlinker is in its datagram, what each stage of the Poller may    *)
(* count on, and that its clock and the kernel's count of requests agree.  *)
THEOREM PollInvariant == Spec => []PollInv
<1> QED
  BY Invariance, PTL

-----------------------------------------------------------------------------
(* poller.go's claim for its wait on NLMSG_DONE, with the wait for the     *)
(* netlinkers: no request goes out while any of an earlier one is left.    *)
THEOREM OneDump == Spec => []OneDumpInFlight
<1>1. PollInv => OneDumpInFlight
  BY DEF PollInv, PollStages, OneDumpInFlight, BetweenPolls
<1> QED
  BY <1>1, Invariance, PTL

(* Every message sent to an inetdiager, and every one it handled, carries  *)
(* the time of the poll whose dump it came in, whatever the kernel answers *)
(* and however the netlinkers share the socket.                            *)
THEOREM RightTime == Spec => []TimeSpecOfItsDump
<1>1. TypeOK /\ PollInv => TimeSpecOfItsDump
  <2> SUFFICES ASSUME TypeOK, PollInv, NEW m \in InFlight \cup handled
               PROVE  m.time = m.poll
      BY DEF TimeSpecOfItsDump
  <2>1. CASE m \in Range(netlinkerCh)
    BY <2>1 DEF Range, PollInv, OneTime
  <2>2. CASE m \in {inHand[i] : i \in {j \in Inetdiagers : Busy(j)}}
    BY <2>2 DEF PollInv, OneTime
  <2>3. CASE m \in {MessageOf(n) : n \in {k \in Netlinkers : netlinkerPc[k] = "blocked"}}
    BY <2>3 DEF MessageOf, PollInv, OneTime
  <2>4. CASE m \in handled
    BY <2>4 DEF PollInv, OneTime
  <2> QED
    BY <2>1, <2>2, <2>3, <2>4 DEF InFlight
<1> QED
  BY <1>1, Invariance, PTL

(* The Poller closes netlinkerCh only when no netlinker can still send on  *)
(* it: the send on a closed channel that panics cannot happen.             *)
THEOREM NoPanic == Spec => []NoSendOnClosedChannel
<1>1. TypeOK /\ PollInv => NoSendOnClosedChannel
  <2> SUFFICES ASSUME TypeOK, PollInv, netlinkerChClosed, NEW n \in Netlinkers
               PROVE  netlinkerPc[n] \in {"off", "stats"}
      BY DEF NoSendOnClosedChannel
  <2>1. pollerPc \notin {"done?", "wait"}
    BY DEF PollInv, WorkersStages
  <2> QED
    BY <2>1 DEF PollInv, PollStages, NetlinkersDone
<1> QED
  BY <1>1, Invariance, PTL
=============================================================================
