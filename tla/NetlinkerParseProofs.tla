------------------------ MODULE NetlinkerParseProofs ------------------------
(***************************************************************************)
(* The walk over the bytes of a datagram, for any netlinkers, any dumps    *)
(* whose datagrams are messages one after the other, any size of buffer    *)
(* and whatever the bytes in a payload look like: where the reader is,     *)
(* what it sends, when it may panic, that its steps are those of module    *)
(* Netlinker, and what its counters say.                                   *)
(***************************************************************************)
EXTENDS NetlinkerParseProperties, Induction

(* The datagrams of the dumps, on the socket and in the netlinkers' hands. *)
Packets ==
    {d \in [poll : Nat, num : Nat, msgs : Seq(Header), start : Seq(Nat)] :
        IsDatagram(d)}

Place == {"off", "recvfrom", "header", "check", "sample", "blocked", "sendDone",
          "stats"}

(* What is sent to netlinkerCh.                                            *)
SentMessage == [datagram : Packets, idx : Nat, time : Nat, whole : BOOLEAN]

(* What NetlinkerParseTypeOK leaves out.                                   *)
WalkTypeOK ==
    /\ bufferSize \in Nat /\ polls \in Nat
    /\ socket \in Seq(Packets)
    /\ netlinkerCh \in Seq(SentMessage)
    /\ netlinkerPc \in [Netlinkers -> Place]
    /\ packet \in [Netlinkers -> Packets \cup {NoPacket}]
    /\ offset \in [Netlinkers -> Nat]
    /\ remaining \in [Netlinkers -> Int]
    /\ netlinkMsgCount \in [Netlinkers -> Nat]
    /\ header \in [Netlinkers -> Header]
    /\ at \in [Netlinkers -> Nat]
    /\ whole \in [Netlinkers -> BOOLEAN]
    /\ stats \in [Netlinkers -> Counts]
    /\ taken \in [Netlinkers -> Seq(Packets)]

Walking(n) ==
    netlinkerPc[n] \in {"header", "check", "sample", "blocked", "sendDone"}

(* Where the reader is in the datagram received, whatever the datagram is. *)
InBuffer(n) ==
    /\ offset[n] <= bufferSize
    /\ Walking(n) =>
          /\ packet[n] \in Packets
          /\ \E i \in DOMAIN taken[n] : taken[n][i] = packet[n]
    /\ netlinkerPc[n] = "header" => remaining[n] >= HdrLen
    /\ netlinkerPc[n] \in {"header", "check"} =>
          /\ remaining[n] >= 0
          /\ offset[n] + remaining[n] = InSize(packet[n])
    /\ netlinkerPc[n] \in {"sample", "blocked"} /\ remaining[n] >= HdrLen =>
          offset[n] + remaining[n] = InSize(packet[n])

(* Where it is in a plain datagram: always at a header of it, with the     *)
(* count of the messages it has read.                                      *)
InStep(n) ==
    Walking(n) /\ Plain(packet[n]) =>
       LET d == packet[n]
           k == netlinkMsgCount[n] + 1
       IN  /\ k \in Received(d) /\ Reached(d, k)
           /\ netlinkerPc[n] = "header" => offset[n] = d.start[k]
           /\ netlinkerPc[n] # "header" => at[n] = k /\ header[n] = d.msgs[k]
           /\ netlinkerPc[n] = "check" => offset[n] = d.start[k] + HdrLen
           /\ netlinkerPc[n] \in {"sample", "blocked"} =>
                 /\ d.msgs[k].type = "data"
                 /\ remaining[n] = InSize(d) - d.start[k + 1]
                 /\ ~whole[n] => d.start[k + 1] > InSize(d)

(* Only the last message read of a datagram that is cut short is of bytes  *)
(* that are not its own.                                                   *)
OwnBytes(m) ==
    Plain(m.datagram) /\ ~m.whole =>
       /\ DatagramSize(m.datagram) > bufferSize
       /\ m.idx + 1 = Max(Received(m.datagram))

(* What a panic is due to.                                                 *)
PanicExplained ==
    panicked => \/ udpConn = "dial"
                \/ \E n \in Netlinkers :
                      \E i \in DOMAIN taken[n] : ~Plain(taken[n][i])

NetlinkerParseInv ==
    /\ NetlinkerStaterTypeOK /\ WalkTypeOK
    /\ Len(netlinkerCh) <= NetlinkerChSize
    /\ \A n \in Netlinkers : InBuffer(n) /\ InStep(n)
    /\ \A i \in DOMAIN netlinkerCh : OwnBytes(netlinkerCh[i])
    /\ PanicExplained
-----------------------------------------------------------------------------
(* The datagrams.                                                          *)
LEMMA PacketFacts ==
    ASSUME NEW d \in Packets
    PROVE  /\ Len(d.msgs) \in Nat \ {0}
           /\ DOMAIN d.msgs = 1 .. Len(d.msgs)
           /\ \A i \in DOMAIN d.msgs :
                 /\ d.msgs[i] \in Header
                 /\ d.msgs[i].len \in Nat /\ d.msgs[i].len >= HdrLen
                 /\ d.start[i] \in Nat /\ d.start[i + 1] \in Nat
                 /\ d.start[i + 1] = d.start[i] + d.msgs[i].len
           /\ d.start \in [1 .. Len(d.msgs) + 1 -> Nat]
           /\ d.start[1] = 0
           /\ DatagramSize(d) \in Nat
<1>1. IsDatagram(d) /\ d.msgs \in Seq(Header)
  BY DEF Packets
<1>2. Len(d.msgs) \in Nat \ {0} /\ DOMAIN d.msgs = 1 .. Len(d.msgs)
  BY <1>1 DEF IsDatagram
<1>3. d.start \in [1 .. Len(d.msgs) + 1 -> Nat] /\ d.start[1] = 0
  BY <1>1 DEF IsDatagram
<1>4. ASSUME NEW i \in DOMAIN d.msgs
      PROVE  /\ d.msgs[i] \in Header
             /\ d.msgs[i].len \in Nat /\ d.msgs[i].len >= HdrLen
             /\ d.start[i] \in Nat /\ d.start[i + 1] \in Nat
             /\ d.start[i + 1] = d.start[i] + d.msgs[i].len
  <2>1. d.msgs[i] \in Header
    BY <1>1
  <2>2. i \in 1 .. Len(d.msgs) + 1 /\ i + 1 \in 1 .. Len(d.msgs) + 1
    BY <1>2
  <2> QED
    BY <1>1, <1>3, <2>1, <2>2 DEF IsDatagram, Header
<1>5. DatagramSize(d) \in Nat
  BY <1>2, <1>3 DEF DatagramSize
<1> QED
  BY <1>2, <1>3, <1>4, <1>5

(* The messages lie one after the other, each with its header.             *)
LEMMA DatagramStartsGrow ==
    ASSUME NEW d \in Packets,
           NEW i \in DOMAIN d.start, NEW j \in DOMAIN d.start, i < j
    PROVE  d.start[i] + HdrLen <= d.start[j]
<1> DEFINE n == Len(d.msgs) + 1
           S == {k \in Nat : \A a \in 1 .. n :
                    a + k \in 1 .. n => d.start[a] + HdrLen * k <= d.start[a + k]}
<1>1. n \in Nat /\ Len(d.msgs) \in Nat /\ DOMAIN d.start = 1 .. n
  BY PacketFacts
<1>2. \A a \in 1 .. n : d.start[a] \in Nat
  BY PacketFacts
<1>3. 0 \in S
  BY <1>1, <1>2 DEF HdrLen
<1>4. ASSUME NEW k \in Nat, k \in S
      PROVE  k + 1 \in S
  <2> SUFFICES ASSUME NEW a \in 1 .. n, a + (k + 1) \in 1 .. n
               PROVE  d.start[a] + HdrLen * (k + 1) <= d.start[a + (k + 1)]
    OBVIOUS
  <2>1. a + k \in 1 .. n /\ a + k \in DOMAIN d.msgs /\ a + (k + 1) = (a + k) + 1
    BY <1>1, PacketFacts
  <2>2. d.start[a] + HdrLen * k <= d.start[a + k]
    BY <1>4, <2>1
  <2>3. d.msgs[a + k].len >= HdrLen /\ d.msgs[a + k].len \in Nat
    BY <2>1, PacketFacts
  <2>4. d.start[(a + k) + 1] = d.start[a + k] + d.msgs[a + k].len
    BY <2>1, PacketFacts
  <2> DEFINE from == d.start[a]
             to   == d.start[a + k]
             size == d.msgs[a + k].len
             end  == d.start[a + (k + 1)]
  <2>5. from \in Nat /\ to \in Nat /\ size \in Nat /\ size >= 16
    BY <1>2, <2>1, <2>3 DEF HdrLen
  <2>6. from + 16 * k <= to /\ end = to + size
    BY <2>1, <2>2, <2>4 DEF HdrLen
  <2> SUFFICES from + 16 * (k + 1) <= end
    BY DEF HdrLen
  <2> HIDE DEF from, to, size, end
  <2> QED
    BY <2>5, <2>6
<1> HIDE DEF S
<1>5. j - i \in Nat \ {0} /\ i + (j - i) = j /\ i \in 1 .. n /\ j \in 1 .. n
  BY <1>1
<1>6. \A k \in Nat : k \in S
  BY <1>3, <1>4, InductionOnNat
<1>7. d.start[i] + HdrLen * (j - i) <= d.start[j]
  BY <1>1, <1>5, <1>6 DEF S
<1>8. d.start[i] \in Nat /\ d.start[j] \in Nat
  BY <1>2, <1>5
<1> QED
  BY <1>5, <1>7, <1>8 DEF HdrLen

LEMMA StartsDiffer ==
    ASSUME NEW d \in Packets, NEW i \in DOMAIN d.msgs, NEW j \in DOMAIN d.msgs,
           d.start[i] = d.start[j]
    PROVE  i = j
<1>1. i \in Nat /\ j \in Nat /\ i \in DOMAIN d.start /\ j \in DOMAIN d.start
  BY PacketFacts
<1>2. d.start[i] \in Nat /\ d.start[j] \in Nat
  BY PacketFacts
<1>3. ~(i < j)
  BY <1>1, <1>2, DatagramStartsGrow DEF HdrLen
<1>4. ~(j < i)
  BY <1>1, <1>2, DatagramStartsGrow DEF HdrLen
<1> QED
  BY <1>1, <1>3, <1>4

(* What is received of a datagram is not more than the buffer holds.       *)
LEMMA InSizeFacts ==
    ASSUME NEW d \in Packets, bufferSize \in Nat
    PROVE  /\ InSize(d) \in Nat
           /\ InSize(d) <= bufferSize /\ InSize(d) <= DatagramSize(d)
           /\ InSize(d) \in {bufferSize, DatagramSize(d)}
<1> DEFINE a == DatagramSize(d)
           b == bufferSize
<1>1. a \in Nat /\ b \in Nat
  BY PacketFacts
<1> SUFFICES Min({a, b}) \in Nat /\ Min({a, b}) <= b /\ Min({a, b}) <= a
             /\ Min({a, b}) \in {b, a}
  BY DEF InSize
<1> HIDE DEF a, b
<1>2. \E x \in {a, b} : \A y \in {a, b} : x <= y
  <2>1. CASE a <= b
    BY <1>1, <2>1
  <2>2. CASE b <= a
    BY <1>1, <2>2
  <2> QED
    BY <1>1, <2>1, <2>2
<1>3. Min({a, b}) \in {a, b} /\ \A y \in {a, b} : Min({a, b}) <= y
  BY <1>2 DEF Min
<1> QED
  BY <1>1, <1>3
-----------------------------------------------------------------------------
(* The types.                                                              *)
TypeInv == NetlinkerStaterTypeOK /\ WalkTypeOK /\ Len(netlinkerCh) <= NetlinkerChSize

LEMMA ConstantsOfType ==
    /\ NoPacket \notin Packets
    /\ NoHeader \in Header
    /\ NoCounts \in Counts
    /\ \A names, k : k \in Int => Amount(names, k) \in Counts
    /\ \A a, b \in Counts : Plus(a, b) \in Counts
<1>1. NoPacket \notin Packets
  <2>1. Len(NoPacket.msgs) = 0
    BY DEF NoPacket
  <2> QED
    BY <2>1, PacketFacts
<1>2. NoHeader \in Header
  BY DEF NoHeader, Header, MessageType
<1>3. NoCounts \in Counts
  BY DEF NoCounts, Counts
<1>4. ASSUME NEW names, NEW k \in Int PROVE Amount(names, k) \in Counts
  BY DEF Amount, Counts
<1>5. ASSUME NEW a \in Counts, NEW b \in Counts PROVE Plus(a, b) \in Counts
  BY DEF Plus, Counts
<1> QED
  BY <1>1, <1>2, <1>3, <1>4, <1>5

LEMMA DumpsOnTheSocket ==
    ASSUME NEW dump \in Dumps, NEW p \in Nat
    PROVE  DatagramsOf(dump, p) \in Seq(Packets) /\ Len(dump) \in Nat
<1>1. IsDump(dump)
  BY NetlinkerParseAssumption
<1>2. dump \in Seq([msgs : Seq(Header), start : Seq(Nat)])
  BY <1>1 DEF IsDump
<1>3. ASSUME NEW i \in DOMAIN dump
      PROVE  [poll |-> p, num |-> i, msgs |-> dump[i].msgs, start |-> dump[i].start]
                \in Packets
  <2>1. IsDatagram(dump[i])
    BY <1>1 DEF IsDump
  <2>2. i \in Nat /\ dump[i].msgs \in Seq(Header) /\ dump[i].start \in Seq(Nat)
    <3> DEFINE Parts == [msgs : Seq(Header), start : Seq(Nat)]
    <3>1. dump \in Seq(Parts)
      BY <1>2
    <3> HIDE DEF Parts
    <3>2. i \in Nat /\ dump[i] \in Parts
      BY <3>1
    <3> QED
      BY <3>2 DEF Parts
  <2> DEFINE d == [poll |-> p, num |-> i, msgs |-> dump[i].msgs,
                   start |-> dump[i].start]
  <2>3. d \in [poll : Nat, num : Nat, msgs : Seq(Header), start : Seq(Nat)]
    BY <2>2
  <2>4. IsDatagram(d)
    BY <2>1 DEF IsDatagram
  <2> QED
    BY <2>3, <2>4 DEF Packets
<1>4. Len(dump) \in Nat /\ DOMAIN dump = 1 .. Len(dump)
  BY <1>2
<1>5. DatagramsOf(dump, p) \in [1 .. Len(dump) -> Packets]
  BY <1>3, <1>4, Zenon DEF DatagramsOf
<1> QED
  BY <1>4, <1>5

LEMMA TypeInit == NetlinkerParseInit => TypeInv
<1> SUFFICES ASSUME NetlinkerParseInit PROVE TypeInv
  OBVIOUS
<1>1. NetlinkerStaterTypeOK
  <2>1. counters \in [Netlinkers -> Counts]
    BY ConstantsOfType DEF NetlinkerParseInit, NetlinkerStaterInit
  <2>2. netlinkerStaterCh \in Seq(Report)
    BY DEF NetlinkerParseInit, NetlinkerStaterInit
  <2>3. Len(netlinkerStaterCh) <= PromNetlinkerChSize
    BY NetlinkerStaterAssumption DEF NetlinkerParseInit, NetlinkerStaterInit
  <2> QED
    BY <2>1, <2>2, <2>3
       DEF NetlinkerParseInit, NetlinkerStaterInit, NetlinkerStaterTypeOK
<1>2. WalkTypeOK
  BY ConstantsOfType, NetlinkerParseAssumption
     DEF NetlinkerParseInit, WalkTypeOK, Place
<1> QED
  BY <1>1, <1>2, NetlinkerParseAssumption DEF TypeInv, NetlinkerParseInit

(* The ways a step leaves a datagram or goes on in it.                     *)
LEMMA NextDatagramTypes ==
    ASSUME WalkTypeOK, NEW n \in Netlinkers, NextDatagram(n)
    PROVE  /\ netlinkerPc' \in [Netlinkers -> Place]
           /\ packet' \in [Netlinkers -> Packets \cup {NoPacket}]
           /\ offset' \in [Netlinkers -> Nat]
           /\ remaining' \in [Netlinkers -> Int]
           /\ netlinkMsgCount' \in [Netlinkers -> Nat]
           /\ header' \in [Netlinkers -> Header]
           /\ at' \in [Netlinkers -> Nat]
           /\ whole' \in [Netlinkers -> BOOLEAN]
<1>1. whole' \in [Netlinkers -> BOOLEAN]
  BY Zenon DEF WalkTypeOK, NextDatagram
<1> QED
  BY <1>1, ConstantsOfType DEF WalkTypeOK, NextDatagram, Goto, Place

LEMMA CountTypes ==
    ASSUME WalkTypeOK, NEW n \in Netlinkers, NEW more \in Counts, Count(n, more)
    PROVE  stats' \in [Netlinkers -> Counts]
BY ConstantsOfType DEF WalkTypeOK, Count

LEMMA NextMessageTypes ==
    ASSUME WalkTypeOK, NEW n \in Netlinkers, NEW more \in Counts, NextMessage(n, more)
    PROVE  /\ netlinkerPc' \in [Netlinkers -> Place]
           /\ packet' \in [Netlinkers -> Packets \cup {NoPacket}]
           /\ offset' \in [Netlinkers -> Nat]
           /\ remaining' \in [Netlinkers -> Int]
           /\ netlinkMsgCount' \in [Netlinkers -> Nat]
           /\ header' \in [Netlinkers -> Header]
           /\ at' \in [Netlinkers -> Nat]
           /\ whole' \in [Netlinkers -> BOOLEAN]
           /\ stats' \in [Netlinkers -> Counts]
<1>1. \A names : Plus(more, Amount(names, 1)) \in Counts
  BY ConstantsOfType
<1>2. stats' \in [Netlinkers -> Counts]
  BY <1>1, CountTypes DEF NextMessage
<1>3. CASE Another(n)
  <2>1. UNCHANGED <<packet, offset, remaining, header, at, whole>>
    BY <1>3 DEF NextMessage
  <2>2. netlinkerPc' \in [Netlinkers -> Place]
    BY <1>3 DEF NextMessage, Goto, WalkTypeOK, Place
  <2>3. netlinkMsgCount' = [netlinkMsgCount EXCEPT ![n] = @ + 1]
    BY <1>3 DEF NextMessage
  <2>4. netlinkMsgCount' \in [Netlinkers -> Nat]
    BY <2>3 DEF WalkTypeOK
  <2> QED
    BY <1>2, <2>1, <2>2, <2>4, Zenon DEF WalkTypeOK
<1>4. CASE ~Another(n)
  BY <1>2, <1>4, NextDatagramTypes DEF NextMessage
<1> QED
  BY <1>3, <1>4

(* The operations of the statistics.                                       *)
LEMMA StaterTypes ==
    ASSUME NetlinkerStaterTypeOK, StaterStep
    PROVE  NetlinkerStaterTypeOK'
<1>1. CASE DialStatsd
  BY <1>1 DEF NetlinkerStaterTypeOK, DialStatsd
<1>2. CASE DialFails
  BY <1>2 DEF NetlinkerStaterTypeOK, DialFails, staterVars
<1>3. CASE ReceiveReport
  <2> DEFINE report == Head(netlinkerStaterCh)
  <2>1. report \in Report /\ netlinkerStaterCh # <<>>
    BY <1>3 DEF NetlinkerStaterTypeOK, ReceiveReport
  <2>2. report.stats \in Counts /\ report.id \in Netlinkers
    BY <2>1 DEF Report
  <2>3. Plus(counters[report.id], report.stats) \in Counts
    BY <2>2, ConstantsOfType DEF NetlinkerStaterTypeOK
  <2>4. counters' \in [Netlinkers -> Counts]
    BY <1>3, <2>3 DEF NetlinkerStaterTypeOK, ReceiveReport, AddToCounters
  <2>5. /\ netlinkerStaterCh' \in Seq(Report)
        /\ Len(netlinkerStaterCh') <= PromNetlinkerChSize
    BY <1>3, <2>1, NetlinkerStaterAssumption DEF NetlinkerStaterTypeOK, ReceiveReport
  <2>6. staterMsgs' \in Nat /\ udps' \in Nat /\ UNCHANGED <<udpConn, panicked>>
    BY <1>3 DEF NetlinkerStaterTypeOK, ReceiveReport, WriteStatsd, Writes
  <2> QED
    BY <2>4, <2>5, <2>6 DEF NetlinkerStaterTypeOK
<1> QED
  BY <1>1, <1>2, <1>3 DEF StaterStep

LEMMA StaterUnchanged ==
    ASSUME NetlinkerStaterTypeOK, UNCHANGED netlinkerStaterVars
    PROVE  NetlinkerStaterTypeOK'
BY DEF NetlinkerStaterTypeOK, netlinkerStaterVars, staterVars

LEMMA SendReportTypes ==
    ASSUME NetlinkerStaterTypeOK, NEW n \in Netlinkers, NEW counts \in Counts,
           SendReport(n, counts)
    PROVE  NetlinkerStaterTypeOK'
<1>1. [id |-> n, stats |-> counts] \in Report
  BY DEF Report
<1>2. netlinkerStaterCh' \in Seq(Report) /\ Len(netlinkerStaterCh') <= PromNetlinkerChSize
  BY <1>1, NetlinkerStaterAssumption DEF SendReport, NetlinkerStaterTypeOK
<1> QED
  BY <1>2 DEF SendReport, NetlinkerStaterTypeOK, staterVars

(* Receiving a datagram.                                                   *)
LEMMA TakeDatagramTypes ==
    ASSUME WalkTypeOK, NEW n \in Netlinkers, TakeDatagram(n)
    PROVE  /\ Head(socket) \in Packets
           /\ InSize(Head(socket)) \in Nat
           /\ socket' \in Seq(Packets)
           /\ taken' \in [Netlinkers -> Seq(Packets)]
<1>1. socket \in Seq(Packets) /\ socket # <<>> /\ bufferSize \in Nat
  BY DEF WalkTypeOK, TakeDatagram
<1>2. Head(socket) \in Packets /\ Tail(socket) \in Seq(Packets)
  BY <1>1
<1>3. InSize(Head(socket)) \in Nat
  BY <1>1, <1>2, InSizeFacts
<1>4. taken \in [Netlinkers -> Seq(Packets)]
  BY DEF WalkTypeOK
<1> QED
  BY <1>2, <1>3, <1>4 DEF TakeDatagram

LEMMA ReceiveTypes ==
    ASSUME TypeInv, NEW n \in Netlinkers, Receive(n)
    PROVE  TypeInv'
<1>1. WalkTypeOK /\ NetlinkerStaterTypeOK /\ NetlinkerStaterTypeOK'
  BY StaterUnchanged DEF TypeInv, Receive, RecvDatagram, RecvShort, RecvError,
                         RecvTemporary, TakeDatagram
<1>2. CASE RecvDatagram(n)
  <2>1. /\ Head(socket) \in Packets /\ InSize(Head(socket)) \in Nat
        /\ socket' \in Seq(Packets) /\ taken' \in [Netlinkers -> Seq(Packets)]
    BY <1>1, <1>2, TakeDatagramTypes DEF RecvDatagram
  <2>2. stats' \in [Netlinkers -> Counts]
    BY <1>1, <1>2, <2>1, ConstantsOfType, CountTypes DEF RecvDatagram
  <2>3. /\ packet' \in [Netlinkers -> Packets \cup {NoPacket}]
        /\ offset' \in [Netlinkers -> Nat]
        /\ remaining' \in [Netlinkers -> Int]
        /\ netlinkMsgCount' \in [Netlinkers -> Nat]
        /\ netlinkerPc' \in [Netlinkers -> Place]
    BY <1>1, <1>2, <2>1 DEF RecvDatagram, WalkTypeOK, Goto, Place
  <2>4. UNCHANGED <<pollVars, netlinkerCh, header, at, whole>>
    BY <1>2 DEF RecvDatagram, TakeDatagram
  <2> QED
    BY <1>1, <2>1, <2>2, <2>3, <2>4, Zenon DEF TypeInv, WalkTypeOK, pollVars
<1>3. CASE RecvShort(n)
  <2>1. socket' \in Seq(Packets) /\ taken' \in [Netlinkers -> Seq(Packets)]
    BY <1>1, <1>3, TakeDatagramTypes DEF RecvShort
  <2>2. stats' \in [Netlinkers -> Counts]
    BY <1>1, <1>3, ConstantsOfType, CountTypes DEF RecvShort
  <2>3. UNCHANGED <<pollVars, netlinkerCh, netlinkerPc, walkVars>>
    BY <1>3 DEF RecvShort, TakeDatagram
  <2> QED
    BY <1>1, <2>1, <2>2, <2>3, Zenon DEF TypeInv, WalkTypeOK, pollVars, walkVars
<1>4. CASE RecvError(n)
  <2>1. stats' \in [Netlinkers -> Counts]
    BY <1>1, <1>4, ConstantsOfType, CountTypes DEF RecvError
  <2> QED
    BY <1>1, <1>4, <2>1, Zenon DEF RecvError, TypeInv, WalkTypeOK, walkVars
<1>5. CASE RecvTemporary(n)
  <2>1. netlinkerPc' \in [Netlinkers -> Place]
    BY <1>1, <1>5 DEF RecvTemporary, Goto, WalkTypeOK, Place
  <2> QED
    BY <1>1, <1>5, <2>1, Zenon DEF RecvTemporary, TypeInv, WalkTypeOK, walkVars, pollVars
<1> QED
  BY <1>2, <1>3, <1>4, <1>5 DEF Receive

(* Reading a datagram.                                                     *)
LEMMA PayloadFacts ==
    ASSUME WalkTypeOK, NEW n \in Netlinkers
    PROVE  /\ PayloadLen(n) \in Int /\ Left(n) \in Int
           /\ header[n] \in Header /\ header[n].len \in Nat
BY DEF WalkTypeOK, PayloadLen, Left, Header, HdrLen

LEMMA ReadHeaderTypes ==
    ASSUME TypeInv, NEW n \in Netlinkers, ReadHeader(n), packet[n] \in Packets
    PROVE  TypeInv'
<1>1. at' \in [Netlinkers -> Nat] /\ header' \in [Netlinkers -> Header]
  <2>1. CASE \E i \in DOMAIN packet[n].msgs :
                /\ at' = [at EXCEPT ![n] = i]
                /\ header' = [header EXCEPT ![n] = packet[n].msgs[i]]
    <3>1. PICK i \in DOMAIN packet[n].msgs :
                /\ at' = [at EXCEPT ![n] = i]
                /\ header' = [header EXCEPT ![n] = packet[n].msgs[i]]
      BY <2>1
    <3>2. i \in Nat /\ packet[n].msgs[i] \in Header
      BY PacketFacts
    <3> QED
      BY <3>1, <3>2 DEF TypeInv, WalkTypeOK
  <2>2. CASE /\ at' = [at EXCEPT ![n] = 0]
             /\ \E h \in Strays : header' = [header EXCEPT ![n] = h]
    BY <2>2, NetlinkerParseAssumption DEF TypeInv, WalkTypeOK
  <2> QED
    BY <2>1, <2>2 DEF ReadHeader
<1>2. /\ offset' \in [Netlinkers -> Nat] /\ remaining' \in [Netlinkers -> Int]
      /\ netlinkerPc' \in [Netlinkers -> Place]
  BY DEF TypeInv, WalkTypeOK, ReadHeader, HdrLen, Goto, Place
<1>3. NetlinkerStaterTypeOK'
  BY StaterUnchanged DEF TypeInv, ReadHeader
<1>4. UNCHANGED <<pollVars, socket, taken, netlinkerCh, packet, netlinkMsgCount,
                  whole, stats>>
  BY DEF ReadHeader, WithinDatagram
<1> QED
  BY <1>1, <1>2, <1>3, <1>4, Zenon DEF TypeInv, WalkTypeOK, pollVars

LEMMA ReadBytesTypes ==
    ASSUME TypeInv, NEW n \in Netlinkers, ReadBytes(n),
           offset' \in [Netlinkers -> Nat], whole' \in [Netlinkers -> BOOLEAN]
    PROVE  TypeInv'
<1>1. stats' \in [Netlinkers -> Counts]
  BY ConstantsOfType, CountTypes, PayloadFacts DEF TypeInv, ReadBytes
<1>2. remaining' \in [Netlinkers -> Int] /\ netlinkerPc' \in [Netlinkers -> Place]
  BY PayloadFacts DEF TypeInv, WalkTypeOK, ReadBytes, Goto, Place
<1>3. NetlinkerStaterTypeOK'
  BY StaterUnchanged DEF TypeInv, ReadBytes
<1>4. UNCHANGED <<pollVars, socket, taken, netlinkerCh, packet, netlinkMsgCount,
                  header, at>>
  BY DEF ReadBytes, WithinDatagram
<1> QED
  BY <1>1, <1>2, <1>3, <1>4, Zenon DEF TypeInv, WalkTypeOK, pollVars

LEMMA ReadPayloadTypes ==
    ASSUME TypeInv, NEW n \in Netlinkers, ReadPayload(n) \/ ReadPayloadShort(n)
    PROVE  TypeInv'
<1>1. offset' \in [Netlinkers -> Nat] /\ ReadBytes(n)
  <2>1. CASE ReadPayload(n)
    <3>1. PayloadLen(n) \in Nat /\ offset' = [offset EXCEPT ![n] = @ + PayloadLen(n)]
      BY <2>1, PayloadFacts DEF TypeInv, ReadPayload
    <3> QED
      BY <2>1, <3>1 DEF TypeInv, WalkTypeOK, ReadPayload
  <2>2. CASE ReadPayloadShort(n)
    BY <2>2 DEF TypeInv, WalkTypeOK, ReadPayloadShort
  <2> QED
    BY <2>1, <2>2
<1>2. PICK w : w \in BOOLEAN /\ whole' = [whole EXCEPT ![n] = w]
  BY Zenon DEF ReadPayload, ReadPayloadShort
<1>3. whole' \in [Netlinkers -> BOOLEAN]
  BY <1>2, Zenon DEF TypeInv, WalkTypeOK
<1> QED
  BY <1>1, <1>3, ReadBytesTypes

(* Steps that leave the channels alone and read no bytes.                  *)
LEMMA EndOfMessageTypes ==
    ASSUME TypeInv, NEW n \in Netlinkers,
           ReadControl(n) \/ SignalDone(n) \/ ReadOtherFlags(n)
              \/ ReadPayloadEOF(n) \/ SkipMessage(n)
    PROVE  TypeInv'
<1>1. PICK more \in Counts :
         NextMessage(n, more) \/ (NextDatagram(n) /\ Count(n, more))
  BY ConstantsOfType DEF ReadControl, SignalDone, ReadOtherFlags, ReadPayloadEOF,
                         SkipMessage
<1>2. UNCHANGED <<netlinkerStaterVars, netlinkerCh, bufferSize, polls, socket, taken>>
  BY DEF ReadControl, SignalDone, ReadOtherFlags, ReadPayloadEOF, SkipMessage,
         WithinDatagram, pollVars
<1>3. NetlinkerStaterTypeOK'
  BY <1>2, StaterUnchanged DEF TypeInv
<1>4. CASE NextMessage(n, more)
  BY <1>2, <1>3, <1>4, NextMessageTypes, Zenon DEF TypeInv, WalkTypeOK
<1>5. CASE NextDatagram(n) /\ Count(n, more)
  <2>1. stats' \in [Netlinkers -> Counts]
    BY <1>5, CountTypes DEF TypeInv
  <2> QED
    BY <1>2, <1>3, <1>5, <2>1, NextDatagramTypes, Zenon DEF TypeInv, WalkTypeOK
<1> QED
  BY <1>1, <1>4, <1>5

LEMMA SendTypes ==
    ASSUME TypeInv, NEW n \in Netlinkers, Send(n), packet[n] \in Packets
    PROVE  TypeInv'
<1>1. MessageOf(n) \in SentMessage
  BY DEF MessageOf, SentMessage, TypeInv, WalkTypeOK
<1>2. netlinkerCh' \in Seq(SentMessage) /\ Len(netlinkerCh') <= NetlinkerChSize
  BY <1>1, NetlinkerParseAssumption DEF TypeInv, WalkTypeOK, Send
<1>3. Amount({"out"}, PayloadLen(n)) \in Counts
  BY ConstantsOfType, PayloadFacts DEF TypeInv
<1>4. UNCHANGED <<netlinkerStaterVars, pollVars, socket, taken>>
  BY DEF Send, WithinDatagram
<1>5. NetlinkerStaterTypeOK'
  BY <1>4, StaterUnchanged DEF TypeInv
<1>6. NextMessage(n, Amount({"out"}, PayloadLen(n)))
  BY DEF Send
<1> QED
  BY <1>2, <1>3, <1>4, <1>5, <1>6, NextMessageTypes, Zenon
     DEF TypeInv, WalkTypeOK, pollVars

LEMMA GoOnTypes ==
    ASSUME TypeInv, NEW n \in Netlinkers,
           ReadDone(n) \/ BadLength(n) \/ SendWouldBlock(n)
    PROVE  TypeInv'
<1>1. NetlinkerStaterTypeOK'
  BY DEF TypeInv, NetlinkerStaterTypeOK, ReadDone, BadLength, SendWouldBlock,
         netlinkerStaterVars, staterVars
<1>2. netlinkerPc' \in [Netlinkers -> Place]
  BY DEF TypeInv, WalkTypeOK, Place, Goto, ReadDone, BadLength, SendWouldBlock
<1>3. stats' \in [Netlinkers -> Counts]
  <2>1. CASE UNCHANGED stats
    BY <2>1 DEF TypeInv, WalkTypeOK
  <2>2. CASE Count(n, Amount({"blocked"}, 1))
    BY <2>2, CountTypes, ConstantsOfType DEF TypeInv
  <2> QED
    BY <2>1, <2>2 DEF ReadDone, BadLength, SendWouldBlock
<1>4. UNCHANGED <<netlinkerCh, pollVars, socket, taken, walkVars>>
  BY DEF ReadDone, BadLength, SendWouldBlock, WithinDatagram
<1> QED
  BY <1>1, <1>2, <1>3, <1>4, Zenon DEF TypeInv, WalkTypeOK, pollVars, walkVars

LEMMA ReturnTypes ==
    ASSUME TypeInv, NEW n \in Netlinkers, ReturnNetlinker(n)
    PROVE  TypeInv'
<1>1. NetlinkerStaterTypeOK'
  <2>1. stats[n] \in Counts
    BY DEF TypeInv, WalkTypeOK
  <2> QED
    BY <2>1, SendReportTypes DEF TypeInv, ReturnNetlinker
<1>2. netlinkerPc' \in [Netlinkers -> Place]
  BY DEF TypeInv, WalkTypeOK, Place, Goto, ReturnNetlinker
<1>3. stats' \in [Netlinkers -> Counts]
  BY ConstantsOfType DEF TypeInv, WalkTypeOK, ReturnNetlinker
<1>4. UNCHANGED <<netlinkerCh, pollVars, socket, taken, walkVars>>
  BY DEF ReturnNetlinker
<1> QED
  BY <1>1, <1>2, <1>3, <1>4, Zenon DEF TypeInv, WalkTypeOK, pollVars, walkVars

LEMMA StartPollTypes ==
    ASSUME TypeInv, StartPoll
    PROVE  TypeInv'
<1>1. PICK dump \in Dumps : socket' = socket \o DatagramsOf(dump, polls')
  BY DEF StartPoll
<1>2. polls' \in Nat
  BY DEF TypeInv, WalkTypeOK, StartPoll
<1>3. DatagramsOf(dump, polls') \in Seq(Packets)
  BY <1>2, DumpsOnTheSocket
<1>4. socket' \in Seq(Packets)
  BY <1>1, <1>3 DEF TypeInv, WalkTypeOK
<1>5. netlinkerPc' \in [Netlinkers -> Place]
  BY DEF StartPoll, Place
<1>6. UNCHANGED <<netlinkerStaterVars, bufferSize, netlinkerCh, walkVars, stats, taken>>
  BY DEF StartPoll
<1>7. NetlinkerStaterTypeOK'
  BY <1>6, StaterUnchanged DEF TypeInv
<1> QED
  BY <1>2, <1>4, <1>5, <1>6, <1>7, Zenon DEF TypeInv, WalkTypeOK, walkVars

LEMMA TypeStep ==
    ASSUME TypeInv, \A n \in Netlinkers : InBuffer(n),
           [NetlinkerParseNext]_netlinkerParseVars
    PROVE  TypeInv'
<1>1. CASE StartPoll
  BY <1>1, StartPollTypes
<1>2. CASE TakeMessage
  <2>1. netlinkerCh' \in Seq(SentMessage) /\ Len(netlinkerCh') <= NetlinkerChSize
    BY <1>2, NetlinkerParseAssumption DEF TakeMessage, TypeInv, WalkTypeOK
  <2>2. NetlinkerStaterTypeOK'
    BY <1>2, StaterUnchanged DEF TypeInv, TakeMessage
  <2> QED
    BY <1>2, <2>1, <2>2, Zenon DEF TypeInv, WalkTypeOK, TakeMessage, pollVars, walkVars
<1>3. CASE StaterStep
  <2>1. NetlinkerStaterTypeOK'
    BY <1>3, StaterTypes DEF TypeInv
  <2>2. UNCHANGED <<pollVars, socket, netlinkerCh, netlinkerPc, walkVars, stats, taken>>
    BY <1>3 DEF StaterStep
  <2> QED
    BY <2>1, <2>2, Zenon DEF TypeInv, WalkTypeOK, pollVars, walkVars
<1>4. ASSUME NEW n \in Netlinkers, Receive(n)
      PROVE  TypeInv'
  BY <1>4, ReceiveTypes
<1>5. ASSUME NEW n \in Netlinkers, Walk(n)
      PROVE  TypeInv'
  <2>1. Walking(n) => packet[n] \in Packets
    BY DEF InBuffer
  <2>2. CASE ReadHeader(n)
    BY <2>1, <2>2, ReadHeaderTypes DEF ReadHeader, Walking
  <2>3. CASE ReadPayload(n) \/ ReadPayloadShort(n)
    BY <2>3, ReadPayloadTypes
  <2>4. CASE ReadControl(n) \/ SignalDone(n) \/ ReadOtherFlags(n)
                \/ ReadPayloadEOF(n) \/ SkipMessage(n)
    BY <2>4, EndOfMessageTypes
  <2>5. CASE SendMessage(n) \/ SendBlocked(n)
    BY <2>1, <2>5, SendTypes DEF SendMessage, SendBlocked, Walking
  <2>6. CASE ReadDone(n) \/ BadLength(n) \/ SendWouldBlock(n)
    BY <2>6, GoOnTypes
  <2>7. CASE ReturnNetlinker(n)
    BY <2>7, ReturnTypes
  <2> QED
    BY <1>5, <2>2, <2>3, <2>4, <2>5, <2>6, <2>7 DEF Walk
<1>6. CASE UNCHANGED netlinkerParseVars
  <2>1. NetlinkerStaterTypeOK'
    BY <1>6, StaterUnchanged DEF TypeInv, netlinkerParseVars
  <2> QED
    BY <1>6, <2>1, Zenon DEF TypeInv, WalkTypeOK, netlinkerParseVars, pollVars, walkVars
<1> QED
  BY <1>1, <1>2, <1>3, <1>4, <1>5, <1>6 DEF NetlinkerParseNext

-----------------------------------------------------------------------------
(* Where the reader is.  A step of one netlinker leaves the others' walks  *)
(* as they are.                                                            *)
SameWalk(m) ==
    /\ netlinkerPc'[m] = netlinkerPc[m]
    /\ packet'[m] = packet[m]
    /\ offset'[m] = offset[m]
    /\ remaining'[m] = remaining[m]
    /\ netlinkMsgCount'[m] = netlinkMsgCount[m]
    /\ header'[m] = header[m]
    /\ at'[m] = at[m]
    /\ whole'[m] = whole[m]
    /\ taken'[m] = taken[m]

InPlace(n) == InBuffer(n) /\ InStep(n)

LEMMA SameWalkInPlace ==
    ASSUME NEW m \in Netlinkers, SameWalk(m), bufferSize' = bufferSize, InPlace(m)
    PROVE  InPlace(m)'
<1>1. InBuffer(m)'
  BY DEF SameWalk, InPlace, InBuffer, Walking, InSize
<1>2. InStep(m)'
  BY DEF SameWalk, InPlace, InStep, Walking, InSize, Received, Plain, Reached
<1> QED
  BY <1>1, <1>2 DEF InPlace

LEMMA OthersStay ==
    ASSUME TypeInv, NEW n \in Netlinkers, Receive(n) \/ Walk(n),
           NEW m \in Netlinkers, m # n
    PROVE  SameWalk(m)
<1> USE DEF SameWalk, TypeInv, WalkTypeOK, Goto, NextDatagram, walkVars
<1>1. CASE Receive(n)
  BY <1>1 DEF Receive, RecvDatagram, RecvShort, RecvError, RecvTemporary, TakeDatagram
<1>2. ASSUME NEW more, NextMessage(n, more), UNCHANGED taken
      PROVE  SameWalk(m)
  BY <1>2 DEF NextMessage
<1>3. CASE ReadHeader(n)
  BY <1>3 DEF ReadHeader, WithinDatagram
<1>4. CASE ReadControl(n) \/ ReadDone(n) \/ SignalDone(n) \/ BadLength(n)
              \/ SendWouldBlock(n) \/ ReturnNetlinker(n)
  BY <1>4 DEF ReadControl, ReadDone, SignalDone, BadLength, SendWouldBlock,
              ReturnNetlinker, WithinDatagram
<1>5. CASE ReadPayload(n) \/ ReadPayloadShort(n)
  BY <1>5 DEF ReadPayload, ReadPayloadShort, ReadBytes, WithinDatagram
<1>6. CASE ReadOtherFlags(n) \/ ReadPayloadEOF(n) \/ SkipMessage(n)
              \/ SendMessage(n) \/ SendBlocked(n)
  BY <1>2, <1>6 DEF ReadOtherFlags, ReadPayloadEOF, SkipMessage, SendMessage,
                    SendBlocked, Send, WithinDatagram
<1> QED
  BY <1>1, <1>3, <1>4, <1>5, <1>6 DEF Walk

LEMMA NextDatagramInPlace ==
    ASSUME TypeInv, NEW n \in Netlinkers, NextDatagram(n), UNCHANGED bufferSize
    PROVE  InPlace(n)'
BY DEF TypeInv, WalkTypeOK, NextDatagram, Goto, InPlace, InBuffer, InStep, Walking

(* Only data is before the message after a data message.                   *)
LEMMA ReachedNext ==
    ASSUME NEW d \in Packets, NEW k \in DOMAIN d.msgs, Reached(d, k),
           d.msgs[k].type = "data"
    PROVE  Reached(d, k + 1)
BY PacketFacts DEF Reached

LEMMA NextMessageInPlace ==
    ASSUME TypeInv, NEW n \in Netlinkers, InPlace(n), NEW more,
           netlinkerPc[n] \in {"check", "sample", "blocked"},
           netlinkerPc[n] = "check" /\ Plain(packet[n]) => ~Another(n),
           NextMessage(n, more), UNCHANGED <<bufferSize, taken>>
    PROVE  InPlace(n)'
<1>1. CASE ~Another(n)
  BY <1>1, NextDatagramInPlace DEF NextMessage
<1>2. CASE Another(n)
  <2> DEFINE d == packet[n]
             k == netlinkMsgCount[n] + 1
  <2>1. /\ netlinkerPc' = [netlinkerPc EXCEPT ![n] = "header"]
        /\ netlinkMsgCount' = [netlinkMsgCount EXCEPT ![n] = @ + 1]
        /\ UNCHANGED <<packet, offset, remaining, header, at, whole>>
    BY <1>2 DEF NextMessage, Goto
  <2>2. netlinkerPc'[n] = "header" /\ netlinkMsgCount'[n] = netlinkMsgCount[n] + 1
    BY <2>1 DEF TypeInv, WalkTypeOK
  <2>3. /\ d \in Packets /\ offset[n] \in Nat /\ remaining[n] \in Int /\ k \in Nat
        /\ bufferSize \in Nat
        /\ remaining[n] >= HdrLen /\ offset[n] + remaining[n] = InSize(d)
    BY <1>2 DEF TypeInv, WalkTypeOK, InPlace, InBuffer, Walking, Another, HdrLen
  <2>4. InBuffer(n)'
    BY <2>1, <2>2, <2>3 DEF InPlace, InBuffer, Walking, InSize, HdrLen
  <2>5. ASSUME Plain(d)
        PROVE  /\ k + 1 \in Received(d) /\ Reached(d, k + 1)
               /\ offset[n] = d.start[k + 1]
    <3>1. netlinkerPc[n] \in {"sample", "blocked"}
      BY <1>2, <2>5
    <3>2. /\ k \in Received(d) /\ Reached(d, k) /\ d.msgs[k].type = "data"
          /\ remaining[n] = InSize(d) - d.start[k + 1]
      BY <2>5, <3>1 DEF InPlace, InStep, Walking
    <3>3. k \in DOMAIN d.msgs /\ d.start[k + 1] \in Nat
      BY <2>3, <3>2, PacketFacts DEF Received
    <3>4. InSize(d) \in Nat /\ InSize(d) <= d.start[Len(d.msgs) + 1]
      BY <2>3, InSizeFacts DEF DatagramSize
    <3>5. offset[n] = d.start[k + 1] /\ d.start[k + 1] + HdrLen <= InSize(d)
      <4> DEFINE off  == offset[n]
                 rem  == remaining[n]
                 size == InSize(d)
                 next == d.start[k + 1]
      <4>1. /\ off \in Nat /\ rem \in Int /\ size \in Nat /\ next \in Nat
            /\ rem >= 16 /\ off + rem = size /\ rem = size - next
        BY <2>3, <3>2, <3>3, <3>4 DEF HdrLen
      <4> SUFFICES off = next /\ next + 16 <= size
        BY DEF HdrLen
      <4> HIDE DEF off, rem, size, next
      <4> QED
        BY <4>1
    <3>6. k + 1 \in DOMAIN d.msgs
      <4>1. d.start[k + 1] < d.start[Len(d.msgs) + 1]
        <5>1. d.start[Len(d.msgs) + 1] \in Nat
          BY <2>3, PacketFacts DEF DatagramSize
        <5> HIDE DEF d, k
        <5> QED
          BY <3>3, <3>4, <3>5, <5>1 DEF HdrLen
      <4>2. k # Len(d.msgs)
        BY <3>3, <4>1
      <4>3. DOMAIN d.msgs = 1 .. Len(d.msgs) /\ Len(d.msgs) \in Nat
        BY <2>3, PacketFacts
      <4> HIDE DEF d, k
      <4> QED
        BY <3>3, <4>2, <4>3
    <3> QED
      BY <2>3, <3>2, <3>3, <3>5, <3>6, ReachedNext DEF Received
  <2>6. InStep(n)'
    <3> SUFFICES ASSUME Plain(d)
                 PROVE  LET e == k + 1
                        IN  /\ e \in {i \in DOMAIN d.msgs :
                                         d.start[i] + HdrLen <= InSize(d)}
                            /\ Reached(d, e)
                            /\ offset[n] = d.start[e]
      BY <2>1, <2>2, <2>3 DEF InStep, Walking, InSize, Received, Plain, Reached
    <3> QED
      BY <2>5 DEF Received
  <2> QED
    BY <2>4, <2>6 DEF InPlace
<1> QED
  BY <1>1, <1>2

LEMMA ReceiveInPlace ==
    ASSUME TypeInv, NEW n \in Netlinkers, InPlace(n), Receive(n)
    PROVE  InPlace(n)'
<1>1. bufferSize' = bufferSize /\ netlinkerPc[n] = "recvfrom"
  BY DEF Receive, RecvDatagram, RecvShort, RecvError, RecvTemporary, TakeDatagram,
         pollVars
<1>2. CASE RecvDatagram(n)
  <2> DEFINE d == Head(socket)
  <2>1. d \in Packets /\ InSize(d) \in Nat
    BY <1>2, TakeDatagramTypes DEF TypeInv, RecvDatagram
  <2>2. /\ netlinkerPc'[n] = "header" /\ packet'[n] = d
        /\ offset'[n] = 0 /\ remaining'[n] = InSize(d) /\ netlinkMsgCount'[n] = 0
        /\ taken'[n] = Append(taken[n], d)
    BY <1>2 DEF TypeInv, WalkTypeOK, RecvDatagram, TakeDatagram, Goto
  <2>3. InSize(d) >= HdrLen
    BY <1>2 DEF RecvDatagram
  <2>4. \E i \in DOMAIN taken'[n] : taken'[n][i] = d
    <3>1. taken[n] \in Seq(Packets)
      BY DEF TypeInv, WalkTypeOK
    <3>2. Len(taken[n]) + 1 \in DOMAIN Append(taken[n], d)
             /\ Append(taken[n], d)[Len(taken[n]) + 1] = d
      BY <2>1, <3>1
    <3> QED
      BY <2>2, <3>2
  <2>5. bufferSize \in Nat
    BY DEF TypeInv, WalkTypeOK
  <2> HIDE DEF d
  <2>6. InBuffer(n)'
    BY <1>1, <2>1, <2>2, <2>3, <2>4, <2>5 DEF InBuffer, Walking, InSize
  <2>7. 1 \in {i \in DOMAIN d.msgs : d.start[i] + HdrLen <= InSize(d)}
          /\ Reached(d, 1) /\ d.start[1] = 0
    BY <2>1, <2>3, PacketFacts DEF Reached, HdrLen
  <2>8. InStep(n)'
    BY <1>1, <2>2, <2>7 DEF InStep, Walking, InSize, Received, Reached
  <2> QED
    BY <2>6, <2>8 DEF InPlace
<1>3. CASE RecvShort(n) \/ RecvError(n)
  <2>1. /\ netlinkerPc'[n] = "recvfrom" /\ offset'[n] = offset[n]
    BY <1>1, <1>3 DEF RecvShort, RecvError, walkVars
  <2> QED
    BY <1>1, <2>1 DEF InPlace, InBuffer, InStep, Walking
<1>4. CASE RecvTemporary(n)
  <2>1. /\ netlinkerPc'[n] = "stats" /\ offset'[n] = offset[n]
    BY <1>4 DEF RecvTemporary, walkVars, Goto, TypeInv, WalkTypeOK
  <2> QED
    BY <1>1, <2>1 DEF InPlace, InBuffer, InStep, Walking
<1> QED
  BY <1>2, <1>3, <1>4 DEF Receive

LEMMA ReadHeaderInPlace ==
    ASSUME TypeInv, NEW n \in Netlinkers, InPlace(n), ReadHeader(n)
    PROVE  InPlace(n)'
<1> DEFINE d == packet[n]
           k == netlinkMsgCount[n] + 1
<1>1. /\ d \in Packets /\ offset[n] \in Nat /\ remaining[n] \in Int /\ k \in Nat
      /\ bufferSize \in Nat
      /\ remaining[n] >= HdrLen /\ offset[n] + remaining[n] = InSize(d)
      /\ \E i \in DOMAIN taken[n] : taken[n][i] = d
  BY DEF TypeInv, WalkTypeOK, ReadHeader, InPlace, InBuffer, Walking
<1>2. /\ netlinkerPc[n] = "header" /\ netlinkerPc'[n] = "check"
      /\ packet' = packet /\ netlinkMsgCount' = netlinkMsgCount
      /\ offset'[n] = offset[n] + HdrLen /\ remaining'[n] = remaining[n] - HdrLen
      /\ UNCHANGED <<bufferSize, taken>>
  BY DEF TypeInv, WalkTypeOK, ReadHeader, WithinDatagram, Goto, pollVars
<1>3. InSize(d) \in Nat /\ InSize(d) <= bufferSize
  BY <1>1, InSizeFacts
<1>4. InBuffer(n)'
  <2>1. offset[n] + HdrLen <= bufferSize /\ remaining[n] - HdrLen >= 0
          /\ (offset[n] + HdrLen) + (remaining[n] - HdrLen) = InSize(d)
    BY <1>1, <1>3 DEF HdrLen
  <2> QED
    BY <1>1, <1>2, <2>1 DEF InBuffer, Walking, InSize
<1>5. ASSUME Plain(d)
      PROVE  /\ k \in Received(d) /\ Reached(d, k)
             /\ at'[n] = k /\ header'[n] = d.msgs[k] /\ offset[n] = d.start[k]
  <2>1. k \in Received(d) /\ Reached(d, k) /\ offset[n] = d.start[k]
    BY <1>2, <1>5 DEF InPlace, InStep, Walking
  <2>2. k \in DOMAIN d.msgs
    BY <2>1 DEF Received
  <2>3. PICK i \in DOMAIN d.msgs :
           /\ offset[n] = d.start[i]
           /\ at' = [at EXCEPT ![n] = i]
           /\ header' = [header EXCEPT ![n] = d.msgs[i]]
    BY <2>1, <2>2 DEF ReadHeader
  <2>4. i = k
    <3> HIDE DEF d, k
    <3> QED
      BY <1>1, <2>1, <2>2, <2>3, StartsDiffer
  <2> QED
    BY <2>1, <2>3, <2>4 DEF TypeInv, WalkTypeOK
<1>6. InStep(n)'
  <2> SUFFICES ASSUME Plain(d)
               PROVE  /\ k \in {i \in DOMAIN d.msgs : d.start[i] + HdrLen <= InSize(d)}
                      /\ Reached(d, k) /\ at'[n] = k /\ header'[n] = d.msgs[k]
                      /\ offset[n] = d.start[k]
    BY <1>2 DEF InStep, Walking, InSize, Received, Plain, Reached
  <2> QED
    BY <1>5 DEF Received
<1> QED
  BY <1>4, <1>6 DEF InPlace

(* What a netlinker that looks at a header knows.                          *)
LEMMA AtCheck ==
    ASSUME TypeInv, NEW n \in Netlinkers, InPlace(n), netlinkerPc[n] = "check"
    PROVE  LET d == packet[n]
               k == netlinkMsgCount[n] + 1
           IN  /\ d \in Packets /\ k \in Nat \ {0} /\ bufferSize \in Nat
               /\ offset[n] \in Nat /\ remaining[n] \in Int
               /\ InSize(d) \in Nat /\ InSize(d) <= bufferSize
               /\ offset[n] <= bufferSize
               /\ offset[n] + remaining[n] = InSize(d)
               /\ PayloadLen(n) \in Int /\ Left(n) = bufferSize - offset[n]
               /\ Plain(d) =>
                     /\ k \in DOMAIN d.msgs /\ k \in Received(d) /\ Reached(d, k)
                     /\ at[n] = k /\ header[n] = d.msgs[k]
                     /\ d.msgs[k].len \in Nat /\ d.msgs[k].len >= HdrLen
                     /\ d.start[k] \in Nat /\ d.start[k + 1] \in Nat
                     /\ d.start[k + 1] = d.start[k] + HdrLen + PayloadLen(n)
                     /\ offset[n] = d.start[k] + HdrLen
                     /\ PayloadLen(n) \in Nat
                     /\ d.msgs[k].type = "data" => d.msgs[k].multi
<1> DEFINE d == packet[n]
           k == netlinkMsgCount[n] + 1
<1>1. /\ d \in Packets /\ k \in Nat \ {0} /\ bufferSize \in Nat
      /\ offset[n] \in Nat /\ remaining[n] \in Int /\ offset[n] <= bufferSize
      /\ offset[n] + remaining[n] = InSize(d)
  BY DEF TypeInv, WalkTypeOK, InPlace, InBuffer, Walking
<1>2. InSize(d) \in Nat /\ InSize(d) <= bufferSize
  BY <1>1, InSizeFacts
<1>3. PayloadLen(n) \in Int /\ Left(n) = bufferSize - offset[n]
  BY PayloadFacts DEF TypeInv, Left
<1>4. ASSUME Plain(d)
      PROVE  /\ k \in DOMAIN d.msgs /\ k \in Received(d) /\ Reached(d, k)
             /\ at[n] = k /\ header[n] = d.msgs[k]
             /\ d.msgs[k].len \in Nat /\ d.msgs[k].len >= HdrLen
             /\ d.start[k] \in Nat /\ d.start[k + 1] \in Nat
             /\ d.start[k + 1] = d.start[k] + HdrLen + PayloadLen(n)
             /\ offset[n] = d.start[k] + HdrLen
             /\ PayloadLen(n) \in Nat
             /\ d.msgs[k].type = "data" => d.msgs[k].multi
  <2>1. /\ k \in Received(d) /\ Reached(d, k)
        /\ at[n] = k /\ header[n] = d.msgs[k] /\ offset[n] = d.start[k] + HdrLen
    BY <1>4 DEF InPlace, InStep, Walking
  <2>2. k \in DOMAIN d.msgs
    BY <2>1 DEF Received
  <2> HIDE DEF d, k
  <2>3. /\ d.msgs[k].len \in Nat /\ d.msgs[k].len >= HdrLen
        /\ d.start[k] \in Nat /\ d.start[k + 1] \in Nat
        /\ d.start[k + 1] = d.start[k] + d.msgs[k].len
    BY <1>1, <2>2, PacketFacts
  <2>4. PayloadLen(n) = d.msgs[k].len - HdrLen
    BY <2>1 DEF PayloadLen
  <2> QED
    BY <1>4, <2>1, <2>2, <2>3, <2>4 DEF Plain, HdrLen
<1> QED
  BY <1>1, <1>2, <1>3, <1>4

LEMMA ReadBytesInPlace ==
    ASSUME TypeInv, NEW n \in Netlinkers, InPlace(n), TypeInv',
           ReadPayload(n) \/ ReadPayloadShort(n)
    PROVE  InPlace(n)'
<1> DEFINE d == packet[n]
           k == netlinkMsgCount[n] + 1
           p == PayloadLen(n)
<1>1. /\ netlinkerPc[n] = "check" /\ header[n].type = "data"
      /\ packet' = packet /\ netlinkMsgCount' = netlinkMsgCount
      /\ header' = header /\ at' = at
      /\ UNCHANGED <<bufferSize, taken>>
      /\ remaining' = [remaining EXCEPT ![n] = @ - p]
      /\ netlinkerPc' = [netlinkerPc EXCEPT ![n] = "sample"]
  BY DEF ReadPayload, ReadPayloadShort, ReadBytes, HasPayload, WithinDatagram,
         pollVars, Goto
<1>2. netlinkerPc'[n] = "sample" /\ remaining'[n] = remaining[n] - p
  BY <1>1 DEF TypeInv, WalkTypeOK
<1>3. /\ d \in Packets /\ bufferSize \in Nat /\ offset[n] \in Nat
      /\ remaining[n] \in Int /\ InSize(d) \in Nat /\ InSize(d) <= bufferSize
      /\ offset[n] + remaining[n] = InSize(d) /\ p \in Int
      /\ Left(n) = bufferSize - offset[n] /\ offset[n] <= bufferSize
  BY <1>1, AtCheck
<1>4. \/ p \in Nat /\ offset'[n] = offset[n] + p /\ offset[n] + p <= bufferSize
      \/ p > bufferSize - offset[n] /\ offset'[n] = bufferSize
  <2>1. CASE ReadPayload(n)
    <3>1. p \in 0 .. Left(n) /\ offset' = [offset EXCEPT ![n] = @ + p]
      BY <2>1 DEF ReadPayload
    <3>2. offset'[n] = offset[n] + p
      BY <3>1 DEF TypeInv, WalkTypeOK
    <3> HIDE DEF p, d
    <3> QED
      BY <1>3, <3>1, <3>2
  <2>2. CASE ReadPayloadShort(n)
    <3>1. p > Left(n) /\ offset' = [offset EXCEPT ![n] = bufferSize]
      BY <2>2 DEF ReadPayloadShort
    <3>2. offset'[n] = bufferSize
      BY <3>1 DEF TypeInv, WalkTypeOK
    <3> QED
      BY <1>3, <3>1, <3>2
  <2> QED
    BY <2>1, <2>2
<1>5. offset'[n] <= bufferSize
        /\ (remaining[n] - p >= HdrLen => offset'[n] + (remaining[n] - p) = InSize(d))
  <2> HIDE DEF p, d
  <2> QED
    BY <1>3, <1>4 DEF HdrLen
<1>6. InBuffer(n)'
  BY <1>1, <1>2, <1>3, <1>5 DEF InPlace, InBuffer, Walking, InSize
<1>7. ASSUME Plain(d)
      PROVE  /\ k \in Received(d) /\ Reached(d, k) /\ d.msgs[k].type = "data"
             /\ at[n] = k /\ header[n] = d.msgs[k]
             /\ remaining[n] - p = InSize(d) - d.start[k + 1]
             /\ ~whole'[n] => d.start[k + 1] > InSize(d)
  <2>1. /\ k \in DOMAIN d.msgs /\ k \in Received(d) /\ Reached(d, k)
        /\ at[n] = k /\ header[n] = d.msgs[k]
        /\ d.start[k] \in Nat /\ d.start[k + 1] \in Nat
        /\ d.start[k + 1] = d.start[k] + HdrLen + p
        /\ offset[n] = d.start[k] + HdrLen /\ p \in Nat /\ k \in Nat \ {0}
    BY <1>1, <1>7, AtCheck
  <2>2. d.msgs[k].type = "data"
    BY <1>1, <2>1
  <2>3. remaining[n] - p = InSize(d) - d.start[k + 1]
    <3> DEFINE from == d.start[k]
               to == d.start[k + 1]
               size == InSize(d)
    <3>1. /\ from \in Nat /\ to = from + 16 + p /\ offset[n] = from + 16
          /\ offset[n] + remaining[n] = size /\ size \in Nat
      BY <1>3, <2>1 DEF HdrLen
    <3> HIDE DEF from, to, size, p
    <3>2. remaining[n] - p = size - to
      BY <1>3, <3>1
    <3> QED
      BY <3>2 DEF to, size
  <2>4. ASSUME ~whole'[n] PROVE d.start[k + 1] > InSize(d)
    <3>1. at[n] # 0
      BY <2>1
    <3>2. CASE ReadPayload(n)
      <4>1. whole'[n] = (at[n] # 0 /\ offset'[n] <= InSize(packet[n]))
        BY <3>2, Zenon DEF ReadPayload, TypeInv, WalkTypeOK
      <4>2. ~(offset'[n] <= InSize(d))
        BY <2>4, <3>1, <4>1
      <4>3. offset'[n] = d.start[k + 1]
        <5>1. offset' = [offset EXCEPT ![n] = @ + p]
          BY <3>2 DEF ReadPayload
        <5> QED
          BY <2>1, <5>1 DEF TypeInv, WalkTypeOK
      <4> QED
        BY <1>3, <2>1, <4>2, <4>3
    <3>3. CASE ReadPayloadShort(n)
      <4>1. p > bufferSize - offset[n]
        BY <1>3, <3>3 DEF ReadPayloadShort
      <4> DEFINE from == d.start[k]
                 to == d.start[k + 1]
                 size == InSize(d)
      <4>2. /\ from \in Nat /\ to = from + 16 + p /\ offset[n] = from + 16
            /\ size \in Nat /\ size <= bufferSize
        BY <1>3, <2>1 DEF HdrLen
      <4> HIDE DEF from, to, size, p
      <4>3. to > size
        BY <1>3, <4>1, <4>2
      <4> QED
        BY <4>3 DEF to, size
    <3> QED
      BY <3>2, <3>3
  <2> QED
    BY <2>1, <2>2, <2>3, <2>4
<1>8. InStep(n)'
  <2> SUFFICES ASSUME Plain(d)
               PROVE  /\ k \in {i \in DOMAIN d.msgs : d.start[i] + HdrLen <= InSize(d)}
                      /\ Reached(d, k) /\ at[n] = k /\ header[n] = d.msgs[k]
                      /\ d.msgs[k].type = "data"
                      /\ remaining'[n] = InSize(d) - d.start[k + 1]
                      /\ ~whole'[n] => d.start[k + 1] > InSize(d)
    BY <1>1, <1>2 DEF InStep, Walking, InSize, Received, Plain, Reached
  <2> QED
    BY <1>2, <1>7 DEF Received
<1> QED
  BY <1>6, <1>8 DEF InPlace

LEMMA WalkInPlace ==
    ASSUME TypeInv, NEW n \in Netlinkers, InPlace(n), TypeInv', Walk(n)
    PROVE  InPlace(n)'
<1>1. bufferSize' = bufferSize /\ taken' = taken
  BY DEF Walk, ReadHeader, ReadControl, ReadDone, SignalDone, ReadOtherFlags,
         BadLength, ReadPayload, ReadPayloadShort, ReadBytes, ReadPayloadEOF,
         SkipMessage, SendMessage, SendWouldBlock, SendBlocked, Send,
         ReturnNetlinker, WithinDatagram, pollVars
<1>2. CASE ReadHeader(n)
  BY <1>2, ReadHeaderInPlace
<1>3. CASE ReadControl(n) \/ SignalDone(n)
  BY <1>1, <1>3, NextDatagramInPlace DEF ReadControl, SignalDone
<1>4. CASE ReadDone(n)
  <2>1. netlinkerPc[n] = "check" /\ netlinkerPc'[n] = "sendDone" /\ UNCHANGED walkVars
    BY <1>4 DEF ReadDone, Goto, TypeInv, WalkTypeOK
  <2> QED
    BY <1>1, <2>1 DEF InPlace, InBuffer, InStep, Walking, walkVars, InSize,
                      Received, Plain, Reached
<1>5. CASE ReadOtherFlags(n)
  <2>1. netlinkerPc[n] = "check" /\ header[n].type = "data" /\ ~header[n].multi
    BY <1>5 DEF ReadOtherFlags
  <2>2. ~Plain(packet[n])
    BY <2>1, AtCheck
  <2> QED
    BY <1>1, <1>5, <2>1, <2>2, NextMessageInPlace DEF ReadOtherFlags
<1>6. CASE BadLength(n)
  <2>1. UNCHANGED <<netlinkerPc, walkVars>>
    BY <1>6 DEF BadLength
  <2>2. SameWalk(n)
    BY <1>1, <2>1 DEF SameWalk, walkVars
  <2> QED
    BY <1>1, <2>2, SameWalkInPlace
<1>7. CASE ReadPayload(n) \/ ReadPayloadShort(n)
  BY <1>7, ReadBytesInPlace
<1>8. CASE ReadPayloadEOF(n)
  <2>1. netlinkerPc[n] = "check" /\ Left(n) = 0
    BY <1>8 DEF ReadPayloadEOF, HasPayload
  <2>2. ~Another(n)
    BY <2>1, AtCheck DEF Another, HdrLen
  <2> QED
    BY <1>1, <1>8, <2>1, <2>2, NextMessageInPlace DEF ReadPayloadEOF
<1>9. CASE SkipMessage(n) \/ SendMessage(n) \/ SendBlocked(n)
  <2>1. netlinkerPc[n] \in {"sample", "blocked"} /\ \E more : NextMessage(n, more)
    BY <1>9 DEF SkipMessage, SendMessage, SendBlocked, Send
  <2> QED
    BY <1>1, <2>1, NextMessageInPlace
<1>10. CASE SendWouldBlock(n)
  <2>1. netlinkerPc[n] = "sample" /\ netlinkerPc'[n] = "blocked" /\ UNCHANGED walkVars
    BY <1>10 DEF SendWouldBlock, Goto, TypeInv, WalkTypeOK
  <2> QED
    BY <1>1, <2>1 DEF InPlace, InBuffer, InStep, Walking, walkVars, InSize,
                      Received, Plain, Reached
<1>11. CASE ReturnNetlinker(n)
  <2>1. netlinkerPc'[n] = "off" /\ UNCHANGED offset
    BY <1>11 DEF ReturnNetlinker, Goto, TypeInv, WalkTypeOK, walkVars
  <2> QED
    BY <1>1, <1>11, <2>1 DEF InPlace, InBuffer, InStep, Walking, ReturnNetlinker
<1> QED
  BY <1>2, <1>3, <1>4, <1>5, <1>6, <1>7, <1>8, <1>9, <1>10, <1>11 DEF Walk

LEMMA InPlaceStep ==
    ASSUME TypeInv, TypeInv', \A n \in Netlinkers : InPlace(n),
           [NetlinkerParseNext]_netlinkerParseVars
    PROVE  \A n \in Netlinkers : InPlace(n)'
<1>1. CASE StartPoll
  <2> SUFFICES ASSUME NEW n \in Netlinkers PROVE InPlace(n)'
    OBVIOUS
  <2>1. netlinkerPc'[n] = "recvfrom" /\ UNCHANGED <<offset, bufferSize>>
    BY <1>1 DEF StartPoll, walkVars
  <2> QED
    BY <2>1 DEF InPlace, InBuffer, InStep, Walking
<1>2. CASE TakeMessage \/ StaterStep \/ UNCHANGED netlinkerParseVars
  <2>1. UNCHANGED <<pollVars, netlinkerPc, walkVars, taken>>
    BY <1>2 DEF TakeMessage, StaterStep, netlinkerParseVars
  <2>2. \A n \in Netlinkers : SameWalk(n) /\ bufferSize' = bufferSize
    BY <2>1 DEF SameWalk, walkVars, pollVars
  <2> QED
    BY <2>2, SameWalkInPlace
<1>3. ASSUME NEW n \in Netlinkers, Receive(n) \/ Walk(n)
      PROVE  \A m \in Netlinkers : InPlace(m)'
  <2> SUFFICES ASSUME NEW m \in Netlinkers PROVE InPlace(m)'
    OBVIOUS
  <2>1. CASE m = n
    BY <1>3, <2>1, ReceiveInPlace, WalkInPlace
  <2>2. CASE m # n
    <3>1. bufferSize' = bufferSize
      BY <1>3 DEF Receive, RecvDatagram, RecvShort, RecvError, RecvTemporary,
         TakeDatagram, Walk, ReadHeader, ReadControl, ReadDone, SignalDone,
         ReadOtherFlags, BadLength, ReadPayload, ReadPayloadShort, ReadBytes,
         ReadPayloadEOF, SkipMessage, SendMessage, SendWouldBlock, SendBlocked,
         Send, ReturnNetlinker, WithinDatagram, pollVars
    <3> QED
      BY <1>3, <2>2, <3>1, OthersStay, SameWalkInPlace
  <2> QED
    BY <2>1, <2>2
<1> QED
  BY <1>1, <1>2, <1>3 DEF NetlinkerParseNext

-----------------------------------------------------------------------------
(* The messages sent.                                                      *)
LEMMA LastReceived ==
    ASSUME bufferSize \in Nat, NEW d \in Packets, NEW k \in Received(d),
           d.start[k + 1] > InSize(d)
    PROVE  DatagramSize(d) > bufferSize /\ k = Max(Received(d))
<1>1. k \in DOMAIN d.msgs /\ k \in Nat /\ k + 1 \in DOMAIN d.start
  BY PacketFacts DEF Received
<1>2. InSize(d) \in Nat /\ InSize(d) \in {bufferSize, DatagramSize(d)}
      /\ InSize(d) <= DatagramSize(d) /\ DatagramSize(d) \in Nat
  BY InSizeFacts, PacketFacts
<1>3. \A j \in DOMAIN d.start : d.start[j] \in Nat /\ j \in Nat
  BY PacketFacts
<1>4. \A j \in DOMAIN d.start : j >= k + 1 => d.start[j] > InSize(d)
  <2> SUFFICES ASSUME NEW j \in DOMAIN d.start, j > k + 1
               PROVE  d.start[j] > InSize(d)
    BY <1>1, <1>3
  <2>1. d.start[k + 1] + HdrLen <= d.start[j]
    BY <1>1, <1>3, DatagramStartsGrow
  <2> QED
    BY <1>1, <1>2, <1>3, <2>1 DEF HdrLen
<1>5. DatagramSize(d) > bufferSize
  <2>1. Len(d.msgs) + 1 \in DOMAIN d.start /\ Len(d.msgs) + 1 >= k + 1
    BY <1>1, PacketFacts
  <2>2. DatagramSize(d) > InSize(d)
    BY <1>4, <2>1 DEF DatagramSize
  <2> QED
    BY <1>2, <2>2
<1>6. \A j \in Received(d) : j <= k
  <2> SUFFICES ASSUME NEW j \in Received(d), j > k
               PROVE  FALSE
    BY <1>1, <1>3, PacketFacts DEF Received
  <2>1. j \in DOMAIN d.start /\ j \in Nat /\ d.start[j] + HdrLen <= InSize(d)
    BY PacketFacts DEF Received
  <2>2. d.start[j] > InSize(d)
    BY <1>1, <1>4, <2>1
  <2> QED
    BY <1>2, <1>3, <2>1, <2>2 DEF HdrLen
<1>7. \A j \in Received(d) : j \in Nat
  BY PacketFacts DEF Received
<1> HIDE DEF Received
<1>8. k = Max(Received(d))
  <2> DEFINE S == Received(d)
  <2>1. k \in S /\ \A j \in S : j <= k /\ j \in Nat
    BY <1>6, <1>7
  <2> HIDE DEF S
  <2>2. Max(S) \in S /\ \A j \in S : Max(S) >= j
    BY <1>1, <2>1 DEF Max
  <2>3. Max(S) = k
    BY <1>1, <2>1, <2>2
  <2> QED
    BY <2>3 DEF S
<1> QED
  BY <1>5, <1>8

AllOwnBytes == \A i \in DOMAIN netlinkerCh : OwnBytes(netlinkerCh[i])

LEMMA SentOwnBytes ==
    ASSUME TypeInv, NEW n \in Netlinkers, InPlace(n),
           netlinkerPc[n] \in {"sample", "blocked"}
    PROVE  OwnBytes(MessageOf(n))
<1> DEFINE d == packet[n]
           k == netlinkMsgCount[n] + 1
<1> SUFFICES ASSUME Plain(d), ~whole[n]
             PROVE  DatagramSize(d) > bufferSize /\ k = Max(Received(d))
  BY DEF OwnBytes, MessageOf
<1>1. d \in Packets /\ bufferSize \in Nat
  BY DEF TypeInv, WalkTypeOK, InPlace, InBuffer, Walking
<1>2. k \in Received(d) /\ d.start[k + 1] > InSize(d)
  BY DEF InPlace, InStep, Walking
<1> HIDE DEF d, k
<1> QED
  BY <1>1, <1>2, LastReceived

LEMMA OwnBytesStep ==
    ASSUME TypeInv, \A n \in Netlinkers : InPlace(n), AllOwnBytes,
           [NetlinkerParseNext]_netlinkerParseVars
    PROVE  AllOwnBytes'
<1>1. bufferSize' = bufferSize
  BY DEF NetlinkerParseNext, StartPoll, TakeMessage, StaterStep,
         Receive, RecvDatagram, RecvShort, RecvError, RecvTemporary,
         TakeDatagram, Walk, ReadHeader, ReadControl, ReadDone, SignalDone,
         ReadOtherFlags, BadLength, ReadPayload, ReadPayloadShort, ReadBytes,
         ReadPayloadEOF, SkipMessage, SendMessage, SendWouldBlock, SendBlocked,
         Send, ReturnNetlinker, WithinDatagram, pollVars, netlinkerParseVars
<1>3. netlinkerCh \in Seq(SentMessage)
  BY DEF TypeInv, WalkTypeOK
<1>4. CASE UNCHANGED netlinkerCh
  <2> SUFFICES ASSUME NEW i \in DOMAIN netlinkerCh
               PROVE  OwnBytes(netlinkerCh[i])'
    BY <1>4 DEF AllOwnBytes
  <2>1. OwnBytes(netlinkerCh[i])
    BY DEF AllOwnBytes
  <2> QED
    BY <1>1, <1>4, <2>1 DEF OwnBytes, Received, InSize
<1>5. CASE TakeMessage
  <2>1. netlinkerCh' = Tail(netlinkerCh) /\ netlinkerCh # <<>>
    BY <1>5 DEF TakeMessage
  <2>2. \A i \in DOMAIN netlinkerCh' :
           i + 1 \in DOMAIN netlinkerCh /\ netlinkerCh'[i] = netlinkerCh[i + 1]
    BY <1>3, <2>1
  <2> QED
    BY <1>1, <2>2 DEF AllOwnBytes, OwnBytes, Received, InSize
<1>6. ASSUME NEW n \in Netlinkers, SendMessage(n) \/ SendBlocked(n)
      PROVE  AllOwnBytes'
  <2>1. netlinkerCh' = Append(netlinkerCh, MessageOf(n))
    BY <1>6 DEF SendMessage, SendBlocked, Send
  <2>2. OwnBytes(MessageOf(n))
    BY <1>6, SentOwnBytes DEF SendMessage, SendBlocked
  <2>3. \A i \in DOMAIN netlinkerCh' :
           \/ i \in DOMAIN netlinkerCh /\ netlinkerCh'[i] = netlinkerCh[i]
           \/ netlinkerCh'[i] = MessageOf(n)
    BY <1>3, <2>1
  <2> SUFFICES ASSUME NEW i \in DOMAIN netlinkerCh'
               PROVE  OwnBytes(netlinkerCh[i])'
    BY DEF AllOwnBytes
  <2> DEFINE m == netlinkerCh'[i]
  <2>4. OwnBytes(m)
    BY <2>2, <2>3 DEF AllOwnBytes
  <2> QED
    BY <1>1, <2>4 DEF OwnBytes, Received, InSize
<1> QED
  BY <1>4, <1>5, <1>6
     DEF NetlinkerParseNext, StartPoll, StaterStep,
         Receive, RecvDatagram, RecvShort, RecvError, RecvTemporary,
         TakeDatagram, Walk, ReadHeader, ReadControl, ReadDone, SignalDone,
         ReadOtherFlags, BadLength, ReadPayload, ReadPayloadShort, ReadBytes,
         ReadPayloadEOF, SkipMessage, SendWouldBlock,
         ReturnNetlinker, WithinDatagram, netlinkerParseVars

LEMMA PanicStep ==
    ASSUME TypeInv, \A n \in Netlinkers : InPlace(n), PanicExplained,
           [NetlinkerParseNext]_netlinkerParseVars
    PROVE  PanicExplained'
<1>1. CASE DialFails
  BY <1>1 DEF DialFails, staterVars, PanicExplained
<1>2. ASSUME NEW n \in Netlinkers, BadLength(n)
      PROVE  PanicExplained'
  <2>1. netlinkerPc[n] = "check" /\ PayloadLen(n) < 0 /\ UNCHANGED taken
    BY <1>2 DEF BadLength, HasPayload, WithinDatagram
  <2>2. ~Plain(packet[n])
    BY <2>1, AtCheck
  <2>3. PICK i \in DOMAIN taken[n] : taken[n][i] = packet[n]
    BY <2>1 DEF InPlace, InBuffer, Walking
  <2>4. ~Plain(taken'[n][i]) /\ i \in DOMAIN taken'[n]
    BY <2>1, <2>2, <2>3
  <2> QED
    BY <2>4 DEF PanicExplained, Plain
<1>3. CASE ~panicked'
  BY <1>3 DEF PanicExplained
<1>4. CASE UNCHANGED netlinkerParseVars
  BY <1>4 DEF netlinkerParseVars, netlinkerStaterVars, staterVars, PanicExplained, Plain
<1>5. CASE NetlinkerParseNext /\ panicked' = panicked
  BY <1>3, <1>5 DEF NetlinkerParseNext
<1> QED
  BY <1>1, <1>2, <1>4, <1>5
     DEF NetlinkerParseNext, StartPoll, StaterStep, TakeMessage, DialStatsd,
         ReceiveReport, Receive, RecvDatagram, RecvShort, RecvError, RecvTemporary,
         TakeDatagram, Walk, ReadHeader, ReadControl, ReadDone, SignalDone,
         ReadOtherFlags, ReadPayload, ReadPayloadShort, ReadBytes,
         ReadPayloadEOF, SkipMessage, SendMessage, SendWouldBlock, SendBlocked,
         Send, ReturnNetlinker, SendReport, WithinDatagram, netlinkerStaterVars

-----------------------------------------------------------------------------
LEMMA InvInit == NetlinkerParseInit => NetlinkerParseInv
<1> SUFFICES ASSUME NetlinkerParseInit PROVE NetlinkerParseInv
  OBVIOUS
<1>1. TypeInv
  BY TypeInit
<1>2. ASSUME NEW n \in Netlinkers PROVE InBuffer(n) /\ InStep(n)
  <2>1. netlinkerPc[n] = "off" /\ offset[n] = 0 /\ bufferSize \in Nat
    BY <1>1 DEF TypeInv, WalkTypeOK, NetlinkerParseInit
  <2> QED
    BY <2>1 DEF InBuffer, InStep, Walking
<1> QED
  BY <1>1, <1>2 DEF NetlinkerParseInv, TypeInv, NetlinkerParseInit,
                    NetlinkerStaterInit, PanicExplained

LEMMA InvStep ==
    NetlinkerParseInv /\ [NetlinkerParseNext]_netlinkerParseVars => NetlinkerParseInv'
<1> SUFFICES ASSUME NetlinkerParseInv, [NetlinkerParseNext]_netlinkerParseVars
             PROVE  NetlinkerParseInv'
  OBVIOUS
<1>1. TypeInv /\ (\A n \in Netlinkers : InPlace(n)) /\ AllOwnBytes /\ PanicExplained
  BY DEF NetlinkerParseInv, TypeInv, InPlace, AllOwnBytes
<1>2. TypeInv'
  BY <1>1, TypeStep DEF InPlace
<1>3. \A n \in Netlinkers : InPlace(n)'
  BY <1>1, <1>2, InPlaceStep
<1>4. AllOwnBytes' /\ PanicExplained'
  BY <1>1, OwnBytesStep, PanicStep
<1> QED
  BY <1>2, <1>3, <1>4 DEF NetlinkerParseInv, TypeInv, InPlace, AllOwnBytes

(* The invariant, for any number of netlinkers, any dumps and any buffer.  *)
THEOREM WalkInvariant == NetlinkerParseSpec => []NetlinkerParseInv
BY InvInit, InvStep, PTL DEF NetlinkerParseSpec

(* Every variable has its type, a header is only read where there is room  *)
(* for one in what was received, and the reader never leaves the buffer.   *)
THEOREM NetlinkerParseTypes == NetlinkerParseSpec => []NetlinkerParseTypeOK
<1> DEFINE Waits == pollerWaits \in BOOLEAN
<1>1. NetlinkerParseInit => Waits
  BY DEF NetlinkerParseInit
<1>2. Waits /\ [NetlinkerParseNext]_netlinkerParseVars => Waits'
  BY DEF NetlinkerParseNext, StartPoll, TakeMessage, StaterStep, Receive, Walk,
         RecvDatagram, RecvShort, RecvError, RecvTemporary, TakeDatagram, ReadHeader,
         ReadControl, ReadDone, SignalDone, ReadOtherFlags, BadLength, ReadPayload,
         ReadPayloadShort, ReadBytes, ReadPayloadEOF, SkipMessage, SendMessage,
         SendWouldBlock, SendBlocked, Send, ReturnNetlinker, WithinDatagram, pollVars,
         netlinkerParseVars
<1>3. NetlinkerParseInv /\ Waits => NetlinkerParseTypeOK
  BY DEF NetlinkerParseInv, NetlinkerParseTypeOK, WalkTypeOK, InBuffer, Place
<1> QED
  BY <1>1, <1>2, <1>3, WalkInvariant, PTL DEF NetlinkerParseSpec

(* What goes to netlinkerCh from a plain datagram is bytes of its own,     *)
(* except in the last message read of one that the buffer has cut short.   *)
THEOREM OwnBytesAreSent == NetlinkerParseSpec => []ForeignBytesOnlyAtTheCut
<1>1. NetlinkerParseInv => ForeignBytesOnlyAtTheCut
  <2> SUFFICES ASSUME NetlinkerParseInv, NEW m \in Sent
               PROVE  OwnBytes(m)
    BY DEF ForeignBytesOnlyAtTheCut, OwnBytes
  <2> QED
    BY DEF NetlinkerParseInv, Sent, Range
<1> QED
  BY <1>1, WalkInvariant, PTL

(* The walk over plain datagrams reads no header that is none, and never   *)
(* panics: not even over one that the buffer has cut short anywhere.       *)
THEOREM PlainDumpsAreSafe == NetlinkerParseSpec => []PlainDumpsDoNotPanic
<1>1. NetlinkerParseInv => PlainDumpsDoNotPanic
  <2> SUFFICES ASSUME NetlinkerParseInv,
                      \A n \in Netlinkers : \A i \in DOMAIN taken[n] : Plain(taken[n][i])
               PROVE  /\ \A n \in Netlinkers : netlinkerPc[n] = "check" => at[n] # 0
                      /\ panicked => udpConn = "dial"
    BY DEF PlainDumpsDoNotPanic, AllPlain
  <2>1. panicked => udpConn = "dial"
    BY DEF NetlinkerParseInv, PanicExplained
  <2>2. ASSUME NEW n \in Netlinkers, netlinkerPc[n] = "check"
        PROVE  at[n] # 0
    <3>1. TypeInv /\ InPlace(n)
      BY DEF NetlinkerParseInv, TypeInv, InPlace
    <3>2. Plain(packet[n])
      BY <2>2 DEF NetlinkerParseInv, InBuffer, Walking
    <3> QED
      BY <2>2, <3>1, <3>2, AtCheck
  <2> QED
    BY <2>1, <2>2
<1> QED
  BY <1>1, WalkInvariant, PTL

-----------------------------------------------------------------------------
(* The walk over bytes implements module Netlinker's over messages.        *)
LEMMA FirstReceived ==
    ASSUME bufferSize \in Nat, NEW d \in Packets
    PROVE  /\ Cardinality(Received(d)) \in 0 .. Len(d.msgs)
           /\ Received(d) = 1 .. Cardinality(Received(d))
<1> DEFINE n == Len(d.msgs)
           T == {j \in 1 .. n + 1 : j \notin Received(d)}
<1>1. n \in Nat /\ DOMAIN d.msgs = 1 .. n /\ DOMAIN d.start = 1 .. n + 1
  BY PacketFacts
<1>2. \A j \in 1 .. n + 1 : d.start[j] \in Nat
  BY PacketFacts
<1>3. T \in SUBSET Nat /\ n + 1 \in T
  BY <1>1 DEF Received
<1>4. PICK x \in T : \A y \in T : x <= y
  BY <1>3, LeastElement
<1>5. Received(d) = 1 .. x - 1
  <2>1. x \in 1 .. n + 1 /\ x \notin Received(d)
    BY <1>4
  <2>2. \A j \in 1 .. n + 1 : j < x => j \in Received(d)
    BY <1>1, <1>4, <2>1
  <2>3. ASSUME NEW j \in Received(d) PROVE j < x
    <3>1. j \in 1 .. n /\ d.start[j] + HdrLen <= InSize(d)
      BY <1>1 DEF Received
    <3>2. SUFFICES ASSUME x < j PROVE FALSE
      BY <1>1, <2>1, <3>1
    <3>3. x \in 1 .. n /\ d.start[x] + HdrLen <= d.start[j]
      BY <1>1, <2>1, <3>1, <3>2, DatagramStartsGrow
    <3>4. d.start[x] \in Nat /\ d.start[j] \in Nat /\ InSize(d) \in Nat
      BY <1>2, <2>1, <3>1, InSizeFacts
    <3>5. d.start[x] + HdrLen <= InSize(d)
      BY <3>1, <3>3, <3>4 DEF HdrLen
    <3> QED
      BY <1>1, <2>1, <3>3, <3>5 DEF Received
  <2>4. Received(d) \subseteq 1 .. n
    BY <1>1 DEF Received
  <2>5. 1 .. x - 1 \subseteq Received(d)
    BY <1>1, <2>1, <2>2
  <2>6. Received(d) \subseteq 1 .. x - 1
    BY <1>1, <2>1, <2>3, <2>4
  <2> QED
    BY <2>5, <2>6, Zenon
<1>6. x - 1 \in 0 .. n
  BY <1>1, <1>4
<1>7. Cardinality(1 .. x - 1) = x - 1
  BY <1>6, FS_Interval
<1> QED
  BY <1>5, <1>6, <1>7

LEMMA TypesFacts ==
    ASSUME bufferSize \in Nat, NEW d \in Packets
    PROVE  /\ Len(Types(d).msgs) \in Nat
           /\ Received(d) = 1 .. Len(Types(d).msgs)
           /\ \A i \in Received(d) : Types(d).msgs[i] = d.msgs[i].type
           /\ Types(d).poll = d.poll /\ Types(d).num = d.num
<1> DEFINE r == Cardinality(Received(d))
<1>1. r \in Nat /\ Received(d) = 1 .. r
  BY FirstReceived, PacketFacts
<1>2. /\ Types(d).msgs = [i \in 1 .. r |-> d.msgs[i].type]
      /\ Types(d).poll = d.poll /\ Types(d).num = d.num
  BY DEF Types
<1> HIDE DEF r
<1> DEFINE types == Types(d).msgs
<1>3. types = [i \in 1 .. r |-> d.msgs[i].type]
  BY <1>2
<1> HIDE DEF types
<1>4. Len(types) = r /\ \A i \in 1 .. r : types[i] = d.msgs[i].type
  BY <1>1, <1>3
<1> QED
  BY <1>1, <1>2, <1>4 DEF types

(* The state of module Netlinker that the refinement maps to.              *)
SocketOfTypes == [i \in DOMAIN socket |-> Types(socket[i])]
ChOfMessages == [i \in DOMAIN netlinkerCh |-> AbstractMessage(netlinkerCh[i])]
PcOf == [n \in Netlinkers |-> AbstractPc(n)]
PacketOf == [n \in Netlinkers |-> IF InDatagram(n) THEN Types(packet[n])
                                  ELSE [poll |-> 0, num |-> 0, msgs |-> <<>>]]
CountOf == [n \in Netlinkers |-> IF InDatagram(n) THEN netlinkMsgCount[n] ELSE 0]
StaterOf == [s \in {"poller", "netlinker", "inetdiager"} |->
                IF s = "netlinker" THEN Len(netlinkerStaterCh) ELSE 0]

(* What a step of a netlinker leaves alone there.                          *)
LEMMA OnlyItsOwn ==
    ASSUME TypeInv, NEW n \in Netlinkers, Receive(n) \/ Walk(n)
    PROVE  /\ bufferSize' = bufferSize /\ polls' = polls
           /\ PcOf' = [PcOf EXCEPT ![n] = PcOf'[n]]
           /\ PacketOf' = [PacketOf EXCEPT ![n] = PacketOf'[n]]
           /\ CountOf' = [CountOf EXCEPT ![n] = CountOf'[n]]
<1>1. bufferSize' = bufferSize /\ polls' = polls
  BY DEF Receive, RecvDatagram, RecvShort, RecvError, RecvTemporary,
         TakeDatagram, Walk, ReadHeader, ReadControl, ReadDone, SignalDone,
         ReadOtherFlags, BadLength, ReadPayload, ReadPayloadShort, ReadBytes,
         ReadPayloadEOF, SkipMessage, SendMessage, SendWouldBlock, SendBlocked,
         Send, ReturnNetlinker, WithinDatagram, pollVars
<1>2. \A m \in Netlinkers \ {n} : SameWalk(m)
  BY OthersStay
<1>3. ASSUME NEW m \in Netlinkers, m # n
      PROVE  /\ AbstractPc(m)' = AbstractPc(m)
             /\ InDatagram(m)' = InDatagram(m)
             /\ Types(packet[m])' = Types(packet[m])
             /\ netlinkMsgCount'[m] = netlinkMsgCount[m]
  BY <1>1, <1>2, <1>3 DEF SameWalk, AbstractPc, InDatagram, Types, Received, InSize
<1>4. PcOf' = [PcOf EXCEPT ![n] = PcOf'[n]]
  BY <1>3 DEF PcOf
<1>5. PacketOf' = [PacketOf EXCEPT ![n] = PacketOf'[n]]
  BY <1>3 DEF PacketOf
<1>6. CountOf' = [CountOf EXCEPT ![n] = CountOf'[n]]
  BY <1>3 DEF CountOf
<1> QED
  BY <1>1, <1>4, <1>5, <1>6

(* The state of a netlinker there, within a datagram and not.              *)
LEMMA AbstractState ==
    ASSUME NEW n \in Netlinkers, netlinkerPc[n] \in Place
    PROVE  /\ netlinkerPc[n] \in {"header", "check", "sample"} => PcOf[n] = "read"
           /\ netlinkerPc[n] \notin {"header", "check", "sample"} =>
                 PcOf[n] = netlinkerPc[n]
           /\ Walking(n) => /\ InDatagram(n)
                            /\ PacketOf[n] = Types(packet[n])
                            /\ CountOf[n] = netlinkMsgCount[n]
           /\ ~Walking(n) => /\ ~InDatagram(n)
                             /\ PacketOf[n] = [poll |-> 0, num |-> 0, msgs |-> <<>>]
                             /\ CountOf[n] = 0
<1>1. PcOf[n] = AbstractPc(n)
  BY DEF PcOf
<1>2. InDatagram(n) <=> Walking(n)
  BY DEF InDatagram, AbstractPc, Walking, Place
<1> QED
  BY <1>1, <1>2 DEF AbstractPc, PacketOf, CountOf

LEMMA AbstractStateNext ==
    ASSUME NEW n \in Netlinkers, netlinkerPc'[n] \in Place
    PROVE  /\ netlinkerPc'[n] \in {"header", "check", "sample"} => PcOf'[n] = "read"
           /\ netlinkerPc'[n] \notin {"header", "check", "sample"} =>
                 PcOf'[n] = netlinkerPc'[n]
           /\ Walking(n)' => /\ InDatagram(n)'
                             /\ PacketOf'[n] = Types(packet[n])'
                             /\ CountOf'[n] = netlinkMsgCount'[n]
           /\ ~Walking(n)' => /\ ~InDatagram(n)'
                              /\ PacketOf'[n] = [poll |-> 0, num |-> 0, msgs |-> <<>>]
                              /\ CountOf'[n] = 0
<1>1. PcOf'[n] = AbstractPc(n)'
  BY DEF PcOf
<1>2. InDatagram(n)' <=> Walking(n)'
  BY DEF InDatagram, AbstractPc, Walking, Place
<1> QED
  BY <1>1, <1>2 DEF AbstractPc, PacketOf, CountOf

LEMMA NextDatagramImplements ==
    ASSUME TypeInv, NEW n \in Netlinkers, Walk(n), NextDatagram(n)
    PROVE  N!NextDatagram(n)
<1>1. netlinkerPc'[n] = "recvfrom"
  BY DEF TypeInv, WalkTypeOK, NextDatagram, Goto
<1>2. /\ PcOf'[n] = "recvfrom"
      /\ PacketOf'[n] = [poll |-> 0, num |-> 0, msgs |-> <<>>]
      /\ CountOf'[n] = 0
  BY <1>1, AbstractStateNext DEF Walking, Place
<1>3. /\ PcOf' = [PcOf EXCEPT ![n] = "recvfrom"]
      /\ PacketOf' = [PacketOf EXCEPT ![n] = [poll |-> 0, num |-> 0, msgs |-> <<>>]]
      /\ CountOf' = [CountOf EXCEPT ![n] = 0] /\ polls' = polls
  BY <1>2, OnlyItsOwn
<1> QED
  BY <1>3 DEF N!NextDatagram, N!Goto, N!NoPacket, PcOf, PacketOf, CountOf

LEMMA NextMessageImplements ==
    ASSUME TypeInv, NEW n \in Netlinkers, InPlace(n), Walk(n), Plain(packet[n]),
           netlinkerPc[n] \in {"sample", "blocked"}, NEW more, NextMessage(n, more)
    PROVE  N!NextMessage(n)
<1> DEFINE d == packet[n]
           k == netlinkMsgCount[n] + 1
           size == Len(PacketOf[n].msgs)
<1>1. /\ d \in Packets /\ bufferSize \in Nat /\ netlinkMsgCount[n] \in Nat
      /\ k \in Received(d) /\ remaining[n] = InSize(d) - d.start[k + 1]
  BY DEF TypeInv, WalkTypeOK, InPlace, InBuffer, InStep, Walking
<1>2. PacketOf[n] = Types(d) /\ CountOf[n] = netlinkMsgCount[n]
  BY AbstractState DEF Walking, Place
<1>3. size \in Nat /\ Received(d) = 1 .. size
  BY <1>1, <1>2, TypesFacts
<1>4. k \in 1 .. size /\ (k + 1 \in Received(d) <=> k < size)
  BY <1>1, <1>3
<1>5. k + 1 \in Received(d) => Another(n)
  <2> SUFFICES ASSUME k + 1 \in Received(d) PROVE Another(n)
    OBVIOUS
  <2> DEFINE next == d.start[k + 1]
             in == InSize(d)
  <2>1. next \in Nat /\ in \in Nat /\ next + 16 <= in /\ remaining[n] = in - next
    BY <1>1, PacketFacts, InSizeFacts DEF Received, HdrLen
  <2> HIDE DEF next, in
  <2> QED
    BY <2>1 DEF Another, HdrLen
<1>6. Another(n) => k + 1 \in Received(d)
  <2> SUFFICES ASSUME Another(n) PROVE k + 1 \in Received(d)
    OBVIOUS
  <2> DEFINE next == d.start[k + 1]
             in == InSize(d)
  <2>1. /\ next \in Nat /\ in \in Nat /\ in <= DatagramSize(d)
        /\ remaining[n] = in - next
        /\ k \in DOMAIN d.msgs
    <3>1. k \in DOMAIN d.msgs
      BY <1>1 DEF Received
    <3> HIDE DEF d, k
    <3> QED
      BY <1>1, <3>1, PacketFacts, InSizeFacts
  <2>2. next + 16 <= in
    <3> HIDE DEF next, in
    <3> QED
      BY <2>1 DEF Another, HdrLen
  <2>3. k # Len(d.msgs)
    BY <2>1, <2>2 DEF DatagramSize
  <2>4. k + 1 \in DOMAIN d.msgs
    <3> HIDE DEF d, k
    <3> QED
      BY <1>1, <2>1, <2>3, PacketFacts
  <2> QED
    BY <2>2, <2>4 DEF Received, HdrLen
<1>7. CASE Another(n)
  <2>1. /\ netlinkerPc'[n] = "header" /\ netlinkMsgCount'[n] = netlinkMsgCount[n] + 1
        /\ packet'[n] = packet[n]
    BY <1>7 DEF NextMessage, Goto, TypeInv, WalkTypeOK
  <2>2. bufferSize' = bufferSize
    BY OnlyItsOwn
  <2>3. /\ PcOf'[n] = "read" /\ PacketOf'[n] = Types(packet[n])'
        /\ CountOf'[n] = CountOf[n] + 1
    BY <1>2, <2>1, AbstractStateNext DEF Walking, Place
  <2>4. Types(packet[n])' = Types(d)
    BY <2>1, <2>2 DEF Types, Received, InSize
  <2>5. /\ PcOf' = [PcOf EXCEPT ![n] = "read"]
        /\ CountOf' = [CountOf EXCEPT ![n] = CountOf[n] + 1] /\ polls' = polls
    BY <2>3, OnlyItsOwn
  <2>6. PacketOf' = PacketOf
    <3>1. PacketOf' = [PacketOf EXCEPT ![n] = PacketOf[n]]
      BY <1>2, <2>3, <2>4, OnlyItsOwn
    <3> QED
      BY <3>1 DEF PacketOf
  <2>7. CountOf[n] + 1 < size
    BY <1>1, <1>2, <1>4, <1>6, <1>7
  <2> QED
    BY <2>5, <2>6, <2>7 DEF N!NextMessage, N!Goto, PcOf, PacketOf, CountOf
<1>8. CASE ~Another(n)
  <2>1. N!NextDatagram(n)
    BY <1>8, NextDatagramImplements DEF NextMessage
  <2>2. CountOf[n] + 1 = size
    BY <1>1, <1>2, <1>3, <1>4, <1>5, <1>8
  <2> QED
    BY <2>1, <2>2 DEF N!NextMessage, PacketOf, CountOf
<1> QED
  BY <1>7, <1>8

(* A message sent is the message sent there.                               *)
LEMMA SendImplements ==
    ASSUME TypeInv, NEW n \in Netlinkers, InPlace(n), Send(n),
           netlinkerPc[n] \in {"sample", "blocked"}
    PROVE  N!Send(N!MessageOf(n))
<1>1. PacketOf[n] = Types(packet[n]) /\ CountOf[n] = netlinkMsgCount[n]
  BY AbstractState DEF Walking, Place
<1>2. packet[n] \in Packets /\ bufferSize \in Nat
  BY DEF TypeInv, WalkTypeOK, InPlace, InBuffer, Walking
<1>3. Types(packet[n]).poll = packet[n].poll /\ Types(packet[n]).num = packet[n].num
  BY <1>2, TypesFacts
<1>4. AbstractMessage(MessageOf(n)) =
         [poll |-> PacketOf[n].poll, num |-> PacketOf[n].num,
          idx |-> CountOf[n], time |-> polls]
  BY <1>1, <1>3 DEF AbstractMessage, MessageOf
<1>5. netlinkerCh \in Seq(SentMessage) /\ Len(netlinkerCh) < NetlinkerChSize
      /\ netlinkerCh' = Append(netlinkerCh, MessageOf(n))
  BY DEF TypeInv, WalkTypeOK, Send
<1>6. ChOfMessages' = Append(ChOfMessages, AbstractMessage(MessageOf(n)))
  <2> DEFINE m == MessageOf(n)
             len == Len(netlinkerCh)
  <2>1. len \in Nat /\ DOMAIN netlinkerCh = 1 .. len /\ DOMAIN ChOfMessages = 1 .. len
        /\ Len(ChOfMessages) = len /\ DOMAIN netlinkerCh' = 1 .. len + 1
    BY <1>5 DEF ChOfMessages
  <2>2. \A i \in 1 .. len : netlinkerCh'[i] = netlinkerCh[i]
    BY <1>5, <2>1
  <2>3. netlinkerCh'[len + 1] = m
    BY <1>5
  <2>4. ChOfMessages' = [i \in 1 .. len + 1 |-> AbstractMessage(netlinkerCh'[i])]
    BY <2>1 DEF ChOfMessages, AbstractMessage
  <2>5. ChOfMessages = [i \in 1 .. len |-> AbstractMessage(netlinkerCh[i])]
    BY <2>1 DEF ChOfMessages
  <2> HIDE DEF m, len
  <2>6. Append(ChOfMessages, AbstractMessage(m)) =
           [i \in 1 .. len + 1 |-> IF i = len + 1 THEN AbstractMessage(m)
                                   ELSE ChOfMessages[i]]
    <3> DEFINE S == {AbstractMessage(netlinkerCh[i]) : i \in 1 .. len} \cup {AbstractMessage(m)}
    <3>1. ChOfMessages \in Seq(S) /\ AbstractMessage(m) \in S
      BY <2>1, <2>5
    <3> DEFINE c == ChOfMessages
               a == AbstractMessage(m)
    <3> HIDE DEF S, c, a
    <3>2. c \in Seq(S) /\ a \in S /\ Len(c) = len /\ len \in Nat
      BY <2>1, <3>1 DEF c, a
    <3>3. Append(c, a) \in [1 .. len + 1 -> S]
      <4> DEFINE t == Append(c, a)
      <4>1. t \in Seq(S) /\ Len(t) = len + 1
        BY <3>2
      <4> HIDE DEF t
      <4>2. t \in [1 .. len + 1 -> S]
        BY <4>1
      <4> QED
        BY <4>2 DEF t
    <3>4. \A i \in 1 .. len + 1 :
             Append(c, a)[i] = IF i = len + 1 THEN a ELSE c[i]
      BY <3>2
    <3>5. Append(c, a) = [i \in 1 .. len + 1 |-> IF i = len + 1 THEN a ELSE c[i]]
      BY <3>3, <3>4, Zenon
    <3> QED
      BY <3>5 DEF c, a
  <2>7. \A i \in 1 .. len + 1 :
           (IF i = len + 1 THEN AbstractMessage(m) ELSE ChOfMessages[i])
              = AbstractMessage(netlinkerCh'[i])
    BY <2>1, <2>2, <2>3, <2>5
  <2> QED
    BY <2>4, <2>6, <2>7 DEF m
<1>7. Len(ChOfMessages) < NetlinkerChSize
  BY <1>5 DEF ChOfMessages
<1>8. UNCHANGED StaterOf
  BY DEF Send, netlinkerStaterVars, StaterOf
<1> QED
  BY <1>4, <1>6, <1>7, <1>8
     DEF N!Send, N!HasRoom, N!MessageOf, ChOfMessages, PacketOf, CountOf, StaterOf

(* A datagram received is the datagram received there.                     *)
LEMMA RecvDatagramImplements ==
    ASSUME TypeInv, NEW n \in Netlinkers, RecvDatagram(n)
    PROVE  N!RecvDatagram(n)
<1>1. /\ socket \in Seq(Packets) /\ socket # <<>> /\ socket' = Tail(socket)
      /\ UNCHANGED <<netlinkerStaterVars, pollVars, netlinkerCh>>
      /\ netlinkerPc[n] = "recvfrom"
  BY DEF TypeInv, WalkTypeOK, RecvDatagram, TakeDatagram
<1>2. /\ netlinkerPc'[n] = "header" /\ packet'[n] = Head(socket)
      /\ netlinkMsgCount'[n] = 0
  BY DEF TypeInv, WalkTypeOK, RecvDatagram, Goto
<1>3. bufferSize' = bufferSize /\ polls' = polls
  BY <1>1 DEF pollVars
<1>4. PcOf[n] = "recvfrom" /\ CountOf[n] = 0
  BY <1>1, AbstractState DEF Place, Walking
<1>5. PcOf'[n] = "read" /\ PacketOf'[n] = Types(packet[n])' /\ CountOf'[n] = 0
  BY <1>2, AbstractStateNext DEF Place, Walking
<1>6. Types(packet[n])' = Types(Head(socket))
  BY <1>2, <1>3 DEF Types, Received, InSize
<1>7. /\ PcOf' = [PcOf EXCEPT ![n] = "read"]
      /\ PacketOf' = [PacketOf EXCEPT ![n] = Types(Head(socket))]
      /\ CountOf' = [CountOf EXCEPT ![n] = CountOf[n]]
  BY <1>4, <1>5, <1>6, OnlyItsOwn DEF Receive
<1>8. CountOf' = CountOf
  BY <1>7 DEF CountOf
<1>9. /\ SocketOfTypes # <<>> /\ Head(SocketOfTypes) = Types(Head(socket))
      /\ SocketOfTypes' = Tail(SocketOfTypes)
  <2> DEFINE len == Len(socket)
  <2>1. len \in Nat \ {0} /\ DOMAIN socket = 1 .. len
        /\ SocketOfTypes = [i \in 1 .. len |-> Types(socket[i])]
    BY <1>1 DEF SocketOfTypes
  <2>2. len - 1 \in Nat /\ DOMAIN socket' = 1 .. len - 1
        /\ \A i \in 1 .. len - 1 : socket'[i] = socket[i + 1]
    BY <1>1
  <2>3. SocketOfTypes' = [i \in 1 .. len - 1 |-> Types(socket[i + 1])]
    <3>1. SocketOfTypes' = [i \in DOMAIN socket' |-> Types(socket[i])']
      BY DEF SocketOfTypes
    <3>2. \A i \in 1 .. len - 1 : Types(socket[i])' = Types(socket[i + 1])
      BY <1>3, <2>2 DEF Types, Received, InSize
    <3> QED
      BY <2>2, <3>1, <3>2, Zenon
  <2> DEFINE S == {Types(socket[i]) : i \in 1 .. len}
  <2>4. Head(socket) = socket[1]
    BY <1>1
  <2> HIDE DEF len
  <2>5. SocketOfTypes \in Seq(S) /\ Len(SocketOfTypes) = len
    BY <2>1
  <2>6. SocketOfTypes[1] = Types(socket[1])
          /\ \A i \in 1 .. len - 1 : SocketOfTypes[i + 1] = Types(socket[i + 1])
    BY <2>1
  <2> HIDE DEF S
  <2>7. SocketOfTypes # <<>> /\ Head(SocketOfTypes) = SocketOfTypes[1]
        /\ Tail(SocketOfTypes) = [i \in 1 .. len - 1 |-> SocketOfTypes[i + 1]]
    BY <2>1, <2>5
  <2> QED
    BY <2>3, <2>4, <2>6, <2>7
<1>10. UNCHANGED <<ChOfMessages, StaterOf>>
  BY <1>1 DEF ChOfMessages, StaterOf, netlinkerStaterVars, AbstractMessage
<1> QED
  BY <1>3, <1>4, <1>7, <1>8, <1>9, <1>10
     DEF N!RecvDatagram, N!Recvfrom, N!Goto, N!channelVars, PcOf, PacketOf, CountOf,
         SocketOfTypes, ChOfMessages, StaterOf

(* The other steps, by the step of module Netlinker they are.              *)
LEMMA UnchangedThere ==
    ASSUME TypeInv, NEW n \in Netlinkers, Walk(n) \/ RecvError(n) \/ RecvTemporary(n)
    PROVE  /\ UNCHANGED SocketOfTypes
           /\ UNCHANGED netlinkerCh => UNCHANGED ChOfMessages
           /\ UNCHANGED netlinkerStaterCh => UNCHANGED StaterOf
<1>1. UNCHANGED socket
  BY DEF Walk, ReadHeader, ReadControl, ReadDone, SignalDone, ReadOtherFlags,
         BadLength, ReadPayload, ReadPayloadShort, ReadBytes, ReadPayloadEOF,
         SkipMessage, SendMessage, SendWouldBlock, SendBlocked, Send,
         ReturnNetlinker, WithinDatagram, RecvError, RecvTemporary
<1>2. bufferSize' = bufferSize
  BY OnlyItsOwn DEF Receive
<1>3. UNCHANGED SocketOfTypes
  BY <1>1, <1>2 DEF SocketOfTypes, Types, Received, InSize
<1>4. UNCHANGED netlinkerCh => UNCHANGED ChOfMessages
  BY DEF ChOfMessages, AbstractMessage
<1>5. UNCHANGED netlinkerStaterCh => UNCHANGED StaterOf
  BY DEF StaterOf
<1> QED
  BY <1>3, <1>4, <1>5

(* What a netlinker that looks at a header of an abstractable datagram     *)
(* knows there.                                                            *)
LEMMA TypeThere ==
    ASSUME TypeInv, NEW n \in Netlinkers, InPlace(n), Plain(packet[n]),
           netlinkerPc[n] \in {"check", "sample", "blocked"}
    PROVE  /\ PacketOf[n].msgs[CountOf[n] + 1] = header[n].type
           /\ header[n] \in Header
           /\ netlinkerPc[n] # "check" => header[n].type = "data"
<1> DEFINE d == packet[n]
           k == netlinkMsgCount[n] + 1
<1>1. /\ d \in Packets /\ bufferSize \in Nat /\ header[n] \in Header
      /\ k \in Received(d) /\ header[n] = d.msgs[k]
      /\ netlinkerPc[n] # "check" => header[n].type = "data"
  BY DEF TypeInv, WalkTypeOK, InPlace, InBuffer, InStep, Walking
<1>2. PacketOf[n] = Types(d) /\ CountOf[n] + 1 = k
  BY AbstractState DEF Walking, Place
<1> HIDE DEF d, k
<1>3. Types(d).msgs[k] = d.msgs[k].type
  BY <1>1, TypesFacts
<1> QED
  BY <1>1, <1>2, <1>3

LEMMA SkipImplements ==
    ASSUME TypeInv, NEW n \in Netlinkers, InPlace(n), Plain(packet[n]), SkipMessage(n)
    PROVE  N!SkipMessage(n)
<1>1. netlinkerPc[n] = "sample" /\ ~Sampled(n) /\ NextMessage(n, NoCounts)
      /\ UNCHANGED <<netlinkerCh, netlinkerStaterCh>> /\ Walk(n)
  BY DEF SkipMessage, Walk, netlinkerStaterVars
<1>2. N!NextMessage(n)
  BY <1>1, NextMessageImplements
<1>3. PcOf[n] = "read" /\ CountOf[n] = netlinkMsgCount[n]
  BY <1>1, AbstractState DEF Walking, Place
<1>4. PacketOf[n].msgs[CountOf[n] + 1] = "data"
  BY <1>1, TypeThere
<1>5. ~(SamplingModulus = 1 \/ CountOf[n] % SamplingModulus = 1)
  BY <1>1, <1>3 DEF Sampled
<1>6. UNCHANGED <<SocketOfTypes, ChOfMessages, StaterOf>>
  BY <1>1, UnchangedThere
<1> QED
  BY <1>2, <1>3, <1>4, <1>5, <1>6
     DEF N!SkipMessage, N!ReadData, N!Type, N!Sampled, N!socketVars, N!channelVars,
         PcOf, PacketOf, CountOf, SocketOfTypes, ChOfMessages, StaterOf

LEMMA SendMessageImplements ==
    ASSUME TypeInv, NEW n \in Netlinkers, InPlace(n), Plain(packet[n])
    PROVE  /\ SendMessage(n) => N!SendMessage(n)
           /\ SendBlocked(n) => N!SendBlocked(n)
<1>1. ASSUME Send(n), Walk(n), netlinkerPc[n] \in {"sample", "blocked"}
      PROVE  N!Send(N!MessageOf(n)) /\ N!NextMessage(n) /\ UNCHANGED SocketOfTypes
  BY <1>1, SendImplements, NextMessageImplements, UnchangedThere DEF Send
<1>2. ASSUME SendMessage(n) PROVE N!SendMessage(n)
  <2>1. netlinkerPc[n] = "sample" /\ Sampled(n) /\ Send(n) /\ Walk(n)
    BY <1>2 DEF SendMessage, Walk
  <2>2. PcOf[n] = "read" /\ CountOf[n] = netlinkMsgCount[n]
    BY <2>1, AbstractState DEF Walking, Place
  <2>3. PacketOf[n].msgs[CountOf[n] + 1] = "data"
    BY <2>1, TypeThere
  <2>4. SamplingModulus = 1 \/ CountOf[n] % SamplingModulus = 1
    BY <2>1, <2>2 DEF Sampled
  <2>5. N!Send(N!MessageOf(n)) /\ N!NextMessage(n) /\ UNCHANGED SocketOfTypes
    BY <1>1, <2>1
  <2> QED
    BY <2>2, <2>3, <2>4, <2>5
       DEF N!SendMessage, N!ReadData, N!Type, N!Sampled, N!socketVars,
           PcOf, PacketOf, CountOf, SocketOfTypes
<1>3. ASSUME SendBlocked(n) PROVE N!SendBlocked(n)
  <2>1. netlinkerPc[n] = "blocked" /\ Send(n) /\ Walk(n)
    BY <1>3 DEF SendBlocked, Walk
  <2>2. PcOf[n] = "blocked"
    BY <2>1, AbstractState DEF Place
  <2>3. N!Send(N!MessageOf(n)) /\ N!NextMessage(n) /\ UNCHANGED SocketOfTypes
    BY <1>1, <2>1
  <2> QED
    BY <2>2, <2>3 DEF N!SendBlocked, N!socketVars, PcOf, SocketOfTypes
<1> QED
  BY <1>2, <1>3

LEMMA WouldBlockImplements ==
    ASSUME TypeInv, NEW n \in Netlinkers, InPlace(n), Plain(packet[n]),
           SendWouldBlock(n)
    PROVE  N!SendWouldBlock(n)
<1>1. /\ netlinkerPc[n] = "sample" /\ Sampled(n) /\ Walk(n)
      /\ ~(Len(netlinkerCh) < NetlinkerChSize)
      /\ UNCHANGED <<netlinkerCh, netlinkerStaterCh, packet, netlinkMsgCount>>
  BY NetlinkerParseAssumption
     DEF SendWouldBlock, Walk, netlinkerStaterVars, walkVars, TypeInv, WalkTypeOK
<1>2. netlinkerPc'[n] = "blocked"
  BY DEF SendWouldBlock, Goto, TypeInv, WalkTypeOK
<1>3. /\ PcOf[n] = "read" /\ CountOf[n] = netlinkMsgCount[n]
      /\ PacketOf[n] = Types(packet[n])
  BY <1>1, AbstractState DEF Walking, Place
<1>4. PacketOf[n].msgs[CountOf[n] + 1] = "data"
  BY <1>1, TypeThere
<1>5. SamplingModulus = 1 \/ CountOf[n] % SamplingModulus = 1
  BY <1>1, <1>3 DEF Sampled
<1>6. bufferSize' = bufferSize
  BY <1>1, OnlyItsOwn
<1>7. /\ PcOf'[n] = "blocked" /\ PacketOf'[n] = Types(packet[n])'
      /\ CountOf'[n] = CountOf[n]
  BY <1>1, <1>2, <1>3, AbstractStateNext DEF Walking, Place
<1>8. Types(packet[n])' = Types(packet[n])
  BY <1>1, <1>6 DEF Types, Received, InSize
<1>9. /\ PcOf' = [PcOf EXCEPT ![n] = "blocked"]
      /\ PacketOf' = [PacketOf EXCEPT ![n] = PacketOf[n]]
      /\ CountOf' = [CountOf EXCEPT ![n] = CountOf[n]] /\ polls' = polls
  BY <1>1, <1>3, <1>7, <1>8, OnlyItsOwn
<1>10. PacketOf' = PacketOf /\ CountOf' = CountOf
  BY <1>9 DEF PacketOf, CountOf
<1>11. UNCHANGED <<SocketOfTypes, ChOfMessages, StaterOf>>
  BY <1>1, UnchangedThere
<1>12. ~(Len(ChOfMessages) < NetlinkerChSize)
  BY <1>1 DEF ChOfMessages, TypeInv, WalkTypeOK
<1> QED
  BY <1>3, <1>4, <1>5, <1>9, <1>10, <1>11, <1>12
     DEF N!SendWouldBlock, N!ReadData, N!Type, N!Sampled, N!HasRoom, N!Goto,
         N!socketVars, N!channelVars, PcOf, PacketOf, CountOf, SocketOfTypes,
         ChOfMessages, StaterOf

LEMMA ControlImplements ==
    ASSUME TypeInv, NEW n \in Netlinkers, InPlace(n), Plain(packet[n])
    PROVE  /\ ReadControl(n) => N!ReadControl(n)
           /\ ReadDone(n) => N!ReadDone(n)
           /\ SignalDone(n) => N!SignalDone(n)
<1>1. ASSUME ReadControl(n) PROVE N!ReadControl(n)
  <2>1. /\ netlinkerPc[n] = "check" /\ header[n].type \in {"noop", "error", "overrun"}
        /\ NextDatagram(n) /\ Walk(n)
        /\ UNCHANGED <<netlinkerCh, netlinkerStaterCh>>
    BY <1>1 DEF ReadControl, Walk, netlinkerStaterVars
  <2>2. PcOf[n] = "read"
    BY <2>1, AbstractState DEF Place
  <2>3. PacketOf[n].msgs[CountOf[n] + 1] \in {"noop", "error", "overrun"}
    BY <2>1, TypeThere
  <2>4. N!NextDatagram(n)
    BY <2>1, NextDatagramImplements
  <2>5. UNCHANGED <<SocketOfTypes, ChOfMessages, StaterOf>>
    BY <2>1, UnchangedThere
  <2> QED
    BY <2>2, <2>3, <2>4, <2>5
       DEF N!ReadControl, N!Type, N!socketVars, N!channelVars, PcOf, PacketOf,
           CountOf, SocketOfTypes, ChOfMessages, StaterOf
<1>2. ASSUME ReadDone(n) PROVE N!ReadDone(n)
  <2>1. /\ netlinkerPc[n] = "check" /\ header[n].type = "done" /\ Walk(n)
        /\ UNCHANGED <<netlinkerCh, netlinkerStaterCh, packet, netlinkMsgCount>>
    BY <1>2 DEF ReadDone, Walk, netlinkerStaterVars, walkVars
  <2>2. netlinkerPc'[n] = "sendDone"
    BY <1>2 DEF ReadDone, Goto, TypeInv, WalkTypeOK
  <2>3. /\ PcOf[n] = "read" /\ CountOf[n] = netlinkMsgCount[n]
        /\ PacketOf[n] = Types(packet[n])
    BY <2>1, AbstractState DEF Walking, Place
  <2>4. PacketOf[n].msgs[CountOf[n] + 1] = "done"
    BY <2>1, TypeThere
  <2>5. bufferSize' = bufferSize
    BY <2>1, OnlyItsOwn
  <2>6. /\ PcOf'[n] = "sendDone" /\ PacketOf'[n] = Types(packet[n])'
        /\ CountOf'[n] = CountOf[n]
    BY <2>1, <2>2, <2>3, AbstractStateNext DEF Walking, Place
  <2>7. Types(packet[n])' = Types(packet[n])
    BY <2>1, <2>5 DEF Types, Received, InSize
  <2>8. /\ PcOf' = [PcOf EXCEPT ![n] = "sendDone"]
        /\ PacketOf' = [PacketOf EXCEPT ![n] = PacketOf[n]]
        /\ CountOf' = [CountOf EXCEPT ![n] = CountOf[n]] /\ polls' = polls
    BY <2>1, <2>3, <2>6, <2>7, OnlyItsOwn
  <2>9. PacketOf' = PacketOf /\ CountOf' = CountOf
    BY <2>8 DEF PacketOf, CountOf
  <2>10. UNCHANGED <<SocketOfTypes, ChOfMessages, StaterOf>>
    BY <2>1, UnchangedThere
  <2> QED
    BY <2>3, <2>4, <2>8, <2>9, <2>10
       DEF N!ReadDone, N!Type, N!Goto, N!socketVars, N!channelVars, PcOf, PacketOf,
           CountOf, SocketOfTypes, ChOfMessages, StaterOf
<1>3. ASSUME SignalDone(n) PROVE N!SignalDone(n)
  <2>1. netlinkerPc[n] = "sendDone" /\ NextDatagram(n) /\ Walk(n)
    BY <1>3 DEF SignalDone, Walk
  <2>2. PcOf[n] = "sendDone"
    BY <2>1, AbstractState DEF Place
  <2>3. N!NextDatagram(n)
    BY <2>1, NextDatagramImplements
  <2> QED
    BY <2>2, <2>3 DEF N!SignalDone, PcOf
<1> QED
  BY <1>1, <1>2, <1>3

(* Where a netlinker is not in a datagram.                                 *)
LEMMA OutsideImplements ==
    ASSUME TypeInv, NEW n \in Netlinkers
    PROVE  /\ RecvTemporary(n) => N!RecvTemporary(n)
           /\ ReturnNetlinker(n) => N!ReturnNetlinker(n)
<1>1. ASSUME NEW pc \in {"off", "stats"},
             netlinkerPc[n] \in {"off", "recvfrom", "stats"},
             Goto(n, pc), Receive(n) \/ Walk(n)
      PROVE  /\ PcOf[n] = netlinkerPc[n]
             /\ PcOf' = [PcOf EXCEPT ![n] = pc] /\ polls' = polls
             /\ UNCHANGED <<PacketOf, CountOf>>
  <2>1. netlinkerPc'[n] = pc
    BY <1>1 DEF Goto, TypeInv, WalkTypeOK
  <2>2. PcOf[n] = netlinkerPc[n] /\ PacketOf[n] = [poll |-> 0, num |-> 0, msgs |-> <<>>]
        /\ CountOf[n] = 0
    BY <1>1, AbstractState DEF Place, Walking
  <2>3. PcOf'[n] = pc /\ PacketOf'[n] = [poll |-> 0, num |-> 0, msgs |-> <<>>]
        /\ CountOf'[n] = 0
    BY <1>1, <2>1, AbstractStateNext DEF Place, Walking
  <2>4. /\ PcOf' = [PcOf EXCEPT ![n] = pc] /\ polls' = polls
        /\ PacketOf' = [PacketOf EXCEPT ![n] = PacketOf[n]]
        /\ CountOf' = [CountOf EXCEPT ![n] = CountOf[n]]
    BY <1>1, <2>2, <2>3, OnlyItsOwn
  <2> QED
    BY <2>2, <2>4 DEF PacketOf, CountOf
<1>2. ASSUME RecvTemporary(n) PROVE N!RecvTemporary(n)
  <2>1. /\ netlinkerPc[n] = "recvfrom" /\ Goto(n, "stats")
        /\ UNCHANGED <<netlinkerCh, netlinkerStaterCh>>
    BY <1>2 DEF RecvTemporary, netlinkerStaterVars
  <2>2. /\ PcOf[n] = "recvfrom" /\ PcOf' = [PcOf EXCEPT ![n] = "stats"]
        /\ polls' = polls /\ UNCHANGED <<PacketOf, CountOf>>
    BY <1>1, <1>2, <2>1 DEF Receive
  <2>3. UNCHANGED <<SocketOfTypes, ChOfMessages, StaterOf>>
    BY <1>2, <2>1, UnchangedThere
  <2> QED
    BY <2>2, <2>3
       DEF N!RecvTemporary, N!RecvfromTimesOut, N!ReceiveTimeout, N!Goto,
           N!socketVars, N!channelVars, PcOf, PacketOf, CountOf, SocketOfTypes,
           ChOfMessages, StaterOf
<1>3. ASSUME ReturnNetlinker(n) PROVE N!ReturnNetlinker(n)
  <2>1. /\ netlinkerPc[n] = "stats" /\ Goto(n, "off") /\ Walk(n)
        /\ UNCHANGED netlinkerCh
        /\ Len(netlinkerStaterCh) < PromNetlinkerChSize
        /\ netlinkerStaterCh' =
              Append(netlinkerStaterCh, [id |-> n, stats |-> stats[n]])
    BY <1>3 DEF ReturnNetlinker, SendReport, Walk
  <2>2. /\ PcOf[n] = "stats" /\ PcOf' = [PcOf EXCEPT ![n] = "off"]
        /\ polls' = polls /\ UNCHANGED <<PacketOf, CountOf>>
    BY <1>1, <2>1
  <2>3. UNCHANGED <<SocketOfTypes, ChOfMessages>>
    BY <2>1, UnchangedThere
  <2>4. Len(netlinkerStaterCh') = Len(netlinkerStaterCh) + 1
    <3>1. netlinkerStaterCh \in Seq(Report)
      BY DEF TypeInv, NetlinkerStaterTypeOK
    <3> QED
      BY <2>1, <3>1
  <2>5. StaterOf' = [StaterOf EXCEPT !["netlinker"] = StaterOf["netlinker"] + 1]
        /\ StaterOf["netlinker"] < PromNetlinkerChSize
    BY <2>1, <2>4 DEF StaterOf
  <2> QED
    BY <2>2, <2>3, <2>5
       DEF N!ReturnNetlinker, N!SendToStater, N!Goto, N!socketVars, PcOf, PacketOf,
           CountOf, SocketOfTypes, ChOfMessages, StaterOf
<1> QED
  BY <1>2, <1>3

(* Steps that module Netlinker does not see.                               *)
LEMMA StutterThere ==
    ASSUME TypeInv, TypeInv', NEW n \in Netlinkers, InPlace(n),
           ReadHeader(n) \/ ReadPayload(n) \/ ReadPayloadShort(n) \/ RecvError(n)
    PROVE  UNCHANGED <<netlinkerView, IF InDatagram(n) THEN netlinkMsgCount[n] ELSE 0>>
<1>1. /\ UNCHANGED <<netlinkerCh, netlinkerStaterCh, netlinkMsgCount>>
      /\ (Receive(n) \/ Walk(n)) /\ (Walk(n) \/ RecvError(n))
  BY DEF ReadHeader, ReadPayload, ReadPayloadShort, ReadBytes, RecvError, Receive,
         Walk, netlinkerStaterVars, walkVars
<1>2. UNCHANGED SocketOfTypes
  BY <1>1, UnchangedThere
<1>3. \/ /\ netlinkerPc[n] \in {"header", "check", "sample"}
         /\ netlinkerPc'[n] \in {"header", "check", "sample"}
      \/ netlinkerPc[n] = "recvfrom" /\ netlinkerPc'[n] = "recvfrom"
  BY DEF ReadHeader, ReadPayload, ReadPayloadShort, ReadBytes, HasPayload, RecvError,
         Goto, TypeInv, WalkTypeOK
<1>4. AbstractPc(n)' = AbstractPc(n)
  BY <1>3 DEF AbstractPc
<1>5. \A m \in Netlinkers \ {n} : AbstractPc(m)' = AbstractPc(m)
  BY <1>1, OthersStay DEF SameWalk, AbstractPc
<1>6. \A m \in Netlinkers : AbstractPc(m)' = AbstractPc(m)
                              /\ InDatagram(m)' = InDatagram(m)
  BY <1>4, <1>5 DEF InDatagram
<1>7. UNCHANGED [m \in Netlinkers |-> AbstractPc(m)]
  BY <1>6
<1>8. UNCHANGED [m \in Netlinkers |-> InDatagram(m)]
  BY <1>6
<1> QED
  BY <1>1, <1>2, <1>6, <1>7, <1>8 DEF netlinkerView, SocketOfTypes

(* Neither does an abstractable datagram lead to the others.               *)
LEMMA NotInAbstractable ==
    ASSUME TypeInv, NEW n \in Netlinkers, InPlace(n), Abstractable(packet[n])
    PROVE  ~(BadLength(n) \/ ReadOtherFlags(n) \/ ReadPayloadEOF(n))
<1> SUFFICES ASSUME BadLength(n) \/ ReadOtherFlags(n) \/ ReadPayloadEOF(n)
             PROVE  FALSE
  OBVIOUS
<1> DEFINE d == packet[n]
           k == netlinkMsgCount[n] + 1
<1>1. netlinkerPc[n] = "check" /\ header[n].type = "data" /\ Plain(d)
      /\ Readable(d) = DataOf(d)
  BY DEF BadLength, ReadOtherFlags, ReadPayloadEOF, HasPayload, Abstractable
<1>2. /\ k \in Received(d) /\ Reached(d, k) /\ header[n] = d.msgs[k]
      /\ d.msgs[k].len \in Nat /\ d.msgs[k].len >= HdrLen
      /\ offset[n] = d.start[k] + HdrLen /\ PayloadLen(n) \in Nat
      /\ d.msgs[k].type = "data" => d.msgs[k].multi
      /\ Left(n) = bufferSize - offset[n] /\ bufferSize \in Nat /\ offset[n] \in Nat
  BY <1>1, AtCheck
<1>3. k \in Readable(d)
  BY <1>1, <1>2 DEF DataOf
<1>4. d.msgs[k].len > HdrLen => d.start[k] + HdrLen < bufferSize
  BY <1>3 DEF Readable
<1>5. PayloadLen(n) = d.msgs[k].len - HdrLen
  BY <1>2 DEF PayloadLen
<1>6. CASE BadLength(n)
  BY <1>2, <1>6 DEF BadLength
<1>7. CASE ReadOtherFlags(n)
  BY <1>1, <1>2, <1>7 DEF ReadOtherFlags
<1>8. CASE ReadPayloadEOF(n)
  <2>1. PayloadLen(n) > 0 /\ Left(n) = 0
    BY <1>8 DEF ReadPayloadEOF
  <2>2. d.msgs[k].len > HdrLen
    BY <1>2, <1>5, <2>1 DEF HdrLen
  <2>3. offset[n] < bufferSize
    BY <1>2, <1>4, <2>2
  <2> QED
    BY <1>2, <2>1, <2>3
<1> QED
  BY <1>6, <1>7, <1>8

(* Every step over the bytes of a plain datagram that is not cut short     *)
(* right behind a header is a step of module Netlinker over its messages,  *)
(* or none at all there.                                                   *)
THEOREM BytesImplementNetlinker == NetlinkerParseSpec => ImplementsNetlinker
<1> DEFINE Step ==
       \A n \in Netlinkers :
          /\ Receive(n) \/ Walk(n)
          /\ InDatagram(n) => Abstractable(packet[n])
          /\ InDatagram(n)' => Abstractable(packet[n])'
          /\ ~RecvShort(n)
          => \/ N!NetlinkerStep(n)
             \/ N!SignalDone(n)
             \/ UNCHANGED <<netlinkerView,
                            IF InDatagram(n) THEN netlinkMsgCount[n] ELSE 0>>
<1>1. ASSUME NetlinkerParseInv, NetlinkerParseInv' PROVE Step
  <2> SUFFICES ASSUME NEW n \in Netlinkers, Receive(n) \/ Walk(n),
                      InDatagram(n) => Abstractable(packet[n]), ~RecvShort(n)
               PROVE  \/ N!NetlinkerStep(n)
                      \/ N!SignalDone(n)
                      \/ UNCHANGED <<netlinkerView,
                            IF InDatagram(n) THEN netlinkMsgCount[n] ELSE 0>>
    OBVIOUS
  <2>1. TypeInv /\ TypeInv' /\ InPlace(n)
    BY <1>1 DEF NetlinkerParseInv, TypeInv, InPlace
  <2>2. Walking(n) => Abstractable(packet[n]) /\ Plain(packet[n])
    <3>1. Walking(n) => InDatagram(n)
      BY DEF Walking, InDatagram, AbstractPc
    <3> QED
      BY <3>1 DEF Abstractable
  <2>3. CASE Receive(n)
    <3>1. CASE RecvDatagram(n)
      BY <2>1, <3>1, RecvDatagramImplements DEF N!NetlinkerStep
    <3>2. CASE RecvTemporary(n)
      BY <2>1, <3>2, OutsideImplements DEF N!NetlinkerStep
    <3>3. CASE RecvError(n)
      BY <2>1, <3>3, StutterThere
    <3> QED
      BY <2>3, <3>1, <3>2, <3>3 DEF Receive
  <2>4. CASE ReadHeader(n) \/ ReadPayload(n) \/ ReadPayloadShort(n)
    BY <2>1, <2>4, StutterThere
  <2>5. CASE ReturnNetlinker(n)
    BY <2>1, <2>5, OutsideImplements DEF N!NetlinkerStep
  <2>6. CASE ReadControl(n) \/ ReadDone(n) \/ SignalDone(n)
    <3>1. Plain(packet[n])
      BY <2>2, <2>6 DEF ReadControl, ReadDone, SignalDone, Walking
    <3> QED
      BY <2>1, <2>6, <3>1, ControlImplements DEF N!NetlinkerStep
  <2>7. CASE SkipMessage(n) \/ SendMessage(n) \/ SendWouldBlock(n) \/ SendBlocked(n)
    <3>1. Plain(packet[n])
      BY <2>2, <2>7 DEF SkipMessage, SendMessage, SendWouldBlock, SendBlocked, Walking
    <3> QED
      BY <2>1, <2>7, <3>1, SkipImplements, SendMessageImplements,
         WouldBlockImplements DEF N!NetlinkerStep
  <2>8. CASE BadLength(n) \/ ReadOtherFlags(n) \/ ReadPayloadEOF(n)
    <3>1. Walking(n)
      BY <2>8 DEF BadLength, ReadOtherFlags, ReadPayloadEOF, HasPayload, Walking
    <3> QED
      BY <2>1, <2>2, <2>8, <3>1, NotInAbstractable
  <2> QED
    BY <2>3, <2>4, <2>5, <2>6, <2>7, <2>8 DEF Walk
<1> HIDE DEF Step
<1>2. NetlinkerParseInv /\ NetlinkerParseInv' => [Step]_netlinkerParseVars
  BY <1>1
<1>3. NetlinkerParseSpec => [][Step]_netlinkerParseVars
  BY <1>2, WalkInvariant, PTL
<1> QED
  BY <1>3 DEF Step, ImplementsNetlinker
-----------------------------------------------------------------------------
(* The counters.                                                           *)
Kind == {"in", "msgs", "read", "out", "errors", "good"}

(* What the walk over a plain datagram adds to the counters, whether the   *)
(* buffer has room for all of it or not: CountsOf, if it has.              *)
ReadSampled(d) ==
    {i \in Readable(d) : SamplingModulus = 1 \/ (i - 1) % SamplingModulus = 1}

WalkCounts(d) ==
    [in     |-> IF InSize(d) < HdrLen THEN 0 ELSE InSize(d),
     msgs   |-> Cardinality(DataOf(d)),
     read   |-> Payload(d, Readable(d)),
     out    |-> Payload(d, ReadSampled(d)),
     errors |-> Cardinality(Errors(d)),
     good   |-> IF InSize(d) < HdrLen THEN 0 ELSE 1]

WalkDue(n, c) ==
    SumFunction([i \in DOMAIN taken[n] |-> WalkCounts(taken[n][i])[c]])

(* What is still to be counted of a datagram of which m messages have been *)
(* counted, and the payloads of r.                                         *)
StillDue(d, m, r) ==
    [in     |-> 0,
     msgs   |-> Cardinality(DataOf(d) \ 1 .. m),
     read   |-> Payload(d, Readable(d) \ 1 .. r),
     out    |-> Payload(d, ReadSampled(d) \ 1 .. m),
     errors |-> WalkCounts(d).errors,
     good   |-> 1]

NothingDue == [c \in Kind |-> 0]

PayloadsRead(n) ==
    IF netlinkerPc[n] \in {"sample", "blocked"} THEN netlinkMsgCount[n] + 1
    ELSE netlinkMsgCount[n]

ToCount(n) ==
    IF Walking(n) THEN StillDue(packet[n], netlinkMsgCount[n], PayloadsRead(n))
    ELSE NothingDue

Value(counts, c) ==
    IF c = "good" THEN counts["packets"] - counts["nasty"] ELSE counts[c]

Got(n, c) ==
    IF c = "good" THEN Counted(n, "packets") - Counted(n, "nasty") ELSE Counted(n, c)

PlainTaken(n) == \A i \in DOMAIN taken[n] : Plain(taken[n][i])

(* What is counted and what is still to be counted is what is due.         *)
CountedSoFar(n) == PlainTaken(n) => \A c \in Kind : Got(n, c) + ToCount(n)[c] = WalkDue(n, c)

(* What has been found out about the message in work.                      *)
FoundOut(n) ==
    Walking(n) /\ Plain(packet[n]) =>
       /\ netlinkerPc[n] \in {"sample", "blocked"} =>
             netlinkMsgCount[n] + 1 \in Readable(packet[n])
       /\ netlinkerPc[n] = "blocked" => Sampled(n)
       /\ netlinkerPc[n] = "sendDone" => header[n].type = "done"

CountInv == \A n \in Netlinkers : CountedSoFar(n) /\ FoundOut(n)

-----------------------------------------------------------------------------
(* Sums of counts.                                                         *)
LEMMA ReportedInts ==
    ASSUME TypeInv, NEW n \in Netlinkers, NEW c \in Counter
    PROVE  Reported(n, c) \in Seq(Int)
<1>1. netlinkerStaterCh \in Seq(Report)
  BY DEF TypeInv, NetlinkerStaterTypeOK
<1> DEFINE ch == netlinkerStaterCh
<1>2. Len(ch) \in Nat /\ DOMAIN ch = 1 .. Len(ch)
  BY <1>1
<1>3. ASSUME NEW i \in 1 .. Len(ch) PROVE ch[i].stats[c] \in Int
  <2>1. ch[i] \in Report
    BY <1>1, <1>3
  <2>2. ch[i].stats \in Counts
    BY <2>1 DEF Report
  <2> QED
    BY <2>2 DEF Counts
<1>4. Reported(n, c) \in [1 .. Len(ch) -> Int]
  BY <1>2, <1>3 DEF Reported
<1> QED
  BY <1>2, <1>4

LEMMA SumOfInts ==
    ASSUME NEW s \in Seq(Int)
    PROVE  SumFunction(s) \in Int
<1>1. Len(s) \in Nat /\ DOMAIN s = 1 .. Len(s) /\ \A i \in 1 .. Len(s) : s[i] \in Int
  OBVIOUS
<1>2. IsFiniteSet(1 .. Len(s))
  BY <1>1, FS_Interval
<1> QED
  BY <1>1, <1>2, SumIsInt DEF SumFunction

LEMMA AppendFacts ==
    ASSUME NEW s \in Seq(Int), NEW x \in Int
    PROVE  /\ DOMAIN Append(s, x) = 1 .. Len(s) + 1
           /\ Append(s, x)[Len(s) + 1] = x
           /\ \A i \in 1 .. Len(s) : Append(s, x)[i] = s[i]
           /\ Append(s, x) = [i \in DOMAIN Append(s, x) |-> Append(s, x)[i]]
<1> DEFINE t == Append(s, x)
<1>1. t \in Seq(Int) /\ Len(t) = Len(s) + 1
  OBVIOUS
<1>2. t = [i \in DOMAIN t |-> t[i]]
  <2> HIDE DEF t
  <2> QED
    BY <1>1
<1> QED
  BY <1>1, <1>2

LEMMA CountedInt ==
    ASSUME TypeInv, NEW n \in Netlinkers, NEW c \in Counter
    PROVE  /\ Counted(n, c) \in Int /\ counters[n][c] \in Int /\ stats[n][c] \in Int
           /\ SumFunction(Reported(n, c)) \in Int
<1>1. counters[n][c] \in Int /\ stats[n][c] \in Int
  BY DEF TypeInv, NetlinkerStaterTypeOK, WalkTypeOK, Counts
<1>2. SumFunction(Reported(n, c)) \in Int
  BY ReportedInts, SumOfInts
<1> QED
  BY <1>1, <1>2 DEF Counted

(* What a netlinker counts is counted.                                     *)
LEMMA CountMore ==
    ASSUME TypeInv, NEW n \in Netlinkers, NEW more \in Counts, Count(n, more),
           UNCHANGED netlinkerStaterVars, NEW c \in Counter
    PROVE  Counted(n, c)' = Counted(n, c) + more[c]
<1>1. stats'[n][c] = stats[n][c] + more[c]
  BY DEF Count, Plus, TypeInv, WalkTypeOK
<1>2. UNCHANGED <<netlinkerStaterCh, counters>>
  BY DEF netlinkerStaterVars, staterVars
<1>3. Reported(n, c)' = Reported(n, c)
  BY <1>2 DEF Reported
<1> DEFINE a == counters[n][c]
           b == stats[n][c]
           s == SumFunction(Reported(n, c))
<1>4. a \in Int /\ b \in Int /\ s \in Int /\ more[c] \in Int
  BY CountedInt DEF Counts
<1>5. Counted(n, c) = a + b + s
  BY DEF Counted
<1>6. Counted(n, c)' = a + (b + more[c]) + s
  BY <1>1, <1>2, <1>3 DEF Counted
<1> HIDE DEF a, b, s
<1> QED
  BY <1>4, <1>5, <1>6

LEMMA CountSame ==
    ASSUME NEW n \in Netlinkers, UNCHANGED <<stats[n], counters, netlinkerStaterCh>>,
           NEW c
    PROVE  Counted(n, c)' = Counted(n, c)
<1>1. Reported(n, c)' = Reported(n, c)
  BY DEF Reported
<1> QED
  BY <1>1 DEF Counted

(* A report stays counted when it is sent ...                              *)
LEMMA ReturnCounts ==
    ASSUME TypeInv, NEW n \in Netlinkers, ReturnNetlinker(n),
           NEW m \in Netlinkers, NEW c \in Counter
    PROVE  Counted(m, c)' = Counted(m, c)
<1> DEFINE ch == netlinkerStaterCh
           report == [id |-> n, stats |-> stats[n]]
           x == IF m = n THEN stats[n][c] ELSE 0
<1>1. ch' = Append(ch, report) /\ counters' = counters
      /\ stats' = [stats EXCEPT ![n] = NoCounts]
  BY DEF ReturnNetlinker, SendReport, staterVars
<1>2. ch \in Seq(Report) /\ report \in Report
  BY DEF TypeInv, NetlinkerStaterTypeOK, WalkTypeOK, Report
<1>3. x \in Int
  BY CountedInt
<1>4. Reported(m, c)' = Append(Reported(m, c), x)
  <2>1. Len(ch) \in Nat /\ DOMAIN ch = 1 .. Len(ch)
    BY <1>2
  <2>2. /\ DOMAIN ch' = 1 .. Len(ch) + 1 /\ ch'[Len(ch) + 1] = report
        /\ \A i \in 1 .. Len(ch) : ch'[i] = ch[i]
    BY <1>1, <1>2
  <2>3. /\ DOMAIN Append(Reported(m, c), x) = 1 .. Len(ch) + 1
        /\ Append(Reported(m, c), x)[Len(ch) + 1] = x
        /\ \A i \in 1 .. Len(ch) : Append(Reported(m, c), x)[i] = Reported(m, c)[i]
        /\ Append(Reported(m, c), x)
              = [i \in DOMAIN Append(Reported(m, c), x) |-> Append(Reported(m, c), x)[i]]
    <3> DEFINE r == Reported(m, c)
    <3>1. r \in Seq(Int) /\ Len(r) = Len(ch)
      BY ReportedInts, <2>1 DEF Reported
    <3> HIDE DEF r, x
    <3> QED
      BY <1>3, <3>1, AppendFacts DEF r
  <2> DEFINE f == Append(Reported(m, c), x)
  <2>4. Reported(m, c)' = [i \in DOMAIN ch' |->
                             IF ch'[i].id = m THEN ch'[i].stats[c] ELSE 0]
    BY DEF Reported
  <2>5. \A i \in 1 .. Len(ch) :
           f[i] = IF ch'[i].id = m THEN ch'[i].stats[c] ELSE 0
    BY <2>1, <2>2, <2>3 DEF Reported
  <2>6. f[Len(ch) + 1] = IF ch'[Len(ch) + 1].id = m THEN ch'[Len(ch) + 1].stats[c] ELSE 0
    BY <2>2, <2>3
  <2>7. \A i \in 1 .. Len(ch) + 1 : i \in 1 .. Len(ch) \/ i = Len(ch) + 1
    BY <2>1
  <2>8. f = [i \in DOMAIN f |-> f[i]] /\ DOMAIN f = 1 .. Len(ch) + 1
    BY <2>3
  <2> HIDE DEF f, ch
  <2>9. f = [i \in DOMAIN ch' |-> IF ch'[i].id = m THEN ch'[i].stats[c] ELSE 0]
    BY <2>2, <2>5, <2>6, <2>7, <2>8
  <2> QED
    BY <2>4, <2>9 DEF f
<1>5. SumFunction(Reported(m, c))' = SumFunction(Reported(m, c)) + x
  BY <1>3, <1>4, ReportedInts, SumAppended
<1>6. stats'[m][c] = IF m = n THEN 0 ELSE stats[m][c]
  BY <1>1 DEF NoCounts, TypeInv, WalkTypeOK
<1> DEFINE s == SumFunction(Reported(m, c))
           a == counters[m][c]
           b == stats[m][c]
<1>7. s \in Int /\ a \in Int /\ b \in Int
  BY CountedInt
<1>8. Counted(m, c) = a + b + s
  BY DEF Counted
<1>9. Counted(m, c)' = a + (IF m = n THEN 0 ELSE b) + (s + x)
  BY <1>1, <1>5, <1>6 DEF Counted
<1>10. x = IF m = n THEN b ELSE 0
  OBVIOUS
<1> HIDE DEF s, a, b, x
<1> QED
  BY <1>7, <1>8, <1>9, <1>10

(* ... and when it is received.                                            *)
LEMMA ReceiveReportCounts ==
    ASSUME TypeInv, ReceiveReport, UNCHANGED stats,
           NEW m \in Netlinkers, NEW c \in Counter
    PROVE  Counted(m, c)' = Counted(m, c)
<1> DEFINE ch == netlinkerStaterCh
           report == Head(ch)
           x == IF report.id = m THEN report.stats[c] ELSE 0
<1>1. /\ ch # <<>> /\ ch' = Tail(ch)
      /\ counters' = [counters EXCEPT ![report.id] = Plus(@, report.stats)]
  BY DEF ReceiveReport, AddToCounters
<1>2. ch \in Seq(Report) /\ report \in Report /\ report = ch[1] /\ Len(ch) \in Nat \ {0}
  BY <1>1 DEF TypeInv, NetlinkerStaterTypeOK
<1>3. report.stats \in Counts /\ report.id \in Netlinkers /\ x \in Int
  BY <1>2 DEF Report, Counts
<1>4. Reported(m, c) \in Seq(Int) /\ Reported(m, c) # <<>> /\ Head(Reported(m, c)) = x
      /\ DOMAIN Reported(m, c) = 1 .. Len(ch) /\ Len(Reported(m, c)) = Len(ch)
  <2>1. Reported(m, c) \in Seq(Int) /\ DOMAIN Reported(m, c) = 1 .. Len(ch)
    BY ReportedInts, <1>2 DEF Reported
  <2>2. Reported(m, c)[1] = x
    BY <1>2 DEF Reported
  <2> HIDE DEF x
  <2> QED
    BY <2>1, <2>2, <1>2
<1>5. Reported(m, c)' = Tail(Reported(m, c))
  <2> DEFINE r == Reported(m, c)
  <2>1. DOMAIN ch' = 1 .. Len(ch) - 1 /\ \A i \in 1 .. Len(ch) - 1 : ch'[i] = ch[i + 1]
    BY <1>1, <1>2
  <2>2. /\ Tail(r) = [i \in DOMAIN Tail(r) |-> Tail(r)[i]]
        /\ DOMAIN Tail(r) = 1 .. Len(ch) - 1
        /\ \A i \in 1 .. Len(ch) - 1 : Tail(r)[i] = r[i + 1]
    <3> HIDE DEF r
    <3> DEFINE size == Len(ch)
    <3>1. r \in Seq(Int) /\ r # <<>> /\ Len(r) = size /\ size \in Nat \ {0}
      BY <1>2, <1>4 DEF r
    <3> HIDE DEF size
    <3>2. Len(Tail(r)) = size - 1 /\ DOMAIN Tail(r) = 1 .. size - 1
          /\ Tail(r) \in Seq(Int)
      BY <3>1
    <3>3. \A i \in 1 .. size - 1 : Tail(r)[i] = r[i + 1]
      BY <3>1, <3>2
    <3> DEFINE t == Tail(r)
    <3>4. t \in Seq(Int) => t = [i \in DOMAIN t |-> t[i]]
      <4> HIDE DEF t
      <4> QED
        OBVIOUS
    <3> QED
      BY <3>2, <3>3, <3>4 DEF size
  <2>3. \A i \in 1 .. Len(ch) - 1 :
           r[i + 1] = IF ch[i + 1].id = m THEN ch[i + 1].stats[c] ELSE 0
    BY <1>2 DEF Reported
  <2>4. Reported(m, c)' = [i \in DOMAIN ch' |->
                             IF ch'[i].id = m THEN ch'[i].stats[c] ELSE 0]
    BY DEF Reported
  <2> HIDE DEF r, ch
  <2>5. Tail(r) = [i \in DOMAIN ch' |-> IF ch'[i].id = m THEN ch'[i].stats[c] ELSE 0]
    BY <2>1, <2>2, <2>3
  <2> QED
    BY <2>4, <2>5 DEF r
<1>6. SumFunction(Reported(m, c)) = SumFunction(Reported(m, c))' + x
  BY <1>4, <1>5, SumOfTail
<1>7. SumFunction(Reported(m, c))' \in Int
  <2>1. Tail(Reported(m, c)) \in Seq(Int)
    BY <1>4
  <2> QED
    BY <1>5, <2>1, SumOfInts
<1>8. counters'[m][c] = counters[m][c] + x
  <2>1. counters[m][c] \in Int
    BY CountedInt
  <2>2. CASE report.id = m
    <3>1. counters'[m] = Plus(counters[m], report.stats)
      BY <1>1, <1>3, <2>2 DEF TypeInv, NetlinkerStaterTypeOK
    <3> QED
      BY <2>2, <3>1 DEF Plus
  <2>3. CASE report.id # m
    <3>1. counters'[m] = counters[m]
      BY <1>1, <1>3, <2>3 DEF TypeInv, NetlinkerStaterTypeOK
    <3> QED
      BY <2>1, <2>3, <3>1
  <2> QED
    BY <2>2, <2>3
<1> DEFINE s == SumFunction(Reported(m, c))
           t == SumFunction(Reported(m, c))'
           a == counters[m][c]
           b == stats[m][c]
<1>9. s \in Int /\ t \in Int /\ a \in Int /\ b \in Int
  BY CountedInt, <1>7
<1>10. Counted(m, c) = a + b + s /\ s = t + x
  BY <1>6 DEF Counted
<1>11. Counted(m, c)' = (a + x) + b + t
  BY <1>8 DEF Counted
<1> HIDE DEF s, t, a, b, x
<1> QED
  BY <1>3, <1>9, <1>10, <1>11

-----------------------------------------------------------------------------
(* What a datagram amounts to.                                             *)
LEMMA NoFurther ==
    ASSUME NEW L \in Nat, NEW S \in SUBSET (1 .. L), NEW m \in Nat
    PROVE  /\ IsFiniteSet(S \ 1 .. m) /\ Cardinality(S \ 1 .. m) \in Nat
           /\ S \ 1 .. 0 = S
           /\ m + 1 \notin S => S \ 1 .. m + 1 = S \ 1 .. m
           /\ m + 1 \in S => S \ 1 .. m = (S \ 1 .. m + 1) \cup {m + 1}
           /\ (\A j \in S : j <= m) => S \ 1 .. m = {}
<1>1. IsFiniteSet(S \ 1 .. m) /\ Cardinality(S \ 1 .. m) \in Nat
  <2>1. IsFiniteSet(1 .. L)
    BY FS_Interval
  <2>2. S \ 1 .. m \in SUBSET (1 .. L)
    OBVIOUS
  <2> QED
    BY <2>1, <2>2, FS_Subset, FS_CardinalityType
<1>2. S \ 1 .. 0 = S
  OBVIOUS
<1>3. m + 1 \notin S => S \ 1 .. m + 1 = S \ 1 .. m
  OBVIOUS
<1>4. m + 1 \in S => S \ 1 .. m = (S \ 1 .. m + 1) \cup {m + 1}
  OBVIOUS
<1>5. (\A j \in S : j <= m) => S \ 1 .. m = {}
  OBVIOUS
<1> QED
  BY <1>1, <1>2, <1>3, <1>4, <1>5

LEMMA MessageSets ==
    ASSUME NEW d \in Packets
    PROVE  /\ Received(d) \in SUBSET (1 .. Len(d.msgs))
           /\ DataOf(d) \in SUBSET Received(d)
           /\ DataOf(d) \in SUBSET (1 .. Len(d.msgs))
           /\ Readable(d) \in SUBSET DataOf(d)
           /\ Readable(d) \in SUBSET (1 .. Len(d.msgs))
           /\ ReadSampled(d) \in SUBSET Readable(d)
           /\ ReadSampled(d) \in SUBSET (1 .. Len(d.msgs))
<1>1. DOMAIN d.msgs = 1 .. Len(d.msgs)
  BY PacketFacts
<1>2. Received(d) \in SUBSET (1 .. Len(d.msgs))
  BY <1>1 DEF Received
<1>3. DataOf(d) \in SUBSET Received(d)
  BY DEF DataOf
<1>4. Readable(d) \in SUBSET DataOf(d)
  BY DEF Readable
<1>5. ReadSampled(d) \in SUBSET Readable(d)
  BY DEF ReadSampled
<1> QED
  BY <1>2, <1>3, <1>4, <1>5

LEMMA NoneLeft ==
    ASSUME NEW d
    PROVE  Cardinality({}) = 0 /\ Payload(d, {}) = 0
BY SumOfNone, FS_EmptySet DEF Payload

LEMMA PayloadFactsOf ==
    ASSUME NEW d \in Packets, NEW S \in SUBSET (1 .. Len(d.msgs)), NEW m \in Nat
    PROVE  /\ Payload(d, S \ 1 .. m) \in Int
           /\ m + 1 \notin S => Payload(d, S \ 1 .. m + 1) = Payload(d, S \ 1 .. m)
           /\ m + 1 \in S => Payload(d, S \ 1 .. m)
                 = Payload(d, S \ 1 .. m + 1) + (d.msgs[m + 1].len - HdrLen)
           /\ (\A j \in S : j <= m) => Payload(d, S \ 1 .. m) = 0
<1> DEFINE f == [i \in DOMAIN d.msgs |-> d.msgs[i].len - HdrLen]
<1>1. Len(d.msgs) \in Nat /\ DOMAIN d.msgs = 1 .. Len(d.msgs)
  BY PacketFacts
<1>2. \A i \in 1 .. Len(d.msgs) : f[i] = d.msgs[i].len - HdrLen /\ f[i] \in Int
  BY PacketFacts DEF HdrLen
<1>3. \A T : Payload(d, T) = SumFunctionOnSet(f, T)
  BY DEF Payload
<1> HIDE DEF f
<1> DEFINE L == Len(d.msgs)
<1>4. /\ IsFiniteSet(S \ 1 .. m) /\ IsFiniteSet(S \ 1 .. m + 1)
      /\ m + 1 \notin S => S \ 1 .. m + 1 = S \ 1 .. m
      /\ m + 1 \in S => S \ 1 .. m = (S \ 1 .. m + 1) \cup {m + 1}
      /\ (\A j \in S : j <= m) => S \ 1 .. m = {}
  <2>1. L \in Nat /\ S \in SUBSET (1 .. L) /\ m + 1 \in Nat
    BY <1>1
  <2> HIDE DEF L
  <2> QED
    BY <2>1, NoFurther, ZenonT(30)
<1>5. \A y \in S \ 1 .. m : f[y] \in Int
  <2>1. \A y \in S : y \in 1 .. Len(d.msgs)
    OBVIOUS
  <2> QED
    BY <1>2, <2>1
<1>6. Payload(d, S \ 1 .. m) \in Int
  BY <1>3, <1>4, <1>5, SumIsInt
<1>7. m + 1 \notin S => Payload(d, S \ 1 .. m + 1) = Payload(d, S \ 1 .. m)
  BY <1>4
<1>8. ASSUME m + 1 \in S
      PROVE  Payload(d, S \ 1 .. m)
                = Payload(d, S \ 1 .. m + 1) + (d.msgs[m + 1].len - HdrLen)
  <2> DEFINE T == S \ 1 .. m + 1
             x == m + 1
  <2>1. S \ 1 .. m = T \cup {x} /\ IsFiniteSet(T)
    BY <1>4, <1>8
  <2>2. x \notin T
    OBVIOUS
  <2>3. \A y \in T \cup {x} : f[y] \in Int
    BY <1>2, <1>8
  <2>4. f[x] = d.msgs[x].len - HdrLen
    BY <1>2, <1>8
  <2> HIDE DEF T, x
  <2>5. SumFunctionOnSet(f, T \cup {x}) = SumFunctionOnSet(f, T) + f[x]
    BY <2>1, <2>2, <2>3, SumWithOneMore
  <2> QED
    BY <1>3, <2>1, <2>4, <2>5 DEF T, x
<1>9. (\A j \in S : j <= m) => Payload(d, S \ 1 .. m) = 0
  BY <1>3, <1>4, SumOfNone
<1> QED
  BY <1>6, <1>7, <1>8, <1>9

(* What the receipt of a datagram adds up to.                              *)
LEMMA CountsOfInts ==
    ASSUME bufferSize \in Nat, NEW d \in Packets, NEW c \in Kind
    PROVE  WalkCounts(d)[c] \in Int
<1> DEFINE E == {i \in Received(d) :
                   Reached(d, i) /\ d.msgs[i].type \in {"noop", "error", "overrun"}}
<1>1. InSize(d) \in Nat
  BY InSizeFacts
<1>2. Len(d.msgs) \in Nat
  BY PacketFacts
<1>3. \A S \in SUBSET (1 .. Len(d.msgs)) :
         Cardinality(S) \in Nat /\ Payload(d, S) \in Int
  <2> SUFFICES ASSUME NEW S \in SUBSET (1 .. Len(d.msgs))
               PROVE  Cardinality(S) \in Nat /\ Payload(d, S) \in Int
    OBVIOUS
  <2>1. S \ 1 .. 0 = S /\ Cardinality(S \ 1 .. 0) \in Nat
    BY <1>2, NoFurther
  <2>2. Payload(d, S \ 1 .. 0) \in Int
    BY PayloadFactsOf
  <2> QED
    BY <2>1, <2>2
<1>4. E \in SUBSET (1 .. Len(d.msgs))
  BY MessageSets
<1>5. /\ Cardinality(DataOf(d)) \in Nat /\ Cardinality(E) \in Nat
      /\ Payload(d, Readable(d)) \in Int /\ Payload(d, ReadSampled(d)) \in Int
  BY <1>3, <1>4, MessageSets
<1>6. WalkCounts(d).in \in Int /\ WalkCounts(d).good \in Int
  BY <1>1 DEF WalkCounts, Errors
<1>7. WalkCounts(d).msgs \in Int /\ WalkCounts(d).errors \in Int
      /\ WalkCounts(d).read \in Int /\ WalkCounts(d).out \in Int
  BY <1>5 DEF WalkCounts, Errors
<1> QED
  BY <1>6, <1>7 DEF Kind

LEMMA StillDueInts ==
    ASSUME bufferSize \in Nat, NEW d \in Packets, NEW c \in Kind,
           NEW m \in Nat, NEW r \in Nat
    PROVE  StillDue(d, m, r)[c] \in Int
<1>1. Len(d.msgs) \in Nat
  BY PacketFacts
<1>2. Cardinality(DataOf(d) \ 1 .. m) \in Int
  <2> DEFINE S == DataOf(d)
             L == Len(d.msgs)
  <2>1. L \in Nat /\ S \in SUBSET (1 .. L)
    BY <1>1, MessageSets
  <2> HIDE DEF S, L
  <2>2. Cardinality(S \ 1 .. m) \in Nat
    BY <2>1, NoFurther
  <2> QED
    BY <2>2 DEF S
<1>3. Payload(d, Readable(d) \ 1 .. r) \in Int
  BY MessageSets, PayloadFactsOf
<1>4. Payload(d, ReadSampled(d) \ 1 .. m) \in Int
  BY MessageSets, PayloadFactsOf
<1>5. WalkCounts(d).errors \in Int
  BY CountsOfInts DEF Kind
<1> QED
  BY <1>2, <1>3, <1>4, <1>5 DEF StillDue, Kind

(* A datagram just received.                                               *)
LEMMA AllStillDue ==
    ASSUME bufferSize \in Nat, NEW d \in Packets, NEW c \in Kind
    PROVE  /\ InSize(d) >= HdrLen =>
                 WalkCounts(d)[c] = StillDue(d, 0, 0)[c] + Value(Amount({"in"}, InSize(d)), c)
           /\ InSize(d) < HdrLen => WalkCounts(d)[c] = 0
<1>1. Len(d.msgs) \in Nat /\ InSize(d) \in Nat
  BY PacketFacts, InSizeFacts
<1>2. ASSUME InSize(d) >= HdrLen
      PROVE  WalkCounts(d)[c] = StillDue(d, 0, 0)[c] + Value(Amount({"in"}, InSize(d)), c)
  <2>1. /\ DataOf(d) \ 1 .. 0 = DataOf(d) /\ Readable(d) \ 1 .. 0 = Readable(d)
        /\ ReadSampled(d) \ 1 .. 0 = ReadSampled(d)
    BY <1>1, MessageSets, NoFurther
  <2> DEFINE more == Amount({"in"}, InSize(d))
  <2>2. /\ Value(more, "in") = InSize(d) /\ Value(more, "msgs") = 0
        /\ Value(more, "read") = 0 /\ Value(more, "out") = 0
        /\ Value(more, "errors") = 0 /\ Value(more, "good") = 0
    BY DEF Value, Amount, Counter
  <2> HIDE DEF more
  <2>3. /\ WalkCounts(d).in = InSize(d) /\ WalkCounts(d).good = 1
    BY <1>1, <1>2 DEF WalkCounts, Errors, HdrLen
  <2>4. /\ StillDue(d, 0, 0).in = 0 /\ StillDue(d, 0, 0).good = 1
        /\ StillDue(d, 0, 0).errors = WalkCounts(d).errors
    BY DEF StillDue
  <2>5. /\ StillDue(d, 0, 0).msgs = WalkCounts(d).msgs
        /\ StillDue(d, 0, 0).read = WalkCounts(d).read
        /\ StillDue(d, 0, 0).out = WalkCounts(d).out
    BY <2>1 DEF StillDue, WalkCounts, Errors
  <2>6. \A e \in Kind : WalkCounts(d)[e] \in Int
    BY CountsOfInts
  <2> QED
    BY <1>1, <2>2, <2>3, <2>4, <2>5, <2>6 DEF Kind, more
<1>3. ASSUME InSize(d) < HdrLen PROVE WalkCounts(d)[c] = 0
  <2>1. \A i \in DOMAIN d.msgs : d.start[i] \in Nat
    BY PacketFacts
  <2>2. Received(d) = {}
    BY <1>1, <1>3, <2>1 DEF Received, HdrLen
  <2>3. DataOf(d) = {} /\ Readable(d) = {} /\ ReadSampled(d) = {}
    BY <2>2, MessageSets
  <2>4. Payload(d, {}) = 0 /\ Cardinality({}) = 0
    BY NoneLeft
  <2> DEFINE E == {i \in Received(d) :
                     Reached(d, i) /\ d.msgs[i].type \in {"noop", "error", "overrun"}}
  <2>5. E = {}
    BY <2>2
  <2>6. WalkCounts(d).errors = Cardinality(E)
    BY DEF WalkCounts, Errors
  <2>7. WalkCounts(d).in = 0 /\ WalkCounts(d).good = 0
    BY <1>3 DEF WalkCounts, Errors
  <2>8. WalkCounts(d).msgs = 0 /\ WalkCounts(d).read = 0 /\ WalkCounts(d).out = 0
    BY <2>3, <2>4 DEF WalkCounts, Errors
  <2> HIDE DEF E
  <2> QED
    BY <2>4, <2>5, <2>6, <2>7, <2>8 DEF Kind
<1> QED
  BY <1>2, <1>3

(* The payload of a message is counted when it is read, ...                *)
LEMMA PayloadCounted ==
    ASSUME bufferSize \in Nat, NEW d \in Packets, NEW m \in Nat, NEW c \in Kind,
           NEW more, more = Amount({"read"}, d.msgs[m + 1].len - HdrLen)
    PROVE  /\ m + 1 \in Readable(d) =>
                 StillDue(d, m, m)[c] = StillDue(d, m, m + 1)[c] + Value(more, c)
           /\ m + 1 \notin Readable(d) =>
                 StillDue(d, m, m)[c] = StillDue(d, m, m + 1)[c]
<1> DEFINE before == Payload(d, Readable(d) \ 1 .. m)
           after  == Payload(d, Readable(d) \ 1 .. m + 1)
           p      == d.msgs[m + 1].len - HdrLen
<1>1. Readable(d) \in SUBSET (1 .. Len(d.msgs))
  BY MessageSets
<1>2. m + 1 \notin Readable(d) => after = before
  BY <1>1, PayloadFactsOf
<1>3. m + 1 \in Readable(d) => before = after + p
  BY <1>1, PayloadFactsOf
<1>4. /\ StillDue(d, m, m).read = before /\ StillDue(d, m, m + 1).read = after
      /\ \A e \in Kind \ {"read"} : StillDue(d, m, m)[e] = StillDue(d, m, m + 1)[e]
  BY DEF StillDue, Kind
<1>5. /\ Value(more, "read") = p
      /\ \A e \in Kind \ {"read"} : Value(more, e) = 0
  BY DEF Value, Amount, Counter, Kind
<1>6. \A e \in Kind : StillDue(d, m, m)[e] \in Int /\ StillDue(d, m, m + 1)[e] \in Int
  <2>1. m + 1 \in Nat
    OBVIOUS
  <2> QED
    BY <2>1, StillDueInts
<1> HIDE DEF before, after, p
<1>7. CASE c = "read"
  BY <1>2, <1>3, <1>4, <1>5, <1>7
<1>8. CASE c # "read"
  BY <1>4, <1>5, <1>6, <1>8
<1> QED
  BY <1>7, <1>8

(* ... the message when it is done with, ...                               *)
LEMMA MessageCounted ==
    ASSUME bufferSize \in Nat, NEW d \in Packets, NEW m \in Nat, NEW c \in Kind,
           m + 1 \in DataOf(d), NEW more,
           \/ /\ m + 1 \in ReadSampled(d)
              /\ more = Amount({"out"}, d.msgs[m + 1].len - HdrLen)
           \/ m + 1 \notin ReadSampled(d) /\ more = NoCounts
    PROVE  /\ StillDue(d, m, m + 1)[c]
                 = StillDue(d, m + 1, m + 1)[c]
                     + Value(Plus(more, Amount({"msgs"}, 1)), c)
           /\ (\A j \in Received(d) : j <= m + 1) =>
                 StillDue(d, m, m + 1)[c]
                    = Value(Plus(more, Amount({"msgs", "packets"}, 1)), c)
<1> DEFINE a == StillDue(d, m, m + 1)
           b == StillDue(d, m + 1, m + 1)
           p == IF m + 1 \in ReadSampled(d) THEN d.msgs[m + 1].len - HdrLen ELSE 0
           next == Plus(more, Amount({"msgs"}, 1))
           last == Plus(more, Amount({"msgs", "packets"}, 1))
<1>1. m + 1 \in Nat /\ Len(d.msgs) \in Nat /\ m + 1 \in 1 .. Len(d.msgs)
  BY PacketFacts, MessageSets
<1>2. p \in Int
  BY <1>1, PacketFacts DEF HdrLen
<1>3. a.msgs = b.msgs + 1
  <2> DEFINE S == DataOf(d)
             L == Len(d.msgs)
  <2>1. L \in Nat /\ S \in SUBSET (1 .. L) /\ m + 1 \in S
    BY <1>1, MessageSets
  <2> HIDE DEF S, L
  <2>2. /\ IsFiniteSet(S \ 1 .. m + 1) /\ m + 1 \notin S \ 1 .. m + 1
        /\ S \ 1 .. m = (S \ 1 .. m + 1) \cup {m + 1}
    <3>1. \A r \in Nat : IsFiniteSet(S \ 1 .. r)
      BY <2>1, NoFurther
    <3>2. IsFiniteSet(S \ 1 .. m + 1)
      BY <1>1, <3>1
    <3>3. m + 1 \notin S \ 1 .. m + 1
      BY <1>1
    <3>4. S \ 1 .. m = (S \ 1 .. m + 1) \cup {m + 1}
      BY <2>1, NoFurther
    <3> QED
      BY <3>2, <3>3, <3>4
  <2>3. Cardinality(S \ 1 .. m) = Cardinality(S \ 1 .. m + 1) + 1
    BY <2>2, FS_AddElement
  <2> QED
    BY <2>3 DEF S, StillDue
<1>4. a.out = b.out + p
  <2>1. ReadSampled(d) \in SUBSET (1 .. Len(d.msgs))
    BY MessageSets
  <2>2. Payload(d, ReadSampled(d) \ 1 .. m) = Payload(d, ReadSampled(d) \ 1 .. m + 1) + p
    <3>1. Payload(d, ReadSampled(d) \ 1 .. m + 1) \in Int
      BY <1>1, <2>1, PayloadFactsOf
    <3>2. CASE m + 1 \in ReadSampled(d)
      BY <2>1, <3>2, PayloadFactsOf
    <3>3. CASE m + 1 \notin ReadSampled(d)
      <4>1. Payload(d, ReadSampled(d) \ 1 .. m + 1) = Payload(d, ReadSampled(d) \ 1 .. m)
        BY <2>1, <3>3, PayloadFactsOf
      <4> QED
        BY <3>1, <3>3, <4>1
    <3> QED
      BY <3>2, <3>3
  <2> QED
    BY <2>2 DEF StillDue
<1>5. \A e \in Kind \ {"msgs", "out"} : a[e] = b[e]
  BY DEF StillDue, Kind
<1>6. /\ more \in Counts /\ more["out"] = p
      /\ \A e \in Counter \ {"out"} : more[e] = 0
  BY <1>2 DEF Amount, NoCounts, Counts, Counter
<1>7. /\ Value(next, "msgs") = 1 /\ Value(next, "out") = p /\ Value(next, "in") = 0
      /\ Value(next, "read") = 0 /\ Value(next, "errors") = 0 /\ Value(next, "good") = 0
  <2> HIDE DEF p
  <2> QED
    BY <1>2, <1>6 DEF Value, Plus, Amount, Counter, Counts
<1>8. /\ Value(last, "msgs") = 1 /\ Value(last, "out") = p /\ Value(last, "in") = 0
      /\ Value(last, "read") = 0 /\ Value(last, "errors") = 0 /\ Value(last, "good") = 1
  <2> HIDE DEF p
  <2> QED
    BY <1>2, <1>6 DEF Value, Plus, Amount, Counter, Counts
<1>9. \A e \in Kind : a[e] \in Int /\ b[e] \in Int
  BY <1>1, StillDueInts
<1>10. ASSUME \A j \in Received(d) : j <= m + 1
       PROVE  b.msgs = 0 /\ b.read = 0 /\ b.out = 0 /\ b.errors = 0
  <2>1. \A S \in SUBSET Received(d) :
           Cardinality(S \ 1 .. m + 1) = 0 /\ Payload(d, S \ 1 .. m + 1) = 0
    <3> SUFFICES ASSUME NEW S \in SUBSET Received(d)
                 PROVE  Cardinality(S \ 1 .. m + 1) = 0 /\ Payload(d, S \ 1 .. m + 1) = 0
      OBVIOUS
    <3>1. S \in SUBSET (1 .. Len(d.msgs)) /\ \A j \in S : j <= m + 1
      BY <1>10, MessageSets
    <3>2. S \ 1 .. m + 1 = {}
      BY <1>1, <3>1
    <3> QED
      BY <3>2, NoneLeft
  <2>2. b.msgs = 0 /\ b.read = 0 /\ b.out = 0
    <3>1. DataOf(d) \in SUBSET Received(d) /\ Readable(d) \in SUBSET Received(d)
          /\ ReadSampled(d) \in SUBSET Received(d)
      BY MessageSets
    <3> QED
      BY <2>1, <3>1 DEF StillDue
  <2> DEFINE E == {i \in Received(d) :
                     Reached(d, i) /\ d.msgs[i].type \in {"noop", "error", "overrun"}}
  <2>3. E = {}
    <3> SUFFICES ASSUME NEW i \in E PROVE FALSE
      OBVIOUS
    <3>1. i \in 1 .. m + 1
      BY <1>10, MessageSets
    <3>2. Reached(d, m + 1) /\ d.msgs[m + 1].type = "data"
      BY DEF DataOf
    <3>3. d.msgs[i].type = "data"
      BY <3>1, <3>2 DEF Reached
    <3> QED
      BY <3>3
  <2>4. b.errors = Cardinality(E)
    BY DEF StillDue, WalkCounts, Errors
  <2> HIDE DEF E
  <2>5. b.errors = 0
    BY <2>3, <2>4, FS_EmptySet
  <2> QED
    BY <2>2, <2>5
<1>11. a.in = 0 /\ b.in = 0 /\ a.good = 1 /\ b.good = 1
  BY DEF StillDue
<1> HIDE DEF a, b, p, next, last
<1>12. a[c] = b[c] + Value(next, c)
  BY <1>2, <1>3, <1>4, <1>5, <1>7, <1>9 DEF Kind
<1>13. ASSUME \A j \in Received(d) : j <= m + 1
       PROVE  a[c] = Value(last, c)
  BY <1>2, <1>3, <1>4, <1>5, <1>8, <1>9, <1>10, <1>11, <1>13 DEF Kind
<1> QED
  BY <1>12, <1>13 DEF a, b, next, last

(* ... and a control message ends the datagram.                            *)
LEMMA ControlCounted ==
    ASSUME bufferSize \in Nat, NEW d \in Packets, NEW m \in Nat, NEW c \in Kind,
           m + 1 \in Received(d), Reached(d, m + 1)
    PROVE  /\ d.msgs[m + 1].type \in {"noop", "error", "overrun"} =>
                 StillDue(d, m, m)[c] = Value(Amount({"errors", "packets"}, 1), c)
           /\ d.msgs[m + 1].type = "done" =>
                 StillDue(d, m, m)[c] = Value(Amount({"packets"}, 1), c)
<1> SUFFICES ASSUME d.msgs[m + 1].type # "data"
             PROVE  /\ d.msgs[m + 1].type \in {"noop", "error", "overrun"} =>
                          StillDue(d, m, m)[c] = Value(Amount({"errors", "packets"}, 1), c)
                    /\ d.msgs[m + 1].type = "done" =>
                          StillDue(d, m, m)[c] = Value(Amount({"packets"}, 1), c)
  OBVIOUS
<1> DEFINE a == StillDue(d, m, m)
           E == {i \in Received(d) :
                   Reached(d, i) /\ d.msgs[i].type \in {"noop", "error", "overrun"}}
<1>1. Received(d) \in SUBSET (1 .. Len(d.msgs)) /\ Len(d.msgs) \in Nat
  BY MessageSets, PacketFacts
<1>2. \A i \in Received(d) : Reached(d, i) => i <= m + 1
  <2> SUFFICES ASSUME NEW i \in Received(d), Reached(d, i), ~(i <= m + 1)
               PROVE  FALSE
    OBVIOUS
  <2>1. m + 1 \in 1 .. i - 1
    BY <1>1
  <2> QED
    BY <2>1 DEF Reached
<1>3. \A j \in DataOf(d) : j <= m
  BY <1>1, <1>2 DEF DataOf
<1>4. \A S \in SUBSET DataOf(d) :
         Cardinality(S \ 1 .. m) = 0 /\ Payload(d, S \ 1 .. m) = 0
  <2> SUFFICES ASSUME NEW S \in SUBSET DataOf(d)
               PROVE  Cardinality(S \ 1 .. m) = 0 /\ Payload(d, S \ 1 .. m) = 0
    OBVIOUS
  <2>1. S \in SUBSET (1 .. Len(d.msgs)) /\ \A j \in S : j <= m
    BY <1>3, MessageSets
  <2>2. S \ 1 .. m = {}
    BY <2>1
  <2> QED
    BY <2>2, NoneLeft
<1>5. a.msgs = 0 /\ a.read = 0 /\ a.out = 0
  <2>1. DataOf(d) \in SUBSET DataOf(d) /\ Readable(d) \in SUBSET DataOf(d)
        /\ ReadSampled(d) \in SUBSET DataOf(d)
    BY MessageSets
  <2> QED
    BY <1>4, <2>1 DEF StillDue
<1>6. a.in = 0 /\ a.good = 1 /\ a.errors = Cardinality(E)
  BY DEF StillDue, WalkCounts, Errors
<1>7. E \subseteq {m + 1}
  <2> SUFFICES ASSUME NEW i \in E, i # m + 1 PROVE FALSE
    OBVIOUS
  <2>1. i \in 1 .. (m + 1) - 1
    BY <1>1, <1>2
  <2>2. d.msgs[i].type = "data"
    BY <2>1 DEF Reached
  <2> QED
    BY <2>2
<1>8. ASSUME d.msgs[m + 1].type \in {"noop", "error", "overrun"}
      PROVE  a[c] = Value(Amount({"errors", "packets"}, 1), c)
  <2>1. E = {m + 1}
    BY <1>7, <1>8
  <2> HIDE DEF E
  <2>2. a.errors = 1
    BY <1>6, <2>1, FS_Singleton
  <2> DEFINE more == Amount({"errors", "packets"}, 1)
  <2>3. /\ Value(more, "msgs") = 0 /\ Value(more, "out") = 0 /\ Value(more, "in") = 0
        /\ Value(more, "read") = 0 /\ Value(more, "errors") = 1 /\ Value(more, "good") = 1
    BY DEF Value, Amount, Counter
  <2> HIDE DEF a, more
  <2> QED
    BY <1>5, <1>6, <2>2, <2>3 DEF Kind, more
<1>9. ASSUME d.msgs[m + 1].type = "done"
      PROVE  a[c] = Value(Amount({"packets"}, 1), c)
  <2>1. E = {}
    BY <1>7, <1>9
  <2> HIDE DEF E
  <2>2. a.errors = 0
    BY <1>6, <2>1, FS_EmptySet
  <2> DEFINE more == Amount({"packets"}, 1)
  <2>3. /\ Value(more, "msgs") = 0 /\ Value(more, "out") = 0 /\ Value(more, "in") = 0
        /\ Value(more, "read") = 0 /\ Value(more, "errors") = 0 /\ Value(more, "good") = 1
    BY DEF Value, Amount, Counter
  <2> HIDE DEF a, more
  <2> QED
    BY <1>5, <1>6, <2>2, <2>3 DEF Kind, more
<1> QED
  BY <1>8, <1>9

-----------------------------------------------------------------------------
(* The steps.                                                              *)
LEMMA ToCountInts ==
    ASSUME TypeInv, NEW n \in Netlinkers, InPlace(n), NEW c \in Kind
    PROVE  ToCount(n)[c] \in Int
<1>1. CASE Walking(n)
  <2>1. packet[n] \in Packets /\ bufferSize \in Nat /\ netlinkMsgCount[n] \in Nat
    BY <1>1 DEF InPlace, InBuffer, TypeInv, WalkTypeOK
  <2>2. PayloadsRead(n) \in Nat
    BY <2>1 DEF PayloadsRead
  <2> QED
    BY <1>1, <2>1, <2>2, StillDueInts DEF ToCount
<1>2. CASE ~Walking(n)
  BY <1>2 DEF ToCount, NothingDue
<1> QED
  BY <1>1, <1>2

LEMMA ToCountNext ==
    ASSUME NEW n \in Netlinkers, bufferSize' = bufferSize
    PROVE  /\ ~Walking(n)' => \A c \in Kind : ToCount(n)'[c] = 0
           /\ \A d, m, r :
                 /\ Walking(n)' /\ packet'[n] = d /\ netlinkMsgCount'[n] = m
                 /\ r = IF netlinkerPc'[n] \in {"sample", "blocked"} THEN m + 1 ELSE m
                 => ToCount(n)' = StillDue(d, m, r)
<1>1. ~Walking(n)' => \A c \in Kind : ToCount(n)'[c] = 0
  BY DEF ToCount, NothingDue
<1>2. ASSUME NEW d, NEW m, NEW r,
             Walking(n)', packet'[n] = d, netlinkMsgCount'[n] = m,
             r = IF netlinkerPc'[n] \in {"sample", "blocked"} THEN m + 1 ELSE m
      PROVE  ToCount(n)' = StillDue(d, m, r)
  <2>1. PayloadsRead(n)' = r
    BY <1>2 DEF PayloadsRead
  <2>2. ToCount(n)' = StillDue(packet[n], netlinkMsgCount[n], PayloadsRead(n))'
    BY <1>2 DEF ToCount
  <2>3. StillDue(packet[n], netlinkMsgCount[n], PayloadsRead(n))' = StillDue(d, m, r)
    BY <1>2, <2>1
       DEF StillDue, WalkCounts, Errors, DataOf, Readable, ReadSampled, Received, InSize
  <2> QED
    BY <2>2, <2>3
<1> QED
  BY <1>1, <1>2

LEMMA DueInt ==
    ASSUME TypeInv, NEW n \in Netlinkers, NEW c \in Kind
    PROVE  /\ [i \in DOMAIN taken[n] |-> WalkCounts(taken[n][i])[c]] \in Seq(Int)
           /\ WalkDue(n, c) \in Int
<1>1. bufferSize \in Nat /\ taken[n] \in Seq(Packets)
  BY DEF TypeInv, WalkTypeOK
<1> DEFINE t == taken[n]
<1>2. \A i \in DOMAIN t : WalkCounts(t[i])[c] \in Int
  BY <1>1, CountsOfInts
<1>3. Len(t) \in Nat /\ DOMAIN t = 1 .. Len(t)
  BY <1>1
<1>4. [i \in DOMAIN t |-> WalkCounts(t[i])[c]] \in Seq(Int)
  <2> DEFINE f == [i \in DOMAIN t |-> WalkCounts(t[i])[c]]
             len == Len(t)
  <2>1. f \in [1 .. len -> Int] /\ len \in Nat
    BY <1>2, <1>3
  <2> HIDE DEF f, len
  <2>2. f \in Seq(Int)
    BY <2>1
  <2> QED
    BY <2>2 DEF f
<1>5. WalkDue(n, c) \in Int
  BY <1>4, SumOfInts DEF WalkDue
<1> QED
  BY <1>4, <1>5

LEMMA DueSame ==
    ASSUME NEW n \in Netlinkers, UNCHANGED <<bufferSize, taken[n]>>, NEW c
    PROVE  WalkDue(n, c)' = WalkDue(n, c)
BY DEF WalkDue, WalkCounts, Errors, DataOf, Readable, ReadSampled, Received, InSize

LEMMA DueMore ==
    ASSUME TypeInv, NEW n \in Netlinkers, bufferSize' = bufferSize,
           NEW d \in Packets, taken'[n] = Append(taken[n], d), NEW c \in Kind
    PROVE  WalkDue(n, c)' = WalkDue(n, c) + WalkCounts(d)[c]
<1> DEFINE t == taken[n]
           f == [i \in DOMAIN t |-> WalkCounts(t[i])[c]]
           x == WalkCounts(d)[c]
<1>1. bufferSize \in Nat /\ t \in Seq(Packets)
  BY DEF TypeInv, WalkTypeOK
<1>2. Len(t) \in Nat /\ DOMAIN t = 1 .. Len(t)
  BY <1>1
<1>3. /\ DOMAIN t' = 1 .. Len(t) + 1 /\ t'[Len(t) + 1] = d
      /\ \A i \in 1 .. Len(t) : t'[i] = t[i]
  BY <1>1, <1>2
<1>4. WalkDue(n, c)' = SumFunction([i \in DOMAIN t' |-> WalkCounts(t'[i])[c]])
  BY DEF WalkDue, WalkCounts, Errors, DataOf, Readable, ReadSampled, Received, InSize
<1>5. f \in Seq(Int) /\ x \in Int /\ Len(f) = Len(t)
  BY <1>1, <1>2, DueInt, CountsOfInts
<1>6. [i \in DOMAIN t' |-> WalkCounts(t'[i])[c]] = Append(f, x)
  <2> DEFINE g == Append(f, x)
             len == Len(t)
  <2>1. /\ DOMAIN g = 1 .. len + 1 /\ g = [i \in DOMAIN g |-> g[i]]
        /\ g[len + 1] = x /\ \A i \in 1 .. len : g[i] = f[i]
    <3> HIDE DEF f, x, len
    <3>1. len \in Nat /\ Len(f) = len
      BY <1>2, <1>5 DEF len
    <3> QED
      BY <1>5, <3>1, AppendFacts
  <2>2. \A i \in 1 .. len : g[i] = WalkCounts(t'[i])[c]
    BY <1>2, <1>3, <2>1
  <2>3. g[len + 1] = WalkCounts(t'[len + 1])[c]
    BY <1>3, <2>1
  <2>4. \A i \in 1 .. len + 1 : i \in 1 .. len \/ i = len + 1
    BY <1>2
  <2>5. DOMAIN t' = 1 .. len + 1
    BY <1>3
  <2> HIDE DEF g, t, len
  <2> QED
    BY <2>1, <2>2, <2>3, <2>4, <2>5 DEF g
<1>7. SumFunction(Append(f, x)) = SumFunction(f) + x
  <2> HIDE DEF f, x
  <2> QED
    BY <1>5, SumAppended
<1> QED
  BY <1>4, <1>6, <1>7 DEF WalkDue

LEMMA GotMore ==
    ASSUME TypeInv, NEW n \in Netlinkers, NEW more \in Counts, Count(n, more),
           UNCHANGED netlinkerStaterVars, NEW c \in Kind
    PROVE  /\ Got(n, c)' = Got(n, c) + Value(more, c)
           /\ Got(n, c) \in Int /\ Value(more, c) \in Int
<1>1. \A e \in Counter : Counted(n, e)' = Counted(n, e) + more[e]
  BY CountMore
<1>2. \A e \in Counter : Counted(n, e) \in Int /\ more[e] \in Int
  BY CountedInt DEF Counts
<1>3. CASE c = "good"
  <2> DEFINE p  == Counted(n, "packets")
             q  == Counted(n, "nasty")
  <2>1. /\ p \in Int /\ q \in Int /\ more["packets"] \in Int /\ more["nasty"] \in Int
        /\ p' = p + more["packets"] /\ q' = q + more["nasty"]
    BY <1>1, <1>2 DEF Counter
  <2>2. Got(n, c) = p - q /\ Got(n, c)' = p' - q'
        /\ Value(more, c) = more["packets"] - more["nasty"]
    BY <1>3 DEF Got, Value
  <2> HIDE DEF p, q
  <2> QED
    BY <2>1, <2>2
<1>4. CASE c # "good"
  <2>1. c \in Counter
    BY <1>4 DEF Kind, Counter
  <2>2. Got(n, c) = Counted(n, c) /\ Got(n, c)' = Counted(n, c)' /\ Value(more, c) = more[c]
    BY <1>4 DEF Got, Value
  <2> QED
    BY <1>1, <1>2, <2>1, <2>2
<1> QED
  BY <1>3, <1>4

(* A step that counts.                                                     *)
LEMMA Counting ==
    ASSUME TypeInv, NEW n \in Netlinkers, InPlace(n), CountedSoFar(n),
           NEW more \in Counts, Count(n, more),
           UNCHANGED <<netlinkerStaterVars, bufferSize, taken>>,
           PlainTaken(n) => \A c \in Kind :
              /\ ToCount(n)'[c] \in Int
              /\ ToCount(n)[c] = ToCount(n)'[c] + Value(more, c)
    PROVE  CountedSoFar(n)'
<1> SUFFICES ASSUME PlainTaken(n)', NEW c \in Kind
             PROVE  Got(n, c)' + ToCount(n)'[c] = WalkDue(n, c)'
  BY DEF CountedSoFar
<1>1. PlainTaken(n)
  BY DEF PlainTaken
<1>2. Got(n, c) + ToCount(n)[c] = WalkDue(n, c)
  BY <1>1 DEF CountedSoFar
<1>3. WalkDue(n, c)' = WalkDue(n, c)
  BY DueSame
<1>4. Got(n, c)' = Got(n, c) + Value(more, c) /\ Got(n, c) \in Int
      /\ Value(more, c) \in Int
  BY GotMore
<1>5. ToCount(n)'[c] \in Int /\ ToCount(n)[c] = ToCount(n)'[c] + Value(more, c)
  BY <1>1
<1> QED
  BY <1>2, <1>3, <1>4, <1>5

(* A step that does not.                                                   *)
LEMMA NotCounting ==
    ASSUME NEW n \in Netlinkers, CountedSoFar(n),
           \A c \in Counter : Counted(n, c)' = Counted(n, c),
           UNCHANGED <<bufferSize, taken[n]>>,
           PlainTaken(n) => \A c \in Kind : ToCount(n)'[c] = ToCount(n)[c]
    PROVE  CountedSoFar(n)'
<1> SUFFICES ASSUME PlainTaken(n)', NEW c \in Kind
             PROVE  Got(n, c)' + ToCount(n)'[c] = WalkDue(n, c)'
  BY DEF CountedSoFar
<1>1. PlainTaken(n)
  BY DEF PlainTaken
<1>2. Got(n, c) + ToCount(n)[c] = WalkDue(n, c)
  BY <1>1 DEF CountedSoFar
<1>3. WalkDue(n, c)' = WalkDue(n, c)
  BY DueSame
<1>4. Got(n, c)' = Got(n, c)
  BY DEF Got, Kind, Counter
<1> QED
  BY <1>1, <1>2, <1>3, <1>4

(* Where a netlinker is in a plain datagram.                               *)
LEMMA InPlainDatagram ==
    ASSUME TypeInv, NEW n \in Netlinkers, InPlace(n), FoundOut(n), Walking(n), PlainTaken(n)
    PROVE  LET d == packet[n]
               m == netlinkMsgCount[n]
           IN  /\ d \in Packets /\ m \in Nat /\ bufferSize \in Nat /\ Plain(d)
               /\ m + 1 \in Received(d) /\ Reached(d, m + 1)
               /\ d.msgs[m + 1] \in Header
               /\ netlinkerPc[n] # "header" => header[n] = d.msgs[m + 1]
               /\ netlinkerPc[n] \in {"sample", "blocked"} =>
                     m + 1 \in Readable(d) /\ m + 1 \in DataOf(d)
               /\ ToCount(n) = StillDue(d, m, PayloadsRead(n))
<1> DEFINE d == packet[n]
           m == netlinkMsgCount[n]
<1>1. d \in Packets /\ m \in Nat /\ bufferSize \in Nat /\ Plain(d)
  BY DEF InPlace, InBuffer, PlainTaken, TypeInv, WalkTypeOK
<1>2. m + 1 \in Received(d) /\ Reached(d, m + 1)
  BY <1>1 DEF InPlace, InStep
<1>3. netlinkerPc[n] # "header" => header[n] = d.msgs[m + 1]
  BY <1>1 DEF InPlace, InStep
<1>4. netlinkerPc[n] \in {"sample", "blocked"} => m + 1 \in Readable(d)
  BY <1>1 DEF FoundOut
<1>5. ToCount(n) = StillDue(d, m, PayloadsRead(n))
  BY DEF ToCount
<1> HIDE DEF d, m
<1>6. d.msgs[m + 1] \in Header
  <2>1. m + 1 \in DOMAIN d.msgs
    BY <1>1, <1>2, MessageSets, PacketFacts
  <2> QED
    BY <1>1, <2>1, PacketFacts
<1>7. netlinkerPc[n] \in {"sample", "blocked"} => m + 1 \in DataOf(d)
  BY <1>1, <1>4, MessageSets
<1> QED
  BY <1>1, <1>2, <1>3, <1>4, <1>5, <1>6, <1>7 DEF d, m

LEMMA RecvDatagramCounts ==
    ASSUME TypeInv, NEW n \in Netlinkers, CountedSoFar(n), RecvDatagram(n)
    PROVE  CountedSoFar(n)'
<1> DEFINE d == Head(socket)
           more == Amount({"in"}, InSize(d))
<1>1. /\ TakeDatagram(n) /\ InSize(d) >= HdrLen /\ Count(n, more)
      /\ UNCHANGED <<netlinkerStaterVars, bufferSize>>
      /\ packet'[n] = d /\ netlinkMsgCount'[n] = 0 /\ netlinkerPc'[n] = "header"
  BY DEF RecvDatagram, TakeDatagram, Goto, pollVars, TypeInv, WalkTypeOK
<1>2. d \in Packets /\ InSize(d) \in Nat /\ bufferSize \in Nat
  BY <1>1, TakeDatagramTypes DEF TypeInv, WalkTypeOK
<1>3. taken'[n] = Append(taken[n], d)
  BY <1>1 DEF TakeDatagram, TypeInv, WalkTypeOK
<1>4. ~Walking(n) /\ Walking(n)'
  BY <1>1 DEF TakeDatagram, Walking
<1>5. ToCount(n)' = StillDue(d, 0, 0)
  BY <1>1, <1>4, ToCountNext
<1> SUFFICES ASSUME PlainTaken(n)', NEW c \in Kind
             PROVE  Got(n, c)' + ToCount(n)'[c] = WalkDue(n, c)'
  BY DEF CountedSoFar
<1>6. PlainTaken(n)
  <2>1. \A i \in DOMAIN taken[n] : i \in DOMAIN taken'[n] /\ taken'[n][i] = taken[n][i]
    BY <1>2, <1>3 DEF TypeInv, WalkTypeOK
  <2> QED
    BY <2>1 DEF PlainTaken
<1>7. Got(n, c) + ToCount(n)[c] = WalkDue(n, c) /\ ToCount(n)[c] = 0
  BY <1>4, <1>6 DEF CountedSoFar, ToCount, NothingDue
<1>8. WalkDue(n, c)' = WalkDue(n, c) + WalkCounts(d)[c]
  <2> HIDE DEF d
  <2> QED
    BY <1>1, <1>2, <1>3, DueMore
<1>9. WalkCounts(d)[c] = StillDue(d, 0, 0)[c] + Value(more, c)
  <2> HIDE DEF d
  <2> QED
    BY <1>1, <1>2, AllStillDue
<1>10. more \in Counts
  BY <1>2, ConstantsOfType
<1>11. Got(n, c)' = Got(n, c) + Value(more, c) /\ Got(n, c) \in Int
       /\ Value(more, c) \in Int
  <2> HIDE DEF more
  <2> QED
    BY <1>1, <1>10, GotMore
<1>12. StillDue(d, 0, 0)[c] \in Int
  <2> HIDE DEF d
  <2> QED
    BY <1>2, StillDueInts
<1> HIDE DEF d, more
<1> QED
  BY <1>5, <1>7, <1>8, <1>9, <1>11, <1>12

LEMMA RecvShortCounts ==
    ASSUME TypeInv, NEW n \in Netlinkers, CountedSoFar(n), RecvShort(n)
    PROVE  CountedSoFar(n)'
<1> DEFINE d == Head(socket)
           more == Amount({"packets", "nasty"}, 1)
<1>1. /\ TakeDatagram(n) /\ InSize(d) < HdrLen /\ Count(n, more)
      /\ UNCHANGED <<netlinkerStaterVars, bufferSize, netlinkerPc>>
  BY DEF RecvShort, TakeDatagram, pollVars
<1>2. d \in Packets /\ bufferSize \in Nat
  BY <1>1, TakeDatagramTypes DEF TypeInv, WalkTypeOK
<1>3. taken'[n] = Append(taken[n], d)
  BY <1>1 DEF TakeDatagram, TypeInv, WalkTypeOK
<1>4. ~Walking(n) /\ ~Walking(n)'
  BY <1>1 DEF TakeDatagram, Walking
<1> SUFFICES ASSUME PlainTaken(n)', NEW c \in Kind
             PROVE  Got(n, c)' + ToCount(n)'[c] = WalkDue(n, c)'
  BY DEF CountedSoFar
<1>5. ToCount(n)'[c] = 0
  BY <1>1, <1>4, ToCountNext
<1>6. PlainTaken(n)
  <2>1. \A i \in DOMAIN taken[n] : i \in DOMAIN taken'[n] /\ taken'[n][i] = taken[n][i]
    BY <1>2, <1>3 DEF TypeInv, WalkTypeOK
  <2> QED
    BY <2>1 DEF PlainTaken
<1>7. Got(n, c) + ToCount(n)[c] = WalkDue(n, c) /\ ToCount(n)[c] = 0
  BY <1>4, <1>6 DEF CountedSoFar, ToCount, NothingDue
<1>8. WalkDue(n, c)' = WalkDue(n, c) + WalkCounts(d)[c]
  <2> HIDE DEF d
  <2> QED
    BY <1>1, <1>2, <1>3, DueMore
<1>9. WalkCounts(d)[c] = 0
  <2> HIDE DEF d
  <2> QED
    BY <1>1, <1>2, AllStillDue
<1>10. more \in Counts
  BY ConstantsOfType
<1>11. Got(n, c)' = Got(n, c) + Value(more, c) /\ Got(n, c) \in Int
  <2> HIDE DEF more
  <2> QED
    BY <1>1, <1>10, GotMore
<1>12. Value(more, c) = 0
  BY DEF Value, Amount, Counter, Kind
<1> HIDE DEF d, more
<1> QED
  BY <1>5, <1>7, <1>8, <1>9, <1>11, <1>12

(* Steps outside of a datagram.                                            *)
LEMMA OutsideCounts ==
    ASSUME TypeInv, NEW n \in Netlinkers, InPlace(n), CountedSoFar(n),
           RecvError(n) \/ RecvTemporary(n) \/ ReturnNetlinker(n)
    PROVE  CountedSoFar(n)'
<1>1. /\ UNCHANGED <<bufferSize, taken>>
      /\ netlinkerPc[n] \in {"recvfrom", "stats"}
      /\ netlinkerPc'[n] \in {"recvfrom", "stats", "off"}
  BY DEF RecvError, RecvTemporary, ReturnNetlinker, Goto, pollVars, TypeInv, WalkTypeOK
<1>2. ~Walking(n) /\ ~Walking(n)'
  BY <1>1 DEF Walking
<1>3. \A c \in Kind : ToCount(n)[c] = 0 /\ ToCount(n)'[c] = 0
  <2>1. \A c \in Kind : ToCount(n)[c] = 0
    BY <1>2 DEF ToCount, NothingDue
  <2>2. \A c \in Kind : ToCount(n)'[c] = 0
    BY <1>1, <1>2, ToCountNext
  <2> QED
    BY <2>1, <2>2
<1>4. CASE RecvError(n)
  <2> DEFINE more == Amount({"packets", "nasty"}, 1)
  <2>1. Count(n, more) /\ UNCHANGED netlinkerStaterVars
    BY <1>4 DEF RecvError
  <2>2. more \in Counts /\ \A c \in Kind : Value(more, c) = 0
    <3>1. more \in Counts
      BY ConstantsOfType
    <3>2. \A c \in Kind : Value(more, c) = 0
      BY DEF Value, Amount, Counter, Kind
    <3> QED
      BY <3>1, <3>2
  <2> HIDE DEF more
  <2> QED
    BY <1>1, <1>3, <2>1, <2>2, Counting
<1>5. CASE RecvTemporary(n)
  <2>1. UNCHANGED <<stats[n], counters, netlinkerStaterCh>>
    BY <1>5 DEF RecvTemporary, netlinkerStaterVars, staterVars
  <2>2. \A c \in Counter : Counted(n, c)' = Counted(n, c)
    BY <2>1, CountSame
  <2> QED
    BY <1>1, <1>3, <2>2, NotCounting
<1>6. CASE ReturnNetlinker(n)
  <2>1. \A c \in Counter : Counted(n, c)' = Counted(n, c)
    BY <1>6, ReturnCounts
  <2> QED
    BY <1>1, <1>3, <2>1, NotCounting
<1> QED
  BY <1>4, <1>5, <1>6

(* Steps within a datagram that count nothing of it.                       *)
LEMMA GoOnCounts ==
    ASSUME TypeInv, NEW n \in Netlinkers, InPlace(n), CountedSoFar(n),
           ReadHeader(n) \/ ReadDone(n) \/ BadLength(n) \/ SendWouldBlock(n)
    PROVE  CountedSoFar(n)'
<1> DEFINE d == packet[n]
           m == netlinkMsgCount[n]
<1>1. /\ UNCHANGED <<bufferSize, taken, packet, netlinkMsgCount, netlinkerStaterCh,
                     counters>>
      /\ netlinkerPc[n] \in {"header", "check", "sample"}
      /\ netlinkerPc'[n] \in {"check", "sendDone", "blocked"}
      /\ netlinkerPc[n] = "sample" <=> netlinkerPc'[n] = "blocked"
  BY DEF ReadHeader, ReadDone, BadLength, HasPayload, SendWouldBlock, WithinDatagram,
         Goto, pollVars, walkVars, netlinkerStaterVars, staterVars, TypeInv, WalkTypeOK
<1>2. Walking(n) /\ Walking(n)'
  BY <1>1 DEF Walking
<1>3. ToCount(n) = StillDue(d, m, PayloadsRead(n))
  BY <1>2 DEF ToCount
<1>4. packet'[n] = d /\ netlinkMsgCount'[n] = m
      /\ PayloadsRead(n) = IF netlinkerPc'[n] \in {"sample", "blocked"} THEN m + 1 ELSE m
  BY <1>1 DEF PayloadsRead
<1>5. ToCount(n)' = StillDue(d, m, PayloadsRead(n))
  <2> DEFINE r == PayloadsRead(n)
  <2>1. r = IF netlinkerPc'[n] \in {"sample", "blocked"} THEN m + 1 ELSE m
    BY <1>4
  <2> HIDE DEF r
  <2> QED
    BY <1>1, <1>2, <1>4, <2>1, ToCountNext DEF r
<1>6. CASE SendWouldBlock(n)
  <2> DEFINE more == Amount({"blocked"}, 1)
  <2>1. Count(n, more) /\ UNCHANGED netlinkerStaterVars
    BY <1>6 DEF SendWouldBlock
  <2>2. more \in Counts /\ \A c \in Kind : Value(more, c) = 0
    <3>1. more \in Counts
      BY ConstantsOfType
    <3>2. \A c \in Kind : Value(more, c) = 0
      BY DEF Value, Amount, Counter, Kind
    <3> QED
      BY <3>1, <3>2
  <2>3. \A c \in Kind : ToCount(n)[c] \in Int
    BY ToCountInts
  <2>4. \A c \in Kind : ToCount(n)'[c] \in Int /\ ToCount(n)[c] = ToCount(n)'[c] + Value(more, c)
    BY <1>3, <1>5, <2>2, <2>3
  <2> HIDE DEF more
  <2> QED
    BY <1>1, <2>1, <2>2, <2>4, Counting
<1>7. CASE ReadHeader(n) \/ ReadDone(n) \/ BadLength(n)
  <2>1. UNCHANGED stats
    BY <1>7 DEF ReadHeader, ReadDone, BadLength
  <2>2. \A c \in Counter : Counted(n, c)' = Counted(n, c)
    BY <1>1, <2>1, CountSame
  <2> QED
    BY <1>1, <1>3, <1>5, <2>2, NotCounting
<1> QED
  BY <1>6, <1>7

(* A control message.                                                      *)
LEMMA ControlCounts ==
    ASSUME TypeInv, NEW n \in Netlinkers, InPlace(n), FoundOut(n), CountedSoFar(n),
           ReadControl(n) \/ SignalDone(n)
    PROVE  CountedSoFar(n)'
<1> DEFINE d == packet[n]
           m == netlinkMsgCount[n]
           type == d.msgs[m + 1].type
           more == IF ReadControl(n) THEN Amount({"errors", "packets"}, 1)
                   ELSE Amount({"packets"}, 1)
<1>1. /\ UNCHANGED <<bufferSize, taken, netlinkerStaterVars>>
      /\ NextDatagram(n) /\ Count(n, more)
      /\ netlinkerPc[n] \in {"check", "sendDone"}
  BY DEF ReadControl, SignalDone, WithinDatagram, pollVars
<1>2. more \in Counts
  BY ConstantsOfType
<1>3. Walking(n)
  BY <1>1 DEF Walking
<1>4. ~Walking(n)'
  BY <1>1 DEF Walking, NextDatagram, Goto, TypeInv, WalkTypeOK
<1>5. \A c \in Kind : ToCount(n)'[c] = 0
  BY <1>1, <1>4, ToCountNext
<1>6. ASSUME PlainTaken(n), NEW c \in Kind
      PROVE  ToCount(n)[c] = Value(more, c)
  <2>1. /\ d \in Packets /\ m \in Nat /\ bufferSize \in Nat
        /\ m + 1 \in Received(d) /\ Reached(d, m + 1) /\ header[n] = d.msgs[m + 1]
        /\ ToCount(n) = StillDue(d, m, PayloadsRead(n))
    BY <1>1, <1>3, <1>6, InPlainDatagram
  <2>2. PayloadsRead(n) = m
    BY <1>1 DEF PayloadsRead
  <2>3. ReadControl(n) => type \in {"noop", "error", "overrun"}
    BY <2>1 DEF ReadControl
  <2>4. ~ReadControl(n) => type = "done"
    <3>1. SignalDone(n) => type = "done"
      BY <1>3, <1>6, <2>1, InPlainDatagram DEF SignalDone, FoundOut
    <3> QED
      BY <3>1
  <2>5. /\ type \in {"noop", "error", "overrun"} =>
              StillDue(d, m, m)[c] = Value(Amount({"errors", "packets"}, 1), c)
        /\ type = "done" => StillDue(d, m, m)[c] = Value(Amount({"packets"}, 1), c)
    <3> HIDE DEF d, m
    <3> QED
      BY <1>6, <2>1, ControlCounted
  <2> HIDE DEF d, m, type
  <2> QED
    BY <2>1, <2>2, <2>3, <2>4, <2>5
<1> HIDE DEF more
<1>7. \A c \in Kind : Value(more, c) \in Int
  BY <1>2 DEF Value, Counts, Counter, Kind
<1>8. PlainTaken(n) => \A c \in Kind : /\ ToCount(n)'[c] \in Int
                                     /\ ToCount(n)[c] = ToCount(n)'[c] + Value(more, c)
  BY <1>5, <1>6, <1>7
<1> QED
  BY <1>1, <1>2, <1>8, Counting

(* A payload.                                                              *)
LEMMA ReadIsReadable ==
    ASSUME TypeInv, NEW n \in Netlinkers, InPlace(n), Plain(packet[n]),
           ReadPayload(n) \/ ReadPayloadShort(n)
    PROVE  netlinkMsgCount[n] + 1 \in Readable(packet[n])
<1> DEFINE d == packet[n]
           k == netlinkMsgCount[n] + 1
<1>1. netlinkerPc[n] = "check" /\ header[n].type = "data"
      /\ (PayloadLen(n) \in 0 .. Left(n) \/ Left(n) > 0)
  BY DEF ReadPayload, ReadPayloadShort, HasPayload
<1>2. /\ k \in Received(d) /\ Reached(d, k) /\ header[n] = d.msgs[k]
      /\ d.msgs[k].len \in Nat /\ offset[n] = d.start[k] + HdrLen
      /\ bufferSize \in Nat /\ offset[n] \in Nat /\ d.start[k] \in Nat
      /\ Left(n) = bufferSize - offset[n]
  BY <1>1, AtCheck
<1>3. PayloadLen(n) = d.msgs[k].len - HdrLen
  BY <1>2 DEF PayloadLen
<1>4. k \in DataOf(d)
  BY <1>1, <1>2 DEF DataOf
<1> HIDE DEF d, k
<1>5. d.msgs[k].len > HdrLen => d.start[k] + HdrLen < bufferSize
  BY <1>1, <1>2, <1>3 DEF HdrLen
<1> QED
  BY <1>4, <1>5 DEF Readable, d, k

LEMMA ReadPayloadCounts ==
    ASSUME TypeInv, NEW n \in Netlinkers, InPlace(n), FoundOut(n), CountedSoFar(n),
           ReadPayload(n) \/ ReadPayloadShort(n)
    PROVE  CountedSoFar(n)'
<1> DEFINE d == packet[n]
           m == netlinkMsgCount[n]
           more == Amount({"read"}, PayloadLen(n))
<1>1. /\ UNCHANGED <<bufferSize, taken, netlinkerStaterVars, packet, netlinkMsgCount>>
      /\ Count(n, more) /\ netlinkerPc[n] = "check" /\ netlinkerPc'[n] = "sample"
  BY DEF ReadPayload, ReadPayloadShort, ReadBytes, HasPayload, Goto, WithinDatagram,
         pollVars, TypeInv, WalkTypeOK
<1>2. more \in Counts
  BY ConstantsOfType, PayloadFacts DEF TypeInv
<1>3. Walking(n) /\ Walking(n)'
  BY <1>1 DEF Walking
<1>4. ASSUME PlainTaken(n), NEW c \in Kind
      PROVE  /\ ToCount(n)'[c] \in Int
             /\ ToCount(n)[c] = ToCount(n)'[c] + Value(more, c)
  <2>1. /\ d \in Packets /\ m \in Nat /\ bufferSize \in Nat /\ Plain(d)
        /\ header[n] = d.msgs[m + 1]
        /\ ToCount(n) = StillDue(d, m, PayloadsRead(n))
    BY <1>1, <1>3, <1>4, InPlainDatagram
  <2>2. PayloadsRead(n) = m
    BY <1>1 DEF PayloadsRead
  <2>3. m + 1 \in Readable(d)
    BY <2>1, ReadIsReadable
  <2>4. more = Amount({"read"}, d.msgs[m + 1].len - HdrLen)
    BY <2>1 DEF PayloadLen
  <2>5. packet'[n] = d /\ netlinkMsgCount'[n] = m
    BY <1>1
  <2>6. ToCount(n)' = StillDue(d, m, m + 1)
    <3> HIDE DEF d, m
    <3> QED
      BY <1>1, <1>3, <2>5, ToCountNext
  <2> HIDE DEF d, m, more
  <2>7. StillDue(d, m, m)[c] = StillDue(d, m, m + 1)[c] + Value(more, c)
    BY <1>4, <2>1, <2>3, <2>4, PayloadCounted
  <2>8. m + 1 \in Nat
    BY <2>1
  <2>9. StillDue(d, m, m + 1)[c] \in Int
    BY <1>4, <2>1, <2>8, StillDueInts
  <2> QED
    BY <2>1, <2>2, <2>6, <2>7, <2>9
<1> HIDE DEF more
<1> QED
  BY <1>1, <1>2, <1>4, Counting

(* The end of a message.                                                   *)
LEMMA NoneAfter ==
    ASSUME NEW d \in Packets, bufferSize \in Nat, NEW k \in DOMAIN d.msgs,
           d.start[k + 1] + HdrLen > InSize(d)
    PROVE  \A j \in Received(d) : j <= k
<1> SUFFICES ASSUME NEW j \in Received(d), ~(j <= k)
             PROVE  FALSE
  OBVIOUS
<1> DEFINE len == Len(d.msgs)
           size == InSize(d)
           from == d.start[k + 1]
           to == d.start[j]
<1>1. len \in Nat /\ k \in 1 .. len /\ j \in 1 .. len /\ size \in Nat
  BY PacketFacts, MessageSets, InSizeFacts
<1>2. from \in Nat /\ to \in Nat /\ DOMAIN d.start = 1 .. len + 1
  BY <1>1, PacketFacts
<1>3. from <= to
  <2>1. CASE j = k + 1
    BY <1>2, <2>1
  <2>2. CASE j # k + 1
    <3>1. k + 1 \in DOMAIN d.start /\ j \in DOMAIN d.start /\ k + 1 < j
      BY <1>1, <1>2, <2>2
    <3> QED
      BY <1>2, <3>1, DatagramStartsGrow DEF HdrLen
  <2> QED
    BY <2>1, <2>2
<1>4. to + HdrLen <= size
  BY DEF Received
<1> HIDE DEF len, size, from, to
<1>5. from + HdrLen > size
  BY DEF from, size
<1> QED
  BY <1>1, <1>2, <1>3, <1>4, <1>5 DEF HdrLen

LEMMA EndOfMessageCounts ==
    ASSUME TypeInv, NEW n \in Netlinkers, InPlace(n), FoundOut(n), CountedSoFar(n),
           Walking(n), NEW more \in Counts, NextMessage(n, more),
           UNCHANGED <<bufferSize, taken, netlinkerStaterVars>>,
           PlainTaken(n) =>
              LET d == packet[n]
                  k == netlinkMsgCount[n] + 1
              IN  /\ k \in DataOf(d)
                  /\ \A c \in Kind : ToCount(n)[c] = StillDue(d, netlinkMsgCount[n], k)[c]
                  /\ ~Another(n) => \A j \in Received(d) : j <= k
                  /\ \/ /\ k \in ReadSampled(d)
                        /\ more = Amount({"out"}, d.msgs[k].len - HdrLen)
                     \/ k \notin ReadSampled(d) /\ more = NoCounts
    PROVE  CountedSoFar(n)'
<1> DEFINE d == packet[n]
           m == netlinkMsgCount[n]
           next == Plus(more, Amount({"msgs"}, 1))
           last == Plus(more, Amount({"msgs", "packets"}, 1))
<1>1. next \in Counts /\ last \in Counts
  <2>1. Amount({"msgs"}, 1) \in Counts /\ Amount({"msgs", "packets"}, 1) \in Counts
    BY ConstantsOfType
  <2> QED
    BY <2>1, ConstantsOfType
<1>2. ASSUME PlainTaken(n)
      PROVE  /\ d \in Packets /\ m \in Nat /\ m + 1 \in Nat /\ bufferSize \in Nat
             /\ m + 1 \in DataOf(d)
             /\ \A c \in Kind : ToCount(n)[c] = StillDue(d, m, m + 1)[c]
             /\ ~Another(n) => \A j \in Received(d) : j <= m + 1
             /\ \/ /\ m + 1 \in ReadSampled(d)
                   /\ more = Amount({"out"}, d.msgs[m + 1].len - HdrLen)
                \/ m + 1 \notin ReadSampled(d) /\ more = NoCounts
  BY <1>2, InPlainDatagram
<1>3. ASSUME PlainTaken(n), NEW c \in Kind
      PROVE  /\ StillDue(d, m, m + 1)[c] = StillDue(d, m + 1, m + 1)[c] + Value(next, c)
             /\ ~Another(n) => StillDue(d, m, m + 1)[c] = Value(last, c)
             /\ StillDue(d, m + 1, m + 1)[c] \in Int
  <2> HIDE DEF d, m
  <2>1. StillDue(d, m + 1, m + 1)[c] \in Int
    BY <1>2, <1>3, StillDueInts
  <2> QED
    BY <1>2, <1>3, <2>1, MessageCounted
<1>4. CASE Another(n)
  <2>1. /\ netlinkerPc'[n] = "header" /\ netlinkMsgCount'[n] = m + 1
        /\ packet'[n] = d /\ Count(n, next)
    BY <1>4 DEF NextMessage, Goto, TypeInv, WalkTypeOK
  <2>2. Walking(n)'
    BY <2>1 DEF Walking
  <2>3. ToCount(n)' = StillDue(d, m + 1, m + 1)
    <3> HIDE DEF d, m
    <3> QED
      BY <2>1, <2>2, ToCountNext
  <2> HIDE DEF d, m, next
  <2>4. PlainTaken(n) => \A c \in Kind : /\ ToCount(n)'[c] \in Int
                                       /\ ToCount(n)[c] = ToCount(n)'[c] + Value(next, c)
    BY <1>2, <1>3, <2>3
  <2> QED
    BY <1>1, <2>1, <2>4, Counting
<1>5. CASE ~Another(n)
  <2>1. NextDatagram(n) /\ Count(n, last)
    BY <1>5 DEF NextMessage
  <2>2. ~Walking(n)'
    BY <2>1 DEF Walking, NextDatagram, Goto, TypeInv, WalkTypeOK
  <2>3. \A c \in Kind : ToCount(n)'[c] = 0
    BY <2>2, ToCountNext
  <2>4. \A c \in Kind : Value(last, c) \in Int
    <3> HIDE DEF last
    <3> QED
      BY <1>1 DEF Value, Counts, Counter, Kind
  <2> HIDE DEF d, m, last
  <2>5. PlainTaken(n) => \A c \in Kind : /\ ToCount(n)'[c] \in Int
                                       /\ ToCount(n)[c] = ToCount(n)'[c] + Value(last, c)
    BY <1>2, <1>3, <1>5, <2>3, <2>4
  <2> QED
    BY <1>1, <2>1, <2>5, Counting
<1> QED
  BY <1>4, <1>5

LEMMA SampledMessageCounts ==
    ASSUME TypeInv, NEW n \in Netlinkers, InPlace(n), FoundOut(n), CountedSoFar(n),
           SkipMessage(n) \/ SendMessage(n) \/ SendBlocked(n)
    PROVE  CountedSoFar(n)'
<1> DEFINE d == packet[n]
           m == netlinkMsgCount[n]
           more == IF SkipMessage(n) THEN NoCounts ELSE Amount({"out"}, PayloadLen(n))
<1>1. /\ UNCHANGED <<bufferSize, taken, netlinkerStaterVars>>
      /\ NextMessage(n, more) /\ netlinkerPc[n] \in {"sample", "blocked"}
  BY DEF SkipMessage, SendMessage, SendBlocked, Send, WithinDatagram, pollVars
<1>2. more \in Counts
  <2>1. Amount({"out"}, PayloadLen(n)) \in Counts
    BY ConstantsOfType, PayloadFacts DEF TypeInv
  <2> QED
    BY <2>1, ConstantsOfType
<1>3. Walking(n)
  BY <1>1 DEF Walking
<1>4. ASSUME PlainTaken(n)
      PROVE  /\ m + 1 \in DataOf(d)
             /\ \A c \in Kind : ToCount(n)[c] = StillDue(d, m, m + 1)[c]
             /\ ~Another(n) => \A j \in Received(d) : j <= m + 1
             /\ \/ /\ m + 1 \in ReadSampled(d)
                   /\ more = Amount({"out"}, d.msgs[m + 1].len - HdrLen)
                \/ m + 1 \notin ReadSampled(d) /\ more = NoCounts
  <2>1. /\ d \in Packets /\ m \in Nat /\ bufferSize \in Nat /\ Plain(d)
        /\ m + 1 \in Readable(d) /\ m + 1 \in DataOf(d) /\ header[n] = d.msgs[m + 1]
        /\ m + 1 \in Received(d)
        /\ ToCount(n) = StillDue(d, m, PayloadsRead(n))
    BY <1>1, <1>3, <1>4, InPlainDatagram
  <2>2. PayloadsRead(n) = m + 1
    BY <1>1 DEF PayloadsRead
  <2>3. Sampled(n) <=> SamplingModulus = 1 \/ ((m + 1) - 1) % SamplingModulus = 1
    BY <2>1 DEF Sampled
  <2>4. Sampled(n) <=> m + 1 \in ReadSampled(d)
    <3> HIDE DEF d, m
    <3> QED
      BY <2>1, <2>3 DEF ReadSampled
  <2>5. Sampled(n) <=> ~SkipMessage(n)
    <3>1. SkipMessage(n) => ~Sampled(n)
      BY DEF SkipMessage
    <3>2. SendMessage(n) => Sampled(n)
      BY DEF SendMessage
    <3>3. SendBlocked(n) => Sampled(n)
      BY <1>3, <2>1 DEF SendBlocked, FoundOut
    <3> QED
      BY <3>1, <3>2, <3>3
  <2>6. PayloadLen(n) = d.msgs[m + 1].len - HdrLen
    BY <2>1 DEF PayloadLen
  <2>7. ASSUME ~Another(n) PROVE \A j \in Received(d) : j <= m + 1
    <3> DEFINE k == m + 1
    <3>1. remaining[n] = InSize(d) - d.start[k + 1]
      BY <1>1, <1>3, <2>1 DEF InPlace, InStep
    <3>2. k \in DOMAIN d.msgs
      BY <2>1 DEF Received
    <3>3. InSize(d) \in Nat /\ d.start[k + 1] \in Nat
      <4> HIDE DEF d, k
      <4> QED
        BY <2>1, <3>2, PacketFacts, InSizeFacts
    <3>4. d.start[k + 1] + HdrLen > InSize(d)
      <4> DEFINE size == InSize(d)
                 next == d.start[k + 1]
                 rem  == remaining[n]
      <4>1. ~(rem >= HdrLen) /\ rem = size - next /\ size \in Nat /\ next \in Nat
        BY <2>7, <3>1, <3>3 DEF Another
      <4> HIDE DEF size, next, rem
      <4>2. next + HdrLen > size
        BY <4>1 DEF HdrLen
      <4> QED
        BY <4>2 DEF size, next
    <3> HIDE DEF d, k
    <3>5. \A j \in Received(d) : j <= k
      BY <2>1, <3>2, <3>4, NoneAfter
    <3> QED
      BY <3>5 DEF k
  <2> HIDE DEF d, m
  <2>8. \/ m + 1 \in ReadSampled(d) /\ more = Amount({"out"}, d.msgs[m + 1].len - HdrLen)
        \/ m + 1 \notin ReadSampled(d) /\ more = NoCounts
    BY <2>4, <2>5, <2>6
  <2> QED
    BY <2>1, <2>2, <2>7, <2>8
<1> HIDE DEF more
<1> QED
  BY <1>1, <1>2, <1>3, <1>4, EndOfMessageCounts

LEMMA UnreadMessageCounts ==
    ASSUME TypeInv, NEW n \in Netlinkers, InPlace(n), FoundOut(n), CountedSoFar(n),
           ReadPayloadEOF(n)
    PROVE  CountedSoFar(n)'
<1> DEFINE d == packet[n]
           m == netlinkMsgCount[n]
<1>1. /\ UNCHANGED <<bufferSize, taken, netlinkerStaterVars>>
      /\ NextMessage(n, NoCounts) /\ netlinkerPc[n] = "check"
      /\ header[n].type = "data" /\ PayloadLen(n) > 0 /\ Left(n) = 0
  BY DEF ReadPayloadEOF, HasPayload, WithinDatagram, pollVars
<1>2. NoCounts \in Counts
  BY ConstantsOfType
<1>3. Walking(n)
  BY <1>1 DEF Walking
<1>4. ASSUME PlainTaken(n)
      PROVE  /\ m + 1 \in DataOf(d)
             /\ \A c \in Kind : ToCount(n)[c] = StillDue(d, m, m + 1)[c]
             /\ \A j \in Received(d) : j <= m + 1
             /\ m + 1 \notin ReadSampled(d)
  <2>1. /\ d \in Packets /\ m \in Nat /\ bufferSize \in Nat /\ Plain(d)
        /\ m + 1 \in Received(d) /\ Reached(d, m + 1) /\ header[n] = d.msgs[m + 1]
        /\ ToCount(n) = StillDue(d, m, PayloadsRead(n))
    BY <1>1, <1>3, <1>4, InPlainDatagram
  <2>2. PayloadsRead(n) = m
    BY <1>1 DEF PayloadsRead
  <2>3. /\ d.msgs[m + 1].len \in Nat /\ offset[n] = d.start[m + 1] + HdrLen
        /\ Left(n) = bufferSize - offset[n] /\ offset[n] \in Nat
        /\ d.start[m + 1] \in Nat /\ InSize(d) \in Nat /\ InSize(d) <= bufferSize
        /\ d.start[(m + 1) + 1] = d.start[m + 1] + HdrLen + PayloadLen(n)
        /\ PayloadLen(n) \in Nat
    BY <1>1, <2>1, AtCheck
  <2>4. PayloadLen(n) = d.msgs[m + 1].len - HdrLen
    BY <2>1 DEF PayloadLen
  <2>5. m + 1 \in DataOf(d)
    BY <1>1, <2>1 DEF DataOf
  <2> HIDE DEF d, m
  <2>6. m + 1 \notin Readable(d)
    BY <1>1, <2>1, <2>3, <2>4 DEF Readable, HdrLen
  <2>7. m + 1 \notin ReadSampled(d)
    BY <2>6 DEF ReadSampled
  <2>8. ASSUME NEW c \in Kind PROVE StillDue(d, m, m)[c] = StillDue(d, m, m + 1)[c]
    BY <2>1, <2>6, <2>8, PayloadCounted
  <2>9. \A j \in Received(d) : j <= m + 1
    <3> DEFINE k == m + 1
    <3>1. d.start[k + 1] + HdrLen > InSize(d)
      BY <1>1, <2>1, <2>3 DEF HdrLen
    <3>2. k \in DOMAIN d.msgs
      BY <2>1 DEF Received
    <3> HIDE DEF k
    <3>3. \A j \in Received(d) : j <= k
      BY <2>1, <3>1, <3>2, NoneAfter
    <3> QED
      BY <3>3 DEF k
  <2> QED
    BY <2>1, <2>2, <2>5, <2>7, <2>8, <2>9
<1> QED
  BY <1>1, <1>2, <1>3, <1>4, EndOfMessageCounts

LEMMA OtherFlagsCounts ==
    ASSUME TypeInv, NEW n \in Netlinkers, InPlace(n), FoundOut(n), ReadOtherFlags(n)
    PROVE  ~Plain(packet[n]) /\ CountedSoFar(n)' /\ FoundOut(n)'
<1>1. netlinkerPc[n] = "check" /\ header[n].type = "data" /\ ~header[n].multi
  BY DEF ReadOtherFlags
<1>2. ~Plain(packet[n])
  BY <1>1, AtCheck
<1>3. Walking(n) /\ packet[n] \in Packets
      /\ \E i \in DOMAIN taken[n] : taken[n][i] = packet[n]
  BY <1>1 DEF Walking, InPlace, InBuffer
<1>4. taken' = taken /\ ~PlainTaken(n)
  BY <1>2, <1>3 DEF ReadOtherFlags, WithinDatagram, PlainTaken
<1>5. CountedSoFar(n)'
  BY <1>4 DEF CountedSoFar, PlainTaken
<1>6. netlinkerPc'[n] \in {"header", "recvfrom"}
  BY DEF ReadOtherFlags, NextMessage, NextDatagram, Goto, TypeInv, WalkTypeOK
<1>7. FoundOut(n)'
  BY <1>6 DEF FoundOut
<1> QED
  BY <1>2, <1>5, <1>7

(* What has been found out.                                                *)
LEMMA FoundOutStep ==
    ASSUME TypeInv, NEW n \in Netlinkers, InPlace(n), FoundOut(n), Receive(n) \/ Walk(n)
    PROVE  FoundOut(n)'
<1>1. CASE netlinkerPc'[n] \notin {"sample", "blocked", "sendDone"}
  BY <1>1 DEF FoundOut
<1>2. CASE ReadPayload(n) \/ ReadPayloadShort(n)
  <2>1. /\ UNCHANGED <<packet, netlinkMsgCount, bufferSize>>
        /\ netlinkerPc'[n] = "sample"
    BY <1>2 DEF ReadPayload, ReadPayloadShort, ReadBytes, Goto, WithinDatagram,
                pollVars, TypeInv, WalkTypeOK
  <2>2. Plain(packet[n]) => netlinkMsgCount[n] + 1 \in Readable(packet[n])
    BY <1>2, ReadIsReadable
  <2>3. Readable(packet[n])' = Readable(packet[n])
    BY <2>1 DEF Readable, DataOf, Received, InSize
  <2>4. Plain(packet[n])' => netlinkMsgCount'[n] + 1 \in Readable(packet[n])'
    BY <2>1, <2>2, <2>3 DEF Plain
  <2> QED
    BY <2>1, <2>4 DEF FoundOut
<1>3. CASE SendWouldBlock(n)
  <2>1. /\ UNCHANGED <<packet, netlinkMsgCount, bufferSize>>
        /\ netlinkerPc[n] = "sample" /\ netlinkerPc'[n] = "blocked" /\ Sampled(n)
    BY <1>3 DEF SendWouldBlock, Goto, WithinDatagram, pollVars, walkVars, TypeInv,
                WalkTypeOK
  <2>2. Plain(packet[n]) => netlinkMsgCount[n] + 1 \in Readable(packet[n])
    BY <2>1 DEF FoundOut, Walking
  <2>3. Readable(packet[n])' = Readable(packet[n])
    BY <2>1 DEF Readable, DataOf, Received, InSize
  <2>4. Plain(packet[n])' => netlinkMsgCount'[n] + 1 \in Readable(packet[n])'
    BY <2>1, <2>2, <2>3 DEF Plain
  <2>5. Sampled(n)'
    BY <2>1 DEF Sampled
  <2> QED
    BY <2>1, <2>4, <2>5 DEF FoundOut
<1>4. CASE ReadDone(n)
  <2>1. netlinkerPc'[n] = "sendDone" /\ header'[n].type = "done"
    BY <1>4 DEF ReadDone, Goto, walkVars, TypeInv, WalkTypeOK
  <2> QED
    BY <2>1 DEF FoundOut
<1>5. ASSUME ~(ReadPayload(n) \/ ReadPayloadShort(n) \/ SendWouldBlock(n) \/ ReadDone(n))
      PROVE  netlinkerPc'[n] \notin {"sample", "blocked", "sendDone"}
  <2>1. CASE Receive(n)
    BY <2>1 DEF Receive, RecvDatagram, RecvShort, RecvError, RecvTemporary,
                TakeDatagram, Goto, TypeInv, WalkTypeOK
  <2>2. CASE \E more : NextMessage(n, more)
    BY <2>2 DEF NextMessage, NextDatagram, Goto, TypeInv, WalkTypeOK
  <2>3. CASE NextDatagram(n)
    BY <2>3 DEF NextDatagram, Goto, TypeInv, WalkTypeOK
  <2>4. CASE ReadHeader(n) \/ BadLength(n) \/ ReturnNetlinker(n)
    BY <2>4 DEF ReadHeader, BadLength, HasPayload, ReturnNetlinker, Goto, TypeInv,
                WalkTypeOK
  <2>5. ReadControl(n) \/ SignalDone(n) => NextDatagram(n)
    BY DEF ReadControl, SignalDone
  <2>6. ReadOtherFlags(n) \/ ReadPayloadEOF(n) \/ SkipMessage(n) \/ SendMessage(n)
          \/ SendBlocked(n) => \E more : NextMessage(n, more)
    BY DEF ReadOtherFlags, ReadPayloadEOF, SkipMessage, SendMessage, SendBlocked, Send
  <2> QED
    BY <1>5, <2>1, <2>2, <2>3, <2>4, <2>5, <2>6 DEF Walk
<1> QED
  BY <1>1, <1>2, <1>3, <1>4, <1>5

LEMMA OwnCounts ==
    ASSUME TypeInv, NEW n \in Netlinkers, InPlace(n), FoundOut(n), CountedSoFar(n),
           Receive(n) \/ Walk(n)
    PROVE  CountedSoFar(n)'
BY RecvDatagramCounts, RecvShortCounts, OutsideCounts, GoOnCounts, ControlCounts,
   ReadPayloadCounts, SampledMessageCounts, UnreadMessageCounts, OtherFlagsCounts
   DEF Receive, Walk

(* The steps of others.                                                    *)
LEMMA OthersCounts ==
    ASSUME TypeInv, NEW m \in Netlinkers, SameWalk(m), bufferSize' = bufferSize,
           \A c \in Counter : Counted(m, c)' = Counted(m, c),
           CountedSoFar(m), FoundOut(m)
    PROVE  CountedSoFar(m)' /\ FoundOut(m)'
<1>1. FoundOut(m)'
  BY DEF FoundOut, SameWalk, Walking, Plain, Readable, DataOf, Received, InSize, Sampled
<1>2. \A c \in Kind : ToCount(m)'[c] = ToCount(m)[c]
  <2>1. Walking(m)' = Walking(m)
    BY DEF Walking, SameWalk
  <2>2. CASE Walking(m)
    <3> DEFINE d == packet[m]
               k == netlinkMsgCount[m]
               r == PayloadsRead(m)
    <3>1. /\ packet'[m] = d /\ netlinkMsgCount'[m] = k
          /\ r = IF netlinkerPc'[m] \in {"sample", "blocked"} THEN k + 1 ELSE k
      BY DEF SameWalk, PayloadsRead
    <3>2. ToCount(m) = StillDue(d, k, r)
      BY <2>2 DEF ToCount
    <3> HIDE DEF d, k, r
    <3>3. ToCount(m)' = StillDue(d, k, r)
      BY <2>1, <2>2, <3>1, ToCountNext
    <3> QED
      BY <3>2, <3>3
  <2>3. CASE ~Walking(m)
    <3>1. \A c \in Kind : ToCount(m)'[c] = 0
      BY <2>1, <2>3, ToCountNext
    <3>2. \A c \in Kind : ToCount(m)[c] = 0
      BY <2>3 DEF ToCount, NothingDue
    <3> QED
      BY <3>1, <3>2
  <2> QED
    BY <2>2, <2>3
<1>3. UNCHANGED taken[m]
  BY DEF SameWalk
<1> QED
  BY <1>1, <1>2, <1>3, NotCounting

(* What is counted of another is not touched.                              *)
LEMMA OthersCounted ==
    ASSUME TypeInv, NEW n \in Netlinkers, Receive(n) \/ Walk(n),
           NEW m \in Netlinkers, m # n, NEW c \in Counter
    PROVE  Counted(m, c)' = Counted(m, c)
<1>1. CASE ReturnNetlinker(n)
  BY <1>1, ReturnCounts
<1>2. CASE ~ReturnNetlinker(n)
  <2>1. UNCHANGED <<counters, netlinkerStaterCh>>
    BY <1>2 DEF Receive, RecvDatagram, RecvShort, RecvError, RecvTemporary, TakeDatagram,
       Walk, ReadHeader, ReadControl, ReadDone, SignalDone, ReadOtherFlags, BadLength,
       ReadPayload, ReadPayloadShort, ReadBytes, ReadPayloadEOF, SkipMessage,
       SendMessage, SendWouldBlock, SendBlocked, Send, netlinkerStaterVars, staterVars
  <2>2. stats'[m] = stats[m]
    <3>1. UNCHANGED stats \/ \E more : Count(n, more)
      BY <1>2 DEF Receive, RecvDatagram, RecvShort, RecvError, RecvTemporary,
         TakeDatagram, Walk, ReadHeader, ReadControl, ReadDone, SignalDone,
         ReadOtherFlags, BadLength, ReadPayload, ReadPayloadShort, ReadBytes,
         ReadPayloadEOF, SkipMessage, SendMessage, SendWouldBlock, SendBlocked, Send,
         NextMessage
    <3> QED
      BY <3>1 DEF Count, TypeInv, WalkTypeOK
  <2> QED
    BY <2>1, <2>2, CountSame
<1> QED
  BY <1>1, <1>2

LEMMA CountInit == NetlinkerParseInit => CountInv
<1> SUFFICES ASSUME NetlinkerParseInit, NEW n \in Netlinkers
             PROVE  CountedSoFar(n) /\ FoundOut(n)
  BY DEF CountInv
<1>1. /\ ~Walking(n) /\ taken[n] = <<>> /\ netlinkerStaterCh = <<>>
      /\ stats[n] = NoCounts /\ counters[n] = NoCounts
  BY DEF NetlinkerParseInit, NetlinkerStaterInit, Walking
<1>2. FoundOut(n)
  BY <1>1 DEF FoundOut
<1>3. SumFunction(<<>>) = 0
  BY SumOfNone DEF SumFunction
<1>4. \A c : WalkDue(n, c) = 0
  <2>1. \A c : [i \in DOMAIN taken[n] |-> WalkCounts(taken[n][i])[c]] = <<>>
    BY <1>1
  <2> QED
    BY <1>3, <2>1 DEF WalkDue
<1>5. \A c \in Counter : Counted(n, c) = 0
  <2>1. \A c : Reported(n, c) = <<>>
    BY <1>1 DEF Reported
  <2> QED
    BY <1>1, <1>3, <2>1 DEF Counted, NoCounts
<1>6. \A c \in Kind : Got(n, c) = 0
  BY <1>5 DEF Got, Kind, Counter
<1>7. \A c \in Kind : ToCount(n)[c] = 0
  BY <1>1 DEF ToCount, NothingDue
<1> QED
  BY <1>2, <1>4, <1>6, <1>7 DEF CountedSoFar

LEMMA CountStep ==
    ASSUME TypeInv, \A n \in Netlinkers : InPlace(n), CountInv,
           [NetlinkerParseNext]_netlinkerParseVars
    PROVE  CountInv'
<1> SUFFICES ASSUME NEW m \in Netlinkers PROVE CountedSoFar(m)' /\ FoundOut(m)'
  BY DEF CountInv
<1>1. InPlace(m) /\ CountedSoFar(m) /\ FoundOut(m)
  BY DEF CountInv
<1>2. CASE UNCHANGED netlinkerParseVars
  <2>1. SameWalk(m) /\ UNCHANGED <<bufferSize, stats[m], counters, netlinkerStaterCh>>
    BY <1>2 DEF SameWalk, netlinkerParseVars, netlinkerStaterVars, staterVars, pollVars,
                walkVars
  <2>2. \A c \in Counter : Counted(m, c)' = Counted(m, c)
    BY <2>1, CountSame
  <2> QED
    BY <1>1, <2>1, <2>2, OthersCounts
<1>3. CASE StartPoll
  <2>1. /\ UNCHANGED <<bufferSize, stats, counters, netlinkerStaterCh, taken>>
        /\ ~Walking(m) /\ ~Walking(m)'
    BY <1>3 DEF StartPoll, netlinkerStaterVars, staterVars, Walking
  <2>2. \A c \in Counter : Counted(m, c)' = Counted(m, c)
    BY <2>1, CountSame
  <2>3. \A c \in Kind : ToCount(m)'[c] = ToCount(m)[c]
    <3>1. \A c \in Kind : ToCount(m)'[c] = 0
      BY <2>1, ToCountNext
    <3>2. \A c \in Kind : ToCount(m)[c] = 0
      BY <2>1 DEF ToCount, NothingDue
    <3> QED
      BY <3>1, <3>2
  <2>4. CountedSoFar(m)'
    BY <1>1, <2>1, <2>2, <2>3, NotCounting
  <2> QED
    BY <2>1, <2>4 DEF FoundOut
<1>4. CASE TakeMessage
  <2>1. SameWalk(m) /\ UNCHANGED <<bufferSize, stats[m], counters, netlinkerStaterCh>>
    BY <1>4 DEF TakeMessage, SameWalk, netlinkerStaterVars, staterVars, pollVars, walkVars
  <2>2. \A c \in Counter : Counted(m, c)' = Counted(m, c)
    BY <2>1, CountSame
  <2> QED
    BY <1>1, <2>1, <2>2, OthersCounts
<1>5. CASE StaterStep
  <2>1. SameWalk(m) /\ UNCHANGED <<bufferSize, stats>>
    BY <1>5 DEF StaterStep, SameWalk, pollVars, walkVars
  <2>2. CASE ReceiveReport
    <3>1. \A c \in Counter : Counted(m, c)' = Counted(m, c)
      BY <2>1, <2>2, ReceiveReportCounts
    <3> QED
      BY <1>1, <2>1, <3>1, OthersCounts
  <2>3. CASE DialStatsd \/ DialFails
    <3>1. UNCHANGED <<counters, netlinkerStaterCh>>
      BY <2>3 DEF DialStatsd, DialFails, staterVars
    <3>2. \A c \in Counter : Counted(m, c)' = Counted(m, c)
      BY <2>1, <3>1, CountSame
    <3> QED
      BY <1>1, <2>1, <3>2, OthersCounts
  <2> QED
    BY <1>5, <2>2, <2>3 DEF StaterStep
<1>6. ASSUME NEW n \in Netlinkers, Receive(n) \/ Walk(n)
      PROVE  CountedSoFar(m)' /\ FoundOut(m)'
  <2>1. CASE m = n
    BY <1>1, <1>6, <2>1, OwnCounts, FoundOutStep
  <2>2. CASE m # n
    <3>1. SameWalk(m) /\ bufferSize' = bufferSize
      BY <1>6, <2>2, OthersStay, OnlyItsOwn
    <3>2. \A c \in Counter : Counted(m, c)' = Counted(m, c)
      BY <1>6, <2>2, OthersCounted
    <3> QED
      BY <1>1, <3>1, <3>2, OthersCounts
  <2> QED
    BY <2>1, <2>2
<1> QED
  BY <1>2, <1>3, <1>4, <1>5, <1>6 DEF NetlinkerParseNext

(* What the walk counts of a datagram that the buffer has room for.        *)
LEMMA CountsOfWhole ==
    ASSUME bufferSize \in Nat, NEW d \in Packets, DatagramSize(d) <= bufferSize
    PROVE  WalkCounts(d) = CountsOf(d)
<1> DEFINE len == Len(d.msgs)
<1>1. /\ len \in Nat \ {0} /\ DOMAIN d.msgs = 1 .. len /\ DOMAIN d.start = 1 .. len + 1
      /\ DatagramSize(d) = d.start[len + 1] /\ DatagramSize(d) \in Nat
      /\ d.start[1] = 0
  BY PacketFacts DEF DatagramSize
<1>2. InSize(d) = DatagramSize(d)
  BY <1>1, InSizeFacts
<1>3. HdrLen <= DatagramSize(d)
  <2>1. d.start[1] + HdrLen <= d.start[len + 1]
    BY <1>1, DatagramStartsGrow
  <2> QED
    BY <1>1, <2>1 DEF HdrLen
<1>4. \A i \in DOMAIN d.msgs : d.msgs[i].len > HdrLen => d.start[i] + HdrLen < bufferSize
  <2> SUFFICES ASSUME NEW i \in 1 .. len, d.msgs[i].len > HdrLen
               PROVE  d.start[i] + HdrLen < bufferSize
    BY <1>1
  <2>1. /\ d.msgs[i].len \in Nat /\ d.start[i] \in Nat /\ d.start[i + 1] \in Nat
        /\ d.start[i + 1] = d.start[i] + d.msgs[i].len
    BY <1>1, PacketFacts
  <2>2. d.start[i + 1] <= d.start[len + 1]
    <3>1. CASE i = len
      BY <1>1, <2>1, <3>1
    <3>2. CASE i < len
      <4>1. d.start[i + 1] + HdrLen <= d.start[len + 1]
        BY <1>1, <3>2, DatagramStartsGrow
      <4> QED
        BY <1>1, <2>1, <4>1 DEF HdrLen
    <3> QED
      BY <1>1, <3>1, <3>2
  <2> DEFINE from == d.start[i]
             to   == d.start[i + 1]
             size == d.msgs[i].len
             end  == DatagramSize(d)
  <2>3. /\ from \in Nat /\ to \in Nat /\ size \in Nat /\ end \in Nat
        /\ size > 16 /\ to = from + size /\ to <= end /\ end <= bufferSize
    BY <1>1, <2>1, <2>2 DEF HdrLen
  <2>4. from + 16 < bufferSize
    <3> HIDE DEF from, to, size, end
    <3> QED
      BY <2>3
  <2> QED
    BY <2>4 DEF HdrLen
<1>5. Readable(d) = DataOf(d)
  BY <1>4 DEF Readable, DataOf, Received
<1>6. ReadSampled(d) = SampledOf(d)
  BY <1>5, Zenon DEF ReadSampled, SampledOf
<1>7. ~(InSize(d) < HdrLen)
  BY <1>1, <1>2, <1>3 DEF HdrLen
<1> QED
  BY <1>2, <1>5, <1>6, <1>7, Zenon DEF WalkCounts, CountsOf

(* Between two datagrams the counters say of all polls together what the   *)
(* datagrams received amount to, however many netlinkers there are and     *)
(* however many reports are on their way, if the datagrams are plain and   *)
(* the buffer, of any size, has room for each.                             *)
THEOREM CountersAddUp == NetlinkerParseSpec => []CountersOfDatagrams
<1>1. NetlinkerParseInv => TypeInv /\ \A n \in Netlinkers : InPlace(n)
  BY DEF NetlinkerParseInv, TypeInv, InPlace
<1>2. NetlinkerParseInv /\ CountInv /\ [NetlinkerParseNext]_netlinkerParseVars => CountInv'
  BY <1>1, CountStep
<1>3. NetlinkerParseInv /\ CountInv => CountersOfDatagrams
  <2> SUFFICES ASSUME NetlinkerParseInv, CountInv, NEW n \in Netlinkers,
                      netlinkerPc[n] \in {"recvfrom", "stats", "off"},
                      \A i \in DOMAIN taken[n] :
                         Plain(taken[n][i]) /\ DatagramSize(taken[n][i]) <= bufferSize
               PROVE  /\ \A c \in {"in", "msgs", "read", "out", "errors"} :
                            Counted(n, c) = Due(n, c)
                      /\ Counted(n, "packets") - Counted(n, "nasty") = Due(n, "good")
    BY DEF CountersOfDatagrams
  <2>0. \A c : WalkDue(n, c) = Due(n, c)
    <3>1. bufferSize \in Nat /\ taken[n] \in Seq(Packets)
      BY <1>1 DEF TypeInv, WalkTypeOK
    <3>2. \A i \in DOMAIN taken[n] : WalkCounts(taken[n][i]) = CountsOf(taken[n][i])
      BY <3>1, CountsOfWhole
    <3>3. ASSUME NEW c
          PROVE  [i \in DOMAIN taken[n] |-> WalkCounts(taken[n][i])[c]]
                    = [i \in DOMAIN taken[n] |-> CountsOf(taken[n][i])[c]]
      BY <3>2
    <3> QED
      BY <3>3 DEF WalkDue, Due
  <2>1. \A c \in Kind : Got(n, c) + ToCount(n)[c] = WalkDue(n, c)
    BY DEF CountInv, CountedSoFar, PlainTaken
  <2>2. \A c \in Kind : ToCount(n)[c] = 0
    BY DEF ToCount, NothingDue, Walking
  <2>3. \A c \in Counter : Counted(n, c) \in Int
    BY <1>1, CountedInt
  <2>4. /\ \A c \in {"in", "msgs", "read", "out", "errors"} : Got(n, c) = Counted(n, c)
        /\ Got(n, "good") = Counted(n, "packets") - Counted(n, "nasty")
    BY DEF Got
  <2>5. \A c \in Kind : Got(n, c) \in Int
    BY <2>3 DEF Got, Kind, Counter
  <2>6. \A c \in Kind : Got(n, c) = WalkDue(n, c)
    BY <2>1, <2>2, <2>5
  <2> QED
    BY <2>0, <2>4, <2>6 DEF Kind
<1> QED
  BY <1>2, <1>3, CountInit, WalkInvariant, PTL DEF NetlinkerParseSpec
-----------------------------------------------------------------------------
(* The walk over a datagram ends.                                          *)
LEMMA Headers ==
    ASSUME NEW r \in Int, NEW s \in Int, s <= r
    PROVE  LET H(k) == IF k > 0 THEN k \div HdrLen ELSE 0
           IN  /\ H(r) \in Nat /\ H(s) \in Nat /\ H(s) <= H(r)
               /\ r >= HdrLen /\ s <= r - HdrLen => H(s) + 1 <= H(r)
BY DEF HdrLen

(* What the steps of the loop over the messages of a datagram do: the next *)
(* place, and the bytes that remain.                                       *)
LEMMA WalkSteps ==
    ASSUME TypeInv, NEW n \in Netlinkers, InBuffer(n),
           Walk(n), netlinkerPc[n] # "stats", ~BadLength(n)
    PROVE  /\ remaining[n] \in Int /\ remaining'[n] \in Int
           /\ \/ /\ netlinkerPc[n] = "header" /\ netlinkerPc'[n] = "check"
                 /\ remaining[n] >= HdrLen /\ remaining'[n] = remaining[n] - HdrLen
              \/ /\ netlinkerPc[n] = "check" /\ netlinkerPc'[n] = "sample"
                 /\ remaining'[n] <= remaining[n]
              \/ /\ netlinkerPc[n] = "check" /\ netlinkerPc'[n] = "sendDone"
                 /\ remaining'[n] = remaining[n]
              \/ /\ netlinkerPc[n] = "sample" /\ netlinkerPc'[n] = "blocked"
                 /\ remaining'[n] = remaining[n]
              \/ /\ netlinkerPc[n] \in {"check", "sample", "blocked"}
                 /\ netlinkerPc'[n] = "header" /\ remaining'[n] = remaining[n]
              \/ /\ netlinkerPc[n] \in {"check", "sample", "blocked", "sendDone"}
                 /\ netlinkerPc'[n] = "recvfrom"
<1> USE DEF TypeInv, WalkTypeOK, Goto, NextDatagram, walkVars
<1>1. ASSUME NEW more, NextMessage(n, more)
      PROVE  \/ netlinkerPc'[n] = "header" /\ remaining'[n] = remaining[n]
             \/ netlinkerPc'[n] = "recvfrom" /\ remaining'[n] = 0
  BY <1>1 DEF NextMessage
<1>2. CASE ReadHeader(n)
  BY <1>2 DEF ReadHeader, InBuffer, HdrLen
<1>3. CASE ReadControl(n) \/ SignalDone(n)
  BY <1>3 DEF ReadControl, SignalDone
<1>4. CASE ReadDone(n) \/ SendWouldBlock(n)
  BY <1>4 DEF ReadDone, SendWouldBlock
<1>5. CASE ReadPayload(n) \/ ReadPayloadShort(n)
  <2>1. /\ netlinkerPc[n] = "check" /\ netlinkerPc'[n] = "sample"
        /\ remaining'[n] = remaining[n] - PayloadLen(n)
    BY <1>5 DEF ReadPayload, ReadPayloadShort, ReadBytes, HasPayload
  <2>2. PayloadLen(n) \in Int /\ Left(n) \in Int
    BY PayloadFacts
  <2>3. PayloadLen(n) >= 0
    BY <1>5, <2>2 DEF ReadPayload, ReadPayloadShort
  <2> QED
    BY <2>1, <2>2, <2>3
<1>6. CASE ReadOtherFlags(n) \/ ReadPayloadEOF(n)
  <2>1. netlinkerPc[n] = "check" /\ \E more : NextMessage(n, more)
    BY <1>6 DEF ReadOtherFlags, ReadPayloadEOF, HasPayload
  <2> QED
    BY <1>1, <2>1
<1>7. CASE SkipMessage(n) \/ SendMessage(n) \/ SendBlocked(n)
  <2>1. netlinkerPc[n] \in {"sample", "blocked"} /\ \E more : NextMessage(n, more)
    BY <1>7 DEF SkipMessage, SendMessage, SendBlocked, Send
  <2> QED
    BY <1>1, <2>1
<1>8. CASE ReturnNetlinker(n)
  BY <1>8 DEF ReturnNetlinker
<1> QED
  BY <1>2, <1>3, <1>4, <1>5, <1>6, <1>7, <1>8 DEF Walk

LEMMA WalkNears ==
    ASSUME TypeInv, NEW n \in Netlinkers, InBuffer(n),
           Walk(n), netlinkerPc[n] # "stats", ~BadLength(n)
    PROVE  /\ StepsLeft(n) \in Nat /\ StepsLeft(n)' \in Nat
           /\ StepsLeft(n)' < StepsLeft(n)
<1> DEFINE h == HeadersLeft(n)
           g == HeadersLeft(n)'
<1>1. remaining[n] \in Int /\ remaining'[n] \in Int
  BY WalkSteps
<1>2. h \in Nat /\ g \in Nat
  <2>1. h \in Nat
    BY <1>1, Headers DEF HeadersLeft
  <2>2. g \in Nat
    BY <1>1, Headers DEF HeadersLeft
  <2> QED
    BY <2>1, <2>2
<1>3. remaining'[n] <= remaining[n] => g <= h
  BY <1>1, Headers DEF HeadersLeft
<1>4. remaining[n] >= HdrLen /\ remaining'[n] = remaining[n] - HdrLen => g + 1 <= h
  BY <1>1, Headers DEF HeadersLeft, HdrLen
<1>5. \/ StepsLeft(n) = 4 * h /\ StepsLeft(n)' = 4 * g + 3 /\ g + 1 <= h
      \/ StepsLeft(n) = 4 * h + 3 /\ StepsLeft(n)' \in {4 * g + 2, 4 * g + 1, 4 * g} /\ g <= h
      \/ StepsLeft(n) = 4 * h + 2 /\ StepsLeft(n)' \in {4 * g + 1, 4 * g} /\ g <= h
      \/ StepsLeft(n) = 4 * h + 1 /\ StepsLeft(n)' = 4 * g /\ g <= h
      \/ StepsLeft(n) \in {4 * h + 3, 4 * h + 2, 4 * h + 1} /\ StepsLeft(n)' = 0
  <2> HIDE DEF h, g
  <2>1. /\ StepsLeft(n) = CASE netlinkerPc[n] = "header" -> 4 * h
                            [] netlinkerPc[n] = "check"  -> 4 * h + 3
                            [] netlinkerPc[n] = "sample" -> 4 * h + 2
                            [] netlinkerPc[n] \in {"blocked", "sendDone"} -> 4 * h + 1
                            [] OTHER -> 0
        /\ StepsLeft(n)' = CASE netlinkerPc'[n] = "header" -> 4 * g
                            [] netlinkerPc'[n] = "check"  -> 4 * g + 3
                            [] netlinkerPc'[n] = "sample" -> 4 * g + 2
                            [] netlinkerPc'[n] \in {"blocked", "sendDone"} -> 4 * g + 1
                            [] OTHER -> 0
    BY DEF StepsLeft, h, g
  <2> QED
    BY <1>1, <1>3, <1>4, <2>1, WalkSteps
<1> HIDE DEF h, g
<1> QED
  BY <1>2, <1>5

(* Whatever a dump and the bytes in its payloads look like, and for any    *)
(* buffer: each step of the loop over the messages of a datagram leaves    *)
(* its netlinker nearer to the next Recvfrom, so that a datagram of n      *)
(* bytes takes at most 4 * (n \div 16) of them.                            *)
THEOREM DatagramWalkTerminates == NetlinkerParseSpec => EachStepNearsTheEnd
<1>1. NetlinkerParseInv /\ [NetlinkerParseNext]_netlinkerParseVars =>
         [\A n \in Netlinkers :
             /\ Walk(n) /\ netlinkerPc[n] # "stats" /\ ~panicked' =>
                   StepsLeft(n)' \in Nat /\ StepsLeft(n)' < StepsLeft(n)
             /\ ~RecvDatagram(n) => StepsLeft(n)' <= StepsLeft(n)
         ]_netlinkerParseVars
  <2> SUFFICES ASSUME NetlinkerParseInv, NetlinkerParseNext, NEW n \in Netlinkers
               PROVE  /\ Walk(n) /\ netlinkerPc[n] # "stats" /\ ~panicked' =>
                            StepsLeft(n)' \in Nat /\ StepsLeft(n)' < StepsLeft(n)
                      /\ ~RecvDatagram(n) => StepsLeft(n)' <= StepsLeft(n)
    OBVIOUS
  <2>1. TypeInv /\ InBuffer(n)
    BY DEF NetlinkerParseInv, TypeInv
  <2>2. StepsLeft(n) \in Nat
    <3>1. remaining[n] \in Int
      BY <2>1 DEF TypeInv, WalkTypeOK
    <3>2. HeadersLeft(n) \in Nat
      BY <3>1, Headers DEF HeadersLeft
    <3> QED
      BY <3>2 DEF StepsLeft
  <2>3. SameWalk(n) => StepsLeft(n)' = StepsLeft(n)
    BY DEF SameWalk, StepsLeft, HeadersLeft
  <2>4. netlinkerPc'[n] \in {"recvfrom", "stats", "off"} => StepsLeft(n)' = 0
    BY DEF StepsLeft
  <2>5. BadLength(n) => panicked' /\ SameWalk(n)
    BY DEF BadLength, WithinDatagram, SameWalk, walkVars
  <2>6. ASSUME ~RecvDatagram(n) PROVE StepsLeft(n)' <= StepsLeft(n)
    <3>1. CASE StartPoll
      <4>1. netlinkerPc'[n] = "recvfrom"
        BY <3>1 DEF StartPoll
      <4> QED
        BY <2>2, <2>4, <4>1
    <3>2. CASE TakeMessage \/ StaterStep
      <4>1. SameWalk(n)
        BY <3>2 DEF TakeMessage, StaterStep, SameWalk, walkVars
      <4> QED
        BY <2>2, <2>3, <4>1
    <3>3. CASE Receive(n)
      <4>1. netlinkerPc'[n] = "stats" \/ UNCHANGED <<netlinkerPc, remaining>>
        BY <2>1, <2>6, <3>3 DEF Receive, RecvShort, RecvError, RecvTemporary, Goto,
                                walkVars, TypeInv, WalkTypeOK
      <4>2. UNCHANGED <<netlinkerPc, remaining>> => StepsLeft(n)' = StepsLeft(n)
        BY DEF StepsLeft, HeadersLeft
      <4> QED
        BY <2>2, <2>4, <4>1, <4>2
    <3>4. CASE Walk(n)
      <4>1. CASE netlinkerPc[n] = "stats"
        <5>1. netlinkerPc'[n] = "off"
          BY <2>1, <3>4, <4>1
             DEF Walk, ReadHeader, ReadControl, ReadDone, SignalDone,
                 ReadOtherFlags, BadLength, ReadPayload, ReadPayloadShort,
                 ReadPayloadEOF, HasPayload, SkipMessage, SendMessage,
                 SendWouldBlock, SendBlocked, ReturnNetlinker, Goto, TypeInv, WalkTypeOK
        <5> QED
          BY <2>2, <2>4, <5>1
      <4>2. CASE BadLength(n)
        BY <2>2, <2>3, <2>5, <4>2
      <4>3. CASE netlinkerPc[n] # "stats" /\ ~BadLength(n)
        BY <2>1, <3>4, <4>3, WalkNears
      <4> QED
        BY <4>1, <4>2, <4>3
    <3>5. ASSUME NEW m \in Netlinkers \ {n}, Receive(m) \/ Walk(m)
          PROVE  StepsLeft(n)' <= StepsLeft(n)
      <4>1. SameWalk(n)
        BY <2>1, <3>5, OthersStay
      <4> QED
        BY <2>2, <2>3, <4>1
    <3> QED
      BY <3>1, <3>2, <3>3, <3>4, <3>5 DEF NetlinkerParseNext
  <2> QED
    BY <2>1, <2>5, <2>6, WalkNears
<1> QED
  BY <1>1, WalkInvariant, PTL DEF NetlinkerParseSpec, EachStepNearsTheEnd
=============================================================================
