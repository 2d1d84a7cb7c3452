--------------------------- MODULE PollCycleProofs ---------------------------
(***************************************************************************)
(* The pipeline of module Poller loses no message and handles none twice,  *)
(* makes -maxLoops + 1 polls, and implements PollCycle, step by step, for  *)
(* any netlinkers, dumps, channel sizes and flags; and none of its         *)
(* goroutines waits for what nobody will do.  There has to be an           *)
(* inetdiager: without one, messages that fit in netlinkerCh are lost when *)
(* the next poll makes it anew.                                            *)
(***************************************************************************)
EXTENDS PollerProofs

(* Messages, all in one place each: unread, to be sent, in the channel, in *)
(* hands, or handled.                                                      *)
Apart(all, u, s, c, h, d) ==
    /\ all = u \cup s \cup c \cup h \cup d
    /\ u \cap (s \cup c \cup h \cup d) = {}
    /\ s \cap (c \cup h \cup d) = {}
    /\ c \cap (h \cup d) = {}
    /\ h \cap d = {}

LEMMA EachMessageOnceIsApart ==
    EachMessageOnce <=>
        /\ Apart(AllSampled, Unread, ToBeSent, Range(netlinkerCh), InHands, handled)
        /\ NoneTwiceInAPlace
BY DEF EachMessageOnce, Apart

-----------------------------------------------------------------------------
(* What does not move does not change.                                     *)
LEMMA SameAllSampled ==
    ASSUME UNCHANGED answers
    PROVE  AllSampled' = AllSampled
BY DEF AllSampled, SampledOfDump, Datagrams, SampledOf, Sampled

LEMMA SameUnread ==
    ASSUME UNCHANGED socket
    PROVE  /\ Unread' = Unread
           /\ \A i \in DOMAIN socket : SampledOf(socket[i])' = SampledOf(socket[i])
BY DEF Unread, SampledOf, Sampled

LEMMA SameToSend ==
    ASSUME NEW n \in Netlinkers,
           netlinkerPc'[n] = netlinkerPc[n], packet'[n] = packet[n],
           netlinkMsgCount'[n] = netlinkMsgCount[n]
    PROVE  ToSend(n)' = ToSend(n)
BY DEF ToSend, SampledOf, Sampled

LEMMA SameToBeSent ==
    ASSUME \A n \in Netlinkers : ToSend(n)' = ToSend(n)
    PROVE  ToBeSent' = ToBeSent
BY DEF ToBeSent

LEMMA SameInHands ==
    ASSUME UNCHANGED inHand, BusyInetdiagers' = BusyInetdiagers
    PROVE  InHands' = InHands
BY DEF InHands

(* A step that moves no message.                                           *)
LEMMA NoMessageMoves ==
    ASSUME EachMessageOnce,
           UNCHANGED <<answers, socket, netlinkerCh, inHand, handled>>,
           \A n \in Netlinkers : ToSend(n)' = ToSend(n),
           BusyInetdiagers' = BusyInetdiagers
    PROVE  EachMessageOnce'
<1>1. /\ AllSampled' = AllSampled
      /\ Unread' = Unread /\ ToBeSent' = ToBeSent /\ InHands' = InHands
  BY SameAllSampled, SameUnread, SameToBeSent, SameInHands
<1>2. Range(netlinkerCh)' = Range(netlinkerCh)
  BY DEF Range
<1>3. NoneTwiceInAPlace'
  BY SameUnread DEF EachMessageOnce, NoneTwiceInAPlace
<1> QED
  BY <1>1, <1>2, <1>3 DEF EachMessageOnce

-----------------------------------------------------------------------------
(* How messages move from place to place.                                  *)
LEMMA ReadMoves ==
    ASSUME NEW all, NEW u, NEW s, NEW c, NEW h, NEW d, NEW M,
           Apart(all, u, s, c, h, d), M \subseteq u
    PROVE  Apart(all, u \ M, s \cup M, c, h, d)
BY DEF Apart

LEMMA SendMoves ==
    ASSUME NEW all, NEW u, NEW s, NEW c, NEW h, NEW d, NEW m,
           Apart(all, u, s, c, h, d), m \in s
    PROVE  Apart(all, u, s \ {m}, c \cup {m}, h, d)
BY DEF Apart

LEMMA TakeMoves ==
    ASSUME NEW all, NEW u, NEW s, NEW c, NEW h, NEW d, NEW m,
           Apart(all, u, s, c, h, d), m \in c
    PROVE  Apart(all, u, s, c \ {m}, h \cup {m}, d)
BY DEF Apart

LEMMA HandleMoves ==
    ASSUME NEW all, NEW u, NEW s, NEW c, NEW h, NEW d, NEW m,
           Apart(all, u, s, c, h, d), m \in h
    PROVE  Apart(all, u, s, c, h \ {m}, d \cup {m})
BY DEF Apart

-----------------------------------------------------------------------------
(* What is to be sent of a datagram behind the message being read.         *)
Rest(n) == {m \in SampledOf(packet[n]) : m.idx >= netlinkMsgCount[n] + 1}

LEMMA AtMessage ==
    ASSUME TypeOK, PollInv, ReadInOrder, NEW n \in Netlinkers,
           netlinkerPc[n] \in {"read", "blocked"}
    PROVE  /\ Type(n) = "data" /\ Sampled(netlinkMsgCount[n]) =>
                 /\ MessageOf(n) \in ToSend(n)
                 /\ Rest(n) = ToSend(n) \ {MessageOf(n)}
           /\ Type(n) = "data" /\ ~Sampled(netlinkMsgCount[n]) =>
                 Rest(n) = ToSend(n)
           /\ Type(n) # "data" => ToSend(n) = {}
           /\ netlinkMsgCount[n] + 1 = Len(packet[n].msgs) => Rest(n) = {}
<1> DEFINE dg == packet[n]
           c == netlinkMsgCount[n]
<1>1. /\ c \in Nat /\ dg \in Datagram /\ dg.msgs \in Seq(MessageType)
      /\ c < Len(dg.msgs) /\ Len(dg.msgs) \in Nat
      /\ startTime[n] = dg.poll
      /\ \A j \in 1 .. c : dg.msgs[j] = "data"
  BY DEF TypeOK, NetlinkerTypeOK, Datagram, PollInv, ReadingInPacket, OneTime, ReadInOrder
<1>2. ToSend(n) = {m \in SampledOf(dg) : m.idx >= c}
  BY DEF ToSend
<1>3. \A m : m \in SampledOf(dg) <=>
         \E k \in 0 .. Len(dg.msgs) - 1 :
            /\ Sampled(k) /\ \A j \in 1 .. k + 1 : dg.msgs[j] = "data"
            /\ m = [poll |-> dg.poll, num |-> dg.num, idx |-> k, time |-> dg.poll]
  BY DEF SampledOf
<1> DEFINE M(k) == [poll |-> dg.poll, num |-> dg.num, idx |-> k, time |-> dg.poll]
<1>4. MessageOf(n) = M(c)
  BY <1>1 DEF MessageOf
<1>5. \A k : M(k).idx = k
  OBVIOUS
<1>6. ASSUME NEW m \in SampledOf(dg)
      PROVE  m.idx \in 0 .. Len(dg.msgs) - 1 /\ m = M(m.idx) /\ Sampled(m.idx)
             /\ \A j \in 1 .. m.idx + 1 : dg.msgs[j] = "data"
  BY <1>3, <1>5
<1> HIDE DEF M
<1>7. Type(n) = "data" /\ Sampled(c) => M(c) \in SampledOf(dg)
  <2> SUFFICES ASSUME Type(n) = "data", Sampled(c) PROVE M(c) \in SampledOf(dg)
    OBVIOUS
  <2>1. c \in 0 .. Len(dg.msgs) - 1
    BY <1>1
  <2>2. \A j \in 1 .. c + 1 : dg.msgs[j] = "data"
    BY <1>1 DEF Type
  <2> QED
    BY <1>3, <2>1, <2>2 DEF M
<1>8. Type(n) = "data" /\ Sampled(c) =>
         MessageOf(n) \in ToSend(n) /\ Rest(n) = ToSend(n) \ {MessageOf(n)}
  <2> SUFFICES ASSUME Type(n) = "data", Sampled(c)
               PROVE  M(c) \in ToSend(n) /\ Rest(n) = ToSend(n) \ {M(c)}
    BY <1>4
  <2>1. M(c) \in ToSend(n)
    BY <1>1, <1>2, <1>5, <1>7
  <2>2. ASSUME NEW m \in SampledOf(dg)
        PROVE  m.idx >= c + 1 <=> m.idx >= c /\ m # M(c)
    BY <1>1, <1>5, <1>6
  <2>3. Rest(n) = ToSend(n) \ {M(c)}
    BY <1>2, <2>2 DEF Rest
  <2> QED
    BY <2>1, <2>3
<1>9. Type(n) = "data" /\ ~Sampled(c) => Rest(n) = ToSend(n)
  <2> SUFFICES ASSUME ~Sampled(c) PROVE Rest(n) = ToSend(n)
    OBVIOUS
  <2>1. ASSUME NEW m \in SampledOf(dg)
        PROVE  m.idx >= c + 1 <=> m.idx >= c
    <3>1. m.idx # c /\ m.idx \in Nat
      BY <1>6
    <3> QED
      BY <1>1, <3>1
  <2> QED
    BY <1>2, <2>1 DEF Rest
<1>10. Type(n) # "data" => ToSend(n) = {}
  <2> SUFFICES ASSUME Type(n) # "data", NEW m \in SampledOf(dg), m.idx >= c PROVE FALSE
    BY <1>2
  <2>1. c + 1 \in 1 .. m.idx + 1
    BY <1>1, <1>6
  <2> QED
    BY <1>6, <2>1 DEF Type
<1>11. c + 1 = Len(dg.msgs) => Rest(n) = {}
  <2> SUFFICES ASSUME c + 1 = Len(dg.msgs), NEW m \in SampledOf(dg), m.idx >= c + 1 PROVE FALSE
    BY DEF Rest
  <2> QED
    BY <1>1, <1>6
<1> QED
  BY <1>8, <1>9, <1>10, <1>11

(* A netlinker moves, the others do not.                                   *)
LEMMA OthersToSend ==
    ASSUME TypeOK, NEW n \in Netlinkers, NEW pc, NEW p, NEW c,
           netlinkerPc' = [netlinkerPc EXCEPT ![n] = pc],
           packet' = [packet EXCEPT ![n] = p],
           netlinkMsgCount' = [netlinkMsgCount EXCEPT ![n] = c]
    PROVE  /\ \A k \in Netlinkers \ {n} :
                 /\ netlinkerPc'[k] = netlinkerPc[k] /\ packet'[k] = packet[k]
                 /\ netlinkMsgCount'[k] = netlinkMsgCount[k]
                 /\ ToSend(k)' = ToSend(k)
           /\ netlinkerPc'[n] = pc /\ packet'[n] = p /\ netlinkMsgCount'[n] = c
<1>1. \A k \in Netlinkers \ {n} :
         /\ netlinkerPc'[k] = netlinkerPc[k] /\ packet'[k] = packet[k]
         /\ netlinkMsgCount'[k] = netlinkMsgCount[k]
  BY DEF TypeOK, NetlinkerTypeOK
<1>2. netlinkerPc'[n] = pc /\ packet'[n] = p /\ netlinkMsgCount'[n] = c
  BY DEF TypeOK, NetlinkerTypeOK
<1> QED
  BY <1>1, <1>2, SameToSend

LEMMA NextDatagramToSend ==
    ASSUME TypeOK, ReadInOrder, NEW n \in Netlinkers, NextDatagram(n)
    PROVE  /\ ToSend(n)' = {}
           /\ \A k \in Netlinkers \ {n} : ToSend(k)' = ToSend(k)
           /\ ReadInOrder'
<1>1. /\ \A k \in Netlinkers \ {n} :
             /\ netlinkerPc'[k] = netlinkerPc[k] /\ packet'[k] = packet[k]
             /\ netlinkMsgCount'[k] = netlinkMsgCount[k]
             /\ ToSend(k)' = ToSend(k)
      /\ netlinkerPc'[n] = "recvfrom"
  BY OthersToSend DEF NextDatagram, Goto
<1>2. ToSend(n)' = {}
  BY <1>1 DEF ToSend
<1>3. ReadInOrder'
  BY <1>1 DEF ReadInOrder, Type, Sampled
<1> QED
  BY <1>1, <1>2, <1>3

LEMMA NextMessageToSend ==
    ASSUME TypeOK, PollInv, ReadInOrder, NEW n \in Netlinkers,
           netlinkerPc[n] \in {"read", "blocked"}, Type(n) = "data",
           NextMessage(n)
    PROVE  /\ ToSend(n)' = Rest(n)
           /\ \A k \in Netlinkers \ {n} : ToSend(k)' = ToSend(k)
           /\ ReadInOrder'
<1>1. CASE NextDatagram(n)
  <2>1. netlinkMsgCount[n] + 1 = Len(packet[n].msgs)
    <3>1. netlinkMsgCount'[n] = 0 /\ netlinkMsgCount[n] \in Nat
      BY <1>1 DEF NextDatagram, TypeOK, NetlinkerTypeOK
    <3>2. netlinkMsgCount' # [netlinkMsgCount EXCEPT ![n] = @ + 1]
      BY <3>1 DEF TypeOK, NetlinkerTypeOK
    <3> QED
      BY <3>2 DEF NextMessage
  <2> QED
    BY <1>1, <2>1, AtMessage, NextDatagramToSend
<1>2. CASE ~NextDatagram(n)
  <2>1. /\ netlinkMsgCount' =
              [netlinkMsgCount EXCEPT ![n] = netlinkMsgCount[n] + 1]
        /\ netlinkerPc' = [netlinkerPc EXCEPT ![n] = "read"]
        /\ packet' = [packet EXCEPT ![n] = packet[n]]
    BY <1>2 DEF NextMessage, Goto, TypeOK, NetlinkerTypeOK
  <2>2. /\ \A k \in Netlinkers \ {n} :
             /\ netlinkerPc'[k] = netlinkerPc[k] /\ packet'[k] = packet[k]
             /\ netlinkMsgCount'[k] = netlinkMsgCount[k]
             /\ ToSend(k)' = ToSend(k)
        /\ netlinkerPc'[n] = "read" /\ packet'[n] = packet[n]
        /\ netlinkMsgCount'[n] = netlinkMsgCount[n] + 1
    BY <2>1, OthersToSend, Zenon
  <2>3. ToSend(n)' = Rest(n)
    BY <2>2 DEF ToSend, Rest, SampledOf, Sampled
  <2>4. \A j \in 1 .. netlinkMsgCount'[n] : packet'[n].msgs[j] = "data"
    <3>1. netlinkMsgCount[n] \in Nat
      BY DEF TypeOK, NetlinkerTypeOK
    <3>2. \A j \in 1 .. netlinkMsgCount[n] : packet[n].msgs[j] = "data"
      BY DEF ReadInOrder
    <3> QED
      BY <2>2, <3>1, <3>2 DEF Type
  <2>5. ReadInOrder'
    BY <2>2, <2>4 DEF ReadInOrder, Type, Sampled
  <2> QED
    BY <2>2, <2>3, <2>5
<1> QED
  BY <1>1, <1>2

(* A netlinker has less to send, or more that no other has.                *)
LEMMA LessToBeSent ==
    ASSUME NEW n \in Netlinkers, NEW M, M \subseteq ToSend(n),
           ToSend(n)' = ToSend(n) \ M,
           \A k \in Netlinkers \ {n} : ToSend(k)' = ToSend(k),
           \A j, k \in Netlinkers : j # k => ToSend(j) \cap ToSend(k) = {}
    PROVE  /\ ToBeSent' = ToBeSent \ M
           /\ \A j, k \in Netlinkers : j # k => ToSend(j)' \cap ToSend(k)' = {}
<1>1. \A j, k \in Netlinkers : j # k => ToSend(j)' \cap ToSend(k)' = {}
  OBVIOUS
<1>2. ASSUME NEW m PROVE m \in ToBeSent' <=> m \in ToBeSent \ M
  <2>1. m \in ToBeSent' <=> \E k \in Netlinkers : m \in ToSend(k)'
    BY DEF ToBeSent
  <2>2. m \in ToBeSent <=> \E k \in Netlinkers : m \in ToSend(k)
    BY DEF ToBeSent
  <2>3. m \in M => \A k \in Netlinkers \ {n} : m \notin ToSend(k)
    OBVIOUS
  <2> QED
    BY <2>1, <2>2, <2>3
<1> QED
  BY <1>1, <1>2

LEMMA MoreToBeSent ==
    ASSUME NEW n \in Netlinkers, NEW M, M \cap ToBeSent = {},
           ToSend(n) = {}, ToSend(n)' = M,
           \A k \in Netlinkers \ {n} : ToSend(k)' = ToSend(k),
           \A j, k \in Netlinkers : j # k => ToSend(j) \cap ToSend(k) = {}
    PROVE  /\ ToBeSent' = ToBeSent \cup M
           /\ \A j, k \in Netlinkers : j # k => ToSend(j)' \cap ToSend(k)' = {}
<1>0. \A k \in Netlinkers : ToSend(k) \subseteq ToBeSent
  BY DEF ToBeSent
<1>1. \A j, k \in Netlinkers : j # k => ToSend(j)' \cap ToSend(k)' = {}
  BY <1>0
<1>2. ASSUME NEW m PROVE m \in ToBeSent' <=> m \in ToBeSent \cup M
  <2>1. m \in ToBeSent' <=> \E k \in Netlinkers : m \in ToSend(k)'
    BY DEF ToBeSent
  <2>2. m \in ToBeSent <=> \E k \in Netlinkers : m \in ToSend(k)
    BY DEF ToBeSent
  <2> QED
    BY <2>1, <2>2
<1> QED
  BY <1>1, <1>2

-----------------------------------------------------------------------------
(* The channel.                                                            *)
LEMMA AppendOnce ==
    ASSUME NEW S, NEW s \in Seq(S), NEW m \in S, m \notin Range(s),
           \A i, j \in DOMAIN s : s[i] = s[j] => i = j
    PROVE  /\ Range(Append(s, m)) = Range(s) \cup {m}
           /\ \A i, j \in DOMAIN Append(s, m) :
                 Append(s, m)[i] = Append(s, m)[j] => i = j
<1>1. /\ Len(s) \in Nat /\ DOMAIN s = 1 .. Len(s)
      /\ DOMAIN Append(s, m) = 1 .. Len(s) + 1
      /\ \A i \in 1 .. Len(s) : Append(s, m)[i] = s[i]
      /\ Append(s, m)[Len(s) + 1] = m
  OBVIOUS
<1>2. \A i \in 1 .. Len(s) : s[i] # m
  BY <1>1 DEF Range
<1>3. \A i \in 1 .. Len(s) + 1 : i \in 1 .. Len(s) \/ i = Len(s) + 1
  BY <1>1
<1>4. \A i, j \in DOMAIN Append(s, m) :
         Append(s, m)[i] = Append(s, m)[j] => i = j
  BY <1>1, <1>2, <1>3
<1>5. Range(Append(s, m)) = Range(s) \cup {m}
  <2>1. ASSUME NEW x PROVE x \in Range(Append(s, m)) <=> x \in Range(s) \cup {m}
    <3>1. x \in Range(Append(s, m)) <=> \E i \in 1 .. Len(s) + 1 : x = Append(s, m)[i]
      BY <1>1 DEF Range
    <3>2. x \in Range(s) <=> \E i \in 1 .. Len(s) : x = s[i]
      BY <1>1 DEF Range
    <3>3. Len(s) + 1 \in 1 .. Len(s) + 1 /\ 1 .. Len(s) \subseteq 1 .. Len(s) + 1
      BY <1>1
    <3> QED
      BY <1>1, <1>3, <3>1, <3>2, <3>3
  <2> QED
    BY <2>1
<1> QED
  BY <1>4, <1>5

LEMMA TailOnce ==
    ASSUME NEW S, NEW s \in Seq(S), s # <<>>,
           \A i, j \in DOMAIN s : s[i] = s[j] => i = j
    PROVE  /\ Head(s) \in Range(s)
           /\ Range(Tail(s)) = Range(s) \ {Head(s)}
           /\ \A i, j \in DOMAIN Tail(s) : Tail(s)[i] = Tail(s)[j] => i = j
<1>1. /\ Len(s) \in Nat \ {0} /\ DOMAIN s = 1 .. Len(s)
      /\ DOMAIN Tail(s) = 1 .. Len(s) - 1
      /\ \A i \in 1 .. Len(s) - 1 : Tail(s)[i] = s[i + 1]
      /\ Head(s) = s[1]
  OBVIOUS
<1>2. \A i \in 1 .. Len(s) - 1 : i + 1 \in 1 .. Len(s) /\ i + 1 # 1
  BY <1>1
<1>3. \A i, j \in DOMAIN Tail(s) : Tail(s)[i] = Tail(s)[j] => i = j
  BY <1>1, <1>2
<1>4. Head(s) \in Range(s)
  BY <1>1 DEF Range
<1>5. Range(Tail(s)) = Range(s) \ {Head(s)}
  <2>1. ASSUME NEW x PROVE x \in Range(Tail(s)) <=> x \in Range(s) \ {Head(s)}
    <3>1. x \in Range(Tail(s)) <=> \E i \in 1 .. Len(s) - 1 : x = s[i + 1]
      <4>1. x \in Range(Tail(s)) <=> \E i \in DOMAIN Tail(s) : x = Tail(s)[i]
        BY Zenon DEF Range
      <4> QED
        BY <1>1, <4>1, Zenon
    <3>2. x \in Range(s) <=> \E i \in 1 .. Len(s) : x = s[i]
      BY <1>1 DEF Range
    <3>3. \A i \in 1 .. Len(s) : i = 1 \/ (i - 1 \in 1 .. Len(s) - 1 /\ (i - 1) + 1 = i)
      BY <1>1
    <3>4. \A i \in 1 .. Len(s) - 1 : s[i + 1] # s[1]
      BY <1>1, <1>2
    <3> QED
      BY <1>1, <1>2, <3>1, <3>2, <3>3, <3>4
  <2> QED
    BY <2>1
<1> QED
  BY <1>3, <1>4, <1>5

-----------------------------------------------------------------------------
(* What a netlinker sends leaves what it has to send for the channel.      *)
LEMMA SendOnce ==
    ASSUME TypeOK, PollInv, ReadInOrder, EachMessageOnce, NEW n \in Netlinkers,
           netlinkerPc[n] \in {"read", "blocked"}, Type(n) = "data",
           Sampled(netlinkMsgCount[n]), Send(MessageOf(n)), NextMessage(n),
           UNCHANGED <<socketVars, inetdiagerVars>>
    PROVE  ReadInOrder' /\ EachMessageOnce'
<1> DEFINE m == MessageOf(n)
<1>1. /\ m \in ToSend(n)
      /\ ToSend(n)' = ToSend(n) \ {m}
      /\ \A k \in Netlinkers \ {n} : ToSend(k)' = ToSend(k)
      /\ ReadInOrder'
  BY AtMessage, NextMessageToSend
<1>2. /\ Apart(AllSampled, Unread, ToBeSent, Range(netlinkerCh), InHands, handled)
      /\ NoneTwiceInAPlace
  BY EachMessageOnceIsApart
<1>3. /\ ToBeSent' = ToBeSent \ {m}
      /\ \A j, k \in Netlinkers : j # k => ToSend(j)' \cap ToSend(k)' = {}
  <2>1. \A j, k \in Netlinkers : j # k => ToSend(j) \cap ToSend(k) = {}
    BY <1>2 DEF NoneTwiceInAPlace
  <2> DEFINE M == {m}
  <2>2. M \subseteq ToSend(n) /\ ToSend(n)' = ToSend(n) \ M
    BY <1>1
  <2> HIDE DEF M
  <2>3. /\ ToBeSent' = ToBeSent \ M
        /\ \A j, k \in Netlinkers : j # k => ToSend(j)' \cap ToSend(k)' = {}
    BY <1>1, <2>1, <2>2, LessToBeSent
  <2> QED
    BY <2>3 DEF M
<1>4. m \in ToBeSent
  BY <1>1 DEF ToBeSent
<1>5. m \notin Range(netlinkerCh)
  BY <1>2, <1>4 DEF Apart
<1>6. /\ netlinkerCh' = Append(netlinkerCh, m)
      /\ netlinkerCh \in Seq(Message) /\ m \in Message
  BY MessageOfType DEF Send, TypeOK, ChannelsTypeOK
<1>7. /\ Range(netlinkerCh') = Range(netlinkerCh) \cup {m}
      /\ \A i, j \in DOMAIN netlinkerCh' : netlinkerCh'[i] = netlinkerCh'[j] => i = j
  BY <1>2, <1>5, <1>6, AppendOnce DEF NoneTwiceInAPlace
<1>8. Range(netlinkerCh)' = Range(netlinkerCh')
  BY DEF Range
<1>9. /\ AllSampled' = AllSampled /\ Unread' = Unread
      /\ \A i \in DOMAIN socket : SampledOf(socket[i])' = SampledOf(socket[i])
      /\ socket' = socket
  BY SameAllSampled, SameUnread DEF socketVars
<1>10. /\ BusyInetdiagers' = BusyInetdiagers /\ inHand' = inHand
       /\ InHands' = InHands /\ handled' = handled
  BY SameInHands DEF BusyInetdiagers, Busy, inetdiagerVars
<1>11. Apart(AllSampled', Unread', ToBeSent', Range(netlinkerCh)', InHands', handled')
  BY <1>2, <1>3, <1>4, <1>7, <1>8, <1>9, <1>10, SendMoves
<1>12. NoneTwiceInAPlace'
  BY <1>2, <1>3, <1>7, <1>9, <1>10 DEF NoneTwiceInAPlace
<1> QED
  BY <1>1, <1>11, <1>12 DEF EachMessageOnce, Apart

(* The messages of the datagram that a netlinker receives become those it  *)
(* has to send.                                                            *)
LEMMA HeadUnread ==
    ASSUME socket # <<>>, socket \in Seq(Datagram), socket' = Tail(socket),
           NoneTwiceInAPlace
    PROVE  /\ SampledOf(Head(socket)) \subseteq Unread
           /\ Unread' = Unread \ SampledOf(Head(socket))
           /\ \A i, j \in DOMAIN socket' :
                 i # j => SampledOf(socket'[i]) \cap SampledOf(socket'[j]) = {}
<1>1. /\ Len(socket) \in Nat \ {0} /\ DOMAIN socket = 1 .. Len(socket)
      /\ DOMAIN socket' = 1 .. Len(socket) - 1
      /\ \A i \in 1 .. Len(socket) - 1 : socket'[i] = socket[i + 1]
      /\ Head(socket) = socket[1]
  OBVIOUS
<1>2. \A i \in 1 .. Len(socket) - 1 : i + 1 \in 1 .. Len(socket) /\ i + 1 # 1
  BY <1>1
<1>3. \A i, j \in 1 .. Len(socket) :
         i # j => SampledOf(socket[i]) \cap SampledOf(socket[j]) = {}
  BY <1>1 DEF NoneTwiceInAPlace
<1>4. \A i, j \in DOMAIN socket' :
         i # j => SampledOf(socket'[i]) \cap SampledOf(socket'[j]) = {}
  <2> SUFFICES ASSUME NEW i \in DOMAIN socket', NEW j \in DOMAIN socket', i # j
               PROVE  SampledOf(socket'[i]) \cap SampledOf(socket'[j]) = {}
    OBVIOUS
  <2>1. i + 1 \in 1 .. Len(socket) /\ j + 1 \in 1 .. Len(socket) /\ i + 1 # j + 1
    BY <1>1
  <2>2. socket'[i] = socket[i + 1] /\ socket'[j] = socket[j + 1]
    BY <1>1
  <2> QED
    BY <1>3, <2>1, <2>2
<1>5. ASSUME NEW m PROVE m \in Unread' <=> m \in Unread \ SampledOf(Head(socket))
  <2>1. m \in Unread <=> \E i \in 1 .. Len(socket) : m \in SampledOf(socket[i])
    BY <1>1 DEF Unread
  <2>2. m \in Unread' <=> \E i \in 1 .. Len(socket) - 1 : m \in SampledOf(socket[i + 1])
    <3>1. m \in Unread' <=> \E i \in DOMAIN socket' : m \in SampledOf(socket'[i])
      BY DEF Unread, SampledOf, Sampled
    <3> QED
      BY <1>1, <3>1
  <2>3. \A i \in 1 .. Len(socket) : i = 1 \/ (i - 1 \in 1 .. Len(socket) - 1 /\ (i - 1) + 1 = i)
    BY <1>1
  <2>4. \A i \in 1 .. Len(socket) - 1 : SampledOf(socket[i + 1]) \cap SampledOf(socket[1]) = {}
    BY <1>1, <1>2, <1>3
  <2> QED
    BY <1>1, <1>2, <2>1, <2>2, <2>3, <2>4
<1>6. SampledOf(Head(socket)) \subseteq Unread
  BY <1>1 DEF Unread
<1> QED
  BY <1>4, <1>5, <1>6

LEMMA RecvDatagramOnce ==
    ASSUME TypeOK, PollInv, ReadInOrder, EachMessageOnce, NEW n \in Netlinkers,
           RecvDatagram(n), UNCHANGED inetdiagerVars
    PROVE  ReadInOrder' /\ EachMessageOnce'
<1> DEFINE D == SampledOf(Head(socket))
<1>1. /\ Apart(AllSampled, Unread, ToBeSent, Range(netlinkerCh), InHands, handled)
      /\ NoneTwiceInAPlace
  BY EachMessageOnceIsApart
<1>2. /\ socket \in Seq(Datagram) /\ socket # <<>> /\ socket' = Tail(socket)
      /\ Head(socket) \in Datagram
      /\ netlinkerPc[n] = "recvfrom" /\ netlinkMsgCount[n] = 0
      /\ UNCHANGED <<answers, netlinkerCh>>
  BY RecvfromTypeOK
     DEF RecvDatagram, Recvfrom, TypeOK, SocketTypeOK, PollInv, ReadingInPacket, channelVars
<1>3. /\ \A k \in Netlinkers \ {n} :
             /\ netlinkerPc'[k] = netlinkerPc[k] /\ packet'[k] = packet[k]
             /\ netlinkMsgCount'[k] = netlinkMsgCount[k]
             /\ ToSend(k)' = ToSend(k)
      /\ netlinkerPc'[n] = "read" /\ packet'[n] = Head(socket)
      /\ netlinkMsgCount'[n] = 0
  <2>1. /\ netlinkerPc' = [netlinkerPc EXCEPT ![n] = "read"]
        /\ packet' = [packet EXCEPT ![n] = Head(socket)]
        /\ UNCHANGED netlinkMsgCount
    BY DEF RecvDatagram, Goto
  <2>2. /\ \A k \in Netlinkers \ {n} :
             /\ netlinkerPc'[k] = netlinkerPc[k] /\ packet'[k] = packet[k]
             /\ netlinkMsgCount'[k] = netlinkMsgCount[k]
        /\ netlinkerPc'[n] = "read" /\ packet'[n] = Head(socket)
        /\ netlinkMsgCount'[n] = 0
    BY <1>2, <2>1 DEF TypeOK, NetlinkerTypeOK
  <2> QED
    BY <2>2, SameToSend
<1>4. ReadInOrder'
  BY <1>3 DEF ReadInOrder, Type, Sampled
<1>5. ToSend(n) = {} /\ ToSend(n)' = D
  <2>1. ToSend(n) = {}
    BY <1>2 DEF ToSend
  <2>2. ToSend(n)' = {m \in SampledOf(Head(socket)) : m.idx >= 0}
    BY <1>3 DEF ToSend, SampledOf, Sampled
  <2>3. \A m \in SampledOf(Head(socket)) : m.idx >= 0
    BY DEF SampledOf
  <2> QED
    BY <2>1, <2>2, <2>3
<1>6. /\ D \subseteq Unread /\ Unread' = Unread \ D
      /\ \A i, j \in DOMAIN socket' :
            i # j => SampledOf(socket'[i]) \cap SampledOf(socket'[j]) = {}
  BY <1>1, <1>2, HeadUnread
<1>7. \A dg : SampledOf(dg)' = SampledOf(dg)
  BY DEF SampledOf, Sampled
<1> HIDE DEF D
<1>8. /\ ToBeSent' = ToBeSent \cup D
      /\ \A j, k \in Netlinkers : j # k => ToSend(j)' \cap ToSend(k)' = {}
  <2>1. D \cap ToBeSent = {}
    BY <1>1, <1>6 DEF Apart
  <2>2. \A j, k \in Netlinkers : j # k => ToSend(j) \cap ToSend(k) = {}
    BY <1>1 DEF NoneTwiceInAPlace
  <2> QED
    BY <1>3, <1>5, <2>1, <2>2, MoreToBeSent
<1>9. /\ AllSampled' = AllSampled /\ Range(netlinkerCh)' = Range(netlinkerCh)
      /\ BusyInetdiagers' = BusyInetdiagers /\ inHand' = inHand
      /\ InHands' = InHands /\ handled' = handled
  BY <1>2, SameAllSampled, SameInHands DEF Range, BusyInetdiagers, Busy, inetdiagerVars
<1>10. Apart(AllSampled', Unread', ToBeSent', Range(netlinkerCh)', InHands', handled')
  BY <1>1, <1>6, <1>8, <1>9, ReadMoves
<1>11. NoneTwiceInAPlace'
  BY <1>1, <1>2, <1>6, <1>7, <1>8, <1>9 DEF NoneTwiceInAPlace, SampledOf, Sampled
<1> QED
  BY <1>4, <1>10, <1>11 DEF EachMessageOnce, Apart

(* A netlinker that sends nothing, and has as much to send as before.      *)
LEMMA NothingSent ==
    ASSUME TypeOK, EachMessageOnce, NEW n \in Netlinkers,
           ToSend(n)' = ToSend(n),
           \A k \in Netlinkers \ {n} : ToSend(k)' = ToSend(k),
           UNCHANGED <<socketVars, netlinkerCh, inetdiagerVars>>
    PROVE  EachMessageOnce'
<1>1. \A k \in Netlinkers : ToSend(k)' = ToSend(k)
  OBVIOUS
<1>2. BusyInetdiagers' = BusyInetdiagers
  BY DEF BusyInetdiagers, Busy, inetdiagerVars
<1> QED
  BY <1>1, <1>2, NoMessageMoves DEF socketVars, inetdiagerVars

LEMMA NetlinkerStepOnce ==
    ASSUME TypeOK, PollInv, ReadInOrder, EachMessageOnce, NEW n \in Netlinkers,
           NetlinkerStepOf(n)
    PROVE  ReadInOrder' /\ EachMessageOnce'
<1>0. NetlinkerStep(n) /\ UNCHANGED inetdiagerVars
  BY DEF NetlinkerStepOf
<1>1. CASE RecvDatagram(n)
  BY <1>0, <1>1, RecvDatagramOnce
(* Its place changes, where it is in its datagram does not.                *)
<1>2. ASSUME NEW pc, Goto(n, pc),
             UNCHANGED <<packet, netlinkMsgCount, netlinkerCh, socketVars>>,
             pc \notin {"read", "blocked"} => ToSend(n) = {},
             pc \in {"read", "blocked"} =>
                /\ netlinkerPc[n] \in {"read", "blocked"}
                /\ Type(n) = "data" /\ Sampled(netlinkMsgCount[n])
      PROVE  ReadInOrder' /\ EachMessageOnce'
  <2>1. /\ netlinkerPc'[n] = pc
        /\ \A k \in Netlinkers \ {n} : netlinkerPc'[k] = netlinkerPc[k]
    BY <1>2 DEF Goto, TypeOK, NetlinkerTypeOK
  <2>2. \A k \in Netlinkers \ {n} : ToSend(k)' = ToSend(k)
    BY <1>2, <2>1, SameToSend
  <2>3. ToSend(n)' = ToSend(n)
    <3>1. CASE pc \in {"read", "blocked"}
      <4>1. netlinkerPc[n] \in {"read", "blocked"} /\ netlinkerPc'[n] \in {"read", "blocked"}
        BY <1>2, <2>1, <3>1
      <4>2. packet' = packet /\ netlinkMsgCount' = netlinkMsgCount
        BY <1>2
      <4> QED
        BY <4>1, <4>2 DEF ToSend, SampledOf, Sampled
    <3>2. CASE pc \notin {"read", "blocked"}
      BY <1>2, <2>1, <3>2 DEF ToSend
    <3> QED
      BY <3>1, <3>2
  <2>4. ReadInOrder'
    <3>1. ASSUME NEW k \in Netlinkers \ {n}
          PROVE  netlinkerPc'[k] = netlinkerPc[k] /\ Type(k)' = Type(k)
      BY <1>2, <2>1 DEF Type
    <3>2. Type(n)' = Type(n)
      BY <1>2 DEF Type
    <3>3. /\ netlinkerPc'[n] \in {"read", "blocked"} => netlinkerPc[n] \in {"read", "blocked"}
          /\ netlinkerPc'[n] = "blocked" => Type(n) = "data" /\ Sampled(netlinkMsgCount[n])
      BY <1>2, <2>1
    <3>4. packet' = packet /\ netlinkMsgCount' = netlinkMsgCount
      BY <1>2
    <3> QED
      BY <3>1, <3>2, <3>3, <3>4 DEF ReadInOrder, Sampled
  <2> QED
    BY <1>0, <1>2, <2>2, <2>3, <2>4, NothingSent
<1>3. CASE RecvTemporary(n) \/ ReturnNetlinker(n)
  <2>1. ToSend(n) = {}
    BY <1>3 DEF RecvTemporary, ReturnNetlinker, ToSend
  <2> QED
    BY <1>2, <1>3, <2>1
       DEF RecvTemporary, RecvfromTimesOut, ReturnNetlinker, SendToStater, channelVars
<1>4. CASE SkipMessage(n)
  <2>1. /\ netlinkerPc[n] = "read" /\ Type(n) = "data" /\ ~Sampled(netlinkMsgCount[n])
        /\ NextMessage(n) /\ UNCHANGED <<socketVars, netlinkerCh>>
    BY <1>4 DEF SkipMessage, ReadData, channelVars
  <2>2. /\ ToSend(n)' = ToSend(n)
        /\ \A k \in Netlinkers \ {n} : ToSend(k)' = ToSend(k)
        /\ ReadInOrder'
    BY <2>1, AtMessage, NextMessageToSend
  <2> QED
    BY <1>0, <2>1, <2>2, NothingSent
<1>5. CASE SendMessage(n)
  BY <1>0, <1>5, SendOnce DEF SendMessage, ReadData
<1>6. CASE SendWouldBlock(n)
  BY <1>2, <1>6 DEF SendWouldBlock, ReadData, channelVars
<1>7. CASE SendBlocked(n)
  <2>1. Type(n) = "data" /\ Sampled(netlinkMsgCount[n])
    BY <1>7 DEF SendBlocked, ReadInOrder
  <2> QED
    BY <1>0, <1>7, <2>1, SendOnce DEF SendBlocked
<1>8. CASE ReadControl(n)
  <2>1. /\ netlinkerPc[n] = "read" /\ Type(n) # "data"
        /\ NextDatagram(n) /\ UNCHANGED <<socketVars, netlinkerCh>>
    BY <1>8 DEF ReadControl, channelVars
  <2>2. /\ ToSend(n)' = ToSend(n)
        /\ \A k \in Netlinkers \ {n} : ToSend(k)' = ToSend(k)
        /\ ReadInOrder'
    BY <2>1, AtMessage, NextDatagramToSend
  <2> QED
    BY <1>0, <2>1, <2>2, NothingSent
<1>9. CASE ReadDone(n)
  <2>1. ToSend(n) = {}
    BY <1>9, AtMessage DEF ReadDone
  <2> QED
    BY <1>2, <1>9, <2>1 DEF ReadDone, channelVars
<1> QED
  BY <1>0, <1>1, <1>3, <1>4, <1>5, <1>6, <1>7, <1>8, <1>9 DEF NetlinkerStep

-----------------------------------------------------------------------------
(* A message taken off the channel is with one inetdiager, and one handled *)
(* with none.                                                              *)
LEMMA InetdiagerStepOnce ==
    ASSUME TypeOK, PollInv, ReadInOrder, EachMessageOnce, NEW i \in Inetdiagers,
           InetdiagerStepOf(i)
    PROVE  ReadInOrder' /\ EachMessageOnce'
<1>0. InetdiagerStep(i) /\ UNCHANGED <<socketVars, netlinkerVars>>
  BY DEF InetdiagerStepOf
<1>1. /\ ReadInOrder'
      /\ \A k \in Netlinkers : ToSend(k)' = ToSend(k)
      /\ AllSampled' = AllSampled /\ Unread' = Unread /\ ToBeSent' = ToBeSent
      /\ socket' = socket
      /\ \A j \in DOMAIN socket : SampledOf(socket[j])' = SampledOf(socket[j])
  <2>1. ReadInOrder'
    BY <1>0 DEF ReadInOrder, Type, Sampled, netlinkerVars
  <2>2. \A k \in Netlinkers : ToSend(k)' = ToSend(k)
    BY <1>0, SameToSend DEF netlinkerVars
  <2> QED
    BY <1>0, <2>1, <2>2, SameAllSampled, SameUnread, SameToBeSent DEF socketVars
<1>2. /\ Apart(AllSampled, Unread, ToBeSent, Range(netlinkerCh), InHands, handled)
      /\ NoneTwiceInAPlace
  BY EachMessageOnceIsApart
<1>3. /\ inetdiagerPc \in [Inetdiagers -> {"off", "range", "stats", "process"}]
      /\ inHand \in [Inetdiagers -> Message]
      /\ netlinkerCh \in Seq(Message)
  BY DEF TypeOK, InetdiagerTypeOK, ChannelsTypeOK
<1>4. CASE TakeMessage(i)
  <2> DEFINE m == Head(netlinkerCh)
  <2>1. /\ netlinkerCh # <<>> /\ netlinkerCh' = Tail(netlinkerCh)
        /\ i \notin BusyInetdiagers /\ BusyInetdiagers' = BusyInetdiagers \cup {i}
        /\ inHand'[i] = m
        /\ \A j \in BusyInetdiagers : inHand'[j] = inHand[j]
        /\ handled' = handled
    BY <1>3, <1>4 DEF TakeMessage, Receive, BusyInetdiagers, Busy
  <2>2. /\ m \in Range(netlinkerCh)
        /\ Range(netlinkerCh') = Range(netlinkerCh) \ {m}
        /\ \A j, k \in DOMAIN netlinkerCh' : netlinkerCh'[j] = netlinkerCh'[k] => j = k
    BY <1>2, <1>3, <2>1, TailOnce DEF NoneTwiceInAPlace
  <2> HIDE DEF m
  <2>3. InHands' = InHands \cup {m} /\ m \notin InHands
    BY <1>2, <2>1, <2>2 DEF InHands, Apart
  <2>4. \A j, k \in BusyInetdiagers' : inHand'[j] = inHand'[k] => j = k
    BY <1>2, <2>1, <2>3 DEF InHands, NoneTwiceInAPlace
  <2>5. Range(netlinkerCh)' = Range(netlinkerCh')
    BY DEF Range
  <2>6. Apart(AllSampled', Unread', ToBeSent', Range(netlinkerCh)', InHands', handled')
    BY <1>1, <1>2, <2>1, <2>2, <2>3, <2>5, TakeMoves
  <2>7. NoneTwiceInAPlace'
    BY <1>1, <1>2, <2>2, <2>4 DEF NoneTwiceInAPlace
  <2> QED
    BY <1>1, <2>6, <2>7 DEF EachMessageOnce, Apart
<1>5. CASE ProcessMessage(i)
  <2> DEFINE m == inHand[i]
  <2>1. /\ i \in BusyInetdiagers /\ BusyInetdiagers' = BusyInetdiagers \ {i}
        /\ \A j \in BusyInetdiagers \ {i} : inHand'[j] = inHand[j]
        /\ handled' = handled \cup {m}
        /\ netlinkerCh' = netlinkerCh
    BY <1>3, <1>5 DEF ProcessMessage, BusyInetdiagers, Busy, channelVars
  <2>2. \A j \in BusyInetdiagers \ {i} : inHand[j] # m
    BY <1>2, <2>1 DEF NoneTwiceInAPlace
  <2>3. m \in InHands /\ InHands' = InHands \ {m}
    BY <2>1, <2>2 DEF InHands
  <2> HIDE DEF m
  <2>4. Range(netlinkerCh)' = Range(netlinkerCh)
    BY <2>1 DEF Range
  <2>5. Apart(AllSampled', Unread', ToBeSent', Range(netlinkerCh)', InHands', handled')
    BY <1>1, <1>2, <2>1, <2>3, <2>4, HandleMoves
  <2>6. NoneTwiceInAPlace'
    BY <1>1, <1>2, <2>1 DEF NoneTwiceInAPlace
  <2> QED
    BY <1>1, <2>5, <2>6 DEF EachMessageOnce, Apart
<1>6. CASE SendStats(i) \/ ReturnInetdiager(i)
  <2>1. /\ BusyInetdiagers' = BusyInetdiagers
        /\ UNCHANGED <<netlinkerCh, inHand, handled>>
    BY <1>3, <1>6 DEF SendStats, SendToStater, ReturnInetdiager, BusyInetdiagers,
         Busy, channelVars
  <2> QED
    BY <1>0, <1>1, <2>1, NoMessageMoves DEF socketVars
<1> QED
  BY <1>0, <1>4, <1>5, <1>6 DEF InetdiagerStep

-----------------------------------------------------------------------------
(* Only the Poller asks for dumps and moves itself.                        *)
LEMMA OtherSteps ==
    ASSUME [Next]_vars, ~PollerStep
    PROVE  UNCHANGED <<answers, pollerPc, pollingLoops, workersStarted, startPollTime>>
<1>1. ASSUME NEW n \in Netlinkers, NetlinkerStepOf(n)
      PROVE  UNCHANGED <<answers, pollerPc, pollingLoops, workersStarted, startPollTime>>
  <2>1. UNCHANGED answers
    BY <1>1 DEF NetlinkerStepOf, NetlinkerStep, RecvDatagram, Recvfrom, RecvTemporary,
         RecvfromTimesOut, SkipMessage, SendMessage, SendWouldBlock, SendBlocked,
         ReadControl, ReadDone, ReturnNetlinker, socketVars
  <2> QED
    BY <1>1, <2>1 DEF NetlinkerStepOf, pollerVars
<1>2. ASSUME NEW i \in Inetdiagers, InetdiagerStepOf(i)
      PROVE  UNCHANGED <<answers, pollerPc, pollingLoops, workersStarted, startPollTime>>
  BY <1>2 DEF InetdiagerStepOf, pollerVars, socketVars
<1>3. ASSUME NEW s \in Stater, StaterStep(s)
      PROVE  UNCHANGED <<answers, pollerPc, pollingLoops, workersStarted, startPollTime>>
  BY <1>3 DEF StaterStep, pollerVars, socketVars
<1>4. CASE Tick
  BY <1>4 DEF Tick, socketVars
<1>5. CASE UNCHANGED vars
  BY <1>5 DEF vars, pollerVars, socketVars
<1> QED
  BY <1>1, <1>2, <1>3, <1>4, <1>5 DEF Next, Terminated

(* How often the Poller goes round.                                        *)
LEMMA LoopNumbersStep ==
    ASSUME TypeOK, PollInv, LoopNumbers, [Next]_vars
    PROVE  LoopNumbers'
<1> USE DEF LoopNumbers, MaxLoopsOrForEver
<1>0. /\ pollingLoops \in Nat /\ MaxLoops \in Nat
      /\ pollerPc \in {"for", "workers", "request"} => Len(answers) = pollingLoops
  BY PollerAssumption DEF TypeOK, PollerTypeOK, PollInv, PollNumbers
<1>1. CASE SendPollerStats
  BY <1>0, <1>1 DEF SendPollerStats, PollerGoto, socketVars
<1>2. CASE LeaveLoop
  BY <1>0, <1>2 DEF LeaveLoop, PollerGoto, socketVars
<1>3. CASE StartWorkers
  BY <1>0, <1>3 DEF StartWorkers, PollerGoto, socketVars
<1>4. CASE KeepWorkers
  BY <1>0, <1>4 DEF KeepWorkers, PollerGoto, socketVars
<1>5. CASE SendNetlinkDumpRequest
  BY <1>0, <1>5 DEF SendNetlinkDumpRequest, PollerGoto
<1>6. CASE SpawnNetlinkers
  BY <1>0, <1>6 DEF SpawnNetlinkers, PollerGoto, socketVars
<1>7. CASE \E n \in Netlinkers : ReceiveDone(n)
  BY <1>0, <1>7 DEF ReceiveDone, PollerGoto, socketVars
<1>8. CASE WaitNetlinkers
  BY <1>0, <1>8 DEF WaitNetlinkers, PollerGoto, socketVars
<1>9. CASE CloseChannel
  BY <1>0, <1>9 DEF CloseChannel, PollerGoto, socketVars
<1>10. CASE WaitInetdiagers
  BY <1>0, <1>10 DEF WaitInetdiagers, PollerGoto, socketVars
<1>11. CASE WaitTick
  BY <1>0, <1>11 DEF WaitTick, PollerGoto, socketVars
<1>12. CASE ~PollerStep
  BY <1>12, OtherSteps
<1> QED
  BY <1>1, <1>2, <1>3, <1>4, <1>5, <1>6, <1>7, <1>8, <1>9, <1>10, <1>11, <1>12
     DEF PollerStep

(* A netlinker is at work only while the Poller waits for the DONE or for  *)
(* the netlinkers.                                                         *)
LEMMA NetlinkersAtWork ==
    ASSUME PollInv, NEW n \in Netlinkers, netlinkerPc[n] # "off"
    PROVE  pollerPc \in {"done?", "wait"} /\ workersStarted
BY DEF PollInv, PollStages, WorkersStages, NetlinkersDone

LEMMA WorkersEndStep ==
    ASSUME Inetdiagers # {}, TypeOK, PollInv, WorkersEnd, [Next]_vars
    PROVE  WorkersEnd'
<1> USE DEF WorkersEnd
<1>0. /\ inetdiagerPc \in [Inetdiagers -> {"off", "range", "stats", "process"}]
      /\ workersStarted /\ pollerPc # "join" => ~netlinkerChClosed
  BY DEF TypeOK, InetdiagerTypeOK, PollInv, WorkersStages
<1>1. ASSUME NEW n \in Netlinkers, NetlinkerStepOf(n) PROVE WorkersEnd'
  <2>1. netlinkerPc[n] # "off"
    BY <1>1 DEF NetlinkerStepOf, NetlinkerStep, RecvDatagram, RecvTemporary, SkipMessage,
         SendMessage, ReadData, SendWouldBlock, SendBlocked, ReadControl, ReadDone,
         ReturnNetlinker
  <2>2. pollerPc \in {"done?", "wait"} /\ workersStarted
    BY <2>1, NetlinkersAtWork
  <2> QED
    BY <1>1, <2>2 DEF NetlinkerStepOf, inetdiagerVars, pollerVars, InetdiagersDone
<1>2. ASSUME NEW i \in Inetdiagers, InetdiagerStepOf(i) PROVE WorkersEnd'
  <2>1. workersStarted
    BY <1>2 DEF InetdiagerStepOf, InetdiagerStep, TakeMessage, SendStats,
         ProcessMessage, ReturnInetdiager, InetdiagersDone
  <2>2. UNCHANGED <<pollerPc, workersStarted>>
    BY <1>2 DEF InetdiagerStepOf, pollerVars
  <2>3. CASE TakeMessage(i)
    BY <1>0, <2>1, <2>2, <2>3 DEF TakeMessage, Receive
  <2>4. CASE SendStats(i)
    BY <1>0, <2>1, <2>2, <2>4 DEF SendStats, SendToStater
  <2>5. CASE ProcessMessage(i)
    BY <1>0, <2>1, <2>2, <2>5 DEF ProcessMessage, channelVars
  <2>6. CASE ReturnInetdiager(i)
    BY <1>0, <2>1, <2>2, <2>6 DEF ReturnInetdiager, Drained, channelVars
  <2> QED
    BY <1>2, <2>3, <2>4, <2>5, <2>6 DEF InetdiagerStepOf, InetdiagerStep
<1>3. CASE StartWorkers
  BY <1>3 DEF StartWorkers, PollerGoto, StartInetdiagers, MakeNetlinkerCh
<1>4. CASE WaitInetdiagers
  BY <1>4 DEF WaitInetdiagers, PollerGoto, InetdiagersDone, channelVars, inetdiagerVars
<1>5. ASSUME UNCHANGED <<netlinkerCh, inetdiagerPc, workersStarted>>,
             pollerPc # "join" \/ pollerPc' = pollerPc,
             pollerPc' = "return" => pollerPc = "return" \/ ~workersStarted
      PROVE  WorkersEnd'
  BY <1>5 DEF InetdiagersDone
<1>6. CASE SendPollerStats
  BY <1>5, <1>6 DEF SendPollerStats, PollerGoto, SendToStater, inetdiagerVars
<1>7. CASE LeaveLoop
  BY <1>5, <1>7 DEF LeaveLoop, PollerGoto, channelVars, inetdiagerVars
<1>8. CASE KeepWorkers \/ WaitNetlinkers \/ WaitTick
  BY <1>5, <1>8 DEF KeepWorkers, WaitNetlinkers, WaitTick, PollerGoto, channelVars,
       inetdiagerVars
<1>9. CASE SendNetlinkDumpRequest \/ SpawnNetlinkers
  BY <1>5, <1>9 DEF SendNetlinkDumpRequest, SpawnNetlinkers, PollerGoto, channelVars,
       inetdiagerVars
<1>10. CASE \E n \in Netlinkers : ReceiveDone(n)
  BY <1>5, <1>10 DEF ReceiveDone, PollerGoto, channelVars, inetdiagerVars
<1>11. CASE CloseChannel
  BY <1>5, <1>11 DEF CloseChannel, PollerGoto, CloseNetlinkerCh, inetdiagerVars
<1>12. ASSUME NEW s \in Stater, StaterStep(s) PROVE WorkersEnd'
  BY <1>5, <1>12 DEF StaterStep, StaterReceive, inetdiagerVars, pollerVars
<1>13. CASE Tick \/ UNCHANGED vars
  BY <1>5, <1>13 DEF Tick, vars, channelVars, inetdiagerVars, pollerVars
<1> QED
  BY <1>1, <1>2, <1>3, <1>4, <1>6, <1>7, <1>8, <1>9, <1>10, <1>11, <1>12, <1>13
     DEF Next, PollerStep, Terminated

-----------------------------------------------------------------------------
(* What a dump adds to the messages: the p-th has poll p - 1, its i-th     *)
(* datagram num i.                                                         *)
SampledIn(ds) == UNION {SampledOf(ds[i]) : i \in DOMAIN ds}

SampledFrom(d, p) == UNION {SampledOf(dg) : dg \in Range(Datagrams(d, p - 1))}

LEMMA DumpMessages ==
    ASSUME NEW d \in Dumps, NEW p \in Nat
    PROVE  /\ \A m \in SampledIn(Datagrams(d, p)) : m.poll = p /\ m.time = p
           /\ \A i, j \in DOMAIN Datagrams(d, p) :
                 i # j => SampledOf(Datagrams(d, p)[i])
                             \cap SampledOf(Datagrams(d, p)[j]) = {}
           /\ UNION {SampledOf(dg) : dg \in Range(Datagrams(d, p))}
                 = SampledIn(Datagrams(d, p))
<1>1. DOMAIN Datagrams(d, p) = 1 .. Len(d)
  BY DEF Datagrams
<1>2. \A i \in 1 .. Len(d) : /\ Datagrams(d, p)[i].poll = p
                            /\ Datagrams(d, p)[i].num = i
  BY DEF Datagrams
<1>3. \A dg : \A m \in SampledOf(dg) :
          m.poll = dg.poll /\ m.time = dg.poll /\ m.num = dg.num
  BY DEF SampledOf
<1>4. \A m \in SampledIn(Datagrams(d, p)) : m.poll = p /\ m.time = p
  <2>1. ASSUME NEW i \in 1 .. Len(d), NEW m \in SampledOf(Datagrams(d, p)[i])
        PROVE  m.poll = p /\ m.time = p
    BY <1>2, <1>3
  <2> QED
    BY <1>1, <2>1 DEF SampledIn
<1>5. ASSUME NEW i \in 1 .. Len(d), NEW j \in 1 .. Len(d), i # j,
             NEW m \in SampledOf(Datagrams(d, p)[i]), m \in SampledOf(Datagrams(d, p)[j])
      PROVE  FALSE
  <2>1. m.num = i
    BY <1>2, <1>3
  <2>2. m.num = j
    BY <1>2, <1>3, <1>5
  <2> QED
    BY <1>5, <2>1, <2>2
<1>6. UNION {SampledOf(dg) : dg \in Range(Datagrams(d, p))}
         = SampledIn(Datagrams(d, p))
  BY DEF SampledIn, Range
<1> QED
  BY <1>1, <1>4, <1>5, <1>6

LEMMA DumpAdds ==
    ASSUME NEW d \in Dumps, answers \in Seq(Dumps), answers' = Append(answers, d)
    PROVE  /\ AllSampled' = AllSampled \cup SampledIn(Datagrams(d, Len(answers)))
           /\ AllSampled \cap SampledIn(Datagrams(d, Len(answers))) = {}
<1> DEFINE p == Len(answers)
           D(q, e) == SampledIn(Datagrams(e, q - 1))
<1>1. /\ p \in Nat /\ DOMAIN answers = 1 .. p /\ DOMAIN answers' = 1 .. p + 1
      /\ \A q \in 1 .. p : answers'[q] = answers[q] /\ answers[q] \in Dumps
      /\ answers'[p + 1] = d /\ (p + 1) - 1 = p
      /\ \A q \in 1 .. p + 1 : q \in 1 .. p \/ q = p + 1
      /\ 1 .. p \subseteq 1 .. p + 1 /\ p + 1 \in 1 .. p + 1
  OBVIOUS
<1>2. \A q \in 1 .. p + 1 : answers'[q] \in Dumps /\ q - 1 \in Nat
  BY <1>1
<1>3. ASSUME NEW m PROVE m \in AllSampled <=> \E q \in 1 .. p : m \in D(q, answers[q])
  <2>1. m \in AllSampled <=> \E q \in 1 .. p :
           m \in UNION {SampledOf(dg) : dg \in Range(Datagrams(answers[q], q - 1))}
    BY <1>1 DEF AllSampled, SampledOfDump
  <2>2. \A q \in 1 .. p :
           UNION {SampledOf(dg) : dg \in Range(Datagrams(answers[q], q - 1))}
              = D(q, answers[q])
    BY <1>1, <1>2, DumpMessages
  <2> QED
    BY <2>1, <2>2
<1>4. ASSUME NEW m PROVE m \in AllSampled' <=> \E q \in 1 .. p + 1 : m \in D(q, answers'[q])
  <2>1. m \in AllSampled' <=> \E q \in 1 .. p + 1 : m \in SampledFrom(answers'[q], q)
    <3>1. AllSampled' = UNION {SampledFrom(answers'[q], q) : q \in DOMAIN answers'}
      BY DEF AllSampled, SampledOfDump, SampledFrom, Datagrams, SampledOf, Sampled, Range
    <3> QED
      BY <1>1, <3>1
  <2>2. \A q \in 1 .. p + 1 : SampledFrom(answers'[q], q) = D(q, answers'[q])
    BY <1>2, DumpMessages DEF SampledFrom
  <2> QED
    BY <2>1, <2>2
<1>5. D(p + 1, d) = SampledIn(Datagrams(d, p))
  BY <1>1
<1>6. \A q \in 1 .. p : \A m \in D(q, answers[q]) : m.poll = q - 1
  BY <1>1, <1>2, DumpMessages
<1>7. \A m \in SampledIn(Datagrams(d, p)) : m.poll = p
  BY <1>1, DumpMessages
<1> HIDE DEF D
<1>8. AllSampled' = AllSampled \cup SampledIn(Datagrams(d, p))
  <2>1. ASSUME NEW m
        PROVE  m \in AllSampled' <=> m \in AllSampled \/ m \in D(p + 1, d)
    BY <1>1, <1>3, <1>4
  <2> QED
    BY <1>5, <2>1
<1>9. AllSampled \cap SampledIn(Datagrams(d, p)) = {}
  <2> SUFFICES ASSUME NEW m \in AllSampled, m \in SampledIn(Datagrams(d, p)) PROVE FALSE
    OBVIOUS
  <2>1. PICK q \in 1 .. p : m \in D(q, answers[q])
    BY <1>3
  <2>2. m.poll = q - 1 /\ m.poll = p
    BY <1>6, <1>7, <2>1
  <2> QED
    BY <1>1, <2>2
<1> QED
  BY <1>8, <1>9

LEMMA RequestMoves ==
    ASSUME NEW all, NEW u, NEW s, NEW c, NEW h, NEW d, NEW M,
           Apart(all, u, s, c, h, d), u = {}, M \cap all = {}
    PROVE  Apart(all \cup M, M, s, c, h, d)
BY DEF Apart

LEMMA RequestOnce ==
    ASSUME TypeOK, PollInv, ReadInOrder, EachMessageOnce, SendNetlinkDumpRequest
    PROVE  ReadInOrder' /\ EachMessageOnce'
<1>1. PICK d \in Dumps : /\ answers' = Append(answers, d)
                        /\ socket' = socket \o Datagrams(d, Len(answers))
  BY DEF SendNetlinkDumpRequest, SendDumpRequest
<1> DEFINE ds == Datagrams(d, Len(answers))
           M == SampledIn(ds)
<1>2. /\ Apart(AllSampled, Unread, ToBeSent, Range(netlinkerCh), InHands, handled)
      /\ NoneTwiceInAPlace
  BY EachMessageOnceIsApart
<1>3. answers \in Seq(Dumps) /\ Len(answers) \in Nat /\ ds \in Seq(Datagram)
  BY DatagramsType DEF TypeOK, SocketTypeOK
<1>4. socket = <<>> /\ Unread = {}
  BY DEF SendNetlinkDumpRequest, PollerGoto, PollInv, PollStages, Unread
<1>5. socket' = ds
  BY <1>1, <1>3, <1>4
<1>6. \A i, j \in DOMAIN ds : i # j => SampledOf(ds[i]) \cap SampledOf(ds[j]) = {}
  BY <1>3, DumpMessages
<1>7. AllSampled' = AllSampled \cup M /\ AllSampled \cap M = {}
  BY <1>1, <1>3, DumpAdds
<1> HIDE DEF ds
<1>8. Unread' = M
  BY <1>5 DEF Unread, SampledIn, SampledOf, Sampled
<1> HIDE DEF M
<1>9. UNCHANGED <<channelVars, netlinkerVars, inetdiagerVars>>
  BY DEF SendNetlinkDumpRequest
<1>10. /\ \A k \in Netlinkers : ToSend(k)' = ToSend(k)
       /\ BusyInetdiagers' = BusyInetdiagers /\ inHand' = inHand
       /\ handled' = handled /\ netlinkerCh' = netlinkerCh
       /\ ReadInOrder'
  BY <1>9, SameToSend DEF netlinkerVars, channelVars, inetdiagerVars, BusyInetdiagers,
       Busy, ReadInOrder, Type, Sampled
<1>11. ToBeSent' = ToBeSent /\ InHands' = InHands
       /\ Range(netlinkerCh)' = Range(netlinkerCh)
  BY <1>10, SameToBeSent, SameInHands DEF Range
<1>12. Apart(AllSampled', Unread', ToBeSent', Range(netlinkerCh)', InHands', handled')
  BY <1>2, <1>4, <1>7, <1>8, <1>10, <1>11, RequestMoves
<1>13. NoneTwiceInAPlace'
  <2>1. \A i, j \in DOMAIN socket' : i # j => SampledOf(socket'[i]) \cap SampledOf(socket'[j]) = {}
    BY <1>5, <1>6
  <2>2. \A dg : SampledOf(dg)' = SampledOf(dg)
    BY DEF SampledOf, Sampled
  <2> QED
    BY <1>2, <1>10, <2>1, <2>2 DEF NoneTwiceInAPlace, SampledOf, Sampled
<1> QED
  BY <1>10, <1>12, <1>13 DEF EachMessageOnce, Apart

LEMMA PollerStepOnce ==
    ASSUME TypeOK, PollInv, ReadInOrder, WorkersEnd, EachMessageOnce, PollerStep
    PROVE  ReadInOrder' /\ EachMessageOnce'
<1>1. CASE SendNetlinkDumpRequest
  BY <1>1, RequestOnce
(* A step that leaves the netlinkers, the messages and those who have them.*)
<1>2. ASSUME UNCHANGED <<socketVars, netlinkerCh, netlinkerVars, inHand, handled>>,
             BusyInetdiagers' = BusyInetdiagers
      PROVE  ReadInOrder' /\ EachMessageOnce'
  <2>1. \A k \in Netlinkers : ToSend(k)' = ToSend(k)
    BY <1>2, SameToSend DEF netlinkerVars
  <2>2. ReadInOrder'
    BY <1>2 DEF ReadInOrder, Type, Sampled, netlinkerVars
  <2> QED
    BY <1>2, <2>1, <2>2, NoMessageMoves DEF socketVars
<1>3. ASSUME UNCHANGED inetdiagerVars
      PROVE  BusyInetdiagers' = BusyInetdiagers /\ UNCHANGED <<inHand, handled>>
  BY <1>3 DEF BusyInetdiagers, Busy, inetdiagerVars
<1>4. CASE SendPollerStats
  BY <1>2, <1>3, <1>4 DEF SendPollerStats, SendToStater
<1>5. CASE LeaveLoop \/ KeepWorkers \/ WaitNetlinkers
  BY <1>2, <1>3, <1>5 DEF LeaveLoop, KeepWorkers, WaitNetlinkers, channelVars
<1>6. CASE WaitInetdiagers \/ WaitTick
  BY <1>2, <1>3, <1>6 DEF WaitInetdiagers, WaitTick, channelVars
<1>7. CASE CloseChannel
  BY <1>2, <1>3, <1>7 DEF CloseChannel, CloseNetlinkerCh
<1>8. CASE StartWorkers
  <2>1. netlinkerCh = <<>> /\ BusyInetdiagers = {}
    BY <1>8 DEF StartWorkers, WorkersEnd, InetdiagersDone, BusyInetdiagers, Busy
  <2>2. netlinkerCh' = <<>> /\ BusyInetdiagers' = {}
    BY <1>8 DEF StartWorkers, MakeNetlinkerCh, StartInetdiagers, BusyInetdiagers, Busy
  <2> QED
    BY <1>2, <1>8, <2>1, <2>2 DEF StartWorkers, StartInetdiagers
<1>9. CASE SpawnNetlinkers
  <2>1. \A n \in Netlinkers : netlinkerPc[n] = "off" /\ netlinkerPc'[n] = "recvfrom"
    BY <1>9 DEF SpawnNetlinkers, PollerGoto, StartNetlinkers, PollInv, PollStages,
         NetlinkersDone
  <2>2. \A n \in Netlinkers : ToSend(n)' = ToSend(n)
    BY <2>1 DEF ToSend
  <2>3. ReadInOrder'
    BY <2>1 DEF ReadInOrder, Type, Sampled
  <2>4. BusyInetdiagers' = BusyInetdiagers /\ UNCHANGED <<inHand, handled>>
    BY <1>3, <1>9 DEF SpawnNetlinkers
  <2> QED
    BY <1>9, <2>2, <2>3, <2>4, NoMessageMoves
       DEF SpawnNetlinkers, socketVars, channelVars
<1>10. CASE \E n \in Netlinkers : ReceiveDone(n)
  <2> PICK n \in Netlinkers : ReceiveDone(n)
    BY <1>10
  <2>1. /\ netlinkerPc[n] = "sendDone" /\ NextDatagram(n)
        /\ UNCHANGED <<socketVars, channelVars, inetdiagerVars>>
    BY DEF ReceiveDone, SignalDone
  <2>2. ToSend(n) = {}
    BY <2>1 DEF ToSend
  <2>3. /\ ToSend(n)' = ToSend(n)
        /\ \A k \in Netlinkers \ {n} : ToSend(k)' = ToSend(k)
        /\ ReadInOrder'
    BY <2>1, <2>2, NextDatagramToSend
  <2> QED
    BY <2>1, <2>3, NothingSent DEF channelVars
<1> QED
  BY <1>1, <1>4, <1>5, <1>6, <1>7, <1>8, <1>9, <1>10 DEF PollerStep

LEMMA MessagesStep ==
    ASSUME TypeOK, PollInv, ReadInOrder, WorkersEnd, EachMessageOnce, [Next]_vars
    PROVE  ReadInOrder' /\ EachMessageOnce'
<1>1. ASSUME UNCHANGED <<socketVars, netlinkerCh, netlinkerVars, inetdiagerVars>>
      PROVE  ReadInOrder' /\ EachMessageOnce'
  <2>1. \A k \in Netlinkers : ToSend(k)' = ToSend(k)
    BY <1>1, SameToSend DEF netlinkerVars
  <2>2. ReadInOrder'
    BY <1>1 DEF ReadInOrder, Type, Sampled, netlinkerVars
  <2>3. BusyInetdiagers' = BusyInetdiagers
    BY <1>1 DEF BusyInetdiagers, Busy, inetdiagerVars
  <2> QED
    BY <1>1, <2>1, <2>2, <2>3, NoMessageMoves DEF socketVars, inetdiagerVars
<1>2. ASSUME NEW s \in Stater, StaterStep(s) PROVE ReadInOrder' /\ EachMessageOnce'
  BY <1>1, <1>2 DEF StaterStep, StaterReceive
<1>3. CASE Tick \/ UNCHANGED vars
  BY <1>1, <1>3 DEF Tick, vars, channelVars
<1> QED
  BY <1>2, <1>3, PollerStepOnce, NetlinkerStepOnce, InetdiagerStepOnce
     DEF Next, Terminated

-----------------------------------------------------------------------------
(* A dump that comes to its DONE has it in its last datagram.              *)
LEMMA DumpOnSocket ==
    ASSUME NEW d \in Dumps, NEW p \in Nat, d # <<>>
    PROVE  /\ Datagrams(d, p) # <<>>
           /\ Datagrams(d, p)[Len(Datagrams(d, p))].msgs = d[Len(d)]
<1>1. d \in Seq(Seq(MessageType)) /\ Len(d) \in Nat
  BY SocketAssumption DEF IsDump
<1>2. Datagrams(d, p) \in Seq(Datagram)
  BY DatagramsType
<1>3. DOMAIN Datagrams(d, p) = 1 .. Len(d) /\ Len(Datagrams(d, p)) = Len(d)
  BY <1>1, <1>2 DEF Datagrams
<1>4. Len(d) \in 1 .. Len(d)
  BY <1>1
<1> QED
  BY <1>1, <1>3, <1>4 DEF Datagrams

(* A netlinker that has the DONE in its datagram reads data until it is    *)
(* there, and so stays in that datagram.                                   *)
LEMMA OnTheWayToDone ==
    ASSUME TypeOK, PollInv, ReadInOrder, NEW n \in Netlinkers, HasDone(n),
           netlinkerPc[n] \in {"read", "blocked"}
    PROVE  /\ Type(n) \in {"data", "done"}
           /\ Type(n) = "data" /\ NextMessage(n) => UNCHANGED packet /\ Goto(n, "read")
<1> DEFINE msgs == packet[n].msgs
           count == netlinkMsgCount[n]
<1>1. msgs \in Seq(MessageType) /\ count \in Nat /\ count < Len(msgs)
  BY DEF TypeOK, NetlinkerTypeOK, Datagram, PollInv, ReadingInPacket
<1>2. count + 1 \in 1 .. Len(msgs)
  BY <1>1
<1>3. /\ count + 1 = Len(msgs) => Type(n) = "done"
      /\ count + 1 < Len(msgs) => Type(n) = "data"
  BY <1>1, <1>2 DEF HasDone, ComesToDone, Type
<1>4. Type(n) \in {"data", "done"}
  BY <1>1, <1>2, <1>3
<1>5. ASSUME Type(n) = "data", NextMessage(n) PROVE UNCHANGED packet /\ Goto(n, "read")
  <2>1. count + 1 # Len(msgs)
    BY <1>3, <1>5
  <2> QED
    BY <1>5, <2>1 DEF NextMessage
<1> QED
  BY <1>4, <1>5

(* A step of a netlinker within its datagram, or with none: it keeps the   *)
(* DONE it has, and ends only when none is to come.                        *)
LEMMA KeepsDone ==
    ASSUME TypeOK, WhereDoneIs, NEW n \in Netlinkers,
           UNCHANGED <<socket, answers, pollerPc, netlinkerChClosed>>,
           \A k \in Netlinkers \ {n} :
              packet'[k] = packet[k] /\ netlinkerPc'[k] = netlinkerPc[k],
           packet'[n] \in {packet[n], NoPacket},
           HasDone(n) => HasDone(n)',
           KernelPrompt /\ DoneOnSocket /\ netlinkerPc[n] \notin {"off", "stats"}
              => netlinkerPc'[n] \notin {"off", "stats"}
    PROVE  WhereDoneIs'
<1>1. \A k \in Netlinkers : EndsDump(packet[k])' => EndsDump(packet[k])
  BY DEF EndsDump, NoPacket
<1>2. DoneOnSocket' = DoneOnSocket /\ DumpComesToDone' = DumpComesToDone
  BY DEF DoneOnSocket, DumpComesToDone, ComesToDone
<1>3. \A k \in Netlinkers \ {n} : HasDone(k)' = HasDone(k)
  BY DEF HasDone, ComesToDone
<1>4. ASSUME pollerPc = "done?", KernelPrompt, DumpComesToDone
      PROVE  \/ \E k \in Netlinkers : HasDone(k)'
             \/ DoneOnSocket /\ \A k \in Netlinkers : netlinkerPc'[k] \notin {"off", "stats"}
  <2>1. CASE \E k \in Netlinkers : HasDone(k)
    BY <1>3, <2>1
  <2>2. CASE DoneOnSocket /\ \A k \in Netlinkers : netlinkerPc[k] \notin {"off", "stats"}
    BY <1>4, <2>2
  <2> QED
    BY <1>4, <2>1, <2>2 DEF WhereDoneIs
<1> QED
  BY <1>1, <1>2, <1>4 DEF WhereDoneIs

(* The last of several stays the last when the first is gone.             *)
LEMMA LastOfTail ==
    ASSUME NEW S, NEW s \in Seq(S), s # <<>>, Len(s) # 1
    PROVE  Tail(s) # <<>> /\ Tail(s)[Len(Tail(s))] = s[Len(s)]
<1>1. PICK k \in Nat : Len(s) = k + 1
  <2>1. Len(s) \in Nat \ {0}
    BY EmptySeq
  <2>2. Len(s) - 1 \in Nat /\ Len(s) = (Len(s) - 1) + 1
    BY <2>1
  <2> QED
    BY <2>2
<1>2. k \in 1 .. k
  BY <1>1
<1>3. /\ Tail(s) \in Seq(S) /\ Len(Tail(s)) = k
      /\ \A i \in 1 .. Len(Tail(s)) : Tail(s)[i] = s[i + 1]
  BY <1>1, HeadTailProperties
<1>4. Tail(s)[k] = s[k + 1]
  BY <1>2, <1>3
<1>5. Tail(s) # <<>>
  BY <1>2, <1>3, EmptySeq
<1> QED
  BY <1>1, <1>3, <1>4, <1>5

(* The datagram with the DONE goes to one netlinker, or stays the last.    *)
LEMMA RecvWhereDoneIs ==
    ASSUME TypeOK, PollInv, WhereDoneIs, NEW n \in Netlinkers,
           RecvDatagram(n), UNCHANGED pollerVars
    PROVE  WhereDoneIs'
<1>1. /\ socket \in Seq(Datagram) /\ socket # <<>> /\ socket' = Tail(socket)
      /\ packet' = [packet EXCEPT ![n] = Head(socket)]
      /\ netlinkerPc' = [netlinkerPc EXCEPT ![n] = "read"]
      /\ netlinkerPc[n] = "recvfrom"
      /\ UNCHANGED <<answers, netlinkerChClosed, pollerPc>>
  BY DEF RecvDatagram, Recvfrom, Goto, channelVars, pollerVars, TypeOK, SocketTypeOK
<1>2. /\ packet'[n] = Head(socket) /\ netlinkerPc'[n] = "read"
      /\ \A k \in Netlinkers \ {n} :
            packet'[k] = packet[k] /\ netlinkerPc'[k] = netlinkerPc[k]
  BY <1>1 DEF TypeOK, NetlinkerTypeOK
<1>3. pollerPc = "done?"
  BY <1>1, NetlinkersAtWork DEF PollInv, PollStages
<1>4. \A k \in Netlinkers : ~EndsDump(packet[k])
  BY <1>1 DEF PollInv, DoneIsLast
<1>5. \A k \in Netlinkers \ {n} : ~EndsDump(packet[k])' /\ HasDone(k)' = HasDone(k)
  BY <1>2, <1>4 DEF EndsDump, HasDone, ComesToDone
<1>6. ~HasDone(n)
  BY <1>1 DEF HasDone
<1>7. ASSUME KernelPrompt, DumpComesToDone'
      PROVE  \/ \E k \in Netlinkers : HasDone(k)'
             \/ DoneOnSocket' /\ \A k \in Netlinkers : netlinkerPc'[k] \notin {"off", "stats"}
  <2>1. DumpComesToDone
    BY <1>1, <1>7 DEF DumpComesToDone, ComesToDone
  <2>2. CASE \E k \in Netlinkers : HasDone(k)
    BY <1>5, <1>6, <2>2
  <2>3. CASE DoneOnSocket /\ \A k \in Netlinkers : netlinkerPc[k] \notin {"off", "stats"}
    <3>1. CASE Len(socket) = 1
      <4>1. Head(socket) = socket[Len(socket)]
        BY <1>1, <3>1
      <4> QED
        BY <1>2, <2>3, <4>1 DEF DoneOnSocket, HasDone, ComesToDone
    <3>2. CASE Len(socket) # 1
      <4>1. Tail(socket) # <<>> /\ Tail(socket)[Len(Tail(socket))] = socket[Len(socket)]
        BY <1>1, <3>2, LastOfTail
      <4> QED
        BY <1>1, <1>2, <2>3, <4>1 DEF DoneOnSocket, ComesToDone
    <3> QED
      BY <3>1, <3>2
  <2> QED
    BY <1>3, <1>7, <2>1, <2>2, <2>3 DEF WhereDoneIs
<1> QED
  BY <1>1, <1>3, <1>5, <1>7 DEF WhereDoneIs

(* Every step of a netlinker, of the Poller, of anybody.                   *)
LEMMA NetlinkerWhereDoneIs ==
    ASSUME TypeOK, PollInv, ReadInOrder, WhereDoneIs, NEW n \in Netlinkers,
           NetlinkerStepOf(n)
    PROVE  WhereDoneIs'
<1>0. NetlinkerStep(n) /\ UNCHANGED <<pollerVars, pollerPc>>
  BY DEF NetlinkerStepOf, pollerVars
<1>1. CASE RecvDatagram(n)
  BY <1>0, <1>1, RecvWhereDoneIs
<1> DEFINE Untouched == UNCHANGED <<socket, answers, netlinkerChClosed>>
(* It goes on in its datagram, or has none.                                *)
<1>2. ASSUME NEW pc, Goto(n, pc), UNCHANGED packet, Untouched,
             HasDone(n) => pc \in {"read", "blocked", "sendDone"},
             KernelPrompt /\ DoneOnSocket /\ netlinkerPc[n] \notin {"off", "stats"}
                => pc \notin {"off", "stats"}
      PROVE  WhereDoneIs'
  <2>1. /\ netlinkerPc'[n] = pc
        /\ \A k \in Netlinkers \ {n} : netlinkerPc'[k] = netlinkerPc[k]
    BY <1>2 DEF Goto, TypeOK, NetlinkerTypeOK
  <2>2. HasDone(n) => HasDone(n)'
    BY <1>2, <2>1 DEF HasDone, ComesToDone
  <2> QED
    BY <1>0, <1>2, <2>1, <2>2, KeepsDone
(* It is done with a datagram that has no DONE.                            *)
<1>3. ASSUME ~HasDone(n), NextDatagram(n), Untouched
      PROVE  WhereDoneIs'
  <2>1. /\ packet'[n] = NoPacket /\ netlinkerPc'[n] = "recvfrom"
        /\ \A k \in Netlinkers \ {n} :
              packet'[k] = packet[k] /\ netlinkerPc'[k] = netlinkerPc[k]
    BY <1>3 DEF NextDatagram, Goto, TypeOK, NetlinkerTypeOK
  <2> QED
    BY <1>0, <1>3, <2>1, KeepsDone
(* It is done with a message of data.                                      *)
<1>4. ASSUME netlinkerPc[n] \in {"read", "blocked"}, Type(n) = "data",
             NextMessage(n), Untouched
      PROVE  WhereDoneIs'
  <2>1. CASE HasDone(n)
    BY <1>2, <1>4, <2>1, OnTheWayToDone
  <2>2. CASE ~HasDone(n)
    BY <1>2, <1>3, <1>4, <2>2 DEF NextMessage
  <2> QED
    BY <2>1, <2>2
<1>5. CASE RecvTemporary(n)
  <2>1. ~(KernelPrompt /\ DoneOnSocket) /\ ~HasDone(n)
    BY <1>5 DEF RecvTemporary, RecvfromTimesOut, DoneOnSocket, HasDone
  <2> QED
    BY <1>2, <1>5, <2>1 DEF RecvTemporary, RecvfromTimesOut, channelVars, socketVars
<1>6. CASE SkipMessage(n)
  BY <1>4, <1>6 DEF SkipMessage, ReadData, channelVars, socketVars
<1>7. CASE SendMessage(n)
  BY <1>4, <1>7 DEF SendMessage, ReadData, Send, socketVars
<1>8. CASE SendWouldBlock(n)
  BY <1>2, <1>8 DEF SendWouldBlock, channelVars, socketVars
<1>9. CASE SendBlocked(n)
  BY <1>4, <1>9 DEF SendBlocked, ReadInOrder, Send, socketVars
<1>10. CASE ReadControl(n)
  <2>1. ~HasDone(n)
    BY <1>10, OnTheWayToDone DEF ReadControl
  <2> QED
    BY <1>3, <1>10, <2>1 DEF ReadControl, channelVars, socketVars
<1>11. CASE ReadDone(n)
  BY <1>2, <1>11 DEF ReadDone, channelVars, socketVars
<1>12. CASE ReturnNetlinker(n)
  <2>1. netlinkerPc[n] = "stats" /\ ~HasDone(n)
    BY <1>12 DEF ReturnNetlinker, HasDone
  <2> QED
    BY <1>2, <1>12, <2>1 DEF ReturnNetlinker, SendToStater, socketVars
<1> QED
  BY <1>0, <1>1, <1>5, <1>6, <1>7, <1>8, <1>9, <1>10, <1>11, <1>12 DEF NetlinkerStep

LEMMA PollerWhereDoneIs ==
    ASSUME TypeOK, PollInv, WhereDoneIs, PollerStep
    PROVE  WhereDoneIs'
(* A step that has nothing to do with a DONE.                              *)
<1>1. ASSUME UNCHANGED packet, pollerPc # "done?",
             pollerPc' \notin {"netlinkers", "done?", "join"}
      PROVE  WhereDoneIs'
  <2>1. \A n \in Netlinkers : ~EndsDump(packet[n])'
    BY <1>1 DEF WhereDoneIs, EndsDump
  <2> QED
    BY <1>1, <2>1 DEF WhereDoneIs
<1>2. CASE SendPollerStats \/ LeaveLoop \/ StartWorkers \/ KeepWorkers
  BY <1>1, <1>2 DEF SendPollerStats, LeaveLoop, StartWorkers, KeepWorkers, PollerGoto,
     netlinkerVars
<1>3. CASE WaitNetlinkers \/ WaitInetdiagers \/ WaitTick
  BY <1>1, <1>3 DEF WaitNetlinkers, WaitInetdiagers, WaitTick, PollerGoto, netlinkerVars
<1>4. CASE SendNetlinkDumpRequest
  <2>1. pollerPc = "request" /\ pollerPc' = "netlinkers" /\ packet' = packet
    BY <1>4 DEF SendNetlinkDumpRequest, PollerGoto, netlinkerVars
  <2>2. \A n \in Netlinkers : ~EndsDump(packet[n])'
    BY <2>1 DEF WhereDoneIs, EndsDump
  <2>3. PICK d \in Dumps : /\ answers' = Append(answers, d)
                           /\ socket' = socket \o Datagrams(d, Len(answers))
    BY <1>4 DEF SendNetlinkDumpRequest, SendDumpRequest
  <2>4. /\ answers \in Seq(Dumps) /\ Len(answers) \in Nat
        /\ answers'[Len(answers')] = d
    BY <2>3 DEF TypeOK, SocketTypeOK
  <2>5. socket' = Datagrams(d, Len(answers))
    <3>1. socket = <<>>
      BY <2>1 DEF PollInv, PollStages
    <3>2. Datagrams(d, Len(answers)) \in Seq(Datagram)
      BY <2>4, DatagramsType
    <3> QED
      BY <2>3, <3>1, <3>2
  <2>6. DumpComesToDone' => DoneOnSocket'
    BY <2>4, <2>5, DumpOnSocket DEF DumpComesToDone, DoneOnSocket, ComesToDone
  <2> QED
    BY <2>1, <2>2, <2>6 DEF WhereDoneIs
<1>5. CASE SpawnNetlinkers
  <2>1. /\ pollerPc = "netlinkers" /\ pollerPc' = "done?"
        /\ netlinkerPc' = [n \in Netlinkers |-> "recvfrom"]
        /\ UNCHANGED <<packet, socket, answers>>
    BY <1>5 DEF SpawnNetlinkers, StartNetlinkers, PollerGoto, socketVars
  <2>2. \A n \in Netlinkers : ~EndsDump(packet[n])'
    BY <2>1 DEF WhereDoneIs, EndsDump
  <2>3. DumpComesToDone' => DoneOnSocket'
    BY <2>1 DEF WhereDoneIs, DumpComesToDone, DoneOnSocket, ComesToDone
  <2> QED
    BY <2>1, <2>2, <2>3 DEF WhereDoneIs
<1>6. ASSUME NEW n \in Netlinkers, ReceiveDone(n)
      PROVE  WhereDoneIs'
  <2>1. /\ pollerPc' = "wait" /\ netlinkerPc[n] = "sendDone" /\ packet'[n] = NoPacket
        /\ \A k \in Netlinkers \ {n} : packet'[k] = packet[k]
    BY <1>6 DEF ReceiveDone, SignalDone, NextDatagram, PollerGoto, TypeOK, NetlinkerTypeOK
  <2>2. EndsDump(packet[n])
    BY <2>1 DEF PollInv, ReadingInPacket
  <2>3. \A k \in Netlinkers : ~EndsDump(packet[k])'
    BY <2>1, <2>2 DEF WhereDoneIs, EndsDump, NoPacket
  <2> QED
    BY <2>1, <2>3 DEF WhereDoneIs
<1>7. CASE CloseChannel
  <2>1. /\ pollerPc = "close" /\ pollerPc' = "join" /\ packet' = packet
        /\ netlinkerChClosed' = TRUE
    BY <1>7 DEF CloseChannel, CloseNetlinkerCh, PollerGoto, netlinkerVars
  <2>2. \A n \in Netlinkers : ~EndsDump(packet[n])'
    BY <2>1 DEF WhereDoneIs, EndsDump
  <2> QED
    BY <2>1, <2>2 DEF WhereDoneIs
<1> QED
  BY <1>2, <1>3, <1>4, <1>5, <1>6, <1>7 DEF PollerStep

LEMMA WhereDoneIsStep ==
    ASSUME TypeOK, PollInv, ReadInOrder, WhereDoneIs, [Next]_vars
    PROVE  WhereDoneIs'
<1>1. ASSUME UNCHANGED <<socketVars, netlinkerVars, netlinkerChClosed, pollerPc>>
      PROVE  WhereDoneIs'
  BY <1>1 DEF WhereDoneIs, EndsDump, HasDone, DoneOnSocket, DumpComesToDone, ComesToDone,
     socketVars, netlinkerVars
<1>2. ASSUME NEW i \in Inetdiagers, InetdiagerStepOf(i) PROVE WhereDoneIs'
  BY <1>1, <1>2 DEF InetdiagerStepOf, InetdiagerStep, TakeMessage, Receive, SendStats,
     SendToStater, ProcessMessage, ReturnInetdiager, channelVars, pollerVars
<1>3. ASSUME NEW s \in Stater, StaterStep(s) PROVE WhereDoneIs'
  BY <1>1, <1>3 DEF StaterStep, StaterReceive, pollerVars
<1>4. CASE Tick \/ UNCHANGED vars
  BY <1>1, <1>4 DEF Tick, vars, channelVars, pollerVars
<1> QED
  BY <1>2, <1>3, <1>4, NetlinkerWhereDoneIs, PollerWhereDoneIs DEF Next, Terminated

-----------------------------------------------------------------------------
LEMMA InitCycleInv == Init => CycleInv
<1> SUFFICES ASSUME Init PROVE CycleInv
    OBVIOUS
<1> USE DEF Init, SocketInit, ChannelsInit, NetlinkerInit, InetdiagerInit
<1>1. ReadInOrder
  BY DEF ReadInOrder
<1>2. WorkersEnd
  BY DEF WorkersEnd, InetdiagersDone
<1>3. LoopNumbers
  BY PollerAssumption DEF LoopNumbers
<1>4. /\ AllSampled = {} /\ Unread = {} /\ Range(netlinkerCh) = {}
      /\ BusyInetdiagers = {} /\ InHands = {} /\ handled = {}
  BY DEF AllSampled, Unread, Range, BusyInetdiagers, Busy, InHands
<1>5. \A n \in Netlinkers : ToSend(n) = {}
  BY DEF ToSend
<1>6. ToBeSent = {}
  BY <1>5 DEF ToBeSent
<1>7. EachMessageOnce
  BY <1>4, <1>5, <1>6 DEF EachMessageOnce, NoneTwiceInAPlace
<1>8. WhereDoneIs
  BY DEF WhereDoneIs, EndsDump, NoPacket
<1> QED
  BY <1>1, <1>2, <1>3, <1>7, <1>8 DEF CycleInv

(* The inductive invariant: messages are read in order, workers end with   *)
(* nothing left, the Poller counts its loops, the DONE is where it comes   *)
(* to the Poller, and each message of the dumps is in one place.           *)
THEOREM CycleInvariant ==
    ASSUME Inetdiagers # {}
    PROVE  Spec => []CycleInv
<1>1. Init => CycleInv
  BY InitCycleInv
<1>2. TypeOK /\ PollInv /\ CycleInv /\ [Next]_vars => CycleInv'
  BY LoopNumbersStep, WorkersEndStep, WhereDoneIsStep, MessagesStep DEF CycleInv
<1> QED
  BY <1>1, <1>2, Invariance, PTL DEF Spec

(* Each sampled message of each dump is in one place until it is handled,  *)
(* and is handled once: none is lost between the socket, the netlinkers,   *)
(* netlinkerCh and the inetdiagers, whether the channel is closed after    *)
(* every poll or not, and none is handled twice.                           *)
THEOREM NoneLostOrTwice ==
    ASSUME Inetdiagers # {}
    PROVE  Spec => []EachMessageOnce
<1>1. CycleInv => EachMessageOnce
  BY DEF CycleInv
<1> QED
  BY <1>1, CycleInvariant, PTL

(* Nobody waits for what nobody will do: the Poller for a DONE that no     *)
(* netlinker has or will receive, a netlinker for a Poller that does not   *)
(* wait for its DONE or for inetdiagers that are gone, the Poller for      *)
(* netlinkers or inetdiagers that have nothing to end them.                *)
THEOREM WaitsServed ==
    ASSUME Netlinkers # {}, Inetdiagers # {}
    PROVE  Spec => []WaitsAreServed
<1>1. TypeOK /\ PollInv /\ CycleInv => WaitsAreServed
  <2> SUFFICES ASSUME TypeOK, PollInv, CycleInv PROVE WaitsAreServed
    OBVIOUS
  <2>1. ASSUME pollerPc = "done?", KernelPrompt, DumpComesToDone
        PROVE  \E n \in Netlinkers :
                  \/ HasDone(n)
                  \/ DoneOnSocket /\ netlinkerPc[n] \notin {"off", "stats"}
    <3> PICK n \in Netlinkers : TRUE
      OBVIOUS
    <3> QED
      BY <2>1 DEF CycleInv, WhereDoneIs
  <2>2. ASSUME NEW n \in Netlinkers, NEW k \in Netlinkers, netlinkerPc[n] = "sendDone"
        PROVE  pollerPc = "done?" /\ (netlinkerPc[k] = "sendDone" => n = k)
    BY <2>2 DEF PollInv, ReadingInPacket, CycleInv, WhereDoneIs
  <2>3. ASSUME NEW n \in Netlinkers, netlinkerPc[n] \in {"read", "blocked"}
        PROVE  ~netlinkerChClosed /\ \E i \in Inetdiagers : inetdiagerPc[i] # "off"
    <3>1. pollerPc \in {"done?", "wait"} /\ workersStarted
      BY <2>3, NetlinkersAtWork
    <3>2. ~netlinkerChClosed
      BY <3>1 DEF PollInv, WorkersStages
    <3>3. \A i \in Inetdiagers : inetdiagerPc[i] # "off"
      BY <3>1 DEF CycleInv, WorkersEnd
    <3> QED
      BY <3>2, <3>3
  <2>4. pollerPc = "wait" => socket = <<>>
    BY DEF PollInv, PollStages
  <2>5. pollerPc = "join" => netlinkerChClosed /\ NetlinkersDone
    BY DEF PollInv, PollStages, CycleInv, WhereDoneIs
  <2> QED
    BY <2>1, <2>2, <2>3, <2>4, <2>5 DEF WaitsAreServed
<1> QED
  BY <1>1, Invariance, CycleInvariant, PTL

(* -maxLoops n makes n + 1 polls, with or without inetdiagers: one more    *)
(* than the comment on MaxLoopsOrForEver says (NoMorePollsThanMaxLoops),   *)
(* and no more than one.                                                   *)
THEOREM OnePollMore == Spec => []OnePollMoreThanMaxLoops
<1>1. Init => LoopNumbers
  BY InitCycleInv DEF CycleInv
<1>2. TypeOK /\ PollInv /\ LoopNumbers /\ [Next]_vars => LoopNumbers'
  BY LoopNumbersStep
<1>3. TypeOK /\ PollInv /\ LoopNumbers => OnePollMoreThanMaxLoops
  BY PollerAssumption DEF TypeOK, PollerTypeOK, PollInv, PollNumbers, LoopNumbers,
     MaxLoopsOrForEver, OnePollMoreThanMaxLoops
<1> QED
  BY <1>1, <1>2, <1>3, Invariance, PTL DEF Spec

-----------------------------------------------------------------------------
(* The refinement.  Nothing is pending when all the workers have ended.    *)
LEMMA NothingPending ==
    ASSUME EachMessageOnce, socket = <<>>, NetlinkersDone, netlinkerCh = <<>>,
           InetdiagersDone
    PROVE  AllSampled \ handled = {}
<1>1. Unread = {} /\ Range(netlinkerCh) = {} /\ InHands = {}
  BY DEF Unread, Range, InHands, BusyInetdiagers, Busy, InetdiagersDone
<1>2. ToBeSent = {}
  BY DEF ToBeSent, ToSend, NetlinkersDone
<1> QED
  BY <1>1, <1>2 DEF EachMessageOnce

LEMMA CycleStutters ==
    ASSUME UNCHANGED <<answers, handled>>, CyclePhase' = CyclePhase
    PROVE  UNCHANGED Cycle!vars
BY SameAllSampled DEF Cycle!vars

LEMMA BeginStep ==
    ASSUME TypeOK, PollInv, LoopNumbers, SendNetlinkDumpRequest
    PROVE  Cycle!Begin
<1>1. PICK d \in Dumps : answers' = Append(answers, d)
  BY DEF SendNetlinkDumpRequest, SendDumpRequest
<1> DEFINE M == SampledIn(Datagrams(d, Len(answers)))
<1>2. answers \in Seq(Dumps) /\ Len(answers) \in Nat
  BY DEF TypeOK, SocketTypeOK
<1>3. AllSampled' = AllSampled \cup M
  BY <1>1, <1>2, DumpAdds
<1>4. \A m \in M : m.poll = Len(answers) /\ m.time = Len(answers)
  BY <1>2, DumpMessages
<1> HIDE DEF M
<1>5. /\ pollerPc = "request" /\ pollerPc' = "netlinkers"
      /\ handled' = handled
  BY DEF SendNetlinkDumpRequest, PollerGoto, inetdiagerVars
<1>6. CyclePhase = "idle" /\ CyclePhase' = "polling"
  BY <1>5 DEF CyclePhase
<1>7. MaxLoops # 0 => Len(answers) <= MaxLoops
  BY <1>5, PollerAssumption
     DEF TypeOK, PollerTypeOK, PollInv, PollNumbers, LoopNumbers, MaxLoopsOrForEver
<1>8. Len(answers)' = Len(answers) + 1
  BY <1>1, <1>2
<1>9. AllSampled \ handled \subseteq (AllSampled \ handled)'
  BY <1>3, <1>5
<1>10. \A m \in (AllSampled \ handled)' \ (AllSampled \ handled) :
          m.poll = Len(answers) /\ m.time = Len(answers)
  BY <1>3, <1>4, <1>5
<1> QED
  BY <1>5, <1>6, <1>7, <1>8, <1>9, <1>10 DEF Cycle!Begin

LEMMA HandleStep ==
    ASSUME TypeOK, WorkersEnd, EachMessageOnce, NEW i \in Inetdiagers,
           ProcessMessage(i),
           UNCHANGED <<socketVars, netlinkerVars, pollerVars>>
    PROVE  Cycle!Handle
<1>1. inetdiagerPc[i] = "process" /\ handled' = handled \cup {inHand[i]}
  BY DEF ProcessMessage
<1>2. pollerPc # "return"
  BY <1>1 DEF WorkersEnd, InetdiagersDone
<1>3. CyclePhase # "stopped" /\ CyclePhase' = CyclePhase
  BY <1>2 DEF CyclePhase, MaxLoopsOrForEver, pollerVars
<1>4. inHand[i] \in InHands
  BY <1>1 DEF InHands, BusyInetdiagers, Busy
<1>5. inHand[i] \in AllSampled \ handled
  BY <1>4 DEF EachMessageOnce
<1>6. AllSampled' = AllSampled /\ Len(answers)' = Len(answers)
  BY SameAllSampled DEF socketVars
<1>7. (AllSampled \ handled)' = (AllSampled \ handled) \ {inHand[i]}
  BY <1>1, <1>6
<1> QED
  BY <1>1, <1>3, <1>5, <1>6, <1>7 DEF Cycle!Handle

(* The Poller's steps between two requests.                                *)
LEMMA PollerCycleStep ==
    ASSUME Inetdiagers # {}, TypeOK, PollInv, CycleInv, PollerStep
    PROVE  [Cycle!Next]_(Cycle!vars)
<1> USE DEF CycleInv
<1>0. /\ pollingLoops \in Nat /\ MaxLoops \in Nat
      /\ pollerPc = "for" => Len(answers) = pollingLoops
  BY PollerAssumption DEF TypeOK, PollerTypeOK, PollInv, PollNumbers
<1>1. CASE SendNetlinkDumpRequest
  BY <1>1, BeginStep DEF Cycle!Next
<1>2. ASSUME UNCHANGED <<socketVars, inetdiagerVars>>
      PROVE  UNCHANGED <<answers, handled>> /\ AllSampled' = AllSampled
  BY <1>2, SameAllSampled DEF socketVars, inetdiagerVars
<1>3. CASE SendPollerStats \/ KeepWorkers \/ SpawnNetlinkers
  <2>1. CyclePhase' = CyclePhase
    BY <1>3 DEF SendPollerStats, KeepWorkers, SpawnNetlinkers, PollerGoto, CyclePhase
  <2> QED
    BY <1>2, <1>3, <2>1, CycleStutters DEF SendPollerStats, KeepWorkers, SpawnNetlinkers
<1>4. CASE StartWorkers
  <2>1. CyclePhase' = CyclePhase
    BY <1>4 DEF StartWorkers, PollerGoto, CyclePhase
  <2>2. UNCHANGED <<answers, handled>>
    BY <1>4 DEF StartWorkers, StartInetdiagers, socketVars
  <2> QED
    BY <2>1, <2>2, CycleStutters
<1>5. CASE \E n \in Netlinkers : ReceiveDone(n)
  <2>1. CyclePhase' = CyclePhase
    BY <1>5 DEF ReceiveDone, PollerGoto, CyclePhase
  <2> QED
    BY <1>2, <1>5, <2>1, CycleStutters DEF ReceiveDone
<1>6. CASE CloseChannel \/ WaitTick
  <2>1. CyclePhase' = CyclePhase
    BY <1>6 DEF CloseChannel, WaitTick, PollerGoto, CyclePhase, MaxLoopsOrForEver
  <2> QED
    BY <1>2, <1>6, <2>1, CycleStutters DEF CloseChannel, WaitTick
<1>7. CASE WaitNetlinkers
  <2>1. /\ pollerPc = "wait"
        /\ pollerPc' = IF ShutdownWorkers THEN "close" ELSE "ticker"
        /\ UNCHANGED <<socketVars, inetdiagerVars, pollingLoops>>
    BY <1>7 DEF WaitNetlinkers, PollerGoto
  <2>2. MaxLoopsOrForEver(pollingLoops)
    BY <2>1 DEF LoopNumbers
  <2>3. CASE ShutdownWorkers
    <3>1. CyclePhase' = CyclePhase
      BY <2>1, <2>2, <2>3 DEF CyclePhase, MaxLoopsOrForEver
    <3> QED
      BY <1>2, <2>1, <3>1, CycleStutters
  <2>4. CASE ~ShutdownWorkers
    <3>1. CyclePhase = "polling" /\ CyclePhase' = "idle"
      BY <2>1, <2>4 DEF CyclePhase
    <3> QED
      BY <1>2, <2>1, <2>4, <3>1 DEF Cycle!End, Cycle!Next
  <2> QED
    BY <2>3, <2>4
<1>8. CASE WaitInetdiagers
  <2>1. /\ pollerPc = "join" /\ InetdiagersDone
        /\ pollerPc' = IF MaxLoopsOrForEver(pollingLoops) THEN "ticker" ELSE "return"
        /\ UNCHANGED <<socketVars, inetdiagerVars, pollingLoops>>
    BY <1>8 DEF WaitInetdiagers, PollerGoto
  <2>2. netlinkerCh = <<>>
    BY <2>1 DEF WorkersEnd, InetdiagersDone
  <2>3. AllSampled \ handled = {}
    BY <2>1, <2>2, NothingPending DEF PollInv, PollStages
  <2>4. CASE MaxLoopsOrForEver(pollingLoops)
    <3>1. CyclePhase = "polling" /\ CyclePhase' = "idle"
      BY <2>1, <2>4 DEF CyclePhase
    <3> QED
      BY <1>2, <2>1, <2>3, <3>1 DEF Cycle!End, Cycle!Next
  <2>5. CASE ~MaxLoopsOrForEver(pollingLoops)
    <3>1. CyclePhase = "idle" /\ CyclePhase' = "stopped"
      BY <2>1, <2>5 DEF CyclePhase
    <3>2. MaxLoops # 0 /\ Len(answers) = MaxLoops + 1
      BY <1>0, <2>1, <2>5 DEF LoopNumbers, MaxLoopsOrForEver
    <3> QED
      BY <1>2, <2>1, <2>3, <3>1, <3>2 DEF Cycle!Stop, Cycle!Next
  <2> QED
    BY <2>4, <2>5
<1>9. CASE LeaveLoop
  <2>1. /\ pollerPc = "for" /\ ~MaxLoopsOrForEver(pollingLoops)
        /\ pollerPc' = IF workersStarted THEN "close" ELSE "return"
        /\ UNCHANGED <<socketVars, inetdiagerVars, pollingLoops>>
    BY <1>9 DEF LeaveLoop, PollerGoto
  <2>2. CASE workersStarted
    <3>1. CyclePhase' = CyclePhase
      BY <2>1, <2>2 DEF CyclePhase, MaxLoopsOrForEver
    <3> QED
      BY <1>2, <2>1, <3>1, CycleStutters
  <2>3. CASE ~workersStarted
    <3>1. CyclePhase = "idle" /\ CyclePhase' = "stopped"
      BY <2>1, <2>3 DEF CyclePhase
    <3>2. MaxLoops # 0 /\ Len(answers) = MaxLoops + 1
      BY <1>0, <2>1 DEF LoopNumbers, MaxLoopsOrForEver
    <3>3. AllSampled \ handled = {}
      BY <2>1, <2>3, NothingPending DEF PollInv, PollStages, WorkersEnd
    <3> QED
      BY <1>2, <2>1, <3>1, <3>2, <3>3 DEF Cycle!Stop, Cycle!Next
  <2> QED
    BY <2>2, <2>3
<1> QED
  BY <1>1, <1>3, <1>4, <1>5, <1>6, <1>7, <1>8, <1>9 DEF PollerStep

LEMMA CycleStep ==
    ASSUME Inetdiagers # {}, TypeOK, PollInv, CycleInv, [Next]_vars
    PROVE  [Cycle!Next]_(Cycle!vars)
<1>1. CASE PollerStep
  BY <1>1, PollerCycleStep
<1>2. CASE ~PollerStep
  <2>1. UNCHANGED <<answers, pollerPc, pollingLoops>>
    BY <1>2, OtherSteps
  <2>2. CyclePhase' = CyclePhase
    BY <2>1 DEF CyclePhase, MaxLoopsOrForEver
  <2>3. handled' = handled => UNCHANGED Cycle!vars
    BY <2>1, <2>2, CycleStutters
  <2>4. ASSUME NEW i \in Inetdiagers, InetdiagerStepOf(i)
        PROVE  [Cycle!Next]_(Cycle!vars)
    <3>1. CASE ProcessMessage(i)
      BY <2>4, <3>1, HandleStep DEF InetdiagerStepOf, CycleInv, Cycle!Next
    <3>2. CASE ~ProcessMessage(i)
      BY <2>3, <2>4, <3>2
         DEF InetdiagerStepOf, InetdiagerStep, TakeMessage, SendStats, ReturnInetdiager
    <3> QED
      BY <3>1, <3>2
  <2>5. ASSUME ~\E i \in Inetdiagers : InetdiagerStepOf(i)
        PROVE  handled' = handled
    BY <1>2, <2>5 DEF Next, NetlinkerStepOf, StaterStep, Tick, Terminated, vars,
         inetdiagerVars
  <2> QED
    BY <2>3, <2>4, <2>5
<1> QED
  BY <1>1, <1>2

(* The goroutines, channels and wait groups implement PollCycle: a request *)
(* begins a poll, a message an inetdiager has processed is handled, the    *)
(* wait for the netlinkers, or with -shutdownWorkers for the inetdiagers,  *)
(* ends the poll, and the Poller returns with nothing pending; every other *)
(* step is hidden.                                                         *)
THEOREM PipelineImplementsPollCycle ==
    ASSUME Inetdiagers # {}
    PROVE  Spec => ImplementsPollCycle
<1>1. Init => Cycle!Init
  <2> SUFFICES ASSUME Init PROVE Cycle!Init
    OBVIOUS
  <2>1. AllSampled = {} /\ handled = {} /\ Len(answers) = 0 /\ pollerPc = "for"
    BY DEF Init, SocketInit, InetdiagerInit, AllSampled
  <2> QED
    BY <2>1 DEF Cycle!Init, CyclePhase
<1>2. TypeOK /\ PollInv /\ CycleInv /\ [Next]_vars => [Cycle!Next]_(Cycle!vars)
  BY CycleStep
<1> QED
  BY <1>1, <1>2, Invariance, CycleInvariant, PTL DEF Spec, ImplementsPollCycle, Cycle!Spec
=============================================================================
