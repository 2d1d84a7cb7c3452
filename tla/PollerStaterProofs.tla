------------------------- MODULE PollerStaterProofs -------------------------
(***************************************************************************)
(* What PollerStater counts, for any address families, any size of its     *)
(* channel and any number of loops.                                        *)
(***************************************************************************)
EXTENDS PollerStater, FiniteSetTheorems, TLAPS

(* How many entries behind place i of a sequence are in T: the indices of  *)
(* Queued(af), counted from behind.                                        *)
Behind(s, i, T) == {j \in DOMAIN s : j > i /\ s[j] \in T}

LEMMA BehindFinite ==
    ASSUME NEW S, NEW s \in Seq(S), NEW i \in Nat, NEW T
    PROVE  IsFiniteSet(Behind(s, i, T)) /\ Cardinality(Behind(s, i, T)) \in Nat
<1>1. IsFiniteSet(1 .. Len(s))
  BY FS_Interval
<1>2. Behind(s, i, T) \in SUBSET (1 .. Len(s))
  BY DEF Behind
<1> QED
  BY <1>1, <1>2, FS_Subset, FS_CardinalityType

LEMMA BehindLast ==
    ASSUME NEW S, NEW s \in Seq(S), NEW T
    PROVE  Cardinality(Behind(s, Len(s), T)) = 0
<1>1. Behind(s, Len(s), T) = {}
  BY DEF Behind
<1> QED
  BY <1>1, FS_EmptySet

(* One more at the end, the places before it staying as they are.          *)
LEMMA BehindAppend ==
    ASSUME NEW S, NEW s \in Seq(S), NEW e \in S, NEW i \in 0 .. Len(s), NEW T
    PROVE  Cardinality(Behind(Append(s, e), i, T)) =
              Cardinality(Behind(s, i, T)) + IF e \in T THEN 1 ELSE 0
<1> DEFINE B == Behind(s, i, T)
           n == Len(s) + 1
<1>1. /\ n \in Nat /\ i < n /\ DOMAIN Append(s, e) = 1 .. n /\ DOMAIN s = 1 .. n - 1
      /\ Append(s, e)[n] = e /\ \A j \in 1 .. n - 1 : Append(s, e)[j] = s[j]
  OBVIOUS
<1>2. IsFiniteSet(B) /\ n \notin B
  <2>1. n \notin B
    BY <1>1 DEF Behind
  <2> QED
    BY <2>1, BehindFinite
<1>3. CASE e \in T
  <2>1. Behind(Append(s, e), i, T) = B \cup {n}
    BY <1>1, <1>3 DEF Behind
  <2> HIDE DEF B
  <2> QED
    BY <1>2, <1>3, <2>1, FS_AddElement DEF B
<1>4. CASE e \notin T
  <2>1. Behind(Append(s, e), i, T) = B
    BY <1>1, <1>4 DEF Behind
  <2> QED
    BY <1>4, <2>1, BehindFinite
<1> QED
  BY <1>3, <1>4

(* One less at the front, and every other place one less.                  *)
LEMMA BehindTail ==
    ASSUME NEW S, NEW s \in Seq(S), s # <<>>, NEW i \in Nat, NEW T
    PROVE  Cardinality(Behind(Tail(s), i, T)) = Cardinality(Behind(s, i + 1, T))
<1> DEFINE A == Behind(s, i + 1, T)
           B == Behind(Tail(s), i, T)
           f == [j \in A |-> j - 1]
<1>1. /\ DOMAIN s = 1 .. Len(s) /\ DOMAIN Tail(s) = 1 .. Len(s) - 1 /\ Len(s) \in Nat
      /\ \A j \in 1 .. Len(s) - 1 : Tail(s)[j] = s[j + 1]
  OBVIOUS
<1>2. \A j \in A : j \in Nat /\ j - 1 \in B
  BY <1>1 DEF Behind
<1>3. \A j \in B : j \in Nat /\ j + 1 \in A
  BY <1>1 DEF Behind
<1>4. IsFiniteSet(A)
  BY BehindFinite
<1> HIDE DEF A, B
<1>5. f \in Bijection(A, B)
  <2>1. f \in [A -> B]
    BY <1>2
  <2>2. \A a, b \in A : f[a] = f[b] => a = b
    BY <1>2
  <2>3. \A b \in B : \E a \in A : f[a] = b
    <3> SUFFICES ASSUME NEW b \in B PROVE f[b + 1] = b
      BY <1>3
    <3> QED
      BY <1>3
  <2> HIDE DEF f
  <2> QED
    BY <2>1, <2>2, <2>3 DEF Bijection, Injection, Surjection, IsInjective
<1>6. ExistsBijection(A, B)
  BY <1>5 DEF ExistsBijection
<1> QED
  BY <1>4, <1>6, FS_Bijection DEF A, B

LEMMA BehindFirst ==
    ASSUME NEW S, NEW s \in Seq(S), s # <<>>, NEW T
    PROVE  Cardinality(Behind(s, 0, T)) =
              Cardinality(Behind(Tail(s), 0, T)) + IF Head(s) \in T THEN 1 ELSE 0
<1> DEFINE B == Behind(s, 1, T)
<1>1. Cardinality(Behind(Tail(s), 0, T)) = Cardinality(B)
  BY BehindTail
<1>2. IsFiniteSet(B) /\ Cardinality(B) \in Nat /\ 1 \notin B
  <2>1. 1 \notin B
    BY DEF Behind
  <2> QED
    BY <2>1, BehindFinite
<1>3. 1 \in DOMAIN s /\ s[1] = Head(s) /\ DOMAIN s \subseteq Nat \ {0}
  OBVIOUS
<1>4. CASE Head(s) \in T
  <2>1. Behind(s, 0, T) = B \cup {1}
    BY <1>3, <1>4 DEF Behind
  <2> HIDE DEF B
  <2> QED
    BY <1>1, <1>2, <1>4, <2>1, FS_AddElement
<1>5. CASE Head(s) \notin T
  <2>1. Behind(s, 0, T) = B
    BY <1>3, <1>5 DEF Behind
  <2> QED
    BY <1>1, <1>2, <1>5, <2>1
<1> QED
  BY <1>4, <1>5

-----------------------------------------------------------------------------
(* The statistics a family's Poller has sent.                              *)
SentBy(af) == pollingLoops[af] + IF loopPc[af] = "poll" THEN 1 ELSE 0

StatsOf(af) == {stats \in Stats : stats.af = af}
LongOf(af) == {stats \in Stats : stats.af = af /\ stats.long}

(* The statistics of a family are numbered from 0, one after the other:    *)
(* those in the channel up to the last one sent, and the last received,    *)
(* whose number is the counter, is the one before them, if there is one.   *)
NumbersInOrder ==
    \A af \in AddressFamilies :
       LET waiting(i) == Cardinality(Behind(pollerStaterCh, i, StatsOf(af)))
       IN  /\ promLoops[af] = oldStatsMap[af]
           /\ \A i \in DOMAIN pollerStaterCh :
                 pollerStaterCh[i].af = af =>
                    pollerStaterCh[i].loops + 1 + waiting(i) = SentBy(af)
           /\ \/ oldStatsMap[af] + 1 + waiting(0) = SentBy(af)
              \/ oldStatsMap[af] = 0 /\ waiting(0) = SentBy(af)

LongCounted ==
    \A af \in AddressFamilies :
       longPolls[af] = promLong[af]
                       + Cardinality(Behind(pollerStaterCh, 0, LongOf(af)))
                       + IF pollLong[af] /\ loopPc[af] # "poll" THEN 1 ELSE 0

PollerStaterInv ==
    /\ PollerStaterTypeOK
    /\ \A af \in AddressFamilies : loopPc[af] # "returned" => pollingLoops[af] <= MaxLoops
    /\ NumbersInOrder
    /\ LongCounted

LEMMA InvInit == PollerStaterInit => PollerStaterInv
<1> SUFFICES ASSUME PollerStaterInit PROVE PollerStaterInv
  OBVIOUS
<1>1. PollerStaterTypeOK
  BY PollerStaterAssumption DEF PollerStaterInit, PollerStaterTypeOK, Stats
<1>2. \A af \in AddressFamilies : pollingLoops[af] <= MaxLoops
  BY PollerStaterAssumption DEF PollerStaterInit
<1>3. \A T : Cardinality(Behind(pollerStaterCh, 0, T)) = 0
  <2>1. \A T : Behind(pollerStaterCh, 0, T) = {}
    BY DEF PollerStaterInit, Behind
  <2> QED
    BY <2>1, FS_EmptySet
<1>4. NumbersInOrder
  BY <1>3 DEF NumbersInOrder, PollerStaterInit, SentBy
<1>5. LongCounted
  BY <1>3 DEF LongCounted, PollerStaterInit
<1> QED
  BY <1>1, <1>2, <1>4, <1>5 DEF PollerStaterInv

LEMMA SendStatsKeeps ==
    ASSUME PollerStaterInv, NEW f \in AddressFamilies, SendStats(f)
    PROVE  PollerStaterInv'
<1> DEFINE ch == pollerStaterCh
           new == CurrentStats(f)
<1>1. /\ ch \in Seq(Stats) /\ Len(ch) < PromPollerChSize
      /\ ch' = Append(ch, new) /\ loopPc[f] = "send"
      /\ loopPc' = [loopPc EXCEPT ![f] = "poll"]
      /\ UNCHANGED <<pollingLoops, pollLong, oldStatsMap, promLoops, promLong, longPolls>>
  BY DEF PollerStaterInv, PollerStaterTypeOK, SendStats
<1>2. /\ loopPc \in [AddressFamilies -> {"send", "poll", "returned"}]
      /\ \A af \in AddressFamilies : pollingLoops[af] \in Nat /\ pollLong[af] \in BOOLEAN
  BY PollerStaterAssumption DEF PollerStaterInv, PollerStaterTypeOK
<1>3. new \in Stats /\ new.af = f /\ new.loops = pollingLoops[f] /\ new.long = pollLong[f]
  BY <1>2 DEF CurrentStats, Stats
<1>4. /\ Len(ch) \in Nat /\ DOMAIN ch = 1 .. Len(ch) /\ DOMAIN ch' = 1 .. Len(ch) + 1
      /\ \A i \in 1 .. Len(ch) : ch'[i] = ch[i]
      /\ ch'[Len(ch) + 1] = new
  BY <1>1, <1>3
<1>5. PollerStaterTypeOK'
  <2>1. pollerStaterCh' \in Seq(Stats) /\ Len(pollerStaterCh') <= PromPollerChSize
    BY <1>1, <1>3, PollerStaterAssumption
  <2>2. loopPc' \in [AddressFamilies -> {"send", "poll", "returned"}]
    BY <1>1, <1>2
  <2> QED
    BY <1>1, <2>1, <2>2, Zenon DEF PollerStaterInv, PollerStaterTypeOK
<1>6. ASSUME NEW af \in AddressFamilies
      PROVE  /\ SentBy(af)' = SentBy(af) + IF af = f THEN 1 ELSE 0
             /\ SentBy(af) \in Nat
             /\ new \in StatsOf(af) <=> af = f
             /\ new \in LongOf(af) <=> af = f /\ pollLong[f]
  BY <1>1, <1>2, <1>3 DEF SentBy, StatsOf, LongOf
<1>7. ASSUME NEW af \in AddressFamilies, NEW i \in 0 .. Len(ch), NEW T
      PROVE  /\ Cardinality(Behind(ch', i, T)) =
                   Cardinality(Behind(ch, i, T)) + IF new \in T THEN 1 ELSE 0
             /\ Cardinality(Behind(ch, i, T)) \in Nat
  BY <1>1, <1>3, BehindAppend, BehindFinite
<1> HIDE DEF new
<1>8. NumbersInOrder'
  <2> SUFFICES ASSUME NEW af \in AddressFamilies
               PROVE  /\ promLoops[af]' = oldStatsMap[af]'
                      /\ \A i \in DOMAIN ch' :
                            ch'[i].af = af =>
                               ch'[i].loops + 1 + Cardinality(Behind(ch', i, StatsOf(af)))
                                  = SentBy(af)'
                      /\ \/ oldStatsMap[af]' + 1 + Cardinality(Behind(ch', 0, StatsOf(af)))
                               = SentBy(af)'
                         \/ oldStatsMap[af]' = 0
                              /\ Cardinality(Behind(ch', 0, StatsOf(af))) = SentBy(af)'
    BY DEF NumbersInOrder, StatsOf
  <2> DEFINE b(i) == Cardinality(Behind(ch, i, StatsOf(af)))
             c(i) == Cardinality(Behind(ch', i, StatsOf(af)))
             one == IF af = f THEN 1 ELSE 0
  <2>1. \A i \in 0 .. Len(ch) : b(i) \in Nat /\ c(i) = b(i) + one
    BY <1>6, <1>7
  <2>2. /\ promLoops[af] = oldStatsMap[af] /\ oldStatsMap[af] \in Nat
        /\ \A i \in DOMAIN ch : ch[i].af = af => ch[i].loops + 1 + b(i) = SentBy(af)
        /\ \/ oldStatsMap[af] + 1 + b(0) = SentBy(af)
           \/ oldStatsMap[af] = 0 /\ b(0) = SentBy(af)
    BY DEF PollerStaterInv, NumbersInOrder, PollerStaterTypeOK
  <2>3. c(Len(ch) + 1) = 0
    <3>1. ch' \in Seq(Stats) /\ Len(ch') = Len(ch) + 1
      BY <1>1, <1>3, <1>5 DEF PollerStaterTypeOK
    <3> QED
      BY <3>1, BehindLast
  <2>4. SentBy(af)' = SentBy(af) + one /\ SentBy(af) \in Nat /\ one \in {0, 1}
    BY <1>6
  <2>5. \A i \in DOMAIN ch : ch[i].loops \in Nat
    <3>1. \A i \in DOMAIN ch : ch[i] \in Stats
      BY <1>1
    <3> QED
      BY <3>1 DEF Stats
  <2>6. af = f => new.af = f /\ SentBy(af) = new.loops /\ one = 1 /\ new.loops \in Nat
    BY <1>1, <1>2, <1>3 DEF SentBy
  <2>7. af # f => new.af # af
    BY <1>3
  <2> HIDE DEF b, c, one
  <2>8. ASSUME NEW i \in DOMAIN ch', ch'[i].af = af
        PROVE  ch'[i].loops + 1 + c(i) = SentBy(af)'
    <3>1. CASE i \in DOMAIN ch
      <4>1. i \in 0 .. Len(ch) /\ ch'[i] = ch[i]
        BY <1>4, <3>1
      <4>2. ch[i].loops + 1 + b(i) = SentBy(af) /\ ch[i].loops \in Nat
        BY <2>2, <2>5, <2>8, <3>1, <4>1
      <4>3. b(i) \in Nat /\ c(i) = b(i) + one
        BY <2>1, <4>1
      <4> DEFINE loops == ch[i].loops
      <4>4. c(i) = b(i) + one /\ SentBy(af)' = SentBy(af) + one /\ one \in Int
        BY <2>4, <4>3
      <4>5. b(i) \in Nat /\ loops \in Nat /\ loops + 1 + b(i) = SentBy(af)
        BY <4>2, <4>3
      <4>6. loops + 1 + c(i) = SentBy(af)'
        <5> HIDE DEF loops
        <5> QED
          BY <4>4, <4>5
      <4> QED
        BY <4>1, <4>6
    <3>2. CASE i = Len(ch) + 1
      BY <1>4, <2>3, <2>4, <2>6, <2>7, <2>8, <3>2
    <3> QED
      BY <1>4, <3>1, <3>2
  <2>9. 0 \in 0 .. Len(ch)
    BY <1>4
  <2>10. \/ oldStatsMap[af]' + 1 + c(0) = SentBy(af)'
         \/ oldStatsMap[af]' = 0 /\ c(0) = SentBy(af)'
    BY <1>1, <2>1, <2>2, <2>4, <2>9
  <2> QED
    BY <1>1, <2>2, <2>8, <2>10 DEF c
<1>9. LongCounted'
  <2> SUFFICES ASSUME NEW af \in AddressFamilies
               PROVE  longPolls[af]' = promLong[af]'
                         + Cardinality(Behind(ch', 0, LongOf(af)))
                         + IF pollLong'[af] /\ loopPc'[af] # "poll" THEN 1 ELSE 0
    BY DEF LongCounted, LongOf
  <2> DEFINE b == Cardinality(Behind(ch, 0, LongOf(af)))
             c == Cardinality(Behind(ch', 0, LongOf(af)))
  <2>1. 0 \in 0 .. Len(ch)
    BY <1>4
  <2>2. b \in Nat /\ c = b + IF af = f /\ pollLong[f] THEN 1 ELSE 0
    BY <1>6, <1>7, <2>1
  <2>3. /\ longPolls[af] = promLong[af] + b
                              + IF pollLong[af] /\ loopPc[af] # "poll" THEN 1 ELSE 0
        /\ promLong[af] \in Nat
    BY DEF PollerStaterInv, LongCounted, PollerStaterTypeOK
  <2> HIDE DEF b, c
  <2>4. longPolls[af] = promLong[af] + c
                           + IF pollLong[af] /\ loopPc'[af] # "poll" THEN 1 ELSE 0
    BY <1>1, <1>2, <2>2, <2>3
  <2> QED
    BY <1>1, <2>4 DEF c
<1>10. \A af \in AddressFamilies : loopPc'[af] # "returned" => pollingLoops'[af] <= MaxLoops
  BY <1>1, <1>2 DEF PollerStaterInv
<1> QED
  BY <1>5, <1>8, <1>9, <1>10 DEF PollerStaterInv

LEMMA PollKeeps ==
    ASSUME PollerStaterInv, NEW f \in AddressFamilies, Poll(f)
    PROVE  PollerStaterInv'
<1>1. PICK long \in BOOLEAN :
         /\ pollLong' = [pollLong EXCEPT ![f] = long]
         /\ longPolls' = [longPolls EXCEPT ![f] = @ + IF long THEN 1 ELSE 0]
  BY DEF Poll
<1>2. /\ loopPc[f] = "poll"
      /\ pollingLoops' = [pollingLoops EXCEPT ![f] = @ + 1]
      /\ loopPc' = [loopPc EXCEPT ![f] = IF pollingLoops'[f] > MaxLoops
                                         THEN "returned" ELSE "send"]
      /\ UNCHANGED <<pollerStaterCh, oldStatsMap, promLoops, promLong>>
  BY DEF Poll
<1>3. /\ loopPc \in [AddressFamilies -> {"send", "poll", "returned"}]
      /\ pollingLoops \in [AddressFamilies -> 0 .. MaxLoops + 1]
      /\ pollLong \in [AddressFamilies -> BOOLEAN]
      /\ longPolls \in [AddressFamilies -> Nat]
      /\ pollingLoops[f] <= MaxLoops
      /\ \A af \in AddressFamilies : promLong[af] \in Nat
      /\ \A T : Cardinality(Behind(pollerStaterCh, 0, T)) \in Nat
  BY <1>2, BehindFinite DEF PollerStaterInv, PollerStaterTypeOK
<1>4. PollerStaterTypeOK'
  <2>1. loopPc' \in [AddressFamilies -> {"send", "poll", "returned"}]
    BY <1>2, <1>3
  <2>2. pollingLoops' \in [AddressFamilies -> 0 .. MaxLoops + 1]
    BY <1>2, <1>3, PollerStaterAssumption
  <2>3. pollLong' \in [AddressFamilies -> BOOLEAN]
    BY <1>1, <1>3, Zenon
  <2>4. longPolls' \in [AddressFamilies -> Nat]
    BY <1>1, <1>3
  <2> QED
    BY <1>2, <2>1, <2>2, <2>3, <2>4, Zenon DEF PollerStaterInv, PollerStaterTypeOK
<1>5. \A af \in AddressFamilies : loopPc'[af] # "returned" => pollingLoops'[af] <= MaxLoops
  BY <1>2, <1>3, PollerStaterAssumption DEF PollerStaterInv
<1>6. \A af \in AddressFamilies : SentBy(af)' = SentBy(af)
  BY <1>2, <1>3 DEF SentBy
<1>7. NumbersInOrder'
  <2> SUFFICES ASSUME NEW af \in AddressFamilies
               PROVE  LET waiting(i) == Cardinality(Behind(pollerStaterCh, i, StatsOf(af)))
                      IN  /\ promLoops[af] = oldStatsMap[af]
                          /\ \A i \in DOMAIN pollerStaterCh :
                                pollerStaterCh[i].af = af =>
                                   pollerStaterCh[i].loops + 1 + waiting(i) = SentBy(af)
                          /\ \/ oldStatsMap[af] + 1 + waiting(0) = SentBy(af)
                             \/ oldStatsMap[af] = 0 /\ waiting(0) = SentBy(af)
    BY <1>2, <1>6 DEF NumbersInOrder, StatsOf
  <2> QED
    BY DEF PollerStaterInv, NumbersInOrder
<1>8. LongCounted'
  <2> SUFFICES ASSUME NEW af \in AddressFamilies
               PROVE  longPolls'[af] = promLong[af]
                         + Cardinality(Behind(pollerStaterCh, 0, LongOf(af)))
                         + IF pollLong'[af] /\ loopPc'[af] # "poll" THEN 1 ELSE 0
    BY <1>2 DEF LongCounted, LongOf
  <2> DEFINE b == Cardinality(Behind(pollerStaterCh, 0, LongOf(af)))
  <2>1. b \in Nat /\ promLong[af] \in Nat
    BY <1>3
  <2>2. longPolls[af] = promLong[af] + b
                           + IF pollLong[af] /\ loopPc[af] # "poll" THEN 1 ELSE 0
    BY DEF PollerStaterInv, LongCounted
  <2> HIDE DEF b
  <2>3. CASE af = f
    <3>1. pollLong'[f] = long /\ longPolls'[f] = longPolls[f] + IF long THEN 1 ELSE 0
      BY <1>1, <1>3
    <3>2. loopPc'[f] # "poll"
      BY <1>2, <1>3
    <3> QED
      BY <1>2, <2>1, <2>2, <2>3, <3>1, <3>2 DEF b
  <2>4. CASE af # f
    <3>1. longPolls'[af] = longPolls[af] /\ loopPc'[af] = loopPc[af]
          /\ pollLong'[af] = pollLong[af]
      BY <1>1, <1>2, <1>3, <2>4
    <3> QED
      BY <2>2, <3>1 DEF b
  <2> QED
    BY <2>3, <2>4
<1> QED
  BY <1>4, <1>5, <1>7, <1>8 DEF PollerStaterInv

LEMMA ReceiveKeeps ==
    ASSUME PollerStaterInv, Receive
    PROVE  PollerStaterInv'
<1> DEFINE ch == pollerStaterCh
           first == Head(ch)
           f == first.af
<1>1. /\ ch \in Seq(Stats) /\ ch # <<>> /\ ch' = Tail(ch)
      /\ promLoops' = [promLoops EXCEPT ![f] = @ + (first.loops - oldStatsMap[f])]
      /\ oldStatsMap' = [oldStatsMap EXCEPT ![f] = first.loops]
      /\ promLong' = [promLong EXCEPT ![f] = @ + IF first.long THEN 1 ELSE 0]
      /\ UNCHANGED <<loopPc, pollingLoops, pollLong, longPolls>>
  BY DEF PollerStaterInv, PollerStaterTypeOK, Receive
<1>2. /\ Len(ch) \in Nat \ {0} /\ DOMAIN ch = 1 .. Len(ch)
      /\ DOMAIN ch' = 1 .. Len(ch) - 1 /\ ch[1] = first
      /\ \A i \in 1 .. Len(ch) - 1 : ch'[i] = ch[i + 1]
      /\ ch' \in Seq(Stats) /\ Len(ch') <= Len(ch)
  BY <1>1
<1>3. first \in Stats /\ f \in AddressFamilies /\ first.loops \in Nat
      /\ first.long \in BOOLEAN
  <2>1. first \in Stats
    BY <1>1
  <2> QED
    BY <2>1 DEF Stats
<1>4. /\ promLoops \in [AddressFamilies -> Nat] /\ oldStatsMap \in [AddressFamilies -> Nat]
      /\ promLong \in [AddressFamilies -> Nat]
  BY DEF PollerStaterInv, PollerStaterTypeOK
<1>5. ASSUME NEW af \in AddressFamilies
      PROVE  /\ SentBy(af)' = SentBy(af)
             /\ first \in StatsOf(af) <=> af = f
             /\ first \in LongOf(af) <=> af = f /\ first.long
  BY <1>1, <1>3 DEF SentBy, StatsOf, LongOf
<1>6. ASSUME NEW T
      PROVE  /\ Cardinality(Behind(ch, 0, T)) =
                   Cardinality(Behind(ch', 0, T)) + IF first \in T THEN 1 ELSE 0
             /\ \A i \in Nat :
                   /\ Cardinality(Behind(ch', i, T)) = Cardinality(Behind(ch, i + 1, T))
                   /\ Cardinality(Behind(ch', i, T)) \in Nat
  BY <1>1, <1>2, BehindFirst, BehindTail, BehindFinite
<1>7. promLoops'[f] = first.loops
  BY <1>1, <1>3, <1>4 DEF PollerStaterInv, NumbersInOrder
<1>8. PollerStaterTypeOK'
  <2>1. promLoops' \in [AddressFamilies -> Nat]
    <3>1. promLoops' = [promLoops EXCEPT ![f] = first.loops]
      BY <1>1, <1>3, <1>4, <1>7
    <3> QED
      BY <1>3, <1>4, <3>1
  <2>2. oldStatsMap' \in [AddressFamilies -> Nat] /\ promLong' \in [AddressFamilies -> Nat]
    BY <1>1, <1>3, <1>4
  <2>3. ch' \in Seq(Stats) /\ Len(ch') <= PromPollerChSize
    BY <1>2, PollerStaterAssumption DEF PollerStaterInv, PollerStaterTypeOK
  <2> QED
    BY <1>1, <2>1, <2>2, <2>3, Zenon DEF PollerStaterInv, PollerStaterTypeOK
<1>9. NumbersInOrder'
  <2> SUFFICES ASSUME NEW af \in AddressFamilies
               PROVE  /\ promLoops'[af] = oldStatsMap'[af]
                      /\ \A i \in DOMAIN ch' :
                            ch'[i].af = af =>
                               ch'[i].loops + 1 + Cardinality(Behind(ch', i, StatsOf(af)))
                                  = SentBy(af)
                      /\ \/ oldStatsMap'[af] + 1 + Cardinality(Behind(ch', 0, StatsOf(af)))
                               = SentBy(af)
                         \/ oldStatsMap'[af] = 0
                              /\ Cardinality(Behind(ch', 0, StatsOf(af))) = SentBy(af)
    BY <1>5 DEF NumbersInOrder, StatsOf
  <2> DEFINE b(i) == Cardinality(Behind(ch, i, StatsOf(af)))
             c(i) == Cardinality(Behind(ch', i, StatsOf(af)))
  <2>1. \A i \in Nat : c(i) = b(i + 1)
    BY <1>6
  <2>2. b(0) = c(0) + IF af = f THEN 1 ELSE 0
    BY <1>5, <1>6
  <2>3. /\ promLoops[af] = oldStatsMap[af]
        /\ \A i \in DOMAIN ch : ch[i].af = af => ch[i].loops + 1 + b(i) = SentBy(af)
        /\ \/ oldStatsMap[af] + 1 + b(0) = SentBy(af)
           \/ oldStatsMap[af] = 0 /\ b(0) = SentBy(af)
    BY DEF PollerStaterInv, NumbersInOrder
  <2> HIDE DEF b, c
  <2>4. ASSUME NEW i \in DOMAIN ch', ch'[i].af = af
        PROVE  ch'[i].loops + 1 + c(i) = SentBy(af)
    <3>1. i \in Nat /\ i + 1 \in DOMAIN ch /\ ch'[i] = ch[i + 1]
      BY <1>2
    <3> QED
      BY <2>1, <2>3, <2>4, <3>1
  <2>5. CASE af = f
    <3>1. promLoops'[af] = first.loops /\ oldStatsMap'[af] = first.loops
      BY <1>1, <1>3, <1>4, <1>7, <2>5
    <3>2. first.loops + 1 + b(1) = SentBy(af)
      BY <1>2, <2>3, <2>5
    <3>3. c(0) = b(1)
      BY <2>1
    <3> QED
      BY <2>4, <3>1, <3>2, <3>3 DEF c
  <2>6. CASE af # f
    <3>1. promLoops'[af] = promLoops[af] /\ oldStatsMap'[af] = oldStatsMap[af]
      BY <1>1, <1>4, <2>6
    <3>2. c(0) \in Nat
      BY <1>6 DEF c
    <3>3. b(0) = c(0)
      BY <2>2, <2>6, <3>2
    <3> QED
      BY <2>3, <2>4, <3>1, <3>3 DEF c
  <2> QED
    BY <2>5, <2>6
<1>10. LongCounted'
  <2> SUFFICES ASSUME NEW af \in AddressFamilies
               PROVE  longPolls[af] = promLong'[af]
                         + Cardinality(Behind(ch', 0, LongOf(af)))
                         + IF pollLong[af] /\ loopPc[af] # "poll" THEN 1 ELSE 0
    BY <1>1 DEF LongCounted, LongOf
  <2> DEFINE b == Cardinality(Behind(ch, 0, LongOf(af)))
             c == Cardinality(Behind(ch', 0, LongOf(af)))
             one == IF af = f /\ first.long THEN 1 ELSE 0
  <2>1. b = c + one /\ c \in Nat
    BY <1>5, <1>6
  <2>2. longPolls[af] = promLong[af] + b
                           + IF pollLong[af] /\ loopPc[af] # "poll" THEN 1 ELSE 0
    BY DEF PollerStaterInv, LongCounted
  <2>3. promLong'[af] = promLong[af] + one /\ promLong[af] \in Nat /\ one \in {0, 1}
    BY <1>1, <1>3, <1>4
  <2> HIDE DEF b, c, one
  <2> QED
    BY <2>1, <2>2, <2>3 DEF c
<1> QED
  BY <1>1, <1>8, <1>9, <1>10 DEF PollerStaterInv

LEMMA InvStep ==
    PollerStaterInv /\ [PollerStaterNext]_pollerStaterVars => PollerStaterInv'
<1> SUFFICES ASSUME PollerStaterInv, [PollerStaterNext]_pollerStaterVars
             PROVE  PollerStaterInv'
  OBVIOUS
<1>1. CASE UNCHANGED pollerStaterVars
  BY <1>1 DEF pollerStaterVars, PollerStaterInv, PollerStaterTypeOK, NumbersInOrder,
              LongCounted, SentBy
<1> QED
  BY <1>1, SendStatsKeeps, PollKeeps, ReceiveKeeps DEF PollerStaterNext

THEOREM CountersInvariant == PollerStaterSpec => []PollerStaterInv
BY InvInit, InvStep, PTL DEF PollerStaterSpec

(* Every variable has its type, for any number of loops.                   *)
THEOREM PollerStaterTypes == PollerStaterSpec => []PollerStaterTypeOK
<1>1. PollerStaterInv => PollerStaterTypeOK
  BY DEF PollerStaterInv
<1> QED
  BY <1>1, CountersInvariant, PTL

LEMMA QueuedAreBehind ==
    ASSUME PollerStaterTypeOK, NEW af \in AddressFamilies
    PROVE  /\ Queued(af) = Behind(pollerStaterCh, 0, StatsOf(af))
           /\ {i \in Queued(af) : pollerStaterCh[i].long} =
                 Behind(pollerStaterCh, 0, LongOf(af))
           /\ Cardinality(Queued(af)) \in Nat
<1>1. \A i \in DOMAIN pollerStaterCh : i > 0 /\ pollerStaterCh[i] \in Stats
  BY DEF PollerStaterTypeOK
<1>2. Queued(af) = Behind(pollerStaterCh, 0, StatsOf(af))
  BY <1>1 DEF Queued, Behind, StatsOf
<1>3. {i \in Queued(af) : pollerStaterCh[i].long} = Behind(pollerStaterCh, 0, LongOf(af))
  BY <1>1 DEF Queued, Behind, LongOf
<1>4. Cardinality(Queued(af)) \in Nat
  BY <1>2, BehindFinite DEF PollerStaterTypeOK
<1> QED
  BY <1>2, <1>3, <1>4

(* However the Pollers of the families interleave, the counter of loops    *)
(* lags behind each Poller by what is queued of it and the loop in work.   *)
THEOREM LoopsCounted == PollerStaterSpec => []LoopsLag
<1>1. PollerStaterInv => LoopsLag
  <2> SUFFICES ASSUME PollerStaterInv, NEW af \in AddressFamilies, promLoops[af] # 0
               PROVE  pollingLoops[af] = promLoops[af] + Cardinality(Queued(af))
                                         + IF loopPc[af] = "poll" THEN 0 ELSE 1
    BY DEF LoopsLag
  <2> DEFINE b == Cardinality(Behind(pollerStaterCh, 0, StatsOf(af)))
  <2>1. b = Cardinality(Queued(af)) /\ b \in Nat
    BY QueuedAreBehind DEF PollerStaterInv
  <2>2. promLoops[af] + 1 + b = SentBy(af)
    BY DEF PollerStaterInv, NumbersInOrder
  <2>3. promLoops[af] \in Nat /\ pollingLoops[af] \in Nat
    BY PollerStaterAssumption DEF PollerStaterInv, PollerStaterTypeOK
  <2> HIDE DEF b
  <2>4. pollingLoops[af] = promLoops[af] + b + IF loopPc[af] = "poll" THEN 0 ELSE 1
    BY <2>1, <2>2, <2>3 DEF SentBy
  <2> QED
    BY <2>1, <2>4
<1> QED
  BY <1>1, CountersInvariant, PTL

(* Each poll that took too long is counted once.                           *)
THEOREM LongPollsCounted == PollerStaterSpec => []LongPollsCountedOnce
<1>1. PollerStaterInv => LongPollsCountedOnce
  <2> SUFFICES ASSUME PollerStaterInv, NEW af \in AddressFamilies
               PROVE  longPolls[af] = promLong[af]
                         + Cardinality({i \in Queued(af) : pollerStaterCh[i].long})
                         + IF pollLong[af] /\ loopPc[af] # "poll" THEN 1 ELSE 0
    BY DEF LongPollsCountedOnce
  <2>1. {i \in Queued(af) : pollerStaterCh[i].long} =
           Behind(pollerStaterCh, 0, LongOf(af))
    BY QueuedAreBehind DEF PollerStaterInv
  <2> QED
    BY <2>1 DEF PollerStaterInv, LongCounted
<1> QED
  BY <1>1, CountersInvariant, PTL
=============================================================================
