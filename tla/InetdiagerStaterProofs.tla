----------------------- MODULE InetdiagerStaterProofs -----------------------
(***************************************************************************)
(* As long as no workers are started anew, the samples of each inetdiager  *)
(* arrive in order and no Prometheus counter is decreased; and, started    *)
(* anew or not, the counters of the families and the total are the sums of *)
(* the counters of the workers.  All of it for any families, numbers of    *)
(* workers and size of the channel.                                        *)
(***************************************************************************)
EXTENDS InetdiagerStater, SequenceTheorems, Induction

(* Types, and the order of the samples on their way.                       *)
KeptInv == InetdiagerStaterTypeOK /\ SamplesInOrder /\ NoCounterDecrease

LEMMA FamilyOfWorker == ASSUME NEW w \in Workers PROVE w[1] \in AddressFamilies
BY DEF Workers, WorkersOf

LEMMA KeptInit ==
    ASSUME InetdiagerStaterAssumption, InetdiagerStaterInit
    PROVE  KeptInv
<1>1. workerPc \in [Workers -> {"range", "send", "message"}]
  BY DEF InetdiagerStaterInit
<1>2. inetdiagerMsgsTotal \in [AddressFamilies -> Nat]
  BY DEF InetdiagerStaterInit
<1>3. inetdiagerStaterCh \in Seq(Samples) /\ Len(inetdiagerStaterCh) = 0
  BY DEF InetdiagerStaterInit
<1>4. panicked \in BOOLEAN /\ ~panicked
  BY Zenon DEF InetdiagerStaterInit
<1>5. InetdiagerStaterTypeOK
  <2>1. /\ inetdiagMsgCount \in [Workers -> Nat]
        /\ currentStats \in [Workers -> Nat]
        /\ oldStatsMap \in [Workers -> Nat]
        /\ inetdiagerMsgs \in [Workers -> Nat]
    BY DEF InetdiagerStaterInit
  <2>2. restarts \in 0 .. MaxRestarts /\ totalInetdiagerMsgs \in Nat
    BY DEF InetdiagerStaterInit, InetdiagerStaterAssumption
  <2> QED BY <1>1, <1>2, <1>3, <1>4, <2>1, <2>2
          DEF InetdiagerStaterTypeOK, InetdiagerStaterAssumption
<1>6. SamplesInOrder
  BY <1>3 DEF InetdiagerStaterInit, SamplesInOrder
<1> QED BY <1>4, <1>5, <1>6 DEF KeptInv, NoCounterDecrease

-----------------------------------------------------------------------------
(* A sample of what the worker has handled joins the channel in order.     *)
LEMMA SampleSent ==
    ASSUME InetdiagerStaterAssumption, KeptInv, restarts = 0,
           NEW w \in Workers,
           workerPc' = [workerPc EXCEPT ![w] = "message"],
           currentStats' \in [Workers -> Nat],
           \A v \in Workers : v # w => currentStats'[v] = currentStats[v],
           Len(inetdiagerStaterCh) < PromInetdiagerChSize,
           inetdiagerStaterCh' =
              Append(inetdiagerStaterCh, SampleOf(w, inetdiagMsgCount[w])),
           UNCHANGED <<inetdiagMsgCount, restarts, staterVars>>
    PROVE  KeptInv'
<1> DEFINE ch == inetdiagerStaterCh
           last == SampleOf(w, inetdiagMsgCount[w])
<1>1. last \in Samples /\ last.worker = w /\ last.count = inetdiagMsgCount[w]
  BY DEF KeptInv, InetdiagerStaterTypeOK, SampleOf, Samples
<1>2. /\ ch \in Seq(Samples) /\ ch' \in Seq(Samples) /\ Len(ch') = Len(ch) + 1
      /\ Len(ch) \in Nat
      /\ \A i \in 1 .. Len(ch) : ch'[i] = ch[i]
      /\ ch'[Len(ch) + 1] = last
  BY <1>1 DEF KeptInv, InetdiagerStaterTypeOK
<1>3. DOMAIN ch = 1 .. Len(ch) /\ DOMAIN ch' = 1 .. Len(ch) + 1
  BY <1>2
<1> HIDE DEF last
<1>4. InetdiagerStaterTypeOK'
  <2>1. Len(ch') <= PromInetdiagerChSize
    BY <1>2, Len(ch) \in Nat, PromInetdiagerChSize \in Nat
       DEF InetdiagerStaterAssumption
  <2>2. workerPc' \in [Workers -> {"range", "send", "message"}]
    BY DEF KeptInv, InetdiagerStaterTypeOK
  <2> QED BY <2>1, <2>2, <1>2 DEF KeptInv, InetdiagerStaterTypeOK, staterVars
<1>5. SamplesInOrder'
  <2>1. ASSUME NEW i \in 1 .. Len(ch) + 1
        PROVE  /\ oldStatsMap[ch'[i].worker] <= ch'[i].count
               /\ ch'[i].count <= inetdiagMsgCount[ch'[i].worker]
               /\ \A j \in 1 .. Len(ch) + 1 :
                     i < j /\ ch'[j].worker = ch'[i].worker
                        => ch'[i].count <= ch'[j].count
    <3>1. CASE i \in 1 .. Len(ch)
      <4>1. ch[i] \in Samples
        BY <3>1, <1>2
      <4>2. /\ oldStatsMap[ch[i].worker] <= ch[i].count
            /\ ch[i].count <= inetdiagMsgCount[ch[i].worker]
            /\ \A j \in 1 .. Len(ch) :
                  i < j /\ ch[j].worker = ch[i].worker => ch[i].count <= ch[j].count
        BY <3>1, <1>3 DEF KeptInv, SamplesInOrder
      <4>3. ch'[i] = ch[i]
        BY <3>1, <1>2
      <4>4. ASSUME NEW j \in 1 .. Len(ch) + 1, i < j, ch'[j].worker = ch'[i].worker
            PROVE  ch'[i].count <= ch'[j].count
        <5>1. CASE j \in 1 .. Len(ch)
          BY <5>1, <4>2, <4>3, <4>4, <1>2
        <5>2. CASE j = Len(ch) + 1
          BY <5>2, <4>2, <4>3, <4>4, <1>1, <1>2
        <5> QED BY <5>1, <5>2, <1>2
      <4> QED BY <4>2, <4>3, <4>4
    <3>2. CASE i = Len(ch) + 1
      <4>1. oldStatsMap[w] <= inetdiagMsgCount[w] /\ inetdiagMsgCount[w] \in Nat
        BY DEF KeptInv, SamplesInOrder, InetdiagerStaterTypeOK
      <4>2. ch'[i] = last
        BY <3>2, <1>2
      <4>3. ch'[i].worker = w /\ ch'[i].count = inetdiagMsgCount[w]
        BY <4>2, <1>1
      <4>4. ASSUME NEW j \in 1 .. Len(ch) + 1, i < j, ch'[j].worker = ch'[i].worker
            PROVE  ch'[i].count <= ch'[j].count
        BY <3>2, <4>4, <1>2
      <4> QED BY <4>1, <4>3, <4>4
    <3>3. i \in 1 .. Len(ch) \/ i = Len(ch) + 1
      BY <1>2
    <3> HIDE DEF ch
    <3> QED BY <3>1, <3>2, <3>3
  <2>2. ASSUME NEW v \in Workers, workerPc'[v] = "send"
        PROVE  currentStats'[v] = inetdiagMsgCount[v]
    BY <2>2 DEF KeptInv, SamplesInOrder, InetdiagerStaterTypeOK
  <2> QED BY <2>1, <2>2, <1>3 DEF KeptInv, SamplesInOrder, staterVars
<1> QED BY <1>4, <1>5 DEF KeptInv, NoCounterDecrease, staterVars

(* The steps of a worker keep the order.                                   *)
LEMMA KeptWorker ==
    ASSUME InetdiagerStaterAssumption, KeptInv, restarts = 0,
           NEW w \in Workers, WorkerStep(w)
    PROVE  KeptInv'
<1>1. CASE TakeMessage(w)
  <2>1. InetdiagerStaterTypeOK'
    BY <1>1 DEF KeptInv, InetdiagerStaterTypeOK, TakeMessage, staterVars
  <2>2. SamplesInOrder'
    BY <1>1 DEF KeptInv, SamplesInOrder, InetdiagerStaterTypeOK, TakeMessage, staterVars
  <2> QED BY <1>1, <2>1, <2>2 DEF KeptInv, NoCounterDecrease, TakeMessage, staterVars
<1>2. CASE TakeMessageAndSend(w)
  BY <1>2, SampleSent DEF TakeMessageAndSend, KeptInv, InetdiagerStaterTypeOK
<1>3. CASE TakeMessageAndBlock(w)
  <2>1. InetdiagerStaterTypeOK'
    BY <1>3 DEF KeptInv, InetdiagerStaterTypeOK, TakeMessageAndBlock, staterVars
  <2>2. SamplesInOrder'
    BY <1>3 DEF KeptInv, SamplesInOrder, InetdiagerStaterTypeOK, TakeMessageAndBlock,
                staterVars
  <2> QED BY <1>3, <2>1, <2>2 DEF KeptInv, NoCounterDecrease, TakeMessageAndBlock,
                                  staterVars
<1>4. CASE SendBlocked(w)
  <2>1. currentStats[w] = inetdiagMsgCount[w]
    BY <1>4 DEF KeptInv, SamplesInOrder, SendBlocked
  <2> QED BY <1>4, <2>1, SampleSent DEF SendBlocked, KeptInv, InetdiagerStaterTypeOK
<1>5. CASE CountMessage(w)
  <2>1. InetdiagerStaterTypeOK'
    BY <1>5 DEF KeptInv, InetdiagerStaterTypeOK, CountMessage, staterVars
  <2>2. \A v \in Workers : /\ inetdiagMsgCount[v] \in Nat
                           /\ inetdiagMsgCount'[v] \in Nat
                           /\ inetdiagMsgCount[v] <= inetdiagMsgCount'[v]
                           /\ workerPc'[v] = "send" =>
                                 inetdiagMsgCount'[v] = inetdiagMsgCount[v]
                                 /\ workerPc[v] = "send"
    BY <1>5 DEF KeptInv, InetdiagerStaterTypeOK, CountMessage
  <2>3. \A i \in DOMAIN inetdiagerStaterCh :
           inetdiagerStaterCh[i].worker \in Workers /\ inetdiagerStaterCh[i].count \in Nat
    <3>1. inetdiagerStaterCh \in Seq(Samples)
      BY DEF KeptInv, InetdiagerStaterTypeOK
    <3>2. \A i \in DOMAIN inetdiagerStaterCh : inetdiagerStaterCh[i] \in Samples
      BY <3>1
    <3> QED BY <3>2 DEF Samples
  <2>4. \A v \in Workers : oldStatsMap[v] \in Nat
    BY DEF KeptInv, InetdiagerStaterTypeOK
  <2>5. SamplesInOrder'
    BY <1>5, <2>2, <2>3, <2>4 DEF KeptInv, SamplesInOrder, CountMessage, staterVars
  <2> QED BY <1>5, <2>1, <2>5 DEF KeptInv, NoCounterDecrease, CountMessage, staterVars
<1> QED BY <1>1, <1>2, <1>3, <1>4, <1>5 DEF WorkerStep

-----------------------------------------------------------------------------
(* The first sample in the channel is not below the last one received.     *)
LEMMA HeadNotBelow ==
    ASSUME KeptInv, restarts = 0, inetdiagerStaterCh # <<>>
    PROVE  /\ Head(inetdiagerStaterCh) \in Samples
           /\ Diff(Head(inetdiagerStaterCh)) \in Nat
           /\ MayAdd(Diff(Head(inetdiagerStaterCh)))
<1>1. /\ 1 \in DOMAIN inetdiagerStaterCh
      /\ Head(inetdiagerStaterCh) = inetdiagerStaterCh[1]
      /\ inetdiagerStaterCh[1] \in Samples
  BY DEF KeptInv, InetdiagerStaterTypeOK
<1>2. oldStatsMap[inetdiagerStaterCh[1].worker] <= inetdiagerStaterCh[1].count
  BY <1>1 DEF KeptInv, SamplesInOrder
<1>3. /\ inetdiagerStaterCh[1].worker \in Workers
      /\ inetdiagerStaterCh[1].count \in Nat
      /\ oldStatsMap[inetdiagerStaterCh[1].worker] \in Nat
  BY <1>1 DEF Samples, KeptInv, InetdiagerStaterTypeOK
<1> QED BY <1>1, <1>2, <1>3 DEF Diff, MayAdd

(* Receiving the first sample keeps the order of the others.               *)
LEMMA KeptReceive ==
    ASSUME InetdiagerStaterAssumption, KeptInv, restarts = 0, ReceiveSample
    PROVE  KeptInv'
<1> DEFINE ch == inetdiagerStaterCh
<1>1. /\ ch # <<>> /\ Head(ch) \in Samples
      /\ Diff(Head(ch)) \in Nat
  BY HeadNotBelow DEF ReceiveSample
<1>2. PICK w \in Workers, n \in Nat, diff \in Nat :
         /\ Head(ch).worker = w /\ Head(ch).count = n
         /\ diff = Diff(Head(ch)) /\ diff = n - oldStatsMap[w]
  BY <1>1 DEF Samples, Diff
<1>3. /\ ch \in Seq(Samples) /\ ch' \in Seq(Samples)
      /\ Len(ch) \in Nat \ {0} /\ Len(ch') = Len(ch) - 1
      /\ ch[1].worker = w /\ ch[1].count = n
      /\ \A i \in 1 .. Len(ch) - 1 : ch'[i] = ch[i + 1]
  BY <1>1, <1>2 DEF ReceiveSample, KeptInv, InetdiagerStaterTypeOK
<1>4. DOMAIN ch = 1 .. Len(ch) /\ DOMAIN ch' = 1 .. Len(ch) - 1
  BY <1>3
<1>5. /\ oldStatsMap' = [oldStatsMap EXCEPT ![w] = n]
      /\ inetdiagerMsgs' = [inetdiagerMsgs EXCEPT ![w] = @ + diff]
      /\ inetdiagerMsgsTotal' = [inetdiagerMsgsTotal EXCEPT ![w[1]] = @ + diff]
      /\ totalInetdiagerMsgs' = totalInetdiagerMsgs + diff
      /\ UNCHANGED <<workerPc, inetdiagMsgCount, currentStats, restarts, panicked>>
  BY <1>2 DEF ReceiveSample, CountSample
<1>6. InetdiagerStaterTypeOK'
  <2>1. /\ oldStatsMap' \in [Workers -> Nat]
        /\ inetdiagerMsgs' \in [Workers -> Nat]
    BY <1>5 DEF KeptInv, InetdiagerStaterTypeOK
  <2>2. /\ inetdiagerMsgsTotal' \in [AddressFamilies -> Nat]
        /\ totalInetdiagerMsgs' \in Nat
    <3>1. PICK af \in AddressFamilies : af = w[1]
      BY FamilyOfWorker
    <3>2. inetdiagerMsgsTotal' \in [AddressFamilies -> Nat]
      BY <3>1, <1>5 DEF KeptInv, InetdiagerStaterTypeOK
    <3>3. totalInetdiagerMsgs' \in Nat
      BY <1>5 DEF KeptInv, InetdiagerStaterTypeOK
    <3> QED BY <3>2, <3>3
  <2>3. Len(ch') <= PromInetdiagerChSize
    BY <1>3 DEF KeptInv, InetdiagerStaterTypeOK, InetdiagerStaterAssumption
  <2> QED BY <2>1, <2>2, <2>3, <1>3, <1>5 DEF KeptInv, InetdiagerStaterTypeOK
<1>7. SamplesInOrder'
  <2>1. ASSUME NEW i \in 1 .. Len(ch) - 1
        PROVE  /\ oldStatsMap'[ch'[i].worker] <= ch'[i].count
               /\ ch'[i].count <= inetdiagMsgCount[ch'[i].worker]
               /\ \A j \in 1 .. Len(ch) - 1 :
                     i < j /\ ch'[j].worker = ch'[i].worker
                        => ch'[i].count <= ch'[j].count
    <3>1. ch'[i] = ch[i + 1] /\ i + 1 \in 1 .. Len(ch) /\ 1 \in 1 .. Len(ch) /\ 1 < i + 1
      BY <1>3
    <3>2. ch[i + 1] \in Samples
      BY <3>1, <1>3
    <3>3. /\ oldStatsMap[ch[i + 1].worker] <= ch[i + 1].count
          /\ ch[i + 1].count <= inetdiagMsgCount[ch[i + 1].worker]
          /\ ch[i + 1].worker = w => n <= ch[i + 1].count
          /\ \A j \in 1 .. Len(ch) :
                i + 1 < j /\ ch[j].worker = ch[i + 1].worker
                   => ch[i + 1].count <= ch[j].count
      <4>1. ch[1].worker = w /\ ch[1].count = n
        BY <1>3
      <4>2. /\ oldStatsMap[ch[i + 1].worker] <= ch[i + 1].count
            /\ ch[i + 1].count <= inetdiagMsgCount[ch[i + 1].worker]
            /\ \A j \in 1 .. Len(ch) :
                  i + 1 < j /\ ch[j].worker = ch[i + 1].worker
                     => ch[i + 1].count <= ch[j].count
            /\ \A j \in 1 .. Len(ch) :
                  1 < j /\ ch[j].worker = ch[1].worker => ch[1].count <= ch[j].count
        BY <3>1, <1>4 DEF KeptInv, SamplesInOrder
      <4> QED BY <3>1, <4>1, <4>2
    <3>4. oldStatsMap'[ch[i + 1].worker] <= ch[i + 1].count
      BY <3>2, <3>3, <1>2, <1>5 DEF Samples, KeptInv, InetdiagerStaterTypeOK
    <3>5. ASSUME NEW j \in 1 .. Len(ch) - 1, i < j, ch'[j].worker = ch'[i].worker
          PROVE  ch'[i].count <= ch'[j].count
      <4>1. ch'[j] = ch[j + 1] /\ j + 1 \in 1 .. Len(ch) /\ i + 1 < j + 1
        BY <3>5, <1>3
      <4> QED BY <4>1, <3>1, <3>3, <3>5
    <3> QED BY <3>1, <3>3, <3>4, <3>5
  <2>2. ASSUME NEW v \in Workers
        PROVE  /\ inetdiagerMsgs'[v] = oldStatsMap'[v]
               /\ oldStatsMap'[v] <= inetdiagMsgCount[v]
               /\ workerPc[v] = "send" => currentStats[v] = inetdiagMsgCount[v]
    <3>1. n <= inetdiagMsgCount[w]
      <4>1. 1 \in DOMAIN ch
        BY <1>3, <1>4
      <4> QED BY <4>1, <1>3 DEF KeptInv, SamplesInOrder
    <3>2. /\ inetdiagerMsgs[v] = oldStatsMap[v]
          /\ oldStatsMap[v] <= inetdiagMsgCount[v]
          /\ workerPc[v] = "send" => currentStats[v] = inetdiagMsgCount[v]
      BY DEF KeptInv, SamplesInOrder
    <3>3. /\ oldStatsMap \in [Workers -> Nat] /\ inetdiagerMsgs \in [Workers -> Nat]
      BY DEF KeptInv, InetdiagerStaterTypeOK
    <3>4. CASE v = w
      BY <3>1, <3>2, <3>3, <3>4, <1>2, <1>5
    <3>5. CASE v # w
      BY <3>2, <3>3, <3>5, <1>2, <1>5
    <3> QED BY <3>4, <3>5
  <2> QED BY <2>1, <2>2, <1>4, <1>5 DEF SamplesInOrder
<1> QED BY <1>5, <1>6, <1>7 DEF KeptInv, NoCounterDecrease

-----------------------------------------------------------------------------
(* KeptInv holds until workers are started anew.                           *)
LEMMA KeptInvariant ==
    InetdiagerStaterSpec => [](restarts \in Nat /\ (restarts = 0 => KeptInv))
<1> DEFINE Inv == restarts \in Nat /\ (restarts = 0 => KeptInv)
<1>1. InetdiagerStaterInit => Inv
  <2>1. InetdiagerStaterInit => restarts \in Nat
    BY DEF InetdiagerStaterInit
  <2>2. InetdiagerStaterInit => KeptInv
    BY KeptInit, InetdiagerStaterAssumption
  <2> QED BY <2>1, <2>2
<1>2. Inv /\ [InetdiagerStaterNext]_inetdiagerStaterVars => Inv'
  <2> SUFFICES ASSUME Inv, [InetdiagerStaterNext]_inetdiagerStaterVars
               PROVE  Inv'
    OBVIOUS
  <2>1. ASSUME NEW w \in Workers, WorkerStep(w) PROVE Inv'
    <3>1. restarts' = restarts
      BY <2>1 DEF WorkerStep, TakeMessage, TakeMessageAndSend, TakeMessageAndBlock,
                  SendBlocked, CountMessage
    <3> QED BY <2>1, <3>1, KeptWorker, InetdiagerStaterAssumption
  <2>2. ASSUME NEW af \in AddressFamilies, RestartWorkers(af) PROVE Inv'
    <3>1. restarts' = restarts + 1
      BY <2>2 DEF RestartWorkers
    <3> QED BY <3>1
  <2>3. CASE ReceiveSample
    <3>1. restarts' = restarts
      BY <2>3 DEF ReceiveSample
    <3> QED BY <2>3, <3>1, KeptReceive, InetdiagerStaterAssumption
  <2>4. CASE Panic
    <3>1. restarts' = restarts
      BY <2>4 DEF Panic
    <3>2. restarts # 0
      BY <2>4, HeadNotBelow DEF Panic
    <3> QED BY <3>1, <3>2
  <2>5. CASE UNCHANGED inetdiagerStaterVars
    BY <2>5 DEF KeptInv, InetdiagerStaterTypeOK, SamplesInOrder, NoCounterDecrease,
                inetdiagerStaterVars, staterVars
  <2> QED BY <2>1, <2>2, <2>3, <2>4, <2>5 DEF InetdiagerStaterNext
<1> QED BY <1>1, <1>2, PTL DEF InetdiagerStaterSpec

(* Samples arrive in the order they were made in, with or without a send   *)
(* that blocked, until workers are started anew.                           *)
THEOREM SamplesArriveInOrder == InetdiagerStaterSpec => []SamplesInOrder
<1>1. (restarts = 0 => KeptInv) => SamplesInOrder
  BY DEF KeptInv, SamplesInOrder
<1> QED BY <1>1, KeptInvariant, PTL

(* No difference of samples is negative, and so no Prometheus counter is   *)
(* decreased, until workers are started anew.                              *)
THEOREM DecreaseNeedsRestart == InetdiagerStaterSpec => []NoDecreaseWhileKept
<1>1. (restarts = 0 => KeptInv) => NoDecreaseWhileKept
  BY Zenon DEF KeptInv, NoDecreaseWhileKept, NoCounterDecrease
<1> QED BY <1>1, KeptInvariant, PTL

(* With workers kept no counter is ever decreased.                         *)
THEOREM CountersOnlyGrow ==
    ASSUME ~ShutdownWorkers
    PROVE  InetdiagerStaterSpec => []NoCounterDecrease
<1> DEFINE NoRestart == restarts = 0
<1>1. InetdiagerStaterInit => NoRestart
  BY DEF InetdiagerStaterInit
<1>2. NoRestart /\ [InetdiagerStaterNext]_inetdiagerStaterVars => NoRestart'
  BY DEF InetdiagerStaterNext, WorkerStep, TakeMessage, TakeMessageAndSend,
         TakeMessageAndBlock, SendBlocked, CountMessage, RestartWorkers,
         ReceiveSample, Panic, inetdiagerStaterVars
<1>3. NoRestart /\ NoDecreaseWhileKept => NoCounterDecrease
  BY Zenon DEF NoDecreaseWhileKept, NoCounterDecrease
<1> QED BY <1>1, <1>2, <1>3, DecreaseNeedsRestart, PTL DEF InetdiagerStaterSpec

-----------------------------------------------------------------------------
(* Restarts included.                                                      *)

(* A sample of any count joins the channel.                                *)
LEMMA TypedSend ==
    ASSUME InetdiagerStaterAssumption, InetdiagerStaterTypeOK,
           NEW w \in Workers, NEW count \in Nat,
           Len(inetdiagerStaterCh) < PromInetdiagerChSize,
           inetdiagerStaterCh' = Append(inetdiagerStaterCh, SampleOf(w, count))
    PROVE  /\ inetdiagerStaterCh' \in Seq(Samples)
           /\ Len(inetdiagerStaterCh') <= PromInetdiagerChSize
<1>1. SampleOf(w, count) \in Samples
  BY DEF SampleOf, Samples
<1>2. /\ inetdiagerStaterCh \in Seq(Samples)
      /\ Len(inetdiagerStaterCh) \in Nat
      /\ PromInetdiagerChSize \in Nat
  BY DEF InetdiagerStaterTypeOK, InetdiagerStaterAssumption
<1>3. /\ inetdiagerStaterCh' \in Seq(Samples)
      /\ Len(inetdiagerStaterCh') = Len(inetdiagerStaterCh) + 1
  BY <1>1, <1>2
<1> QED BY <1>2, <1>3

(* The steps of a worker keep the types.                                   *)
LEMMA TypedWorker ==
    ASSUME InetdiagerStaterAssumption, InetdiagerStaterTypeOK,
           NEW w \in Workers, WorkerStep(w)
    PROVE  InetdiagerStaterTypeOK'
<1>1. CASE TakeMessage(w)
  BY <1>1 DEF InetdiagerStaterTypeOK, TakeMessage, staterVars
<1>2. CASE TakeMessageAndSend(w)
  <2>1. inetdiagMsgCount[w] \in Nat
    BY DEF InetdiagerStaterTypeOK
  <2>2. /\ inetdiagerStaterCh' \in Seq(Samples)
        /\ Len(inetdiagerStaterCh') <= PromInetdiagerChSize
    BY <1>2, <2>1, TypedSend DEF TakeMessageAndSend
  <2> QED BY <1>2, <2>2 DEF InetdiagerStaterTypeOK, TakeMessageAndSend, staterVars
<1>3. CASE TakeMessageAndBlock(w)
  BY <1>3 DEF InetdiagerStaterTypeOK, TakeMessageAndBlock, staterVars
<1>4. CASE SendBlocked(w)
  <2>1. currentStats[w] \in Nat
    BY DEF InetdiagerStaterTypeOK
  <2>2. /\ inetdiagerStaterCh' \in Seq(Samples)
        /\ Len(inetdiagerStaterCh') <= PromInetdiagerChSize
    BY <1>4, <2>1, TypedSend DEF SendBlocked
  <2> QED BY <1>4, <2>2 DEF InetdiagerStaterTypeOK, SendBlocked, staterVars
<1>5. CASE CountMessage(w)
  BY <1>5 DEF InetdiagerStaterTypeOK, CountMessage, staterVars
<1> QED BY <1>1, <1>2, <1>3, <1>4, <1>5 DEF WorkerStep

(* Whatever sample comes first, it is counted with what it exceeds the     *)
(* last one by.                                                            *)
LEMMA SampleCounted ==
    ASSUME InetdiagerStaterTypeOK, ReceiveSample
    PROVE  \E w \in Workers, n \in Nat, diff \in Nat :
              /\ w[1] \in AddressFamilies
              /\ oldStatsMap' = [oldStatsMap EXCEPT ![w] = n]
              /\ inetdiagerMsgs' = [inetdiagerMsgs EXCEPT ![w] = @ + diff]
              /\ inetdiagerMsgsTotal' = [inetdiagerMsgsTotal EXCEPT ![w[1]] = @ + diff]
              /\ totalInetdiagerMsgs' = totalInetdiagerMsgs + diff
<1> DEFINE sample == Head(inetdiagerStaterCh)
<1>1. sample \in Samples
  BY DEF InetdiagerStaterTypeOK, ReceiveSample
<1>2. sample.worker \in Workers /\ sample.count \in Nat
  BY <1>1 DEF Samples
<1>3. sample.worker[1] \in AddressFamilies
  BY <1>2, FamilyOfWorker
<1>4. oldStatsMap[sample.worker] \in Nat
  BY <1>2 DEF InetdiagerStaterTypeOK
<1>5. Diff(sample) \in Nat
  BY <1>2, <1>4 DEF Diff, MayAdd, ReceiveSample
<1>6. CountSample(sample)
  BY DEF ReceiveSample
<1> HIDE DEF sample
<1> QED BY <1>2, <1>3, <1>5, <1>6 DEF CountSample

(* Every variable keeps its type, and the channel its size, whatever the   *)
(* interleaving of the workers of all families, of their restarts and of   *)
(* the stater.                                                             *)
THEOREM InetdiagerStaterTypes == InetdiagerStaterSpec => []InetdiagerStaterTypeOK
<1>1. InetdiagerStaterInit => InetdiagerStaterTypeOK
  BY KeptInit, InetdiagerStaterAssumption DEF KeptInv
<1>2. InetdiagerStaterTypeOK /\ [InetdiagerStaterNext]_inetdiagerStaterVars
         => InetdiagerStaterTypeOK'
  <2> SUFFICES ASSUME InetdiagerStaterTypeOK,
                      [InetdiagerStaterNext]_inetdiagerStaterVars
               PROVE  InetdiagerStaterTypeOK'
    OBVIOUS
  <2> USE InetdiagerStaterAssumption
  <2>1. ASSUME NEW w \in Workers, WorkerStep(w) PROVE InetdiagerStaterTypeOK'
    BY <2>1, TypedWorker
  <2>2. ASSUME NEW af \in AddressFamilies, RestartWorkers(af)
        PROVE  InetdiagerStaterTypeOK'
    <3>1. inetdiagMsgCount' \in [Workers -> Nat]
      BY <2>2 DEF InetdiagerStaterTypeOK, RestartWorkers
    <3>2. restarts' \in 0 .. MaxRestarts
      BY <2>2 DEF InetdiagerStaterTypeOK, RestartWorkers, InetdiagerStaterAssumption
    <3> QED BY <2>2, <3>1, <3>2
            DEF InetdiagerStaterTypeOK, RestartWorkers, staterVars
  <2>3. CASE ReceiveSample
    <3>1. PICK w \in Workers, n \in Nat, diff \in Nat :
             /\ w[1] \in AddressFamilies
             /\ oldStatsMap' = [oldStatsMap EXCEPT ![w] = n]
             /\ inetdiagerMsgs' = [inetdiagerMsgs EXCEPT ![w] = @ + diff]
             /\ inetdiagerMsgsTotal' = [inetdiagerMsgsTotal EXCEPT ![w[1]] = @ + diff]
             /\ totalInetdiagerMsgs' = totalInetdiagerMsgs + diff
      BY <2>3, SampleCounted
    <3>2. /\ oldStatsMap' \in [Workers -> Nat]
          /\ inetdiagerMsgs' \in [Workers -> Nat]
          /\ totalInetdiagerMsgs' \in Nat
      BY <3>1 DEF InetdiagerStaterTypeOK
    <3>3. inetdiagerMsgsTotal' \in [AddressFamilies -> Nat]
      <4> DEFINE af == w[1]
      <4>1. af \in AddressFamilies
        BY <3>1
      <4>2. inetdiagerMsgsTotal' = [inetdiagerMsgsTotal EXCEPT ![af] = @ + diff]
        BY <3>1
      <4> HIDE DEF af
      <4> QED BY <4>1, <4>2 DEF InetdiagerStaterTypeOK
    <3>4. /\ inetdiagerStaterCh' \in Seq(Samples)
          /\ Len(inetdiagerStaterCh') <= PromInetdiagerChSize
      BY <2>3 DEF InetdiagerStaterTypeOK, ReceiveSample, InetdiagerStaterAssumption
    <3> QED BY <2>3, <3>2, <3>3, <3>4 DEF InetdiagerStaterTypeOK, ReceiveSample
  <2>4. CASE Panic
    <3>1. panicked' \in BOOLEAN
      BY <2>4, Zenon DEF Panic
    <3> QED BY <2>4, <3>1 DEF InetdiagerStaterTypeOK, Panic
  <2>5. CASE UNCHANGED inetdiagerStaterVars
    BY <2>5 DEF InetdiagerStaterTypeOK, inetdiagerStaterVars, staterVars
  <2> QED BY <2>1, <2>2, <2>3, <2>4, <2>5 DEF InetdiagerStaterNext
<1> QED BY <1>1, <1>2, PTL DEF InetdiagerStaterSpec

-----------------------------------------------------------------------------
(* There are finitely many workers.                                        *)
LEMMA FiniteWorkers ==
    ASSUME InetdiagerStaterAssumption
    PROVE  IsFiniteSet(Workers) /\ \A af \in AddressFamilies : IsFiniteSet(WorkersOf(af))
<1>1. ASSUME NEW af \in AddressFamilies PROVE IsFiniteSet(WorkersOf(af))
  <2>1. Inetdiagers[af] - 1 \in Int
    BY DEF InetdiagerStaterAssumption
  <2>2. IsFiniteSet(0 .. Inetdiagers[af] - 1)
    BY <2>1, FS_Interval
  <2>3. IsFiniteSet({af})
    BY FS_Singleton
  <2> QED BY <2>2, <2>3, FS_Product DEF WorkersOf
<1> DEFINE Of == {WorkersOf(af) : af \in AddressFamilies}
           of == [af \in AddressFamilies |-> WorkersOf(af)]
<1>2. IsFiniteSet(Of)
  <2>1. IsFiniteSet(AddressFamilies)
    BY DEF InetdiagerStaterAssumption
  <2>2. of \in Surjection(AddressFamilies, Of)
    BY DEF Surjection
  <2> HIDE DEF of, Of
  <2> QED BY <2>1, <2>2, FS_Surjection
<1>3. \A W \in Of : IsFiniteSet(W)
  BY <1>1
<1>4. IsFiniteSet(UNION Of)
  <2> HIDE DEF Of
  <2> QED BY <1>2, <1>3, FS_UNION
<1> QED BY <1>1, <1>4 DEF Workers

(* A sample grows the counters of its worker, of its worker's family and   *)
(* the total by the same, and no other.                                    *)
LEMMA TotalsReceive ==
    ASSUME InetdiagerStaterAssumption, InetdiagerStaterTypeOK, TotalsAddUp,
           ReceiveSample
    PROVE  TotalsAddUp'
<1>1. PICK w \in Workers, n \in Nat, diff \in Nat :
         /\ w[1] \in AddressFamilies
         /\ oldStatsMap' = [oldStatsMap EXCEPT ![w] = n]
         /\ inetdiagerMsgs' = [inetdiagerMsgs EXCEPT ![w] = @ + diff]
         /\ inetdiagerMsgsTotal' = [inetdiagerMsgsTotal EXCEPT ![w[1]] = @ + diff]
         /\ totalInetdiagerMsgs' = totalInetdiagerMsgs + diff
  BY SampleCounted
<1> DEFINE f == inetdiagerMsgs
           e == inetdiagerMsgs'
<1>2. /\ \A v \in Workers : f[v] \in Nat
      /\ e[w] = f[w] + diff
      /\ \A v \in Workers \ {w} : e[v] = f[v]
  BY <1>1 DEF InetdiagerStaterTypeOK
<1>3. \A af \in AddressFamilies : WorkersOf(af) \subseteq Workers
  BY DEF Workers
<1>4. \A af \in AddressFamilies : w \in WorkersOf(af) <=> w[1] = af
  BY DEF Workers, WorkersOf
<1>5. /\ \A af \in AddressFamilies :
            inetdiagerMsgsTotal[af] = SumFunctionOnSet(f, WorkersOf(af))
      /\ totalInetdiagerMsgs = SumFunctionOnSet(f, Workers)
  BY DEF TotalsAddUp
<1>6. inetdiagerMsgsTotal \in [AddressFamilies -> Nat]
  BY DEF InetdiagerStaterTypeOK
<1> HIDE DEF f, e
<1>7. ASSUME NEW af \in AddressFamilies
      PROVE  inetdiagerMsgsTotal'[af] = SumFunctionOnSet(e, WorkersOf(af))
  <2>1. IsFiniteSet(WorkersOf(af)) /\ \A v \in WorkersOf(af) : f[v] \in Nat
    BY <1>2, <1>3, FiniteWorkers
  <2>2. CASE w[1] = af
    <3>1. SumFunctionOnSet(e, WorkersOf(af)) = SumFunctionOnSet(f, WorkersOf(af)) + diff
      BY <2>1, <2>2, <1>2, <1>3, <1>4, SumWithTermGrown
    <3>2. inetdiagerMsgsTotal'[af] = inetdiagerMsgsTotal[af] + diff
      BY <2>2, <1>1, <1>6
    <3> QED BY <3>1, <3>2, <1>5
  <2>3. CASE w[1] # af
    <3>1. \A v \in WorkersOf(af) : f[v] = e[v]
      BY <2>3, <1>2, <1>3, <1>4
    <3>2. SumFunctionOnSet(f, WorkersOf(af)) = SumFunctionOnSet(e, WorkersOf(af))
      BY <2>1, <3>1, SumOfSame
    <3>3. inetdiagerMsgsTotal'[af] = inetdiagerMsgsTotal[af]
      BY <2>3, <1>1, <1>6
    <3> QED BY <3>2, <3>3, <1>5
  <2> QED BY <2>2, <2>3
<1>8. totalInetdiagerMsgs' = SumFunctionOnSet(e, Workers)
  <2>1. SumFunctionOnSet(e, Workers) = SumFunctionOnSet(f, Workers) + diff
    BY <1>2, FiniteWorkers, SumWithTermGrown
  <2> QED BY <2>1, <1>1, <1>5
<1> QED BY <1>7, <1>8 DEF TotalsAddUp, e, WorkersOf, Workers

(* The counters of the families and the stater's own total are the sums of *)
(* the counters of the workers, however often workers are started anew.    *)
THEOREM TotalsAreSums == InetdiagerStaterSpec => []TotalsAddUp
<1>1. InetdiagerStaterInit => TotalsAddUp
  <2> SUFFICES ASSUME InetdiagerStaterInit PROVE TotalsAddUp
    OBVIOUS
  <2>1. /\ \A w \in Workers : inetdiagerMsgs[w] = 0
        /\ \A af \in AddressFamilies : inetdiagerMsgsTotal[af] = 0
        /\ totalInetdiagerMsgs = 0
    BY DEF InetdiagerStaterInit
  <2>2. \A af \in AddressFamilies : WorkersOf(af) \subseteq Workers
    BY DEF Workers
  <2>3. ASSUME NEW af \in AddressFamilies
        PROVE  SumFunctionOnSet(inetdiagerMsgs, WorkersOf(af)) = 0
    <3>1. \A w \in WorkersOf(af) : inetdiagerMsgs[w] = 0
      BY <2>1, <2>2
    <3> QED BY <3>1, FiniteWorkers, InetdiagerStaterAssumption, SumOfZeros
  <2>4. SumFunctionOnSet(inetdiagerMsgs, Workers) = 0
    BY <2>1, FiniteWorkers, InetdiagerStaterAssumption, SumOfZeros
  <2> QED BY <2>1, <2>3, <2>4 DEF TotalsAddUp
<1>2. InetdiagerStaterTypeOK /\ TotalsAddUp
         /\ [InetdiagerStaterNext]_inetdiagerStaterVars => TotalsAddUp'
  <2> SUFFICES ASSUME InetdiagerStaterTypeOK, TotalsAddUp,
                      [InetdiagerStaterNext]_inetdiagerStaterVars
               PROVE  TotalsAddUp'
    OBVIOUS
  <2>1. CASE ReceiveSample
    BY <2>1, TotalsReceive, InetdiagerStaterAssumption
  <2>2. ASSUME UNCHANGED <<inetdiagerMsgs, inetdiagerMsgsTotal, totalInetdiagerMsgs>>
        PROVE  TotalsAddUp'
    BY <2>2 DEF TotalsAddUp, WorkersOf, Workers
  <2>3. CASE ~ReceiveSample
    BY <2>2, <2>3
       DEF InetdiagerStaterNext, WorkerStep, TakeMessage, TakeMessageAndSend,
           TakeMessageAndBlock, SendBlocked, CountMessage, RestartWorkers, Panic,
           staterVars, inetdiagerStaterVars
  <2> QED BY <2>1, <2>3
<1> QED BY <1>1, <1>2, InetdiagerStaterTypes, PTL DEF InetdiagerStaterSpec
=============================================================================
