-------------------------- MODULE InetdiagerStater --------------------------
(***************************************************************************)
(* The statistics of the inetdiagers: each keeps running counts of what it *)
(* has handled, and when its ticker has fired sends a sample of them, with *)
(* its next message, to the one InetdiagerStater (pkg/inetdiagerstater),   *)
(* which adds the difference to the last sample of the same worker to the  *)
(* Prometheus counters and keeps totals of its own.                        *)
(*                                                                         *)
(* The count of messages stands for all eight counts of a sample: each     *)
(* only grows while its worker lives, and the stater treats them alike.    *)
(* A tick may have come before any message; when the stater sends a statsd *)
(* message, and what it says, is left out.                                 *)
(***************************************************************************)
EXTENDS Integers, Sequences, FiniteSets, Functions

CONSTANTS AddressFamilies,
          Inetdiagers,           (* how many workers a family has:          *)
                                 (* -inetdiagers4, -inetdiagers6            *)
          PromInetdiagerChSize,  (* -promInetdiagerChSize                   *)
          ShutdownWorkers,       (* -shutdownWorkers                        *)
          MaxMessages,           (* bound of the model: messages a worker   *)
                                 (* handles before it is shut down          *)
          MaxRestarts            (* bound of the model: how often workers   *)
                                 (* are shut down and started again         *)

ASSUME InetdiagerStaterAssumption ==
    /\ IsFiniteSet(AddressFamilies)
    /\ Inetdiagers \in [AddressFamilies -> Nat \ {0}]
    /\ PromInetdiagerChSize \in Nat \ {0}
    /\ ShutdownWorkers \in BOOLEAN
    /\ MaxMessages \in Nat
    /\ MaxRestarts \in Nat

VARIABLES
    workerPc,            (* where a worker is in its loop                   *)
    inetdiagMsgCount,    (* its running count                               *)
    currentStats,        (* the sample it last made                         *)
    restarts,            (* restarts of workers of any family               *)
    inetdiagerStaterCh,  (* the channel all workers share                   *)
    oldStatsMap,         (* the last sample received of each worker         *)
    inetdiagerMsgs,      (* Prometheus counter of each worker               *)
    inetdiagerMsgsTotal, (* Prometheus counter of each family               *)
    totalInetdiagerMsgs, (* the stater's own total                          *)
    panicked             (* a counter was to be decreased                   *)

staterVars == <<oldStatsMap, inetdiagerMsgs, inetdiagerMsgsTotal,
                totalInetdiagerMsgs, panicked>>
inetdiagerStaterVars == <<workerPc, inetdiagMsgCount, currentStats,
                          restarts, inetdiagerStaterCh, staterVars>>

(* A worker is named by its family and its id.                             *)
WorkersOf(af) == {af} \X (0 .. Inetdiagers[af] - 1)
Workers == UNION {WorkersOf(af) : af \in AddressFamilies}

Samples == [worker : Workers, count : Nat]

InetdiagerStaterTypeOK ==
    /\ workerPc \in [Workers -> {"range", "send", "message"}]
    /\ inetdiagMsgCount \in [Workers -> Nat]
    /\ currentStats \in [Workers -> Nat]
    /\ restarts \in 0 .. MaxRestarts
    /\ inetdiagerStaterCh \in Seq(Samples)
    /\ Len(inetdiagerStaterCh) <= PromInetdiagerChSize
    /\ oldStatsMap \in [Workers -> Nat]
    /\ inetdiagerMsgs \in [Workers -> Nat]
    /\ inetdiagerMsgsTotal \in [AddressFamilies -> Nat]
    /\ totalInetdiagerMsgs \in Nat
    /\ panicked \in BOOLEAN

InetdiagerStaterInit ==
    /\ workerPc = [w \in Workers |-> "range"]
    /\ inetdiagMsgCount = [w \in Workers |-> 0]
    /\ currentStats = [w \in Workers |-> 0]
    /\ restarts = 0
    /\ inetdiagerStaterCh = <<>>
    /\ oldStatsMap = [w \in Workers |-> 0]
    /\ inetdiagerMsgs = [w \in Workers |-> 0]
    /\ inetdiagerMsgsTotal = [af \in AddressFamilies |-> 0]
    /\ totalInetdiagerMsgs = 0
    /\ panicked = FALSE

-----------------------------------------------------------------------------
HasMessage(w) == workerPc[w] = "range" /\ inetdiagMsgCount[w] < MaxMessages

SampleOf(w, count) == [worker |-> w, count |-> count]

(* The next message of an inetdiager, and no tick has come.                *)
TakeMessage(w) ==
    /\ HasMessage(w)
    /\ workerPc' = [workerPc EXCEPT ![w] = "message"]
    /\ UNCHANGED <<inetdiagMsgCount, currentStats, inetdiagerStaterCh, restarts, staterVars>>

(* Mutant of TakeMessageAndSend: the send does not look for room.          *)
SendUnbounded(w) ==
    /\ HasMessage(w)
    /\ workerPc' = [workerPc EXCEPT ![w] = "message"]
    /\ currentStats' = [currentStats EXCEPT ![w] = inetdiagMsgCount[w]]
    /\ inetdiagerStaterCh' =
          Append(inetdiagerStaterCh, SampleOf(w, inetdiagMsgCount[w]))
    /\ UNCHANGED <<inetdiagMsgCount, restarts, staterVars>>

(* The next message, and <-statsTicker.C: a sample of what was handled     *)
(* before this message is sent ...                                         *)
TakeMessageAndSend(w) ==
    /\ HasMessage(w)
    /\ workerPc' = [workerPc EXCEPT ![w] = "message"]
    /\ currentStats' = [currentStats EXCEPT ![w] = inetdiagMsgCount[w]]
    /\ Len(inetdiagerStaterCh) < PromInetdiagerChSize
    /\ inetdiagerStaterCh' =
          Append(inetdiagerStaterCh, SampleOf(w, inetdiagMsgCount[w]))
    /\ UNCHANGED <<inetdiagMsgCount, restarts, staterVars>>

(* ... or would block, and is sent by a send that does.                    *)
TakeMessageAndBlock(w) ==
    /\ HasMessage(w)
    /\ workerPc' = [workerPc EXCEPT ![w] = "send"]
    /\ currentStats' = [currentStats EXCEPT ![w] = inetdiagMsgCount[w]]
    /\ Len(inetdiagerStaterCh) >= PromInetdiagerChSize
    /\ UNCHANGED <<inetdiagMsgCount, inetdiagerStaterCh, restarts, staterVars>>

(* Mutant of SendBlocked: the sample that would block is dropped.          *)
DropBlocked(w) ==
    /\ workerPc[w] = "send"
    /\ workerPc' = [workerPc EXCEPT ![w] = "message"]
    /\ UNCHANGED <<inetdiagMsgCount, currentStats, inetdiagerStaterCh, restarts, staterVars>>

SendBlocked(w) ==
    /\ workerPc[w] = "send"
    /\ workerPc' = [workerPc EXCEPT ![w] = "message"]
    /\ Len(inetdiagerStaterCh) < PromInetdiagerChSize
    /\ inetdiagerStaterCh' = Append(inetdiagerStaterCh, SampleOf(w, currentStats[w]))
    /\ UNCHANGED <<inetdiagMsgCount, currentStats, restarts, staterVars>>

(* inetdiagMsgCount++                                                      *)
CountMessage(w) ==
    /\ workerPc[w] = "message"
    /\ workerPc' = [workerPc EXCEPT ![w] = "range"]
    /\ inetdiagMsgCount' = [inetdiagMsgCount EXCEPT ![w] = @ + 1]
    /\ UNCHANGED <<currentStats, inetdiagerStaterCh, restarts, staterVars>>

(* The Poller of a family has closed netlinkerCh, its workers return, and  *)
(* the next poll starts workers with the same ids, which count from 0.     *)
RestartWorkers(af) ==
    /\ ShutdownWorkers
    /\ restarts < MaxRestarts /\ restarts' = restarts + 1
    /\ \A w \in WorkersOf(af) : workerPc[w] = "range"
    /\ inetdiagMsgCount' =
          [w \in Workers |-> IF w[1] = af THEN 0 ELSE inetdiagMsgCount[w]]
    /\ UNCHANGED <<workerPc, currentStats, inetdiagerStaterCh, staterVars>>

-----------------------------------------------------------------------------
(* prometheus.Counter.Add panics when its argument is negative.            *)
MayAdd(diff) == diff >= 0

(* What the counters are increased by for a sample.                        *)
Diff(sample) == sample.count - oldStatsMap[sample.worker]

(* Mutant of CountSample: the running count is added to the totals.        *)
CountSampleWhole(sample) ==
    LET af == sample.worker[1]
        diff == Diff(sample)
    IN  /\ inetdiagerMsgs' = [inetdiagerMsgs EXCEPT ![sample.worker] = @ + diff]
        /\ inetdiagerMsgsTotal' = [inetdiagerMsgsTotal EXCEPT ![af] = @ + sample.count]
        /\ totalInetdiagerMsgs' = totalInetdiagerMsgs + sample.count
        /\ oldStatsMap' = [oldStatsMap EXCEPT ![sample.worker] = sample.count]

(* Mutant of CountSample: the old sample is kept by id and not by family.  *)
CountSampleById(sample) ==
    LET af == sample.worker[1]
        diff == Diff(sample)
    IN  /\ inetdiagerMsgs' = [inetdiagerMsgs EXCEPT ![sample.worker] = @ + diff]
        /\ inetdiagerMsgsTotal' = [inetdiagerMsgsTotal EXCEPT ![af] = @ + diff]
        /\ totalInetdiagerMsgs' = totalInetdiagerMsgs + diff
        /\ oldStatsMap' = [w \in Workers |-> IF w[2] = sample.worker[2]
                                             THEN sample.count ELSE oldStatsMap[w]]

(* The counters and totals that a sample increases.                        *)
CountSample(sample) ==
    LET af == sample.worker[1]
        diff == Diff(sample)
    IN  /\ inetdiagerMsgs' = [inetdiagerMsgs EXCEPT ![sample.worker] = @ + diff]
        /\ inetdiagerMsgsTotal' = [inetdiagerMsgsTotal EXCEPT ![af] = @ + diff]
        /\ totalInetdiagerMsgs' = totalInetdiagerMsgs + diff
        /\ oldStatsMap' = [oldStatsMap EXCEPT ![sample.worker] = sample.count]

(* One round of InetdiagerStater.                                          *)
ReceiveSample ==
    /\ inetdiagerStaterCh # <<>>
    /\ MayAdd(Diff(Head(inetdiagerStaterCh)))
    /\ CountSample(Head(inetdiagerStaterCh))
    /\ inetdiagerStaterCh' = Tail(inetdiagerStaterCh)
    /\ UNCHANGED <<workerPc, inetdiagMsgCount, currentStats, restarts,
                   panicked>>

(* Or the end of the process.                                              *)
Panic ==
    /\ inetdiagerStaterCh # <<>>
    /\ ~MayAdd(Diff(Head(inetdiagerStaterCh)))
    /\ panicked' = TRUE
    /\ UNCHANGED <<workerPc, inetdiagMsgCount, currentStats, restarts, inetdiagerStaterCh,
                   oldStatsMap, inetdiagerMsgs, inetdiagerMsgsTotal,
                   totalInetdiagerMsgs>>

WorkerStep(w) ==
    \/ TakeMessage(w)
    \/ TakeMessageAndSend(w)
    \/ TakeMessageAndBlock(w)
    \/ SendBlocked(w)
    \/ CountMessage(w)

InetdiagerStaterNext ==
    /\ ~panicked
    /\ \/ \E w \in Workers : WorkerStep(w)
       \/ \E af \in AddressFamilies : RestartWorkers(af)
       \/ ReceiveSample
       \/ Panic

InetdiagerStaterSpec ==
    InetdiagerStaterInit /\ [][InetdiagerStaterNext]_inetdiagerStaterVars

(* The stater is always ready to receive, and a blocked send is woken in   *)
(* its turn: the senders blocked on a Go channel are a queue.              *)
FairInetdiagerStaterSpec ==
    /\ InetdiagerStaterSpec
    /\ WF_inetdiagerStaterVars(~panicked /\ (ReceiveSample \/ Panic))
    /\ \A w \in Workers : SF_inetdiagerStaterVars(~panicked /\ SendBlocked(w))

-----------------------------------------------------------------------------
(* docs/stats_and_perf.md: "The workers are responsible for incrementing   *)
(* the Prometheus counters": the difference to the last sample of a worker *)
(* is never negative, which the client library answers with a panic.       *)
NoCounterDecrease == ~panicked

(* As long as no workers have been started anew, and so with workers kept  *)
(* for ever, no difference is negative.                                    *)
NoDecreaseWhileKept == restarts = 0 => ~panicked

(* As long as no workers have been started anew, the samples of a worker   *)
(* reach the stater in the order they were made in: none is below the one  *)
(* before it, from the last one received to what the worker has handled by *)
(* now; and the worker's counter is the last one received.                 *)
SamplesInOrder ==
    restarts = 0 =>
       /\ \A i \in DOMAIN inetdiagerStaterCh :
             LET sample == inetdiagerStaterCh[i]
             IN  /\ oldStatsMap[sample.worker] <= sample.count
                 /\ sample.count <= inetdiagMsgCount[sample.worker]
                 /\ \A j \in DOMAIN inetdiagerStaterCh :
                       i < j /\ inetdiagerStaterCh[j].worker = sample.worker
                          => sample.count <= inetdiagerStaterCh[j].count
       /\ \A w \in Workers :
             /\ inetdiagerMsgs[w] = oldStatsMap[w]
             /\ oldStatsMap[w] <= inetdiagMsgCount[w]
             /\ workerPc[w] = "send" => currentStats[w] = inetdiagMsgCount[w]

(* The counters of the families and the stater's own total are the sums of *)
(* the counters of the workers.                                            *)
TotalsAddUp ==
    /\ \A af \in AddressFamilies :
          inetdiagerMsgsTotal[af] = SumFunctionOnSet(inetdiagerMsgs, WorkersOf(af))
    /\ totalInetdiagerMsgs = SumFunctionOnSet(inetdiagerMsgs, Workers)

(* A sample whose send blocks is counted in the end, unless the process    *)
(* ends before.                                                            *)
BlockedSampleCounted ==
    \A w \in Workers : \A n \in 1 .. MaxMessages :
       (workerPc[w] = "send" /\ currentStats[w] = n) ~> (oldStatsMap[w] >= n \/ panicked)
=============================================================================
