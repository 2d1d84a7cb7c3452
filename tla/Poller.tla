------------------------------- MODULE Poller -------------------------------
(***************************************************************************)
(* One Poller (pkg/poller), the goroutines it starts and the staters it    *)
(* shares: the whole pipeline of one address family.  Each poll sends a    *)
(* dump request, starts the netlinkers, waits for NLMSG_DONE, waits for    *)
(* the netlinkers, and waits for the ticker; the inetdiagers live on from  *)
(* poll to poll, or for one poll only with -shutdownWorkers.               *)
(***************************************************************************)
EXTENDS Netlinker, Inetdiager

CONSTANTS MaxLoops,         (* -maxLoops; 0 for ever                       *)
          ShutdownWorkers   (* -shutdownWorkers                            *)

ASSUME PollerAssumption ==
    /\ MaxLoops \in Nat
    /\ ShutdownWorkers \in BOOLEAN

VARIABLES
    pollerPc,        (* where the Poller is                                *)
    pollingLoops,    (* its loop counter                                   *)
    workersStarted,  (* inetdiagers are running                            *)
    startPollTime,   (* when the current poll began: poll p begins at p    *)
    tick             (* ticker.C holds a tick; it never holds two          *)

pollerVars == <<pollerPc, pollingLoops, workersStarted, startPollTime, tick>>

vars == <<socketVars, channelVars, netlinkerVars, inetdiagerVars, pollerVars>>

PollerTypeOK ==
    /\ pollerPc \in {"for", "workers", "request", "netlinkers", "done?",
                     "wait", "close", "join", "ticker", "return"}
    /\ pollingLoops \in Nat
    /\ workersStarted \in BOOLEAN
    /\ startPollTime \in Nat
    /\ tick \in BOOLEAN

Init ==
    /\ SocketInit
    /\ ChannelsInit
    /\ NetlinkerInit
    /\ InetdiagerInit
    /\ pollerPc = "for"
    /\ pollingLoops = 0
    /\ workersStarted = FALSE
    /\ startPollTime = 0
    /\ tick = FALSE

-----------------------------------------------------------------------------
PollerGoto(from, to) == pollerPc = from /\ pollerPc' = to

MaxLoopsOrForEver(loops) == MaxLoops # 0 => ~(loops > MaxLoops)

(* The loop's condition holds: the statistics of the previous poll go to   *)
(* the pollerStater first.                                                 *)
SendPollerStats ==
    /\ PollerGoto("for", "workers")
    /\ MaxLoopsOrForEver(pollingLoops)
    /\ SendToStater("poller")
    /\ UNCHANGED <<socketVars, netlinkerVars, inetdiagerVars,
                   pollingLoops, workersStarted, startPollTime, tick>>

(* Mutant of LeaveLoop: the Poller returns with its workers running.       *)
LeaveLoopAtOnce ==
    /\ PollerGoto("for", "return")
    /\ ~MaxLoopsOrForEver(pollingLoops)
    /\ UNCHANGED <<socketVars, channelVars, netlinkerVars, inetdiagerVars,
                   pollingLoops, workersStarted, startPollTime, tick>>

(* The loop's condition fails: shut down the workers that are running.     *)
LeaveLoop ==
    /\ PollerGoto("for", IF workersStarted THEN "close" ELSE "return")
    /\ ~MaxLoopsOrForEver(pollingLoops)
    /\ UNCHANGED <<socketVars, channelVars, netlinkerVars, inetdiagerVars,
                   pollingLoops, workersStarted, startPollTime, tick>>

StartWorkers ==
    /\ PollerGoto("workers", "request")
    /\ ~workersStarted
    /\ MakeNetlinkerCh
    /\ StartInetdiagers
    /\ workersStarted' = TRUE
    /\ UNCHANGED <<socketVars, netlinkerVars,
                   pollingLoops, startPollTime, tick>>

KeepWorkers ==
    /\ PollerGoto("workers", "request")
    /\ workersStarted
    /\ UNCHANGED <<socketVars, channelVars, netlinkerVars, inetdiagerVars,
                   pollingLoops, workersStarted, startPollTime, tick>>

(* Mutant of SendNetlinkDumpRequest: the time is not taken anew.           *)
SendRequestOldTime ==
    /\ PollerGoto("request", "netlinkers")
    /\ SendDumpRequest
    /\ UNCHANGED <<channelVars, netlinkerVars, inetdiagerVars,
                   pollingLoops, workersStarted, startPollTime, tick>>

SendNetlinkDumpRequest ==
    /\ PollerGoto("request", "netlinkers")
    /\ startPollTime' = pollingLoops
    /\ SendDumpRequest
    /\ UNCHANGED <<channelVars, netlinkerVars, inetdiagerVars,
                   pollingLoops, workersStarted, tick>>

(* wg.Add and go for each id: one step, since a goroutine that has not run *)
(* yet is one that is about to call Recvfrom.                              *)
SpawnNetlinkers ==
    /\ PollerGoto("netlinkers", "done?")
    /\ StartNetlinkers(startPollTime)
    /\ UNCHANGED <<socketVars, channelVars, inetdiagerVars,
                   pollingLoops, workersStarted, startPollTime, tick>>

(* <-netlinkerRecievedDoneCh: unbuffered, so a step of both sides.         *)
ReceiveDone(n) ==
    /\ PollerGoto("done?", "wait")
    /\ SignalDone(n)
    /\ UNCHANGED <<socketVars, channelVars, inetdiagerVars,
                   pollingLoops, workersStarted, startPollTime, tick>>

(* Mutant of WaitNetlinkers: the DONE is taken for the end of the poll.    *)
DontWaitNetlinkers ==
    /\ PollerGoto("wait", IF ShutdownWorkers THEN "close" ELSE "ticker")
    /\ UNCHANGED <<socketVars, channelVars, netlinkerVars, inetdiagerVars,
                   pollingLoops, workersStarted, startPollTime, tick>>

(* netlinkerWG.Wait()                                                      *)
WaitNetlinkers ==
    /\ PollerGoto("wait", IF ShutdownWorkers THEN "close" ELSE "ticker")
    /\ NetlinkersDone
    /\ UNCHANGED <<socketVars, channelVars, netlinkerVars, inetdiagerVars,
                   pollingLoops, workersStarted, startPollTime, tick>>

(* Mutant of CloseChannel: the channel is left open.                       *)
LeaveChannelOpen ==
    /\ PollerGoto("close", "join")
    /\ UNCHANGED <<socketVars, channelVars, netlinkerVars, inetdiagerVars,
                   pollingLoops, workersStarted, startPollTime, tick>>

(* cleanWorkerShutdown: close(netlinkerCh) ...                             *)
CloseChannel ==
    /\ PollerGoto("close", "join")
    /\ CloseNetlinkerCh
    /\ UNCHANGED <<socketVars, netlinkerVars, inetdiagerVars,
                   pollingLoops, workersStarted, startPollTime, tick>>

(* Mutant of WaitInetdiagers: close is taken for the end of the workers.   *)
DontWaitInetdiagers ==
    /\ PollerGoto("join", IF MaxLoopsOrForEver(pollingLoops)
                          THEN "ticker" ELSE "return")
    /\ workersStarted' = FALSE
    /\ UNCHANGED <<socketVars, channelVars, netlinkerVars, inetdiagerVars,
                   pollingLoops, startPollTime, tick>>

(* ... inetdiagerWG.Wait().  In the loop the ticker comes next; after it,  *)
(* the Poller returns.                                                     *)
WaitInetdiagers ==
    /\ PollerGoto("join", IF MaxLoopsOrForEver(pollingLoops)
                          THEN "ticker" ELSE "return")
    /\ InetdiagersDone
    /\ workersStarted' = FALSE
    /\ UNCHANGED <<socketVars, channelVars, netlinkerVars, inetdiagerVars,
                   pollingLoops, startPollTime, tick>>

WaitTick ==
    /\ PollerGoto("ticker", "for")
    /\ tick
    /\ tick' = FALSE
    /\ pollingLoops' = pollingLoops + 1
    /\ UNCHANGED <<socketVars, channelVars, netlinkerVars, inetdiagerVars,
                   workersStarted, startPollTime>>

PollerStep ==
    \/ SendPollerStats
    \/ LeaveLoop
    \/ StartWorkers
    \/ KeepWorkers
    \/ SendNetlinkDumpRequest
    \/ SpawnNetlinkers
    \/ \E n \in Netlinkers : ReceiveDone(n)
    \/ WaitNetlinkers
    \/ CloseChannel
    \/ WaitInetdiagers
    \/ WaitTick

-----------------------------------------------------------------------------
NetlinkerStepOf(n) == NetlinkerStep(n) /\ UNCHANGED <<inetdiagerVars, pollerVars>>

InetdiagerStepOf(i) ==
    InetdiagerStep(i) /\ UNCHANGED <<socketVars, netlinkerVars, pollerVars>>

StaterStep(s) ==
    /\ StaterReceive(s)
    /\ UNCHANGED <<socketVars, netlinkerVars, inetdiagerVars, pollerVars>>

(* time.Ticker drops a tick that nobody has taken.                         *)
Tick ==
    /\ tick' = TRUE
    /\ ~tick
    /\ pollerPc # "return"
    /\ UNCHANGED <<socketVars, channelVars, netlinkerVars, inetdiagerVars,
                   pollerPc, pollingLoops, workersStarted, startPollTime>>

(* The Poller has returned and the staters have read all there was.        *)
Terminated ==
    /\ pollerPc = "return"
    /\ staterCh = [s \in Stater |-> 0]
    /\ UNCHANGED vars

Next ==
    \/ PollerStep
    \/ \E n \in Netlinkers : NetlinkerStepOf(n)
    \/ \E i \in Inetdiagers : InetdiagerStepOf(i)
    \/ \E s \in Stater : StaterStep(s)
    \/ Tick
    \/ Terminated

Spec == Init /\ [][Next]_vars

(* Each goroutine that can go on does, and time passes.                    *)
Fairness ==
    /\ WF_vars(PollerStep)
    /\ \A n \in Netlinkers : WF_vars(NetlinkerStepOf(n))
    /\ \A i \in Inetdiagers : WF_vars(InetdiagerStepOf(i))
    /\ \A s \in Stater : WF_vars(StaterStep(s))
    /\ WF_vars(Tick)

FairSpec == Spec /\ Fairness
=============================================================================
