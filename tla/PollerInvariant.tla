-------------------------- MODULE PollerInvariant --------------------------
(***************************************************************************)
(* The inductive invariants of the pipeline.  From PollInv PollerProofs    *)
(* proves that one dump is in flight at a time, that messages carry the    *)
(* time of their own dump, and that nothing is sent on a closed channel;   *)
(* from PollInv and CycleInv PollCycleProofs proves that no message is     *)
(* lost or handled twice, that what a goroutine waits for is on its way,   *)
(* and that the pipeline implements PollCycle.                             *)
(***************************************************************************)
EXTENDS PollerProperties

(* A datagram ends its dump if NLMSG_DONE is in it.                        *)
EndsDump(dg) == \E j \in DOMAIN dg.msgs : dg.msgs[j] = "done"

(* Nothing follows NLMSG_DONE: not on the socket, and once a netlinker has *)
(* received it, the socket is empty.                                       *)
DoneIsLast ==
    /\ \A i \in DOMAIN socket : EndsDump(socket[i]) => i = Len(socket)
    /\ \A n \in Netlinkers : EndsDump(packet[n]) => socket = <<>>

(* Where each netlinker is in its datagram; none is empty.                 *)
ReadingInPacket ==
    /\ \A i \in DOMAIN socket : socket[i].msgs # <<>>
    /\ \A n \in Netlinkers :
          /\ netlinkerPc[n] \in {"read", "blocked"} =>
                netlinkMsgCount[n] < Len(packet[n].msgs)
          /\ netlinkerPc[n] = "sendDone" => EndsDump(packet[n])
          /\ netlinkerPc[n] \in {"off", "recvfrom", "stats"} =>
                packet[n] = NoPacket /\ netlinkMsgCount[n] = 0

(* What the Poller may count on at each of its steps.  The socket is in    *)
(* use from the request to the DONE, the netlinkers from their start until *)
(* the Poller has waited for them.                                         *)
PollStages ==
    /\ pollerPc \notin {"netlinkers", "done?"} => socket = <<>>
    /\ pollerPc \notin {"done?", "wait"} => NetlinkersDone

(* The inetdiagers and an open channel are there for every poll.           *)
WorkersStages ==
    /\ pollerPc \in {"request", "netlinkers", "done?", "wait", "close"}
          => workersStarted
    /\ workersStarted /\ pollerPc # "join" => ~netlinkerChClosed

(* The kernel's count of requests and the Poller's clock agree.            *)
PollNumbers ==
    /\ pollerPc \in {"for", "workers", "request"} => Len(answers) = pollingLoops
    /\ \/ pollerPc \in {"netlinkers", "done?", "wait", "ticker"}
       \/ pollerPc \in {"close", "join"} /\ MaxLoopsOrForEver(pollingLoops)
       => Len(answers) = pollingLoops + 1
    /\ pollerPc \in {"netlinkers", "done?", "wait"} => startPollTime = pollingLoops

(* So all that is read in a poll is of that poll, and stamped with it.     *)
OneTime ==
    /\ \A i \in DOMAIN socket : socket[i].poll = startPollTime
    /\ \A n \in Netlinkers :
          /\ netlinkerPc[n] # "off" => startTime[n] = startPollTime
          /\ netlinkerPc[n] \in {"read", "blocked"} => packet[n].poll = startTime[n]
    /\ \A k \in DOMAIN netlinkerCh : netlinkerCh[k].time = netlinkerCh[k].poll
    /\ \A i \in Inetdiagers : inHand[i].time = inHand[i].poll
    /\ \A m \in handled : m.time = m.poll

PollInv ==
    /\ DoneIsLast
    /\ ReadingInPacket
    /\ PollStages
    /\ WorkersStages
    /\ PollNumbers
    /\ OneTime

-----------------------------------------------------------------------------
(* What is behind a netlinker in its datagram is data, and what it waits   *)
(* to send is a message that is to be sent.                                *)
ReadInOrder ==
    \A n \in Netlinkers :
       /\ netlinkerPc[n] \in {"read", "blocked"} =>
             \A j \in 1 .. netlinkMsgCount[n] : packet[n].msgs[j] = "data"
       /\ netlinkerPc[n] = "blocked" =>
             Type(n) = "data" /\ Sampled(netlinkMsgCount[n])

(* Inetdiagers return, and are started anew, with nothing left for them.   *)
WorkersEnd ==
    /\ ~workersStarted => netlinkerCh = <<>> /\ InetdiagersDone
    /\ workersStarted /\ (\E i \in Inetdiagers : inetdiagerPc[i] = "off") =>
          pollerPc = "join" /\ netlinkerCh = <<>>
    /\ pollerPc = "return" => ~workersStarted

(* How often the Poller has been round at each of its steps.               *)
LoopNumbers ==
    /\ pollerPc \in {"workers", "request", "netlinkers", "done?", "wait", "ticker"}
          => MaxLoopsOrForEver(pollingLoops)
    /\ pollerPc = "return" => ~MaxLoopsOrForEver(pollingLoops)
    /\ pollerPc \in {"close", "join"} /\ ~ShutdownWorkers
          => ~MaxLoopsOrForEver(pollingLoops)
    /\ pollerPc \in {"close", "join", "return"} /\ ~MaxLoopsOrForEver(pollingLoops)
          => Len(answers) = pollingLoops
    /\ MaxLoops # 0 => pollingLoops <= MaxLoops + 1

(* Where NLMSG_DONE is: with one netlinker at most, and then the Poller    *)
(* waits for it; with none before a netlinker has received it, and then    *)
(* the netlinkers, which end at an empty socket only, are all there.       *)
WhereDoneIs ==
    /\ \A n \in Netlinkers : EndsDump(packet[n]) => pollerPc = "done?"
    /\ \A n, k \in Netlinkers :
          EndsDump(packet[n]) /\ EndsDump(packet[k]) => n = k
    /\ pollerPc = "netlinkers" /\ DumpComesToDone => DoneOnSocket
    /\ pollerPc = "done?" /\ KernelPrompt /\ DumpComesToDone =>
          \/ \E n \in Netlinkers : HasDone(n)
          \/ DoneOnSocket /\ \A n \in Netlinkers :
                netlinkerPc[n] \notin {"off", "stats"}
    /\ pollerPc = "join" => netlinkerChClosed

CycleInv ==
    /\ ReadInOrder
    /\ WorkersEnd
    /\ LoopNumbers
    /\ WhereDoneIs
    /\ EachMessageOnce
=============================================================================
