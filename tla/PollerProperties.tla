-------------------------- MODULE PollerProperties --------------------------
(***************************************************************************)
(* What is asked of the pipeline of module Poller.                         *)
(***************************************************************************)
EXTENDS Poller, FiniteSetsExt, Functions

(* Every variable has its type; the channels never hold more than their    *)
(* size.                                                                   *)
TypeOK ==
    /\ SocketTypeOK
    /\ ChannelsTypeOK
    /\ NetlinkerTypeOK
    /\ InetdiagerTypeOK
    /\ PollerTypeOK

-----------------------------------------------------------------------------
(* The Poller is between two polls: no request of its own is outstanding.  *)
BetweenPolls == pollerPc \in {"for", "workers", "request", "ticker", "return"}

(* poller.go: "Blocking here for unix.NLMSG_DONE means there will only     *)
(* ever be a single netlink request/recieve in flight at any time".  When  *)
(* the next request goes out, no netlinker of an earlier poll is left and  *)
(* no datagram of an earlier dump is unread.                               *)
OneDumpInFlight == BetweenPolls => socket = <<>> /\ NetlinkersDone

(* The messages that have left the socket and are not handled yet.         *)
InFlight ==
    Range(netlinkerCh)
      \cup {inHand[i] : i \in {j \in Inetdiagers : Busy(j)}}
      \cup {MessageOf(n) : n \in {k \in Netlinkers : netlinkerPc[k] = "blocked"}}

(* A message carries the time of the poll whose dump it is part of, even   *)
(* though the netlinkers of all polls share one socket and the inetdiagers *)
(* of all polls one channel.                                               *)
TimeSpecOfItsDump == \A m \in InFlight \cup handled : m.time = m.poll

(* close(netlinkerCh) never meets a netlinker that may still send, which   *)
(* would panic.                                                            *)
NoSendOnClosedChannel ==
    netlinkerChClosed => \A n \in Netlinkers : netlinkerPc[n] \in {"off", "stats"}

-----------------------------------------------------------------------------
(* The messages of a datagram that are to reach an inetdiager: the sampled *)
(* ones before the first that is not inet_diag data.                       *)
SampledOf(dg) ==
    {[poll |-> dg.poll, num |-> dg.num, idx |-> k, time |-> dg.poll] :
        k \in {k \in 0 .. Len(dg.msgs) - 1 :
                  Sampled(k) /\ \A j \in 1 .. k + 1 : dg.msgs[j] = "data"}}

(* Those of the p-th dump, and of all the dumps so far.                    *)
SampledOfDump(p) ==
    UNION {SampledOf(dg) : dg \in Range(Datagrams(answers[p], p - 1))}

AllSampled == UNION {SampledOfDump(p) : p \in DOMAIN answers}

(* Those a netlinker still has to send out of the datagram it reads.       *)
ToSend(n) ==
    IF netlinkerPc[n] \in {"read", "blocked"}
    THEN {m \in SampledOf(packet[n]) : m.idx >= netlinkMsgCount[n]}
    ELSE {}

(* Where the messages of the dumps are before they are handled: unread on  *)
(* the socket, with a netlinker that has read their datagram, in           *)
(* netlinkerCh, or with an inetdiager.                                     *)
Unread == UNION {SampledOf(socket[i]) : i \in DOMAIN socket}
ToBeSent == UNION {ToSend(n) : n \in Netlinkers}
BusyInetdiagers == {i \in Inetdiagers : Busy(i)}
InHands == {inHand[i] : i \in BusyInetdiagers}

(* No two datagrams, netlinkers, places in the channel or inetdiagers have *)
(* the same message.                                                       *)
NoneTwiceInAPlace ==
    /\ \A i, j \in DOMAIN socket :
          i # j => SampledOf(socket[i]) \cap SampledOf(socket[j]) = {}
    /\ \A n, k \in Netlinkers : n # k => ToSend(n) \cap ToSend(k) = {}
    /\ \A i, j \in DOMAIN netlinkerCh : netlinkerCh[i] = netlinkerCh[j] => i = j
    /\ \A i, j \in BusyInetdiagers : inHand[i] = inHand[j] => i = j

(* Each sampled message of each dump is in exactly one place: unread on    *)
(* the socket, with the netlinker that read its datagram, in netlinkerCh,  *)
(* with an inetdiager, or handled.  Nothing is lost or handled twice.      *)
EachMessageOnce ==
    /\ AllSampled = Unread \cup ToBeSent \cup Range(netlinkerCh) \cup InHands \cup handled
    /\ Unread \cap (ToBeSent \cup Range(netlinkerCh) \cup InHands \cup handled) = {}
    /\ ToBeSent \cap (Range(netlinkerCh) \cup InHands \cup handled) = {}
    /\ Range(netlinkerCh) \cap (InHands \cup handled) = {}
    /\ InHands \cap handled = {}
    /\ NoneTwiceInAPlace

-----------------------------------------------------------------------------
(* A netlinker that is given this datagram comes to its NLMSG_DONE.        *)
ComesToDone(msgs) ==
    /\ msgs # <<>> /\ msgs[Len(msgs)] = "done"
    /\ \A j \in 1 .. Len(msgs) - 1 : msgs[j] = "data"

(* The dump that the Poller waits for has one, where it is to be read.     *)
DumpComesToDone ==
    LET d == answers[Len(answers)] IN d # <<>> /\ ComesToDone(d[Len(d)])

DoneOnSocket == socket # <<>> /\ ComesToDone(socket[Len(socket)].msgs)

HasDone(n) ==
    netlinkerPc[n] \in {"read", "blocked", "sendDone"} /\ ComesToDone(packet[n].msgs)

(* Nobody in the pipeline waits for what nobody will do.  While the Poller *)
(* waits for a DONE, a netlinker has it at hand, or it is on the socket    *)
(* with a netlinker that goes on to receive.  A netlinker with a DONE has  *)
(* the Poller waiting for it, and no other netlinker signals one: the      *)
(* channel between them has no buffer.  A netlinker with messages to send  *)
(* has an inetdiager to take them.  The Poller waits for the netlinkers    *)
(* with nothing left to receive, and for the inetdiagers with the channel  *)
(* closed and nobody left to send.                                         *)
WaitsAreServed ==
    /\ pollerPc = "done?" /\ KernelPrompt /\ DumpComesToDone =>
          \E n \in Netlinkers :
             \/ HasDone(n)
             \/ DoneOnSocket /\ netlinkerPc[n] \notin {"off", "stats"}
    /\ \A n, k \in Netlinkers : netlinkerPc[n] = "sendDone" =>
          pollerPc = "done?" /\ (netlinkerPc[k] = "sendDone" => n = k)
    /\ (\E n \in Netlinkers : netlinkerPc[n] \in {"read", "blocked"}) =>
          ~netlinkerChClosed /\ \E i \in Inetdiagers : inetdiagerPc[i] # "off"
    /\ pollerPc = "wait" => socket = <<>>
    /\ pollerPc = "join" => netlinkerChClosed /\ NetlinkersDone

-----------------------------------------------------------------------------
(* The pipeline as PollCycle sees it.                                      *)
CyclePhase ==
    CASE pollerPc = "return" -> "stopped"
      [] pollerPc \in {"for", "workers", "request", "ticker"} -> "idle"
      [] pollerPc \in {"close", "join"} /\ ~MaxLoopsOrForEver(pollingLoops) -> "idle"
      [] OTHER -> "polling"

Cycle == INSTANCE PollCycle WITH
    phase   <- CyclePhase,
    polls   <- Len(answers),
    pending <- AllSampled \ handled,
    handled <- handled

(* The goroutines, channels and wait groups implement PollCycle.           *)
ImplementsPollCycle == Cycle!Spec

-----------------------------------------------------------------------------
(* A poll does not wait for ever for NLMSG_DONE, its netlinkers or its     *)
(* inetdiagers.                                                            *)
PollCompletes == pollerPc = "done?" ~> pollerPc = "ticker"

(* Every sampled message of a dump is handled in the end, whether the      *)
(* inetdiagers outlive the poll or not.                                    *)
DumpsHandled ==
    \A p \in 1 .. MaxLoops + 1 :
        p \in DOMAIN answers
          ~> p \in DOMAIN answers /\ SampledOfDump(p) \subseteq handled

(* The Poller returns after -maxLoops and main's pollerWG.Wait() with it.  *)
PollerReturns == MaxLoops # 0 => <>(pollerPc = "return")

(* netlinker.go: "if shutdownWorkers is false, we'll just keep re-issuing  *)
(* the syscall.Recvfrom and blocking until the timeout": with workers held *)
(* open, somebody is there to receive while the Poller waits for the DONE. *)
HeldOpenNetlinkersReceive ==
    ~ShutdownWorkers /\ pollerPc = "done?" => ~NetlinkersDone

(* misc.go, of the condition of the Poller's loop: "returns true if        *)
(* maxloops == 0, or pollingLoops < maxloops".  So a bounded Poller makes  *)
(* -maxLoops polls at most, each with a request and an answer of its own.  *)
NoMorePollsThanMaxLoops == MaxLoops # 0 => Len(answers) <= MaxLoops

(* What the comparison in the code comes to instead: there is one poll     *)
(* more, and never a second one, and a Poller that has returned has made   *)
(* them all.                                                               *)
OnePollMoreThanMaxLoops ==
    MaxLoops # 0 =>
       /\ Len(answers) <= MaxLoops + 1
       /\ pollerPc = "return" => Len(answers) = MaxLoops + 1
=============================================================================
