---------------------- MODULE NetlinkerParseProperties ----------------------
(***************************************************************************)
(* What is asked of the netlinkers of module NetlinkerParse.               *)
(***************************************************************************)
EXTENDS NetlinkerParse, SequencesExt, Functions

(* Every variable has its type; a header is only read where there is room  *)
(* for one in what was received, the reader never leaves the buffer, and   *)
(* the bytes that remain are those of the datagram it has not passed.      *)
NetlinkerParseTypeOK ==
    /\ NetlinkerStaterTypeOK
    /\ Len(netlinkerCh) <= NetlinkerChSize
    /\ stats \in [Netlinkers -> Counts]
    /\ pollerWaits \in BOOLEAN
    /\ \A n \in Netlinkers :
          /\ netlinkerPc[n] \in {"off", "recvfrom", "header", "check", "sample",
                                 "blocked", "sendDone", "stats"}
          /\ header[n] \in Header
          /\ offset[n] \in 0 .. bufferSize
          /\ netlinkerPc[n] = "header" =>
                /\ remaining[n] >= HdrLen
                /\ offset[n] + remaining[n] = InSize(packet[n])

-----------------------------------------------------------------------------
(* The kernel sets NLM_F_MULTI and nothing else on the messages of a dump. *)
Plain(d) == \A i \in DOMAIN d.msgs : d.msgs[i].type = "data" => d.msgs[i].multi

(* The message is the first, or only data is before it.                    *)
Reached(d, i) == \A j \in 1 .. i - 1 : d.msgs[j].type = "data"

(* The messages of a datagram whose headers have been received ...         *)
Received(d) == {i \in DOMAIN d.msgs : d.start[i] + HdrLen <= InSize(d)}

(* ... and those that are data to be read: not what follows a control      *)
(* message, nor a payload of which the buffer holds nothing.               *)
DataOf(d) == {i \in Received(d) : Reached(d, i) /\ d.msgs[i].type = "data"}
Readable(d) ==
    {i \in DataOf(d) : d.msgs[i].len > HdrLen => d.start[i] + HdrLen < bufferSize}

(* The samplingModulus takes those with these places in the datagram.      *)
SampledOf(d) ==
    {i \in DataOf(d) : SamplingModulus = 1 \/ (i - 1) % SamplingModulus = 1}

Payload(d, S) ==
    SumFunctionOnSet([i \in DOMAIN d.msgs |-> d.msgs[i].len - HdrLen], S)

Errors(d) == {i \in Received(d) :
                 Reached(d, i) /\ d.msgs[i].type \in {"noop", "error", "overrun"}}

(* What the receipt of a plain datagram adds to the counters, blocked and  *)
(* the durations aside, if the buffer has room for it.                     *)
CountsOf(d) ==
    [in     |-> DatagramSize(d),
     msgs   |-> Cardinality(DataOf(d)),
     read   |-> Payload(d, DataOf(d)),
     out    |-> Payload(d, SampledOf(d)),
     errors |-> Cardinality(Errors(d)),
     good   |-> 1]

(* What has been counted of a netlinker's id: by the stater, by the        *)
(* netlinker of the poll, and in reports on their way.                     *)
Reported(n, c) ==
    [i \in DOMAIN netlinkerStaterCh |->
        IF netlinkerStaterCh[i].id = n THEN netlinkerStaterCh[i].stats[c] ELSE 0]

Counted(n, c) == counters[n][c] + stats[n][c] + SumFunction(Reported(n, c))

(* What the datagrams that a netlinker has taken amount to.                *)
Due(n, c) == SumFunction([i \in DOMAIN taken[n] |-> CountsOf(taken[n][i])[c]])

(* netlinkerstater.go: "amount read from the kernel", "bytes OUT over the  *)
(* channel to inetdiagers" and the other counters: while datagrams are     *)
(* plain and the buffer has room for them, the counters say between two    *)
(* datagrams of all polls together what those received amount to, each     *)
(* netlinker's report being added exactly once, and a packet that is not   *)
(* one of them is a nasty one.                                             *)
CountersOfDatagrams ==
    \A n \in Netlinkers :
       /\ netlinkerPc[n] \in {"recvfrom", "stats", "off"}
       /\ \A i \in DOMAIN taken[n] :
             Plain(taken[n][i]) /\ DatagramSize(taken[n][i]) <= bufferSize
       => /\ \A c \in {"in", "msgs", "read", "out", "errors"} : Counted(n, c) = Due(n, c)
          /\ Counted(n, "packets") - Counted(n, "nasty") = Due(n, "good")

-----------------------------------------------------------------------------
(* The messages of netlinkerCh.                                            *)
Sent == Range(netlinkerCh)

(* A plain datagram that the buffer holds is passed on in messages of its  *)
(* own bytes.  Of one that it cuts short, only the last message read may   *)
(* be of other bytes, and of zeros where the rest should be.               *)
ForeignBytesOnlyAtTheCut ==
    \A m \in Sent :
       Plain(m.datagram) /\ ~m.whole =>
          /\ DatagramSize(m.datagram) > bufferSize
          /\ m.idx + 1 = Max(Received(m.datagram))

AllPlain == \A n \in Netlinkers : \A i \in DOMAIN taken[n] : Plain(taken[n][i])

(* Nothing in a plain datagram is taken for a header that is none, so the  *)
(* walk does not panic over its length; a statsd that could not be dialled *)
(* is what may end the process.                                            *)
PlainDumpsDoNotPanic ==
    AllPlain =>
       /\ \A n \in Netlinkers : netlinkerPc[n] = "check" => at[n] # 0
       /\ panicked => udpConn = "dial"

-----------------------------------------------------------------------------
(* A datagram as module Netlinker knows it: the types of the messages it   *)
(* can read.                                                               *)
Types(d) ==
    [poll |-> d.poll, num |-> d.num,
     msgs |-> [i \in 1 .. Cardinality(Received(d)) |-> d.msgs[i].type]]

AbstractPc(n) ==
    CASE netlinkerPc[n] \in {"header", "check", "sample"} -> "read"
      [] OTHER -> netlinkerPc[n]

InDatagram(n) == AbstractPc(n) \in {"read", "blocked", "sendDone"}

AbstractMessage(m) ==
    [poll |-> m.datagram.poll, num |-> m.datagram.num, idx |-> m.idx, time |-> m.time]

N == INSTANCE Netlinker WITH
    Dumps             <- {},
    Timeout           <- 1,
    KernelPrompt      <- FALSE,
    StaterChSize      <- [s \in {"poller", "netlinker", "inetdiager"} |-> PromNetlinkerChSize],
    socket            <- [i \in DOMAIN socket |-> Types(socket[i])],
    answers           <- <<>>,
    netlinkerCh       <- [i \in DOMAIN netlinkerCh |-> AbstractMessage(netlinkerCh[i])],
    netlinkerChClosed <- FALSE,
    staterCh          <- [s \in {"poller", "netlinker", "inetdiager"} |->
                            IF s = "netlinker" THEN Len(netlinkerStaterCh) ELSE 0],
    netlinkerPc       <- [n \in Netlinkers |-> AbstractPc(n)],
    packet            <- [n \in Netlinkers |->
                            IF InDatagram(n) THEN Types(packet[n])
                            ELSE [poll |-> 0, num |-> 0, msgs |-> <<>>]],
    netlinkMsgCount   <- [n \in Netlinkers |->
                            IF InDatagram(n) THEN netlinkMsgCount[n] ELSE 0],
    startTime         <- [n \in Netlinkers |-> polls]

netlinkerView ==
    <<[i \in DOMAIN socket |-> Types(socket[i])], netlinkerCh, Len(netlinkerStaterCh),
      [n \in Netlinkers |-> AbstractPc(n)], [n \in Netlinkers |-> InDatagram(n)]>>

(* A datagram module Netlinker speaks of: plain, at least a header long,   *)
(* and not cut short right behind a header.                                *)
Abstractable(d) == Plain(d) /\ Received(d) # {} /\ Readable(d) = DataOf(d)

(* What a netlinker does with the bytes of such a datagram is what module  *)
(* Netlinker says it does with its messages, step by step: the sampled     *)
(* ones go to netlinkerCh, in order and once, up to the first control      *)
(* message, and an NLMSG_DONE is signalled.                                *)
ImplementsNetlinker ==
    [][\A n \in Netlinkers :
          /\ Receive(n) \/ Walk(n)
          /\ InDatagram(n) => Abstractable(packet[n])
          /\ InDatagram(n)' => Abstractable(packet[n])'
          /\ ~RecvShort(n)
          => \/ N!NetlinkerStep(n)
             \/ N!SignalDone(n)
             \/ UNCHANGED <<netlinkerView, IF InDatagram(n) THEN netlinkMsgCount[n] ELSE 0>>
      ]_netlinkerParseVars

-----------------------------------------------------------------------------
(* The headers that the bytes remaining of a datagram have room for.       *)
HeadersLeft(n) == IF remaining[n] > 0 THEN remaining[n] \div HdrLen ELSE 0

(* At most how many steps a netlinker is from its next datagram: four to a *)
(* header, one of which may wait for netlinkerCh, or for the Poller.       *)
StepsLeft(n) ==
    CASE netlinkerPc[n] = "header" -> 4 * HeadersLeft(n)
      [] netlinkerPc[n] = "check"  -> 4 * HeadersLeft(n) + 3
      [] netlinkerPc[n] = "sample" -> 4 * HeadersLeft(n) + 2
      [] netlinkerPc[n] \in {"blocked", "sendDone"} -> 4 * HeadersLeft(n) + 1
      [] OTHER -> 0

(* Whatever the bytes of a datagram look like, and whatever lengths they   *)
(* claim, each step of the loop over its messages leaves its netlinker     *)
(* nearer to the next Recvfrom, and nothing but a datagram received takes  *)
(* it further away: what EachLifeCounted rests on, besides fairness.       *)
EachStepNearsTheEnd ==
    [][\A n \in Netlinkers :
          /\ Walk(n) /\ netlinkerPc[n] # "stats" /\ ~panicked' =>
                StepsLeft(n)' \in Nat /\ StepsLeft(n)' < StepsLeft(n)
          /\ ~RecvDatagram(n) => StepsLeft(n)' <= StepsLeft(n)
      ]_netlinkerParseVars

-----------------------------------------------------------------------------
(* A netlinker is a goroutine that goes on while it can, its Recvfrom      *)
(* times out where -timeout is not 0, the Poller takes the signal it waits *)
(* for, and senders blocked on a channel are served in their turn.         *)
NetlinkerParseFairness ==
    /\ WF_netlinkerParseVars(~panicked /\ TakeMessage)
    /\ WF_netlinkerParseVars(~panicked /\ StaterStep)
    /\ \A n \in Netlinkers :
          /\ WF_netlinkerParseVars(~panicked /\ (Receive(n) \/ Walk(n)))
          /\ SF_netlinkerParseVars(~panicked /\ SendBlocked(n))
          /\ SF_netlinkerParseVars(~panicked /\ ReturnNetlinker(n))

FairNetlinkerParseSpec == NetlinkerParseSpec /\ NetlinkerParseFairness

(* A second NLMSG_DONE of a poll, which nobody receives.                   *)
DoneUnheard(n) == netlinkerPc[n] = "sendDone" /\ ~pollerWaits

(* Whatever the bytes of a datagram look like, the walk over it ends, and  *)
(* the netlinker's counts reach the counters, unless the process panics,   *)
(* or bytes that are no header were taken for an NLMSG_DONE, and the       *)
(* netlinker signals one more than the Poller waits for.  A Recvfrom that  *)
(* fails for good is taken not to do so for ever (MaxDatagrams).           *)
EachLifeCounted ==
    \A n \in Netlinkers :
       netlinkerPc[n] # "off"
          ~> \/ panicked
             \/ DoneUnheard(n) /\ ~AllPlain
             \/ /\ netlinkerPc[n] = "off"
                /\ \A i \in DOMAIN netlinkerStaterCh : netlinkerStaterCh[i].id # n
=============================================================================
