------------------------------ MODULE Channels ------------------------------
(***************************************************************************)
(* The buffered channels of the pipeline of one address family:            *)
(* netlinkerCh, from the netlinkers to the inetdiagers, made and closed by *)
(* the Poller, and the three stater channels that main makes and that one  *)
(* goroutine each (pkg/pollerstater, netlinkerstater, inetdiagerstater)    *)
(* drains.  What is sent to a stater is abstracted: only the room in its   *)
(* channel matters to the senders, who block when there is none.           *)
(***************************************************************************)
EXTENDS Naturals, Sequences

CONSTANTS NetlinkerChSize,  (* -netlinkerChSize                             *)
          StaterChSize      (* -prom{Poller,Netlinker,Inetdiager}ChSize     *)

Stater == {"poller", "netlinker", "inetdiager"}

(* A channel of size 0 is a rendezvous and is not modelled here.           *)
ASSUME ChannelsAssumption ==
    /\ NetlinkerChSize \in Nat \ {0}
    /\ StaterChSize \in [Stater -> Nat \ {0}]

VARIABLES
    netlinkerCh,        (* the messages buffered in netlinkerCh             *)
    netlinkerChClosed,  (* close(netlinkerCh) was called (or no make yet)   *)
    staterCh            (* how many statistics wait in each stater channel  *)

channelVars == <<netlinkerCh, netlinkerChClosed, staterCh>>

(* TimeSpecandInetDiagMessage: an inet_diag message, named by the request  *)
(* it answers, its datagram and its index there, and the time of the poll  *)
(* it is stamped with (poll number p starts at time p).                    *)
Message == [poll : Nat, num : Nat, idx : Nat, time : Nat]

ChannelsTypeOK ==
    /\ netlinkerCh \in Seq(Message)
    /\ Len(netlinkerCh) <= NetlinkerChSize
    /\ netlinkerChClosed \in BOOLEAN
    /\ staterCh \in [Stater -> Nat]
    /\ \A s \in Stater : staterCh[s] <= StaterChSize[s]

ChannelsInit ==
    /\ netlinkerCh = <<>>
    /\ netlinkerChClosed = TRUE
    /\ staterCh = [s \in Stater |-> 0]

MakeNetlinkerCh ==
    /\ netlinkerCh' = <<>>
    /\ netlinkerChClosed' = FALSE
    /\ UNCHANGED staterCh

CloseNetlinkerCh ==
    /\ netlinkerChClosed' = TRUE
    /\ UNCHANGED <<netlinkerCh, staterCh>>

HasRoom == Len(netlinkerCh) < NetlinkerChSize

(* Mutant of Send: the buffer has no bound.                                *)
SendUnbounded(m) ==
    /\ netlinkerCh' = Append(netlinkerCh, m)
    /\ UNCHANGED <<netlinkerChClosed, staterCh>>

(* out <- m                                                                *)
Send(m) ==
    /\ HasRoom
    /\ netlinkerCh' = Append(netlinkerCh, m)
    /\ UNCHANGED <<netlinkerChClosed, staterCh>>

(* for m := range in: the next message is Head(netlinkerCh) ...            *)
Receive ==
    /\ netlinkerCh # <<>>
    /\ netlinkerCh' = Tail(netlinkerCh)
    /\ UNCHANGED <<netlinkerChClosed, staterCh>>

(* Mutant of Drained: the loop ends with messages still buffered.          *)
ClosedOnly == netlinkerChClosed

(* ... or the end of the loop.                                             *)
Drained == netlinkerChClosed /\ netlinkerCh = <<>>

(* A blocking send to a stater's channel.                                  *)
SendToStater(s) ==
    /\ staterCh[s] < StaterChSize[s]
    /\ staterCh' = [staterCh EXCEPT ![s] = @ + 1]
    /\ UNCHANGED <<netlinkerCh, netlinkerChClosed>>

(* One turn of a stater's "for stats := range in".                         *)
StaterReceive(s) ==
    /\ staterCh[s] > 0
    /\ staterCh' = [staterCh EXCEPT ![s] = @ - 1]
    /\ UNCHANGED <<netlinkerCh, netlinkerChClosed>>
=============================================================================
