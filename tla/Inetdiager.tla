----------------------------- MODULE Inetdiager -----------------------------
(***************************************************************************)
(* The inetdiager goroutines of one Poller (pkg/inetdiager): they share    *)
(* netlinkerCh, and each message goes to one of them, which parses it and  *)
(* writes every ReportModulus-th as a protobuf to the UDP socket (and to   *)
(* NSQ).  The bytes of a message, and the counters but inetdiagMsgCount,   *)
(* are abstracted.                                                         *)
(***************************************************************************)
EXTENDS Channels

CONSTANTS Inetdiagers,             (* the ids: -inetdiagers4 / -inetdiagers6 *)
          InetdiagerReportModulus  (* -inetdiagerReportModulus               *)

(* A modulus of 0 divides by zero at the first message.                    *)
ASSUME InetdiagerAssumption == InetdiagerReportModulus \in Nat \ {0}

VARIABLES
    inetdiagerPc,      (* where each inetdiager is                          *)
    inHand,            (* the message it took off netlinkerCh, or NoMessage *)
    inetdiagMsgCount,  (* how many it has processed since it was started,   *)
                       (* modulo InetdiagerReportModulus: all that is read  *)
    handled,           (* every message an inetdiager finished with         *)
    reported           (* those of them written to the UDP socket           *)

inetdiagerVars == <<inetdiagerPc, inHand, inetdiagMsgCount, handled, reported>>

NoMessage == [poll |-> 0, num |-> 0, idx |-> 0, time |-> 0]

InetdiagerTypeOK ==
    /\ inetdiagerPc \in [Inetdiagers -> {"off", "range", "stats", "process"}]
    /\ inHand \in [Inetdiagers -> Message]
    /\ inetdiagMsgCount \in [Inetdiagers -> Nat]
    /\ handled \subseteq Message
    /\ reported \subseteq handled

InetdiagerInit ==
    /\ inetdiagerPc = [i \in Inetdiagers |-> "off"]
    /\ inHand = [i \in Inetdiagers |-> NoMessage]
    /\ inetdiagMsgCount = [i \in Inetdiagers |-> 0]
    /\ handled = {}
    /\ reported = {}

(* go inetdiager.Inetdiager(...), for every id.                            *)
StartInetdiagers ==
    /\ inetdiagerPc' = [i \in Inetdiagers |-> "range"]
    /\ inetdiagMsgCount' = [i \in Inetdiagers |-> 0]
    /\ UNCHANGED <<inHand, handled, reported>>

InetdiagersDone == \A i \in Inetdiagers : inetdiagerPc[i] = "off"

Busy(i) == inetdiagerPc[i] \in {"stats", "process"}

-----------------------------------------------------------------------------
(* The statsTicker may have fired or not when the message arrives.         *)
TakeMessage(i) ==
    /\ inetdiagerPc[i] = "range"
    /\ Receive
    /\ inHand' = [inHand EXCEPT ![i] = Head(netlinkerCh)]
    /\ \E pc \in {"stats", "process"} :
          inetdiagerPc' = [inetdiagerPc EXCEPT ![i] = pc]
    /\ UNCHANGED <<inetdiagMsgCount, handled, reported>>

(* The send of the running totals, at once or after statsBlocked++.        *)
SendStats(i) ==
    /\ inetdiagerPc[i] = "stats"
    /\ SendToStater("inetdiager")
    /\ inetdiagerPc' = [inetdiagerPc EXCEPT ![i] = "process"]
    /\ UNCHANGED <<inHand, inetdiagMsgCount, handled, reported>>

(* The ReportModulus is 1, or inetdiagMsgCount is 1 modulo it.             *)
Reports(count) == InetdiagerReportModulus = 1 \/ count = 1

ProcessMessage(i) ==
    /\ inetdiagerPc[i] = "process"
    /\ handled' = handled \cup {inHand[i]}
    /\ reported' = IF Reports(inetdiagMsgCount[i])
                   THEN reported \cup {inHand[i]} ELSE reported
    /\ inetdiagMsgCount' =
          [inetdiagMsgCount EXCEPT ![i] = (@ + 1) % InetdiagerReportModulus]
    /\ inHand' = [inHand EXCEPT ![i] = NoMessage]
    /\ inetdiagerPc' = [inetdiagerPc EXCEPT ![i] = "range"]
    /\ UNCHANGED channelVars

(* netlinkerCh is closed and empty: the range ends, wg.Done().             *)
ReturnInetdiager(i) ==
    /\ inetdiagerPc[i] = "range"
    /\ Drained
    /\ inetdiagerPc' = [inetdiagerPc EXCEPT ![i] = "off"]
    /\ UNCHANGED <<channelVars, inHand, inetdiagMsgCount, handled, reported>>

InetdiagerStep(i) ==
    \/ TakeMessage(i)
    \/ SendStats(i)
    \/ ProcessMessage(i)
    \/ ReturnInetdiager(i)
=============================================================================
