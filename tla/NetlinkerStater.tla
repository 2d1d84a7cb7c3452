--------------------------- MODULE NetlinkerStater ---------------------------
(***************************************************************************)
(* The statistics of the netlinkers of one address family: each netlinker  *)
(* counts over its own life, and sends its counts to the NetlinkerStater   *)
(* (pkg/netlinkerstater) as it returns.  The stater adds them to the       *)
(* Prometheus counters of the netlinker's id, which outlive the netlinkers *)
(* of all polls, and writes them to statsd.  The durations are left out,   *)
(* and so is what the statsd messages say.                                 *)
(***************************************************************************)
EXTENDS Integers, Sequences

CONSTANTS Netlinkers,         (* -netlinkers4 or -netlinkers6: the ids      *)
          PromNetlinkerChSize (* -promNetlinkerChSize                       *)

ASSUME NetlinkerStaterAssumption == PromNetlinkerChSize \in Nat \ {0}

VARIABLES
    netlinkerStaterCh,  (* the reports that wait in the channel             *)
    counters,           (* the Prometheus counters of each id               *)
    staterMsgs,         (* netlinkerStaterMsg: reports received             *)
    udpConn,            (* "dial" until the stater has dialled statsd, then *)
                        (* "open", or "off" with -noStatsd                  *)
    udps,               (* netlinkerStaterUDPs                              *)
    panicked            (* the process has ended in a panic                 *)

staterVars == <<counters, staterMsgs, udpConn, udps>>
netlinkerStaterVars == <<netlinkerStaterCh, staterVars, panicked>>

(* NetlinkerStats                                                          *)
Counter == {"packets", "nasty", "in", "msgs", "read", "out", "errors", "blocked"}
Counts == [Counter -> Int]

NoCounts == [c \in Counter |-> 0]
Plus(a, b) == [c \in Counter |-> a[c] + b[c]]

Report == [id : Netlinkers, stats : Counts]

NetlinkerStaterTypeOK ==
    /\ netlinkerStaterCh \in Seq(Report)
    /\ Len(netlinkerStaterCh) <= PromNetlinkerChSize
    /\ counters \in [Netlinkers -> Counts]
    /\ staterMsgs \in Nat
    /\ udpConn \in {"dial", "open", "off"}
    /\ udps \in Nat
    /\ panicked \in BOOLEAN

NetlinkerStaterInit ==
    /\ netlinkerStaterCh = <<>>
    /\ counters = [n \in Netlinkers |-> NoCounts]
    /\ staterMsgs = 0
    /\ udpConn = "dial"
    /\ udps = 0
    /\ panicked = FALSE

-----------------------------------------------------------------------------
(* The goroutine's start, beside the Pollers': net.Dial, or nothing with    *)
(* -noStatsd.                                                              *)
DialStatsd ==
    /\ udpConn = "dial"
    /\ udpConn' \in {"open", "off"}
    /\ UNCHANGED <<netlinkerStaterCh, counters, staterMsgs, udps, panicked>>

(* A net.Dial that fails is only logged, and "defer udpConn.Close()" of a  *)
(* connection that is nil panics.                                          *)
DialFails ==
    /\ udpConn = "dial"
    /\ panicked' = TRUE
    /\ UNCHANGED <<netlinkerStaterCh, staterVars>>

(* netlinkerStaterCh <- netlinkerstater.NetlinkerStatsWrapper{...}         *)
SendReport(n, stats) ==
    /\ Len(netlinkerStaterCh) < PromNetlinkerChSize
    /\ netlinkerStaterCh' = Append(netlinkerStaterCh, [id |-> n, stats |-> stats])
    /\ UNCHANGED <<staterVars, panicked>>

(* Mutant of AddToCounters: the counters are set, as gauges are.           *)
SetCounters(report) == [counters EXCEPT ![report.id] = report.stats]

AddToCounters(report) ==
    [counters EXCEPT ![report.id] = Plus(@, report.stats)]

(* One message for each of seven counts, and one for blocked sends.        *)
Writes(report) == IF report.stats["blocked"] > 0 THEN 8 ELSE 7

(* The writes to statsd are counted whether they fail or not (how many     *)
(* fail is left out).                                                      *)
WriteStatsd(report) ==
    udps' = udps + IF udpConn = "open" THEN Writes(report) ELSE 0

(* One turn of "for netlinkerStatsWrapper := range in".                    *)
ReceiveReport ==
    /\ udpConn # "dial"
    /\ netlinkerStaterCh # <<>>
    /\ netlinkerStaterCh' = Tail(netlinkerStaterCh)
    /\ staterMsgs' = staterMsgs + 1
    /\ counters' = AddToCounters(Head(netlinkerStaterCh))
    /\ WriteStatsd(Head(netlinkerStaterCh))
    /\ UNCHANGED <<udpConn, panicked>>
=============================================================================
