---------------------------- MODULE PollerStater ----------------------------
(***************************************************************************)
(* The statistics of the Pollers: the Poller of each address family sends  *)
(* the duration of its last poll to the one PollerStater                   *)
(* (pkg/pollerstater) at the start of its next loop, and PollerStater      *)
(* keeps the Prometheus counters pollingLoops and pollingLong, the first   *)
(* from the difference to the last statistics of the family.               *)
(*                                                                         *)
(* A poll is one step here (module Poller has the rest), a duration is     *)
(* whether it exceeds PollingFrequency * PollingSafetyBuffer, and the      *)
(* statsd messages and the histograms are left out.                        *)
(***************************************************************************)
EXTENDS Naturals, Sequences, FiniteSets

CONSTANTS AddressFamilies,
          PromPollerChSize,   (* -promPollerChSize                          *)
          MaxLoops            (* -maxLoops, not 0: the bound of the model   *)

ASSUME PollerStaterAssumption ==
    /\ PromPollerChSize \in Nat \ {0}
    /\ MaxLoops \in Nat \ {0}

VARIABLES
    loopPc,         (* "send", "poll" or "returned" for each Poller         *)
    pollingLoops,   (* the loop variable of each Poller                     *)
    pollLong,       (* pollDuration is too long; not so before the first    *)
    pollerStaterCh, (* the channel all Pollers share                        *)
    oldStatsMap,    (* PollingLoops of the last statistics of a family      *)
    promLoops,      (* the counter pollingLoops of each family              *)
    promLong,       (* the counter pollingLong of each family               *)
    longPolls       (* how many polls of a family have been too long        *)

pollerStaterVars == <<loopPc, pollingLoops, pollLong, pollerStaterCh,
                      oldStatsMap, promLoops, promLong, longPolls>>

Stats == [af : AddressFamilies, loops : Nat, long : BOOLEAN]

PollerStaterTypeOK ==
    /\ loopPc \in [AddressFamilies -> {"send", "poll", "returned"}]
    /\ pollingLoops \in [AddressFamilies -> 0 .. MaxLoops + 1]
    /\ pollLong \in [AddressFamilies -> BOOLEAN]
    /\ pollerStaterCh \in Seq(Stats) /\ Len(pollerStaterCh) <= PromPollerChSize
    /\ oldStatsMap \in [AddressFamilies -> Nat]
    /\ promLoops \in [AddressFamilies -> Nat]
    /\ promLong \in [AddressFamilies -> Nat]
    /\ longPolls \in [AddressFamilies -> Nat]

PollerStaterInit ==
    /\ loopPc = [af \in AddressFamilies |-> "send"]
    /\ pollingLoops = [af \in AddressFamilies |-> 0]
    /\ pollLong = [af \in AddressFamilies |-> FALSE]
    /\ pollerStaterCh = <<>>
    /\ oldStatsMap = [af \in AddressFamilies |-> 0]
    /\ promLoops = [af \in AddressFamilies |-> 0]
    /\ promLong = [af \in AddressFamilies |-> 0]
    /\ longPolls = [af \in AddressFamilies |-> 0]

-----------------------------------------------------------------------------
CurrentStats(af) ==
    [af |-> af, loops |-> pollingLoops[af], long |-> pollLong[af]]

(* Mutant of SendStats: statistics are dropped when the channel is full.   *)
SendStatsOrDrop(af) ==
    /\ loopPc[af] = "send"
    /\ loopPc' = [loopPc EXCEPT ![af] = "poll"]
    /\ pollerStaterCh' = IF Len(pollerStaterCh) < PromPollerChSize
                         THEN Append(pollerStaterCh, CurrentStats(af))
                         ELSE pollerStaterCh
    /\ UNCHANGED <<pollingLoops, pollLong, oldStatsMap, promLoops, promLong, longPolls>>

(* pollerStaterCh <- currentPollerStats                                    *)
SendStats(af) ==
    /\ loopPc[af] = "send"
    /\ loopPc' = [loopPc EXCEPT ![af] = "poll"]
    /\ Len(pollerStaterCh) < PromPollerChSize
    /\ pollerStaterCh' = Append(pollerStaterCh, CurrentStats(af))
    /\ UNCHANGED <<pollingLoops, pollLong, oldStatsMap, promLoops, promLong, longPolls>>

(* One poll, the tick after it and the loop's condition.                   *)
Poll(af) ==
    /\ loopPc[af] = "poll"
    /\ \E long \in BOOLEAN :
          /\ pollLong' = [pollLong EXCEPT ![af] = long]
          /\ longPolls' = [longPolls EXCEPT ![af] = @ + IF long THEN 1 ELSE 0]
    /\ pollingLoops' = [pollingLoops EXCEPT ![af] = @ + 1]
    /\ loopPc' = [loopPc EXCEPT ![af] = IF pollingLoops'[af] > MaxLoops
                                        THEN "returned" ELSE "send"]
    /\ UNCHANGED <<pollerStaterCh, oldStatsMap, promLoops, promLong>>

(* Mutant of Receive: one entry of old statistics for all families.        *)
ReceiveSharedOld ==
    /\ pollerStaterCh # <<>>
    /\ LET stats == Head(pollerStaterCh)
       IN  /\ promLoops' = [promLoops EXCEPT ![stats.af] =
                               @ + (stats.loops - oldStatsMap[stats.af])]
           /\ oldStatsMap' = [af \in AddressFamilies |-> stats.loops]
           /\ promLong' = [promLong EXCEPT ![stats.af] = @ + IF stats.long THEN 1 ELSE 0]
    /\ pollerStaterCh' = Tail(pollerStaterCh)
    /\ UNCHANGED <<loopPc, pollingLoops, pollLong, longPolls>>

(* One round of PollerStater.                                              *)
Receive ==
    /\ pollerStaterCh # <<>>
    /\ LET stats == Head(pollerStaterCh)
       IN  /\ promLoops' = [promLoops EXCEPT ![stats.af] =
                               @ + (stats.loops - oldStatsMap[stats.af])]
           /\ oldStatsMap' = [oldStatsMap EXCEPT ![stats.af] = stats.loops]
           /\ promLong' = [promLong EXCEPT ![stats.af] = @ + IF stats.long THEN 1 ELSE 0]
    /\ pollerStaterCh' = Tail(pollerStaterCh)
    /\ UNCHANGED <<loopPc, pollingLoops, pollLong, longPolls>>

(* main returns with the last Poller, and the process ends.                *)
Ended == \A af \in AddressFamilies : loopPc[af] = "returned"

PollerStaterNext ==
    /\ ~Ended
    /\ \/ \E af \in AddressFamilies : SendStats(af) \/ Poll(af)
       \/ Receive

PollerStaterSpec == PollerStaterInit /\ [][PollerStaterNext]_pollerStaterVars

-----------------------------------------------------------------------------
(* Where the statistics of a family are in the channel.                    *)
Queued(af) == {i \in DOMAIN pollerStaterCh : pollerStaterCh[i].af = af}

(* Once it has counted, the counter pollingLoops of a family lags behind   *)
(* its Poller by what is queued, one loop for each statistics, and by the  *)
(* loop the Poller has not sent yet.                                       *)
LoopsLag ==
    \A af \in AddressFamilies :
       promLoops[af] # 0 =>
          pollingLoops[af] = promLoops[af] + Cardinality(Queued(af))
                             + IF loopPc[af] = "poll" THEN 0 ELSE 1

(* pollerstater.go: each poll that took too long is counted once: it is in *)
(* the counter, in the channel, or in the Poller's hands.                  *)
LongPollsCountedOnce ==
    \A af \in AddressFamilies :
       longPolls[af] = promLong[af]
                       + Cardinality({i \in Queued(af) : pollerStaterCh[i].long})
                       + IF pollLong[af] /\ loopPc[af] # "poll" THEN 1 ELSE 0
=============================================================================
