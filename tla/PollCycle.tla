------------------------------ MODULE PollCycle ------------------------------
(***************************************************************************)
(* What the pipeline of one address family promises to those who read its  *)
(* records, with the goroutines, channels and datagrams left out: polls    *)
(* follow one another, each adds the sampled messages of one dump stamped  *)
(* with that poll's time, each of these is handled once, and the pipeline  *)
(* does not stop before all of them are.                                   *)
(***************************************************************************)
EXTENDS Naturals

CONSTANTS MaxLoops,        (* 0: poll for ever                              *)
          ShutdownWorkers  (* TRUE: a poll ends with nothing left to handle *)

VARIABLES
    phase,    (* "idle", "polling" or "stopped"                             *)
    polls,    (* how many polls have begun                                  *)
    pending,  (* the messages of their dumps still to be handled            *)
    handled   (* the messages handled                                       *)

vars == <<phase, polls, pending, handled>>

Init ==
    /\ phase = "idle"
    /\ polls = 0
    /\ pending = {}
    /\ handled = {}

(* Poll number "polls" begins: every message it adds is stamped with it.   *)
Begin ==
    /\ phase = "idle" /\ phase' = "polling"
    /\ MaxLoops # 0 => polls <= MaxLoops
    /\ polls' = polls + 1
    /\ pending \subseteq pending'
    /\ \A m \in pending' \ pending : m.poll = polls /\ m.time = polls
    /\ UNCHANGED handled

Handle ==
    /\ phase # "stopped"
    /\ \E m \in pending :
          /\ pending' = pending \ {m}
          /\ handled' = handled \cup {m}
    /\ UNCHANGED <<phase, polls>>

End ==
    /\ phase = "polling" /\ phase' = "idle"
    /\ ShutdownWorkers => pending = {}
    /\ UNCHANGED <<polls, pending, handled>>

Stop ==
    /\ phase = "idle" /\ phase' = "stopped"
    /\ MaxLoops # 0 /\ polls = MaxLoops + 1
    /\ pending = {}
    /\ UNCHANGED <<polls, pending, handled>>

Next == Begin \/ Handle \/ End \/ Stop

Spec == Init /\ [][Next]_vars
=============================================================================
