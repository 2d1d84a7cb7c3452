------------------------------ MODULE Startup ------------------------------
(***************************************************************************)
(* The life of the process: main starts the Disabler (pkg/disabler) and    *)
(* waits for its first check, starts a Poller for each address family, and *)
(* returns when all of them have; the Disabler runs a command at regular   *)
(* intervals and ends the process when the command answers "1".  The end   *)
(* of the process is the end of every goroutine in it.                     *)
(*                                                                         *)
(* The Pollers are abstracted to whether they run (module Poller has the   *)
(* rest).  Of the staters, only XTCPStater (module XTCPStater) is here,    *)
(* which may end the process.                                              *)
(***************************************************************************)
EXTENDS XTCPStater

CONSTANTS AddressFamilies,  (* those not switched off by -no4 and -no6      *)
          NoDisabler,       (* -noDisabler                                  *)
          MaxLoops,         (* -maxLoops; 0 for ever                        *)
          CommandExpands    (* TRUE: -disablerCommand answers with the      *)
                            (* value of XTCP_DISABLED, as a script may.     *)
                            (* FALSE: it is the default, echo, which no     *)
                            (* shell runs and which answers with its        *)
                            (* argument, the name "$XTCP_DISABLED"          *)

ASSUME StartupAssumption ==
    /\ NoDisabler \in BOOLEAN
    /\ MaxLoops \in Nat
    /\ CommandExpands \in BOOLEAN

VARIABLES
    process,        (* "runs", or how it ended                              *)
    mainPc,         (* where main is                                        *)
    disablerPc,     (* where the Disabler is                                *)
    disablerLoops,  (* its pollingLoops                                     *)
    checkComplete,  (* how many signals disablerCheckComplete buffers       *)
    pollers,        (* "off", "runs" or "returned" for each family          *)
    disabled,       (* XTCP_DISABLED is 1: the operator's, not xtcp's       *)
    enabledSeen     (* a check has found xtcp enabled                       *)

startupVars == <<process, mainPc, disablerPc, disablerLoops, checkComplete,
                 pollers, disabled, enabledSeen, xtcpStaterVars>>

(* disablerCheckComplete = make(chan struct{}, 2)                          *)
CheckChSize == 2

StartupTypeOK ==
    /\ process \in {"runs", "disabled", "failed", "done"}
    /\ mainPc \in {"start", "gate", "staters", "go", "wait"}
    /\ disablerPc \in {"off", "exec", "notify", "ticker", "returned"}
    /\ disablerLoops \in Nat
    /\ checkComplete \in 0 .. CheckChSize
    /\ pollers \in [AddressFamilies -> {"off", "runs", "returned"}]
    /\ disabled \in BOOLEAN
    /\ enabledSeen \in BOOLEAN
    /\ XTCPStaterTypeOK

StartupInit ==
    /\ process = "runs"
    /\ mainPc = "start"
    /\ disablerPc = "off"
    /\ disablerLoops = 0
    /\ checkComplete = 0
    /\ XTCPStaterInit
    /\ pollers = [af \in AddressFamilies |-> "off"]
    /\ disabled \in BOOLEAN
    /\ enabledSeen = FALSE

-----------------------------------------------------------------------------
(* main: go disabler.Disabler(...), or straight on with -noDisabler.       *)
StartDisabler ==
    /\ mainPc = "start" /\ mainPc' = IF NoDisabler THEN "staters" ELSE "gate"
    /\ disablerPc' = IF NoDisabler THEN "off" ELSE "exec"
    /\ UNCHANGED <<process, disablerLoops, checkComplete, xtcpStaterVars,
                   pollers, disabled, enabledSeen>>

(* Mutant of PassGate: main takes a signal that may not be there.          *)
PassGateUnchecked ==
    /\ mainPc = "gate" /\ mainPc' = "staters"
    /\ checkComplete' = checkComplete - 1
    /\ UNCHANGED <<process, disablerPc, disablerLoops, xtcpStaterVars,
                   pollers, disabled, enabledSeen>>

(* Mutant of PassGate: main does not wait for the first check.             *)
PassGateAtOnce ==
    /\ mainPc = "gate" /\ mainPc' = "staters"
    /\ UNCHANGED <<process, disablerPc, disablerLoops, checkComplete,
                   xtcpStaterVars, pollers, disabled, enabledSeen>>

(* <-disablerCheckComplete                                                 *)
PassGate ==
    /\ mainPc = "gate" /\ mainPc' = "staters"
    /\ checkComplete > 0
    /\ checkComplete' = checkComplete - 1
    /\ UNCHANGED <<process, disablerPc, disablerLoops, xtcpStaterVars,
                   pollers, disabled, enabledSeen>>

(* go xtcpstater.XTCPStater(...) and the other staters.                    *)
StartStaters ==
    /\ mainPc = "staters" /\ mainPc' = "go"
    /\ statsPc' = "dial"
    /\ UNCHANGED <<pid, fields, gauges, lastFound, process, disablerPc,
                   disablerLoops, checkComplete, pollers, disabled,
                   enabledSeen>>

(* go poller.Poller(af, ...), one family after the other.                  *)
StartPoller(af) ==
    /\ mainPc = "go"
    /\ pollers[af] = "off"
    /\ pollers' = [pollers EXCEPT ![af] = "runs"]
    /\ UNCHANGED <<process, mainPc, disablerPc, disablerLoops,
                   checkComplete, xtcpStaterVars, disabled, enabledSeen>>

AllStarted ==
    /\ mainPc = "go" /\ mainPc' = "wait"
    /\ \A af \in AddressFamilies : pollers[af] # "off"
    /\ UNCHANGED <<process, disablerPc, disablerLoops, checkComplete,
                   xtcpStaterVars, pollers, disabled, enabledSeen>>

(* pollerWG.Wait(), and main returns.                                      *)
MainReturns ==
    /\ mainPc = "wait"
    /\ \A af \in AddressFamilies : pollers[af] = "returned"
    /\ process' = "done"
    /\ UNCHANGED <<mainPc, disablerPc, disablerLoops, checkComplete,
                   xtcpStaterVars, pollers, disabled, enabledSeen>>

(* Mutant of PollerReturns: its wg.Done() is missing.                      *)
PollerReturnsUncounted(af) ==
    /\ pollers[af] = "runs"
    /\ MaxLoops # 0
    /\ UNCHANGED startupVars

(* A Poller returns after -maxLoops.                                       *)
PollerReturns(af) ==
    /\ pollers[af] = "runs"
    /\ MaxLoops # 0
    /\ pollers' = [pollers EXCEPT ![af] = "returned"]
    /\ UNCHANGED <<process, mainPc, disablerPc, disablerLoops,
                   checkComplete, xtcpStaterVars, disabled, enabledSeen>>

-----------------------------------------------------------------------------
(* string(bytes.TrimSpace(response)) of a command that succeeds.           *)
Answer ==
    CASE ~CommandExpands -> "$XTCP_DISABLED"
      [] CommandExpands /\ disabled -> "1"
      [] OTHER -> "0"

(* The command fails: log.Fatal.                                           *)
CommandFails ==
    /\ disablerPc = "exec"
    /\ process' = "failed"
    /\ UNCHANGED <<mainPc, disablerPc, disablerLoops, checkComplete,
                   xtcpStaterVars, pollers, disabled, enabledSeen>>

(* os.Exit(0)                                                              *)
Disable ==
    /\ disablerPc = "exec"
    /\ Answer = "1"
    /\ process' = "disabled"
    /\ UNCHANGED <<mainPc, disablerPc, disablerLoops, checkComplete,
                   xtcpStaterVars, pollers, disabled, enabledSeen>>

(* Mutants of FindEnabled: every check is signalled to main, or none is.   *)
NotifyAlways ==
    /\ disablerPc = "exec"
    /\ Answer # "1"
    /\ disablerPc' = "notify"
    /\ enabledSeen' = TRUE
    /\ UNCHANGED <<process, mainPc, disablerLoops, checkComplete,
                   xtcpStaterVars, pollers, disabled>>

NotifyNever ==
    /\ disablerPc = "exec"
    /\ Answer # "1"
    /\ disablerPc' = "ticker"
    /\ enabledSeen' = TRUE
    /\ UNCHANGED <<process, mainPc, disablerLoops, checkComplete,
                   xtcpStaterVars, pollers, disabled>>

(* The first check, and no other, is to be signalled to main.              *)
FindEnabled ==
    /\ disablerPc = "exec"
    /\ Answer # "1"
    /\ disablerPc' = IF disablerLoops = 0 THEN "notify" ELSE "ticker"
    /\ enabledSeen' = TRUE
    /\ UNCHANGED <<process, mainPc, disablerLoops, checkComplete,
                   xtcpStaterVars, pollers, disabled>>

(* done <- struct{}{}                                                      *)
NotifyMain ==
    /\ disablerPc = "notify" /\ disablerPc' = "ticker"
    /\ checkComplete < CheckChSize
    /\ checkComplete' = checkComplete + 1
    /\ UNCHANGED <<process, mainPc, disablerLoops, xtcpStaterVars, pollers,
                   disabled, enabledSeen>>

(* <-ticker.C and the loop's condition.  With -maxLoops 0 the first loop   *)
(* alone is told from the others, and the counter stays at 1.              *)
NextCheck ==
    /\ disablerPc = "ticker"
    /\ disablerLoops' = IF MaxLoops = 0 THEN 1 ELSE disablerLoops + 1
    /\ disablerPc' = IF MaxLoops # 0 /\ disablerLoops' > MaxLoops
                     THEN "returned" ELSE "exec"
    /\ UNCHANGED <<process, mainPc, checkComplete, xtcpStaterVars, pollers,
                   disabled, enabledSeen>>

-----------------------------------------------------------------------------
StatsStep ==
    /\ XTCPStaterStep
    /\ UNCHANGED <<process, mainPc, disablerPc, disablerLoops, checkComplete,
                   pollers, disabled, enabledSeen>>

StatsFail ==
    /\ DialFails \/ CommandMissing
    /\ process' = "failed"
    /\ UNCHANGED <<mainPc, disablerPc, disablerLoops, checkComplete, pollers,
                   disabled, enabledSeen, xtcpStaterVars>>

(* The operator sets or clears XTCP_DISABLED.                              *)
SetDisabled ==
    /\ disabled' = ~disabled
    /\ UNCHANGED <<process, mainPc, disablerPc, disablerLoops,
                   checkComplete, xtcpStaterVars, pollers, enabledSeen>>

-----------------------------------------------------------------------------
MainStep ==
    \/ StartDisabler
    \/ PassGate
    \/ StartStaters
    \/ \E af \in AddressFamilies : StartPoller(af)
    \/ AllStarted
    \/ MainReturns

DisablerStep ==
    \/ CommandFails
    \/ Disable
    \/ FindEnabled
    \/ NotifyMain
    \/ NextCheck

Goroutines ==
    \/ MainStep
    \/ DisablerStep
    \/ StatsStep
    \/ StatsFail
    \/ \E af \in AddressFamilies : PollerReturns(af)

(* Nothing in the process moves once it has ended.                         *)
StartupNext == (process = "runs" /\ Goroutines) \/ SetDisabled

StartupSpec == StartupInit /\ [][StartupNext]_startupVars

(* main, the Disabler and its ticker go on, and Pollers that have a bound  *)
(* on their loops reach it.  Nothing is asked of the operator.             *)
StartupFairness ==
    /\ WF_startupVars(process = "runs" /\ MainStep)
    /\ WF_startupVars(process = "runs" /\ DisablerStep)
    /\ \A af \in AddressFamilies :
          WF_startupVars(process = "runs" /\ PollerReturns(af))

FairStartupSpec == StartupSpec /\ StartupFairness

-----------------------------------------------------------------------------
(* disabler.go: "The channel is required to ensure that on startup xtcp    *)
(* blocks waiting for the first iteration to complete": no Poller is       *)
(* started before a check has found xtcp enabled.                          *)
NoPollBeforeCheck ==
    ~NoDisabler /\ (\E af \in AddressFamilies : pollers[af] # "off") => enabledSeen

(* The gate is passed once: main takes the one signal there is, and the    *)
(* Disabler never blocks on the channel.                                   *)
OneSignal == checkComplete <= 1 /\ (mainPc \in {"staters", "go", "wait"} => checkComplete = 0)

(* disabler.go: "polls system variable at a regular interval and will kill *)
(* xtcp if the stdout response is "1\n"": an xtcp that stays disabled      *)
(* comes to an end.                                                        *)
DisableEnds == ~NoDisabler => (<>[]disabled => <>(process # "runs"))

(* An xtcp that has been started ends or polls: main does not hang at the  *)
(* gate.                                                                   *)
GateOpens ==
    <>(process # "runs" \/ \A af \in AddressFamilies : pollers[af] # "off")

(* With -maxLoops the process ends, whatever the Disabler does.            *)
BoundedRunEnds == MaxLoops # 0 => <>(process # "runs")
=============================================================================
