--------------------------- MODULE StartupProofs ---------------------------
(***************************************************************************)
(* The gate of main, proved for any address families and flags: no         *)
(* polling before a check that finds xtcp enabled, and one signal through  *)
(* disablerCheckComplete.                                                  *)
(***************************************************************************)
EXTENDS Startup, TLAPS

(* The states of main on either side of the gate.                          *)
BeforeGate == {"start", "gate"}
AfterGate == {"staters", "go", "wait"}

(* The types of what the gate relies on: StartupTypeOK without XTCPStater. *)
GateTypeOK ==
    /\ process \in {"runs", "disabled", "failed", "done"}
    /\ mainPc \in BeforeGate \cup AfterGate
    /\ disablerPc \in {"off", "exec", "notify", "ticker", "returned"}
    /\ disablerLoops \in Nat
    /\ checkComplete \in 0 .. CheckChSize
    /\ pollers \in [AddressFamilies -> {"off", "runs", "returned"}]
    /\ disabled \in BOOLEAN
    /\ enabledSeen \in BOOLEAN

(* What the gate relies on: until the Disabler has signalled, main is      *)
(* before the gate; after that, the Disabler has seen xtcp enabled, and    *)
(* signals no more.                                                        *)
GateInv ==
    /\ GateTypeOK
    /\ mainPc \in BeforeGate => \A af \in AddressFamilies : pollers[af] = "off"
    /\ NoDisabler => disablerPc = "off" /\ mainPc # "gate" /\ checkComplete = 0
    /\ ~NoDisabler =>
          /\ mainPc = "start" => disablerPc = "off" /\ disablerLoops = 0
          /\ disablerPc = "off" => mainPc = "start" /\ checkComplete = 0
          /\ disablerPc = "notify" \/ (disablerPc = "exec" /\ disablerLoops = 0)
                => mainPc = "gate" /\ checkComplete = 0
          /\ disablerPc = "notify" \/ checkComplete > 0 \/ mainPc \in AfterGate
                => enabledSeen
          /\ checkComplete > 0 => mainPc = "gate"
          /\ checkComplete <= 1

USE DEF GateTypeOK, CheckChSize, BeforeGate, AfterGate

LEMMA GateInit == ASSUME StartupAssumption PROVE StartupInit => GateInv
<1> SUFFICES ASSUME StartupInit PROVE GateInv
  OBVIOUS
<1>1. GateTypeOK
  <2>1. pollers \in [AddressFamilies -> {"off", "runs", "returned"}]
    BY DEF StartupInit
  <2>2. disabled \in BOOLEAN /\ enabledSeen \in BOOLEAN
    BY Zenon DEF StartupInit
  <2> QED BY <2>1, <2>2 DEF StartupInit
<1>2. ~NoDisabler =>
          /\ disablerPc = "off" /\ disablerLoops = 0 /\ mainPc = "start"
          /\ checkComplete = 0
  BY DEF StartupInit
<1> QED BY <1>1, <1>2 DEF StartupInit, GateInv

(* Main's steps keep the invariant.                                        *)
LEMMA GateMain ==
    ASSUME StartupAssumption, GateInv, MainStep
    PROVE  GateInv'
<1>1. CASE StartDisabler
  BY <1>1 DEF GateInv, StartDisabler, StartupAssumption
<1>2. CASE PassGate
  BY <1>2 DEF GateInv, PassGate, StartupAssumption
<1>3. CASE StartStaters
  BY <1>3 DEF GateInv, StartStaters, StartupAssumption
<1>4. ASSUME NEW af \in AddressFamilies, StartPoller(af)
      PROVE  GateInv'
  BY <1>4 DEF GateInv, StartPoller, StartupAssumption
<1>5. CASE AllStarted
  BY <1>5 DEF GateInv, AllStarted, StartupAssumption
<1>6. CASE MainReturns
  BY <1>6 DEF GateInv, MainReturns, StartupAssumption
<1> QED BY <1>1, <1>2, <1>3, <1>4, <1>5, <1>6 DEF MainStep

(* The Disabler's steps keep it.                                           *)
LEMMA GateDisabler ==
    ASSUME StartupAssumption, GateInv, DisablerStep
    PROVE  GateInv'
<1>1. CASE CommandFails
  BY <1>1 DEF GateInv, CommandFails, StartupAssumption
<1>2. CASE Disable
  BY <1>2 DEF GateInv, Disable, StartupAssumption
<1>3. CASE FindEnabled
  BY <1>3 DEF GateInv, FindEnabled, StartupAssumption
<1>4. CASE NotifyMain
  BY <1>4 DEF GateInv, NotifyMain, StartupAssumption
<1>5. CASE NextCheck
  BY <1>5 DEF GateInv, NextCheck, StartupAssumption
<1> QED BY <1>1, <1>2, <1>3, <1>4, <1>5 DEF DisablerStep

(* The steps of XTCPStater, of the Pollers and of the operator keep it.    *)
LEMMA GateOthers ==
    ASSUME StartupAssumption, GateInv,
           \/ StatsStep
           \/ StatsFail
           \/ \E af \in AddressFamilies : PollerReturns(af)
           \/ SetDisabled
    PROVE  GateInv'
<1>1. CASE StatsStep \/ StatsFail
  BY <1>1 DEF GateInv, StatsStep, StatsFail
<1>2. ASSUME NEW af \in AddressFamilies, PollerReturns(af)
      PROVE  GateInv'
  BY <1>2 DEF GateInv, PollerReturns, StartupAssumption
<1>3. CASE SetDisabled
  BY <1>3 DEF GateInv, SetDisabled
<1> QED BY <1>1, <1>2, <1>3

(* GateInv holds throughout.                                               *)
LEMMA GateInvariant == StartupSpec => []GateInv
<1>1. StartupInit => GateInv
  BY GateInit, StartupAssumption
<1>2. GateInv /\ [StartupNext]_startupVars => GateInv'
  <2> SUFFICES ASSUME GateInv, [StartupNext]_startupVars PROVE GateInv'
    OBVIOUS
  <2>1. CASE StartupNext
    BY <2>1, StartupAssumption, GateMain, GateDisabler, GateOthers
       DEF StartupNext, Goroutines
  <2>2. CASE UNCHANGED startupVars
    BY <2>2 DEF GateInv, startupVars
  <2> QED BY <2>1, <2>2
<1> QED BY <1>1, <1>2, PTL DEF StartupSpec

(* No Poller is started before the Disabler's first check has found xtcp   *)
(* enabled, however main, the Disabler and the operator interleave.        *)
THEOREM PollsAfterCheck == StartupSpec => []NoPollBeforeCheck
<1>1. GateInv => NoPollBeforeCheck
  BY DEF GateInv, NoPollBeforeCheck
<1> QED BY <1>1, GateInvariant, PTL

(* The Disabler signals main once, main takes the signal, and nothing is   *)
(* left in disablerCheckComplete to block on.                              *)
THEOREM SignalledOnce == StartupSpec => []OneSignal
<1>1. GateInv => OneSignal
  BY StartupAssumption DEF GateInv, OneSignal, StartupAssumption
<1> QED BY <1>1, GateInvariant, PTL

-----------------------------------------------------------------------------
(* XTCPStater, as main starts it.                                          *)

(* The gauges are those of an answer of ps.                                *)
GaugesAre(answer) ==
    gauges.pcpu = answer[1] /\ gauges.rss = answer[3] /\ gauges.sz = answer[3]

(* What the gauges rely on: XTCPStater is started once, ps is asked about  *)
(* a process that systemctl named, and what it found is kept until it      *)
(* finds a process again.                                                  *)
StatsInv ==
    /\ XTCPStaterTypeOK
    /\ mainPc \in BeforeGate \cup {"staters"} => statsPc = "off"
    /\ statsPc = "ps" => pid \in DOMAIN PsAnswers
    /\ fields # <<>> => lastFound = fields
    /\ lastFound = <<>> => \A g \in {"pcpu", "rss", "sz"} : gauges[g] = 0
    /\ lastFound # <<>> /\ (statsPc = "report" => fields = <<>>)
          => GaugesAre(lastFound)

StatsVars == <<mainPc, xtcpStaterVars>>

(* An answer of ps is empty or has four fields.                            *)
LEMMA AnswerOfPs ==
    ASSUME XTCPStaterAssumption, NEW answer \in PsAnswer \cup {<<>>}, answer # <<>>
    PROVE  answer[1] \in Nat /\ answer[3] \in Nat
<1>1. answer \in Nat \X Nat \X Nat \X Nat
  BY DEF XTCPStaterAssumption
<1> QED BY <1>1

LEMMA StatsInit ==
    ASSUME XTCPStaterAssumption, StartupInit
    PROVE  StatsInv
<1>1. /\ statsPc = "off" /\ pid = "" /\ fields = <<>> /\ lastFound = <<>>
      /\ gauges = [g \in {"pcpu", "rss", "sz"} |-> 0]
  BY DEF StartupInit, XTCPStaterInit
<1>2. gauges \in [{"pcpu", "rss", "sz"} -> Nat]
  BY <1>1
<1>3. XTCPStaterTypeOK
  BY <1>1, <1>2 DEF XTCPStaterTypeOK
<1> QED BY <1>1, <1>3 DEF StatsInv

(* The steps of XTCPStater keep it.                                        *)
LEMMA StatsKept ==
    ASSUME XTCPStaterAssumption, StatsInv, XTCPStaterStep, mainPc' = mainPc
    PROVE  StatsInv'
<1>1. CASE DialStatsd
  BY <1>1 DEF StatsInv, XTCPStaterTypeOK, GaugesAre, DialStatsd
<1>2. CASE GetSystemCtlStatus
  <2>1. pid' \in DOMAIN PsAnswers
    BY <1>2 DEF GetSystemCtlStatus, XTCPStaterAssumption
  <2> QED BY <1>2, <2>1 DEF StatsInv, XTCPStaterTypeOK, GaugesAre, GetSystemCtlStatus
<1>3. CASE GetPSStats
  <2>1. fields' \in PsAnswer
    BY <1>3 DEF GetPSStats, StatsInv, PsAnswer
  <2> QED BY <1>3, <2>1 DEF StatsInv, XTCPStaterTypeOK, GaugesAre, GetPSStats
<1>4. CASE ReportProcess
  <2>1. CASE fields = <<>>
    BY <1>4, <2>1 DEF StatsInv, XTCPStaterTypeOK, GaugesAre, ReportProcess, Gauges
  <2>2. CASE fields # <<>>
    <3>1. fields[1] \in Nat /\ fields[3] \in Nat
      BY <2>2, AnswerOfPs DEF StatsInv, XTCPStaterTypeOK
    <3>2. gauges' = [pcpu |-> fields[1], rss |-> fields[3], sz |-> fields[3]]
      BY <1>4, <2>2 DEF ReportProcess, Gauges
    <3>3. gauges' \in [{"pcpu", "rss", "sz"} -> Nat]
      BY <3>1, <3>2
    <3>4. XTCPStaterTypeOK'
      BY <1>4, <3>3 DEF StatsInv, XTCPStaterTypeOK, ReportProcess
    <3> QED BY <1>4, <2>2, <3>2, <3>4 DEF StatsInv, GaugesAre, ReportProcess
  <2> QED BY <2>1, <2>2
<1>5. CASE NextReport
  BY <1>5 DEF StatsInv, XTCPStaterTypeOK, GaugesAre, NextReport
<1> QED BY <1>1, <1>2, <1>3, <1>4, <1>5 DEF XTCPStaterStep

(* StatsInv holds throughout: of main, only the step that starts the       *)
(* staters touches XTCPStater, and the other goroutines none.              *)
LEMMA StatsInvariant == StartupSpec => []StatsInv
<1>1. StartupInit => StatsInv
  BY StatsInit, XTCPStaterAssumption
<1>2. StatsInv /\ [StartupNext]_startupVars => StatsInv'
  <2> SUFFICES ASSUME StatsInv, [StartupNext]_startupVars PROVE StatsInv'
    OBVIOUS
  <2>1. ASSUME UNCHANGED StatsVars PROVE StatsInv'
    BY <2>1 DEF StatsVars, xtcpStaterVars, StatsInv, XTCPStaterTypeOK, GaugesAre
  <2>2. ASSUME UNCHANGED xtcpStaterVars,
               mainPc' \in BeforeGate \cup {"staters"}
                  => mainPc \in BeforeGate \cup {"staters"}
        PROVE  StatsInv'
    BY <2>2 DEF xtcpStaterVars, StatsInv, XTCPStaterTypeOK, GaugesAre
  <2>3. CASE MainStep
    <3>1. CASE StartDisabler
      BY <3>1, <2>2 DEF StartDisabler
    <3>2. CASE PassGate
      BY <3>2, <2>2 DEF PassGate
    <3>3. CASE StartStaters
      BY <3>3 DEF StartStaters, StatsInv, XTCPStaterTypeOK, GaugesAre
    <3>4. ASSUME NEW af \in AddressFamilies, StartPoller(af) PROVE StatsInv'
      BY <3>4, <2>1 DEF StartPoller, StatsVars
    <3>5. CASE AllStarted
      BY <3>5, <2>2 DEF AllStarted
    <3>6. CASE MainReturns
      BY <3>6, <2>1 DEF MainReturns, StatsVars
    <3> QED BY <2>3, <3>1, <3>2, <3>3, <3>4, <3>5, <3>6 DEF MainStep
  <2>4. CASE DisablerStep
    BY <2>4, <2>1 DEF DisablerStep, CommandFails, Disable, FindEnabled, NotifyMain,
                      NextCheck, StatsVars
  <2>5. CASE StatsStep
    BY <2>5, StatsKept, XTCPStaterAssumption DEF StatsStep
  <2>6. CASE StatsFail
    BY <2>6, <2>1 DEF StatsFail, StatsVars
  <2>7. ASSUME NEW af \in AddressFamilies, PollerReturns(af) PROVE StatsInv'
    BY <2>7, <2>1 DEF PollerReturns, StatsVars
  <2>8. CASE SetDisabled
    BY <2>8, <2>1 DEF SetDisabled, StatsVars
  <2>9. CASE UNCHANGED startupVars
    BY <2>9, <2>1 DEF startupVars, StatsVars
  <2> QED BY <2>3, <2>4, <2>5, <2>6, <2>7, <2>8, <2>9 DEF StartupNext, Goroutines
<1> QED BY <1>1, <1>2, PTL DEF StartupSpec

(* Between two reports the gauges of CPU and memory are what ps printed of *)
(* the last process it found, whatever systemctl and ps answer in between. *)
THEOREM GaugesAreOfPs == StartupSpec => []GaugesOfPs
<1>1. StatsInv => GaugesOfPs
  BY DEF StatsInv, XTCPStaterTypeOK, GaugesAre, GaugesOfPs
<1> QED BY <1>1, StatsInvariant, PTL

(* Every variable keeps its type; in particular disablerCheckComplete      *)
(* never holds more signals than it buffers, and no answer of ps leaves a  *)
(* gauge without a number.                                                 *)
THEOREM StartupTypes == StartupSpec => []StartupTypeOK
<1>1. GateInv /\ StatsInv => StartupTypeOK
  BY DEF GateInv, StatsInv, StartupTypeOK
<1> QED BY <1>1, GateInvariant, StatsInvariant, PTL
=============================================================================
