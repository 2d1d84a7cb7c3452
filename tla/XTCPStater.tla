----------------------------- MODULE XTCPStater -----------------------------
(***************************************************************************)
(* XTCPStater (pkg/xtcpstater): again and again, it asks systemctl for the *)
(* main process of the service, ps for what that process uses, and sets    *)
(* its gauges to the answer.  What it only logs (tasks, the heap) or sends *)
(* to statsd, and the counters of its UDP writes, are left out.            *)
(***************************************************************************)
EXTENDS Integers, SequencesExt

CONSTANTS NoStatsd,       (* -noStatsd                                      *)
          StatusAnswers,  (* what "systemctl status" may print: lines, each *)
                          (* a sequence of words; "PID" is any word that    *)
                          (* contains it                                    *)
          PsAnswers       (* what "ps -p pid" may print for each pid: the   *)
                          (* fields pcpu, pmem, rss and sz, or nothing      *)

PidColumn == 3

(* The last line with "PID" in it that has a word in its column, and ""    *)
(* without one.                                                            *)
ParseGetSystemCtlStatus(lines) ==
    LET at == {i \in DOMAIN lines :
                  "PID" \in Range(lines[i]) /\ PidColumn <= Len(lines[i])}
    IN  IF at = {} THEN "" ELSE lines[Max(at)][PidColumn]

PsAnswer == UNION {PsAnswers[p] : p \in DOMAIN PsAnswers}

ASSUME XTCPStaterAssumption ==
    /\ NoStatsd \in BOOLEAN
    /\ \A lines \in StatusAnswers :
          ParseGetSystemCtlStatus(lines) \in DOMAIN PsAnswers
    /\ PsAnswer \subseteq {<<>>} \cup (Nat \X Nat \X Nat \X Nat)

VARIABLES
    statsPc,   (* where XTCPStater is                                       *)
    pid,       (* the process it asks ps about                              *)
    fields,    (* what ps printed: <<pcpu, pmem, rss, sz>>, or <<>>         *)
    gauges,    (* promPCPUGauge, promRSSGauge and promSZGauge               *)
    lastFound  (* history: what ps printed of the last process it found     *)

xtcpStaterVars == <<statsPc, pid, fields, gauges, lastFound>>

XTCPStaterTypeOK ==
    /\ statsPc \in {"off", "dial", "systemctl", "ps", "report", "ticker"}
    /\ pid \in DOMAIN PsAnswers \cup {""}
    /\ fields \in PsAnswer \cup {<<>>}
    /\ gauges \in [{"pcpu", "rss", "sz"} -> Nat]
    /\ lastFound \in PsAnswer \cup {<<>>}

XTCPStaterInit ==
    /\ statsPc = "off"
    /\ pid = ""
    /\ fields = <<>>
    /\ gauges = [g \in {"pcpu", "rss", "sz"} |-> 0]
    /\ lastFound = <<>>

-----------------------------------------------------------------------------
(* net.Dial, unless -noStatsd.                                             *)
DialStatsd ==
    /\ statsPc = "dial" /\ statsPc' = "systemctl"
    /\ UNCHANGED <<pid, fields, gauges, lastFound>>

GetSystemCtlStatus ==
    /\ statsPc = "systemctl" /\ statsPc' = "ps"
    /\ \E lines \in StatusAnswers : pid' = ParseGetSystemCtlStatus(lines)
    /\ UNCHANGED <<fields, gauges, lastFound>>

GetPSStats ==
    /\ statsPc = "ps" /\ statsPc' = "report"
    /\ fields' \in PsAnswers[pid]
    /\ lastFound' = IF fields' = <<>> THEN lastFound ELSE fields'
    /\ UNCHANGED <<pid, gauges>>

(* Mutant of Gauges: where there is nothing to parse the gauges drop to 0. *)
GaugesUnchecked ==
    [pcpu |-> IF fields = <<>> THEN 0 ELSE fields[1],
     rss  |-> IF fields = <<>> THEN 0 ELSE fields[3],
     sz   |-> IF fields = <<>> THEN 0 ELSE fields[3]]

(* A gauge is set if its string parses; sz is set from the string of rss.  *)
Gauges ==
    IF fields = <<>> THEN gauges
    ELSE [pcpu |-> fields[1], rss |-> fields[3], sz |-> fields[3]]

ReportProcess ==
    /\ statsPc = "report" /\ statsPc' = "ticker"
    /\ gauges' = Gauges
    /\ UNCHANGED <<pid, fields, lastFound>>

(* <-ticker.C                                                              *)
NextReport ==
    /\ statsPc = "ticker" /\ statsPc' = "systemctl"
    /\ UNCHANGED <<pid, fields, gauges, lastFound>>

XTCPStaterStep ==
    \/ DialStatsd
    \/ GetSystemCtlStatus
    \/ GetPSStats
    \/ ReportProcess
    \/ NextReport

(* A failed net.Dial leaves a nil connection, and the deferred Close of it *)
(* panics at once.                                                         *)
DialFails == statsPc = "dial" /\ ~NoStatsd

(* systemctl or ps cannot be run, or have not the permissions 0755:        *)
(* log.Fatal.                                                              *)
CommandMissing == statsPc \in {"systemctl", "ps"}

-----------------------------------------------------------------------------
(* xtcpstater.go: "Help: ps -o pcpu", "ps -o rss": between two reports     *)
(* these gauges have what ps printed of the last process it found, both    *)
(* from one answer, and keep it while systemctl's answer leads to no       *)
(* process or ps has nothing to say.  Until there is one they are 0.       *)
GaugesOfPs ==
    /\ lastFound = <<>> => gauges.pcpu = 0 /\ gauges.rss = 0
    /\ statsPc \in {"ticker", "systemctl", "ps"} /\ lastFound # <<>> =>
          /\ gauges.pcpu = lastFound[1]
          /\ gauges.rss = lastFound[3]
=============================================================================
