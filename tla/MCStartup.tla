----------------------------- MODULE MCStartup -----------------------------
(***************************************************************************)
(* Both address families, with loops bounded and unbounded.                *)
(***************************************************************************)
EXTENDS Startup

BothFamilies == {"v4", "v6"}

MainLine == <<"Main", "PID", "4711", "(xtcp)">>
(* A line of the journal, which systemctl prints after the rest.           *)
JournalLine == <<"Apr", "02", "10:31:07", "host", "systemd", "PID">>

(* The service runs, with and without such a line; it has never run.       *)
ServiceStatus ==
    {<<MainLine, <<"Tasks", "12">> >>, <<MainLine, JournalLine>>,
     << <<"Loaded", "loaded">> >>}

(* ps may miss a process that has ended since.                             *)
PsOfPid ==
    [p \in {"4711", "10:31:07", ""} |->
        IF p = "4711" THEN {<<>>, <<1, 1, 40, 7>>, <<2, 1, 50, 8>>} ELSE {<<>>}]
=============================================================================
