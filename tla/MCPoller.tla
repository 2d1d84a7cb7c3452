------------------------------ MODULE MCPoller ------------------------------
(***************************************************************************)
(* Small instances of the pipeline of one address family for TLC.          *)
(***************************************************************************)
EXTENDS PollerInvariant, TLC

CONSTANTS n1, n2, i1, i2

TwoNetlinkers == {n1, n2}
TwoInetdiagers == {i1, i2}

(* An empty dump, one that NLMSG_DONE ends in its last datagram, and one   *)
(* ended by a datagram of its own, as the kernel ends a dump that filled   *)
(* the datagram before; a control message cuts its second datagram short.  *)
VariedDumps ==
    {<<<<"done">>>>,
     <<<<"data", "data", "done">>>>,
     <<<<"data", "data">>, <<"data", "noop", "data">>, <<"done">>>>}

(* Datagrams of several lengths for a sampling modulus above 1, and one    *)
(* that a control message ends before its data is read.                    *)
SampledDumps ==
    {<<<<"data", "data", "data", "data">>, <<"done">>>>,
     <<<<"overrun", "data">>, <<"data", "data", "done">>>>}

ShortDumps == {<<<<"data">>, <<"data", "done">>>>, <<<<"done">>>>}

(* Stater channels of one place each.                                      *)
OneSlot == [s \in Stater |-> 1]

WorkerSymmetry == Permutations(TwoNetlinkers) \cup Permutations(TwoInetdiagers)
=============================================================================
