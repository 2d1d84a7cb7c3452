-------------------------- MODULE MCNetlinkerParse --------------------------
(***************************************************************************)
(* Two netlinkers over dumps of a few datagrams.                           *)
(***************************************************************************)
EXTENDS NetlinkerParseProperties, TLC

CONSTANTS n1, n2

TwoNetlinkers == {n1, n2}

(* A datagram of these messages.                                           *)
Datagram(msgs) ==
    [msgs |-> msgs,
     start |-> FoldLeft(LAMBDA s, m : Append(s, Last(s) + m.len), <<0>>, msgs)]

Data(len) == [type |-> "data", multi |-> TRUE, len |-> len]
OtherFlags(len) == [type |-> "data", multi |-> FALSE, len |-> len]
Control(type, len) == [type |-> type, multi |-> type = "done", len |-> len]

(* Messages and a DONE, in two datagrams and in one; a control message     *)
(* before the last; and messages with flags other than NLM_F_MULTI.        *)
SmallDumps ==
    {<<Datagram(<<Data(72)>>),
       Datagram(<<Data(152), Data(88), Control("done", 20)>>)>>,
     <<Datagram(<<Data(88), Data(88), Control("done", 20)>>)>>,
     <<Datagram(<<Data(88), Data(72), Control("overrun", 16), Data(88)>>)>>,
     <<Datagram(<<OtherFlags(32), Data(32), Control("error", 36)>>),
       Datagram(<<Control("done", 20)>>)>>}

(* Room for all of it; room that ends within a payload, right behind a     *)
(* header or in one; and not even room for a header.                       *)
BufferSizes == {4096, 168, 8}

(* What the middle of a payload may look like.                             *)
StrayHeaders ==
    {[type |-> "data", multi |-> FALSE, len |-> 258],
     [type |-> "done", multi |-> FALSE, len |-> 0],
     [type |-> "data", multi |-> TRUE, len |-> 12],
     [type |-> "data", multi |-> TRUE, len |-> 5000],
     [type |-> "data", multi |-> TRUE, len |-> 200]}
=============================================================================
