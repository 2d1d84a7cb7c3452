-------------------------- MODULE MCInetdiagParse --------------------------
(***************************************************************************)
(* Messages of a few sockets, with the sizes the structures really have.   *)
(***************************************************************************)
EXTENDS InetdiagParse, InetdiagStructs

Attr(k, size, v) == [kind |-> k, len |-> HdrSize + size, value |-> v]

(* A message of these attributes.                                          *)
Msg(attrs) ==
    [attrs |-> attrs,
     start |-> FoldLeft(LAMBDA s, a : Append(s, Last(s) + Aligned(a.len)),
                        <<MsgSize>>, attrs)]

Sizes == [info |-> 192, bbrinfo |-> 20, tos |-> 1]

ASSUME SizesAssumption ==
    /\ MsgSize = SizeOf(InetDiagMsg)
    /\ Sizes.info = SizeOf(TCPInfo415) /\ Sizes.bbrinfo = SizeOf(BBRInfo)

(* The dump request asks for established sockets, so every message has     *)
(* tcp_info and an algorithm.  A socket using BBR, one using cubic, and    *)
(* one whose algorithm the code takes for BBR by its first three letters,  *)
(* but which gives no bbrinfo (an algorithm in BPF cannot), under kernels  *)
(* whose tcp_info is that of 4.15 or has grown.                            *)
NewKernel ==
    {Msg(<<Attr("tos", 1, 1), Attr("info", 232, 0), Attr("cong", 4, 1),
           Attr("bbrinfo", 20, 0), Attr("undecoded", 5, 0)>>),
     Msg(<<Attr("tos", 1, 0), Attr("undecoded", 8, 0),
           Attr("info", 192, 0), Attr("cong", 6, 0)>>),
     Msg(<<Attr("tos", 1, 1), Attr("info", 224, 0), Attr("cong", 8, 1),
           Attr("undecoded", 0, 0)>>)}

(* The same under kernels whose tcp_info is smaller than TCPInfo415.       *)
OldKernel ==
    {Msg(<<Attr("tos", 1, 1), Attr("info", 168, 0), Attr("cong", 4, 1),
           Attr("bbrinfo", 20, 0)>>),
     Msg(<<Attr("info", 160, 0), Attr("cong", 6, 0)>>),
     Msg(<<Attr("tos", 1, 0), Attr("undecoded", 1, 0), Attr("info", 160, 0),
           Attr("cong", 6, 0), Attr("undecoded", 16, 0)>>)}

(* Which kernel it is makes no difference from one message to the next, so *)
(* that messages of both may be mixed.                                     *)
BothKernels == NewKernel \cup OldKernel

ASSUME WrittenAssumption == \A m \in BothKernels : AsWritten(m)

(* What the middle of a structure may look like to a reader that takes it  *)
(* for a header: with the last two the program panics, in make and in the  *)
(* slice of three letters.                                                 *)
StrayHeaders ==
    {[kind |-> "none", len |-> 0], [kind |-> "undecoded", len |-> 7],
     [kind |-> "undecoded", len |-> 2000], [kind |-> "tos", len |-> 0],
     [kind |-> "cong", len |-> 64], [kind |-> "info", len |-> 3],
     [kind |-> "cong", len |-> 0], [kind |-> "cong", len |-> 6]}
=============================================================================
