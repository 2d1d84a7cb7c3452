--------------------------- MODULE InetdiagParse ---------------------------
(***************************************************************************)
(* One inetdiager at work on the bytes of its messages: ProcessMessage of  *)
(* module Inetdiager in detail.  processNetlinkAttributes walks over the   *)
(* netlink attributes of a message with a reader that knows nothing of     *)
(* where they start: it reads a header, as many bytes as this program's    *)
(* structure for the attribute has, and then as many pad bytes as should   *)
(* lead to the next header.  The structures live as long as the inetdiager *)
(* does, and the XtcpRecord of a message is built from them.               *)
(*                                                                         *)
(* The content of an attribute is abstracted to the message it was in and  *)
(* a value where buildProto looks at it.  "info" stands for meminfo,       *)
(* tcpinfo, skmeminfo and mark, and "tos" for tos, tclass, shutdown and    *)
(* class id, which the record carries only when they are not 0.            *)
(***************************************************************************)
EXTENDS Integers, Sequences, Functions

CONSTANTS Messages,       (* the messages the kernel may send              *)
          MsgSize,        (* binary.Size(inetdiagMsg)                      *)
          StructSize,     (* the size of this program's info, bbrinfo, tos *)
          Strays,         (* headers that bytes which are none may look    *)
                          (* like                                          *)
          InetdiagerReportModulus,
          MaxMessages     (* bound: messages looked at                     *)

Kept == {"info", "bbrinfo", "tos", "cong"}
Kind == Kept \cup {"undecoded", "none"}

HdrSize == 4
Header == [kind : Kind, len : Nat]

(* The kernel's NLA_ALIGN.                                                 *)
Aligned(len) == ((len + 3) \div 4) * 4

Attribute == [kind : Kind \ {"none"}, len : Nat, value : {0, 1}]

HeaderOf(m, i) == [kind |-> m.attrs[i].kind, len |-> m.attrs[i].len]

(* Attribute i lies at start[i], and the message ends at start[n + 1].     *)
IsMessage(m) ==
    /\ m.attrs \in Seq(Attribute)
    /\ m.start \in [1 .. Len(m.attrs) + 1 -> Nat]
    /\ m.start[1] = MsgSize
    /\ \A i \in 1 .. Len(m.attrs) :
          /\ m.attrs[i].len >= HdrSize
          /\ m.start[i + 1] = m.start[i] + Aligned(m.attrs[i].len)

Size(m) == m.start[Len(m.attrs) + 1]

ASSUME ParseAssumption ==
    /\ MsgSize \in Nat \ {0}
    /\ StructSize \in [{"info", "bbrinfo", "tos"} -> Nat \ {0}]
    /\ \A m \in Messages : IsMessage(m)
    /\ Strays \subseteq Header
    /\ InetdiagerReportModulus \in Nat \ {0}
    /\ MaxMessages \in Nat

VARIABLES
    parsePc,    (* where the inetdiager is                                 *)
    msg,        (* the message it works on                                 *)
    msgNo,      (* inetdiagMsgCount: how many it has finished before       *)
    offset,     (* where inetdiagMsgReader is in the message               *)
    nlattr,     (* the header read last                                    *)
    at,         (* the attribute that header is of, 0 if it is of none     *)
    attrRead,   (* attributesBytesRead                                     *)
    complete,   (* inetdiagMsgComplete                                     *)
    bytesRead,  (* inetdiagMsgBytesRead                                    *)
    padRead,    (* padBufferSize                                           *)
    kept,       (* the structures: where their content is from, and what   *)
    record      (* the XtcpRecord built last                               *)

parseVars == <<parsePc, msg, msgNo, offset, nlattr, at, attrRead, complete,
               bytesRead, padRead, kept, record>>

(* Content of a structure: from = 0 is the zero value it starts with, p    *)
(* the content of an attribute of the p-th message, -1 any other bytes;    *)
(* value 1 is "bbr" in cong and anything but 0 in tos.                     *)
Content == [from : Int, value : {0, 1}]
Zero == [from |-> 0, value |-> 0]

NoRecord == [of |-> 0, fields |-> [k \in {} |-> Zero]]

ParseTypeOK ==
    /\ parsePc \in {"range", "header", "decode", "pad", "record", "panic"}
    /\ msgNo \in Nat
    /\ offset \in 0 .. Size(msg)
    /\ nlattr \in Header
    /\ at \in 0 .. Len(msg.attrs)
    /\ attrRead \in Nat
    /\ complete \in BOOLEAN
    /\ bytesRead \in Nat
    /\ padRead \in Nat
    /\ kept \in [Kept -> Content]

NoMsg == [attrs |-> <<>>, start |-> <<MsgSize>>]

NoHeader == [kind |-> "none", len |-> 0]

ParseInit ==
    /\ parsePc = "range"
    /\ msg = NoMsg
    /\ msgNo = 0
    /\ offset = 0
    /\ nlattr = NoHeader
    /\ at = 0
    /\ attrRead = 0
    /\ complete = FALSE
    /\ bytesRead = 0
    /\ padRead = 0
    /\ kept = [k \in Kept |-> Zero]
    /\ record = NoRecord

-----------------------------------------------------------------------------
(* The next message, and binary.Read of its fixed part.                    *)
NextMsg ==
    /\ parsePc = "range" /\ parsePc' = "header"
    /\ msgNo < MaxMessages
    /\ msg' \in Messages
    /\ offset' = MsgSize
    /\ bytesRead' = MsgSize
    /\ padRead' = 0
    /\ nlattr' = NoHeader
    /\ at' = 0
    /\ complete' = FALSE
    /\ UNCHANGED <<msgNo, attrRead, kept, record>>

Left == Size(msg) - offset

(* Mutant of EndOfAttributes: io.EOF is not taken for the end.             *)
RetryAtEnd ==
    /\ parsePc = "header"
    /\ Left = 0
    /\ UNCHANGED parseVars

(* binary.Read of the header finds io.EOF: the loop ends.                  *)
EndOfAttributes ==
    /\ parsePc = "header" /\ parsePc' = "record"
    /\ Left = 0
    /\ complete' = TRUE
    /\ UNCHANGED <<msg, msgNo, offset, nlattr, at, attrRead, bytesRead,
                   padRead, kept, record>>

(* The header is read: at the start of an attribute its own, elsewhere     *)
(* whatever the bytes there look like.                                     *)
ReadHeader ==
    /\ parsePc = "header" /\ parsePc' = "decode"
    /\ Left >= HdrSize
    /\ offset' = offset + HdrSize
    /\ bytesRead' = bytesRead + HdrSize
    /\ \/ \E i \in 1 .. Len(msg.attrs) :
             /\ offset = msg.start[i]
             /\ at' = i
             /\ nlattr' = HeaderOf(msg, i)
       \/ /\ \A i \in 1 .. Len(msg.attrs) : offset # msg.start[i]
          /\ at' = 0
          /\ nlattr' \in Strays
    /\ UNCHANGED <<msg, msgNo, attrRead, complete, padRead, kept, record>>

(* io.ErrUnexpectedEOF is not io.EOF: the rest of the message is gone, and *)
(* the header read last is taken once more.                                *)
ReadHeaderShort ==
    /\ parsePc = "header" /\ parsePc' = "decode"
    /\ Left \in 1 .. HdrSize - 1
    /\ offset' = Size(msg)
    /\ bytesRead' = bytesRead + HdrSize
    /\ at' = 0
    /\ UNCHANGED <<msg, msgNo, nlattr, attrRead, complete, padRead, kept, record>>

-----------------------------------------------------------------------------
(* What the switch over the attribute types reads: the whole of a name, a  *)
(* structure, or nothing.                                                  *)
ReadSize(h) ==
    CASE h.kind = "cong" -> h.len - HdrSize
      [] h.kind \in DOMAIN StructSize -> StructSize[h.kind]
      [] OTHER -> 0

(* What a read of an attribute brings: its own content, if it lies within  *)
(* the attribute.                                                          *)
ContentRead ==
    IF at # 0 /\ ReadSize(nlattr) <= nlattr.len - HdrSize
    THEN {[from |-> msgNo + 1, value |-> msg.attrs[at].value]}
    ELSE [from : {-1}, value : {0, 1}]

(* The name of an algorithm is read into a buffer of the length that the   *)
(* header claims, and its first three letters are taken.  No slice is of a *)
(* negative length, and none of a shorter one has three letters.           *)
BadName(h) == h.kind = "cong" /\ h.len < HdrSize + 3

NamePanics ==
    /\ parsePc = "decode" /\ parsePc' = "panic"
    /\ BadName(nlattr)
    /\ UNCHANGED <<msg, msgNo, offset, nlattr, at, attrRead, complete,
                   bytesRead, padRead, kept, record>>

(* binaryReadWithErrorHandling compares the sizes, and reads anyway.       *)
Decode ==
    /\ parsePc = "decode" /\ parsePc' = "pad"
    /\ ~BadName(nlattr)
    /\ ReadSize(nlattr) <= Left
    /\ attrRead' = ReadSize(nlattr)
    /\ offset' = offset + ReadSize(nlattr)
    /\ IF nlattr.kind \in Kept
       THEN \E c \in ContentRead : kept' = [kept EXCEPT ![nlattr.kind] = c]
       ELSE kept' = kept
    /\ complete' = (nlattr.kind = "none")
    /\ UNCHANGED <<msg, msgNo, nlattr, at, bytesRead, padRead, record>>

(* The read fails at the end of the message: the structure keeps what it   *)
(* had, but the name of the congestion algorithm is taken from a buffer    *)
(* of zeros.                                                               *)
DecodeShort ==
    /\ parsePc = "decode" /\ parsePc' = "pad"
    /\ ~BadName(nlattr)
    /\ ReadSize(nlattr) > Left
    /\ attrRead' = ReadSize(nlattr)
    /\ offset' = Size(msg)
    /\ kept' = IF nlattr.kind = "cong"
               THEN [kept EXCEPT !["cong"] = [from |-> -1, value |-> 0]]
               ELSE kept
    /\ complete' = TRUE
    /\ UNCHANGED <<msg, msgNo, nlattr, at, bytesRead, padRead, record>>

(* Mutants of padSize: structures that grew in the kernel are not padded;  *)
(* one that is smaller in the kernel pads backwards.                       *)
NoPadSize == 0

SignedPadSize == nlattr.len - attrRead - HdrSize

padSize ==
    IF attrRead + HdrSize < nlattr.len THEN nlattr.len - attrRead - HdrSize ELSE 0

padAlignSize == IF nlattr.len % 4 > 0 THEN 4 - (nlattr.len % 4) ELSE 0

padBuffer == padSize + padAlignSize

Continue == parsePc' = IF complete' THEN "record" ELSE "header"

(* Mutant of Counted: the padding is counted besides the length that the   *)
(* kernel gives, which has it in already.                                  *)
CountLength == IF padBuffer > 0 THEN nlattr.len - HdrSize + padBuffer ELSE 0

(* What bytesRead is increased by: the attribute's content is counted only *)
(* where there is padding.                                                 *)
Counted == IF padBuffer > 0 THEN attrRead + padBuffer ELSE 0

Pad ==
    /\ parsePc = "pad"
    /\ padBuffer <= Left
    /\ offset' = offset + padBuffer
    /\ padRead' = padRead + padBuffer
    /\ bytesRead' = bytesRead + Counted
    /\ complete' = complete
    /\ Continue
    /\ UNCHANGED <<msg, msgNo, nlattr, at, attrRead, kept, record>>

PadShort ==
    /\ parsePc = "pad"
    /\ padBuffer > Left
    /\ offset' = Size(msg)
    /\ complete' = TRUE
    /\ Continue
    /\ UNCHANGED <<msg, msgNo, nlattr, at, attrRead, bytesRead, padRead,
                   kept, record>>

-----------------------------------------------------------------------------
(* Mutant of Carried: bbrinfo is sent whenever there is one.               *)
AlwaysBbr == {"info", "cong", "bbrinfo"}
                \cup {k \in {"tos"} : kept["tos"].value # 0}

(* buildProto: bbrinfo only for BBR, tos only if it is not 0.              *)
Carried ==
    {"info", "cong"}
       \cup {k \in {"bbrinfo"} : kept["cong"].value = 1}
       \cup {k \in {"tos"} : kept["tos"].value # 0}

Report == \/ InetdiagerReportModulus = 1
          \/ msgNo % InetdiagerReportModulus = 1

FinishMsg ==
    /\ parsePc = "record" /\ parsePc' = "range"
    /\ record' = IF Report
                 THEN [of |-> msgNo + 1, fields |-> [k \in Carried |-> kept[k]]]
                 ELSE record
    /\ msgNo' = msgNo + 1
    /\ UNCHANGED <<msg, offset, nlattr, at, attrRead, complete, bytesRead,
                   padRead, kept>>

ParseNext ==
    \/ NextMsg
    \/ EndOfAttributes
    \/ ReadHeader
    \/ ReadHeaderShort
    \/ NamePanics
    \/ Decode
    \/ DecodeShort
    \/ Pad
    \/ PadShort
    \/ FinishMsg

ParseSpec == ParseInit /\ [][ParseNext]_parseVars

(* The inetdiager is a goroutine: it goes on while it can.                 *)
FairParseSpec == ParseSpec /\ WF_parseVars(ParseNext)

-----------------------------------------------------------------------------
(* The kernel's structures are no smaller than this program's, so that no  *)
(* read goes beyond its attribute.                                         *)
Fits(m) == \A i \in 1 .. Len(m.attrs) :
              ReadSize(HeaderOf(m, i)) <= m.attrs[i].len - HdrSize

(* In a message of such a kernel the reader always comes back to where the *)
(* kernel wrote a header, or to the end of the message: the pad bytes the  *)
(* code computes from the bytes it happened to read are those that the     *)
(* kernel added.  What messages came before makes no difference.           *)
HeadersInPlace ==
    parsePc = "header" /\ Fits(msg) =>
       \E i \in DOMAIN msg.start : offset = msg.start[i]

(* The value an attribute of kind k has in the message.                    *)
ValuesOf(m, k) == {m.attrs[i].value : i \in {j \in DOMAIN m.attrs : m.attrs[j].kind = k}}

(* What else holds of the messages that kernels write: each attribute is   *)
(* there once, and bbrinfo only for a socket whose algorithm is BBR.       *)
AsWritten(m) ==
    /\ \A i, j \in DOMAIN m.attrs :
          m.attrs[i].kind = m.attrs[j].kind /\ m.attrs[i].kind \in Kept => i = j
    /\ ValuesOf(m, "bbrinfo") # {} => ValuesOf(m, "cong") = {1}

(* What the record of a message says of an attribute the message has is    *)
(* what that attribute says, if the kernel's structures are large enough,  *)
(* whatever messages the inetdiager had before; bbrinfo is there only for  *)
(* a socket whose algorithm is BBR, and tos only if it is not 0.           *)
RecordOfMessage ==
    LET f == record.fields
    IN  parsePc = "range" /\ msgNo > 0 /\ record.of = msgNo /\ Fits(msg) =>
          /\ \A k \in DOMAIN f :
                ValuesOf(msg, k) # {} =>
                   f[k].from = msgNo /\ f[k].value \in ValuesOf(msg, k)
          /\ ValuesOf(msg, "cong") = {0} => "bbrinfo" \notin DOMAIN f
          /\ ValuesOf(msg, "bbrinfo") # {} => "bbrinfo" \in DOMAIN f
          /\ ValuesOf(msg, "tos") # {} => ("tos" \in DOMAIN f <=> 1 \in ValuesOf(msg, "tos"))

(* Names of algorithms have two letters or more, and a zero at their end.  *)
NamesFit(m) == \A i \in 1 .. Len(m.attrs) : ~BadName(HeaderOf(m, i))

(* A message of such a kernel does not end the program: only bytes that    *)
(* are no header may claim a name too short to take three letters of.      *)
PlainMessagesDoNotPanic == parsePc = "panic" => ~(Fits(msg) /\ NamesFit(msg))

(* Whatever sizes the kernel's structures have, the walk over a message    *)
(* comes to its end and the inetdiager to the next message, or the program *)
(* has panicked over bytes that are no name.                               *)
ParseEnds == parsePc = "header" ~> parsePc \in {"range", "panic"}

(* The walk over the rest of a message takes at most this many steps, and  *)
(* each brings the inetdiager nearer to the next message, whatever the     *)
(* sizes of structures and whatever the bytes look like, or is a panic: a  *)
(* header is four bytes or the end, and nothing moves the reader           *)
(* backwards.  This is what ParseEnds rests on, besides the goroutine's    *)
(* going on.                                                               *)
StepsLeft ==
    3 * Left + CASE parsePc = "decode" -> 4
                 [] parsePc = "pad"    -> 3
                 [] parsePc = "header" -> 2
                 [] parsePc = "record" -> 1
                 [] parsePc \in {"range", "panic"} -> 0

WalkAdvances ==
    [][~NextMsg => StepsLeft' \in Nat /\ StepsLeft' < StepsLeft]_parseVars

(* inetdiager.go: "the Netlink TCP diag attributes for this socket": what  *)
(* the record of a message says is from this message, or zero.             *)
RecordOfThisSocket ==
    parsePc = "range" /\ msgNo > 0 /\ record.of = msgNo =>
        \A k \in DOMAIN record.fields : record.fields[k].from \in {0, msgNo}

(* How many bytes are read of each attribute.                              *)
Reads(m) == [i \in DOMAIN m.attrs |-> ReadSize(HeaderOf(m, i))]

(* Of a message of such a kernel, padBufferSize is what it has besides its *)
(* headers and the contents read, and no byte is counted twice: the bytes  *)
(* counted are no more than the message has.  They may be fewer.           *)
BytesAccounted ==
    parsePc = "record" /\ Fits(msg) =>
       /\ Size(msg) = MsgSize + HdrSize * Len(msg.attrs)
                      + SumFunctionOnSet(Reads(msg), DOMAIN msg.attrs) + padRead
       /\ bytesRead <= Size(msg)
=============================================================================
