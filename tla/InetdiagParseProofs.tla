------------------------ MODULE InetdiagParseProofs ------------------------
(***************************************************************************)
(* The walk over the attributes of a message stays in step with what the   *)
(* kernel wrote, for all sizes of structures and every message in which    *)
(* the kernel's structures are no smaller than this program's, and the     *)
(* record of such a message says what the message does, whatever messages  *)
(* came before; each step of it comes nearer to its end; and the           *)
(* structures it reads into are laid out as the kernel's are.              *)
(***************************************************************************)
EXTENDS InetdiagParse, InetdiagStructs, Induction

(* What is known of the message in work, the empty one included.           *)
LEMMA MessageFacts ==
    ASSUME msg \in Messages \cup {NoMsg}
    PROVE  IsMessage(msg)
<1>1. CASE msg \in Messages
  BY <1>1, ParseAssumption
<1>2. CASE msg = NoMsg
  <2>1. msg.attrs = <<>> /\ Len(msg.attrs) = 0 /\ msg.start = <<MsgSize>>
    BY <1>2 DEF NoMsg
  <2>2. msg.start \in [1 .. 1 -> Nat] /\ msg.start[1] = MsgSize
    BY <2>1, ParseAssumption
  <2> QED
    BY <2>1, <2>2 DEF IsMessage
<1> QED
  BY <1>1, <1>2

LEMMA AlignedUp ==
    ASSUME NEW len \in Nat
    PROVE  Aligned(len) \in Nat /\ len <= Aligned(len) /\ Aligned(len) <= len + 3
BY DEF Aligned

(* The attributes lie one after the other, each with its header.           *)
LEMMA StartsGrow ==
    ASSUME NEW m, IsMessage(m),
           NEW i \in DOMAIN m.start, NEW j \in DOMAIN m.start, i < j
    PROVE  m.start[i] + HdrSize <= m.start[j]
<1> DEFINE n == Len(m.attrs) + 1
           S == {k \in Nat : \A a \in 1 .. n :
                    a + k \in 1 .. n => m.start[a] + HdrSize * k <= m.start[a + k]}
<1>1. /\ Len(m.attrs) \in Nat /\ m.start \in [1 .. n -> Nat] /\ DOMAIN m.start = 1 .. n
      /\ m.attrs \in Seq(Attribute)
  BY DEF IsMessage
<1>2. \A a \in 1 .. n : m.start[a] \in Nat
  BY <1>1
<1>3. 0 \in S
  BY <1>1, <1>2 DEF HdrSize
<1>4. ASSUME NEW k \in Nat, k \in S
      PROVE  k + 1 \in S
  <2> SUFFICES ASSUME NEW a \in 1 .. n, a + (k + 1) \in 1 .. n
               PROVE  m.start[a] + HdrSize * (k + 1) <= m.start[a + (k + 1)]
    OBVIOUS
  <2> DEFINE b == a + k
  <2>1. b \in 1 .. n /\ b \in 1 .. Len(m.attrs) /\ a + (k + 1) = b + 1 /\ b + 1 \in 1 .. n
    BY <1>1
  <2>2. m.start[a] + HdrSize * k <= m.start[b]
    BY <1>4, <2>1
  <2>3. m.attrs[b].len >= HdrSize /\ m.attrs[b].len \in Nat
    <3>1. m.attrs[b] \in Attribute
      BY <1>1, <2>1
    <3> QED
      BY <2>1, <3>1 DEF IsMessage, Attribute
  <2>4. m.start[b + 1] = m.start[b] + Aligned(m.attrs[b].len)
    BY <2>1 DEF IsMessage
  <2>5. Aligned(m.attrs[b].len) \in Nat /\ Aligned(m.attrs[b].len) >= HdrSize
    <3> DEFINE len == m.attrs[b].len
    <3>1. len \in Nat /\ len >= HdrSize
      BY <2>3
    <3> HIDE DEF len
    <3>2. Aligned(len) \in Nat /\ len <= Aligned(len)
      BY <3>1, AlignedUp
    <3>3. Aligned(len) >= HdrSize
      BY <3>1, <3>2 DEF HdrSize
    <3> QED
      BY <3>2, <3>3 DEF len
  <2>6. m.start[a] \in Nat /\ m.start[b] \in Nat
    BY <1>2, <2>1
  <2> DEFINE size == Aligned(m.attrs[b].len)
             from == m.start[a]
             to   == m.start[b]
  <2>7. from + 4 * k <= to /\ m.start[b + 1] = to + size
    BY <2>2, <2>4 DEF HdrSize
  <2>8. from \in Nat /\ to \in Nat /\ size \in Nat /\ size >= 4
    BY <2>5, <2>6 DEF HdrSize
  <2> HIDE DEF size, from, to, b
  <2>9. from + 4 * (k + 1) <= to + size
    BY <2>7, <2>8
  <2> QED
    BY <2>1, <2>7, <2>9 DEF from, HdrSize
<1> HIDE DEF S
<1>5. j - i \in Nat \ {0} /\ i + (j - i) = j
  BY <1>1
<1>6. \A k \in Nat : k \in S
  BY <1>3, <1>4, InductionOnNat
<1>7. m.start[i] + HdrSize * (j - i) <= m.start[j]
  BY <1>1, <1>5, <1>6 DEF S
<1>8. m.start[i] \in Nat /\ m.start[j] \in Nat
  BY <1>1
<1> QED
  BY <1>5, <1>7, <1>8 DEF HdrSize

(* The pad bytes the code computes after a read within an attribute lead   *)
(* to the next multiple of four.                                           *)
LEMMA PadLeadsOn ==
    ASSUME NEW len \in Nat, NEW read \in Nat, read <= len - HdrSize
    PROVE  LET size  == IF read + HdrSize < len THEN len - read - HdrSize ELSE 0
               align == IF len % 4 > 0 THEN 4 - (len % 4) ELSE 0
           IN  HdrSize + read + size + align = Aligned(len)
BY DEF HdrSize, Aligned

(* Where the reader is at each step of the walk over such a message.       *)
WalkInStep ==
    /\ offset \in Nat
    /\ parsePc \in {"header", "decode", "pad"} => complete = FALSE
    /\ parsePc = "header" =>
          at \in 0 .. Len(msg.attrs) /\ offset = msg.start[at + 1]
    /\ parsePc = "record" => at = Len(msg.attrs) /\ offset = Size(msg)
    /\ parsePc \in {"decode", "pad", "panic"} =>
          /\ at \in 1 .. Len(msg.attrs)
          /\ nlattr = HeaderOf(msg, at)
    /\ parsePc = "decode" => offset = msg.start[at] + HdrSize
    /\ parsePc = "panic" => BadName(nlattr)
    /\ parsePc = "pad" =>
          /\ attrRead = ReadSize(nlattr)
          /\ offset = msg.start[at] + HdrSize + attrRead

(* The walk over a message that is none such is nobody's concern.          *)
InStep ==
    /\ msg \in Messages \cup {NoMsg}
    /\ Fits(msg) => WalkInStep

LEMMA ReadSizeNat ==
    ASSUME NEW h \in Header, h.kind = "cong" => h.len >= HdrSize
    PROVE  ReadSize(h) \in Nat
BY ParseAssumption DEF ReadSize, Header, HdrSize

(* An attribute, its header, what is read of it and what follows it.       *)
LEMMA AttributeFacts ==
    ASSUME msg \in Messages \cup {NoMsg}, Fits(msg),
           NEW i \in 1 .. Len(msg.attrs)
    PROVE  /\ msg.start[i] \in Nat /\ msg.start[i + 1] \in Nat
           /\ i + 1 \in DOMAIN msg.start
           /\ HeaderOf(msg, i) \in Header
           /\ HeaderOf(msg, i).kind # "none"
           /\ HeaderOf(msg, i).len \in Nat
           /\ ReadSize(HeaderOf(msg, i)) \in Nat
           /\ ReadSize(HeaderOf(msg, i)) <= HeaderOf(msg, i).len - HdrSize
           /\ msg.start[i + 1] = msg.start[i] + Aligned(HeaderOf(msg, i).len)
           /\ msg.start[i] + HeaderOf(msg, i).len <= msg.start[i + 1]
           /\ msg.start[i + 1] <= Size(msg)
           /\ Size(msg) \in Nat
<1>1. IsMessage(msg) /\ Fits(msg)
  BY MessageFacts
<1>2. Len(msg.attrs) \in Nat
  BY <1>1 DEF IsMessage
<1>3. msg.start[i] \in Nat /\ msg.start[i + 1] \in Nat /\ i + 1 \in DOMAIN msg.start
  <2>1. i \in 1 .. Len(msg.attrs) + 1 /\ i + 1 \in 1 .. Len(msg.attrs) + 1
    BY <1>2
  <2>2. msg.start \in [1 .. Len(msg.attrs) + 1 -> Nat]
    BY <1>1 DEF IsMessage
  <2> QED
    BY <2>1, <2>2
<1>4. msg.attrs[i] \in Attribute
  <2>1. msg.attrs \in Seq(Attribute)
    BY <1>1 DEF IsMessage
  <2> QED
    BY <2>1
<1>5. HeaderOf(msg, i) \in Header /\ HeaderOf(msg, i).kind # "none"
  BY <1>4 DEF HeaderOf, Header, Attribute
<1>6. HeaderOf(msg, i).len \in Nat /\ HeaderOf(msg, i).len = msg.attrs[i].len
  BY <1>4 DEF HeaderOf, Attribute
<1>7. ReadSize(HeaderOf(msg, i)) \in Nat
  <2>1. HeaderOf(msg, i).len >= HdrSize
    BY <1>1, <1>6 DEF IsMessage
  <2> QED
    BY <1>5, <2>1, ReadSizeNat
<1>8. ReadSize(HeaderOf(msg, i)) <= HeaderOf(msg, i).len - HdrSize
  BY <1>1, <1>6 DEF Fits
<1>9. msg.start[i + 1] = msg.start[i] + Aligned(HeaderOf(msg, i).len)
  BY <1>1, <1>6 DEF IsMessage
<1>10. HeaderOf(msg, i).len <= Aligned(HeaderOf(msg, i).len)
  BY <1>6 DEF Aligned
<1>11. msg.start[i + 1] <= Size(msg) /\ Size(msg) \in Nat
  <2>1. msg.start[i + 1] <= Size(msg)
    <3>1. DOMAIN msg.start = 1 .. Len(msg.attrs) + 1
      BY <1>1 DEF IsMessage
    <3>2. i + 1 = Len(msg.attrs) + 1 \/ i + 1 < Len(msg.attrs) + 1
      BY <1>2
    <3>3. Len(msg.attrs) + 1 \in DOMAIN msg.start
      BY <1>2, <3>1
    <3>4. msg.start[Len(msg.attrs) + 1] \in Nat
      BY <1>1, <3>1, <3>3 DEF IsMessage
    <3>5. i + 1 < Len(msg.attrs) + 1 =>
             msg.start[i + 1] + HdrSize <= msg.start[Len(msg.attrs) + 1]
      BY <1>1, <1>3, <3>3, StartsGrow
    <3> QED
      BY <1>3, <3>2, <3>4, <3>5 DEF Size, HdrSize
  <2>2. Len(msg.attrs) + 1 \in 1 .. Len(msg.attrs) + 1
    BY <1>2
  <2>3. msg.start \in [1 .. Len(msg.attrs) + 1 -> Nat]
    BY <1>1 DEF IsMessage
  <2> QED
    BY <2>1, <2>2, <2>3 DEF Size
<1>12. msg.start[i] + HeaderOf(msg, i).len <= msg.start[i + 1]
  <2>1. Aligned(HeaderOf(msg, i).len) \in Nat
    BY <1>6, AlignedUp
  <2> QED
    BY <1>3, <1>6, <1>9, <1>10, <2>1
<1> QED
  BY <1>3, <1>5, <1>6, <1>7, <1>8, <1>9, <1>11, <1>12

(* The first step of a message.                                            *)
LEMMA NextMsgInStep ==
    ASSUME NextMsg
    PROVE  InStep'
<1>1. msg' \in Messages /\ IsMessage(msg')
  BY ParseAssumption DEF NextMsg
<1>2. 1 \in DOMAIN msg'.start /\ msg'.start[1] = MsgSize
  BY <1>1 DEF IsMessage
<1> QED
  BY <1>1, <1>2, ParseAssumption DEF NextMsg, InStep, WalkInStep

(* The reader is at one header, and at the end of the message only after   *)
(* the last attribute.                                                     *)
LEMMA HeaderPlace ==
    ASSUME msg \in Messages \cup {NoMsg}, at \in 0 .. Len(msg.attrs),
           offset = msg.start[at + 1]
    PROVE  /\ at + 1 \in DOMAIN msg.start
           /\ at = Len(msg.attrs) => Left = 0
           /\ at # Len(msg.attrs) =>
                 at + 1 \in 1 .. Len(msg.attrs) /\ Left >= HdrSize /\ Left # 0
           /\ \A j \in DOMAIN msg.start : msg.start[j] = offset => j = at + 1
<1> DEFINE n == Len(msg.attrs)
<1>1. IsMessage(msg)
  BY MessageFacts
<1>2. n \in Nat /\ DOMAIN msg.start = 1 .. n + 1 /\ msg.start \in [1 .. n + 1 -> Nat]
  BY <1>1 DEF IsMessage
<1>3. at + 1 \in DOMAIN msg.start /\ n + 1 \in DOMAIN msg.start
  BY <1>2
<1>4. \A j \in DOMAIN msg.start : msg.start[j] \in Nat
  BY <1>2
<1>5. at = n => Left = 0
  BY <1>3, <1>4 DEF Left, Size
<1>6. at # n => at + 1 \in 1 .. n /\ Left >= HdrSize /\ Left # 0
  <2>1. at # n => at + 1 < n + 1
    BY <1>2
  <2>2. at # n => msg.start[at + 1] + HdrSize <= msg.start[n + 1]
    BY <1>1, <1>3, <2>1, StartsGrow
  <2>3. msg.start[at + 1] \in Nat /\ msg.start[n + 1] \in Nat
    BY <1>3, <1>4
  <2> QED
    BY <1>2, <2>1, <2>2, <2>3 DEF Left, Size, HdrSize
<1>7. ASSUME NEW j \in DOMAIN msg.start, msg.start[j] = offset, j # at + 1
      PROVE  FALSE
  <2>1. j < at + 1 \/ at + 1 < j
    BY <1>2, <1>7
  <2>2. msg.start[j] \in Nat
    BY <1>4
  <2>3. \/ msg.start[j] + HdrSize <= msg.start[at + 1]
        \/ msg.start[at + 1] + HdrSize <= msg.start[j]
    BY <1>1, <1>3, <2>1, StartsGrow
  <2> QED
    BY <1>7, <2>2, <2>3 DEF HdrSize
<1> QED
  BY <1>3, <1>5, <1>6, <1>7

(* The pad bytes lead from where the reader is to the next attribute.      *)
LEMMA PadStays ==
    ASSUME msg \in Messages \cup {NoMsg}, Fits(msg), WalkInStep, parsePc = "pad"
    PROVE  /\ padBuffer \in Nat
           /\ offset + padBuffer = msg.start[at + 1]
           /\ at + 1 \in DOMAIN msg.start
           /\ offset + padBuffer \in Nat
           /\ padBuffer <= Left /\ Left \in Int
           /\ HdrSize + attrRead + padBuffer = Aligned(nlattr.len)
<1>0. /\ at \in 1 .. Len(msg.attrs) /\ nlattr = HeaderOf(msg, at)
      /\ attrRead = ReadSize(nlattr)
      /\ offset = msg.start[at] + HdrSize + attrRead /\ offset \in Nat
  BY DEF WalkInStep
<1>1. nlattr.len \in Nat /\ attrRead \in Nat /\ attrRead <= nlattr.len - HdrSize
  BY <1>0, AttributeFacts
<1>2. HdrSize + attrRead + padBuffer = Aligned(nlattr.len)
  <2>1. PICK len \in Nat, read \in Nat : len = nlattr.len /\ read = attrRead
    BY <1>1
  <2> DEFINE size  == IF read + HdrSize < len THEN len - read - HdrSize ELSE 0
             align == IF len % 4 > 0 THEN 4 - (len % 4) ELSE 0
  <2>2. read <= len - HdrSize
    BY <1>1, <2>1
  <2>3. HdrSize + read + size + align = Aligned(len)
    BY <2>2, PadLeadsOn
  <2>4. padBuffer = size + align /\ size \in Nat /\ align \in Nat
    BY <2>1, <2>2 DEF padBuffer, padSize, padAlignSize, HdrSize
  <2> HIDE DEF size, align
  <2>5. HdrSize + read + padBuffer = Aligned(len)
    BY <2>3, <2>4 DEF HdrSize
  <2> QED
    BY <2>1, <2>5
<1>3. padBuffer \in Nat
  BY <1>1 DEF padBuffer, padSize, padAlignSize, HdrSize
<1>4. msg.start[at + 1] = msg.start[at] + Aligned(nlattr.len)
  BY <1>0, AttributeFacts
<1>5. offset + padBuffer = msg.start[at + 1]
  <2>1. offset = msg.start[at] + HdrSize + attrRead /\ msg.start[at] \in Nat
    BY <1>0, AttributeFacts
  <2>2. \A a, h, r, p \in Nat : (a + h + r) + p = a + (h + r + p)
    OBVIOUS
  <2>3. HdrSize \in Nat /\ attrRead \in Nat /\ padBuffer \in Nat
    BY <1>1, <1>3 DEF HdrSize
  <2>4. offset + padBuffer = msg.start[at] + (HdrSize + attrRead + padBuffer)
    BY <2>1, <2>2, <2>3
  <2> QED
    BY <2>4, <1>2, <1>4
<1>6. /\ at + 1 \in DOMAIN msg.start /\ msg.start[at + 1] \in Nat
      /\ msg.start[at + 1] <= Size(msg) /\ Size(msg) \in Nat
  BY <1>0, AttributeFacts
<1>7. offset + padBuffer \in Nat /\ padBuffer <= Left /\ Left \in Int
  <2> DEFINE pad == padBuffer
  <2>1. pad \in Nat /\ offset \in Nat /\ offset + pad = msg.start[at + 1]
    BY <1>0, <1>3, <1>5
  <2> HIDE DEF pad
  <2> QED
    BY <1>6, <2>1 DEF Left, pad
<1> QED
  BY <1>2, <1>3, <1>5, <1>6, <1>7

(* A step of the walk over a message that fits.                            *)
LEMMA WalkStaysInStep ==
    ASSUME msg \in Messages \cup {NoMsg}, Fits(msg), WalkInStep,
           [ParseNext]_parseVars, ~NextMsg
    PROVE  WalkInStep'
<1> USE DEF WalkInStep
<1>1. CASE NextMsg
  BY <1>1
<1>2. CASE EndOfAttributes
  <2>1. at = Len(msg.attrs) /\ offset = msg.start[at + 1]
    BY <1>2, HeaderPlace DEF EndOfAttributes
  <2>2. parsePc' = "record" /\ UNCHANGED <<msg, offset, at>>
    BY <1>2 DEF EndOfAttributes
  <2> QED
    BY <2>1, <2>2 DEF Size
<1>3. CASE ReadHeader
  <2>1. parsePc' = "decode" /\ UNCHANGED <<msg, complete>> /\ parsePc = "header"
    BY <1>3 DEF ReadHeader
  <2>2. at + 1 \in 1 .. Len(msg.attrs)
    BY <1>3, <2>1, HeaderPlace DEF ReadHeader, HdrSize
  <2>3. PICK j \in 1 .. Len(msg.attrs) :
           offset = msg.start[j] /\ at' = j /\ nlattr' = HeaderOf(msg, j)
    BY <1>3, <2>1, <2>2 DEF ReadHeader
  <2>4. offset' = msg.start[j] + HdrSize /\ offset' \in Nat
    BY <1>3, <2>3 DEF ReadHeader, HdrSize
  <2>5. nlattr' = HeaderOf(msg', at') /\ at' \in 1 .. Len(msg'.attrs)
    BY <2>1, <2>3 DEF HeaderOf
  <2> QED
    BY <2>1, <2>3, <2>4, <2>5
<1>4. CASE ReadHeaderShort
  <2>1. at # Len(msg.attrs) /\ Left >= HdrSize
    BY <1>4, HeaderPlace DEF ReadHeaderShort
  <2> QED
    BY <1>4, <2>1 DEF ReadHeaderShort, HdrSize
<1>7. CASE NamePanics
  <2>1. /\ parsePc = "decode" /\ parsePc' = "panic" /\ BadName(nlattr)
        /\ UNCHANGED <<msg, nlattr, at, offset>>
    BY <1>7 DEF NamePanics
  <2> QED
    BY <2>1 DEF BadName, HeaderOf
<1>5. CASE Decode
  <2>1. nlattr.kind # "none" /\ ReadSize(nlattr) \in Nat
    BY <1>5, AttributeFacts DEF Decode
  <2>2. offset' = msg.start[at] + HdrSize + ReadSize(nlattr) /\ offset' \in Nat
    BY <1>5, <2>1, AttributeFacts DEF Decode, HdrSize
  <2>3. parsePc' = "pad" /\ parsePc = "decode" /\ complete' = FALSE
    BY <1>5, <2>1 DEF Decode
  <2>4. UNCHANGED <<msg, nlattr, at>> /\ attrRead' = ReadSize(nlattr)
    BY <1>5 DEF Decode
  <2>5. attrRead' = ReadSize(nlattr') /\ nlattr' = HeaderOf(msg', at')
    BY <2>3, <2>4 DEF ReadSize, HeaderOf
  <2> QED
    BY <2>2, <2>3, <2>4, <2>5
<1>6. CASE DecodeShort
  <2>0. at \in 1 .. Len(msg.attrs) /\ nlattr = HeaderOf(msg, at)
    BY <1>6 DEF DecodeShort
  <2>1. msg.start[at] + HdrSize + ReadSize(nlattr) <= Size(msg)
    <3>1. /\ msg.start[at] \in Nat /\ msg.start[at + 1] \in Nat /\ Size(msg) \in Nat
          /\ ReadSize(nlattr) \in Nat /\ nlattr.len \in Nat
          /\ ReadSize(nlattr) <= nlattr.len - HdrSize
          /\ msg.start[at] + nlattr.len <= msg.start[at + 1]
          /\ msg.start[at + 1] <= Size(msg)
      BY <2>0, AttributeFacts
    <3> QED
      BY <3>1 DEF HdrSize
  <2> QED
    BY <1>6, <2>1, AttributeFacts DEF DecodeShort, Left, HdrSize
<1>8. CASE Pad
  <2>1. offset' = msg.start[at + 1] /\ at + 1 \in DOMAIN msg.start /\ offset' \in Nat
    BY <1>8, PadStays DEF Pad
  <2>2. parsePc' = "header" /\ complete' = FALSE /\ msg' = msg /\ at' = at
    BY <1>8 DEF Pad, Continue
  <2>3. at \in 0 .. Len(msg.attrs)
    <3>1. at \in 1 .. Len(msg.attrs)
      BY <1>8 DEF Pad
    <3> QED
      BY <3>1
  <2> QED
    BY <2>1, <2>2, <2>3
<1>9. CASE PadShort
  <2>1. padBuffer \in Nat /\ padBuffer <= Left /\ Left \in Int
    BY <1>9, PadStays DEF PadShort
  <2> QED
    BY <1>9, <2>1 DEF PadShort
<1>10. CASE FinishMsg
  BY <1>10 DEF FinishMsg
<1>11. CASE UNCHANGED parseVars
  BY <1>11 DEF parseVars, HeaderOf, ReadSize, Size, BadName
<1> QED
  BY <1>1, <1>2, <1>3, <1>4, <1>5, <1>6, <1>7, <1>8, <1>9, <1>10, <1>11 DEF ParseNext

(* InStep is inductive.                                                    *)
LEMMA InitInStep == ParseInit => InStep
BY DEF ParseInit, InStep, WalkInStep

LEMMA InStepInductive ==
    ASSUME InStep, [ParseNext]_parseVars
    PROVE  InStep'
<1>1. CASE NextMsg
  BY <1>1, NextMsgInStep
<1>2. CASE ~NextMsg
  <2>1. msg' = msg
    BY <1>2 DEF ParseNext, EndOfAttributes, ReadHeader, ReadHeaderShort, NamePanics,
                Decode, DecodeShort, Pad, PadShort, FinishMsg, parseVars
  <2>2. Fits(msg)' = Fits(msg)
    BY <2>1 DEF Fits, HeaderOf, ReadSize
  <2> QED
    BY <1>2, <2>1, <2>2, WalkStaysInStep DEF InStep
<1> QED
  BY <1>1, <1>2

(* The reader always comes back to a header or to the end of the message,  *)
(* in every message whose structures are no smaller than this program's.   *)
THEOREM ReaderInStep == ParseSpec => []HeadersInPlace
<1>1. ParseInit => InStep
  BY InitInStep
<1>2. InStep /\ [ParseNext]_parseVars => InStep'
  BY InStepInductive
<1>3. InStep => HeadersInPlace
  <2> SUFFICES ASSUME InStep, parsePc = "header", Fits(msg)
               PROVE  \E i \in DOMAIN msg.start : offset = msg.start[i]
    BY DEF HeadersInPlace
  <2>1. at \in 0 .. Len(msg.attrs) /\ offset = msg.start[at + 1]
    BY DEF InStep, WalkInStep
  <2>2. at + 1 \in DOMAIN msg.start
    BY <2>1, HeaderPlace DEF InStep
  <2> QED
    BY <2>1, <2>2
<1> QED
  BY <1>1, <1>2, <1>3, PTL DEF ParseSpec

(* A message whose attributes are no smaller than this program reads them, *)
(* and whose algorithm has a name of two letters, is read without a panic: *)
(* the header the reader is at is one of that message's.                   *)
THEOREM PlainMessagesAreSafe == ParseSpec => []PlainMessagesDoNotPanic
<1>1. InStep => PlainMessagesDoNotPanic
  BY DEF InStep, WalkInStep, NamesFit, PlainMessagesDoNotPanic
<1> QED
  BY <1>1, InitInStep, InStepInductive, PTL DEF ParseSpec

-----------------------------------------------------------------------------
(* Types need one thing more: the message in work is one of those sent.    *)
TypeInv == ParseTypeOK /\ msg \in Messages \cup {NoMsg}

LEMMA SizeOfMessage ==
    ASSUME NEW m, IsMessage(m)
    PROVE  Size(m) \in Nat /\ MsgSize <= Size(m)
<1> DEFINE last == Len(m.attrs) + 1
<1>1. Len(m.attrs) \in Nat
  BY DEF IsMessage
<1>2. last \in 1 .. last /\ 1 \in 1 .. last
  BY <1>1
<1>3. /\ DOMAIN m.start = 1 .. last /\ m.start[1] = MsgSize
      /\ m.start[1] \in Nat /\ m.start[last] \in Nat
  BY <1>1, <1>2 DEF IsMessage
<1>4. MsgSize <= m.start[last]
  <2>1. CASE last = 1
    BY <1>3, <2>1
  <2>2. CASE last # 1
    <3>1. 1 < last
      BY <1>1, <2>2
    <3>2. m.start[1] + HdrSize <= m.start[last]
      BY <1>1, <1>2, <1>3, <3>1, StartsGrow
    <3> QED
      BY <1>3, <3>2 DEF HdrSize
  <2> QED
    BY <2>1, <2>2
<1> QED
  BY <1>3, <1>4 DEF Size

LEMMA TypeInit == ParseInit => TypeInv
<1>1. NoHeader \in Header
  BY DEF NoHeader, Header, Kind
<1>2. [k \in Kept |-> Zero] \in [Kept -> Content]
  BY DEF Zero, Content
<1> SUFFICES ASSUME ParseInit PROVE TypeInv
  OBVIOUS
<1>3. nlattr \in Header /\ kept \in [Kept -> Content]
  BY <1>1, <1>2, Zenon DEF ParseInit
<1>4. msg \in Messages \cup {NoMsg} /\ parsePc = "range"
  BY DEF ParseInit
<1>5. offset \in 0 .. Size(msg) /\ at \in 0 .. Len(msg.attrs)
  <2>1. offset = 0 /\ at = 0
    BY DEF ParseInit
  <2>2. Size(msg) \in Nat /\ Len(msg.attrs) \in Nat
    BY <1>4, MessageFacts, SizeOfMessage DEF IsMessage
  <2> QED
    BY <2>1, <2>2
<1>6. ParseTypeOK
  BY <1>3, <1>5 DEF ParseInit, ParseTypeOK
<1> QED
  BY <1>4, <1>6 DEF TypeInv

(* The sizes a step works with.                                            *)
LEMMA Sizes ==
    ASSUME TypeInv
    PROVE  /\ IsMessage(msg) /\ Len(msg.attrs) \in Nat /\ Size(msg) \in Nat
           /\ offset \in Nat /\ offset <= Size(msg)
           /\ Left \in Nat /\ Left = Size(msg) - offset
           /\ padBuffer \in Nat
           /\ ~BadName(nlattr) => ReadSize(nlattr) \in Nat
<1>1. IsMessage(msg) /\ Len(msg.attrs) \in Nat /\ Size(msg) \in Nat
  BY MessageFacts, SizeOfMessage DEF TypeInv, IsMessage
<1>2. offset \in Nat /\ offset <= Size(msg)
  BY <1>1 DEF TypeInv, ParseTypeOK
<1>3. nlattr \in Header /\ nlattr.len \in Nat /\ attrRead \in Nat
  BY DEF TypeInv, ParseTypeOK, Header
<1>4. padBuffer \in Nat
  BY <1>3 DEF padBuffer, padSize, padAlignSize, HdrSize
<1>5. ~BadName(nlattr) => ReadSize(nlattr) \in Nat
  BY <1>3, ReadSizeNat DEF BadName, HdrSize
<1> QED
  BY <1>1, <1>2, <1>4, <1>5 DEF Left

LEMMA TypeStep == TypeInv /\ [ParseNext]_parseVars => TypeInv'
<1> SUFFICES ASSUME TypeInv, [ParseNext]_parseVars PROVE TypeInv'
  OBVIOUS
<1> USE DEF TypeInv, ParseTypeOK
<1> DEFINE size == Size(msg)
<1>1. /\ IsMessage(msg) /\ Len(msg.attrs) \in Nat /\ size \in Nat
      /\ offset \in Nat /\ offset <= size
      /\ Left = size - offset /\ padBuffer \in Nat
  BY Sizes
<1>2. ~BadName(nlattr) => ReadSize(nlattr) \in Nat
  BY Sizes
<1>3. UNCHANGED msg => Size(msg)' = size
  BY DEF Size
<1> HIDE DEF size
<1>4. CASE NextMsg
  <2>1. NoHeader \in Header
    BY DEF NoHeader, Header, Kind
  <2>2. msg' \in Messages /\ offset' = MsgSize /\ at' = 0
    BY <1>4 DEF NextMsg
  <2>3. IsMessage(msg') /\ Size(msg') \in Nat /\ MsgSize <= Size(msg')
    BY <2>2, ParseAssumption, SizeOfMessage
  <2>4. offset' \in 0 .. Size(msg') /\ at' \in 0 .. Len(msg'.attrs)
    BY <2>2, <2>3, ParseAssumption DEF IsMessage
  <2>5. Size(msg)' = Size(msg')
    BY DEF Size
  <2> QED
    BY <1>4, <2>1, <2>2, <2>4, <2>5, ParseAssumption DEF NextMsg
<1>5. CASE EndOfAttributes
  BY <1>3, <1>5 DEF EndOfAttributes
<1>6. CASE ReadHeader
  <2>1. nlattr' \in Header /\ at' \in 0 .. Len(msg.attrs)
    <3>1. \/ \E i \in 1 .. Len(msg.attrs) : at' = i /\ nlattr' = HeaderOf(msg, i)
          \/ at' = 0 /\ nlattr' \in Strays
      BY <1>6 DEF ReadHeader
    <3>2. \A i \in 1 .. Len(msg.attrs) : HeaderOf(msg, i) \in Header
      <4> SUFFICES ASSUME NEW i \in 1 .. Len(msg.attrs) PROVE HeaderOf(msg, i) \in Header
        OBVIOUS
      <4>1. msg.attrs[i] \in Attribute
        <5>1. msg.attrs \in Seq(Attribute)
          BY <1>1 DEF IsMessage
        <5> QED
          BY <5>1
      <4> QED
        BY <4>1 DEF HeaderOf, Header, Attribute
    <3>3. Strays \subseteq Header
      BY ParseAssumption
    <3> QED
      BY <1>1, <3>1, <3>2, <3>3
  <2>2. offset' \in 0 .. size /\ bytesRead' \in Nat
    BY <1>1, <1>6 DEF ReadHeader, HdrSize
  <2> QED
    BY <1>3, <1>6, <2>1, <2>2 DEF ReadHeader
<1>7. CASE ReadHeaderShort
  <2>1. offset' = size /\ bytesRead' \in Nat /\ at' = 0 /\ UNCHANGED msg
    BY <1>7 DEF ReadHeaderShort, HdrSize, size
  <2>2. offset' \in 0 .. size /\ at' \in 0 .. Len(msg.attrs)
    BY <1>1, <2>1
  <2> QED
    BY <1>3, <1>7, <2>1, <2>2 DEF ReadHeaderShort
<1>14. CASE NamePanics
  BY <1>3, <1>14 DEF NamePanics
<1>8. CASE Decode
  <2>1. ASSUME nlattr.kind \in Kept, NEW c \in ContentRead PROVE c \in Content
    <3>1. CASE at # 0 /\ ReadSize(nlattr) <= nlattr.len - HdrSize
      <4>1. at \in 1 .. Len(msg.attrs) /\ msg.attrs \in Seq(Attribute)
        BY <1>1, <1>8, <3>1 DEF Decode, IsMessage
      <4>2. msg.attrs[at] \in Attribute
        BY <4>1
      <4> QED
        BY <2>1, <3>1, <4>2 DEF ContentRead, Content, Attribute
    <3>2. CASE ~(at # 0 /\ ReadSize(nlattr) <= nlattr.len - HdrSize)
      <4>1. c \in [from : {-1}, value : {0, 1}]
        BY <2>1, <3>2 DEF ContentRead
      <4> QED
        BY <4>1 DEF Content
    <3> QED
      BY <3>1, <3>2
  <2>2. kept' \in [Kept -> Content]
    BY <1>8, <2>1 DEF Decode
  <2>3. complete' \in BOOLEAN /\ UNCHANGED <<msg, at>>
    BY <1>8 DEF Decode
  <2>4. offset' \in 0 .. size /\ attrRead' \in Nat
    BY <1>1, <1>2, <1>8 DEF Decode
  <2> QED
    BY <1>3, <1>8, <2>2, <2>3, <2>4 DEF Decode
<1>9. CASE DecodeShort
  <2>1. kept' \in [Kept -> Content]
    BY <1>9 DEF DecodeShort, Content, Kept
  <2>2. offset' = size /\ attrRead' \in Nat
    BY <1>2, <1>9 DEF DecodeShort, size
  <2>3. offset' \in 0 .. size
    BY <1>1, <2>2
  <2> QED
    BY <1>3, <1>9, <2>1, <2>2, <2>3 DEF DecodeShort
<1>10. CASE Pad
  <2>1. offset' \in 0 .. size /\ padRead' \in Nat /\ bytesRead' \in Nat
    BY <1>1, <1>10 DEF Pad, Counted
  <2> QED
    BY <1>3, <1>10, <2>1 DEF Pad, Continue
<1>11. CASE PadShort
  <2>1. offset' = size
    BY <1>11 DEF PadShort, size
  <2>2. offset' \in 0 .. size
    BY <1>1, <2>1
  <2> QED
    BY <1>3, <1>11, <2>2 DEF PadShort, Continue
<1>12. CASE FinishMsg
  BY <1>3, <1>12 DEF FinishMsg, size
<1>13. CASE UNCHANGED parseVars
  BY <1>3, <1>13 DEF parseVars, size
<1> QED
  BY <1>4, <1>5, <1>6, <1>7, <1>8, <1>9, <1>10, <1>11, <1>12, <1>13, <1>14 DEF ParseNext

(* Every variable of the walk has its type, and the reader never leaves    *)
(* the message, for kernels with structures of any sizes, smaller than     *)
(* this program's included, and whatever bytes are taken for a header.     *)
THEOREM ParseTypes == ParseSpec => []ParseTypeOK
<1>1. TypeInv => ParseTypeOK
  BY DEF TypeInv
<1> QED
  BY <1>1, TypeInit, TypeStep, PTL DEF ParseSpec

-----------------------------------------------------------------------------
(* A step over a message lowers StepsLeft.                                 *)
LEMMA WalkLowers ==
    ASSUME TypeInv, ParseNext, ~NextMsg
    PROVE  StepsLeft' \in Nat /\ StepsLeft' < StepsLeft
<1> USE DEF StepsLeft, Left
<1> DEFINE size == Size(msg)
<1>1. /\ size \in Nat /\ offset \in Nat /\ offset <= size /\ padBuffer \in Nat
      /\ ~BadName(nlattr) => ReadSize(nlattr) \in Nat
  BY Sizes
<1>2. UNCHANGED msg => Size(msg)' = Size(msg)
  BY DEF Size
<1>3. CASE EndOfAttributes
  <2>1. /\ parsePc = "header" /\ parsePc' = "record" /\ UNCHANGED <<msg, offset>>
        /\ offset = size
    BY <1>1, <1>3 DEF EndOfAttributes
  <2> QED
    BY <1>1, <1>2, <2>1
<1>4. CASE ReadHeader
  <2>1. /\ parsePc = "header" /\ parsePc' = "decode" /\ UNCHANGED msg
        /\ size - offset >= 4 /\ offset' = offset + 4
    BY <1>4 DEF ReadHeader, HdrSize
  <2> QED
    BY <1>1, <1>2, <2>1
<1>5. CASE ReadHeaderShort
  <2>1. /\ parsePc = "header" /\ parsePc' = "decode" /\ UNCHANGED msg
        /\ size - offset >= 1 /\ offset' = size
    BY <1>1, <1>5 DEF ReadHeaderShort, HdrSize
  <2> QED
    BY <1>1, <1>2, <2>1
<1>11. CASE NamePanics
  BY <1>1, <1>2, <1>11 DEF NamePanics
<1>6. CASE Decode
  BY <1>1, <1>2, <1>6 DEF Decode
<1>7. CASE DecodeShort
  BY <1>1, <1>2, <1>7 DEF DecodeShort
<1>8. CASE Pad
  BY <1>1, <1>2, <1>8 DEF Pad, Continue
<1>9. CASE PadShort
  BY <1>1, <1>2, <1>9 DEF PadShort, Continue
<1>10. CASE FinishMsg
  BY <1>1, <1>2, <1>10 DEF FinishMsg
<1> QED
  BY <1>3, <1>4, <1>5, <1>6, <1>7, <1>8, <1>9, <1>10, <1>11 DEF ParseNext

(* The walk over a message ends, at the next message or in a panic, within *)
(* three steps for each of its bytes and two more, if it goes on: for any  *)
(* bytes, and any sizes of the kernel's structures and of this program's.  *)
THEOREM WalkTerminates == ParseSpec => WalkAdvances
<1>1. TypeInv /\ [ParseNext]_parseVars =>
        [~NextMsg => StepsLeft' \in Nat /\ StepsLeft' < StepsLeft]_parseVars
  BY WalkLowers
<1> QED
  BY <1>1, TypeInit, TypeStep, PTL DEF ParseSpec, WalkAdvances

-----------------------------------------------------------------------------
(* The structures hold, of the first i attributes of the message, what     *)
(* these say, marked as read from the p-th message.                        *)
Stored(i, p) ==
    \A j \in 1 .. i :
       msg.attrs[j].kind \in Kept =>
          kept[msg.attrs[j].kind] = [from |-> p, value |-> msg.attrs[j].value]

(* How far the walk over a message has brought them, and which record is   *)
(* made from them.                                                         *)
StoredSoFar ==
    /\ parsePc \in {"header", "pad"} => Stored(at, msgNo + 1)
    /\ parsePc = "decode" => Stored(at - 1, msgNo + 1)
    /\ parsePc = "record" => Stored(Len(msg.attrs), msgNo + 1)
    /\ parsePc = "range" => Stored(Len(msg.attrs), msgNo)

RecordInv ==
    /\ kept \in [Kept -> Content]
    /\ msgNo \in Nat
    /\ record.of \in 0 .. msgNo
    /\ parsePc = "range" /\ msgNo > 0 /\ record.of = msgNo =>
          record.fields = [k \in Carried |-> kept[k]]
    /\ Fits(msg) /\ AsWritten(msg) => StoredSoFar

(* Decoding an attribute adds what it says, and changes no other's.        *)
LEMMA DecodeStores ==
    ASSUME InStep, RecordInv, Fits(msg), AsWritten(msg), Decode
    PROVE  Stored(at, msgNo + 1)'
<1> DEFINE k == msg.attrs[at].kind
           c == [from |-> msgNo + 1, value |-> msg.attrs[at].value]
<1>1. /\ at \in 1 .. Len(msg.attrs) /\ nlattr = HeaderOf(msg, at)
      /\ Stored(at - 1, msgNo + 1) /\ kept \in [Kept -> Content]
      /\ UNCHANGED <<msg, msgNo, at>>
  BY DEF Decode, InStep, WalkInStep, RecordInv, StoredSoFar
<1>2. Len(msg.attrs) \in Nat /\ DOMAIN msg.attrs = 1 .. Len(msg.attrs)
  BY MessageFacts DEF InStep, IsMessage
<1>3. nlattr.kind = k
  BY <1>1 DEF HeaderOf
<1>4. ReadSize(nlattr) <= nlattr.len - HdrSize
  BY <1>1, AttributeFacts DEF InStep
<1>5. ContentRead = {c}
  BY <1>1, <1>4 DEF ContentRead
<1>6. kept' = IF k \in Kept THEN [kept EXCEPT ![k] = c] ELSE kept
  BY <1>3, <1>5 DEF Decode
<1>7. ASSUME NEW j \in 1 .. at, msg.attrs[j].kind \in Kept
      PROVE  kept'[msg.attrs[j].kind] = [from |-> msgNo + 1, value |-> msg.attrs[j].value]
  <2>1. CASE j = at
    BY <1>1, <1>6, <1>7, <2>1
  <2>2. CASE j # at
    <3>1. j \in 1 .. at - 1 /\ j \in DOMAIN msg.attrs /\ at \in DOMAIN msg.attrs
      BY <1>1, <1>2, <2>2
    <3>2. msg.attrs[j].kind # k
      BY <1>7, <2>2, <3>1 DEF AsWritten
    <3>3. kept[msg.attrs[j].kind] = [from |-> msgNo + 1, value |-> msg.attrs[j].value]
      BY <1>1, <1>7, <3>1 DEF Stored
    <3> QED
      BY <1>1, <1>6, <1>7, <3>2, <3>3
  <2> QED
    BY <2>1, <2>2
<1> QED
  BY <1>1, <1>7 DEF Stored

LEMMA WalkStores ==
    ASSUME InStep, RecordInv, Fits(msg), AsWritten(msg),
           [ParseNext]_parseVars, ~NextMsg
    PROVE  StoredSoFar'
<1>1. StoredSoFar /\ WalkInStep
  BY DEF RecordInv, InStep
<1>2. ASSUME NEW i, NEW p, UNCHANGED <<msg, kept>>
      PROVE  Stored(i, p)' <=> Stored(i, p)
  BY <1>2 DEF Stored
<1> USE DEF StoredSoFar
<1>3. CASE EndOfAttributes
  <2>1. Stored(Len(msg.attrs), msgNo + 1)
    BY <1>1, <1>3, HeaderPlace DEF EndOfAttributes, WalkInStep, InStep
  <2> QED
    BY <1>3, <2>1 DEF EndOfAttributes, Stored
<1>4. CASE ReadHeader
  <2>1. /\ parsePc = "header" /\ parsePc' = "decode"
        /\ UNCHANGED <<msg, msgNo, kept>>
    BY <1>4 DEF ReadHeader
  <2>2. IsMessage(msg) /\ Len(msg.attrs) \in Nat
    BY MessageFacts DEF InStep, IsMessage
  <2>3. /\ at \in 0 .. Len(msg.attrs) /\ at + 1 \in DOMAIN msg.start
        /\ \A j \in DOMAIN msg.start : msg.start[j] = offset => j = at + 1
        /\ offset = msg.start[at + 1]
        /\ at # Len(msg.attrs)
    BY <1>1, <1>4, <2>1, HeaderPlace DEF ReadHeader, WalkInStep, InStep, HdrSize
  <2>4. at + 1 \in 1 .. Len(msg.attrs)
    BY <2>2, <2>3
  <2>5. PICK j \in 1 .. Len(msg.attrs) : offset = msg.start[j] /\ at' = j
    BY <1>4, <2>3, <2>4 DEF ReadHeader
  <2>6. j \in DOMAIN msg.start
    BY <2>2, <2>5 DEF IsMessage
  <2>7. at' - 1 = at
    BY <2>3, <2>5, <2>6
  <2>8. Stored(at, msgNo + 1)
    BY <1>1, <2>1
  <2> QED
    BY <2>1, <2>7, <2>8 DEF Stored
<1>5. CASE ReadHeaderShort
  <2>1. at # Len(msg.attrs) /\ Left >= HdrSize
    BY <1>1, <1>5, HeaderPlace DEF ReadHeaderShort, WalkInStep, InStep
  <2>2. Left \in Int
    <3>1. 1 .. HdrSize - 1 \subseteq Int
      BY DEF HdrSize
    <3> QED
      BY <1>5, <3>1 DEF ReadHeaderShort
  <2> QED
    BY <1>5, <2>1, <2>2 DEF ReadHeaderShort, HdrSize
<1>12. CASE NamePanics
  BY <1>12 DEF NamePanics
<1>6. CASE Decode
  BY <1>6, DecodeStores DEF Decode
<1>7. CASE DecodeShort
  <2>1. InStep' /\ complete' = TRUE /\ parsePc' = "pad" /\ msg' = msg
    BY <1>7, InStepInductive DEF DecodeShort
  <2>2. Fits(msg)'
    BY <2>1 DEF Fits, HeaderOf, ReadSize
  <2> QED
    BY <2>1, <2>2 DEF InStep, WalkInStep
<1>8. CASE Pad
  <2>1. parsePc' = "header"
    BY <1>1, <1>8 DEF Pad, Continue, WalkInStep
  <2> QED
    BY <1>1, <1>8, <2>1 DEF Pad, Stored
<1>9. CASE PadShort
  <2>1. InStep' /\ complete' = TRUE /\ parsePc' = "record" /\ msg' = msg /\ at' = at
    BY <1>9, InStepInductive DEF PadShort, Continue
  <2>2. Fits(msg)'
    BY <2>1 DEF Fits, HeaderOf, ReadSize
  <2>3. at = Len(msg.attrs)
    BY <2>1, <2>2 DEF InStep, WalkInStep
  <2> QED
    BY <1>1, <1>9, <2>1, <2>3 DEF PadShort, Stored
<1>10. CASE FinishMsg
  BY <1>1, <1>10 DEF FinishMsg, Stored
<1>11. CASE UNCHANGED parseVars
  BY <1>1, <1>11 DEF parseVars, Stored
<1> QED
  BY <1>3, <1>4, <1>5, <1>6, <1>7, <1>8, <1>9, <1>10, <1>11, <1>12 DEF ParseNext

LEMMA RecordInvInductive ==
    ASSUME InStep, TypeInv, RecordInv, [ParseNext]_parseVars
    PROVE  RecordInv'
<1>1. kept' \in [Kept -> Content] /\ msgNo' \in Nat
  BY TypeStep DEF TypeInv, ParseTypeOK
<1>2. /\ record'.of \in 0 .. msgNo'
      /\ parsePc' = "range" /\ msgNo' > 0 /\ record'.of = msgNo' =>
            record'.fields = [k \in Carried |-> kept[k]]'
  <2>1. CASE FinishMsg
    BY <2>1 DEF FinishMsg, RecordInv, Carried
  <2>2. CASE ~FinishMsg
    <3>1. record' = record /\ msgNo' = msgNo
      BY <2>2 DEF ParseNext, NextMsg, EndOfAttributes, ReadHeader, ReadHeaderShort,
         NamePanics, Decode, DecodeShort, Pad, PadShort, parseVars
    <3>2. parsePc' = "range" => parsePc = "range" /\ kept' = kept
      BY <2>2 DEF ParseNext, NextMsg, EndOfAttributes, ReadHeader, ReadHeaderShort,
         NamePanics, Decode, DecodeShort, Pad, PadShort, Continue, parseVars
    <3> QED
      BY <3>1, <3>2 DEF RecordInv, Carried
  <2> QED
    BY <2>1, <2>2
<1>3. Fits(msg)' /\ AsWritten(msg)' => StoredSoFar'
  <2>1. CASE NextMsg
    <3>1. parsePc' = "header" /\ at' = 0
      BY <2>1 DEF NextMsg
    <3> QED
      BY <3>1 DEF StoredSoFar, Stored
  <2>2. CASE ~NextMsg
    <3>1. msg' = msg
      BY <2>2 DEF ParseNext, EndOfAttributes, ReadHeader, ReadHeaderShort,
         NamePanics, Decode, DecodeShort, Pad, PadShort, FinishMsg, parseVars
    <3>2. Fits(msg)' = Fits(msg) /\ AsWritten(msg)' = AsWritten(msg)
      BY <3>1 DEF Fits, HeaderOf, ReadSize, AsWritten, ValuesOf
    <3> QED
      BY <2>2, <3>2, WalkStores
  <2> QED
    BY <2>1, <2>2
<1> QED
  BY <1>1, <1>2, <1>3 DEF RecordInv

(* The record of a message is of that message: each attribute it has is in *)
(* the record with its own value, however the messages before it looked    *)
(* and however its attributes are ordered; bbrinfo is there for sockets    *)
(* that use BBR and no others, and tos when it is not 0.                   *)
THEOREM RecordsTheMessage ==
    ASSUME \A m \in Messages : AsWritten(m)
    PROVE  ParseSpec => []RecordOfMessage
<1>1. ParseInit => RecordInv
  <2> SUFFICES ASSUME ParseInit PROVE RecordInv
    OBVIOUS
  <2>1. kept \in [Kept -> Content]
    BY TypeInit DEF TypeInv, ParseTypeOK
  <2>2. msgNo = 0 /\ record.of = 0 /\ parsePc = "range"
    BY DEF ParseInit, NoRecord
  <2>3. Len(msg.attrs) = 0
    BY DEF ParseInit, NoMsg
  <2> QED
    BY <2>1, <2>2, <2>3 DEF RecordInv, StoredSoFar, Stored
<1>2. InStep /\ TypeInv /\ RecordInv /\ [ParseNext]_parseVars => RecordInv'
  BY RecordInvInductive
<1>3. InStep /\ RecordInv => RecordOfMessage
  <2> DEFINE f == record.fields
             n == Len(msg.attrs)
  <2> SUFFICES ASSUME InStep, RecordInv, parsePc = "range", msgNo > 0,
                      record.of = msgNo, Fits(msg)
               PROVE  /\ \A k \in DOMAIN f :
                            ValuesOf(msg, k) # {} =>
                               f[k].from = msgNo /\ f[k].value \in ValuesOf(msg, k)
                      /\ ValuesOf(msg, "cong") = {0} => "bbrinfo" \notin DOMAIN f
                      /\ ValuesOf(msg, "bbrinfo") # {} => "bbrinfo" \in DOMAIN f
                      /\ ValuesOf(msg, "tos") # {} =>
                            ("tos" \in DOMAIN f <=> 1 \in ValuesOf(msg, "tos"))
    BY Zenon DEF RecordOfMessage
  <2>1. AsWritten(msg)
    <3>1. CASE msg \in Messages
      BY <3>1
    <3>2. CASE msg = NoMsg
      <4>1. DOMAIN msg.attrs = {}
        BY <3>2 DEF NoMsg
      <4> QED
        BY <4>1 DEF AsWritten, ValuesOf
    <3> QED
      BY <3>1, <3>2 DEF InStep
  <2>2. Stored(n, msgNo)
    BY <2>1 DEF RecordInv, StoredSoFar
  <2>3. IsMessage(msg) /\ n \in Nat /\ DOMAIN msg.attrs = 1 .. n
    BY MessageFacts DEF InStep, IsMessage
  <2>4. DOMAIN f = Carried /\ \A k \in Carried : f[k] = kept[k]
    BY DEF RecordInv
  <2>5. ASSUME NEW k \in Kept, NEW v \in ValuesOf(msg, k)
        PROVE  ValuesOf(msg, k) = {v} /\ kept[k].from = msgNo /\ kept[k].value = v
    <3>1. PICK j \in 1 .. n : msg.attrs[j].kind = k /\ msg.attrs[j].value = v
      BY <2>3 DEF ValuesOf
    <3>2. ValuesOf(msg, k) = {v}
      BY <2>1, <2>3, <3>1 DEF ValuesOf, AsWritten
    <3>3. kept[k] = [from |-> msgNo, value |-> v]
      BY <2>2, <3>1 DEF Stored
    <3> QED
      BY <3>2, <3>3
  <2>6. \A k \in Kept : kept[k].value \in {0, 1}
    BY DEF RecordInv, Content
  <2>7. \A k \in DOMAIN f :
           ValuesOf(msg, k) # {} =>
              f[k].from = msgNo /\ f[k].value \in ValuesOf(msg, k)
    BY <2>4, <2>5 DEF Carried, Kept
  <2>8. ValuesOf(msg, "cong") = {0} => "bbrinfo" \notin DOMAIN f
    BY <2>4, <2>5 DEF Carried, Kept
  <2>9. ValuesOf(msg, "bbrinfo") # {} => "bbrinfo" \in DOMAIN f
    BY <2>1, <2>4, <2>5 DEF Carried, Kept, AsWritten
  <2>10. ValuesOf(msg, "tos") # {} =>
            ("tos" \in DOMAIN f <=> 1 \in ValuesOf(msg, "tos"))
    BY <2>4, <2>5, <2>6 DEF Carried, Kept
  <2> QED
    BY <2>7, <2>8, <2>9, <2>10
<1> QED
  BY <1>1, <1>2, <1>3, InitInStep, InStepInductive, TypeInit, TypeStep, PTL
     DEF ParseSpec

-----------------------------------------------------------------------------
(* The bytes read of the first i attributes.                               *)
ReadOf(i) == SumFunctionOnSet(Reads(msg), 1 .. i)

(* How much of a message has been read at each step, and that no more is   *)
(* counted.                                                                *)
CountedSoFar ==
    /\ parsePc \in {"header", "record"} =>
          /\ offset = MsgSize + HdrSize * at + ReadOf(at) + padRead
          /\ bytesRead <= offset
    /\ parsePc = "decode" =>
          /\ offset = MsgSize + HdrSize * at + ReadOf(at - 1) + padRead
          /\ bytesRead <= offset
    /\ parsePc = "pad" =>
          /\ offset = MsgSize + HdrSize * at + ReadOf(at) + padRead
          /\ bytesRead + attrRead <= offset

BytesInv == Fits(msg) => CountedSoFar

(* One attribute more.                                                     *)
LEMMA BytesOfOneMore ==
    ASSUME msg \in Messages \cup {NoMsg}, Fits(msg), NEW i \in 1 .. Len(msg.attrs)
    PROVE  /\ ReadOf(i - 1) \in Int /\ ReadOf(i) \in Int
           /\ ReadOf(i) = ReadOf(i - 1) + ReadSize(HeaderOf(msg, i))
<1> DEFINE n == Len(msg.attrs)
           f == Reads(msg)
           A == 1 .. i - 1
<1>1. n \in Nat /\ DOMAIN msg.attrs = 1 .. n
  BY MessageFacts DEF IsMessage
<1>2. \A j \in 1 .. n : f[j] = ReadSize(HeaderOf(msg, j)) /\ f[j] \in Nat
  BY <1>1, AttributeFacts DEF Reads
<1>3. IsFiniteSet(A)
  BY FS_Interval
<1>4. A \subseteq 1 .. n /\ i \notin A /\ A \cup {i} = 1 .. i
  BY <1>1
<1>5. ReadOf(i - 1) = SumFunctionOnSet(f, A)
  BY DEF ReadOf
<1>6. ReadOf(i) = SumFunctionOnSet(f, A \cup {i})
  BY <1>4 DEF ReadOf
<1> HIDE DEF n, f, A
<1>7. f[i] = ReadSize(HeaderOf(msg, i)) /\ f[i] \in Nat
  BY <1>2 DEF n
<1>8. SumFunctionOnSet(f, A) \in Int
  <2>1. \A j \in A : f[j] \in Int
    BY <1>2, <1>4
  <2> QED BY <1>3, <2>1, SumIsInt
<1>9. SumFunctionOnSet(f, A \cup {i}) = SumFunctionOnSet(f, A) + f[i]
  <2>1. \A j \in A \cup {i} : f[j] \in Int
    BY <1>2, <1>4, <1>7
  <2> QED BY <1>3, <1>4, <2>1, SumWithOneMore
<1> QED BY <1>5, <1>6, <1>7, <1>8, <1>9

(* Each step of the walk adds what it reads, and counts no more.           *)
LEMMA WalkCounts ==
    ASSUME InStep, TypeInv, Fits(msg), CountedSoFar, [ParseNext]_parseVars, ~NextMsg
    PROVE  CountedSoFar'
<1>1. WalkInStep /\ msg \in Messages \cup {NoMsg}
  BY DEF InStep
<1>2. /\ offset \in Nat /\ padRead \in Nat /\ bytesRead \in Nat /\ MsgSize \in Nat
  BY Sizes, ParseAssumption DEF TypeInv, ParseTypeOK
<1>3. msg' = msg /\ InStep'
  BY InStepInductive DEF ParseNext, EndOfAttributes, ReadHeader, ReadHeaderShort,
     NamePanics, Decode, DecodeShort, Pad, PadShort, FinishMsg, parseVars
<1>4. Fits(msg)' /\ WalkInStep'
  BY <1>3 DEF Fits, HeaderOf, ReadSize, InStep
<1>5. ASSUME NEW i PROVE ReadOf(i)' = ReadOf(i)
  BY <1>3 DEF ReadOf, Reads, HeaderOf, ReadSize
<1>6. Len(msg.attrs) \in Nat
  BY <1>1, MessageFacts DEF IsMessage
<1>7. CASE EndOfAttributes
  BY <1>5, <1>7 DEF EndOfAttributes, CountedSoFar
<1>8. CASE ReadHeader
  <2>1. parsePc = "header" /\ parsePc' = "decode" /\ offset' = offset + HdrSize
        /\ bytesRead' = bytesRead + HdrSize /\ padRead' = padRead
    BY <1>8 DEF ReadHeader
  <2>2. at' \in 1 .. Len(msg.attrs) /\ at \in 0 .. Len(msg.attrs)
    BY <1>1, <1>3, <1>4, <2>1 DEF WalkInStep
  <2>3. at' = at + 1
    <3>1. /\ at + 1 \in DOMAIN msg.start
          /\ \A j \in DOMAIN msg.start : msg.start[j] = offset => j = at + 1
      BY <1>1, <2>1, <2>2, HeaderPlace DEF WalkInStep
    <3>2. \E j \in 1 .. Len(msg.attrs) : offset = msg.start[j] /\ at' = j
      BY <1>8, <2>2 DEF ReadHeader
    <3>3. \A j \in 1 .. Len(msg.attrs) : j \in DOMAIN msg.start
      BY <1>1, <1>6, MessageFacts DEF IsMessage
    <3> QED BY <3>1, <3>2, <3>3
  <2>4. at' - 1 = at /\ ReadOf(at) \in Int
    <3>1. ReadOf(at' - 1) \in Int
      BY <1>1, <2>2, BytesOfOneMore
    <3>2. at' - 1 = at
      BY <2>2, <2>3
    <3> QED BY <3>1, <3>2
  <2>5. /\ offset = MsgSize + HdrSize * at + ReadOf(at) + padRead
        /\ bytesRead <= offset
    BY <2>1 DEF CountedSoFar
  <2>6. /\ offset' = MsgSize + HdrSize * at' + ReadOf(at) + padRead'
        /\ bytesRead' <= offset'
    <3> DEFINE read == ReadOf(at)
    <3>1. read \in Int /\ at \in Nat
      BY <2>2, <2>4
    <3>2. /\ offset = MsgSize + 4 * at + read + padRead
          /\ bytesRead <= offset
      BY <2>5 DEF HdrSize
    <3>3. /\ offset' = offset + 4 /\ bytesRead' = bytesRead + 4
          /\ padRead' = padRead /\ at' = at + 1
      BY <2>1, <2>3 DEF HdrSize
    <3> HIDE DEF read
    <3>4. /\ offset' = MsgSize + 4 * at' + read + padRead'
          /\ bytesRead' <= offset'
      BY <1>2, <3>1, <3>2, <3>3
    <3> QED
      BY <3>4 DEF HdrSize, read
  <2>7. ReadOf(at - 1)' = ReadOf(at)
    <3>1. Reads(msg)' = Reads(msg)
      BY <1>3 DEF Reads, HeaderOf, ReadSize
    <3>2. ReadOf(at - 1)' = SumFunctionOnSet(Reads(msg)', 1 .. at' - 1)
      BY DEF ReadOf
    <3> QED BY <2>4, <3>1, <3>2 DEF ReadOf
  <2> QED BY <2>1, <2>6, <2>7 DEF CountedSoFar
<1>9. CASE ReadHeaderShort
  <2>1. parsePc' = "decode" /\ at' = 0
    BY <1>9 DEF ReadHeaderShort
  <2> QED BY <1>4, <2>1 DEF WalkInStep
<1>16. CASE NamePanics
  BY <1>16 DEF NamePanics, CountedSoFar
<1>10. CASE Decode
  <2> DEFINE i == at
             read == ReadSize(nlattr)
  <2>1. /\ parsePc = "decode" /\ parsePc' = "pad" /\ offset' = offset + read
        /\ bytesRead' = bytesRead /\ padRead' = padRead /\ attrRead' = read /\ at' = at
        /\ i \in 1 .. Len(msg.attrs) /\ nlattr = HeaderOf(msg, i)
    BY <1>1, <1>10 DEF Decode, WalkInStep
  <2>2. /\ read \in Nat /\ ReadOf(i - 1) \in Int
        /\ ReadOf(i) = ReadOf(i - 1) + read
    BY <1>1, <2>1, BytesOfOneMore, AttributeFacts
  <2>3. /\ offset = MsgSize + HdrSize * i + ReadOf(i - 1) + padRead
        /\ bytesRead <= offset
    BY <2>1 DEF CountedSoFar
  <2> HIDE DEF read, i
  <2>4. /\ offset' = MsgSize + HdrSize * i + ReadOf(i) + padRead'
        /\ bytesRead' + attrRead' <= offset'
    BY <1>2, <2>1, <2>2, <2>3 DEF HdrSize
  <2>5. ReadOf(at)' = ReadOf(i)
    BY <1>5, <2>1 DEF i
  <2> QED BY <2>1, <2>4, <2>5 DEF CountedSoFar, i
<1>11. CASE DecodeShort
  <2>1. parsePc' = "pad" /\ complete' = TRUE
    BY <1>11 DEF DecodeShort
  <2> QED BY <1>4, <2>1 DEF WalkInStep
<1>12. CASE Pad
  <2> DEFINE i == at
             pad == padBuffer
             before == MsgSize + HdrSize * i + ReadOf(i)
  <2>1. /\ parsePc = "pad" /\ offset' = offset + pad
        /\ padRead' = padRead + pad /\ bytesRead' = bytesRead + Counted
        /\ at' = at /\ i \in 1 .. Len(msg.attrs)
    BY <1>1, <1>12 DEF Pad, WalkInStep
  <2>2. parsePc' = "header"
    BY <1>1, <1>12 DEF Pad, Continue, WalkInStep
  <2>3. pad \in Nat /\ attrRead \in Nat
    BY <1>1, <2>1, PadStays, AttributeFacts DEF WalkInStep
  <2>4. ReadOf(i) \in Int
    BY <1>1, <2>1, BytesOfOneMore
  <2>5. offset = before + padRead /\ bytesRead + attrRead <= offset
    BY <2>1 DEF CountedSoFar
  <2>6. before \in Int
    BY <1>2, <2>1, <2>4 DEF HdrSize
  <2>7. Counted \in Nat /\ Counted <= attrRead + pad
    BY <2>3 DEF Counted
  <2> HIDE DEF i, pad, before
  <2>8. offset' = before + padRead' /\ bytesRead' <= offset'
    BY <1>2, <2>1, <2>3, <2>5, <2>6, <2>7
  <2>9. ReadOf(at)' = ReadOf(i)
    BY <1>5, <2>1 DEF i
  <2> QED BY <2>1, <2>2, <2>8, <2>9 DEF CountedSoFar, i, before
<1>13. CASE PadShort
  <2>1. padBuffer > Left /\ parsePc = "pad"
    BY <1>13 DEF PadShort
  <2>2. padBuffer \in Nat /\ padBuffer <= Left /\ Left \in Int
    BY <1>1, <2>1, PadStays
  <2> QED BY <2>1, <2>2
<1>14. CASE FinishMsg
  BY <1>14 DEF FinishMsg, CountedSoFar
<1>15. CASE UNCHANGED parseVars
  BY <1>5, <1>15 DEF parseVars, CountedSoFar
<1> QED
  BY <1>7, <1>8, <1>9, <1>10, <1>11, <1>12, <1>13, <1>14, <1>15, <1>16 DEF ParseNext

(* A message is its headers, the contents of its attributes as far as this *)
(* program has structures for them, and the padding that the inetdiager    *)
(* counts; and the bytes it counts are not more than there are.            *)
THEOREM BytesOfMessage == ParseSpec => []BytesAccounted
<1>1. ParseInit => BytesInv
  BY DEF ParseInit, BytesInv, CountedSoFar
<1>2. InStep /\ TypeInv /\ BytesInv /\ [ParseNext]_parseVars => BytesInv'
  <2> SUFFICES ASSUME InStep, TypeInv, BytesInv, [ParseNext]_parseVars, Fits(msg)'
               PROVE  CountedSoFar'
    BY DEF BytesInv
  <2>1. CASE NextMsg
    <3>1. /\ parsePc' = "header" /\ at' = 0 /\ offset' = MsgSize /\ bytesRead' = MsgSize
          /\ padRead' = 0
      BY <2>1 DEF NextMsg
    <3>2. ReadOf(at)' = 0
      <4>1. 1 .. at' = {}
        BY <3>1
      <4> QED BY <4>1, SumOfNone DEF ReadOf
    <3>3. MsgSize \in Nat
      BY ParseAssumption
    <3> QED BY <3>1, <3>2, <3>3 DEF CountedSoFar, HdrSize
  <2>2. CASE ~NextMsg
    <3>1. msg' = msg
      BY <2>2 DEF ParseNext, EndOfAttributes, ReadHeader, ReadHeaderShort,
         NamePanics, Decode, DecodeShort, Pad, PadShort, FinishMsg, parseVars
    <3>2. Fits(msg)
      BY <3>1 DEF Fits, HeaderOf, ReadSize
    <3> QED BY <2>2, <3>2, WalkCounts DEF BytesInv
  <2> QED BY <2>1, <2>2
<1>3. InStep /\ BytesInv => BytesAccounted
  <2> SUFFICES ASSUME InStep, BytesInv, parsePc = "record", Fits(msg)
               PROVE  /\ Size(msg) = MsgSize + HdrSize * Len(msg.attrs)
                                     + SumFunctionOnSet(Reads(msg), DOMAIN msg.attrs) + padRead
                      /\ bytesRead <= Size(msg)
    BY DEF BytesAccounted
  <2>1. at = Len(msg.attrs) /\ offset = Size(msg)
    BY DEF InStep, WalkInStep
  <2>2. DOMAIN msg.attrs = 1 .. at
    BY <2>1, MessageFacts DEF InStep, IsMessage
  <2> QED BY <2>1, <2>2 DEF BytesInv, CountedSoFar, ReadOf
<1> QED
  BY <1>1, <1>2, <1>3, InitInStep, InStepInductive, TypeInit, TypeStep, PTL
     DEF ParseSpec

-----------------------------------------------------------------------------
(* The layout of the structures.  Of a C type there are widths 1 to 8.     *)
Widths == {1, 2, 4, 8}

(* A structure's fields are in these places one right behind the other, as *)
(* binary.Read takes them; and each place is a multiple of the width.      *)
Packed(struct, place) ==
    /\ place \in [1 .. Len(struct) -> Nat]
    /\ \A i \in 1 .. Len(struct) :
          place[i] = IF i = 1 THEN 0 ELSE place[i - 1] + struct[i - 1]

OnItsWidth(struct, place) ==
    \A i \in 1 .. Len(struct) : place[i] % struct[i] = 0

(* The recursion that defines Offsets has one solution.                    *)
LEMMA OffsetsAre ==
    ASSUME NEW struct \in Seq(Widths), NEW aligned,
           NEW g \in [1 .. Len(struct) -> Nat],
           \A i \in 1 .. Len(struct) :
              g[i] = IF i = 1 THEN 0
                     ELSE LET end == g[i - 1] + struct[i - 1]
                          IN  IF aligned THEN AlignTo(end, struct[i]) ELSE end
    PROVE  Offsets(struct, aligned) = g
<1> DEFINE n == Len(struct)
           Step(f, i) == IF i = 1 THEN 0
                         ELSE IF aligned
                              THEN AlignTo(f[i - 1] + struct[i - 1], struct[i])
                              ELSE f[i - 1] + struct[i - 1]
           Solves(f) == f = [i \in 1 .. n |-> Step(f, i)]
<1>1. n \in Nat /\ DOMAIN struct = 1 .. n
  OBVIOUS
<1>2. Offsets(struct, aligned) = CHOOSE f : Solves(f)
  BY <1>1 DEF Offsets
<1>3. Solves(g)
  OBVIOUS
<1>4. ASSUME NEW f, Solves(f) PROVE f = g
  <2> DEFINE S == {k \in Nat : k \in 1 .. n => f[k] = g[k]}
  <2>1. \A i \in 1 .. n : f[i] = Step(f, i) /\ g[i] = Step(g, i)
    BY <1>3, <1>4
  <2>2. 0 \in S
    OBVIOUS
  <2>3. ASSUME NEW k \in Nat, k \in S PROVE k + 1 \in S
    <3> SUFFICES ASSUME k + 1 \in 1 .. n PROVE f[k + 1] = g[k + 1]
      OBVIOUS
    <3>1. k = 0 \/ f[k] = g[k]
      BY <2>3
    <3>2. Step(f, k + 1) = Step(g, k + 1)
      BY <3>1
    <3> QED
      BY <2>1, <3>2
  <2>4. \A k \in Nat : k \in S
    <3> HIDE DEF S
    <3> QED
      BY <2>2, <2>3, InductionOnNat
  <2>5. \A k \in 1 .. n : f[k] = g[k]
    BY <1>1, <2>4
  <2>6. DOMAIN f = 1 .. n
    BY <1>4
  <2>7. f = [i \in 1 .. n |-> f[i]]
    BY <1>4, <2>6
  <2> QED
    BY <2>5, <2>7
<1> HIDE DEF Solves
<1> QED
  BY <1>2, <1>3, <1>4

(* What is on its width already is not moved.                              *)
LEMMA AlignedAlready ==
    ASSUME NEW place \in Nat, NEW width \in Widths, place % width = 0
    PROVE  AlignTo(place, width) = place
BY DEF AlignTo, Widths

(* A structure whose fields, one behind the other, are on their widths is  *)
(* the same to binary.Read and to a C compiler.                            *)
LEMMA OnWidthsNoPadding ==
    ASSUME NEW struct \in Seq(Widths), NEW g, Packed(struct, g)
    PROVE  /\ Offsets(struct, FALSE) = g
           /\ OnItsWidth(struct, g) => Offsets(struct, TRUE) = g
<1>1. g \in [1 .. Len(struct) -> Nat]
  BY DEF Packed
<1>2. Offsets(struct, FALSE) = g
  BY <1>1, OffsetsAre DEF Packed
<1>3. ASSUME OnItsWidth(struct, g) PROVE Offsets(struct, TRUE) = g
  <2>1. ASSUME NEW i \in 1 .. Len(struct), i # 1
        PROVE  g[i] = AlignTo(g[i - 1] + struct[i - 1], struct[i])
    <3>1. g[i] = g[i - 1] + struct[i - 1] /\ g[i] \in Nat /\ struct[i] \in Widths
      BY <1>1, <2>1 DEF Packed
    <3>2. AlignTo(g[i], struct[i]) = g[i]
      BY <1>3, <3>1, AlignedAlready DEF OnItsWidth
    <3> QED
      BY <3>1, <3>2
  <2>2. \A i \in 1 .. Len(struct) :
            g[i] = IF i = 1 THEN 0
                   ELSE LET end == g[i - 1] + struct[i - 1]
                        IN  IF TRUE THEN AlignTo(end, struct[i]) ELSE end
    BY <2>1 DEF Packed
  <2> QED
    BY <1>1, <2>2, OffsetsAre
<1> QED
  BY <1>2, <1>3

-----------------------------------------------------------------------------
(* A structure of n fields, with these widths.                             *)
Fields(struct, W, n) ==
    /\ struct \in Seq(Widths) /\ Len(struct) = n
    /\ \A i \in 1 .. n : struct[i] = W[i]

LEMMA MoreFields ==
    ASSUME NEW struct, NEW W, NEW n \in Nat, Fields(struct, W, n),
           NEW k \in Nat, NEW m \in Nat, m = n + k,
           NEW run \in Seq(Widths), Len(run) = k, \A i \in n + 1 .. m : W[i] = run[i - n]
    PROVE  Fields(struct \o run, W, m)
<1>1. struct \o run \in Seq(Widths) /\ Len(struct \o run) = m
  BY DEF Fields
<1>2. \A i \in 1 .. m : (struct \o run)[i] = W[i]
  BY DEF Fields
<1> QED
  BY <1>1, <1>2 DEF Fields

LEMMA RunsFollow ==
    ASSUME NEW struct, NEW W, NEW n \in Nat, Fields(struct, W, n),
           NEW k \in Nat, NEW m \in Nat, m = n + k
    PROVE  /\ (\A i \in n + 1 .. m : W[i] = 1) => Fields(struct \o U8(k), W, m)
           /\ (\A i \in n + 1 .. m : W[i] = 2) => Fields(struct \o U16(k), W, m)
           /\ (\A i \in n + 1 .. m : W[i] = 4) => Fields(struct \o U32(k), W, m)
           /\ (\A i \in n + 1 .. m : W[i] = 8) => Fields(struct \o U64(k), W, m)
<1>1. ASSUME NEW run \in Seq(Widths), Len(run) = k, NEW w,
             \A i \in 1 .. k : run[i] = w, \A i \in n + 1 .. m : W[i] = w
      PROVE  Fields(struct \o run, W, m)
  <2>1. \A i \in n + 1 .. m : W[i] = run[i - n]
    BY <1>1
  <2> QED
    BY <1>1, <2>1, MoreFields
<1>2. /\ U8(k) \in Seq(Widths) /\ Len(U8(k)) = k /\ \A i \in 1 .. k : U8(k)[i] = 1
      /\ U16(k) \in Seq(Widths) /\ Len(U16(k)) = k /\ \A i \in 1 .. k : U16(k)[i] = 2
  BY DEF U8, U16, Widths
<1>3. /\ U32(k) \in Seq(Widths) /\ Len(U32(k)) = k /\ \A i \in 1 .. k : U32(k)[i] = 4
      /\ U64(k) \in Seq(Widths) /\ Len(U64(k)) = k /\ \A i \in 1 .. k : U64(k)[i] = 8
  BY DEF U32, U64, Widths
<1> QED
  BY <1>1, <1>2, <1>3

(* The widths of tcp_info.                                                 *)
TCPWidth ==
    [i \in 1 .. 54 |-> IF i <= 8 THEN 1
                       ELSE IF i \in 33 .. 36 \cup 43 .. 46 \cup 49 .. 50 THEN 8 ELSE 4]

TCPFields(struct, n) == Fields(struct, TCPWidth, n)

LEMMA TCPStructs ==
    /\ TCPFields(tcp_info, 54)
    /\ TCPFields(TCPInfo54, 54)
    /\ TCPFields(TCPInfo415, 46)
<1>1. TCPFields(U8(8), 8)
  BY DEF TCPFields, Fields, TCPWidth, U8, Widths
<1>2. ASSUME NEW s, NEW n \in Nat, TCPFields(s, n), NEW k \in Nat, NEW m \in Nat, m = n + k
      PROVE  /\ \/ 8 <= n /\ m <= 32
                \/ 36 <= n /\ m <= 42
                \/ 46 <= n /\ m <= 48
                \/ 50 <= n /\ m <= 54
                => TCPFields(s \o U32(k), m)
             /\ \/ 32 <= n /\ m <= 36
                \/ 42 <= n /\ m <= 46
                \/ 48 <= n /\ m <= 50
                => TCPFields(s \o U64(k), m)
  <2>1. /\ (\A i \in n + 1 .. m : TCPWidth[i] = 4) => TCPFields(s \o U32(k), m)
        /\ (\A i \in n + 1 .. m : TCPWidth[i] = 8) => TCPFields(s \o U64(k), m)
    BY <1>2, RunsFollow DEF TCPFields
  <2> QED
    BY <1>2, <2>1 DEF TCPWidth
<1>3. ASSUME NEW s
      PROVE  /\ TCPFields(s, 8)  => TCPFields(s \o U32(24), 32)
             /\ TCPFields(s, 8)  => TCPFields(s \o U32(4), 12)
             /\ TCPFields(s, 12) => TCPFields(s \o U32(5), 17)
             /\ TCPFields(s, 17) => TCPFields(s \o U32(4), 21)
             /\ TCPFields(s, 21) => TCPFields(s \o U32(8), 29)
             /\ TCPFields(s, 29) => TCPFields(s \o U32(2), 31)
             /\ TCPFields(s, 31) => TCPFields(s \o U32(1), 32)
             /\ TCPFields(s, 32) => TCPFields(s \o U64(4), 36)
             /\ TCPFields(s, 36) => TCPFields(s \o U32(6), 42)
             /\ TCPFields(s, 42) => TCPFields(s \o U64(1), 43)
             /\ TCPFields(s, 43) => TCPFields(s \o U64(3), 46)
             /\ TCPFields(s, 42) => TCPFields(s \o U64(4), 46)
             /\ TCPFields(s, 46) => TCPFields(s \o U32(2), 48)
             /\ TCPFields(s, 48) => TCPFields(s \o U64(2), 50)
             /\ TCPFields(s, 50) => TCPFields(s \o U32(4), 54)
  BY <1>2
<1>4. TCPFields(tcp_info, 54)
  BY <1>1, <1>3 DEF tcp_info
<1>5. TCPFields(TCPInfo415, 46)
  BY <1>1, <1>3 DEF TCPInfo415
<1>6. TCPFields(TCPInfo54, 54)
  BY <1>1, <1>3 DEF TCPInfo54
<1> QED
  BY <1>4, <1>5, <1>6

(* Where each of them is.                                                  *)
TCPOffset(i) ==
    CASE i <= 8 -> i - 1
      [] i \in 9 .. 32  -> 8 + 4 * (i - 9)
      [] i \in 33 .. 36 -> 104 + 8 * (i - 33)
      [] i \in 37 .. 42 -> 136 + 4 * (i - 37)
      [] i \in 43 .. 46 -> 160 + 8 * (i - 43)
      [] i \in 47 .. 48 -> 192 + 4 * (i - 47)
      [] i \in 49 .. 50 -> 200 + 8 * (i - 49)
      [] i >= 51 -> 216 + 4 * (i - 51)

LEMMA TCPOffsets ==
    ASSUME NEW n \in Nat, n <= 54, NEW struct, TCPFields(struct, n)
    PROVE  \A i \in 1 .. n : /\ Offsets(struct, FALSE)[i] = TCPOffset(i)
                             /\ Offsets(struct, TRUE)[i] = TCPOffset(i)
<1> DEFINE g == [i \in 1 .. n |-> TCPOffset(i)]
<1>1. \A i \in 1 .. 54 :
         /\ TCPOffset(i) \in Nat
         /\ TCPOffset(i) % TCPWidth[i] = 0
         /\ i # 1 => TCPOffset(i) = TCPOffset(i - 1) + TCPWidth[i - 1]
  BY DEF TCPOffset, TCPWidth
<1>2. TCPOffset(1) = 0
  BY DEF TCPOffset
<1>3. /\ struct \in Seq(Widths) /\ Len(struct) = n
      /\ \A i \in 1 .. n : struct[i] = TCPWidth[i] /\ g[i] = TCPOffset(i)
  BY DEF TCPFields, Fields
<1>4. g \in [1 .. n -> Nat]
  BY <1>1
<1> HIDE DEF g
<1>5. ASSUME NEW i \in 1 .. n
      PROVE  /\ g[i] % struct[i] = 0
             /\ i # 1 => g[i] = g[i - 1] + struct[i - 1]
  <2>1. i \in 1 .. 54 /\ (i # 1 => i - 1 \in 1 .. n)
    OBVIOUS
  <2> QED
    BY <1>1, <1>3, <2>1
<1>6. Packed(struct, g) /\ OnItsWidth(struct, g)
  BY <1>2, <1>3, <1>4, <1>5 DEF Packed, OnItsWidth
<1>7. Offsets(struct, FALSE) = g /\ Offsets(struct, TRUE) = g
  BY <1>3, <1>6, OnWidthsNoPadding
<1> QED
  BY <1>3, <1>7

LEMMA TCPInPlace ==
    /\ InPlace(TCPInfo415, tcp_info)
    /\ InPlace(TCPInfo54, tcp_info)
    /\ Len(TCPInfo54) = Len(tcp_info)
<1>1. ASSUME NEW struct, NEW n \in Nat, n <= 54, TCPFields(struct, n)
      PROVE  InPlace(struct, tcp_info)
  <2>1. \A i \in 1 .. n : Offsets(struct, FALSE)[i] = TCPOffset(i)
    BY <1>1, TCPOffsets
  <2>2. \A i \in 1 .. 54 : Offsets(tcp_info, TRUE)[i] = TCPOffset(i)
    <3>1. TCPFields(tcp_info, 54) /\ 54 \in Nat /\ 54 <= 54
      BY TCPStructs
    <3> QED
      BY <3>1, TCPOffsets
  <2>3. \A i \in 1 .. 54 : tcp_info[i] = TCPWidth[i]
    BY TCPStructs DEF TCPFields, Fields
  <2>4. DOMAIN struct = 1 .. n /\ \A i \in 1 .. n : struct[i] = TCPWidth[i]
    BY <1>1 DEF TCPFields, Fields
  <2>5. \A i \in 1 .. n : i \in 1 .. 54
    BY <1>1
  <2> QED
    BY <2>1, <2>2, <2>3, <2>4, <2>5 DEF InPlace
<1>2. InPlace(TCPInfo415, tcp_info) /\ InPlace(TCPInfo54, tcp_info)
  BY <1>1, TCPStructs
<1>3. Len(TCPInfo54) = 54 /\ Len(tcp_info) = 54
  BY TCPStructs DEF TCPFields, Fields
<1> QED
  BY <1>2, <1>3

-----------------------------------------------------------------------------
(* The message and the socket in it, which ends where the kernel's does.   *)
SocketWidth ==
    [i \in 1 .. 36 |-> IF i <= 2 THEN 2 ELSE IF i <= 34 THEN 1 ELSE IF i = 35 THEN 4 ELSE 8]

MsgWidth ==
    [i \in 1 .. 45 |-> IF i <= 4 THEN 1 ELSE IF i <= 40 THEN SocketWidth[i - 4] ELSE 4]

CMsgWidth == [i \in 1 .. 22 |-> IF i <= 4 THEN 1 ELSE IF i <= 6 THEN 2 ELSE 4]

LEMMA MsgStructs ==
    /\ Fields(InetDiagMsg, MsgWidth, 45)
    /\ Fields(inet_diag_msg, CMsgWidth, 22)
<1>1. Fields(SocketID, SocketWidth, 36)
  <2>1. Fields(U16(2), SocketWidth, 2)
    BY DEF Fields, SocketWidth, U16, Widths
  <2>2. ASSUME NEW s, NEW n \in Nat, Fields(s, SocketWidth, n),
               NEW k \in Nat, NEW m \in Nat, m = n + k
        PROVE  /\ 2 <= n /\ m <= 34  => Fields(s \o U8(k), SocketWidth, m)
               /\ n = 34 /\ m = 35  => Fields(s \o U32(k), SocketWidth, m)
               /\ n = 35 /\ m = 36  => Fields(s \o U64(k), SocketWidth, m)
    <3>1. /\ (\A i \in n + 1 .. m : SocketWidth[i] = 1) => Fields(s \o U8(k), SocketWidth, m)
          /\ (\A i \in n + 1 .. m : SocketWidth[i] = 4) => Fields(s \o U32(k), SocketWidth, m)
          /\ (\A i \in n + 1 .. m : SocketWidth[i] = 8) => Fields(s \o U64(k), SocketWidth, m)
      BY <2>2, RunsFollow
    <3> QED
      BY <2>2, <3>1 DEF SocketWidth
  <2>3. ASSUME NEW s
        PROVE  /\ Fields(s, SocketWidth, 2)  => Fields(s \o U8(16), SocketWidth, 18)
               /\ Fields(s, SocketWidth, 18) => Fields(s \o U8(16), SocketWidth, 34)
               /\ Fields(s, SocketWidth, 34) => Fields(s \o U32(1), SocketWidth, 35)
               /\ Fields(s, SocketWidth, 35) => Fields(s \o U64(1), SocketWidth, 36)
    BY <2>2
  <2> QED
    BY <2>1, <2>3 DEF SocketID
<1>2. Fields(InetDiagMsg, MsgWidth, 45)
  <2>1. Fields(U8(4), MsgWidth, 4)
    BY DEF Fields, MsgWidth, U8, Widths
  <2>2. SocketID \in Seq(Widths) /\ Len(SocketID) = 36
        /\ \A i \in 1 .. 36 : SocketID[i] = SocketWidth[i]
    BY <1>1 DEF Fields
  <2>3. \A i \in 5 .. 40 : MsgWidth[i] = SocketID[i - 4]
    <3> SUFFICES ASSUME NEW i \in 5 .. 40 PROVE MsgWidth[i] = SocketID[i - 4]
      OBVIOUS
    <3>1. i - 4 \in 1 .. 36 /\ MsgWidth[i] = SocketWidth[i - 4]
      BY DEF MsgWidth
    <3> QED
      BY <2>2, <3>1
  <2>4. ASSUME NEW n, NEW k, NEW m, n = 4, k = 36, m = 40
        PROVE  Fields(U8(4) \o SocketID, MsgWidth, m)
    <3>1. n \in Nat /\ k \in Nat /\ m \in Nat /\ m = n + k
      BY <2>4
    <3>2. Fields(U8(4), MsgWidth, n) /\ Len(SocketID) = k
          /\ \A i \in n + 1 .. m : MsgWidth[i] = SocketID[i - n]
      BY <2>1, <2>2, <2>3, <2>4
    <3> QED
      BY <2>2, <3>1, <3>2, MoreFields
  <2>5. ASSUME NEW s, NEW n \in Nat, Fields(s, MsgWidth, n),
               NEW k \in Nat, NEW m \in Nat, m = n + k
        PROVE  40 <= n /\ m <= 45 => Fields(s \o U32(k), MsgWidth, m)
    <3>1. (\A i \in n + 1 .. m : MsgWidth[i] = 4) => Fields(s \o U32(k), MsgWidth, m)
      BY <2>5, RunsFollow
    <3> QED
      BY <2>5, <3>1 DEF MsgWidth
  <2>6. ASSUME NEW s PROVE Fields(s, MsgWidth, 40) => Fields(s \o U32(5), MsgWidth, 45)
    BY <2>5
  <2> QED
    BY <2>4, <2>6 DEF InetDiagMsg
<1>3. Fields(inet_diag_msg, CMsgWidth, 22)
  <2>1. Fields(U8(4), CMsgWidth, 4)
    BY DEF Fields, CMsgWidth, U8, Widths
  <2>2. ASSUME NEW s, NEW n \in Nat, Fields(s, CMsgWidth, n),
               NEW k \in Nat, NEW m \in Nat, m = n + k
        PROVE  /\ n = 4 /\ m = 6     => Fields(s \o U16(k), CMsgWidth, m)
               /\ 6 <= n /\ m <= 22  => Fields(s \o U32(k), CMsgWidth, m)
    <3>1. /\ (\A i \in n + 1 .. m : CMsgWidth[i] = 2) => Fields(s \o U16(k), CMsgWidth, m)
          /\ (\A i \in n + 1 .. m : CMsgWidth[i] = 4) => Fields(s \o U32(k), CMsgWidth, m)
      BY <2>2, RunsFollow
    <3> QED
      BY <2>2, <3>1 DEF CMsgWidth
  <2>3. ASSUME NEW s
        PROVE  /\ Fields(s, CMsgWidth, 4)  => Fields(s \o U16(2), CMsgWidth, 6)
               /\ Fields(s, CMsgWidth, 6)  => Fields(s \o U32(4), CMsgWidth, 10)
               /\ Fields(s, CMsgWidth, 10) => Fields(s \o U32(4), CMsgWidth, 14)
               /\ Fields(s, CMsgWidth, 14) => Fields(s \o U32(1), CMsgWidth, 15)
               /\ Fields(s, CMsgWidth, 15) => Fields(s \o U32(2), CMsgWidth, 17)
               /\ Fields(s, CMsgWidth, 17) => Fields(s \o U32(5), CMsgWidth, 22)
    BY <2>2
  <2> QED
    BY <2>1, <2>3 DEF inet_diag_msg
<1> QED
  BY <1>2, <1>3

LEMMA MsgInPlace ==
    SizeOf(InetDiagMsg) = Offsets(inet_diag_msg, TRUE)[Len(inet_diag_msg)] + 4
<1> DEFINE g == [i \in 1 .. 45 |-> IF i <= 4 THEN i - 1
                                   ELSE IF i <= 6 THEN 4 + 2 * (i - 5)
                                   ELSE IF i <= 39 THEN i + 1
                                   ELSE IF i = 40 THEN 44
                                   ELSE 52 + 4 * (i - 41)]
           c == [i \in 1 .. 22 |-> IF i <= 4 THEN i - 1
                                   ELSE IF i <= 6 THEN 4 + 2 * (i - 5)
                                   ELSE 8 + 4 * (i - 7)]
<1>1. /\ InetDiagMsg \in Seq(Widths) /\ Len(InetDiagMsg) = 45
      /\ \A i \in 1 .. 45 : InetDiagMsg[i] = MsgWidth[i]
  BY MsgStructs DEF Fields
<1>2. /\ inet_diag_msg \in Seq(Widths) /\ Len(inet_diag_msg) = 22
      /\ \A i \in 1 .. 22 : inet_diag_msg[i] = CMsgWidth[i]
  BY MsgStructs DEF Fields
<1>3. Packed(InetDiagMsg, g)
  <2>1. g \in [1 .. 45 -> Nat] /\ g[1] = 0
    OBVIOUS
  <2>2. \A i \in 2 .. 45 : g[i] = g[i - 1] + MsgWidth[i - 1]
    BY DEF MsgWidth, SocketWidth
  <2> HIDE DEF g
  <2>3. \A i \in 1 .. 45 : i # 1 => i \in 2 .. 45 /\ i - 1 \in 1 .. 45
    OBVIOUS
  <2>4. \A i \in 1 .. 45 : g[i] = IF i = 1 THEN 0 ELSE g[i - 1] + InetDiagMsg[i - 1]
    BY <1>1, <2>1, <2>2, <2>3
  <2> QED
    BY <1>1, <2>1, <2>4 DEF Packed
<1>4. Packed(inet_diag_msg, c) /\ OnItsWidth(inet_diag_msg, c)
  <2>1. c \in [1 .. 22 -> Nat] /\ c[1] = 0
    OBVIOUS
  <2>2. \A i \in 2 .. 22 : c[i] = c[i - 1] + CMsgWidth[i - 1]
    BY DEF CMsgWidth
  <2>3. \A i \in 1 .. 22 : c[i] % CMsgWidth[i] = 0
    BY DEF CMsgWidth
  <2> HIDE DEF c
  <2>4. \A i \in 1 .. 22 : i # 1 => i \in 2 .. 22 /\ i - 1 \in 1 .. 22
    OBVIOUS
  <2>5. \A i \in 1 .. 22 : /\ c[i] = IF i = 1 THEN 0 ELSE c[i - 1] + inet_diag_msg[i - 1]
                           /\ c[i] % inet_diag_msg[i] = 0
    BY <1>2, <2>1, <2>2, <2>3, <2>4
  <2> QED
    BY <1>2, <2>1, <2>5 DEF Packed, OnItsWidth
<1>5. g[45] = 68 /\ c[22] = 68 /\ MsgWidth[45] = 4
  BY DEF MsgWidth
<1> HIDE DEF g, c
<1>6. Offsets(InetDiagMsg, FALSE) = g /\ Offsets(inet_diag_msg, TRUE) = c
  BY <1>1, <1>2, <1>3, <1>4, OnWidthsNoPadding
<1>7. InetDiagMsg[45] = 4
  BY <1>1, <1>5
<1> QED
  BY <1>1, <1>2, <1>5, <1>6, <1>7 DEF SizeOf

-----------------------------------------------------------------------------
(* Structures of words, and of half words.                                 *)
LEMMA AloneInPlace ==
    ASSUME NEW struct \in Seq(Widths), NEW g, Packed(struct, g), OnItsWidth(struct, g)
    PROVE  InPlace(struct, struct)
BY OnWidthsNoPadding DEF InPlace

LEMMA OthersInPlace ==
    \A struct \in {NlMsgHdr, Nlattr, MemInfo, SkMemInfo, BBRInfo} : InPlace(struct, struct)
<1>1. ASSUME NEW k \in Nat PROVE InPlace(U32(k), U32(k))
  <2> DEFINE g == [i \in 1 .. k |-> 4 * (i - 1)]
  <2>1. U32(k) \in Seq(Widths) /\ Len(U32(k)) = k /\ \A i \in 1 .. k : U32(k)[i] = 4
    BY DEF U32, Widths
  <2>2. Packed(U32(k), g) /\ OnItsWidth(U32(k), g)
    BY <2>1 DEF Packed, OnItsWidth
  <2> QED
    BY <2>1, <2>2, AloneInPlace
<1>2. InPlace(Nlattr, Nlattr)
  <2> DEFINE g == [i \in 1 .. 2 |-> 2 * (i - 1)]
  <2>1. Nlattr \in Seq(Widths) /\ Len(Nlattr) = 2 /\ \A i \in 1 .. 2 : Nlattr[i] = 2
    BY DEF Nlattr, U16, Widths
  <2>2. Packed(Nlattr, g) /\ OnItsWidth(Nlattr, g)
    BY <2>1 DEF Packed, OnItsWidth
  <2> QED
    BY <2>1, <2>2, AloneInPlace
<1>3. InPlace(NlMsgHdr, NlMsgHdr)
  <2> DEFINE W == [i \in 1 .. 5 |-> IF i \in 2 .. 3 THEN 2 ELSE 4]
             g == [i \in 1 .. 5 |-> IF i = 1 THEN 0 ELSE IF i <= 3 THEN 2 * i ELSE 4 * (i - 2)]
  <2>1. Fields(U32(1), W, 1)
    BY DEF Fields, U32, Widths
  <2>2. ASSUME NEW s, NEW n \in Nat, Fields(s, W, n), NEW k \in Nat, NEW m \in Nat, m = n + k
        PROVE  /\ n = 1 /\ m = 3 => Fields(s \o U16(k), W, m)
               /\ n = 3 /\ m = 5 => Fields(s \o U32(k), W, m)
    <3>1. /\ (\A i \in n + 1 .. m : W[i] = 2) => Fields(s \o U16(k), W, m)
          /\ (\A i \in n + 1 .. m : W[i] = 4) => Fields(s \o U32(k), W, m)
      <4> HIDE DEF W
      <4> QED
        BY <2>2, RunsFollow
    <3> QED
      BY <2>2, <3>1
  <2>3. Fields(NlMsgHdr, W, 5)
    <3> HIDE DEF W
    <3>1. ASSUME NEW s PROVE /\ Fields(s, W, 1) => Fields(s \o U16(2), W, 3)
                             /\ Fields(s, W, 3) => Fields(s \o U32(2), W, 5)
      BY <2>2
    <3> QED
      BY <2>1, <3>1 DEF NlMsgHdr
  <2>4. /\ g \in [1 .. 5 -> Nat] /\ g[1] = 0
        /\ \A i \in 2 .. 5 : g[i] = g[i - 1] + W[i - 1]
        /\ \A i \in 1 .. 5 : g[i] % W[i] = 0
    OBVIOUS
  <2>5. NlMsgHdr \in Seq(Widths)
    BY <2>3 DEF Fields
  <2> HIDE DEF W, g
  <2>6. Packed(NlMsgHdr, g) /\ OnItsWidth(NlMsgHdr, g)
    BY <2>3, <2>4 DEF Packed, OnItsWidth, Fields
  <2> QED
    BY <2>5, <2>6, AloneInPlace
<1>4. \A struct \in {MemInfo, SkMemInfo, BBRInfo} : InPlace(struct, struct)
  BY <1>1 DEF MemInfo, SkMemInfo, BBRInfo
<1> QED
  BY <1>2, <1>3, <1>4

(* Every field of this program's structures is filled from the bytes of    *)
(* the kernel's field, and what follows an inet_diag_msg is read from      *)
(* where the kernel put it: it is enough that each field, one right behind *)
(* the other, begins at a multiple of its width.                           *)
THEOREM StructsAreTheKernels == FieldsInPlace
BY TCPInPlace, MsgInPlace, OthersInPlace DEF FieldsInPlace
=============================================================================
