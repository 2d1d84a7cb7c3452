--------------------------- MODULE InetdiagStructs ---------------------------
(***************************************************************************)
(* The structures of package inetdiag, which binary.Read fills from the    *)
(* bytes of a message: the widths of their fields, in order.  binary.Read  *)
(* takes one field right behind the other, while a C compiler, which laid  *)
(* out what the kernel sends, aligns each field to its width.  Which name  *)
(* a field has is left out.                                                *)
(***************************************************************************)
EXTENDS Integers, SequencesExt

U8(n)  == [i \in 1 .. n |-> 1]
U16(n) == [i \in 1 .. n |-> 2]
U32(n) == [i \in 1 .. n |-> 4]
U64(n) == [i \in 1 .. n |-> 8]

AlignTo(offset, width) == ((offset + width - 1) \div width) * width

(* Where the fields of a structure are, offset[i] that of field i: aligned *)
(* by a C compiler, or not, by binary.Read.                                *)
Offsets(struct, aligned) ==
    LET offset[i \in DOMAIN struct] ==
            LET end == offset[i - 1] + struct[i - 1]
            IN  IF i = 1 THEN 0
                ELSE IF aligned THEN AlignTo(end, struct[i]) ELSE end
    IN  offset

(* binary.Size                                                             *)
SizeOf(struct) == Offsets(struct, FALSE)[Len(struct)] + struct[Len(struct)]

-----------------------------------------------------------------------------
NlMsgHdr == U32(1) \o U16(2) \o U32(2)
SocketID == U16(2) \o U8(16) \o U8(16) \o U32(1) \o U64(1)
InetDiagMsg == U8(4) \o SocketID \o U32(5)
Nlattr == U16(2)
MemInfo == U32(4)
SkMemInfo == U32(9)
BBRInfo == U32(5)

(* Mutant of TCPInfo415: DeliveryRate before the segments of data.         *)
TCPInfo415Swapped ==
    U8(8) \o U32(4) \o U32(5) \o U32(4) \o U32(8) \o U32(2) \o U32(1)
       \o U64(4) \o U32(4) \o U64(1) \o U32(2) \o U64(3)

(* State to flags; rto; unacked; times; metrics; rcvRtt; totalRetrans;     *)
(* pacing rates and bytes; segments to DataSegsOut; DeliveryRate; limits.  *)
TCPInfo415 ==
    U8(8) \o U32(4) \o U32(5) \o U32(4) \o U32(8) \o U32(2) \o U32(1)
       \o U64(4) \o U32(6) \o U64(1) \o U64(3)

(* The same, then Delivered; bytes sent; DsackDups to SndWnd.              *)
TCPInfo54 ==
    U8(8) \o U32(4) \o U32(5) \o U32(4) \o U32(8) \o U32(2) \o U32(1)
       \o U64(4) \o U32(6) \o U64(1) \o U64(3)
       \o U32(2) \o U64(2) \o U32(4)

-----------------------------------------------------------------------------
(* The kernel's structures: struct inet_diag_msg with its inet_diag_sockid *)
(* and struct tcp_info of 5.4, of which that of 4.15 is the first part.    *)
(* Bit fields share a byte.                                                *)
inet_diag_msg == U8(4) \o U16(2) \o U32(4) \o U32(4) \o U32(1) \o U32(2) \o U32(5)

tcp_info ==
    U8(8) \o U32(24) \o U64(4) \o U32(6) \o U64(4) \o U32(2) \o U64(2) \o U32(4)

InPlace(struct, cStruct) ==
    \A i \in DOMAIN struct :
       /\ struct[i] = cStruct[i]
       /\ Offsets(struct, FALSE)[i] = Offsets(cStruct, TRUE)[i]

(* inetdiag.go: "golang versions of the kernel structs": every field that  *)
(* binary.Read fills from a tcp_info of this kernel or a later one, which  *)
(* adds fields at the end, gets the bytes of the kernel's field, and what  *)
(* follows an inet_diag_msg is read from where the kernel put it, though   *)
(* neither padding nor offsets are written down anywhere.                  *)
FieldsInPlace ==
    /\ InPlace(TCPInfo415, tcp_info)
    /\ InPlace(TCPInfo54, tcp_info)
    /\ Len(TCPInfo54) = Len(tcp_info)
    /\ SizeOf(InetDiagMsg)
          = Offsets(inet_diag_msg, TRUE)[Len(inet_diag_msg)] + 4
    /\ \A struct \in {NlMsgHdr, Nlattr, MemInfo, SkMemInfo, BBRInfo} :
          InPlace(struct, struct)
=============================================================================
