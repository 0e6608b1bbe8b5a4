----------------------------- MODULE PacketBuffer -----------------------------
(***************************************************************************)
(* LPacketBase: one object the sender fills (Add, SetPacketID,             *)
(* MakeCRC32CodeToPacket) and one the receiver uses for every packet it    *)
(* gets (DirectSetData, Get, GetPacketID, CheckCRC32Code).  The buffer     *)
(* begins with a 2-byte length that counts itself; numbers are put behind  *)
(* each other in network order.  An error code stays until Reset, and the  *)
(* calls after an error still do their work.                               *)
(*                                                                         *)
(* A byte is the name of the field it belongs to and its place in it.  Of  *)
(* the value of a field the model keeps whether 32 bits hold it.  Bytes    *)
(* behind the length are left out: they are written again before a longer  *)
(* length shows them.  Buffers have 2 bytes and more, no pointer is NULL.  *)
(***************************************************************************)
EXTENDS Integers, Sequences

CONSTANTS
  OutBufLen,   \* m_usPacketBufLen of the sender's object
  InBufLen,    \* and of the receiver's
  Kinds,       \* kinds of numbers in use
  MaxFields,   \* bound: fields the sender adds to one packet
  MaxReads     \* bound: reads between two packets

ASSUME PacketBufferAssumption ==
  /\ OutBufLen \in Nat \ {0, 1} /\ InBufLen \in Nat \ {0, 1}
  /\ Kinds \subseteq {"char", "short", "int", "long", "longlong"}
  /\ MaxFields \in Nat /\ MaxReads \in Nat

VARIABLES
  outBytes, outError,         \* the sender's object: the bytes behind the length
  added,     \* fields added since Reset: kind and value
  stamped,   \* SetPacketID wrote over a field
  covered,   \* what the CRC of this packet was computed from, or "none"
  inBytes, inError, readPos,  \* the receiver's object
  delivered, \* history: what the sender's object held at DirectSetData
  reads,     \* history: what was read since then, failed reads included
  cleanRead  \* history: the receiver called Reset before that DirectSetData
outPacket  == <<outBytes, outError, added, stamped, covered>>
inPacket   == <<inBytes, inError, readPos, delivered, reads, cleanRead>>
packetVars == <<outPacket, inPacket>>

-----------------------------------------------------------------------------
(* Values, bytes and fields.                                                *)

Width == [char |-> 1, short |-> 2, int |-> 4, long |-> 8, longlong |-> 8]

\* "wide": negative, or 2^32 and more.
ValueOf(kind) == IF Width[kind] = 8 THEN {"low", "wide"} ELSE {"low"}

\* AddLong and GetLong convert by htonl and ntohl, which cut to 32 bits.
Through(kind, value) == IF kind = "long" THEN "low" ELSE value

Bytes(name, n) == [k \in 1 .. n |-> <<name, k>>]
Zero == <<0, 1>>
IdName == -1
CrcName == -2

\* The length in front of the bytes.
LengthOf(buf) == 2 + Len(buf)

\* n bytes from offset at on, counted from the length's first byte.
Part(buf, at, n) ==
  [k \in 1 .. n |-> IF at + k - 2 \in DOMAIN buf THEN buf[at + k - 2] ELSE Zero]

NoPacket == [fields |-> <<>>, stamped |-> FALSE, sealed |-> FALSE,
             ok |-> FALSE, covered |-> <<>>]
Unsealed == <<>>

PacketInit ==
  /\ outBytes = <<>> /\ outError = FALSE
  /\ added = <<>> /\ stamped = FALSE /\ covered = Unsealed
  /\ inBytes = <<>> /\ inError = FALSE /\ readPos = 2
  /\ delivered = NoPacket /\ reads = <<>> /\ cleanRead = TRUE

-----------------------------------------------------------------------------
(* The sender.                                                              *)

ResetOut ==
  /\ outBytes' = <<>> /\ outError' = FALSE
  /\ added' = <<>> /\ stamped' = FALSE /\ covered' = Unsealed
  /\ UNCHANGED inPacket

CheckHaveEnoughBuf(n) == LengthOf(outBytes) + n <= OutBufLen

\* A field that does not fit is left out; a narrower one after it may fit.
Add(kind) ==
  /\ Len(added) < MaxFields
  /\ \E value \in ValueOf(kind) :
       IF CheckHaveEnoughBuf(Width[kind])
         THEN /\ added' = Append(added, [kind |-> kind, value |-> value])
              /\ outBytes' = outBytes \o Bytes(Len(added'), Width[kind])
              /\ UNCHANGED outError
         ELSE outError' = TRUE /\ UNCHANGED <<added, outBytes>>
  /\ UNCHANGED <<stamped, covered, inPacket>>

\* The id is written behind the length, and the length does not grow: an id
\* set before the fields is written over by them.
SetPacketID ==
  /\ IF OutBufLen < 6 THEN outError' = TRUE /\ UNCHANGED <<outBytes, stamped>>
     ELSE /\ outBytes' = [i \in DOMAIN outBytes |-> IF i <= 4 THEN <<IdName, i>>
                                                            ELSE outBytes[i]]
          /\ stamped' = (stamped \/ outBytes # <<>>)
          /\ UNCHANGED outError
  /\ UNCHANGED <<added, covered, inPacket>>

\* sizeof(unsigned long) bytes, made from the new length and all that was
\* there.  Called once per packet; without room it returns -1.
MakeCRC32CodeToPacket ==
  /\ LengthOf(outBytes) + 8 <= OutBufLen /\ covered = Unsealed
  /\ covered' = <<LengthOf(outBytes) + 8>> \o outBytes
  /\ outBytes' = outBytes \o Bytes(CrcName, 8)
  /\ UNCHANGED <<outError, added, stamped, inPacket>>

-----------------------------------------------------------------------------
(* The receiver.                                                            *)

ResetIn ==
  /\ inBytes' = <<>> /\ inError' = FALSE /\ readPos' = 2
  /\ delivered' = NoPacket /\ reads' = <<>> /\ cleanRead' = TRUE
  /\ UNCHANGED outPacket

\* The data replace the old ones; the read position and the error code stay.
DirectSetData ==
  /\ IF Len(outBytes) > InBufLen - 2
       THEN inError' = TRUE /\ UNCHANGED <<inBytes, delivered, reads, cleanRead>>
       ELSE /\ inBytes' = outBytes
            /\ delivered' = [fields |-> added, stamped |-> stamped, ok |-> TRUE,
                             sealed |-> covered # Unsealed /\ Len(outBytes) = Len(covered) + 7,
                             covered |-> covered]
            /\ reads' = <<>>
            /\ cleanRead' = (readPos = 2 /\ ~inError)
            /\ UNCHANGED inError
  /\ UNCHANGED <<readPos, outPacket>>

\* Mutant of CheckHaveEnoughData: a field that ends the packet is refused.
CheckHaveEnoughDataStrict(n) == LengthOf(inBytes) > readPos + n

CheckHaveEnoughData(n) == LengthOf(inBytes) >= readPos + n

\* The number the bytes give: that of the field they are, or a mixture.
ReadBack(kind, bytes) ==
  LET name == bytes[1][1]
      whole == name \in DOMAIN delivered.fields /\ bytes = Bytes(name, Width[kind])
  IN  [kind |-> kind, field |-> IF whole THEN name ELSE 0,
       value |-> IF whole THEN Through(kind, delivered.fields[name].value) ELSE "mixed"]

\* A read that fails returns a number all the same, and sets the error code.
NoField(kind) == [kind |-> kind, field |-> 0, value |-> "none"]
Get(kind) ==
  /\ Len(reads) < MaxReads
  /\ IF CheckHaveEnoughData(Width[kind])
       THEN /\ reads' = Append(reads, ReadBack(kind, Part(inBytes, readPos, Width[kind])))
            /\ readPos' = readPos + Width[kind]
            /\ UNCHANGED inError
       ELSE /\ reads' = Append(reads, NoField(kind))
            /\ inError' = TRUE /\ UNCHANGED readPos
  /\ UNCHANGED <<inBytes, delivered, cleanRead, outPacket>>

\* A packet shorter than an id is an error; a longer one is not changed.
GetPacketID ==
  /\ LengthOf(inBytes) < 6
  /\ inError' = TRUE
  /\ UNCHANGED <<inBytes, readPos, delivered, reads, cleanRead, outPacket>>

\* The last 8 bytes are the code made from all that is before them.
CheckCRC32Code ==
  /\ Len(inBytes) >= 8
  /\ Part(inBytes, LengthOf(inBytes) - 8, 8) = Bytes(CrcName, 8)
  /\ <<LengthOf(inBytes)>> \o Part(inBytes, 2, Len(inBytes) - 8) = delivered.covered

-----------------------------------------------------------------------------
PacketNext ==
  \/ ResetOut \/ SetPacketID \/ MakeCRC32CodeToPacket
  \/ ResetIn \/ DirectSetData \/ GetPacketID
  \/ \E kind \in Kinds : Add(kind) \/ Get(kind)

PacketSpec == PacketInit /\ [][PacketNext]_packetVars
-----------------------------------------------------------------------------
(* Properties.                                                              *)

\* LPacketBase.cpp:505: a receiver that cleared its object before it set the
\* data, and reads the kinds the sender added, gets every field: no read of a
\* field that is left fails, and each has its place and its value (a long only
\* if 32 bits hold it).  A read behind the last field fails or gives bytes of the
\* CRC, and the CRC verifies.  Excepted are an id written over the fields and
\* fields put behind the CRC.
ReadsKinds ==
  /\ delivered.ok /\ cleanRead
  /\ \A i \in 1 .. Len(reads) :
       i <= Len(delivered.fields) => reads[i].kind = delivered.fields[i].kind
DeliveredIntact ==
  /\ ReadsKinds /\ ~delivered.stamped
       /\ (delivered.covered = Unsealed \/ delivered.sealed) =>
       \A i \in 1 .. Len(reads) :
         IF i <= Len(delivered.fields)
           THEN /\ reads[i].field = i
                /\ \/ reads[i].value = delivered.fields[i].value
                   \/ reads[i].kind = "long" /\ delivered.fields[i].value = "wide"
           ELSE delivered.sealed \/ reads[i].value = "none"
  /\ delivered.sealed => CheckCRC32Code \/ delivered.stamped
=============================================================================
