------------------------------- MODULE VarLenRing -------------------------------
(***************************************************************************)
(* LVarLenCircleBuf: the ring of packets that the accept, receive and      *)
(* close threads fill for the main thread.  A packet is a header, which    *)
(* holds the length of the whole, then an optional session id, then data;  *)
(* the end of the buffer may fall anywhere in it.  One producer, one       *)
(* consumer, no lock: every memmove and every publish is a step.           *)
(***************************************************************************)
EXTENDS Integers, Sequences

CONSTANTS
  Cap,         \* m_unTotalBufLen
  HeadLen,     \* sizeof(unsigned int)
  IdLen,       \* sizeof(uint64_t)
  MaxData,     \* bound: bytes of data in one packet
  Data,        \* what the data of a packet can be
  SessionIDs   \* the session ids that are not 0

ASSUME VarLenAssumption ==
  /\ {Cap, HeadLen, IdLen} \subseteq Nat \ {0}
  /\ MaxData \in Nat

VARIABLES
  buf,         \* m_pbuf
  readIndex,   \* m_ReadIndex
  writeIndex,  \* m_WriteIndex
  prod,        \* the producer's call: the packet, and the pieces yet to write
  cons,        \* the consumer's call: bytes so far, and the pieces yet to read
  delivered    \* what the last GetData returned

vars == <<buf, readIndex, writeIndex, prod, cons, delivered>>

Places == 0 .. Cap - 1

\* n bytes of a header, an id or data; a byte is known by what it is part of.
Bytes(kind, of, n) == [i \in 1 .. n |-> [kind |-> kind, of |-> of, part |-> i]]

HeadOf(total) == Bytes("head", total, HeadLen)

\* A place that new char[] left as it was.
Unwritten == [kind |-> "none", of |-> 0, part |-> 0]

NoCall == [pc |-> "idle", todo |-> <<>>, packet |-> <<>>]
NoTake == [pc |-> "idle", todo |-> <<>>, count |-> 0, got |-> <<>>, next |-> 0]

Init ==
  /\ buf = [c \in Places |-> Unwritten]
  /\ readIndex = 0 /\ writeIndex = 0
  /\ prod = NoCall /\ cons = NoTake
  /\ delivered = <<>>

At(i) == IF i < Cap THEN i ELSE i - Cap

-----------------------------------------------------------------------------
(* The producer.                                                            *)

Free(r, w) == IF w < r THEN r - w ELSE Cap + r - w

\* Mutant of Fits: the place that tells full from empty is used too.
FitsEveryPlace(r, w, total) == total < Cap /\ Free(r, w) >= total

Fits(r, w, total) == total < Cap /\ Free(r, w) > 1 /\ Free(r, w) - 1 >= total

\* The lengths of the memmoves of AddData for n bytes of data: straight, the
\* end of the buffer in the data, just behind the header, or in the header.
DataCut(r, w, n) ==
  LET toEnd == Cap - w
  IN  IF w < r \/ HeadLen + n <= toEnd \/ toEnd = HeadLen
        THEN <<HeadLen, n>>
      ELSE IF toEnd > HeadLen
        THEN <<HeadLen, toEnd - HeadLen, n - (toEnd - HeadLen)>>
      ELSE <<toEnd, HeadLen - toEnd, n>>

\* Mutant of IdCut: the header is always written in one piece.
IdCutWholeHeader(r, w, n) ==
  LET toEnd == Cap - w
  IN  IF w < r \/ HeadLen + IdLen + n <= toEnd
        THEN <<HeadLen, IdLen, n>>
      ELSE IF toEnd >= HeadLen + IdLen
        THEN <<HeadLen, IdLen, toEnd - HeadLen - IdLen,
               n - (toEnd - HeadLen - IdLen)>>
      ELSE IF toEnd >= HeadLen
        THEN <<HeadLen, toEnd - HeadLen, IdLen - (toEnd - HeadLen), n>>
      ELSE <<HeadLen, IdLen, n>>

\* AddSessionIDAndData likewise: the end in the data, in the id, or in the
\* header.
IdCut(r, w, n) ==
  LET toEnd == Cap - w
  IN  IF w < r \/ HeadLen + IdLen + n <= toEnd
        THEN <<HeadLen, IdLen, n>>
      ELSE IF toEnd >= HeadLen + IdLen
        THEN <<HeadLen, IdLen, toEnd - HeadLen - IdLen,
               n - (toEnd - HeadLen - IdLen)>>
      ELSE IF toEnd >= HeadLen
        THEN <<HeadLen, toEnd - HeadLen, IdLen - (toEnd - HeadLen), n>>
      ELSE <<toEnd, HeadLen - toEnd, IdLen, n>>

\* The memmoves: each starts where the one before ended, or at 0 when that was
\* the end of the buffer.
Pieces(w, lens) ==
  LET from[j \in 1 .. Len(lens)] == IF j = 1 THEN 0 ELSE from[j - 1] + lens[j - 1]
  IN  [j \in 1 .. Len(lens) |->
         [at |-> At(w + from[j]), from |-> from[j], len |-> lens[j]]]

\* A packet that does not fit is refused and nothing changes.
Call(lens, payload) ==
  LET total == HeadLen + Len(payload)
  IN  /\ prod.pc = "idle"
      /\ Fits(readIndex, writeIndex, total)
      /\ prod' = [pc |-> "copy", todo |-> Pieces(writeIndex, lens),
                  packet |-> HeadOf(total) \o payload]
      /\ UNCHANGED <<buf, readIndex, writeIndex, cons, delivered>>

AddData ==
  \E n \in 1 .. MaxData, d \in Data :
    Call(DataCut(readIndex, writeIndex, n), Bytes("data", d, n))

AddSessionIDAndData ==
  \E n \in 1 .. MaxData, d \in Data, id \in SessionIDs :
    Call(IdCut(readIndex, writeIndex, n),
         Bytes("id", id, IdLen) \o Bytes("data", d, n))

Covers(p, c) == p.at <= c /\ c < p.at + p.len

\* One memmove of the producer.
CopyIn ==
  /\ prod.pc = "copy"
  /\ LET p == Head(prod.todo)
     IN  buf' = [c \in Places |->
                  IF Covers(p, c) THEN prod.packet[p.from + c - p.at + 1] ELSE buf[c]]
  /\ prod' = [prod EXCEPT !.pc = IF Len(prod.todo) = 1 THEN "publish" ELSE "copy",
                          !.todo = Tail(@)]
  /\ UNCHANGED <<readIndex, writeIndex, cons, delivered>>

PublishWrite ==
  /\ prod.pc = "publish"
  /\ writeIndex' = At(writeIndex + Len(prod.packet))
  /\ prod' = NoCall
  /\ UNCHANGED <<buf, readIndex, cons, delivered>>

-----------------------------------------------------------------------------
(* The consumer: GetData.                                                   *)

\* The bytes between the two indexes.
Count == IF readIndex <= writeIndex THEN writeIndex - readIndex
         ELSE Cap + writeIndex - readIndex

Cut(at, len) == [at |-> at, len |-> len]

\* The header in one piece, or in two around the end of the buffer.
HeadCuts(r) ==
  LET toEnd == Cap - r
  IN  IF toEnd >= HeadLen THEN <<Cut(r, HeadLen)>>
      ELSE <<Cut(r, toEnd), Cut(0, HeadLen - toEnd)>>

\* What follows the header of a packet of `total` bytes.
BodyCuts(r, total) ==
  LET toEnd == Cap - r
  IN  IF toEnd >= total THEN <<Cut(r + HeadLen, total - HeadLen)>>
      ELSE IF toEnd >= HeadLen
        THEN <<Cut(r + HeadLen, toEnd - HeadLen), Cut(0, total - toEnd)>>
      ELSE <<Cut(HeadLen - toEnd, total - HeadLen)>>

\* The snapshot; a header or less is E_Circle_Buf_Fatal_Error.
GetData ==
  /\ cons.pc = "idle" /\ readIndex # writeIndex
  /\ cons' = IF Count <= HeadLen
               THEN [NoTake EXCEPT !.pc = "fatal"]
               ELSE [NoTake EXCEPT !.pc = "head", !.todo = HeadCuts(readIndex),
                                   !.count = Count]
  /\ UNCHANGED <<buf, readIndex, writeIndex, prod, delivered>>

\* One read of the consumer.
CopyOut ==
  /\ cons.pc \in {"head", "body"} /\ cons.todo # <<>>
  /\ LET c == Head(cons.todo)
     IN  cons' = [cons EXCEPT
                    !.got = @ \o [i \in 1 .. c.len |-> buf[c.at + i - 1]],
                    !.todo = Tail(@)]
  /\ UNCHANGED <<buf, readIndex, writeIndex, prod, delivered>>

\* Mutant of ReadLength: the header is not counted when the index moves on.
ReadLengthSkippingData ==
  /\ cons.pc = "head" /\ cons.todo = <<>>
  /\ LET lengths == {total \in HeadLen + 1 .. cons.count : cons.got = HeadOf(total)}
     IN  IF lengths = {}
           THEN cons' = [NoTake EXCEPT !.pc = "fatal"]
           ELSE \E total \in lengths :
                  cons' = [cons EXCEPT !.pc = "body", !.got = <<>>,
                                       !.todo = BodyCuts(readIndex, total),
                                       !.next = At(readIndex + total - HeadLen)]
  /\ UNCHANGED <<buf, readIndex, writeIndex, prod, delivered>>

\* The length in the header decides how much to copy; a length that cannot be
\* is E_Circle_Buf_Fatal_Error as well.
ReadLength ==
  /\ cons.pc = "head" /\ cons.todo = <<>>
  /\ LET lengths == {total \in HeadLen + 1 .. cons.count : cons.got = HeadOf(total)}
     IN  IF lengths = {}
           THEN cons' = [NoTake EXCEPT !.pc = "fatal"]
           ELSE \E total \in lengths :
                  cons' = [cons EXCEPT !.pc = "body", !.got = <<>>,
                                       !.todo = BodyCuts(readIndex, total),
                                       !.next = At(readIndex + total)]
  /\ UNCHANGED <<buf, readIndex, writeIndex, prod, delivered>>

PublishRead ==
  /\ cons.pc = "body" /\ cons.todo = <<>>
  /\ readIndex' = cons.next
  /\ delivered' = cons.got
  /\ cons' = NoTake
  /\ UNCHANGED <<buf, writeIndex, prod>>

Next ==
  \/ AddData \/ AddSessionIDAndData \/ CopyIn \/ PublishWrite
  \/ GetData \/ CopyOut \/ ReadLength \/ PublishRead

Spec == Init /\ [][Next]_vars
-----------------------------------------------------------------------------
(* Properties.                                                              *)

Readable(c) == \E i \in 0 .. Count - 1 : c = At(readIndex + i)

\* The producer writes places that are not readable, the consumer reads places
\* that are, and no memmove of either crosses the end of the buffer.
Apart ==
  /\ \A j \in 1 .. Len(prod.todo) : \A i \in 0 .. prod.todo[j].len - 1 :
       prod.todo[j].at + i \in Places /\ ~Readable(prod.todo[j].at + i)
  /\ \A j \in 1 .. Len(cons.todo) : \A i \in 0 .. cons.todo[j].len - 1 :
       cons.todo[j].at + i \in Places /\ Readable(cons.todo[j].at + i)

\* LVarLenCircleBuf.cpp:387: GetData never meets E_Circle_Buf_Fatal_Error; the
\* main thread could not get past it.
NeverFatal == cons.pc # "fatal"

\* The packets between the indexes, read from the bytes alone.
LengthsAt(i) ==
  {total \in HeadLen + 1 .. Count - i :
     \A k \in 1 .. HeadLen : buf[At(readIndex + i + k - 1)] = HeadOf(total)[k]}

BodyAt(i, total) ==
  [k \in 1 .. total - HeadLen |-> buf[At(readIndex + i + HeadLen + k - 1)]]

Queue ==
  LET from[i \in 0 .. Count] ==
        IF i = Count THEN <<>>
        ELSE IF LengthsAt(i) = {} THEN << <<>> >>
        ELSE LET total == CHOOSE t \in LengthsAt(i) : TRUE
             IN  <<BodyAt(i, total)>> \o from[i + total]
  IN  from[0]

DataParts == {Bytes("data", d, n) : n \in 1 .. MaxData, d \in Data}

Payloads == DataParts \union {Bytes("id", id, IdLen) \o p : id \in SessionIDs, p \in DataParts}

Abstract == INSTANCE PacketQueue WITH
  Packets <- Payloads, queue <- Queue, delivered <- delivered

\* The bytes in the ring are a queue of packets: none is lost, cut, repeated,
\* reordered or half visible, wherever the end of the buffer falls in it.
ImplementsPacketQueue == Abstract!Spec
=============================================================================
