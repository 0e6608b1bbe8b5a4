------------------------------- MODULE FixLenRing -------------------------------
(***************************************************************************)
(* LFixLenCircleBuf: the ring every pair of threads of the engine talks    *)
(* through without a lock.  One producer, one consumer; each takes a       *)
(* snapshot of the two indexes, moves items with one memmove per piece,    *)
(* and only then publishes its own index.  Every memmove and every publish *)
(* is a step.  Indexes that are equal mean empty, so one place stays free. *)
(***************************************************************************)
EXTENDS Integers, Sequences

CONSTANTS
  Cap,        \* m_sMaxItemCount
  Items,      \* what a place can hold
  MaxBatch,   \* bound: items in one call of the producer
  PrefixLen   \* sizeof(unsigned short), in items

ASSUME RingAssumption ==
  /\ Cap \in Nat \ {0} /\ MaxBatch \in Nat /\ PrefixLen \in Nat \ {0}
  /\ Items # {}

VARIABLES
  buf,         \* m_pbuf
  readIndex,   \* m_ReadIndex
  writeIndex,  \* m_WriteIndex
  prod,        \* the producer's call: the pieces it still has to write
  cons,        \* the consumer's call: the pieces it still has to read
  delivered    \* the items of the consumer's last published piece

ringVars == <<buf, readIndex, writeIndex, prod, cons, delivered>>

Places == 0 .. Cap - 1
NoCall == [pc |-> "idle", todo |-> <<>>, batch |-> <<>>, next |-> 0]
NoTake == [pc |-> "idle", todo |-> <<>>, got |-> <<>>]

\* The len items from the place at on.
Content(at, len) == [i \in 1 .. len |-> buf[at + i - 1]]

RingInit ==
  /\ buf \in [Places -> Items]       \* new char[]: whatever the heap held
  /\ readIndex = 0 /\ writeIndex = 0
  /\ prod = NoCall /\ cons = NoTake
  /\ delivered = <<>>

-----------------------------------------------------------------------------
(* The producer.                                                            *)

\* Mutant of Free: the case that the free places lie between the indexes is
\* forgotten.
FreeAroundTheEnd(r, w) == Cap + r - w

Free(r, w) == IF w < r THEN r - w ELSE Cap + r - w

\* Mutant of Fits: the place that tells full from empty is handed out too.
FitsToTheBrim(r, w, n) == Free(r, w) >= n

Fits(r, w, n) == Free(r, w) > 1 /\ Free(r, w) - 1 >= n

\* A memmove of len items, those behind the first `from` of the batch, to at.
Piece(at, from, len) == [at |-> at, from |-> from, len |-> len]

\* AddItems: one memmove, or two when the batch runs over the end.
ItemPieces(r, w, n) ==
  IF w < r \/ w + n <= Cap
    THEN <<Piece(w, 0, n)>>
    ELSE <<Piece(w, 0, Cap - w), Piece(0, Cap - w, n - (Cap - w))>>

\* AddDataToFixCirclebufForItemSizeOneByte: the length prefix, then n items of
\* data; the end of the buffer falls behind both, into the data, between the
\* two, or into the prefix.
PrefixedPieces(r, w, n) ==
  LET toEnd == Cap - w
      data  == PrefixLen
  IN  IF w < r \/ PrefixLen + n <= toEnd
        THEN <<Piece(w, 0, PrefixLen), Piece(w + PrefixLen, data, n)>>
      ELSE IF toEnd > PrefixLen
        THEN <<Piece(w, 0, PrefixLen),
               Piece(w + PrefixLen, data, toEnd - PrefixLen),
               Piece(0, toEnd, n - (toEnd - PrefixLen))>>
      ELSE IF toEnd = PrefixLen
        THEN <<Piece(w, 0, PrefixLen), Piece(0, data, n)>>
      ELSE <<Piece(w, 0, toEnd), Piece(0, toEnd, PrefixLen - toEnd),
             Piece(PrefixLen - toEnd, data, n)>>

\* Mutant of NextWrite: the index that reaches the end exactly is not reset.
NextWriteKeepingEnd(r, w, n) == IF w < r \/ w + n <= Cap THEN w + n ELSE w + n - Cap

\* The index the producer publishes after n items.
NextWrite(r, w, n) == IF w < r \/ w + n < Cap THEN w + n ELSE w + n - Cap

\* A call that does not fit returns Can_Not_Contain_Data and changes nothing.
Call(todo, batch) ==
  /\ prod.pc = "idle"
  /\ Fits(readIndex, writeIndex, Len(batch))
  /\ prod' = [pc |-> "copy", todo |-> todo, batch |-> batch,
              next |-> NextWrite(readIndex, writeIndex, Len(batch))]
  /\ UNCHANGED <<buf, readIndex, writeIndex, cons, delivered>>

AddItems ==
  \E n \in 1 .. MaxBatch : \E batch \in [1 .. n -> Items] :
    Call(ItemPieces(readIndex, writeIndex, n), batch)

AddDataToFixCirclebufForItemSizeOneByte ==
  \E n \in 1 .. MaxBatch : \E batch \in [1 .. PrefixLen + n -> Items] :
    Call(PrefixedPieces(readIndex, writeIndex, n), batch)

Covers(p, c) == p.at <= c /\ c < p.at + p.len

\* One memmove of the producer.
CopyIn ==
  /\ prod.pc = "copy"
  /\ LET p == Head(prod.todo)
     IN  buf' = [c \in Places |->
                  IF Covers(p, c) THEN prod.batch[p.from + c - p.at + 1] ELSE buf[c]]
  /\ prod' = [prod EXCEPT !.pc = IF Len(prod.todo) = 1 THEN "publish" ELSE "copy",
                          !.todo = Tail(@)]
  /\ UNCHANGED <<readIndex, writeIndex, cons, delivered>>

PublishWrite ==
  /\ prod.pc = "publish"
  /\ writeIndex' = prod.next
  /\ prod' = NoCall
  /\ UNCHANGED <<buf, readIndex, cons, delivered>>

-----------------------------------------------------------------------------
(* The consumer.                                                            *)

Cut(at, len, next) == [at |-> at, len |-> len, next |-> next]
Wrap(i) == IF i = Cap THEN 0 ELSE i

\* GetOneItem
OneCut(r, w) == <<Cut(r, 1, Wrap(r + 1))>>

\* RequestItems: at most n items, and none beyond the end of the buffer.
RequestCuts(r, w, n) ==
  LET run == IF r < w THEN w - r ELSE Cap - r
      len == IF run <= n THEN run ELSE n
  IN  <<Cut(r, len, Wrap(r + len))>>

\* CopyAllItemsToOtherFixLenCircleBuf, and LSession::SendDataInFixCircleSendBuf
\* with GetCurrentReadAndWriteIndex and SetReadIndex: everything there was at
\* the snapshot, the run up to the end first.
AllCuts(r, w) ==
  IF r < w THEN <<Cut(r, w - r, w)>>
  ELSE IF w = 0 THEN <<Cut(r, Cap - r, 0)>>
  ELSE <<Cut(r, Cap - r, 0), Cut(0, w, w)>>

Take(todo) ==
  /\ cons.pc = "idle" /\ readIndex # writeIndex
  /\ cons' = [pc |-> "copy", todo |-> todo, got |-> <<>>]
  /\ UNCHANGED <<buf, readIndex, writeIndex, prod, delivered>>

GetOneItem == Take(OneCut(readIndex, writeIndex))
CopyAllItems == Take(AllCuts(readIndex, writeIndex))
RequestItems ==
  \E n \in 1 .. MaxBatch : Take(RequestCuts(readIndex, writeIndex, n))

CopyOut ==
  /\ cons.pc = "copy"
  /\ LET c == Head(cons.todo)
     IN  cons' = [cons EXCEPT !.pc = "publish", !.got = Content(c.at, c.len)]
  /\ UNCHANGED <<buf, readIndex, writeIndex, prod, delivered>>

PublishRead ==
  /\ cons.pc = "publish"
  /\ readIndex' = Head(cons.todo).next
  /\ delivered' = cons.got
  /\ cons' = IF Len(cons.todo) = 1 THEN NoTake
             ELSE [pc |-> "copy", todo |-> Tail(cons.todo), got |-> <<>>]
  /\ UNCHANGED <<buf, writeIndex, prod>>

\* The other ring has no room, or send() failed: the items stay.
LeaveItems ==
  /\ cons.pc = "copy"
  /\ cons' = NoTake
  /\ UNCHANGED <<buf, readIndex, writeIndex, prod, delivered>>

\* ClearContent, called by LSession::Reset while no thread uses the session.
ClearContent ==
  /\ prod.pc = "idle" /\ cons.pc = "idle"
  /\ readIndex' = 0 /\ writeIndex' = 0
  /\ UNCHANGED <<buf, prod, cons, delivered>>

RingNext ==
  \/ AddItems \/ AddDataToFixCirclebufForItemSizeOneByte \/ CopyIn \/ PublishWrite
  \/ GetOneItem \/ RequestItems \/ CopyAllItems \/ CopyOut \/ PublishRead \/ LeaveItems
  \/ ClearContent

RingSpec == RingInit /\ [][RingNext]_ringVars
-----------------------------------------------------------------------------
(* Properties.                                                              *)

\* The items between the two indexes, oldest first.
Count == IF readIndex <= writeIndex THEN writeIndex - readIndex
         ELSE Cap - readIndex + writeIndex

Place(i) == IF readIndex + i < Cap THEN readIndex + i ELSE readIndex + i - Cap

Queue == [i \in 1 .. Count |-> buf[Place(i - 1)]]

Phases == {"idle", "copy", "publish"}
Pieces == Seq([at : Places, from : Nat, len : Nat \ {0}])
Cuts   == Seq([at : Places, len : Nat \ {0}, next : Places])

\* The published indexes never leave the buffer, nor does any piece's start.
TypeOK ==
  /\ buf \in [Places -> Items]
  /\ readIndex \in Places /\ writeIndex \in Places
  /\ delivered \in Seq(Items)
  /\ prod \in [pc : Phases, todo : Pieces, batch : Seq(Items), next : Places]
  /\ cons \in [pc : Phases, todo : Cuts, got : Seq(Items)]

Live(c) == \E i \in 0 .. Count - 1 : c = Place(i)

\* Between the snapshot and the publish of one side the other side never
\* touches the places it moves: the producer writes places that are not
\* readable yet, the consumer reads places that are not writable yet, and no
\* memmove of either crosses the end of the buffer.
Apart ==
  /\ \A j \in 1 .. Len(prod.todo) : \A i \in 0 .. prod.todo[j].len - 1 :
       prod.todo[j].at + i \in Places /\ ~Live(prod.todo[j].at + i)
  /\ \A j \in 1 .. Len(cons.todo) : \A i \in 0 .. cons.todo[j].len - 1 :
       cons.todo[j].at + i \in Places /\ Live(cons.todo[j].at + i)

Abstract == INSTANCE BoundedQueue WITH
  Items <- Items, Capacity <- Cap - 1, queue <- Queue, delivered <- delivered

\* With one producer and one consumer the ring is a bounded queue: nothing is
\* lost, repeated, reordered or half visible, whatever the interleaving and
\* wherever a batch or its length prefix crosses the end of the buffer.
ImplementsBoundedQueue == Abstract!Spec
=============================================================================
