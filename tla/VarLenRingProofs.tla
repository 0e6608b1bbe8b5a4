---------------------------- MODULE VarLenRingProofs ----------------------------
(***************************************************************************)
(* The ring of packets for every capacity, header, id and packet size: the *)
(* two sides stay apart, GetData never fails, and every publish hands over *)
(* exactly one packet, first in, first out.                                *)
(*                                                                         *)
(* The state does not say where the packets in the ring begin.  The proof  *)
(* rests on the offsets at which packets end: the header that stands at    *)
(* one of them leads to the next.                                          *)
(***************************************************************************)
EXTENDS VarLenRing, SequenceTheorems, WellFoundedInduction, TLAPS

AllBytes == [kind : {"none", "head", "id", "data"}, of : Nat \union Data \union SessionIDs,
             part : Nat]

\* The header of a packet of `total` bytes stands at the offset i.
HeadAt(i, total) ==
  \A k \in 1 .. HeadLen : buf[At(readIndex + i + k - 1)] = HeadOf(total)[k]

\* The n packets in the ring end at the offsets s[1], s[2] and so on.
Ends(n, s) ==
  /\ s[0] = 0 /\ s[n] = Count
  /\ \A k \in 1 .. n : /\ s[k - 1] + HeadLen < s[k] /\ s[k] <= Count
                       /\ HeadAt(s[k - 1], s[k] - s[k - 1])

\* The bytes between the indexes are packets, one behind the other.
Framed == \E n \in Nat : \E s \in [0 .. n -> Nat] : Ends(n, s)

CutSet == [at : Nat, len : Nat]

RingType ==
  /\ buf \in [Places -> AllBytes]
  /\ readIndex \in Places /\ writeIndex \in Places
  /\ \/ prod = NoCall
     \/ prod \in [pc : {"copy", "publish"},
                  todo : Seq([at : Places, from : Nat, len : Nat]), packet : Seq(AllBytes)]
  /\ \/ cons = NoTake
     \/ cons = [NoTake EXCEPT !.pc = "fatal"]
     \/ cons \in [pc : {"head", "body"}, todo : Seq(CutSet), count : Nat,
                  got : Seq(AllBytes), next : Nat]

\* Where the piece j of the producer ends in the packet.
PieceEnd(j) == IF j = Len(prod.todo) THEN Len(prod.packet) ELSE prod.todo[j + 1].from

Done == IF prod.todo = <<>> THEN Len(prod.packet) ELSE prod.todo[1].from

\* A producer's call writes its packet behind the write index, piece by piece,
\* into places that are free.
ProdInv ==
  prod # NoCall =>
    /\ Len(prod.packet) > HeadLen
    /\ Count + Len(prod.packet) < Cap
    /\ \A k \in 1 .. HeadLen : prod.packet[k] = HeadOf(Len(prod.packet))[k]
    /\ prod.pc = "publish" <=> prod.todo = <<>>
    /\ \A j \in 1 .. Len(prod.todo) :
         /\ prod.todo[j].at = At(writeIndex + prod.todo[j].from)
         /\ prod.todo[j].at + prod.todo[j].len <= Cap
         /\ prod.todo[j].from + prod.todo[j].len = PieceEnd(j)
         /\ PieceEnd(j) <= Len(prod.packet)
    /\ \A i \in 0 .. Done - 1 : buf[At(writeIndex + i)] = prod.packet[i + 1]

\* The pieces still to read are those from the offset d up to the offset e.
Reads(todo, d, e) ==
  \/ todo = <<>> /\ d = e
  \/ /\ Len(todo) = 1 /\ todo[1].len = e - d
     /\ todo[1].len = 0 \/ todo[1].at = At(readIndex + d)
     /\ todo[1].at + todo[1].len <= Cap
  \/ /\ Len(todo) = 2 /\ todo[1].len + todo[2].len = e - d
     /\ todo[1].len = 0 \/ todo[1].at = At(readIndex + d)
     /\ todo[1].at + todo[1].len <= Cap
     /\ todo[2].len = 0 \/ todo[2].at = At(readIndex + d + todo[1].len)
     /\ todo[2].at + todo[2].len <= Cap

\* What the consumer has read are the bytes from the offset d on.
HasRead(d) ==
  \A k \in 1 .. Len(cons.got) : cons.got[k] = buf[At(readIndex + d + k - 1)]

\* A consumer's call reads the header, then the body, of the first packet.
ConsInv ==
  /\ cons.pc # "fatal"
  /\ cons.pc = "head" =>
       /\ cons.count <= Count
       /\ \E total \in HeadLen + 1 .. cons.count : HeadAt(0, total)
       /\ Len(cons.got) <= HeadLen /\ HasRead(0)
       /\ Reads(cons.todo, Len(cons.got), HeadLen)
  /\ cons.pc = "body" =>
       \E total \in HeadLen + 1 .. Count :
         /\ HeadAt(0, total) /\ cons.next = At(readIndex + total)
         /\ HeadLen + Len(cons.got) <= total /\ HasRead(HeadLen)
         /\ Reads(cons.todo, HeadLen + Len(cons.got), total)

IInv == RingType /\ Framed /\ ProdInv /\ ConsInv

-----------------------------------------------------------------------------
(* Places.                                                                  *)

LEMMA CountRange == ASSUME RingType PROVE Count \in 0 .. Cap - 1
  BY VarLenAssumption DEF RingType, Count, Places

LEMMA IndexType ==
  ASSUME RingType
  PROVE  /\ readIndex \in Places /\ writeIndex \in Places
         /\ readIndex \in Nat /\ writeIndex \in Nat
<1>1. readIndex \in Places /\ writeIndex \in Places
  BY DEF RingType
<1> QED BY <1>1 DEF Places

LEMMA AtIsPlace == ASSUME NEW i \in 0 .. Cap + Cap - 1 PROVE At(i) \in Places
  BY VarLenAssumption DEF At, Places

\* The i-th byte behind the write index, counted from the read index.
LEMMA BehindWrite ==
  ASSUME RingType, NEW i \in Nat, Count + i < Cap
  PROVE  At(writeIndex + i) = At(readIndex + Count + i)
  BY VarLenAssumption DEF RingType, Count, Places, At

LEMMA AtInjective ==
  ASSUME NEW p \in Places, NEW i \in 0 .. Cap - 1, NEW j \in 0 .. Cap - 1, At(p + i) = At(p + j)
  PROVE  i = j
  BY VarLenAssumption DEF Places, At

\* Within a piece that does not cross the end, places follow one another.
LEMMA InPiece ==
  ASSUME NEW p \in Places, NEW d \in Nat, NEW x \in Nat, d + x < Cap, At(p + d) + x < Cap
  PROVE  At(p + d + x) = At(p + d) + x
  BY VarLenAssumption DEF Places, At

\* Where the byte at one offset is, seen from another start.
LEMMA AtTwice ==
  ASSUME NEW p \in Places, NEW d \in 0 .. Cap - 1, NEW x \in Nat, d + x < Cap
  PROVE  At(At(p + d) + x) = At(p + d + x)
  BY VarLenAssumption DEF Places, At

LEMMA FunctionIsSequence ==
  ASSUME NEW S, NEW n \in Nat, NEW f \in [1 .. n -> S]
  PROVE  f \in Seq(S) /\ Len(f) = n
  BY IsASeq, LenProperties

LEMMA HeadOfFacts ==
  ASSUME NEW total \in Nat
  PROVE  /\ HeadOf(total) \in Seq(AllBytes) /\ Len(HeadOf(total)) = HeadLen
         /\ \A k \in 1 .. HeadLen :
              HeadOf(total)[k] = [kind |-> "head", of |-> total, part |-> k]
<1>1. HeadLen \in Nat
  BY VarLenAssumption
<1>2. HeadOf(total) \in [1 .. HeadLen -> AllBytes]
  BY <1>1 DEF HeadOf, Bytes, AllBytes
<1>3. HeadOf(total) \in Seq(AllBytes) /\ Len(HeadOf(total)) = HeadLen
  BY <1>1, <1>2, IsASeq, LenProperties
<1> QED BY <1>3 DEF HeadOf, Bytes

\* A header has one meaning.
LEMMA OneLength ==
  ASSUME NEW i, NEW a \in Nat, NEW b \in Nat, HeadAt(i, a), HeadAt(i, b) PROVE a = b
<1>1. 1 \in 1 .. HeadLen
  BY VarLenAssumption
<1>2. /\ HeadOf(a)[1] = [kind |-> "head", of |-> a, part |-> 1]
      /\ HeadOf(b)[1] = [kind |-> "head", of |-> b, part |-> 1]
  BY <1>1, HeadOfFacts
<1>3. HeadOf(a)[1] = HeadOf(b)[1]
  BY <1>1 DEF HeadAt
<1> QED BY <1>2, <1>3

-----------------------------------------------------------------------------
(* The pieces of a call.                                                    *)

PieceSet == [at : Places, from : Nat, len : Nat]

GoodPieces(todo, total) ==
  /\ todo \in Seq(PieceSet) /\ todo # <<>> /\ todo[1].from = 0
  /\ \A j \in 1 .. Len(todo) :
       /\ todo[j].at = At(writeIndex + todo[j].from)
       /\ todo[j].at + todo[j].len <= Cap
       /\ todo[j].from + todo[j].len = IF j = Len(todo) THEN total ELSE todo[j + 1].from
       /\ todo[j].from + todo[j].len <= total

\* The starts of at most four pieces, written out.
LEMMA StartsOfPieces ==
  ASSUME NEW lens \in Seq(Nat), Len(lens) \in 2 .. 4
  PROVE  \E f \in [1 .. Len(lens) -> Nat] :
           /\ f[1] = 0 /\ f[2] = lens[1]
           /\ Len(lens) > 2 => f[3] = lens[1] + lens[2]
           /\ Len(lens) > 3 => f[4] = lens[1] + lens[2] + lens[3]
           /\ \A w : Pieces(w, lens) = [j \in 1 .. Len(lens) |->
                       [at |-> At(w + f[j]), from |-> f[j], len |-> lens[j]]]
<1> DEFINE S == 1 .. Len(lens)
           From(f) == [j \in S |-> IF j = 1 THEN 0 ELSE f[j - 1] + lens[j - 1]]
           from == CHOOSE f : f = From(f)
           g == [j \in S |-> IF j = 1 THEN 0 ELSE IF j = 2 THEN lens[1]
                             ELSE IF j = 3 THEN lens[1] + lens[2]
                             ELSE lens[1] + lens[2] + lens[3]]
<1>0. /\ \A j \in S : j \in 1 .. 4 /\ (j # 1 => j - 1 \in S)
      /\ 1 \in S /\ 2 \in S
  <2> DEFINE n == Len(lens)
  <2>1. n \in 2 .. 4
    OBVIOUS
  <2> HIDE DEF n
  <2>2. /\ \A j \in 1 .. n : j \in 1 .. 4 /\ (j # 1 => j - 1 \in 1 .. n)
        /\ 1 \in 1 .. n /\ 2 \in 1 .. n
    BY <2>1
  <2> QED BY <2>2 DEF n
<1>1. \A j \in S : lens[j] \in Nat
  BY ElementOfSeq
<1>2. \A j \in S : g[j] = IF j = 1 THEN 0 ELSE g[j - 1] + lens[j - 1]
  <2>1. ASSUME NEW j \in S PROVE g[j] = IF j = 1 THEN 0 ELSE g[j - 1] + lens[j - 1]
    <3>1. j \in {1, 2, 3, 4} /\ (j # 1 => j - 1 \in S)
      BY <1>0, <2>1
    <3>2. CASE j = 1
      BY <3>2
    <3>3. CASE j = 2
      BY <1>1, <3>1, <3>3
    <3>4. CASE j = 3
      BY <1>1, <3>1, <3>4
    <3>5. CASE j = 4
      BY <1>1, <3>1, <3>5
    <3> QED BY <3>1, <3>2, <3>3, <3>4, <3>5
  <2> QED BY <2>1
<1>3. g = From(g)
  BY <1>2
<1>4. from = From(from)
  BY <1>3
<1>5. \A w : Pieces(w, lens) = [j \in 1 .. Len(lens) |->
               [at |-> At(w + from[j]), from |-> from[j], len |-> lens[j]]]
  BY DEF Pieces
<1> HIDE DEF from
<1>6. \A j \in S : from[j] = IF j = 1 THEN 0 ELSE from[j - 1] + lens[j - 1]
  BY <1>4
<1>7. from[1] = 0 /\ from[2] = lens[1]
  <2>1. 1 \in S /\ 2 \in S
    BY <1>0
  <2>2. from[1] = 0 /\ from[2] = from[1] + lens[1]
    BY <1>6, <2>1
  <2> QED BY <1>1, <2>1, <2>2
<1>8. Len(lens) > 2 => from[3] = lens[1] + lens[2]
  BY <1>1, <1>6, <1>7
<1>9. Len(lens) > 3 => from[4] = lens[1] + lens[2] + lens[3]
  BY <1>1, <1>6, <1>7, <1>8
<1>10. \A j \in S : from[j] \in Nat
  <2>1. ASSUME NEW j \in S PROVE from[j] \in Nat
    <3>1. j \in {1, 2, 3, 4} /\ \A k \in 1 .. j : k \in S
      BY <1>0, <2>1
    <3>2. \A k \in 1 .. j : lens[k] \in Nat
      BY <1>1, <3>1
    <3>3. CASE j = 1 \/ j = 2
      BY <1>7, <3>2, <3>3
    <3>4. CASE j = 3
      BY <1>8, <3>2, <3>4
    <3>5. CASE j = 4
      <4>1. PICK a \in Nat, b \in Nat : a = lens[1] /\ b = lens[2]
        BY <3>2, <3>5
      <4>2. PICK c \in Nat : c = lens[3]
        BY <3>2, <3>5
      <4>3. a + b + c \in Nat
        OBVIOUS
      <4>4. Len(lens) > 3
        BY <3>1, <3>5
      <4> QED BY <1>9, <3>5, <4>1, <4>2, <4>3, <4>4
    <3> QED BY <3>1, <3>3, <3>4, <3>5
  <2> QED BY <2>1
<1>11. from \in [1 .. Len(lens) -> Nat]
  BY <1>4, <1>10
<1> QED BY <1>5, <1>7, <1>8, <1>9, <1>11

\* Pieces that start where the one before ended and do not cross the end.
LEMMA PiecesAreGood ==
  ASSUME RingType, NEW lens \in Seq(Nat), Len(lens) \in Nat \ {0},
         NEW total \in Nat, total < Cap, NEW f \in [1 .. Len(lens) -> Nat], f[1] = 0,
         \A j \in 1 .. Len(lens) :
           /\ f[j] + lens[j] = IF j = Len(lens) THEN total ELSE f[j + 1]
           /\ f[j] + lens[j] <= total,
         \A j \in 1 .. Len(lens) : At(writeIndex + f[j]) + lens[j] <= Cap,
         NEW todo, todo = [j \in 1 .. Len(lens) |->
                            [at |-> At(writeIndex + f[j]), from |-> f[j], len |-> lens[j]]]
  PROVE  GoodPieces(todo, total)
<1>1. \A j \in 1 .. Len(lens) : lens[j] \in Nat /\ f[j] \in Nat
  BY ElementOfSeq
<1>2. \A j \in 1 .. Len(lens) : At(writeIndex + f[j]) \in Places
  <2>1. ASSUME NEW j \in 1 .. Len(lens) PROVE At(writeIndex + f[j]) \in Places
    <3>0. f[j] + lens[j] <= total /\ f[j] \in Nat /\ lens[j] \in Nat
      BY <1>1
    <3>1. f[j] \in 0 .. Cap - 1
      BY <3>0, VarLenAssumption
    <3>2. PICK w \in 0 .. Cap - 1 : w = writeIndex
      BY IndexType DEF Places
    <3>3. PICK x \in 0 .. Cap - 1 : x = f[j]
      BY <3>1
    <3>4. w + x \in 0 .. Cap + Cap - 1
      BY VarLenAssumption
    <3> QED BY <3>2, <3>3, <3>4, AtIsPlace
  <2> QED BY <2>1
<1>3. todo \in [1 .. Len(lens) -> PieceSet]
  BY <1>1, <1>2 DEF PieceSet
<1>4. todo \in Seq(PieceSet) /\ Len(todo) = Len(lens)
  BY <1>3, FunctionIsSequence
<1>5. \A j \in 1 .. Len(lens) : /\ todo[j].at = At(writeIndex + f[j])
                                /\ todo[j].from = f[j] /\ todo[j].len = lens[j]
  OBVIOUS
<1>6. todo # <<>> /\ 1 \in 1 .. Len(lens)
  <2> DEFINE n == Len(lens)
  <2>1. n \in Nat \ {0} /\ Len(todo) = n
    BY <1>4
  <2> HIDE DEF n
  <2>2. Len(todo) # 0 /\ 1 \in 1 .. n
    BY <2>1
  <2>3. todo # <<>>
    BY <2>2
  <2> QED BY <2>2, <2>3 DEF n
<1>7. \A j \in 1 .. Len(lens) : j # Len(lens) => j + 1 \in 1 .. Len(lens)
  OBVIOUS
<1> QED BY <1>4, <1>5, <1>6, <1>7 DEF GoodPieces

\* Two, three and four pieces that do not cross the end of the buffer.
LEMMA TwoPieces ==
  ASSUME RingType, NEW a \in Nat, NEW b \in Nat,
         a + b < Cap,
         writeIndex + a <= Cap,
         At(writeIndex + a) + b <= Cap
  PROVE  GoodPieces(Pieces(writeIndex, <<a, b>>), a + b)
<1>0. <<a, b>> \in Seq(Nat)
  OBVIOUS
<1>1. PICK l \in Seq(Nat) : l = <<a, b>>
  BY <1>0
<1>2. Len(l) = 2 /\ l[1] = a /\ l[2] = b
  BY <1>1
<1>3. PICK f \in [1 .. Len(l) -> Nat] :
        /\ f[1] = 0 /\ f[2] = a
        /\ Pieces(writeIndex, l) = [j \in 1 .. Len(l) |->
             [at |-> At(writeIndex + f[j]), from |-> f[j], len |-> l[j]]]
  <2>1. Len(l) \in 2 .. 4 /\ (Len(l) > 2 <=> FALSE) /\ (Len(l) > 3 <=> FALSE)
    BY <1>2
  <2>2. PICK f \in [1 .. Len(l) -> Nat] :
          /\ f[1] = 0 /\ f[2] = l[1]
          /\ Len(l) > 2 => f[3] = l[1] + l[2]
          /\ Len(l) > 3 => f[4] = l[1] + l[2] + l[3]
          /\ \A w : Pieces(w, l) = [j \in 1 .. Len(l) |->
                      [at |-> At(w + f[j]), from |-> f[j], len |-> l[j]]]
    BY <2>1, StartsOfPieces
  <2>3. f[1] = 0 /\ f[2] = a
    BY <1>2, <2>1, <2>2
  <2> QED BY <2>2, <2>3
<1>4. \A j \in 1 .. Len(l) : j = 1 \/ j = 2
  BY <1>2
<1>5. At(writeIndex + 0) + a <= Cap
  BY VarLenAssumption DEF RingType, Places, At
<1>6. \A j \in 1 .. Len(l) :
        /\ f[j] + l[j] = IF j = Len(l) THEN a + b ELSE f[j + 1]
        /\ f[j] + l[j] <= a + b
  BY <1>2, <1>3, <1>4
<1>7. \A j \in 1 .. Len(l) : At(writeIndex + f[j]) + l[j] <= Cap
  BY <1>2, <1>3, <1>4, <1>5
<1>8. a + b \in Nat /\ f[1] = 0 /\ Len(l) \in Nat \ {0}
  BY <1>2, <1>3
<1> DEFINE total == a + b
<1> HIDE DEF total
<1>9. GoodPieces(Pieces(writeIndex, l), total)
  BY <1>3, <1>6, <1>7, <1>8, PiecesAreGood DEF total
<1> QED BY <1>1, <1>9 DEF total

LEMMA ThreePieces ==
  ASSUME RingType, NEW a \in Nat, NEW b \in Nat, NEW c \in Nat,
         a + b + c < Cap,
         writeIndex + a <= Cap,
         At(writeIndex + a) + b <= Cap,
         At(writeIndex + (a + b)) + c <= Cap
  PROVE  GoodPieces(Pieces(writeIndex, <<a, b, c>>), a + b + c)
<1>0. <<a, b, c>> \in Seq(Nat)
  OBVIOUS
<1>1. PICK l \in Seq(Nat) : l = <<a, b, c>>
  BY <1>0
<1>2. Len(l) = 3 /\ l[1] = a /\ l[2] = b /\ l[3] = c
  BY <1>1
<1>3. PICK f \in [1 .. Len(l) -> Nat] :
        /\ f[1] = 0 /\ f[2] = a /\ f[3] = a + b
        /\ Pieces(writeIndex, l) = [j \in 1 .. Len(l) |->
             [at |-> At(writeIndex + f[j]), from |-> f[j], len |-> l[j]]]
  <2>1. Len(l) \in 2 .. 4 /\ (Len(l) > 2 <=> TRUE) /\ (Len(l) > 3 <=> FALSE)
    BY <1>2
  <2>2. PICK f \in [1 .. Len(l) -> Nat] :
          /\ f[1] = 0 /\ f[2] = l[1]
          /\ Len(l) > 2 => f[3] = l[1] + l[2]
          /\ Len(l) > 3 => f[4] = l[1] + l[2] + l[3]
          /\ \A w : Pieces(w, l) = [j \in 1 .. Len(l) |->
                      [at |-> At(w + f[j]), from |-> f[j], len |-> l[j]]]
    BY <2>1, StartsOfPieces
  <2>3. f[1] = 0 /\ f[2] = a /\ f[3] = a + b
    BY <1>2, <2>1, <2>2
  <2> QED BY <2>2, <2>3
<1>4. \A j \in 1 .. Len(l) : j = 1 \/ j = 2 \/ j = 3
  BY <1>2
<1>5. At(writeIndex + 0) + a <= Cap
  BY VarLenAssumption DEF RingType, Places, At
<1>6. \A j \in 1 .. Len(l) :
        /\ f[j] + l[j] = IF j = Len(l) THEN a + b + c ELSE f[j + 1]
        /\ f[j] + l[j] <= a + b + c
  BY <1>2, <1>3, <1>4
<1>7. \A j \in 1 .. Len(l) : At(writeIndex + f[j]) + l[j] <= Cap
  BY <1>2, <1>3, <1>4, <1>5
<1>8. a + b + c \in Nat /\ f[1] = 0 /\ Len(l) \in Nat \ {0}
  BY <1>2, <1>3
<1> DEFINE total == a + b + c
<1> HIDE DEF total
<1>9. GoodPieces(Pieces(writeIndex, l), total)
  BY <1>3, <1>6, <1>7, <1>8, PiecesAreGood DEF total
<1> QED BY <1>1, <1>9 DEF total

LEMMA FourPieces ==
  ASSUME RingType, NEW a \in Nat, NEW b \in Nat, NEW c \in Nat, NEW d \in Nat,
         a + b + c + d < Cap,
         writeIndex + a <= Cap,
         At(writeIndex + a) + b <= Cap,
         At(writeIndex + (a + b)) + c <= Cap,
         At(writeIndex + (a + b + c)) + d <= Cap
  PROVE  GoodPieces(Pieces(writeIndex, <<a, b, c, d>>), a + b + c + d)
<1>0. <<a, b, c, d>> \in Seq(Nat)
  OBVIOUS
<1>1. PICK l \in Seq(Nat) : l = <<a, b, c, d>>
  BY <1>0
<1>2. Len(l) = 4 /\ l[1] = a /\ l[2] = b /\ l[3] = c /\ l[4] = d
  BY <1>1
<1>3. PICK f \in [1 .. Len(l) -> Nat] :
        /\ f[1] = 0 /\ f[2] = a /\ f[3] = a + b /\ f[4] = a + b + c
        /\ Pieces(writeIndex, l) = [j \in 1 .. Len(l) |->
             [at |-> At(writeIndex + f[j]), from |-> f[j], len |-> l[j]]]
  <2>1. Len(l) \in 2 .. 4 /\ (Len(l) > 2 <=> TRUE) /\ (Len(l) > 3 <=> TRUE)
    BY <1>2
  <2>2. PICK f \in [1 .. Len(l) -> Nat] :
          /\ f[1] = 0 /\ f[2] = l[1]
          /\ Len(l) > 2 => f[3] = l[1] + l[2]
          /\ Len(l) > 3 => f[4] = l[1] + l[2] + l[3]
          /\ \A w : Pieces(w, l) = [j \in 1 .. Len(l) |->
                      [at |-> At(w + f[j]), from |-> f[j], len |-> l[j]]]
    BY <2>1, StartsOfPieces
  <2>3. f[1] = 0 /\ f[2] = a /\ f[3] = a + b /\ f[4] = a + b + c
    BY <1>2, <2>1, <2>2
  <2> QED BY <2>2, <2>3
<1>4. \A j \in 1 .. Len(l) : j = 1 \/ j = 2 \/ j = 3 \/ j = 4
  BY <1>2
<1>5. At(writeIndex + 0) + a <= Cap
  BY VarLenAssumption DEF RingType, Places, At
<1>6. \A j \in 1 .. Len(l) :
        /\ f[j] + l[j] = IF j = Len(l) THEN a + b + c + d ELSE f[j + 1]
        /\ f[j] + l[j] <= a + b + c + d
  <2>1. ASSUME NEW j \in 1 .. Len(l)
        PROVE  /\ f[j] + l[j] = IF j = Len(l) THEN a + b + c + d ELSE f[j + 1]
               /\ f[j] + l[j] <= a + b + c + d
    <3>1. CASE j = 1
      BY <1>2, <1>3, <3>1
    <3>2. CASE j = 2
      BY <1>2, <1>3, <3>2
    <3>3. CASE j = 3
      BY <1>2, <1>3, <3>3
    <3>4. CASE j = 4
      BY <1>2, <1>3, <3>4
    <3> QED BY <1>4, <3>1, <3>2, <3>3, <3>4
  <2> QED BY <2>1
<1>7. \A j \in 1 .. Len(l) : At(writeIndex + f[j]) + l[j] <= Cap
  BY <1>2, <1>3, <1>4, <1>5
<1>8. a + b + c + d \in Nat /\ f[1] = 0 /\ Len(l) \in Nat \ {0}
  BY <1>2, <1>3
<1> DEFINE total == a + b + c + d
<1> HIDE DEF total
<1>9. GoodPieces(Pieces(writeIndex, l), total)
  BY <1>3, <1>6, <1>7, <1>8, PiecesAreGood DEF total
<1> QED BY <1>1, <1>9 DEF total

\* What Fits admits leaves one place free.
LEMMA FitsMeansRoom ==
  ASSUME RingType, NEW n \in Nat, Fits(readIndex, writeIndex, n)
  PROVE  /\ Count + n < Cap
         /\ writeIndex < readIndex => writeIndex + n < readIndex
  BY VarLenAssumption DEF RingType, Fits, Free, Count, Places

\* A packet that fits is shorter than the buffer, and one written from behind the
\* reader ends before the end of the buffer.
LEMMA FitsBeforeEnd ==
  ASSUME RingType, NEW n \in Nat, Fits(readIndex, writeIndex, n)
  PROVE  /\ Cap \in Nat /\ writeIndex \in 0 .. Cap - 1 /\ n < Cap
         /\ writeIndex < readIndex => writeIndex + n < Cap
<1>1. Cap \in Nat
  BY VarLenAssumption
<1>2. readIndex \in 0 .. Cap - 1 /\ writeIndex \in 0 .. Cap - 1
  BY IndexType DEF Places
<1>3. Count \in 0 .. Cap - 1
  BY CountRange
<1>4. Count + n < Cap /\ (writeIndex < readIndex => writeIndex + n < readIndex)
  BY FitsMeansRoom
<1>5. n < Cap
  BY <1>1, <1>3, <1>4
<1>6. writeIndex < readIndex => writeIndex + n < Cap
  BY <1>1, <1>2, <1>4
<1> QED BY <1>1, <1>2, <1>5, <1>6

\* AddData and AddSessionIDAndData cut at the end of the buffer and only there.
LEMMA DataCutGood ==
  ASSUME RingType, NEW n \in Nat \ {0}, Fits(readIndex, writeIndex, HeadLen + n)
  PROVE  GoodPieces(Pieces(writeIndex, DataCut(readIndex, writeIndex, n)), HeadLen + n)
<1> DEFINE toEnd == Cap - writeIndex
<1>1. /\ Cap \in Nat /\ HeadLen \in Nat \ {0} /\ writeIndex \in 0 .. Cap - 1
      /\ HeadLen + n < Cap
      /\ writeIndex < readIndex => writeIndex + (HeadLen + n) < Cap
  <2>1. HeadLen \in Nat \ {0}
    BY VarLenAssumption
  <2>2. HeadLen + n \in Nat
    BY <2>1
  <2>3. /\ Cap \in Nat /\ writeIndex \in 0 .. Cap - 1 /\ HeadLen + n < Cap
        /\ writeIndex < readIndex => writeIndex + (HeadLen + n) < Cap
    BY <2>2, FitsBeforeEnd
  <2> QED BY <2>1, <2>3
<1>2. CASE writeIndex < readIndex \/ HeadLen + n <= toEnd \/ toEnd = HeadLen
  <2>1. writeIndex + HeadLen <= Cap /\ At(writeIndex + HeadLen) + n <= Cap
    BY <1>1, <1>2 DEF At
  <2>2. GoodPieces(Pieces(writeIndex, <<HeadLen, n>>), HeadLen + n)
    BY <1>1, <2>1, TwoPieces
  <2> QED BY <1>2, <2>2 DEF DataCut
<1>3. CASE ~(writeIndex < readIndex \/ HeadLen + n <= toEnd \/ toEnd = HeadLen) /\ toEnd > HeadLen
  <2> DEFINE b == toEnd - HeadLen
             c == n - (toEnd - HeadLen)
  <2>1. /\ b \in Nat /\ c \in Nat /\ HeadLen + b + c = HeadLen + n
        /\ writeIndex + HeadLen <= Cap /\ At(writeIndex + HeadLen) + b <= Cap
        /\ At(writeIndex + (HeadLen + b)) + c <= Cap
    BY <1>1, <1>3 DEF At
  <2> HIDE DEF b, c
  <2>2. GoodPieces(Pieces(writeIndex, <<HeadLen, b, c>>), HeadLen + b + c)
    BY <1>1, <2>1, ThreePieces
  <2> QED BY <1>3, <2>1, <2>2 DEF DataCut, b, c
<1>4. CASE ~(writeIndex < readIndex \/ HeadLen + n <= toEnd \/ toEnd = HeadLen) /\ ~(toEnd > HeadLen)
  <2> DEFINE a == toEnd
             b == HeadLen - toEnd
  <2>1. /\ a \in Nat /\ b \in Nat /\ a + b + n = HeadLen + n
        /\ writeIndex + a <= Cap /\ At(writeIndex + a) + b <= Cap
        /\ At(writeIndex + (a + b)) + n <= Cap
    BY <1>1, <1>4 DEF At
  <2> HIDE DEF a, b
  <2>2. GoodPieces(Pieces(writeIndex, <<a, b, n>>), a + b + n)
    BY <1>1, <2>1, ThreePieces
  <2> QED BY <1>4, <2>1, <2>2 DEF DataCut, a, b
<1> QED BY <1>2, <1>3, <1>4

LEMMA IdCutGood ==
  ASSUME RingType, NEW n \in Nat \ {0}, Fits(readIndex, writeIndex, HeadLen + IdLen + n)
  PROVE  GoodPieces(Pieces(writeIndex, IdCut(readIndex, writeIndex, n)), HeadLen + IdLen + n)
<1> DEFINE toEnd == Cap - writeIndex
<1>1. /\ Cap \in Nat /\ HeadLen \in Nat \ {0} /\ IdLen \in Nat \ {0}
      /\ writeIndex \in 0 .. Cap - 1 /\ HeadLen + IdLen + n < Cap
      /\ writeIndex < readIndex => writeIndex + (HeadLen + IdLen + n) < Cap
  <2>1. HeadLen \in Nat \ {0} /\ IdLen \in Nat \ {0}
    BY VarLenAssumption
  <2>2. HeadLen + IdLen + n \in Nat
    BY <2>1
  <2>3. /\ Cap \in Nat /\ writeIndex \in 0 .. Cap - 1 /\ HeadLen + IdLen + n < Cap
        /\ writeIndex < readIndex => writeIndex + (HeadLen + IdLen + n) < Cap
    BY <2>2, FitsBeforeEnd
  <2> QED BY <2>1, <2>3
<1>2. CASE writeIndex < readIndex \/ HeadLen + IdLen + n <= toEnd
  <2>1. /\ writeIndex + HeadLen <= Cap /\ At(writeIndex + HeadLen) + IdLen <= Cap
        /\ At(writeIndex + (HeadLen + IdLen)) + n <= Cap
    BY <1>1, <1>2 DEF At
  <2>2. GoodPieces(Pieces(writeIndex, <<HeadLen, IdLen, n>>), HeadLen + IdLen + n)
    BY <1>1, <2>1, ThreePieces
  <2> QED BY <1>2, <2>2 DEF IdCut
<1>3. CASE ~(writeIndex < readIndex \/ HeadLen + IdLen + n <= toEnd) /\ toEnd >= HeadLen + IdLen
  <2> DEFINE c == toEnd - HeadLen - IdLen
             d == n - (toEnd - HeadLen - IdLen)
  <2>1. /\ c \in Nat /\ d \in Nat /\ HeadLen + IdLen + c + d = HeadLen + IdLen + n
        /\ writeIndex + HeadLen <= Cap /\ At(writeIndex + HeadLen) + IdLen <= Cap
        /\ At(writeIndex + (HeadLen + IdLen)) + c <= Cap
        /\ At(writeIndex + (HeadLen + IdLen + c)) + d <= Cap
    BY <1>1, <1>3 DEF At
  <2> HIDE DEF c, d
  <2>2. GoodPieces(Pieces(writeIndex, <<HeadLen, IdLen, c, d>>), HeadLen + IdLen + c + d)
    BY <1>1, <2>1, FourPieces
  <2> QED BY <1>3, <2>1, <2>2 DEF IdCut, c, d
<1>4. CASE /\ ~(writeIndex < readIndex \/ HeadLen + IdLen + n <= toEnd)
           /\ toEnd >= HeadLen /\ ~(toEnd >= HeadLen + IdLen)
  <2> DEFINE b == toEnd - HeadLen
             c == IdLen - (toEnd - HeadLen)
  <2>1. /\ b \in Nat /\ c \in Nat /\ HeadLen + b + c + n = HeadLen + IdLen + n
        /\ writeIndex + HeadLen <= Cap /\ At(writeIndex + HeadLen) + b <= Cap
        /\ At(writeIndex + (HeadLen + b)) + c <= Cap
        /\ At(writeIndex + (HeadLen + b + c)) + n <= Cap
    BY <1>1, <1>4 DEF At
  <2> HIDE DEF b, c
  <2>2. GoodPieces(Pieces(writeIndex, <<HeadLen, b, c, n>>), HeadLen + b + c + n)
    BY <1>1, <2>1, FourPieces
  <2> QED BY <1>4, <2>1, <2>2 DEF IdCut, b, c
<1>5. CASE ~(writeIndex < readIndex \/ HeadLen + IdLen + n <= toEnd) /\ ~(toEnd >= HeadLen)
  <2> DEFINE a == toEnd
             b == HeadLen - toEnd
  <2>1. /\ a \in Nat /\ b \in Nat /\ a + b + IdLen + n = HeadLen + IdLen + n
        /\ writeIndex + a <= Cap /\ At(writeIndex + a) + b <= Cap
        /\ At(writeIndex + (a + b)) + IdLen <= Cap
        /\ At(writeIndex + (a + b + IdLen)) + n <= Cap
    BY <1>1, <1>5 DEF At
  <2> HIDE DEF a, b
  <2>2. GoodPieces(Pieces(writeIndex, <<a, b, IdLen, n>>), a + b + IdLen + n)
    BY <1>1, <2>1, FourPieces
  <2>3. ~(toEnd >= HeadLen + IdLen)
    BY <1>1, <1>5
  <2> QED BY <1>5, <2>1, <2>2, <2>3 DEF IdCut, a, b
<1> QED BY <1>2, <1>3, <1>4, <1>5

-----------------------------------------------------------------------------
(* The invariant, action by action.                                         *)

LEMMA InitInv == Init => IInv
<1> SUFFICES ASSUME Init PROVE IInv
  OBVIOUS
<1>1. RingType
  BY VarLenAssumption DEF Init, RingType, Places, AllBytes, Unwritten
<1>2. Count = 0
  BY DEF Init, Count
<1>3. PICK s \in [0 .. 0 -> Nat] : s[0] = 0
  <2>1. [k \in 0 .. 0 |-> 0] \in [0 .. 0 -> Nat] /\ [k \in 0 .. 0 |-> 0][0] = 0
    OBVIOUS
  <2> QED BY <2>1
<1>4. Framed
  <2>1. Ends(0, s)
    BY <1>2, <1>3 DEF Ends
  <2> QED BY <2>1 DEF Framed
<1>5. ProdInv /\ ConsInv
  BY DEF Init, ProdInv, ConsInv, NoTake
<1> QED BY <1>1, <1>4, <1>5 DEF IInv

\* What the indexes and the readable bytes say.
LEMMA SameRing ==
  ASSUME UNCHANGED <<buf, readIndex, writeIndex>>
  PROVE  Count' = Count /\ Framed' = Framed
<1>1. Count' = Count
  BY DEF Count
<1>2. \A i, total : HeadAt(i, total)' = HeadAt(i, total)
  BY DEF HeadAt
<1>3. \A n, s : Ends(n, s)' = Ends(n, s)
  BY <1>1, <1>2 DEF Ends
<1> QED BY <1>1, <1>3 DEF Framed

LEMMA SameConsumer ==
  ASSUME ConsInv, UNCHANGED <<buf, readIndex, writeIndex, cons>>
  PROVE  ConsInv'
<1>1. Count' = Count
  BY DEF Count
<1>2. \A i, total : HeadAt(i, total)' = HeadAt(i, total)
  BY DEF HeadAt
<1>3. \A d : HasRead(d)' = HasRead(d)
  BY DEF HasRead
<1>4. \A todo, d, e : Reads(todo, d, e)' = Reads(todo, d, e)
  BY DEF Reads
<1> QED BY <1>1, <1>2, <1>3, <1>4 DEF ConsInv

\* A packet that Fits admits is cut into its pieces; nothing is written yet.
LEMMA CallInv ==
  ASSUME IInv, NEW lens, NEW payload \in Seq(AllBytes), Len(payload) >= 1,
         GoodPieces(Pieces(writeIndex, lens), HeadLen + Len(payload)), Call(lens, payload)
  PROVE  IInv'
<1>1. PICK total \in Nat : total = HeadLen + Len(payload) /\ total > HeadLen
  BY VarLenAssumption, LenProperties
<1>2. PICK packet \in Seq(AllBytes) : packet = HeadOf(total) \o payload
  BY HeadOfFacts, ConcatProperties
<1>3. Len(packet) = total /\ \A k \in 1 .. HeadLen : packet[k] = HeadOf(total)[k]
  <2>1. PICK head \in Seq(AllBytes) : head = HeadOf(total) /\ Len(head) = HeadLen
    BY HeadOfFacts
  <2>2. /\ Len(head \o payload) = Len(head) + Len(payload)
        /\ \A k \in 1 .. Len(head) + Len(payload) :
             (head \o payload)[k] = IF k <= Len(head) THEN head[k] ELSE payload[k - Len(head)]
    BY ConcatProperties
  <2>3. /\ Len(packet) = total
        /\ \A k \in 1 .. total : packet[k] = IF k <= HeadLen THEN head[k] ELSE payload[k - HeadLen]
    BY <1>1, <1>2, <2>1, <2>2
  <2>4. \A k \in 1 .. HeadLen : k \in 1 .. total /\ k <= HeadLen
    BY <1>1, VarLenAssumption
  <2> QED BY <2>1, <2>3, <2>4
<1>4. PICK todo \in Seq(PieceSet) : todo = Pieces(writeIndex, lens) /\ GoodPieces(todo, total)
  BY <1>1 DEF GoodPieces
<1>5. /\ prod' = [pc |-> "copy", todo |-> todo, packet |-> packet]
      /\ Fits(readIndex, writeIndex, total)
      /\ UNCHANGED <<buf, readIndex, writeIndex, cons>>
  BY <1>1, <1>2, <1>4 DEF Call
<1>6. Count' = Count /\ Count + total < Cap
  BY <1>5, FitsMeansRoom, SameRing DEF IInv
<1>7. RingType'
  BY <1>5 DEF IInv, RingType, PieceSet
<1>8. Framed' /\ ConsInv'
  BY <1>5, SameRing, SameConsumer DEF IInv
<1>9. prod'.pc = "copy" /\ prod'.todo = todo /\ prod'.packet = packet
  BY <1>5
<1>10. Done' = 0
  BY <1>4, <1>9 DEF Done, GoodPieces
<1>11. \A j \in 1 .. Len(todo) :
         /\ todo[j].at = At(writeIndex + todo[j].from)
         /\ todo[j].at + todo[j].len <= Cap
         /\ todo[j].from + todo[j].len = PieceEnd(j)'
         /\ PieceEnd(j)' <= Len(packet)
  BY <1>3, <1>4, <1>9 DEF GoodPieces, PieceEnd
<1>12. todo # <<>>
  BY <1>4 DEF GoodPieces
<1>13. ProdInv'
  BY <1>1, <1>3, <1>5, <1>6, <1>9, <1>10, <1>11, <1>12 DEF ProdInv
<1> QED BY <1>7, <1>8, <1>13 DEF IInv

LEMMA BytesType ==
  ASSUME NEW kind \in {"id", "data"}, NEW of \in Nat \union Data \union SessionIDs, NEW n \in Nat
  PROVE  Bytes(kind, of, n) \in Seq(AllBytes) /\ Len(Bytes(kind, of, n)) = n
<1>1. Bytes(kind, of, n) \in [1 .. n -> AllBytes]
  BY DEF Bytes, AllBytes
<1> QED BY <1>1, FunctionIsSequence

LEMMA AddDataInv == ASSUME IInv, AddData PROVE IInv'
<1>1. PICK n \in 1 .. MaxData, d \in Data :
        Call(DataCut(readIndex, writeIndex, n), Bytes("data", d, n))
  BY DEF AddData
<1>2. n \in Nat \ {0}
  BY VarLenAssumption
<1>3. PICK payload \in Seq(AllBytes) : payload = Bytes("data", d, n) /\ Len(payload) = n
  BY <1>2, BytesType
<1>4. Fits(readIndex, writeIndex, HeadLen + n)
  BY <1>1, <1>3 DEF Call
<1>5. GoodPieces(Pieces(writeIndex, DataCut(readIndex, writeIndex, n)), HeadLen + n)
  BY <1>2, <1>4, DataCutGood DEF IInv
<1> QED BY <1>1, <1>2, <1>3, <1>5, CallInv

LEMMA AddSessionIDAndDataInv == ASSUME IInv, AddSessionIDAndData PROVE IInv'
<1>1. PICK n \in 1 .. MaxData, d \in Data, id \in SessionIDs :
        Call(IdCut(readIndex, writeIndex, n),
             Bytes("id", id, IdLen) \o Bytes("data", d, n))
  BY DEF AddSessionIDAndData
<1>2. n \in Nat \ {0} /\ IdLen \in Nat /\ HeadLen \in Nat
  BY VarLenAssumption
<1>3. /\ Bytes("id", id, IdLen) \in Seq(AllBytes) /\ Len(Bytes("id", id, IdLen)) = IdLen
      /\ Bytes("data", d, n) \in Seq(AllBytes) /\ Len(Bytes("data", d, n)) = n
  BY <1>2, BytesType
<1>4. PICK payload \in Seq(AllBytes) : /\ payload = Bytes("id", id, IdLen) \o Bytes("data", d, n)
                                       /\ Len(payload) = IdLen + n
  <2> DEFINE a == Bytes("id", id, IdLen)
             b == Bytes("data", d, n)
  <2>1. a \in Seq(AllBytes) /\ b \in Seq(AllBytes) /\ Len(a) = IdLen /\ Len(b) = n
    BY <1>3
  <2> HIDE DEF a, b
  <2>2. a \o b \in Seq(AllBytes) /\ Len(a \o b) = IdLen + n
    BY <2>1, ConcatProperties
  <2> QED BY <2>2 DEF a, b
<1>5. HeadLen + Len(payload) = HeadLen + IdLen + n /\ Len(payload) >= 1
  <2> DEFINE m == Len(payload)
  <2>1. m = IdLen + n
    BY <1>4
  <2> HIDE DEF m
  <2>2. HeadLen + m = HeadLen + IdLen + n /\ m >= 1
    BY <1>2, <2>1
  <2> QED BY <2>2 DEF m
<1>6. Fits(readIndex, writeIndex, HeadLen + IdLen + n)
  BY <1>1, <1>4, <1>5 DEF Call
<1>7. GoodPieces(Pieces(writeIndex, IdCut(readIndex, writeIndex, n)), HeadLen + Len(payload))
  BY <1>2, <1>5, <1>6, IdCutGood DEF IInv
<1>8. Call(IdCut(readIndex, writeIndex, n), payload)
  BY <1>1, <1>4
<1> QED BY <1>4, <1>5, <1>7, <1>8, CallInv

LEMMA ByteInside ==
  ASSUME NEW d \in Nat, NEW a \in Nat, NEW m \in Nat, NEW n \in Nat, NEW c \in Nat,
         NEW x \in Nat, x < m, a + m <= Cap, d + m <= n, c + n < Cap
  PROVE  d + x < Cap /\ a + x < Cap /\ c + (d + x) < Cap
<1>1. Cap \in Nat
  BY VarLenAssumption
<1> QED BY <1>1

LEMMA ProdType ==
  ASSUME RingType, prod # NoCall
  PROVE  /\ prod \in [pc : {"copy", "publish"}, todo : Seq(PieceSet), packet : Seq(AllBytes)]
         /\ prod.todo \in Seq(PieceSet) /\ prod.packet \in Seq(AllBytes)
         /\ Len(prod.todo) \in Nat /\ Len(prod.packet) \in Nat
         /\ \A j \in 1 .. Len(prod.todo) : prod.todo[j] \in PieceSet
<1>1. prod \in [pc : {"copy", "publish"}, todo : Seq(PieceSet), packet : Seq(AllBytes)]
  BY DEF RingType, PieceSet
<1>2. prod.todo \in Seq(PieceSet) /\ prod.packet \in Seq(AllBytes)
  BY <1>1
<1> QED BY <1>1, <1>2, LenProperties, ElementOfSeq

\* A byte of a piece goes to its place behind the write index.
LEMMA PieceByte ==
  ASSUME RingType, ProdInv, prod # NoCall, NEW j \in 1 .. Len(prod.todo),
         NEW x \in 0 .. prod.todo[j].len - 1
  PROVE  /\ At(writeIndex + (prod.todo[j].from + x)) = prod.todo[j].at + x
         /\ prod.todo[j].from + x \in Nat
         /\ Count + (prod.todo[j].from + x) < Cap
         /\ prod.todo[j].at + x \in Places
<1>1. /\ prod.todo[j].at = At(writeIndex + prod.todo[j].from)
      /\ prod.todo[j].at + prod.todo[j].len <= Cap
      /\ prod.todo[j].from + prod.todo[j].len = PieceEnd(j)
      /\ PieceEnd(j) <= Len(prod.packet)
      /\ Count + Len(prod.packet) < Cap
  BY DEF ProdInv
<1>2. /\ prod.todo[j].at \in Places /\ prod.todo[j].from \in Nat /\ prod.todo[j].len \in Nat
      /\ Len(prod.packet) \in Nat
  BY ProdType DEF PieceSet
<1>3. PICK d \in Nat, a \in Places, m \in Nat, n \in Nat, c \in Nat :
        /\ d = prod.todo[j].from /\ a = prod.todo[j].at /\ m = prod.todo[j].len
        /\ n = Len(prod.packet) /\ c = Count
        /\ a = At(writeIndex + d) /\ a + m <= Cap /\ d + m <= n /\ c + n < Cap
  <2>1. Count \in Nat
    BY CountRange, VarLenAssumption
  <2>2. prod.todo[j].from + prod.todo[j].len <= Len(prod.packet)
    BY <1>1
  <2> QED BY <1>1, <1>2, <2>1, <2>2
<1>4. x \in Nat /\ x < m /\ writeIndex \in Nat /\ writeIndex \in Places
  <2>1. x \in 0 .. m - 1
    BY <1>3
  <2>2. x \in Nat /\ x < m
    BY <1>3, <2>1
  <2> QED BY <2>2, IndexType
<1>5. d + x < Cap /\ a + x < Cap /\ c + (d + x) < Cap /\ Cap \in Nat /\ a \in Nat
  <2>1. Cap \in Nat /\ a \in Nat
    BY <1>3, VarLenAssumption DEF Places
  <2>2. a + m <= Cap /\ d + m <= n /\ c + n < Cap
    BY <1>3
  <2> QED BY <1>4, <2>1, <2>2, ByteInside
<1>6. At(writeIndex + d + x) = At(writeIndex + d) + x
  <2>1. At(writeIndex + d) = a
    BY <1>3
  <2>2. d + x < Cap /\ At(writeIndex + d) + x < Cap /\ d \in Nat
    BY <1>3, <1>5, <2>1
  <2>3. PICK w \in Places : w = writeIndex
    BY <1>4
  <2>4. At(w + d + x) = At(w + d) + x
    BY <1>4, <2>2, <2>3, InPiece
  <2> QED BY <2>3, <2>4
<1>7. writeIndex + d + x = writeIndex + (d + x)
  <2>1. d \in Nat /\ x \in Nat /\ writeIndex \in Nat
    BY <1>3, <1>4
  <2> QED BY <2>1
<1>8. d + x \in Nat /\ a + x \in Places
  <2>1. d \in Nat /\ x \in Nat /\ a \in Nat /\ a + x < Cap /\ Cap \in Nat
    BY <1>3, <1>4, <1>5
  <2>2. a + x \in Nat /\ d + x \in Nat
    BY <2>1
  <2> QED BY <2>1, <2>2 DEF Places
<1> QED BY <1>3, <1>5, <1>6, <1>7, <1>8

\* The piece at the head of the producer's list, and what it covers.
LEMMA FirstPiece ==
  ASSUME RingType, ProdInv, prod.pc = "copy"
  PROVE  /\ prod \in [pc : {"copy", "publish"}, todo : Seq(PieceSet), packet : Seq(AllBytes)]
         /\ prod # NoCall /\ prod.todo # <<>> /\ Len(prod.todo) \in Nat \ {0}
         /\ Head(prod.todo) = prod.todo[1] /\ prod.todo[1] \in PieceSet
         /\ Tail(prod.todo) \in Seq(PieceSet) /\ Len(Tail(prod.todo)) = Len(prod.todo) - 1
         /\ \A j \in 1 .. Len(prod.todo) - 1 : Tail(prod.todo)[j] = prod.todo[j + 1]
         /\ Done = prod.todo[1].from
         /\ PieceEnd(1) = Done + prod.todo[1].len /\ PieceEnd(1) \in Nat
         /\ Len(prod.packet) \in Nat /\ PieceEnd(1) <= Len(prod.packet)
<1>2. prod # NoCall /\ prod.todo # <<>>
  BY DEF ProdInv, NoCall
<1>1. prod \in [pc : {"copy", "publish"}, todo : Seq(PieceSet), packet : Seq(AllBytes)]
  BY <1>2, ProdType
<1>3. prod.todo \in Seq(PieceSet) /\ Len(prod.packet) \in Nat
  BY <1>2, ProdType
<1>4. /\ Len(prod.todo) \in Nat \ {0} /\ Head(prod.todo) = prod.todo[1]
      /\ Tail(prod.todo) \in Seq(PieceSet) /\ Len(Tail(prod.todo)) = Len(prod.todo) - 1
      /\ \A j \in 1 .. Len(Tail(prod.todo)) : Tail(prod.todo)[j] = prod.todo[j + 1]
      /\ Head(prod.todo) \in PieceSet
  BY <1>2, <1>3, HeadTailProperties, LenProperties, EmptySeq
<1>5. 1 \in 1 .. Len(prod.todo) /\ prod.todo[1] \in PieceSet
  BY <1>4
<1>6. /\ prod.todo[1].from + prod.todo[1].len = PieceEnd(1)
      /\ PieceEnd(1) <= Len(prod.packet)
  BY <1>2, <1>5 DEF ProdInv
<1>7. Done = prod.todo[1].from /\ prod.todo[1].from \in Nat /\ prod.todo[1].len \in Nat
  BY <1>2, <1>5 DEF Done, PieceSet
<1> QED BY <1>1, <1>2, <1>3, <1>4, <1>5, <1>6, <1>7

LEMMA ConsType ==
  ASSUME RingType, cons.pc \in {"head", "body"}
  PROVE  /\ cons \in [pc : {"head", "body"}, todo : Seq(CutSet), count : Nat,
                       got : Seq(AllBytes), next : Nat]
         /\ cons.todo \in Seq(CutSet) /\ cons.got \in Seq(AllBytes)
         /\ cons.count \in Nat /\ Len(cons.got) \in Nat /\ Len(cons.todo) \in Nat
<1>1. cons \in [pc : {"head", "body"}, todo : Seq(CutSet), count : Nat,
                got : Seq(AllBytes), next : Nat]
  BY DEF RingType, NoTake
<1>2. cons.todo \in Seq(CutSet) /\ cons.got \in Seq(AllBytes) /\ cons.count \in Nat
  BY <1>1
<1> QED BY <1>1, <1>2, LenProperties

\* What a header at an offset looks like depends on readable bytes only.
LEMMA SameHeader ==
  ASSUME RingType, NEW n \in Nat, readIndex' = readIndex,
         \A i \in 0 .. n - 1 : buf'[At(readIndex + i)] = buf[At(readIndex + i)],
         NEW i \in Nat, i + HeadLen <= n, NEW total, HeadAt(i, total)
  PROVE  HeadAt(i, total)'
<1>1. ASSUME NEW k \in 1 .. HeadLen
      PROVE  buf'[At(readIndex' + i + k - 1)] = HeadOf(total)[k]
  <2>1. PICK r \in Nat : r = readIndex
    BY IndexType
  <2>2. i + k - 1 \in 0 .. n - 1 /\ r + i + k - 1 = r + (i + k - 1)
    BY <1>1, <2>1, VarLenAssumption
  <2>3. buf'[At(r + (i + k - 1))] = buf[At(r + (i + k - 1))]
    BY <2>1, <2>2
  <2>4. buf[At(r + i + k - 1)] = HeadOf(total)[k]
    BY <1>1, <2>1 DEF HeadAt
  <2> QED BY <2>1, <2>2, <2>3, <2>4
<1> QED BY <1>1 DEF HeadAt

LEMMA SameBytesRead ==
  ASSUME RingType, NEW n \in Nat, UNCHANGED <<readIndex, cons>>, cons.pc \in {"head", "body"},
         \A i \in 0 .. n - 1 : buf'[At(readIndex + i)] = buf[At(readIndex + i)],
         NEW d \in Nat, d + Len(cons.got) <= n, HasRead(d)
  PROVE  HasRead(d)'
<1>1. ASSUME NEW k \in 1 .. Len(cons.got)
      PROVE  cons.got[k] = buf'[At(readIndex + d + k - 1)]
  <2>1. PICK r \in Nat, g \in Nat : r = readIndex /\ g = Len(cons.got)
    BY ConsType, IndexType
  <2>2. d + k - 1 \in 0 .. n - 1 /\ r + d + k - 1 = r + (d + k - 1)
    BY <1>1, <2>1
  <2>3. buf'[At(r + (d + k - 1))] = buf[At(r + (d + k - 1))]
    BY <2>1, <2>2
  <2>4. buf[At(r + d + k - 1)] = cons.got[k]
    BY <1>1, <2>1 DEF HasRead
  <2> QED BY <2>1, <2>2, <2>3, <2>4
<1> QED BY <1>1 DEF HasRead

\* The packets of a ring whose bytes are these.
LEMMA EndsFacts ==
  ASSUME RingType, NEW n \in Nat, NEW s \in [0 .. n -> Nat], Ends(n, s), NEW k \in 1 .. n
  PROVE  /\ k - 1 \in 0 .. n /\ k \in 0 .. n /\ s[k - 1] \in Nat /\ s[k] \in Nat
         /\ s[k - 1] + HeadLen < s[k] /\ s[k] <= Count
         /\ s[k] - s[k - 1] \in Nat /\ HeadLen < s[k] - s[k - 1]
         /\ HeadAt(s[k - 1], s[k] - s[k - 1])
<1>1. k - 1 \in 0 .. n /\ k \in 0 .. n
  OBVIOUS
<1>2. PICK a \in Nat, b \in Nat : a = s[k - 1] /\ b = s[k]
  BY <1>1
<1>3. a + HeadLen < b /\ b <= Count /\ HeadAt(a, b - a)
  BY <1>2 DEF Ends
<1>4. b - a \in Nat /\ HeadLen < b - a
  BY <1>3, VarLenAssumption
<1> QED BY <1>1, <1>2, <1>3, <1>4

LEMMA EndsKept ==
  ASSUME RingType, UNCHANGED <<readIndex, writeIndex>>,
         \A i \in 0 .. Count - 1 : buf'[At(readIndex + i)] = buf[At(readIndex + i)],
         NEW n \in Nat, NEW s \in [0 .. n -> Nat], Ends(n, s)
  PROVE  Ends(n, s)'
<1>1. PICK c \in Nat : c = Count
  BY CountRange, VarLenAssumption
<1>2. Count' = c
  BY <1>1 DEF Count
<1>3. ASSUME NEW k \in 1 .. n
      PROVE  /\ s[k - 1] + HeadLen < s[k] /\ s[k] <= c
             /\ HeadAt(s[k - 1], s[k] - s[k - 1])'
  <2>1. PICK a \in Nat, b \in Nat, t \in Nat : a = s[k - 1] /\ b = s[k] /\ t = b - a
    BY <1>3, EndsFacts
  <2>2. a + HeadLen < b /\ b <= c /\ HeadAt(a, t)
    BY <1>1, <1>3, <2>1, EndsFacts
  <2>3. a + HeadLen <= c
    BY <1>1, <2>1, <2>2, VarLenAssumption
  <2>4. HeadAt(a, t)'
    BY <1>1, <2>2, <2>3, SameHeader
  <2> QED BY <2>1, <2>2, <2>4
<1> QED BY <1>1, <1>2, <1>3 DEF Ends

\* Who leaves the readable bytes alone leaves the packets and the consumer alone.
LEMMA ReadableKept ==
  ASSUME IInv, UNCHANGED <<readIndex, writeIndex, cons>>,
         \A i \in 0 .. Count - 1 : buf'[At(readIndex + i)] = buf[At(readIndex + i)]
  PROVE  Framed' /\ ConsInv'
<1>1. PICK n \in Nat : n = Count
  BY CountRange, VarLenAssumption DEF IInv
<1>2. Count' = n
  BY <1>1 DEF Count
<1>3. \A i \in Nat : \A total : i + HeadLen <= n /\ HeadAt(i, total) => HeadAt(i, total)'
  BY <1>1, SameHeader DEF IInv
<1>4. Framed'
  BY EndsKept DEF IInv, Framed
<1>5. \A todo, d, e : Reads(todo, d, e)' = Reads(todo, d, e)
  BY DEF Reads
<1>6. \A d \in Nat : /\ cons.pc \in {"head", "body"} /\ HasRead(d)
                      /\ d + Len(cons.got) <= n => HasRead(d)'
  BY <1>1, SameBytesRead DEF IInv
<1>7. cons'.pc # "fatal"
  BY DEF IInv, ConsInv
<1>8. ASSUME cons'.pc = "head"
      PROVE  /\ cons'.count <= Count'
             /\ \E total \in HeadLen + 1 .. cons'.count : HeadAt(0, total)'
             /\ Len(cons'.got) <= HeadLen /\ HasRead(0)'
             /\ Reads(cons.todo, Len(cons.got), HeadLen)'
  <2>1. /\ cons.count <= n /\ Len(cons.got) <= HeadLen /\ HasRead(0)
        /\ Reads(cons.todo, Len(cons.got), HeadLen)
    BY <1>1, <1>8 DEF IInv, ConsInv
  <2>2. PICK total \in HeadLen + 1 .. cons.count : HeadAt(0, total)
    BY <1>8 DEF IInv, ConsInv
  <2>3. cons.count \in Nat /\ Len(cons.got) \in Nat
    BY <1>8, ConsType DEF IInv
  <2>4. 0 + HeadLen <= n /\ 0 + Len(cons.got) <= n
    <3>1. PICK g \in Nat, c \in Nat : g = Len(cons.got) /\ c = cons.count
      BY <2>3
    <3>2. 0 + HeadLen <= n /\ 0 + g <= n
      BY <2>1, <2>2, <3>1, VarLenAssumption
    <3> QED BY <3>1, <3>2
  <2>5. HeadAt(0, total)' /\ HasRead(0)'
    BY <1>3, <1>6, <1>8, <2>1, <2>2, <2>4
  <2> QED BY <1>2, <1>5, <2>1, <2>2, <2>5
<1>9. ASSUME cons'.pc = "body"
      PROVE  \E total \in HeadLen + 1 .. Count' :
               /\ HeadAt(0, total)' /\ cons'.next = At(readIndex' + total)
               /\ HeadLen + Len(cons'.got) <= total /\ HasRead(HeadLen)'
               /\ Reads(cons.todo, HeadLen + Len(cons.got), total)'
  <2>1. PICK total \in HeadLen + 1 .. n :
           /\ HeadAt(0, total) /\ cons.next = At(readIndex + total)
           /\ HeadLen + Len(cons.got) <= total /\ HasRead(HeadLen)
           /\ Reads(cons.todo, HeadLen + Len(cons.got), total)
    BY <1>1, <1>9 DEF IInv, ConsInv
  <2>2. Len(cons.got) \in Nat
    BY <1>9, ConsType DEF IInv
  <2>3. 0 + HeadLen <= n /\ HeadLen + Len(cons.got) <= n /\ HeadLen \in Nat
    <3>1. PICK g \in Nat : g = Len(cons.got)
      BY <2>2
    <3>2. 0 + HeadLen <= n /\ HeadLen + g <= n /\ HeadLen \in Nat
      BY <2>1, <3>1, VarLenAssumption
    <3> QED BY <3>1, <3>2
  <2>4. HeadAt(0, total)' /\ HasRead(HeadLen)'
    BY <1>3, <1>6, <1>9, <2>1, <2>3
  <2> QED BY <1>2, <1>5, <2>1, <2>4
<1> QED BY <1>4, <1>7, <1>8, <1>9 DEF ConsInv

\* One memmove of the producer touches neither the readable bytes nor the ones
\* it wrote before, and it completes its piece.
LEMMA CopyInTouches ==
  ASSUME IInv, CopyIn
  PROVE  /\ \A i \in 0 .. Count - 1 : buf'[At(readIndex + i)] = buf[At(readIndex + i)]
         /\ \A i \in 0 .. Done - 1 : buf'[At(writeIndex + i)] = buf[At(writeIndex + i)]
         /\ \A i \in Done .. PieceEnd(1) - 1 : buf'[At(writeIndex + i)] = prod.packet[i + 1]
         /\ buf' \in [Places -> AllBytes]
<1> DEFINE p == prod.todo[1]
<1>1. prod # NoCall /\ 1 \in 1 .. Len(prod.todo) /\ p \in PieceSet /\ Done = p.from
      /\ PieceEnd(1) = Done + p.len /\ PieceEnd(1) <= Len(prod.packet) /\ Head(prod.todo) = p
      /\ PieceEnd(1) \in Nat
  BY FirstPiece DEF IInv, CopyIn
<1>2. /\ \A c \in Places : Covers(p, c) => buf'[c] = prod.packet[p.from + c - p.at + 1]
      /\ \A c \in Places : ~Covers(p, c) => buf'[c] = buf[c]
      /\ buf' = [c \in Places |->
                  IF Covers(p, c) THEN prod.packet[p.from + c - p.at + 1] ELSE buf[c]]
  BY <1>1 DEF CopyIn
<1>3. PICK d \in Nat, m \in Nat, a \in Nat, n \in Nat :
        d = p.from /\ m = p.len /\ a = p.at /\ n = Count /\ a \in Places
  BY <1>1, CountRange, VarLenAssumption DEF IInv, PieceSet, Places
<1>4. \A x \in 0 .. m - 1 : /\ At(writeIndex + (d + x)) = a + x /\ n + (d + x) < Cap
                            /\ a + x \in Places
  BY <1>1, <1>3, PieceByte DEF IInv
<1>5. \A x \in 0 .. m - 1 : At(readIndex + (n + (d + x))) = a + x
  <2>1. ASSUME NEW x \in 0 .. m - 1 PROVE At(readIndex + (n + (d + x))) = a + x
    <3>1. d + x \in Nat /\ n + (d + x) < Cap
      BY <1>3, <1>4
    <3>2. At(writeIndex + (d + x)) = At(readIndex + Count + (d + x))
      BY <1>3, <3>1, BehindWrite DEF IInv
    <3>3. readIndex + Count + (d + x) = readIndex + (n + (d + x))
      BY <1>3, <3>1, IndexType DEF IInv
    <3> QED BY <1>4, <3>2, <3>3
  <2> QED BY <2>1
<1>6. \A c \in Places : Covers(p, c) => c - a \in 0 .. m - 1 /\ c = a + (c - a)
  BY <1>3 DEF Covers, Places
<1>7. \A x \in 0 .. m - 1 : Covers(p, a + x)
  BY <1>3 DEF Covers
<1>8. PICK r \in Places, w \in Places : r = readIndex /\ w = writeIndex
  BY IndexType DEF IInv
<1>9. Cap \in Nat \ {0} /\ n < Cap
  BY <1>3, CountRange, VarLenAssumption DEF IInv
<1> HIDE DEF p
<1>10. ASSUME NEW i \in 0 .. n - 1
       PROVE  buf'[At(readIndex + i)] = buf[At(readIndex + i)]
  <2> DEFINE c == At(r + i)
  <2>1. c \in Places
    BY <1>9, AtIsPlace DEF Places
  <2>2. ASSUME Covers(p, c) PROVE FALSE
    <3>1. c - a \in 0 .. m - 1 /\ c = a + (c - a)
      BY <1>6, <2>1, <2>2
    <3>2. PICK x \in 0 .. m - 1 : c = a + x
      BY <3>1
    <3>3. At(r + i) = At(r + (n + (d + x))) /\ n + (d + x) < Cap
      BY <1>4, <1>5, <1>8, <3>2
    <3>4. i \in 0 .. Cap - 1 /\ n + (d + x) \in 0 .. Cap - 1 /\ i < n + (d + x)
      BY <1>3, <1>9, <1>10, <3>2, <3>3
    <3>5. i = n + (d + x)
      BY <3>3, <3>4, AtInjective
    <3> QED BY <1>3, <3>2, <3>4, <3>5
  <2> QED BY <1>2, <1>8, <2>1, <2>2
<1>11. ASSUME NEW i \in 0 .. d - 1
       PROVE  buf'[At(writeIndex + i)] = buf[At(writeIndex + i)]
  <2> DEFINE c == At(w + i)
  <2>0. d < Cap
    <3>1. Done <= PieceEnd(1) /\ PieceEnd(1) <= Len(prod.packet)
      BY <1>1, <1>3
    <3>2. Count + Len(prod.packet) < Cap /\ Len(prod.packet) \in Nat
      BY <1>1, ProdType DEF IInv, ProdInv
    <3>3. PICK e \in Nat, l \in Nat : e = PieceEnd(1) /\ l = Len(prod.packet)
      <4>1. PieceEnd(1) \in Nat
        BY <1>1
      <4> QED BY <3>2, <4>1
    <3>4. d <= e /\ e <= l /\ n + l < Cap
      BY <1>1, <1>3, <3>1, <3>2, <3>3
    <3> QED BY <1>3, <1>9, <3>3, <3>4
  <2>1. c \in Places
    BY <1>3, <1>9, <2>0, AtIsPlace DEF Places
  <2>2. ASSUME Covers(p, c) PROVE FALSE
    <3>1. c - a \in 0 .. m - 1 /\ c = a + (c - a)
      BY <1>6, <2>1, <2>2
    <3>2. PICK x \in 0 .. m - 1 : c = a + x
      BY <3>1
    <3>3. At(w + i) = At(w + (d + x)) /\ n + (d + x) < Cap
      BY <1>4, <1>8, <3>2
    <3>4. i \in 0 .. Cap - 1 /\ d + x \in 0 .. Cap - 1 /\ i < d + x
      BY <1>3, <1>9, <1>11, <2>0, <3>2, <3>3
    <3>5. i = d + x
      BY <3>3, <3>4, AtInjective
    <3> QED BY <1>3, <3>2, <3>4, <3>5
  <2> QED BY <1>2, <1>8, <2>1, <2>2
<1>12. ASSUME NEW i \in d .. d + m - 1
       PROVE  buf'[At(writeIndex + i)] = prod.packet[i + 1]
  <2>1. PICK x \in 0 .. m - 1 : i = d + x
    <3>1. i - d \in 0 .. m - 1 /\ i = d + (i - d)
      BY <1>3, <1>12
    <3> QED BY <3>1
  <2>2. At(writeIndex + i) = a + x /\ a + x \in Places
    BY <1>4, <2>1
  <2>3. Covers(p, a + x)
    BY <1>7, <2>1
  <2>4. buf'[a + x] = prod.packet[p.from + (a + x) - p.at + 1]
    BY <1>2, <2>2, <2>3
  <2>5. d + (a + x) - a + 1 = i + 1
    BY <1>3, <2>1
  <2> QED BY <1>3, <2>2, <2>4, <2>5
<1>13. buf' \in [Places -> AllBytes]
  <2>1. ASSUME NEW c \in Places, Covers(p, c)
        PROVE  prod.packet[p.from + c - p.at + 1] \in AllBytes
    <3>1. PICK l \in Nat : l = Len(prod.packet) /\ d + m <= l
      BY <1>1, <1>3, ProdType DEF IInv
    <3>2. d + c - a + 1 \in 1 .. l
      <4>1. c - a \in 0 .. m - 1 /\ c \in Nat
        BY <1>6, <2>1 DEF Places
      <4>2. PICK x \in Nat : x = c - a /\ x < m
        BY <1>3, <4>1
      <4>3. d + c - a + 1 = d + x + 1
        BY <1>3, <4>1, <4>2
      <4>4. d + x + 1 \in 1 .. l
        <5>1. d + m <= l /\ x < m
          BY <3>1, <4>2
        <5> QED BY <5>1
      <4> QED BY <4>3, <4>4
    <3>3. prod.packet \in Seq(AllBytes)
      BY <1>1, ProdType DEF IInv
    <3> QED BY <1>3, <3>1, <3>2, <3>3, ElementOfSeq
  <2>2. buf \in [Places -> AllBytes]
    BY DEF IInv, RingType
  <2> QED BY <1>2, <2>1, <2>2
<1>14. Done = d /\ PieceEnd(1) = d + m /\ Count = n
  BY <1>1, <1>3
<1> QED BY <1>10, <1>11, <1>12, <1>13, <1>14

LEMMA CopyInInv == ASSUME IInv, CopyIn PROVE IInv'
<1>1. /\ prod \in [pc : {"copy", "publish"}, todo : Seq(PieceSet), packet : Seq(AllBytes)]
      /\ prod # NoCall /\ prod.todo # <<>> /\ Len(prod.todo) \in Nat \ {0}
      /\ Tail(prod.todo) \in Seq(PieceSet) /\ Len(Tail(prod.todo)) = Len(prod.todo) - 1
      /\ \A j \in 1 .. Len(prod.todo) - 1 : Tail(prod.todo)[j] = prod.todo[j + 1]
      /\ PieceEnd(1) = Done + prod.todo[1].len /\ PieceEnd(1) \in Nat
  BY FirstPiece DEF IInv, CopyIn
<1>20. PICK todo \in Seq(PieceSet), packet \in Seq(AllBytes) :
         todo = prod.todo /\ packet = prod.packet
  BY <1>1
<1>21. PICK rest \in Seq(PieceSet), n \in Nat \ {0} : rest = Tail(todo) /\ n = Len(todo)
  BY <1>1, <1>20
<1>2. /\ todo = prod.todo /\ packet = prod.packet /\ rest = Tail(todo) /\ n = Len(todo)
      /\ Len(rest) = n - 1 /\ \A j \in 1 .. n - 1 : rest[j] = todo[j + 1]
  BY <1>1, <1>20, <1>21
<1>3. /\ prod' = [pc |-> IF n = 1 THEN "publish" ELSE "copy", todo |-> rest, packet |-> packet]
      /\ UNCHANGED <<readIndex, writeIndex, cons>>
  BY <1>1, <1>2 DEF CopyIn
<1>4. /\ prod'.pc = IF n = 1 THEN "publish" ELSE "copy"
      /\ prod'.todo = rest /\ prod'.packet = packet
  BY <1>3
<1>5. Framed' /\ ConsInv'
  BY <1>3, CopyInTouches, ReadableKept
<1>6. RingType'
  <2>1. /\ buf' \in [Places -> AllBytes] /\ readIndex' \in Places /\ writeIndex' \in Places
    BY <1>3, CopyInTouches, IndexType DEF IInv
  <2>2. prod' \in [pc : {"copy", "publish"}, todo : Seq(PieceSet), packet : Seq(AllBytes)]
    BY <1>2, <1>3
  <2>3. \/ cons = NoTake
        \/ cons = [NoTake EXCEPT !.pc = "fatal"]
        \/ cons \in [pc : {"head", "body"}, todo : Seq(CutSet), count : Nat,
                     got : Seq(AllBytes), next : Nat]
    BY DEF IInv, RingType
  <2> QED BY <1>3, <2>1, <2>2, <2>3 DEF RingType, PieceSet
<1>7. rest = <<>> <=> n = 1
  <2>1. rest = <<>> <=> Len(rest) = 0
    BY EmptySeq
  <2> QED BY <1>2, <2>1
<1>8. n = Len(todo) /\ Len(rest) = n - 1 /\ PieceEnd(1) \in Nat /\ Done \in Nat
  <2>1. Done = prod.todo[1].from /\ prod.todo[1] \in PieceSet
    BY FirstPiece DEF IInv, CopyIn
  <2> QED BY <1>1, <1>2, <2>1 DEF PieceSet
<1>9. Done' = PieceEnd(1)
  <2>1. CASE n = 1
    BY <1>2, <1>4, <1>7, <2>1 DEF Done, PieceEnd
  <2>2. CASE n # 1
    <3>1. 1 \in 1 .. n - 1 /\ 1 + 1 = 2
      BY <2>2
    <3>2. rest[1] = todo[2] /\ 1 # n
      BY <1>2, <2>2, <3>1
    <3> QED BY <1>2, <1>4, <1>7, <2>2, <3>1, <3>2 DEF Done, PieceEnd
  <2> QED BY <2>1, <2>2
<1>10. ASSUME NEW j \in 1 .. n - 1
       PROVE  /\ rest[j].at = At(writeIndex + rest[j].from)
              /\ rest[j].at + rest[j].len <= Cap
              /\ rest[j].from + rest[j].len = PieceEnd(j)'
              /\ PieceEnd(j)' <= Len(packet)
  <2>1. j + 1 \in 1 .. n /\ rest[j] = todo[j + 1] /\ (j = n - 1 <=> j + 1 = n) /\ j \in Nat
    BY <1>2
  <2>2. PieceEnd(j)' = PieceEnd(j + 1)
    <3>1. CASE j = n - 1
      BY <1>2, <1>4, <2>1, <3>1 DEF PieceEnd
    <3>2. CASE j # n - 1
      <4>1. j + 1 \in 1 .. n - 1
        BY <1>2, <2>1, <3>2
      <4>2. rest[j + 1] = todo[j + 1 + 1]
        BY <1>2, <4>1
      <4> QED BY <1>2, <1>4, <2>1, <3>2, <4>2 DEF PieceEnd
    <3> QED BY <3>1, <3>2
  <2>3. /\ todo[j + 1].at = At(writeIndex + todo[j + 1].from)
        /\ todo[j + 1].at + todo[j + 1].len <= Cap
        /\ todo[j + 1].from + todo[j + 1].len = PieceEnd(j + 1)
        /\ PieceEnd(j + 1) <= Len(packet)
    BY <1>1, <1>2, <2>1 DEF IInv, ProdInv
  <2> QED BY <2>1, <2>2, <2>3
<1>11. ASSUME NEW i \in 0 .. PieceEnd(1) - 1
       PROVE  buf'[At(writeIndex + i)] = packet[i + 1]
  <2>1. CASE i \in 0 .. Done - 1
    <3>1. buf[At(writeIndex + i)] = packet[i + 1]
      BY <1>1, <1>2, <2>1 DEF IInv, ProdInv
    <3> QED BY <2>1, <3>1, CopyInTouches
  <2>2. CASE i \in Done .. PieceEnd(1) - 1
    BY <1>2, <2>2, CopyInTouches
  <2> QED BY <1>8, <1>11, <2>1, <2>2
<1>12. /\ Len(packet) > HeadLen /\ Count + Len(packet) < Cap
       /\ \A k \in 1 .. HeadLen : packet[k] = HeadOf(Len(packet))[k]
  BY <1>1, <1>2 DEF IInv, ProdInv
<1>13. Count' = Count
  BY <1>3 DEF Count
<1>14. ProdInv'
  <2>1. prod'.pc = "publish" <=> rest = <<>>
    BY <1>4, <1>7
  <2>2. \A j \in 1 .. Len(rest) :
          /\ rest[j].at = At(writeIndex + rest[j].from)
          /\ rest[j].at + rest[j].len <= Cap
          /\ rest[j].from + rest[j].len = PieceEnd(j)'
          /\ PieceEnd(j)' <= Len(packet)
    BY <1>2, <1>10
  <2>3. \A i \in 0 .. Done' - 1 : buf'[At(writeIndex + i)] = packet[i + 1]
    BY <1>9, <1>11
  <2> QED BY <1>3, <1>4, <1>12, <1>13, <2>1, <2>2, <2>3 DEF ProdInv
<1> QED BY <1>5, <1>6, <1>14 DEF IInv

LEMMA CountGrows ==
  ASSUME NEW r \in Places, NEW w \in Places, NEW l \in Nat, NEW n \in Nat,
         n = IF r <= w THEN w - r ELSE Cap + w - r, n + l < Cap
  PROVE  n + l = IF r <= At(w + l) THEN At(w + l) - r ELSE Cap + At(w + l) - r
<1>1. Cap \in Nat \ {0} /\ r \in Nat /\ w \in Nat /\ r < Cap /\ w < Cap
  BY VarLenAssumption DEF Places
<1>2. CASE r <= w
  BY <1>1, <1>2 DEF At
<1>3. CASE ~(r <= w)
  BY <1>1, <1>3 DEF At
<1> QED BY <1>2, <1>3

LEMMA WriteFacts ==
  ASSUME IInv, PublishWrite
  PROVE  /\ prod # NoCall /\ Len(prod.packet) \in Nat /\ HeadLen < Len(prod.packet)
         /\ Count + Len(prod.packet) < Cap
         /\ writeIndex' \in Places /\ prod' = NoCall
         /\ UNCHANGED <<buf, readIndex, cons, delivered>>
         /\ Count' = Count + Len(prod.packet)
         /\ HeadAt(Count, Len(prod.packet))
         /\ \A i \in 0 .. Len(prod.packet) - 1 :
              buf[At(readIndex + Count + i)] = prod.packet[i + 1]
<1>1. prod # NoCall /\ prod.pc = "publish"
  BY DEF PublishWrite, NoCall
<1>2. /\ prod.todo = <<>> /\ Len(prod.packet) > HeadLen /\ Count + Len(prod.packet) < Cap
      /\ \A k \in 1 .. HeadLen : prod.packet[k] = HeadOf(Len(prod.packet))[k]
      /\ \A i \in 0 .. Done - 1 : buf[At(writeIndex + i)] = prod.packet[i + 1]
  BY <1>1 DEF IInv, ProdInv
<1>3. PICK l \in Nat, n \in Nat, r \in Places, w \in Places :
        /\ l = Len(prod.packet) /\ n = Count /\ r = readIndex /\ w = writeIndex
        /\ l > HeadLen /\ n + l < Cap /\ Done = l
  BY <1>1, <1>2, ProdType, CountRange, IndexType, VarLenAssumption DEF IInv, Done
<1>4. writeIndex' = At(w + l) /\ prod' = NoCall /\ UNCHANGED <<buf, readIndex, cons, delivered>>
  BY <1>3 DEF PublishWrite
<1>5. Cap \in Nat \ {0} /\ HeadLen \in Nat \ {0}
  BY VarLenAssumption
<1>6. writeIndex' \in Places
  BY <1>3, <1>4, <1>5, AtIsPlace DEF Places
<1>7. Count' = n + l
  <2>1. n = IF r <= w THEN w - r ELSE Cap + w - r
    BY <1>3 DEF Count
  <2>2. Count' = IF r <= At(w + l) THEN At(w + l) - r ELSE Cap + At(w + l) - r
    BY <1>3, <1>4 DEF Count
  <2> QED BY <1>3, <2>1, <2>2, CountGrows
<1>8. ASSUME NEW i \in 0 .. l - 1 PROVE buf[At(readIndex + Count + i)] = prod.packet[i + 1]
  <2>1. i \in Nat /\ n + i < Cap
    BY <1>3, <1>5, <1>8
  <2>2. At(writeIndex + i) = At(readIndex + Count + i)
    BY <1>3, <2>1, BehindWrite DEF IInv
  <2>3. buf[At(writeIndex + i)] = prod.packet[i + 1]
    BY <1>2, <1>3, <1>8
  <2> QED BY <2>2, <2>3
<1>9. HeadAt(n, l)
  <2>1. ASSUME NEW k \in 1 .. HeadLen PROVE buf[At(readIndex + n + k - 1)] = HeadOf(l)[k]
    <3>1. k - 1 \in 0 .. l - 1 /\ k - 1 \in Nat /\ n + (k - 1) < Cap /\ (k - 1) + 1 = k
      BY <1>3, <1>5, <2>1
    <3>2. At(writeIndex + (k - 1)) = At(readIndex + Count + (k - 1))
      BY <1>3, <3>1, BehindWrite DEF IInv
    <3>3. r + n + (k - 1) = r + n + k - 1
      BY <1>3, <3>1, <2>1 DEF Places
    <3>4. buf[At(writeIndex + (k - 1))] = prod.packet[k]
      BY <1>2, <1>3, <3>1
    <3> QED BY <1>2, <1>3, <2>1, <3>2, <3>3, <3>4
  <2> QED BY <2>1 DEF HeadAt
<1> QED BY <1>1, <1>3, <1>4, <1>6, <1>7, <1>8, <1>9

\* The packet that was written ends where the write index is now.
LEMMA EndsAfterWrite ==
  ASSUME IInv, PublishWrite, NEW n \in Nat, NEW s \in [0 .. n -> Nat], Ends(n, s)
  PROVE  \E t \in [0 .. n + 1 -> Nat] :
           /\ t[n + 1] = Count' /\ \A k \in 0 .. n : t[k] = s[k]
           /\ Ends(n + 1, t)'
<1>1. PICK l \in Nat, c \in Nat :
        /\ l = Len(prod.packet) /\ c = Count /\ Count' = c + l /\ HeadLen < l
        /\ HeadAt(c, l)
  BY WriteFacts, CountRange, VarLenAssumption DEF IInv
<1>2. PICK t \in [0 .. n + 1 -> Nat] :
        t[n + 1] = c + l /\ \A k \in 0 .. n : t[k] = s[k]
  <2> DEFINE t == [k \in 0 .. n + 1 |-> IF k = n + 1 THEN Count' ELSE s[k]]
  <2>1. ASSUME NEW k \in 0 .. n + 1 PROVE (IF k = n + 1 THEN Count' ELSE s[k]) \in Nat
    <3>1. k = n + 1 \/ k \in 0 .. n
      OBVIOUS
    <3> QED BY <1>1, <3>1
  <2>2. t \in [0 .. n + 1 -> Nat]
    BY <2>1
  <2>3. n + 1 \in 0 .. n + 1 /\ \A k \in 0 .. n : k \in 0 .. n + 1 /\ k # n + 1
    OBVIOUS
  <2>4. t[n + 1] = c + l /\ \A k \in 0 .. n : t[k] = s[k]
    BY <1>1, <2>3
  <2> QED BY <2>2, <2>4
<1>3. \A i, total : HeadAt(i, total)' = HeadAt(i, total)
  BY WriteFacts DEF HeadAt
<1>4. t[0] = 0 /\ s[n] = c
  BY <1>1, <1>2 DEF Ends
<1>5. ASSUME NEW k \in 1 .. n + 1
      PROVE  /\ t[k - 1] + HeadLen < t[k] /\ t[k] <= c + l
             /\ HeadAt(t[k - 1], t[k] - t[k - 1])
  <2>1. CASE k \in 1 .. n
    <3>1. /\ t[k - 1] = s[k - 1] /\ t[k] = s[k] /\ s[k] \in Nat /\ s[k] <= c
          /\ s[k - 1] + HeadLen < s[k] /\ HeadAt(s[k - 1], s[k] - s[k - 1])
      BY <1>1, <1>2, <2>1, EndsFacts DEF IInv
    <3>2. s[k] <= c + l
      <4>1. PICK e \in Nat : e = s[k] /\ e <= c
        BY <3>1
      <4> QED BY <4>1
    <3> QED BY <3>1, <3>2
  <2>2. CASE k = n + 1
    <3>1. k - 1 = n /\ n \in 0 .. n
      BY <2>2
    <3>2. t[k - 1] = c /\ t[k] = c + l
      BY <1>2, <1>4, <2>2, <3>1
    <3>3. c + l - c = l /\ c + HeadLen < c + l /\ c + l <= c + l
      <4>1. PICK h \in Nat : h = HeadLen /\ h < l
        BY <1>1, VarLenAssumption
      <4> QED BY <4>1
    <3>4. HeadAt(c, l)
      BY <1>1
    <3> QED BY <3>2, <3>3, <3>4
  <2> QED BY <1>5, <2>1, <2>2
<1>6. Ends(n + 1, t)'
  BY <1>1, <1>2, <1>3, <1>4, <1>5 DEF Ends
<1> QED BY <1>1, <1>2, <1>6

\* The packet is handed over: it stands behind the others, whole.
LEMMA PublishWriteInv == ASSUME IInv, PublishWrite PROVE IInv'
<1>3. PICK l \in Nat, n \in Nat :
        /\ l = Len(prod.packet) /\ n = Count /\ Count' = n + l /\ HeadLen < l
  BY WriteFacts, CountRange, VarLenAssumption DEF IInv
<1>4. /\ writeIndex' \in Places /\ prod' = NoCall
      /\ UNCHANGED <<buf, readIndex, cons, delivered>>
  BY WriteFacts
<1>5. HeadLen \in Nat \ {0}
  BY VarLenAssumption
<1>8. \A i, total : HeadAt(i, total)' = HeadAt(i, total)
  BY <1>4 DEF HeadAt
<1>10. Framed'
  <2>1. PICK k \in Nat : \E s \in [0 .. k -> Nat] : Ends(k, s)
    BY DEF IInv, Framed
  <2>2. PICK s \in [0 .. k -> Nat] : Ends(k, s)
    BY <2>1
  <2>3. \E t \in [0 .. k + 1 -> Nat] : Ends(k + 1, t)'
    BY <2>2, EndsAfterWrite
  <2>4. k + 1 \in Nat
    OBVIOUS
  <2> QED BY <2>3, <2>4 DEF Framed
<1>11. \A d : HasRead(d)' = HasRead(d)
  BY <1>4 DEF HasRead
<1>12. \A todo, d, e : Reads(todo, d, e)' = Reads(todo, d, e)
  BY <1>4 DEF Reads
<1>13. ConsInv'
  <2>1. cons'.pc # "fatal"
    BY <1>4 DEF IInv, ConsInv
  <2>2. ASSUME cons'.pc = "head"
        PROVE  /\ cons'.count <= Count'
               /\ \E total \in HeadLen + 1 .. cons'.count : HeadAt(0, total)'
               /\ Len(cons'.got) <= HeadLen /\ HasRead(0)'
               /\ Reads(cons.todo, Len(cons.got), HeadLen)'
    <3>1. /\ cons.count <= n
          /\ \E total \in HeadLen + 1 .. cons.count : HeadAt(0, total)
          /\ Len(cons.got) <= HeadLen /\ HasRead(0)
          /\ Reads(cons.todo, Len(cons.got), HeadLen)
      BY <1>3, <1>4, <2>2 DEF IInv, ConsInv
    <3>2. cons.count \in Nat
      BY <1>4, <2>2, ConsType DEF IInv
    <3>3. cons.count <= n + l
      BY <1>3, <3>1, <3>2
    <3> QED BY <1>3, <1>4, <1>8, <1>11, <1>12, <3>1, <3>3
  <2>3. ASSUME cons'.pc = "body"
        PROVE  \E total \in HeadLen + 1 .. Count' :
                 /\ HeadAt(0, total)' /\ cons'.next = At(readIndex' + total)
                 /\ HeadLen + Len(cons'.got) <= total /\ HasRead(HeadLen)'
                 /\ Reads(cons.todo, HeadLen + Len(cons.got), total)'
    <3>1. PICK total \in HeadLen + 1 .. n :
             /\ HeadAt(0, total) /\ cons.next = At(readIndex + total)
             /\ HeadLen + Len(cons.got) <= total /\ HasRead(HeadLen)
             /\ Reads(cons.todo, HeadLen + Len(cons.got), total)
      BY <1>3, <1>4, <2>3 DEF IInv, ConsInv
    <3>2. total \in HeadLen + 1 .. Count'
      BY <1>3, <1>5, <3>1
    <3> QED BY <1>4, <1>8, <1>11, <1>12, <3>1, <3>2
  <2> QED BY <2>1, <2>2, <2>3, <1>4 DEF ConsInv
<1>14. RingType'
  <2>1. buf' \in [Places -> AllBytes] /\ readIndex' \in Places
    BY <1>4 DEF IInv, RingType
  <2>2. \/ cons = NoTake
        \/ cons = [NoTake EXCEPT !.pc = "fatal"]
        \/ cons \in [pc : {"head", "body"}, todo : Seq(CutSet), count : Nat,
                     got : Seq(AllBytes), next : Nat]
    BY DEF IInv, RingType
  <2> QED BY <1>4, <2>1, <2>2 DEF RingType
<1>15. ProdInv'
  BY <1>4 DEF ProdInv
<1> QED BY <1>10, <1>13, <1>14, <1>15 DEF IInv

-----------------------------------------------------------------------------
(* The consumer.                                                            *)

\* What a consumer's step leaves to show.
LEMMA ConsumerReads ==
  ASSUME IInv, UNCHANGED <<buf, readIndex, writeIndex, prod>>, ConsInv',
         cons' \in [pc : {"head", "body"}, todo : Seq(CutSet), count : Nat,
                    got : Seq(AllBytes), next : Nat]
  PROVE  IInv'
<1>1. Count' = Count /\ Framed' = Framed
  BY SameRing
<1>2. ProdInv' = ProdInv
  BY <1>1 DEF ProdInv, PieceEnd, Done
<1>3. RingType'
  BY DEF IInv, RingType
<1> QED BY <1>1, <1>2, <1>3 DEF IInv

\* Some packet stands at the read index when the ring is not empty.
LEMMA FirstPacket ==
  ASSUME RingType, Framed, readIndex # writeIndex
  PROVE  \E total \in HeadLen + 1 .. Count : HeadAt(0, total)
<1>1. PICK n \in Nat : \E s \in [0 .. n -> Nat] : Ends(n, s)
  BY DEF Framed
<1>2. PICK s \in [0 .. n -> Nat] : Ends(n, s)
  BY <1>1
<1>3. Count # 0
  BY IndexType, VarLenAssumption DEF Count, Places
<1>4. s[0] = 0 /\ n # 0
  BY <1>2, <1>3 DEF Ends
<1>5. 1 \in 1 .. n /\ 1 - 1 = 0
  BY <1>4
<1>6. PICK t \in Nat : t = s[1] /\ HeadLen < t /\ t <= Count /\ HeadAt(0, t - 0)
  <2>1. /\ s[1 - 1] + HeadLen < s[1] /\ s[1] <= Count /\ s[1] \in Nat
        /\ HeadAt(s[1 - 1], s[1] - s[1 - 1])
    BY <1>2, <1>5, EndsFacts
  <2>2. 0 + HeadLen = HeadLen
    BY VarLenAssumption
  <2> QED BY <1>4, <1>5, <2>1, <2>2
<1>7. t \in HeadLen + 1 .. Count /\ t - 0 = t
  BY <1>6, CountRange, VarLenAssumption
<1> QED BY <1>6, <1>7

LEMMA CutType ==
  ASSUME NEW n \in Nat, NEW a \in Nat
  PROVE  Cut(a, n) \in CutSet /\ Cut(a, n).at = a /\ Cut(a, n).len = n
  BY DEF Cut, CutSet

LEMMA OneCut ==
  ASSUME NEW a, NEW S, a \in S
  PROVE  <<a>> \in Seq(S) /\ Len(<<a>>) = 1 /\ <<a>>[1] = a
  OBVIOUS

LEMMA TwoCuts ==
  ASSUME NEW a, NEW b, NEW S, a \in S, b \in S
  PROVE  <<a, b>> \in Seq(S) /\ Len(<<a, b>>) = 2 /\ <<a, b>>[1] = a /\ <<a, b>>[2] = b
  OBVIOUS

LEMMA HeadCutsRead ==
  ASSUME RingType, HeadLen < Cap
  PROVE  /\ HeadCuts(readIndex) \in Seq(CutSet)
         /\ Reads(HeadCuts(readIndex), 0, HeadLen)
<1>1. PICK r \in Places : r = readIndex
  BY IndexType
<1>2. Cap \in Nat \ {0} /\ HeadLen \in Nat \ {0} /\ r \in Nat /\ r < Cap
  BY VarLenAssumption DEF Places
<1>3. CASE Cap - r >= HeadLen
  <2>1. HeadCuts(r) = <<Cut(r, HeadLen)>>
    BY <1>3 DEF HeadCuts
  <2>2. Cut(r, HeadLen) \in CutSet /\ Cut(r, HeadLen).at = r /\ Cut(r, HeadLen).len = HeadLen
    BY <1>2, CutType
  <2>3. /\ HeadCuts(r) \in Seq(CutSet) /\ Len(HeadCuts(r)) = 1
        /\ HeadCuts(r)[1].at = r /\ HeadCuts(r)[1].len = HeadLen
    BY <2>1, <2>2, OneCut
  <2>4. HeadLen = HeadLen - 0 /\ r = At(r + 0) /\ r + HeadLen <= Cap
    BY <1>2, <1>3 DEF At
  <2> QED BY <1>1, <2>3, <2>4 DEF Reads
<1>4. CASE ~(Cap - r >= HeadLen)
  <2> DEFINE t == Cap - r
             u == HeadLen - (Cap - r)
  <2>1. HeadCuts(r) = <<Cut(r, t), Cut(0, u)>>
    BY <1>4 DEF HeadCuts
  <2>2. t \in Nat /\ u \in Nat
    BY <1>2, <1>4
  <2>3. /\ Cut(r, t) \in CutSet /\ Cut(r, t).at = r /\ Cut(r, t).len = t
        /\ Cut(0, u) \in CutSet /\ Cut(0, u).at = 0 /\ Cut(0, u).len = u
    BY <1>2, <2>2, CutType
  <2>4. /\ HeadCuts(r) \in Seq(CutSet) /\ Len(HeadCuts(r)) = 2
        /\ HeadCuts(r)[1].at = r /\ HeadCuts(r)[1].len = t
        /\ HeadCuts(r)[2].at = 0 /\ HeadCuts(r)[2].len = u
    BY <2>1, <2>3, TwoCuts
  <2>5. t + u = HeadLen - 0 /\ r = At(r + 0) /\ r + t <= Cap /\ 0 = At(r + 0 + t)
    BY <1>2, <1>4 DEF At
  <2>6. 0 + u <= Cap
    BY <1>2, <1>4
  <2> QED BY <1>1, <2>4, <2>5, <2>6 DEF Reads
<1> QED BY <1>3, <1>4

LEMMA BodyCutsRead ==
  ASSUME RingType, NEW total \in HeadLen + 1 .. Cap - 1
  PROVE  /\ BodyCuts(readIndex, total) \in Seq(CutSet)
         /\ Reads(BodyCuts(readIndex, total), HeadLen, total)
<1>1. PICK r \in Places : r = readIndex
  BY IndexType
<1>2. Cap \in Nat \ {0} /\ HeadLen \in Nat \ {0} /\ r \in Nat /\ r < Cap
  BY VarLenAssumption DEF Places
<1>3. total \in Nat /\ HeadLen < total /\ total < Cap
  BY <1>2
<1>4. CASE Cap - r >= total
  <2> DEFINE a == r + HeadLen
             m == total - HeadLen
  <2>1. BodyCuts(r, total) = <<Cut(a, m)>> /\ a \in Nat /\ m \in Nat
    BY <1>2, <1>3, <1>4 DEF BodyCuts
  <2>2. Cut(a, m) \in CutSet /\ Cut(a, m).at = a /\ Cut(a, m).len = m
    BY <2>1, CutType
  <2>3. /\ BodyCuts(r, total) \in Seq(CutSet) /\ Len(BodyCuts(r, total)) = 1
        /\ BodyCuts(r, total)[1].at = a /\ BodyCuts(r, total)[1].len = m
    BY <2>1, <2>2, OneCut
  <2>4. a = At(r + HeadLen) /\ a + m <= Cap
    BY <1>2, <1>3, <1>4 DEF At
  <2> QED BY <1>1, <2>3, <2>4 DEF Reads
<1>5. CASE ~(Cap - r >= total) /\ Cap - r >= HeadLen
  <2> DEFINE a == r + HeadLen
             m == Cap - r - HeadLen
             u == total - (Cap - r)
  <2>1. BodyCuts(r, total) = <<Cut(a, m), Cut(0, u)>> /\ a \in Nat /\ m \in Nat /\ u \in Nat
    BY <1>2, <1>3, <1>5 DEF BodyCuts
  <2>2. /\ Cut(a, m) \in CutSet /\ Cut(a, m).at = a /\ Cut(a, m).len = m
        /\ Cut(0, u) \in CutSet /\ Cut(0, u).at = 0 /\ Cut(0, u).len = u
    BY <2>1, CutType
  <2>3. /\ BodyCuts(r, total) \in Seq(CutSet) /\ Len(BodyCuts(r, total)) = 2
        /\ BodyCuts(r, total)[1].at = a /\ BodyCuts(r, total)[1].len = m
        /\ BodyCuts(r, total)[2].at = 0 /\ BodyCuts(r, total)[2].len = u
    BY <2>1, <2>2, TwoCuts
  <2>4. m + u = total - HeadLen /\ 0 = At(r + HeadLen + m) /\ 0 + u <= Cap
    BY <1>2, <1>3, <1>5 DEF At
  <2>5. (m = 0 \/ a = At(r + HeadLen)) /\ a + m <= Cap
    BY <1>2, <1>3, <1>5 DEF At
  <2>6. PICK todo : todo = BodyCuts(r, total)
    OBVIOUS
  <2> HIDE DEF a, m, u
  <2>7. /\ Len(todo) = 2 /\ todo[1].at = a /\ todo[1].len = m /\ todo[2].at = 0 /\ todo[2].len = u
    BY <2>3, <2>6
  <2>8. Reads(todo, HeadLen, total)
    BY <1>1, <2>4, <2>5, <2>7 DEF Reads
  <2> QED BY <1>1, <2>3, <2>6, <2>8
<1>6. CASE ~(Cap - r >= total) /\ ~(Cap - r >= HeadLen)
  <2> DEFINE a == HeadLen - (Cap - r)
             m == total - HeadLen
  <2>1. BodyCuts(r, total) = <<Cut(a, m)>> /\ a \in Nat /\ m \in Nat
    BY <1>2, <1>3, <1>6 DEF BodyCuts
  <2>2. Cut(a, m) \in CutSet /\ Cut(a, m).at = a /\ Cut(a, m).len = m
    BY <2>1, CutType
  <2>3. /\ BodyCuts(r, total) \in Seq(CutSet) /\ Len(BodyCuts(r, total)) = 1
        /\ BodyCuts(r, total)[1].at = a /\ BodyCuts(r, total)[1].len = m
    BY <2>1, <2>2, OneCut
  <2>4. a = At(r + HeadLen) /\ a + m <= Cap
    BY <1>2, <1>3, <1>6 DEF At
  <2> QED BY <1>1, <2>3, <2>4 DEF Reads
<1> QED BY <1>4, <1>5, <1>6

LEMMA GetDataInv == ASSUME IInv, GetData PROVE IInv'
<1>1. readIndex # writeIndex /\ UNCHANGED <<buf, readIndex, writeIndex, prod>>
  BY DEF GetData
<1>2. PICK total \in HeadLen + 1 .. Count : HeadAt(0, total)
  BY <1>1, FirstPacket DEF IInv
<1>3. Count \in Nat /\ HeadLen < Count /\ HeadLen < Cap
  BY <1>2, CountRange, VarLenAssumption DEF IInv
<1>4. cons' = [NoTake EXCEPT !.pc = "head", !.todo = HeadCuts(readIndex), !.count = Count]
  BY <1>3, VarLenAssumption DEF GetData
<1>5. /\ HeadCuts(readIndex) \in Seq(CutSet)
      /\ Reads(HeadCuts(readIndex), 0, HeadLen)
  BY <1>3, HeadCutsRead DEF IInv
<1>6. /\ cons'.pc = "head" /\ cons'.todo = HeadCuts(readIndex) /\ cons'.count = Count
      /\ cons'.got = <<>>
      /\ cons' \in [pc : {"head", "body"}, todo : Seq(CutSet), count : Nat,
                    got : Seq(AllBytes), next : Nat]
  <2>1. cons' = [pc |-> "head", todo |-> HeadCuts(readIndex), count |-> Count, got |-> <<>>,
                 next |-> 0]
    BY <1>4 DEF NoTake
  <2>2. PICK todo \in Seq(CutSet), n \in Nat :
          todo = HeadCuts(readIndex) /\ n = Count
    BY <1>3, <1>5
  <2>3. <<>> \in Seq(AllBytes)
    BY EmptySeq
  <2> QED BY <2>1, <2>2, <2>3
<1>7. HeadAt(0, total)' = HeadAt(0, total) /\ Count' = Count
  BY <1>1 DEF HeadAt, Count
<1>8. Len(cons'.got) = 0 /\ Len(cons'.got) <= HeadLen
  BY <1>6, VarLenAssumption
<1>9. HasRead(0)'
  BY <1>8 DEF HasRead
<1>10. Reads(cons.todo, Len(cons.got), HeadLen)'
  BY <1>1, <1>5, <1>6, <1>8 DEF Reads
<1>11. ConsInv'
  BY <1>2, <1>3, <1>6, <1>7, <1>8, <1>9, <1>10 DEF ConsInv
<1> QED BY <1>1, <1>6, <1>11, ConsumerReads

LEMMA TailOf ==
  ASSUME NEW S, NEW s \in Seq(S), s # <<>>, NEW n, n = Len(s)
  PROVE  /\ n \in Nat \ {0} /\ Head(s) = s[1] /\ Head(s) \in S
         /\ Tail(s) \in Seq(S) /\ Len(Tail(s)) = n - 1
         /\ \A j \in 1 .. n - 1 : Tail(s)[j] = s[j + 1]
         /\ n = 1 => Tail(s) = <<>>
<1>1. n \in Nat \ {0}
  BY EmptySeq
<1>2. Head(s) \in S /\ Tail(s) \in Seq(S) /\ Len(Tail(s)) = n - 1
  BY HeadTailProperties
<1>3. \A j \in 1 .. Len(Tail(s)) : Tail(s)[j] = s[j + 1]
  BY HeadTailProperties
<1>4. \A j \in 1 .. n - 1 : Tail(s)[j] = s[j + 1]
  BY <1>2, <1>3
<1>5. Head(s) = s[1]
  BY <1>1
<1>6. n = 1 => Tail(s) = <<>>
  <2>1. ASSUME n = 1 PROVE Tail(s) = <<>>
    <3>1. Len(Tail(s)) = 0
      BY <1>2, <2>1
    <3> QED BY <1>2, <3>1, EmptySeq
  <2> QED BY <2>1
<1> QED BY <1>1, <1>2, <1>4, <1>5, <1>6

\* The first of the cuts still to read.
LEMMA ReadStep ==
  ASSUME RingType, NEW todo \in Seq(CutSet), todo # <<>>,
         NEW d \in Nat, NEW e \in Nat, e < Cap, Reads(todo, d, e)
  PROVE  /\ Head(todo) \in CutSet /\ Tail(todo) \in Seq(CutSet)
         /\ d + Head(todo).len <= e
         /\ Reads(Tail(todo), d + Head(todo).len, e)
         /\ \A x \in 0 .. Head(todo).len - 1 :
              Head(todo).at + x = At(readIndex + (d + x)) /\ d + x < e
<1>1. PICK r \in Places : r = readIndex /\ r \in Nat
  BY IndexType
<1>2. PICK n \in Nat : n = Len(todo) /\ n # 0
  BY TailOf
<1>3. /\ Head(todo) = todo[1] /\ Tail(todo) \in Seq(CutSet)
      /\ Len(Tail(todo)) = n - 1 /\ \A j \in 1 .. n - 1 : Tail(todo)[j] = todo[j + 1]
      /\ Head(todo) \in CutSet
      /\ n = 1 => Tail(todo) = <<>>
  BY <1>2, TailOf
<1>4. PICK a \in Nat, m \in Nat : a = todo[1].at /\ m = todo[1].len
  BY <1>3 DEF CutSet
<1>5. ASSUME m = 0 \/ a = At(r + d), a + m <= Cap, d + m <= e
      PROVE  \A x \in 0 .. m - 1 : a + x = At(r + (d + x)) /\ d + x < e
  <2>1. ASSUME NEW x \in 0 .. m - 1 PROVE a + x = At(r + (d + x)) /\ d + x < e
    <3>1. /\ x \in Nat /\ x < m /\ a = At(r + d) /\ d + x < Cap /\ a + x < Cap /\ d + x < e
          /\ Cap \in Nat
      BY <1>5, <2>1, VarLenAssumption
    <3>2. At(r + d + x) = At(r + d) + x
      BY <3>1, InPiece
    <3>3. r + d + x = r + (d + x)
      BY <1>1, <3>1
    <3> QED BY <3>1, <3>2, <3>3
  <2> QED BY <2>1
<1>6. CASE todo = <<>> /\ d = e
  BY <1>6
<1>7. CASE /\ Len(todo) = 1 /\ todo[1].len = e - d
           /\ todo[1].len = 0 \/ todo[1].at = At(readIndex + d)
           /\ todo[1].at + todo[1].len <= Cap
  <2>1. m = e - d /\ (m = 0 \/ a = At(r + d)) /\ a + m <= Cap
    BY <1>1, <1>4, <1>7
  <2>2. d + m = e /\ d + m <= e
    BY <2>1
  <2>3. Tail(todo) = <<>>
    BY <1>2, <1>3, <1>7
  <2>4. Reads(Tail(todo), d + m, e)
    BY <2>2, <2>3 DEF Reads
  <2> QED BY <1>1, <1>3, <1>4, <1>5, <2>1, <2>2, <2>4
<1>8. CASE /\ Len(todo) = 2 /\ todo[1].len + todo[2].len = e - d
           /\ todo[1].len = 0 \/ todo[1].at = At(readIndex + d)
           /\ todo[1].at + todo[1].len <= Cap
           /\ todo[2].len = 0 \/ todo[2].at = At(readIndex + d + todo[1].len)
           /\ todo[2].at + todo[2].len <= Cap
  <2>1. todo[2] \in CutSet
    <3>1. 2 \in 1 .. Len(todo)
      BY <1>8
    <3> QED BY <3>1, ElementOfSeq
  <2>2. PICK b \in Nat, l \in Nat : b = todo[2].at /\ l = todo[2].len
    BY <2>1 DEF CutSet
  <2>3. /\ m + l = e - d /\ (m = 0 \/ a = At(r + d)) /\ a + m <= Cap
        /\ (l = 0 \/ b = At(r + d + m)) /\ b + l <= Cap
    BY <1>1, <1>4, <1>8, <2>2
  <2>4. d + m <= e /\ l = e - (d + m) /\ r + d + m = r + (d + m)
    BY <1>1, <2>3
  <2>5. PICK rest : rest = Tail(todo)
    OBVIOUS
  <2>6. Len(rest) = 1 /\ rest[1] = todo[2]
    <3>1. n = 2
      BY <1>2, <1>8
    <3>2. 1 \in 1 .. n - 1 /\ 1 + 1 = 2 /\ n - 1 = 1
      BY <3>1
    <3>3. rest[1] = todo[1 + 1]
      BY <1>3, <2>5, <3>2
    <3> QED BY <1>3, <2>5, <3>2, <3>3
  <2>7. Reads(rest, d + m, e)
    BY <1>1, <2>2, <2>3, <2>4, <2>6 DEF Reads
  <2> QED BY <1>1, <1>3, <1>4, <1>5, <2>3, <2>4, <2>5, <2>7
<1> QED BY <1>6, <1>7, <1>8 DEF Reads

\* One read of the consumer appends the bytes that follow those it has.
LEMMA CopyOutReads ==
  ASSUME RingType, CopyOut, NEW d \in Nat, NEW e \in Nat, e < Cap, HasRead(d),
         Reads(cons.todo, d + Len(cons.got), e)
  PROVE  /\ cons' = [cons EXCEPT !.got = cons'.got, !.todo = cons'.todo]
         /\ cons'.todo \in Seq(CutSet) /\ cons'.got \in Seq(AllBytes)
         /\ d + Len(cons'.got) <= e /\ HasRead(d)'
         /\ Reads(cons.todo, d + Len(cons.got), e)'
<1>1. PICK todo \in Seq(CutSet), got \in Seq(AllBytes), g \in Nat, r \in Places :
        /\ todo = cons.todo /\ got = cons.got /\ g = Len(got) /\ r = readIndex /\ r \in Nat
        /\ todo # <<>>
  BY ConsType, IndexType DEF CopyOut
<1>20. PICK k \in Nat : k = d + g
  OBVIOUS
<1>21. /\ Head(todo) \in CutSet /\ Tail(todo) \in Seq(CutSet)
       /\ k + Head(todo).len <= e
       /\ Reads(Tail(todo), k + Head(todo).len, e)
       /\ \A x \in 0 .. Head(todo).len - 1 :
            Head(todo).at + x = At(readIndex + (k + x)) /\ k + x < e
  <2>1. Reads(todo, k, e)
    BY <1>1, <1>20
  <2> QED BY <1>1, <2>1, ReadStep
<1>22. PICK c \in CutSet, rest \in Seq(CutSet) : c = Head(todo) /\ rest = Tail(todo)
  BY <1>21
<1>23. PICK m \in Nat, a \in Nat : m = c.len /\ a = c.at
  BY DEF CutSet
<1>2. /\ (d + g) + m <= e /\ Reads(rest, d + g + m, e)
      /\ \A x \in 0 .. m - 1 : a + x = At(r + (d + g + x)) /\ d + g + x < e
      /\ c = Head(todo) /\ rest = Tail(todo) /\ m = c.len /\ a = c.at
  BY <1>1, <1>20, <1>21, <1>22, <1>23
<1> DEFINE read == [i \in 1 .. m |-> buf[a + i - 1]]
<1>3. /\ cons' = [cons EXCEPT !.got = got \o read, !.todo = rest]
      /\ UNCHANGED <<buf, readIndex, writeIndex, prod>>
  BY <1>1, <1>2 DEF CopyOut
<1>4. \A i \in 1 .. m : /\ buf[a + i - 1] = buf[At(r + (d + g + (i - 1)))]
                        /\ buf[a + i - 1] \in AllBytes
  <2>1. ASSUME NEW i \in 1 .. m
        PROVE  /\ buf[a + i - 1] = buf[At(r + (d + g + (i - 1)))]
               /\ buf[a + i - 1] \in AllBytes
    <3>1. PICK x \in 0 .. m - 1 : x = i - 1 /\ a + i - 1 = a + x /\ x \in Nat
      BY <2>1
    <3>2. a + x = At(r + (d + g + x)) /\ d + g + x < e
      BY <1>2, <3>1
    <3>3. Cap \in Nat /\ r < Cap
      BY VarLenAssumption DEF Places
    <3>4. r + (d + g + x) \in 0 .. Cap + Cap - 1
      BY <1>1, <3>1, <3>2, <3>3
    <3>5. At(r + (d + g + x)) \in Places
      BY <3>4, AtIsPlace
    <3>6. buf \in [Places -> AllBytes]
      BY DEF RingType
    <3> QED BY <3>1, <3>2, <3>5, <3>6
  <2> QED BY <2>1
<1>5. read \in Seq(AllBytes) /\ Len(read) = m
  <2>1. read \in [1 .. m -> AllBytes]
    BY <1>4
  <2> QED BY <2>1, FunctionIsSequence
<1>6. \A i \in 1 .. m : read[i] = buf[At(r + (d + g + (i - 1)))]
  BY <1>4
<1> HIDE DEF read
<1>7. PICK all \in Seq(AllBytes) :
        /\ all = got \o read /\ Len(all) = g + m
        /\ \A i \in 1 .. g + m : all[i] = IF i <= g THEN got[i] ELSE read[i - g]
  <2>1. /\ got \o read \in Seq(AllBytes) /\ Len(got \o read) = Len(got) + Len(read)
        /\ \A i \in 1 .. Len(got) + Len(read) :
             (got \o read)[i] = IF i <= Len(got) THEN got[i] ELSE read[i - Len(got)]
    BY <1>5, ConcatProperties
  <2>2. Len(got) = g /\ Len(read) = m
    BY <1>1, <1>5
  <2>3. /\ got \o read \in Seq(AllBytes) /\ Len(got \o read) = g + m
        /\ \A i \in 1 .. g + m : (got \o read)[i] = IF i <= g THEN got[i] ELSE read[i - g]
    BY <2>1, <2>2
  <2> QED BY <2>3
<1>8. cons'.got = all /\ cons'.todo = rest
  <2>1. cons \in [pc : {"head", "body"}, todo : Seq(CutSet), count : Nat,
                  got : Seq(AllBytes), next : Nat]
    BY ConsType DEF CopyOut
  <2> QED BY <1>3, <1>7, <2>1
<1>9. ASSUME NEW i \in 1 .. g + m PROVE all[i] = buf[At(r + d + i - 1)]
  <2>1. CASE i <= g
    <3>1. i \in 1 .. g
      BY <1>9, <2>1
    <3>2. got[i] = buf[At(r + d + i - 1)]
      BY <1>1, <3>1 DEF HasRead
    <3> QED BY <1>7, <2>1, <3>2
  <2>2. CASE ~(i <= g)
    <3>1. i - g \in 1 .. m /\ r + (d + g + ((i - g) - 1)) = r + d + i - 1
      <4>1. r \in Nat /\ i \in Nat
        BY <1>1, <1>9
      <4> QED BY <1>9, <2>2, <4>1
    <3> QED BY <1>6, <1>7, <2>2, <3>1
  <2> QED BY <2>1, <2>2
<1>10. HasRead(d)'
  BY <1>1, <1>3, <1>7, <1>8, <1>9 DEF HasRead
<1>11. d + (g + m) = d + g + m
  OBVIOUS
<1>12. Reads(cons.todo, d + Len(cons.got), e)'
  BY <1>2, <1>3, <1>7, <1>8, <1>11 DEF Reads
<1>13. d + Len(cons'.got) <= e
  BY <1>2, <1>7, <1>8, <1>11
<1> QED BY <1>3, <1>7, <1>8, <1>10, <1>12, <1>13

LEMMA CopyOutInv == ASSUME IInv, CopyOut PROVE IInv'
<1>1. /\ cons.pc \in {"head", "body"} /\ UNCHANGED <<buf, readIndex, writeIndex, prod>>
      /\ cons'.pc = cons.pc /\ cons'.count = cons.count /\ cons'.next = cons.next
  <2>1. cons.pc \in {"head", "body"}
    BY DEF CopyOut
  <2>2. cons \in [pc : {"head", "body"}, todo : Seq(CutSet), count : Nat,
                  got : Seq(AllBytes), next : Nat]
    BY <2>1, ConsType DEF IInv
  <2> QED BY <2>2 DEF CopyOut
<1>2. Cap \in Nat /\ HeadLen \in Nat \ {0} /\ Count \in Nat /\ Count < Cap
  BY CountRange, VarLenAssumption DEF IInv
<1>3. Count' = Count /\ \A i, total : HeadAt(i, total)' = HeadAt(i, total)
  BY <1>1 DEF Count, HeadAt
<1>4. Len(cons.got) \in Nat /\ cons.count \in Nat
  BY <1>1, ConsType DEF IInv
<1>5. cons \in [pc : {"head", "body"}, todo : Seq(CutSet), count : Nat,
                got : Seq(AllBytes), next : Nat]
  BY <1>1, ConsType DEF IInv
<1>6. CASE cons.pc = "head"
  <2>1. /\ cons.count <= Count /\ HasRead(0) /\ Reads(cons.todo, Len(cons.got), HeadLen)
        /\ \E total \in HeadLen + 1 .. cons.count : HeadAt(0, total)
    BY <1>6 DEF IInv, ConsInv
  <2>2. HeadLen < Cap /\ 0 + Len(cons.got) = Len(cons.got)
    BY <1>2, <1>4, <2>1
  <2>3. Reads(cons.todo, 0 + Len(cons.got), HeadLen)
    BY <2>1, <2>2
  <2>4. /\ cons' = [cons EXCEPT !.got = cons'.got, !.todo = cons'.todo]
        /\ cons'.todo \in Seq(CutSet) /\ cons'.got \in Seq(AllBytes)
        /\ 0 + Len(cons'.got) <= HeadLen /\ HasRead(0)'
        /\ Reads(cons.todo, 0 + Len(cons.got), HeadLen)'
    BY <1>2, <2>1, <2>2, <2>3, CopyOutReads DEF IInv
  <2>5. Len(cons'.got) \in Nat
    BY <2>4, LenProperties
  <2>6. 0 + Len(cons'.got) = Len(cons'.got)
    BY <2>5
  <2>7. Len(cons'.got) <= HeadLen /\ Reads(cons.todo, Len(cons.got), HeadLen)'
    BY <2>4, <2>6
  <2>8. ConsInv'
    BY <1>1, <1>3, <1>6, <2>1, <2>4, <2>7 DEF ConsInv
  <2>9. cons' \in [pc : {"head", "body"}, todo : Seq(CutSet), count : Nat,
                   got : Seq(AllBytes), next : Nat]
    BY <1>5, <2>4
  <2> QED BY <1>1, <2>8, <2>9, ConsumerReads
<1>7. CASE cons.pc = "body"
  <2>1. PICK total \in HeadLen + 1 .. Count :
           /\ HeadAt(0, total) /\ cons.next = At(readIndex + total)
           /\ HasRead(HeadLen) /\ Reads(cons.todo, HeadLen + Len(cons.got), total)
    BY <1>7 DEF IInv, ConsInv
  <2>2. total \in Nat /\ total < Cap
    BY <1>2, <2>1
  <2>3. /\ cons' = [cons EXCEPT !.got = cons'.got, !.todo = cons'.todo]
        /\ cons'.todo \in Seq(CutSet) /\ cons'.got \in Seq(AllBytes)
        /\ HeadLen + Len(cons'.got) <= total /\ HasRead(HeadLen)'
        /\ Reads(cons.todo, HeadLen + Len(cons.got), total)'
    BY <1>2, <2>1, <2>2, CopyOutReads DEF IInv
  <2>4. ConsInv'
    BY <1>1, <1>3, <1>7, <2>1, <2>3 DEF ConsInv
  <2>5. cons' \in [pc : {"head", "body"}, todo : Seq(CutSet), count : Nat,
                   got : Seq(AllBytes), next : Nat]
    BY <1>5, <2>3
  <2> QED BY <1>1, <2>4, <2>5, ConsumerReads
<1> QED BY <1>1, <1>6, <1>7

\* What the consumer takes for the header is the header of the first packet.
LEMMA HeaderRead ==
  ASSUME IInv, cons.pc = "head", cons.todo = <<>>, NEW total \in Nat
  PROVE  cons.got = HeadOf(total) <=> HeadAt(0, total)
<1>1. PICK got \in Seq(AllBytes), g \in Nat, r \in Nat :
        got = cons.got /\ g = Len(got) /\ r = readIndex
  BY ConsType, IndexType DEF IInv
<1>2. HasRead(0) /\ Reads(<<>>, g, HeadLen)
  BY <1>1 DEF IInv, ConsInv
<1>3. Len(<<>>) = 0
  OBVIOUS
<1>4. g = HeadLen
  BY <1>2, <1>3 DEF Reads
<1>5. \A k \in 1 .. HeadLen : got[k] = buf[At(r + 0 + k - 1)]
  BY <1>1, <1>2, <1>4 DEF HasRead
<1>6. HeadOf(total) \in Seq(AllBytes) /\ Len(HeadOf(total)) = HeadLen
  BY HeadOfFacts
<1>7. HeadAt(0, total) <=> \A k \in 1 .. HeadLen : got[k] = HeadOf(total)[k]
  BY <1>1, <1>5 DEF HeadAt
<1>8. (\A k \in 1 .. HeadLen : got[k] = HeadOf(total)[k]) => got = HeadOf(total)
  BY <1>1, <1>4, <1>6, SeqEqual
<1> QED BY <1>1, <1>7, <1>8

LEMMA ReadLengthInv == ASSUME IInv, ReadLength PROVE IInv'
<1> DEFINE lengths == {total \in HeadLen + 1 .. cons.count : cons.got = HeadOf(total)}
<1>1. /\ cons.pc = "head" /\ cons.todo = <<>> /\ cons.count \in Nat /\ cons.count <= Count
      /\ Count \in Nat /\ Count < Cap /\ UNCHANGED <<buf, readIndex, writeIndex, prod>>
      /\ Cap \in Nat /\ HeadLen \in Nat \ {0}
  <2>1. cons.pc = "head" /\ cons.todo = <<>> /\ UNCHANGED <<buf, readIndex, writeIndex, prod>>
    BY DEF ReadLength
  <2>2. cons.count \in Nat /\ cons.count <= Count
    BY <2>1, ConsType DEF IInv, ConsInv
  <2>3. Cap \in Nat /\ HeadLen \in Nat \ {0}
    BY VarLenAssumption
  <2>4. Count \in Nat /\ Count < Cap
    BY <2>3, CountRange DEF IInv
  <2> QED BY <2>1, <2>2, <2>3, <2>4
<1>2. PICK total \in HeadLen + 1 .. cons.count : HeadAt(0, total)
  BY <1>1 DEF IInv, ConsInv
<1>3. total \in Nat
  BY <1>1
<1>4. cons.got = HeadOf(total)
  BY <1>1, <1>2, <1>3, HeaderRead
<1>5. lengths # {}
  BY <1>2, <1>4
<1>6. PICK t \in lengths :
         cons' = [cons EXCEPT !.pc = "body", !.got = <<>>, !.todo = BodyCuts(readIndex, t),
                              !.next = At(readIndex + t)]
  BY <1>5 DEF ReadLength
<1>7. t \in HeadLen + 1 .. Count /\ t \in HeadLen + 1 .. Cap - 1 /\ t \in Nat
  BY <1>1, <1>6
<1>8. HeadAt(0, t)
  BY <1>1, <1>6, <1>7, HeaderRead
<1>9. /\ BodyCuts(readIndex, t) \in Seq(CutSet)
      /\ Reads(BodyCuts(readIndex, t), HeadLen, t)
  BY <1>7, BodyCutsRead DEF IInv
<1>10. cons \in [pc : {"head", "body"}, todo : Seq(CutSet), count : Nat,
                 got : Seq(AllBytes), next : Nat]
  BY <1>1, ConsType DEF IInv
<1>11. At(readIndex + t) \in Nat
  <2>1. readIndex \in Nat /\ readIndex < Cap
    BY <1>1, IndexType DEF IInv, Places
  <2>2. readIndex + t \in 0 .. Cap + Cap - 1
    BY <1>1, <1>7, <2>1
  <2> QED BY <2>2, AtIsPlace DEF Places
<1>12. /\ cons'.pc = "body" /\ cons'.got = <<>> /\ cons'.todo = BodyCuts(readIndex, t)
       /\ cons'.next = At(readIndex + t)
  BY <1>6, <1>10
<1>13. cons' \in [pc : {"head", "body"}, todo : Seq(CutSet), count : Nat,
                  got : Seq(AllBytes), next : Nat]
  <2>1. <<>> \in Seq(AllBytes)
    BY EmptySeq
  <2> QED BY <1>6, <1>9, <1>10, <1>11, <2>1
<1>14. Len(cons'.got) = 0
  BY <1>12
<1>15. HeadAt(0, t)' /\ Count' = Count
  BY <1>1, <1>8 DEF HeadAt, Count
<1>16. HasRead(HeadLen)'
  BY <1>14 DEF HasRead
<1>17. HeadLen + Len(cons'.got) = HeadLen /\ HeadLen <= t
  BY <1>1, <1>7, <1>14
<1>18. Reads(cons.todo, HeadLen + Len(cons.got), t)'
  BY <1>1, <1>9, <1>12, <1>17 DEF Reads
<1>19. ConsInv'
  BY <1>1, <1>7, <1>12, <1>15, <1>16, <1>17, <1>18 DEF ConsInv
<1> QED BY <1>1, <1>13, <1>19, ConsumerReads

\* What the consumer has when it has read everything: the first packet.
LEMMA PacketRead ==
  ASSUME IInv, cons.pc = "body", cons.todo = <<>>
  PROVE  \E total \in HeadLen + 1 .. Count :
           /\ HeadAt(0, total) /\ cons.next = At(readIndex + total)
           /\ cons.got = BodyAt(0, total)
<1>1. PICK total \in HeadLen + 1 .. Count :
         /\ HeadAt(0, total) /\ cons.next = At(readIndex + total)
         /\ HasRead(HeadLen) /\ Reads(cons.todo, HeadLen + Len(cons.got), total)
  BY DEF IInv, ConsInv
<1>2. PICK got \in Seq(AllBytes), g \in Nat, r \in Nat :
        got = cons.got /\ g = Len(got) /\ r = readIndex
  BY ConsType, IndexType DEF IInv
<1>3. HeadLen \in Nat /\ total \in Nat
  BY <1>1, CountRange, VarLenAssumption DEF IInv
<1>4. Len(<<>>) = 0
  OBVIOUS
<1>5. HeadLen + g = total
  BY <1>1, <1>2, <1>4 DEF Reads
<1>6. g = total - HeadLen
  BY <1>2, <1>3, <1>5
<1>7. got = [k \in 1 .. g |-> got[k]]
  BY <1>2, LenProperties
<1>8. ASSUME NEW k \in 1 .. g PROVE got[k] = buf[At(r + 0 + HeadLen + k - 1)]
  <2>1. got[k] = buf[At(r + HeadLen + k - 1)]
    BY <1>1, <1>2 DEF HasRead
  <2>2. r + 0 + HeadLen + k - 1 = r + HeadLen + k - 1
    BY <1>2, <1>3
  <2> QED BY <2>1, <2>2
<1>9. BodyAt(0, total) = [k \in 1 .. g |-> buf[At(r + 0 + HeadLen + k - 1)]]
  BY <1>2, <1>6 DEF BodyAt
<1>10. got = BodyAt(0, total)
  BY <1>7, <1>8, <1>9
<1> QED BY <1>1, <1>2, <1>10

LEMMA CountShrinks ==
  ASSUME NEW r \in Places, NEW w \in Places, NEW l \in Nat, NEW n \in Nat,
         n = IF r <= w THEN w - r ELSE Cap + w - r, l <= n
  PROVE  n - l = IF At(r + l) <= w THEN w - At(r + l) ELSE Cap + w - At(r + l)
<1>1. Cap \in Nat \ {0} /\ r \in Nat /\ w \in Nat /\ r < Cap /\ w < Cap
  BY VarLenAssumption DEF Places
<1>2. CASE r <= w
  BY <1>1, <1>2 DEF At
<1>3. CASE ~(r <= w)
  BY <1>1, <1>3 DEF At
<1> QED BY <1>2, <1>3

\* After a read the offsets count from the packet behind.
LEMMA Behind ==
  ASSUME IInv, PublishRead
  PROVE  \E total \in HeadLen + 1 .. Count :
           /\ HeadAt(0, total) /\ delivered' = BodyAt(0, total)
           /\ Count' = Count - total
           /\ \A i \in Nat : total + i < Cap => At(readIndex' + i) = At(readIndex + total + i)
<1>1. PICK total \in HeadLen + 1 .. Count :
         /\ HeadAt(0, total) /\ cons.next = At(readIndex + total)
         /\ cons.got = BodyAt(0, total)
  BY PacketRead DEF PublishRead
<1>2. PICK r \in Places, w \in Places, n \in Nat :
        r = readIndex /\ w = writeIndex /\ n = Count /\ n < Cap /\ r \in Nat
  BY IndexType, CountRange, VarLenAssumption DEF IInv
<1>3. total \in Nat /\ total <= n /\ total \in 0 .. Cap - 1
  BY <1>1, <1>2, VarLenAssumption
<1>4. readIndex' = At(r + total) /\ writeIndex' = w /\ delivered' = BodyAt(0, total)
  BY <1>1, <1>2 DEF PublishRead
<1>5. n = IF r <= w THEN w - r ELSE Cap + w - r
  BY <1>2 DEF Count
<1>6. Count' = IF At(r + total) <= w THEN w - At(r + total) ELSE Cap + w - At(r + total)
  BY <1>4 DEF Count
<1>7. Count' = n - total
  <2>1. ASSUME NEW l \in Nat, l = total
        PROVE  n - l = IF At(r + l) <= w THEN w - At(r + l) ELSE Cap + w - At(r + l)
    BY <1>3, <1>5, <2>1, CountShrinks
  <2> QED BY <1>3, <1>6, <2>1
<1>8. \A i \in Nat : total + i < Cap => At(At(r + total) + i) = At(r + total + i)
  BY <1>2, <1>3, AtTwice
<1> QED BY <1>1, <1>2, <1>4, <1>7, <1>8

\* The least-number principle over sets gives induction over the naturals.
LEMMA LeastNumber ==
  ASSUME NEW T \in SUBSET Nat, T # {} PROVE \E x \in T : \A y \in T : x <= y
<1>1. IsWellFoundedOn(OpToRel(<, Nat), Nat)
  BY NatLessThanWellFounded, Zenon
<1>2. PICK x \in T : \A y \in T : ~(<<y, x>> \in OpToRel(<, Nat))
  BY <1>1, WFMin, Zenon
<1>3. ASSUME NEW y \in T PROVE x <= y
  <2>1. ASSUME y < x PROVE FALSE
    <3>1. <<y, x>> \in OpToRel(<, Nat)
      BY <2>1, Zenon DEF OpToRel
    <3> QED BY <1>2, <3>1, Zenon
  <2>2. x \in Nat /\ y \in Nat
    OBVIOUS
  <2> QED BY <2>1, <2>2
<1> QED BY <1>3

LEMMA Induction ==
  ASSUME NEW S, 0 \in S, \A k \in Nat : k \in S => k + 1 \in S
  PROVE  \A k \in Nat : k \in S
<1> DEFINE T == Nat \ S
<1>1. ASSUME T # {} PROVE FALSE
  <2>1. PICK x \in T : \A y \in T : x <= y
    BY <1>1, LeastNumber
  <2>2. x \in Nat /\ x # 0
    BY <2>1
  <2>3. x - 1 \in Nat /\ x - 1 + 1 = x /\ ~(x <= x - 1)
    BY <2>2
  <2>4. x - 1 \in S
    BY <2>1, <2>3
  <2> QED BY <2>1, <2>3, <2>4
<1> QED BY <1>1

\* No packet ends before the first.
LEMMA EndsAfterFirst ==
  ASSUME RingType, NEW n \in Nat, NEW s \in [0 .. n -> Nat], Ends(n, s)
  PROVE  \A k \in 1 .. n : s[k] \in Nat /\ s[1] <= s[k]
<1> DEFINE S == {k \in Nat : k + 1 \in 1 .. n => s[1] <= s[k + 1]}
<1>1. \A k \in 1 .. n : s[k] \in Nat
  BY EndsFacts
<1>2. 0 \in S
  <2>1. 1 \in 1 .. n => s[1] <= s[1]
    BY <1>1
  <2> QED BY <2>1
<1>3. ASSUME NEW k \in Nat, k \in S PROVE k + 1 \in S
  <2>1. ASSUME k + 1 + 1 \in 1 .. n PROVE s[1] <= s[k + 1 + 1]
    <3>1. k + 1 \in 1 .. n /\ 1 \in 1 .. n /\ (k + 1 + 1) - 1 = k + 1
      BY <2>1
    <3>2. s[1] <= s[k + 1]
      BY <1>3, <3>1
    <3>3. s[(k + 1 + 1) - 1] + HeadLen < s[k + 1 + 1]
      BY <2>1, EndsFacts
    <3>4. PICK a \in Nat, b \in Nat, c \in Nat : a = s[1] /\ b = s[k + 1] /\ c = s[k + 1 + 1]
      BY <1>1, <2>1, <3>1
    <3>5. a <= b /\ b + HeadLen < c
      BY <3>1, <3>2, <3>3, <3>4
    <3>6. a <= c
      BY <3>4, <3>5, VarLenAssumption
    <3> QED BY <3>4, <3>6
  <2> QED BY <2>1
<1> HIDE DEF S
<1>4. \A k \in Nat : k \in S
  BY <1>2, <1>3, Induction
<1>5. ASSUME NEW k \in 1 .. n PROVE s[1] <= s[k]
  <2>1. k - 1 \in Nat /\ k - 1 + 1 = k
    BY <1>5
  <2>2. k - 1 \in S
    BY <1>4, <2>1
  <2> QED BY <2>1, <2>2, <1>5 DEF S
<1> QED BY <1>1, <1>5

LEMMA NextIndex ==
  ASSUME IInv, PublishRead PROVE readIndex' \in Places /\ readIndex' \in Nat
<1>1. PICK t \in HeadLen + 1 .. Count : cons.next = At(readIndex + t)
  BY PacketRead DEF PublishRead
<1>2. PICK n \in Nat : n = Count /\ n < Cap
  BY CountRange, VarLenAssumption DEF IInv
<1>3. readIndex \in Nat /\ readIndex < Cap /\ t \in Nat /\ t < Cap /\ Cap \in Nat
  BY <1>1, <1>2, IndexType, VarLenAssumption DEF IInv, Places
<1>4. readIndex + t \in 0 .. Cap + Cap - 1
  BY <1>3
<1>5. readIndex' \in Places
  BY <1>1, <1>4, AtIsPlace DEF PublishRead
<1> QED BY <1>5 DEF Places

\* The header of a packet behind the first, before and after the first is taken.
LEMMA HeaderBehind ==
  ASSUME IInv, PublishRead, NEW total \in HeadLen + 1 .. Count,
         \A i \in Nat : total + i < Cap => At(readIndex' + i) = At(readIndex + total + i),
         NEW i \in Nat, NEW t, total + i + HeadLen <= Count, HeadAt(total + i, t)
  PROVE  HeadAt(i, t)'
<1>1. PICK n \in Nat, r \in Nat, q \in Nat :
        n = Count /\ n < Cap /\ r = readIndex /\ q = readIndex'
  BY CountRange, IndexType, NextIndex, VarLenAssumption DEF IInv
<1>2. total \in Nat /\ HeadLen \in Nat /\ Cap \in Nat
  BY <1>1, VarLenAssumption
<1>3. ASSUME NEW k \in 1 .. HeadLen
      PROVE  buf'[At(readIndex' + i + k - 1)] = HeadOf(t)[k]
  <2>1. PICK x \in Nat : x = i + k - 1 /\ total + x < Cap
    BY <1>1, <1>2, <1>3
  <2>2. At(q + x) = At(r + total + x)
    BY <1>1, <2>1
  <2>3. q + i + k - 1 = q + x /\ r + total + x = r + (total + i) + k - 1
    BY <1>1, <1>2, <1>3, <2>1
  <2>4. buf[At(r + (total + i) + k - 1)] = HeadOf(t)[k]
    BY <1>1, <1>3 DEF HeadAt
  <2> QED BY <1>1, <2>2, <2>3, <2>4 DEF PublishRead
<1> QED BY <1>3 DEF HeadAt

\* The packets behind the one that was taken.
LEMMA EndsAfterRead ==
  ASSUME IInv, PublishRead, NEW n \in Nat, NEW s \in [0 .. n -> Nat], Ends(n, s)
  PROVE  /\ n - 1 \in Nat /\ s[1] \in HeadLen + 1 .. Count
         /\ delivered' = BodyAt(0, s[1]) /\ Count' = Count - s[1]
         /\ \A i \in Nat : s[1] + i < Cap => At(readIndex' + i) = At(readIndex + s[1] + i)
         /\ [k \in 0 .. n - 1 |-> s[k + 1] - s[1]] \in [0 .. n - 1 -> Nat]
         /\ Ends(n - 1, [k \in 0 .. n - 1 |-> s[k + 1] - s[1]])'
<1>1. PICK total \in HeadLen + 1 .. Count :
         /\ HeadAt(0, total) /\ delivered' = BodyAt(0, total) /\ Count' = Count - total
         /\ \A i \in Nat : total + i < Cap => At(readIndex' + i) = At(readIndex + total + i)
  BY Behind
<1>2. PICK c \in Nat : c = Count /\ c < Cap
  BY CountRange, VarLenAssumption DEF IInv
<1>3. total \in Nat /\ total <= c /\ HeadLen \in Nat /\ HeadLen + 1 <= total /\ Cap \in Nat
  BY <1>1, <1>2, VarLenAssumption
<1>4. s[0] = 0 /\ s[n] = c /\ n # 0
  BY <1>2, <1>3 DEF Ends
<1>5. 1 \in 1 .. n /\ 1 - 1 = 0 /\ n - 1 \in Nat
  BY <1>4
<1>6. s[1] = total
  <2>1. PICK t \in Nat : t = s[1] /\ HeadAt(s[1 - 1], s[1] - s[1 - 1])
    BY <1>5, EndsFacts DEF IInv
  <2>2. t - 0 = t
    BY <2>1
  <2>3. HeadAt(0, t)
    BY <1>4, <1>5, <2>1, <2>2
  <2> QED BY <1>1, <1>3, <2>1, <2>3, OneLength
<1>7. ASSUME NEW k \in 1 .. n - 1
      PROVE  /\ k + 1 \in 1 .. n /\ k \in 0 .. n /\ k + 1 \in 0 .. n /\ (k + 1) - 1 = k
             /\ s[k] \in Nat /\ s[k + 1] \in Nat /\ s[k] + HeadLen < s[k + 1]
             /\ s[k + 1] <= c /\ HeadAt(s[k], s[k + 1] - s[k])
  <2>1. k + 1 \in 1 .. n /\ k \in 0 .. n /\ k + 1 \in 0 .. n /\ (k + 1) - 1 = k
    BY <1>5
  <2>2. /\ s[(k + 1) - 1] \in Nat /\ s[k + 1] \in Nat /\ s[(k + 1) - 1] + HeadLen < s[k + 1]
        /\ s[k + 1] <= c /\ HeadAt(s[(k + 1) - 1], s[k + 1] - s[(k + 1) - 1])
    BY <1>2, <2>1, EndsFacts DEF IInv
  <2> QED BY <2>1, <2>2
<1>8. \A k \in 1 .. n : s[k] \in Nat /\ total <= s[k]
  BY <1>6, EndsAfterFirst DEF IInv
<1>9. PICK t \in [0 .. n - 1 -> Nat] :
        /\ t = [k \in 0 .. n - 1 |-> s[k + 1] - s[1]]
        /\ \A k \in 0 .. n - 1 : t[k] = s[k + 1] - total
  <2> DEFINE t == [k \in 0 .. n - 1 |-> s[k + 1] - s[1]]
  <2>1. ASSUME NEW k \in 0 .. n - 1 PROVE s[k + 1] - s[1] \in Nat
    <3>1. k + 1 \in 1 .. n
      BY <1>5
    <3>2. PICK a \in Nat : a = s[k + 1] /\ total <= a
      BY <1>8, <3>1
    <3>3. a - total \in Nat
      BY <1>3, <3>2
    <3> QED BY <1>6, <3>2, <3>3
  <2>2. t \in [0 .. n - 1 -> Nat]
    BY <2>1
  <2> QED BY <1>6, <2>2
<1>10. t[0] = 0 /\ t[n - 1] = c - total
  <2>1. 0 \in 0 .. n - 1 /\ n - 1 \in 0 .. n - 1 /\ 0 + 1 = 1 /\ (n - 1) + 1 = n
    BY <1>5
  <2>2. t[0] = s[1] - total /\ t[n - 1] = s[n] - total
    BY <1>9, <2>1
  <2> QED BY <1>3, <1>4, <1>6, <2>2
<1>11. ASSUME NEW k \in 1 .. n - 1
       PROVE  /\ t[k - 1] + HeadLen < t[k] /\ t[k] <= c - total
              /\ HeadAt(t[k - 1], t[k] - t[k - 1])'
  <2>1. PICK a \in Nat, b \in Nat :
          /\ a = s[k] /\ b = s[k + 1] /\ a + HeadLen < b /\ b <= c /\ HeadAt(a, b - a)
          /\ total <= a
    <3>1. k \in 1 .. n
      BY <1>7
    <3> QED BY <1>7, <1>8, <3>1
  <2>2. t[k - 1] = a - total /\ t[k] = b - total
    <3>1. k - 1 \in 0 .. n - 1 /\ k \in 0 .. n - 1 /\ (k - 1) + 1 = k
      BY <1>5
    <3> QED BY <1>9, <2>1, <3>1
  <2>3. PICK i \in Nat, l \in Nat : i = a - total /\ l = b - a
    <3>1. total \in Nat /\ HeadLen \in Nat /\ a + HeadLen < b /\ total <= a
      BY <1>3, <2>1
    <3>2. a - total \in Nat /\ b - a \in Nat
      BY <3>1
    <3> QED BY <3>2
  <2>4. /\ total + i = a /\ (b - total) - (a - total) = l /\ total + i + HeadLen <= c
        /\ a - total + HeadLen < b - total /\ b - total <= c - total
    <3>1. a + HeadLen < b /\ b <= c /\ total <= a
      BY <2>1
    <3>2. i = a - total /\ l = b - a
      BY <2>3
    <3>3. total \in Nat /\ HeadLen \in Nat
      BY <1>3
    <3> QED BY <3>1, <3>2, <3>3
  <2>5. HeadAt(total + i, l)
    BY <2>1, <2>3, <2>4
  <2>6. HeadAt(i, l)'
    BY <1>1, <1>2, <2>4, <2>5, HeaderBehind
  <2> QED BY <2>2, <2>3, <2>4, <2>6
<1>12. Ends(n - 1, t)'
  BY <1>1, <1>2, <1>10, <1>11 DEF Ends
<1> QED BY <1>1, <1>5, <1>6, <1>9, <1>12

LEMMA PublishReadInv == ASSUME IInv, PublishRead PROVE IInv'
<1>1. PICK total \in HeadLen + 1 .. Count : Count' = Count - total
  BY Behind
<1>2. PICK n \in Nat : n = Count /\ n < Cap
  BY CountRange, VarLenAssumption DEF IInv
<1>3. total \in Nat /\ total <= n /\ HeadLen \in Nat /\ HeadLen + 1 <= total /\ Cap \in Nat
  BY <1>1, <1>2, VarLenAssumption
<1>4. UNCHANGED <<buf, writeIndex, prod>> /\ cons' = NoTake
  BY DEF PublishRead
<1>6. Count' = n - total /\ n - total \in Nat
  BY <1>1, <1>2, <1>3
<1>8. Framed'
  BY EndsAfterRead DEF IInv, Framed
<1>9. RingType'
  <2>1. \/ prod = NoCall
        \/ prod \in [pc : {"copy", "publish"},
                     todo : Seq([at : Places, from : Nat, len : Nat]), packet : Seq(AllBytes)]
    BY DEF IInv, RingType
  <2>2. buf \in [Places -> AllBytes] /\ writeIndex \in Places
    BY DEF IInv, RingType
  <2> QED BY <1>4, <2>1, <2>2, NextIndex DEF RingType
<1>10. ConsInv'
  BY <1>4 DEF ConsInv, NoTake
<1>11. ProdInv'
  <2>1. ASSUME prod # NoCall PROVE Count' + Len(prod.packet) < Cap
    <3>1. PICK l \in Nat : l = Len(prod.packet)
      BY <2>1, ProdType DEF IInv
    <3>2. n + l < Cap
      BY <1>2, <2>1, <3>1 DEF IInv, ProdInv
    <3>3. n - total + l < Cap
      BY <1>3, <3>2
    <3> QED BY <1>6, <3>1, <3>3
  <2>2. /\ \A j : PieceEnd(j)' = PieceEnd(j)
        /\ Done' = Done
    BY <1>4 DEF PieceEnd, Done
  <2> QED BY <1>4, <2>1, <2>2 DEF IInv, ProdInv
<1> QED BY <1>8, <1>9, <1>10, <1>11 DEF IInv

LEMMA StutterInv == ASSUME IInv, UNCHANGED vars PROVE IInv'
<1>1. Framed' = Framed /\ ConsInv' /\ Count' = Count
  BY SameRing, SameConsumer DEF IInv, vars
<1>2. ProdInv' = ProdInv
  BY <1>1 DEF vars, ProdInv, PieceEnd, Done
<1>3. RingType' = RingType
  BY DEF vars, RingType
<1> QED BY <1>1, <1>2, <1>3 DEF IInv

\* The inductive invariant of the ring of packets, for every capacity, header,
\* id and packet size.
THEOREM RingInv == Spec => []IInv
<1>1. IInv /\ [Next]_vars => IInv'
  BY AddDataInv, AddSessionIDAndDataInv, CopyInInv, PublishWriteInv, GetDataInv, CopyOutInv,
     ReadLengthInv, PublishReadInv, StutterInv DEF Next
<1> QED BY InitInv, <1>1, PTL DEF Spec

\* LVarLenCircleBuf.cpp:387: the header that GetData reads at the read index is
\* always the header of a whole packet, whatever the two sides do meanwhile.
THEOREM GetDataNeverFatal == Spec => []NeverFatal
<1>1. IInv => NeverFatal
  BY DEF IInv, ConsInv, NeverFatal
<1> QED BY <1>1, RingInv, PTL

LEMMA NoReads == ASSUME NEW d, NEW e, NEW j \in 1 .. Len(<<>>) PROVE FALSE
  OBVIOUS

LEMMA OneIsNotEmpty == ASSUME NEW s, Len(s) = 1 PROVE s # <<>>
  OBVIOUS

LEMMA FirstCutReadable ==
  ASSUME RingType, NEW todo \in Seq(CutSet), todo # <<>>, NEW d \in Nat, NEW e \in Nat,
         e <= Count, Reads(todo, d, e), NEW x \in 0 .. todo[1].len - 1
  PROVE  todo[1].at + x \in Places /\ Readable(todo[1].at + x)
<1>1. PICK n \in Nat, r \in Places : n = Count /\ n < Cap /\ r = readIndex /\ r \in Nat
  BY CountRange, IndexType, VarLenAssumption
<1>2. e < Cap /\ Head(todo) = todo[1]
  BY <1>1, VarLenAssumption, TailOf
<1>3. todo[1].at + x = At(readIndex + (d + x)) /\ d + x < e
  BY <1>2, ReadStep
<1>4. x \in Nat
  <2>1. todo[1] \in CutSet
    BY <1>2, TailOf
  <2>2. PICK m \in Nat : m = todo[1].len
    BY <2>1 DEF CutSet
  <2> QED BY <2>2
<1>5. d + x \in 0 .. n - 1
  BY <1>1, <1>3, <1>4
<1>6. r + (d + x) \in 0 .. Cap + Cap - 1
  <2>1. Cap \in Nat /\ r < Cap
    BY VarLenAssumption DEF Places
  <2> QED BY <1>1, <1>5, <2>1
<1>7. At(r + (d + x)) \in Places
  BY <1>6, AtIsPlace
<1> QED BY <1>1, <1>3, <1>5, <1>7 DEF Readable

LEMMA CutsReadable ==
  ASSUME RingType, NEW todo \in Seq(CutSet), NEW d \in Nat, NEW e \in Nat, e <= Count,
         Reads(todo, d, e), NEW j \in 1 .. Len(todo), NEW x \in 0 .. todo[j].len - 1
  PROVE  todo[j].at + x \in Places /\ Readable(todo[j].at + x)
<1>1. PICK n \in Nat : n = Len(todo) /\ n <= 2 /\ todo # <<>>
  <2>1. Len(<<>>) = 0
    OBVIOUS
  <2>2. PICK m \in Nat : m = Len(todo)
    BY LenProperties
  <2>3. m \in 1 .. 2
    <3>1. todo = <<>> \/ m = 1 \/ m = 2
      BY <2>2 DEF Reads
    <3>2. 1 <= m
      BY <2>2
    <3>3. todo # <<>>
      BY <2>1, <2>2, <3>2
    <3> QED BY <3>1, <3>3
  <2> QED BY <2>1, <2>2, <2>3
<1>2. CASE j = 1
  BY <1>1, <1>2, FirstCutReadable
<1>3. CASE j # 1
  <2>1. j = 2 /\ n = 2
    BY <1>1, <1>3
  <2>2. PICK rest \in Seq(CutSet) :
           /\ rest = Tail(todo) /\ Len(rest) = 1 /\ rest[1] = todo[2]
    <3>1. Tail(todo) \in Seq(CutSet) /\ Len(Tail(todo)) = n - 1
      BY <1>1, TailOf
    <3>2. \A i \in 1 .. n - 1 : Tail(todo)[i] = todo[i + 1]
      BY <1>1, TailOf
    <3>3. 1 \in 1 .. n - 1 /\ 1 + 1 = 2 /\ n - 1 = 1
      BY <2>1
    <3>4. Tail(todo)[1] = todo[1 + 1]
      BY <3>2, <3>3
    <3> QED BY <3>1, <3>3, <3>4
  <2>3. rest # <<>>
    BY <2>2, OneIsNotEmpty
  <2>4. PICK m \in Nat : m = Head(todo).len
    <3>1. Head(todo) \in CutSet
      BY <1>1, TailOf
    <3> QED BY <3>1 DEF CutSet
  <2>5. e < Cap
    <3>1. PICK c \in Nat : c = Count /\ c < Cap
      BY CountRange, VarLenAssumption
    <3> QED BY <3>1, VarLenAssumption
  <2>6. Reads(Tail(todo), d + Head(todo).len, e)
    BY <1>1, <2>5, ReadStep
  <2>7. Reads(rest, d + m, e) /\ d + m \in Nat
    BY <2>2, <2>4, <2>6
  <2> QED BY <2>1, <2>2, <2>3, <2>7, FirstCutReadable
<1> QED BY <1>2, <1>3

\* The producer never writes a byte that the consumer may read, the consumer
\* reads only such bytes, and neither reaches past the end of the buffer.
THEOREM SidesStayApart == Spec => []Apart
<1>1. ASSUME IInv PROVE Apart
  <2>1. ASSUME NEW j \in 1 .. Len(prod.todo), NEW x \in 0 .. prod.todo[j].len - 1
        PROVE  prod.todo[j].at + x \in Places /\ ~Readable(prod.todo[j].at + x)
    <3>1. prod # NoCall
      BY NoReads DEF NoCall
    <3>2. PICK y \in Nat : y = prod.todo[j].from + x
      BY <1>1, <3>1, PieceByte DEF IInv
    <3>3. /\ At(writeIndex + y) = prod.todo[j].at + x /\ Count + y < Cap
          /\ prod.todo[j].at + x \in Places
      BY <1>1, <3>1, <3>2, PieceByte DEF IInv
    <3>4. At(writeIndex + y) = At(readIndex + Count + y)
      BY <1>1, <3>3, BehindWrite DEF IInv
    <3>5. PICK r \in Places, n \in Nat : r = readIndex /\ n = Count /\ r \in Nat
      BY <1>1, IndexType, CountRange, VarLenAssumption DEF IInv
    <3>6. At(r + (n + y)) = prod.todo[j].at + x
      <4>1. r + n + y = r + (n + y)
        BY <3>5
      <4> QED BY <3>3, <3>4, <3>5, <4>1
    <3>7. ASSUME NEW i \in 0 .. n - 1, prod.todo[j].at + x = At(r + i) PROVE FALSE
      <4>1. i \in 0 .. Cap - 1 /\ n + y \in 0 .. Cap - 1 /\ i < n + y
        BY <3>3, <3>5, VarLenAssumption
      <4>2. i = n + y
        BY <3>6, <3>7, <4>1, AtInjective
      <4> QED BY <4>1, <4>2
    <3> QED BY <3>3, <3>5, <3>7 DEF Readable
  <2>2. ASSUME NEW j \in 1 .. Len(cons.todo), NEW x \in 0 .. cons.todo[j].len - 1
        PROVE  cons.todo[j].at + x \in Places /\ Readable(cons.todo[j].at + x)
    <3>1. cons.pc \in {"head", "body"}
      <4>1. cons # NoTake /\ cons # [NoTake EXCEPT !.pc = "fatal"]
        BY NoReads DEF NoTake
      <4> QED BY <1>1, <4>1 DEF IInv, RingType
    <3>2. PICK g \in Nat, n \in Nat : g = Len(cons.got) /\ n = Count
      BY <1>1, <3>1, ConsType, CountRange, VarLenAssumption DEF IInv
    <3>3. cons.todo \in Seq(CutSet)
      BY <1>1, <3>1, ConsType DEF IInv
    <3>4. CASE cons.pc = "head"
      <4>1. Reads(cons.todo, g, HeadLen)
        BY <1>1, <3>2, <3>4 DEF IInv, ConsInv
      <4>2. PICK c \in Nat : c = cons.count
        BY <1>1, <3>1, ConsType DEF IInv
      <4>3. c <= n /\ \E total \in HeadLen + 1 .. c : HeadAt(0, total)
        BY <1>1, <3>2, <3>4, <4>2 DEF IInv, ConsInv
      <4>4. HeadLen \in Nat /\ HeadLen <= n
        BY <3>2, <4>2, <4>3, VarLenAssumption
      <4> QED BY <1>1, <2>2, <3>2, <3>3, <4>1, <4>4, CutsReadable DEF IInv
    <3>5. CASE cons.pc = "body"
      <4>1. PICK total \in HeadLen + 1 .. n : Reads(cons.todo, HeadLen + g, total)
        BY <1>1, <3>2, <3>5 DEF IInv, ConsInv
      <4>2. HeadLen + g \in Nat /\ total \in Nat /\ total <= n
        BY <3>2, <4>1, VarLenAssumption
      <4> QED BY <1>1, <2>2, <3>2, <3>3, <4>1, <4>2, CutsReadable DEF IInv
    <3> QED BY <3>1, <3>4, <3>5
  <2> QED BY <2>1, <2>2 DEF Apart
<1> QED BY <1>1, RingInv, PTL

-----------------------------------------------------------------------------
(* The ring is a queue of packets.                                          *)

Recursion(h, n, stop, u, b, t) ==
  /\ h = [i \in 0 .. n |-> h[i]]
  /\ \A i \in 0 .. n : h[i] = IF i \in stop THEN u[i] ELSE <<b[i]>> \o h[i + t[i]]

Upward(n, stop, t) ==
  \A i \in 0 .. n : i \in stop \/ (t[i] \in Nat /\ 1 <= t[i] /\ i + t[i] <= n)

\* A recursion that only goes to higher offsets defines a function.
LEMMA RecursionUpward ==
  ASSUME NEW n \in Nat, NEW stop, NEW u, NEW b, NEW t,
         Upward(n, stop, t)
  PROVE  \E h : Recursion(h, n, stop, u, b, t)
<1> USE DEF Upward
<1> DEFINE Rec(h, i) == IF i \in stop THEN u[i] ELSE <<b[i]>> \o h[i + t[i]]
           S == {m \in Nat : m <= n => \E h : \A i \in n - m .. n : h[i] = Rec(h, i)}
<1>1. 0 \in S
  <2>1. n \in stop
    <3>1. n \in 0 .. n
      OBVIOUS
    <3>2. ~(1 <= t[n] /\ t[n] \in Nat /\ n + t[n] <= n)
      OBVIOUS
    <3> QED BY <3>1, <3>2
  <2>2. \A i \in n - 0 .. n : i = n
    OBVIOUS
  <2>3. \A i \in n - 0 .. n : u[i] = Rec(u, i)
    BY <2>1, <2>2
  <2> QED BY <2>3
<1>2. ASSUME NEW m \in Nat, m \in S PROVE m + 1 \in S
  <2>1. ASSUME m + 1 <= n
        PROVE  \E h : \A i \in n - (m + 1) .. n : h[i] = Rec(h, i)
    <3>1. m <= n
      BY <2>1
    <3>2. PICK g : \A i \in n - m .. n : g[i] = Rec(g, i)
      BY <1>2, <3>1
    <3> DEFINE j == n - (m + 1)
               h == [i \in 0 .. n |-> IF i = j THEN Rec(g, i) ELSE g[i]]
    <3>3. j \in 0 .. n
      BY <2>1
    <3>4. ASSUME NEW i \in j .. n PROVE h[i] = Rec(h, i)
      <4>1. i \in 0 .. n
        BY <3>3
      <4>2. h[i] = Rec(g, i)
        <5>1. CASE i = j
          BY <4>1, <5>1
        <5>2. CASE i # j
          <6>1. i \in n - m .. n
            BY <3>4, <5>2
          <6> QED BY <3>2, <4>1, <5>2, <6>1
        <5> QED BY <5>1, <5>2
      <4>3. CASE i \in stop
        BY <4>2, <4>3
      <4>4. CASE i \notin stop
        <5>1. t[i] \in Nat /\ 1 <= t[i] /\ i + t[i] <= n
          BY <4>1, <4>4
        <5>2. PICK x \in Nat : x = t[i]
          BY <5>1
        <5>3. i + x \in 0 .. n /\ i + x # j
          BY <3>3, <3>4, <5>1, <5>2
        <5>4. h[i + x] = g[i + x]
          BY <5>3
        <5> QED BY <4>2, <4>4, <5>2, <5>4
      <4> QED BY <4>3, <4>4
    <3> QED BY <3>4
  <2> HIDE DEF Rec
  <2> QED BY <2>1
<1> HIDE DEF S
<1>3. n \in S
  BY <1>1, <1>2, Induction
<1>4. PICK g : \A i \in 0 .. n : g[i] = Rec(g, i)
  <2>1. n <= n /\ n - n = 0
    OBVIOUS
  <2> HIDE DEF Rec
  <2> QED BY <1>3, <2>1 DEF S
<1> DEFINE h == [i \in 0 .. n |-> g[i]]
<1>5. ASSUME NEW i \in 0 .. n PROVE h[i] = Rec(h, i)
  <2>1. h[i] = Rec(g, i)
    BY <1>4
  <2>2. CASE i \in stop
    BY <2>1, <2>2
  <2>3. CASE i \notin stop
    <3>1. t[i] \in Nat /\ i + t[i] <= n
      BY <2>3
    <3>2. i + t[i] \in 0 .. n
      BY <3>1
    <3>3. h[i + t[i]] = g[i + t[i]]
      BY <3>2
    <3> QED BY <2>1, <2>3, <3>3
  <2> QED BY <2>2, <2>3
<1>6. h = [i \in 0 .. n |-> h[i]]
  OBVIOUS
<1> HIDE DEF h
<1> QED BY <1>5, <1>6 DEF Recursion

\* What is put together from the last element to the first.
LEMMA PutTogether ==
  ASSUME NEW n \in Nat, NEW p, p = [k \in 1 .. n |-> p[k]], NEW h, h[n] = <<>>,
         \A k \in 1 .. n : h[k - 1] = <<p[k]>> \o h[k]
  PROVE  h[0] = p
<1> DEFINE V == {p[k] : k \in 1 .. n}
           Last(m) == /\ h[n - m] \in Seq(V) /\ Len(h[n - m]) = m
                      /\ \A k \in 1 .. m : h[n - m][k] = p[n - m + k]
           S == {m \in Nat : m <= n => Last(m)}
<1>1. \A k \in 1 .. n : p[k] \in V
  OBVIOUS
<1> HIDE DEF V
<1>2. p \in Seq(V) /\ Len(p) = n
  <2>1. p \in [1 .. n -> V]
    BY <1>1
  <2> QED BY <2>1, FunctionIsSequence
<1>3. 0 \in S
  <2>1. <<>> \in Seq(V) /\ Len(<<>>) = 0
    BY EmptySeq
  <2>2. n - 0 = n /\ \A k \in 1 .. 0 : FALSE
    OBVIOUS
  <2>3. Last(0)
    BY <2>1, <2>2
  <2> HIDE DEF Last
  <2> QED BY <2>3
<1>4. ASSUME NEW m \in Nat, m \in S PROVE m + 1 \in S
  <2>1. ASSUME m + 1 <= n
        PROVE  Last(m + 1)
    <3>1. PICK j \in 1 .. n : j = n - m
      <4>1. n - m \in 1 .. n
        BY <2>1
      <4> QED BY <4>1
    <3>2. PICK rest \in Seq(V) : /\ rest = h[j] /\ Len(rest) = m
                                 /\ \A k \in 1 .. m : rest[k] = p[j + k]
      <4>1. m <= n
        BY <2>1
      <4> QED BY <1>4, <3>1, <4>1
    <3>3. <<p[j]>> \in Seq(V) /\ Len(<<p[j]>>) = 1 /\ <<p[j]>>[1] = p[j]
      BY <1>1, OneCut
    <3>4. PICK one \in Seq(V) : one = <<p[j]>> /\ Len(one) = 1 /\ one[1] = p[j]
      BY <3>3
    <3>5. /\ one \o rest \in Seq(V) /\ Len(one \o rest) = Len(one) + Len(rest)
          /\ \A k \in 1 .. Len(one) + Len(rest) :
               (one \o rest)[k] = IF k <= Len(one) THEN one[k] ELSE rest[k - Len(one)]
      BY ConcatProperties
    <3>6. PICK all \in Seq(V) : /\ all = h[j - 1] /\ Len(all) = 1 + m
                                /\ \A k \in 1 .. 1 + m :
                                     all[k] = IF k <= 1 THEN one[k] ELSE rest[k - 1]
      BY <3>2, <3>4, <3>5
    <3>7. ASSUME NEW k \in 1 .. m + 1 PROVE all[k] = p[j - 1 + k]
      <4>1. CASE k = 1
        <5>1. j - 1 + k = j /\ k \in 1 .. 1 + m
          BY <4>1
        <5> QED BY <3>4, <3>6, <4>1, <5>1
      <4>2. CASE k # 1
        <5>1. k - 1 \in 1 .. m /\ j + (k - 1) = j - 1 + k /\ k \in 1 .. 1 + m /\ ~(k <= 1)
          BY <3>7, <4>2
        <5> QED BY <3>2, <3>6, <5>1
      <4> QED BY <4>1, <4>2
    <3>8. n - (m + 1) = j - 1 /\ 1 + m = m + 1
      BY <3>1
    <3>9. /\ h[n - (m + 1)] \in Seq(V) /\ Len(h[n - (m + 1)]) = m + 1
          /\ \A k \in 1 .. m + 1 : h[n - (m + 1)][k] = p[n - (m + 1) + k]
      BY <3>6, <3>7, <3>8
    <3> QED BY <3>9
  <2> HIDE DEF Last
  <2> QED BY <2>1
<1> HIDE DEF S
<1>5. n \in S
  BY <1>3, <1>4, Induction
<1>6. h[0] \in Seq(V) /\ Len(h[0]) = n /\ \A k \in 1 .. n : h[0][k] = p[k]
  <2>1. n <= n /\ n - n = 0 /\ \A k \in 1 .. n : 0 + k = k
    OBVIOUS
  <2>2. /\ h[n - n] \in Seq(V) /\ Len(h[n - n]) = n
        /\ \A k \in 1 .. n : h[n - n][k] = p[n - n + k]
    BY <1>5, <2>1 DEF S
  <2> QED BY <2>1, <2>2
<1> QED BY <1>2, <1>6, SeqEqual

\* The packets that end at these offsets.
Taken(n, s) == [k \in 1 .. n |-> BodyAt(s[k - 1], s[k] - s[k - 1])]

\* One header stands at the offset of a packet, so LengthsAt gives its length.
LEMMA LengthOfPacket ==
  ASSUME RingType, NEW n \in Nat, NEW s \in [0 .. n -> Nat], Ends(n, s), NEW k \in 1 .. n
  PROVE  LengthsAt(s[k - 1]) = {s[k] - s[k - 1]}
<1>1. PICK a \in Nat, b \in Nat, t \in Nat, c \in Nat :
        /\ a = s[k - 1] /\ b = s[k] /\ t = b - a /\ c = Count /\ a + HeadLen < b /\ b <= c
        /\ HeadLen < t /\ HeadAt(a, t)
  <2>1. Count \in Nat
    BY CountRange, VarLenAssumption
  <2>2. /\ s[k - 1] \in Nat /\ s[k] \in Nat /\ s[k - 1] + HeadLen < s[k] /\ s[k] <= Count
        /\ s[k] - s[k - 1] \in Nat /\ HeadLen < s[k] - s[k - 1]
        /\ HeadAt(s[k - 1], s[k] - s[k - 1])
    BY EndsFacts
  <2> QED BY <2>1, <2>2
<1>2. HeadLen \in Nat
  BY VarLenAssumption
<1>3. LengthsAt(a) = {total \in HeadLen + 1 .. c - a : HeadAt(a, total)}
  BY <1>1 DEF LengthsAt, HeadAt
<1>4. t \in HeadLen + 1 .. c - a
  BY <1>1, <1>2
<1>5. ASSUME NEW u \in HeadLen + 1 .. c - a, HeadAt(a, u) PROVE u = t
  <2>1. u \in Nat
    BY <1>1, <1>2, <1>5
  <2> QED BY <1>1, <1>5, <2>1, OneLength
<1> QED BY <1>1, <1>3, <1>4, <1>5

QueueIsTaken ==
  RingType => \A n \in Nat : \A s \in [0 .. n -> Nat] : Ends(n, s) => Queue = Taken(n, s)

\* The queue that the bytes of the ring stand for is the list of its packets.
THEOREM QueueOfEnds == QueueIsTaken
<1> SUFFICES ASSUME RingType, NEW n \in Nat, NEW s \in [0 .. n -> Nat], Ends(n, s)
             PROVE  Queue = Taken(n, s)
  BY DEF QueueIsTaken
<1>1. PICK c \in Nat : c = Count
  BY CountRange, VarLenAssumption
<1> DEFINE Length(i) == CHOOSE t \in LengthsAt(i) : TRUE
           From(f) == [i \in 0 .. Count |->
                        IF i = Count THEN <<>>
                        ELSE IF LengthsAt(i) = {} THEN << <<>> >>
                        ELSE <<BodyAt(i, Length(i))>> \o f[i + Length(i)]]
           from == CHOOSE f : f = From(f)
<1>2. Queue = from[0]
  BY DEF Queue
<1>3. \E f : f = From(f)
  <2>1. PICK stop : stop = {i \in 0 .. c : i = c \/ LengthsAt(i) = {}}
    OBVIOUS
  <2>2. PICK u : u = [i \in 0 .. c |-> IF i = c THEN <<>> ELSE << <<>> >>]
    OBVIOUS
  <2>3. PICK t : t = [i \in 0 .. c |-> Length(i)]
    OBVIOUS
  <2>4. PICK b : b = [i \in 0 .. c |-> BodyAt(i, Length(i))]
    OBVIOUS
  <2>5. ASSUME NEW i \in 0 .. c, i \notin stop
        PROVE  t[i] \in Nat /\ 1 <= t[i] /\ i + t[i] <= c
    <3>1. Length(i) \in LengthsAt(i)
      BY <2>1, <2>5
    <3>2. Length(i) \in HeadLen + 1 .. c - i
      BY <1>1, <3>1 DEF LengthsAt
    <3>3. PICK l : l = Length(i)
      OBVIOUS
    <3> HIDE DEF Length
    <3>4. l \in Nat /\ 1 <= l /\ i + l <= c
      BY <1>1, <3>2, <3>3, VarLenAssumption
    <3> QED BY <2>3, <3>3, <3>4
  <2> HIDE DEF Length
  <2>6. PICK h : Recursion(h, c, stop, u, b, t)
    <3>1. Upward(c, stop, t)
      BY <2>5 DEF Upward
    <3> QED BY <3>1, RecursionUpward
  <2>7. ASSUME NEW i \in 0 .. c
        PROVE  (IF i \in stop THEN u[i] ELSE <<b[i]>> \o h[i + t[i]])
                 = IF i = Count THEN <<>>
                   ELSE IF LengthsAt(i) = {} THEN << <<>> >>
                   ELSE <<BodyAt(i, Length(i))>> \o h[i + Length(i)]
    <3>1. CASE i = c
      BY <1>1, <2>1, <2>2, <3>1
    <3>2. CASE i # c /\ LengthsAt(i) = {}
      BY <1>1, <2>1, <2>2, <3>2
    <3>3. CASE i # c /\ LengthsAt(i) # {}
      <4>1. i \notin stop
        BY <2>1, <3>3
      <4>2. b[i] = BodyAt(i, Length(i)) /\ t[i] = Length(i)
        BY <2>3, <2>4
      <4> QED BY <1>1, <3>3, <4>1, <4>2
    <3> QED BY <3>1, <3>2, <3>3
  <2>8. h = From(h)
    <3>1. \A i \in 0 .. c : h[i] = IF i = Count THEN <<>>
                                    ELSE IF LengthsAt(i) = {} THEN << <<>> >>
                                    ELSE <<BodyAt(i, Length(i))>> \o h[i + Length(i)]
      BY <2>6, <2>7 DEF Recursion
    <3>2. h = [i \in 0 .. c |-> h[i]]
      BY <2>6 DEF Recursion
    <3> QED BY <1>1, <3>1, <3>2
  <2> HIDE DEF From
  <2> QED BY <2>8
<1>4. from = From(from)
  <2> HIDE DEF From
  <2> QED BY <1>3
<1> HIDE DEF from
<1>5. from[s[n]] = <<>>
  <2>1. s[n] = c /\ c \in 0 .. c
    BY <1>1 DEF Ends
  <2>2. \A i \in 0 .. c : i = c => From(from)[i] = <<>>
    BY <1>1
  <2> QED BY <1>4, <2>1, <2>2
<1>6. ASSUME NEW k \in 1 .. n
      PROVE  from[s[k - 1]] = <<BodyAt(s[k - 1], s[k] - s[k - 1])>> \o from[s[k]]
  <2>1. PICK a \in Nat, b \in Nat, t \in Nat :
          /\ a = s[k - 1] /\ b = s[k] /\ t = b - a /\ a < b /\ b <= c
    <3>1. PICK x \in Nat, y \in Nat : x = s[k - 1] /\ y = s[k] /\ x + HeadLen < y /\ y <= c
      BY <1>1, <1>6, EndsFacts
    <3>2. x < y /\ y - x \in Nat
      BY <3>1, VarLenAssumption
    <3> QED BY <3>1, <3>2
  <2>2. LengthsAt(a) = {t}
    <3>1. LengthsAt(s[k - 1]) = {s[k] - s[k - 1]}
      BY <1>6, LengthOfPacket
    <3> QED BY <2>1, <3>1
  <2>3. Length(a) = t
    BY <2>2
  <2> HIDE DEF Length
  <2>4. a \in 0 .. c /\ a # c /\ a + t = b
    BY <2>1
  <2>5. From(from)[a] = <<BodyAt(a, Length(a))>> \o from[a + Length(a)]
    BY <1>1, <2>2, <2>4
  <2> HIDE DEF From
  <2>6. from[a] = <<BodyAt(a, t)>> \o from[b]
    BY <1>4, <2>3, <2>4, <2>5
  <2> QED BY <2>1, <2>6
<1>7. PICK h : h = [k \in 0 .. n |-> from[s[k]]]
  OBVIOUS
<1>8. PICK p : p = Taken(n, s)
  OBVIOUS
<1>9. /\ p = [k \in 1 .. n |-> p[k]]
      /\ \A k \in 1 .. n : p[k] = BodyAt(s[k - 1], s[k] - s[k - 1])
  BY <1>8 DEF Taken
<1>10. h[n] = <<>> /\ h[0] = from[s[0]] /\ s[0] = 0
  BY <1>5, <1>7 DEF Ends
<1>11. ASSUME NEW k \in 1 .. n PROVE h[k - 1] = <<p[k]>> \o h[k]
  <2>1. k - 1 \in 0 .. n /\ k \in 0 .. n
    BY <1>11
  <2>2. h[k - 1] = from[s[k - 1]] /\ h[k] = from[s[k]]
    BY <1>7, <2>1
  <2> QED BY <1>6, <1>9, <2>2
<1>12. h[0] = p
  <2>1. p = [k \in 1 .. n |-> p[k]]
    BY <1>9
  <2>2. h[n] = <<>>
    BY <1>10
  <2>3. \A k \in 1 .. n : h[k - 1] = <<p[k]>> \o h[k]
    BY <1>11
  <2> QED BY <2>1, <2>2, <2>3, PutTogether
<1> QED BY <1>2, <1>8, <1>10, <1>12

\* The packet of a call is a header and one of the payloads.
PayloadInv ==
  prod # NoCall => \E p \in Payloads : prod.packet = HeadOf(HeadLen + Len(p)) \o p

LEMMA PayloadType == ASSUME NEW p \in Payloads PROVE p \in Seq(AllBytes)
<1>1. ASSUME NEW d \in Data, NEW n \in 1 .. MaxData PROVE Bytes("data", d, n) \in Seq(AllBytes)
  <2>1. n \in Nat
    BY VarLenAssumption
  <2> QED BY <2>1, BytesType
<1>2. ASSUME NEW id \in SessionIDs PROVE Bytes("id", id, IdLen) \in Seq(AllBytes)
  <2>1. IdLen \in Nat
    BY VarLenAssumption
  <2> QED BY <2>1, BytesType
<1>4. \A q \in DataParts : q \in Seq(AllBytes)
  BY <1>1 DEF DataParts
<1>5. ASSUME NEW id \in SessionIDs, NEW q \in DataParts
      PROVE  Bytes("id", id, IdLen) \o q \in Seq(AllBytes)
  BY <1>2, <1>4, ConcatProperties
<1>6. p \in DataParts \/ \E id \in SessionIDs, q \in DataParts : p = Bytes("id", id, IdLen) \o q
  BY DEF Payloads
<1> QED BY <1>4, <1>5, <1>6

LEMMA PayloadKept == ASSUME IInv, PayloadInv, [Next]_vars PROVE PayloadInv'
<1> USE DEF PayloadInv
<1>1. CASE AddData
  <2>1. PICK n \in 1 .. MaxData, d \in Data :
          Call(DataCut(readIndex, writeIndex, n), Bytes("data", d, n))
    BY <1>1 DEF AddData
  <2>2. PICK p \in Payloads : p = Bytes("data", d, n)
    BY DEF Payloads, DataParts
  <2> QED BY <2>1, <2>2 DEF Call
<1>2. CASE AddSessionIDAndData
  <2>1. PICK n \in 1 .. MaxData, d \in Data, id \in SessionIDs :
          Call(IdCut(readIndex, writeIndex, n),
               Bytes("id", id, IdLen) \o Bytes("data", d, n))
    BY <1>2 DEF AddSessionIDAndData
  <2>2. Bytes("id", id, IdLen) \o Bytes("data", d, n) \in Payloads
    <3>1. Bytes("data", d, n) \in DataParts
      BY DEF DataParts
    <3> QED BY <3>1 DEF Payloads
  <2>3. PICK p \in Payloads : p = Bytes("id", id, IdLen) \o Bytes("data", d, n)
    BY <2>2
  <2> QED BY <2>1, <2>3 DEF Call
<1>3. CASE CopyIn
  <2>1. prod # NoCall
    BY <1>3 DEF CopyIn, NoCall
  <2>2. prod'.packet = prod.packet
    BY <1>3, <2>1, ProdType DEF IInv, CopyIn
  <2> QED BY <2>1, <2>2
<1>4. CASE PublishWrite
  BY <1>4 DEF PublishWrite
<1>5. CASE GetData \/ CopyOut \/ ReadLength \/ PublishRead \/ UNCHANGED vars
  BY <1>5 DEF GetData, CopyOut, ReadLength, PublishRead, vars
<1> QED BY <1>1, <1>2, <1>3, <1>4, <1>5 DEF Next

IsList(q, n) == q = [k \in 1 .. n |-> q[k]]

LEMMA AppendIs ==
  ASSUME NEW n \in Nat, NEW q, NEW r, NEW x, IsList(q, n), IsList(r, n + 1),
         r[n + 1] = x, \A k \in 1 .. n : r[k] = q[k]
  PROVE  r = Append(q, x)
<1> USE DEF IsList
<1> DEFINE V == {r[k] : k \in 1 .. n + 1}
<1>1. \A k \in 1 .. n + 1 : r[k] \in V
  OBVIOUS
<1>2. \A k \in 1 .. n : q[k] \in V
  <2>1. \A k \in 1 .. n : k \in 1 .. n + 1
    OBVIOUS
  <2> QED BY <1>1, <2>1
<1>3. n + 1 \in 1 .. n + 1 /\ n + 1 \in Nat
  OBVIOUS
<1> HIDE DEF V
<1>4. x \in V
  BY <1>1, <1>3
<1>5. q \in Seq(V) /\ Len(q) = n
  <2>1. q \in [1 .. n -> V]
    BY <1>2
  <2> QED BY <2>1, FunctionIsSequence
<1>6. r \in Seq(V) /\ Len(r) = n + 1
  <2>1. r \in [1 .. n + 1 -> V]
    BY <1>1
  <2> QED BY <1>3, <2>1, FunctionIsSequence
<1>7. /\ Append(q, x) \in Seq(V) /\ Len(Append(q, x)) = Len(q) + 1
      /\ \A i \in 1 .. Len(q) : Append(q, x)[i] = q[i]
      /\ Append(q, x)[Len(q) + 1] = x
  BY <1>4, <1>5, AppendProperties
<1>8. ASSUME NEW k \in 1 .. n + 1 PROVE r[k] = Append(q, x)[k]
  <2>1. CASE k \in 1 .. n
    BY <1>5, <1>7, <2>1
  <2>2. CASE k = n + 1
    BY <1>5, <1>7, <2>2
  <2> QED BY <1>8, <2>1, <2>2
<1>9. Len(r) = Len(Append(q, x))
  BY <1>5, <1>6, <1>7
<1>10. \A k \in 1 .. Len(r) : r[k] = Append(q, x)[k]
  BY <1>6, <1>8
<1> QED BY <1>6, <1>7, <1>9, <1>10, SeqEqual

LEMMA TailIs ==
  ASSUME NEW n \in Nat, n # 0, NEW q, NEW r, IsList(q, n), IsList(r, n - 1),
         \A k \in 1 .. n - 1 : r[k] = q[k + 1]
  PROVE  q # <<>> /\ Head(q) = q[1] /\ Tail(q) = r
<1> USE DEF IsList
<1> DEFINE V == {q[k] : k \in 1 .. n}
<1>1. \A k \in 1 .. n : q[k] \in V
  OBVIOUS
<1>2. \A k \in 1 .. n - 1 : k + 1 \in 1 .. n /\ r[k] \in V
  <2>1. \A k \in 1 .. n - 1 : k + 1 \in 1 .. n
    OBVIOUS
  <2> QED BY <1>1, <2>1
<1> HIDE DEF V
<1>3. q \in Seq(V) /\ Len(q) = n
  <2>1. q \in [1 .. n -> V]
    BY <1>1
  <2> QED BY <2>1, FunctionIsSequence
<1>4. r \in Seq(V) /\ Len(r) = n - 1
  <2>1. r \in [1 .. n - 1 -> V] /\ n - 1 \in Nat
    BY <1>2
  <2> QED BY <2>1, FunctionIsSequence
<1>5. q # <<>>
  <2>1. Len(<<>>) = 0
    BY EmptySeq
  <2> QED BY <1>3, <2>1
<1>6. /\ Head(q) = q[1] /\ Tail(q) \in Seq(V) /\ Len(Tail(q)) = n - 1
      /\ \A j \in 1 .. n - 1 : Tail(q)[j] = q[j + 1]
  BY <1>3, <1>5, TailOf
<1>7. Len(r) = Len(Tail(q)) /\ \A k \in 1 .. Len(r) : r[k] = Tail(q)[k]
  BY <1>4, <1>6
<1> QED BY <1>4, <1>5, <1>6, <1>7, SeqEqual

-----------------------------------------------------------------------------
(* What the steps do to the queue.                                          *)

LEMMA SameQueue ==
  ASSUME IInv, IInv', UNCHANGED <<readIndex, writeIndex>>,
         \A i \in 0 .. Count - 1 : buf'[At(readIndex + i)] = buf[At(readIndex + i)]
  PROVE  Queue' = Queue
<1>1. PICK n \in Nat : \E s \in [0 .. n -> Nat] : Ends(n, s)
  BY DEF IInv, Framed
<1>2. PICK s \in [0 .. n -> Nat] : Ends(n, s)
  BY <1>1
<1>3. Ends(n, s)'
  BY <1>2, EndsKept DEF IInv
<1>4. Queue = Taken(n, s)
  BY <1>2, QueueOfEnds DEF IInv, QueueIsTaken
<1>5. QueueIsTaken /\ QueueIsTaken'
  BY QueueOfEnds, PTL
<1>6. Queue' = Taken(n, s)'
  BY <1>3, <1>5 DEF IInv, QueueIsTaken
<1>7. PICK r \in Nat, c \in Nat, h \in Nat : r = readIndex /\ c = Count /\ h = HeadLen
  BY IndexType, CountRange, VarLenAssumption DEF IInv
<1>8. ASSUME NEW k \in 1 .. n
      PROVE  BodyAt(s[k - 1], s[k] - s[k - 1])' = BodyAt(s[k - 1], s[k] - s[k - 1])
  <2>1. PICK a \in Nat, b \in Nat, t \in Nat :
          /\ a = s[k - 1] /\ b = s[k] /\ t = b - a /\ b <= c /\ h < t
    <3>1. /\ s[k - 1] \in Nat /\ s[k] \in Nat /\ s[k] - s[k - 1] \in Nat
          /\ s[k] <= Count /\ HeadLen < s[k] - s[k - 1]
      BY <1>2, EndsFacts DEF IInv
    <3> QED BY <1>7, <3>1
  <2>2. ASSUME NEW j \in 1 .. t - h
        PROVE  buf'[At(r + a + h + j - 1)] = buf[At(r + a + h + j - 1)]
    <3>1. a + h + j - 1 \in 0 .. c - 1 /\ r + a + h + j - 1 = r + (a + h + j - 1)
      <4>1. j \in Nat /\ 1 <= j /\ j <= t - h /\ h < t /\ t = b - a /\ b <= c
        BY <1>7, <2>1, <2>2
      <4> QED BY <4>1
    <3> QED BY <1>7, <3>1
  <2>3. BodyAt(a, t)' = BodyAt(a, t)
    BY <1>7, <2>2 DEF BodyAt
  <2> QED BY <2>1, <2>3
<1>9. Taken(n, s)' = Taken(n, s)
  BY <1>8 DEF Taken
<1> QED BY <1>4, <1>6, <1>9

\* PublishWrite adds the packet behind the others.
LEMMA QueueAfterWrite ==
  ASSUME IInv, IInv', PayloadInv, PublishWrite
  PROVE  \E p \in Payloads : Queue' = Append(Queue, p)
<1>1. PICK n \in Nat : \E s \in [0 .. n -> Nat] : Ends(n, s)
  BY DEF IInv, Framed
<1>2. PICK s \in [0 .. n -> Nat] : Ends(n, s)
  BY <1>1
<1>3. PICK t \in [0 .. n + 1 -> Nat] :
        t[n + 1] = Count' /\ (\A k \in 0 .. n : t[k] = s[k]) /\ Ends(n + 1, t)'
  BY <1>2, EndsAfterWrite
<1>4. PICK q : q = Queue /\ q = Taken(n, s)
  BY <1>2, QueueOfEnds DEF IInv, QueueIsTaken
<1>5. QueueIsTaken /\ QueueIsTaken'
  BY QueueOfEnds, PTL
<1>6. n + 1 \in Nat
  OBVIOUS
<1>7. PICK v : v = Queue' /\ v = Taken(n + 1, t)'
  BY <1>3, <1>5, <1>6 DEF IInv, QueueIsTaken
<1>8. PICK p \in Payloads : prod.packet = HeadOf(HeadLen + Len(p)) \o p
  BY WriteFacts DEF PayloadInv
<1>17. PICK l \in Nat, c \in Nat, h \in Nat, r \in Nat :
         l = Len(prod.packet) /\ c = Count /\ h = HeadLen /\ r = readIndex
  <2>1. /\ Count \in Nat /\ HeadLen \in Nat /\ readIndex \in Nat /\ Len(prod.packet) \in Nat
    BY WriteFacts, CountRange, IndexType, VarLenAssumption DEF IInv
  <2> QED BY <2>1
<1>9. /\ l = Len(prod.packet) /\ c = Count /\ h = HeadLen /\ r = readIndex
      /\ Count' = c + l /\ readIndex' = r /\ buf' = buf
      /\ \A i \in 0 .. l - 1 : buf[At(r + c + i)] = prod.packet[i + 1]
  BY <1>17, WriteFacts
<1>10. /\ p = [k \in 1 .. l - h |-> p[k]] /\ l - h \in Nat
       /\ \A k \in 1 .. l - h : prod.packet[h + k] = p[k]
  <2>1. PICK m \in Nat : m = Len(p) /\ p \in Seq(AllBytes) /\ p = [k \in 1 .. m |-> p[k]]
    BY <1>8, PayloadType, LenProperties
  <2>2. h + m \in Nat
    BY <1>9
  <2>3. PICK head \in Seq(AllBytes) : head = HeadOf(h + m) /\ Len(head) = h
    BY <1>9, <2>2, HeadOfFacts
  <2>4. /\ Len(head \o p) = Len(head) + Len(p)
        /\ \A i \in 1 .. Len(head) + Len(p) :
             (head \o p)[i] = IF i <= Len(head) THEN head[i] ELSE p[i - Len(head)]
    BY <2>1, ConcatProperties
  <2>5. PICK whole : whole = prod.packet /\ whole = head \o p
    BY <1>8, <1>9, <2>1, <2>3
  <2>6. /\ Len(whole) = h + m
        /\ \A i \in 1 .. h + m : whole[i] = IF i <= h THEN head[i] ELSE p[i - h]
    BY <2>1, <2>3, <2>4, <2>5
  <2>7. l = h + m /\ l - h = m
    BY <1>9, <2>5, <2>6
  <2>8. ASSUME NEW k \in 1 .. m PROVE prod.packet[h + k] = p[k]
    <3>1. PICK i \in 1 .. h + m : i = h + k /\ ~(i <= h) /\ i - h = k
      BY <2>8
    <3>2. whole[i] = p[k]
      BY <2>6, <3>1
    <3> QED BY <2>5, <3>1, <3>2
  <2> QED BY <2>1, <2>7, <2>8
<1>11. BodyAt(c, l)' = p
  <2>1. ASSUME NEW k \in 1 .. l - h PROVE buf[At(r + c + h + k - 1)] = p[k]
    <3>1. h + k - 1 \in 0 .. l - 1 /\ (h + k - 1) + 1 = h + k /\ r + c + (h + k - 1) = r + c + h + k - 1
      BY <1>10, <2>1
    <3> QED BY <1>9, <1>10, <2>1, <3>1
  <2> QED BY <1>9, <1>10, <2>1 DEF BodyAt
<1>12. \A a, b : BodyAt(a, b)' = BodyAt(a, b)
  BY <1>9 DEF BodyAt
<1>13. IsList(q, n) /\ IsList(v, n + 1)
  BY <1>4, <1>7 DEF Taken, IsList
<1>14. v[n + 1] = p
  <2>1. n + 1 \in 1 .. n + 1 /\ n \in 0 .. n /\ (n + 1) - 1 = n
    OBVIOUS
  <2>2. v[n + 1] = BodyAt(t[(n + 1) - 1], t[n + 1] - t[(n + 1) - 1])'
    BY <1>7, <2>1 DEF Taken
  <2>3. t[(n + 1) - 1] = c /\ t[n + 1] = c + l
    BY <1>2, <1>3, <1>9, <2>1 DEF Ends
  <2>4. c + l - c = l
    BY <1>9
  <2> QED BY <1>11, <2>2, <2>3, <2>4
<1>15. ASSUME NEW k \in 1 .. n PROVE v[k] = q[k]
  <2>1. k \in 1 .. n + 1 /\ k - 1 \in 0 .. n /\ k \in 0 .. n
    BY <1>15
  <2>2. v[k] = BodyAt(t[k - 1], t[k] - t[k - 1])'
    BY <1>7, <2>1 DEF Taken
  <2>3. q[k] = BodyAt(s[k - 1], s[k] - s[k - 1])
    BY <1>4, <1>15 DEF Taken
  <2>4. t[k - 1] = s[k - 1] /\ t[k] = s[k]
    BY <1>3, <2>1
  <2> QED BY <1>12, <2>2, <2>3, <2>4
<1>16. v = Append(q, p)
  <2>1. \A k \in 1 .. n : v[k] = q[k]
    BY <1>15
  <2> QED BY <1>13, <1>14, <2>1, AppendIs
<1> QED BY <1>4, <1>7, <1>16

\* PublishRead takes the first packet.
LEMMA QueueAfterRead ==
  ASSUME IInv, IInv', PublishRead
  PROVE  Queue # <<>> /\ delivered' = Head(Queue) /\ Queue' = Tail(Queue)
<1>1. PICK n \in Nat : \E s \in [0 .. n -> Nat] : Ends(n, s)
  BY DEF IInv, Framed
<1>2. PICK s \in [0 .. n -> Nat] : Ends(n, s)
  BY <1>1
<1>3. PICK t : t = [k \in 0 .. n - 1 |-> s[k + 1] - s[1]]
  OBVIOUS
<1>4. /\ n - 1 \in Nat /\ s[1] \in HeadLen + 1 .. Count
      /\ delivered' = BodyAt(0, s[1])
      /\ \A i \in Nat : s[1] + i < Cap => At(readIndex' + i) = At(readIndex + s[1] + i)
      /\ t \in [0 .. n - 1 -> Nat] /\ Ends(n - 1, t)'
  BY <1>2, <1>3, EndsAfterRead
<1>5. QueueIsTaken /\ QueueIsTaken'
  BY QueueOfEnds, PTL
<1>6. PICK q : q = Queue /\ q = Taken(n, s)
  BY <1>2, <1>5 DEF IInv, QueueIsTaken
<1>7. PICK v : v = Queue' /\ v = Taken(n - 1, t)'
  BY <1>4, <1>5 DEF IInv, QueueIsTaken
<1>8. PICK c \in Nat, h \in Nat, r \in Nat, z \in Nat, total \in Nat :
        /\ c = Count /\ h = HeadLen /\ r = readIndex /\ z = readIndex' /\ total = s[1]
        /\ c < Cap
  <2>1. /\ Count \in Nat /\ HeadLen \in Nat /\ readIndex \in Nat /\ readIndex' \in Nat
        /\ Count < Cap
    BY NextIndex, CountRange, IndexType, VarLenAssumption DEF IInv
  <2>2. s[1] \in Nat
    BY <1>4, <2>1
  <2> QED BY <2>1, <2>2
<1>9. ASSUME NEW i \in Nat, NEW l \in Nat, total + i + l <= c
      PROVE  BodyAt(i, l)' = BodyAt(total + i, l)
  <2>1. ASSUME NEW j \in 1 .. l - h
        PROVE  buf'[At(z + i + h + j - 1)] = buf[At(r + (total + i) + h + j - 1)]
    <3>1. PICK x \in Nat : x = i + h + j - 1 /\ total + x < Cap
      <4>1. j \in Nat /\ 1 <= j /\ j <= l - h /\ Cap \in Nat
        BY <2>1, VarLenAssumption
      <4>2. i + h + j - 1 \in Nat /\ total + (i + h + j - 1) < Cap
        BY <1>8, <1>9, <4>1
      <4> QED BY <4>2
    <3>2. At(z + x) = At(r + total + x)
      BY <1>4, <1>8, <3>1
    <3>3. /\ z + i + h + j - 1 = z + x
          /\ r + total + x = r + (total + i) + h + j - 1
      BY <2>1, <3>1
    <3> QED BY <3>2, <3>3 DEF PublishRead
  <2> QED BY <1>8, <2>1 DEF BodyAt
<1>10. IsList(q, n) /\ IsList(v, n - 1)
  BY <1>6, <1>7 DEF Taken, IsList
<1>11. n # 0 /\ 1 \in 1 .. n /\ s[0] = 0 /\ 1 - 1 = 0
  BY <1>2, <1>4 DEF Ends
<1>12. q[1] = BodyAt(0, s[1])
  <2>1. q[1] = BodyAt(s[1 - 1], s[1] - s[1 - 1])
    BY <1>6, <1>11 DEF Taken
  <2>2. total - 0 = total
    OBVIOUS
  <2> QED BY <1>8, <1>11, <2>1, <2>2
<1>13. ASSUME NEW k \in 1 .. n - 1 PROVE v[k] = q[k + 1]
  <2>1. /\ k - 1 \in 0 .. n - 1 /\ k \in 0 .. n - 1 /\ k + 1 \in 1 .. n /\ (k - 1) + 1 = k
        /\ (k + 1) - 1 = k /\ k \in 1 .. n
    BY <1>4, <1>13
  <2>2. v[k] = BodyAt(t[k - 1], t[k] - t[k - 1])'
    BY <1>7, <1>13 DEF Taken
  <2>3. q[k + 1] = BodyAt(s[(k + 1) - 1], s[k + 1] - s[(k + 1) - 1])
    BY <1>6, <2>1 DEF Taken
  <2>4. PICK a \in Nat, b \in Nat, l \in Nat :
          a = s[k] /\ b = s[k + 1] /\ l = b - a /\ b <= c /\ total <= a
    <3>1. /\ s[(k + 1) - 1] \in Nat /\ s[k + 1] \in Nat /\ s[k + 1] <= Count
          /\ s[k + 1] - s[(k + 1) - 1] \in Nat
      BY <1>2, <2>1, EndsFacts DEF IInv
    <3>2. s[1] <= s[k]
      BY <1>2, <2>1, EndsAfterFirst DEF IInv
    <3>3. s[k] \in Nat /\ s[k + 1] - s[k] \in Nat
      BY <2>1, <3>1
    <3> QED BY <1>8, <3>1, <3>2, <3>3
  <2>5. t[k - 1] = a - total /\ t[k] = b - total
    <3>1. t[k - 1] = s[(k - 1) + 1] - s[1] /\ t[k] = s[k + 1] - s[1]
      BY <1>3, <2>1
    <3> QED BY <1>8, <2>1, <2>4, <3>1
  <2>6. PICK i \in Nat : i = a - total
    BY <2>4
  <2>7. (b - total) - (a - total) = l /\ total + i = a /\ total + i + l <= c
    <3>1. l = b - a /\ b <= c /\ total <= a /\ i = a - total
      BY <2>4, <2>6
    <3> QED BY <3>1
  <2>8. BodyAt(i, l)' = BodyAt(total + i, l)
    BY <1>9, <2>7
  <2>9. v[k] = BodyAt(i, l)'
    BY <2>2, <2>5, <2>6, <2>7
  <2>10. q[k + 1] = BodyAt(a, l)
    BY <2>1, <2>3, <2>4
  <2> QED BY <2>7, <2>8, <2>9, <2>10
<1>14. q # <<>> /\ Head(q) = q[1] /\ Tail(q) = v
  <2>1. \A k \in 1 .. n - 1 : v[k] = q[k + 1]
    BY <1>13
  <2> QED BY <1>10, <1>11, <2>1, TailIs
<1> QED BY <1>4, <1>6, <1>7, <1>12, <1>14

LEMMA EmptyQueue == Init => Queue = <<>>
<1> SUFFICES ASSUME Init PROVE Queue = <<>>
  OBVIOUS
<1>1. RingType /\ Count = 0
  <2>1. IInv
    BY InitInv
  <2> QED BY <2>1 DEF IInv, Init, Count
<1>2. PICK s \in [0 .. 0 -> Nat] : s[0] = 0
  <2>1. [k \in 0 .. 0 |-> 0] \in [0 .. 0 -> Nat] /\ [k \in 0 .. 0 |-> 0][0] = 0
    OBVIOUS
  <2> QED BY <2>1
<1>3. Ends(0, s)
  BY <1>1, <1>2 DEF Ends
<1>4. Queue = Taken(0, s)
  BY <1>1, <1>3, QueueOfEnds DEF QueueIsTaken
<1>5. PICK q : q = Queue /\ IsList(q, 0)
  BY <1>4 DEF Taken, IsList
<1>6. q = <<>>
  <2>1. q \in [1 .. 0 -> {}]
    BY <1>5 DEF IsList
  <2>2. q \in Seq({}) /\ Len(q) = 0
    BY <2>1, FunctionIsSequence
  <2> QED BY <2>2, EmptySeq
<1> QED BY <1>5, <1>6

\* Each step of the ring is a Put, a Get or none of either.
LEMMA QueueStep ==
  ASSUME IInv, IInv', PayloadInv, [Next]_vars
  PROVE  [Abstract!Next]_<<Queue, delivered>>
<1>1. CASE PublishWrite
  <2>1. \E p \in Payloads : Queue' = Append(Queue, p)
    BY <1>1, QueueAfterWrite
  <2>2. delivered' = delivered
    BY <1>1 DEF PublishWrite
  <2> QED BY <2>1, <2>2 DEF Abstract!Next, Abstract!Put
<1>2. CASE PublishRead
  BY <1>2, QueueAfterRead DEF Abstract!Next, Abstract!Get
<1>3. CASE CopyIn
  <2>1. Queue' = Queue
    BY <1>3, CopyInTouches, SameQueue DEF CopyIn
  <2> QED BY <1>3, <2>1 DEF CopyIn
<1>4. CASE \/ AddData \/ AddSessionIDAndData \/ GetData \/ CopyOut \/ ReadLength
           \/ UNCHANGED vars
  <2>1. UNCHANGED <<buf, readIndex, writeIndex, delivered>>
    BY <1>4 DEF AddData, AddSessionIDAndData, Call, GetData, CopyOut, ReadLength, vars
  <2>2. Queue' = Queue
    BY <2>1, SameQueue
  <2> QED BY <2>1, <2>2
<1> QED BY <1>1, <1>2, <1>3, <1>4 DEF Next

\* The ring is a first-in first-out queue of whole packets: a publish of the
\* producer appends one, a publish of the consumer takes the oldest, and no
\* memmove in between shows.
THEOREM RingIsPacketQueue == Spec => ImplementsPacketQueue
<1>1. Init => Abstract!Init
  BY EmptyQueue DEF Init, Abstract!Init
<1>2. Init => PayloadInv
  BY DEF Init, PayloadInv
<1>3. Spec => []PayloadInv
  <2>1. IInv /\ PayloadInv /\ [Next]_vars => PayloadInv'
    BY PayloadKept
  <2> QED BY <1>2, <2>1, RingInv, PTL DEF Spec
<1>4. IInv /\ IInv' /\ PayloadInv /\ [Next]_vars => [Abstract!Next]_<<Queue, delivered>>
  BY QueueStep
<1> QED BY <1>1, <1>3, <1>4, RingInv, PTL DEF Spec, ImplementsPacketQueue, Abstract!Spec
=============================================================================
