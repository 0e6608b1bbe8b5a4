---------------------------- MODULE FixLenRingProofs ----------------------------
(***************************************************************************)
(* The ring implements a bounded queue for every capacity, every set of    *)
(* items and every batch size.                                             *)
(***************************************************************************)
EXTENDS FixLenRing, SequenceTheorems, TLAPS

\* The place the i-th item of the producer's batch goes to (i counts from 0).
WPlace(i) == IF writeIndex + i < Cap THEN writeIndex + i ELSE writeIndex + i - Cap

\* Where the piece after j starts in the batch; the last one ends the batch.
EndOf(todo, batch, j) == IF j = Len(todo) THEN Len(batch) ELSE todo[j + 1].from

Contiguous(todo, batch) ==
  \A j \in 1 .. Len(todo) :
    /\ todo[j].at = WPlace(todo[j].from)
    /\ todo[j].at + todo[j].len <= Cap
    /\ todo[j].from + todo[j].len = EndOf(todo, batch, j)
    /\ todo[j].from + todo[j].len <= Len(batch)

\* How much of the batch is in the buffer.
Done == IF prod.todo = <<>> THEN Len(prod.batch) ELSE prod.todo[1].from

\* A producer's call writes its batch from the write index on, piece by piece,
\* into places that are free, and will publish the index behind the batch.
ProdInv ==
  /\ prod.pc = "idle" <=> prod = NoCall
  /\ prod.pc # "idle" =>
       /\ Len(prod.batch) >= 1
       /\ Count + Len(prod.batch) <= Cap - 1
       /\ prod.next = WPlace(Len(prod.batch))
       /\ prod.pc = "publish" <=> prod.todo = <<>>
       /\ Contiguous(prod.todo, prod.batch)
       /\ \A i \in 0 .. Done - 1 : buf[WPlace(i)] = prod.batch[i + 1]

\* A consumer's call reads from the read index on, at most what is readable.
ConsInv ==
  /\ cons.pc = "idle" <=> cons = NoTake
  /\ cons.pc # "idle" =>
       /\ Len(cons.todo) \in {1, 2}
       /\ cons.todo[1].at = readIndex
       /\ cons.todo[1].len <= Count
       /\ cons.todo[1].at + cons.todo[1].len <= Cap
       /\ cons.todo[1].next = Place(cons.todo[1].len)
       /\ Len(cons.todo) = 2 =>
            /\ cons.todo[2].at = cons.todo[1].next
            /\ cons.todo[1].len + cons.todo[2].len <= Count
            /\ cons.todo[2].at + cons.todo[2].len <= Cap
            /\ cons.todo[2].next = Place(cons.todo[1].len + cons.todo[2].len)
  /\ cons.pc = "publish" => cons.got = Content(cons.todo[1].at, cons.todo[1].len)

IInv == TypeOK /\ ProdInv /\ ConsInv

-----------------------------------------------------------------------------
(* Sequences.                                                               *)

LEMMA TailFacts ==
  ASSUME NEW S, NEW s \in Seq(S), s # <<>>
  PROVE  /\ Tail(s) \in Seq(S)
         /\ Len(Tail(s)) = Len(s) - 1
         /\ \A i \in 1 .. Len(Tail(s)) : Tail(s)[i] = s[i + 1]
         /\ Head(s) = s[1]
         /\ Head(s) \in S
         /\ Len(s) \in Nat \ {0}
  BY HeadTailProperties, ElementOfSeq, LenProperties

LEMMA SingleFacts ==
  ASSUME NEW S, NEW a \in S
  PROVE  <<a>> \in Seq(S) /\ Len(<<a>>) = 1 /\ <<a>>[1] = a
  OBVIOUS

LEMMA PairFacts ==
  ASSUME NEW S, NEW a \in S, NEW b \in S
  PROVE  /\ <<a, b>> \in Seq(S) /\ Len(<<a, b>>) = 2
         /\ <<a, b>>[1] = a /\ <<a, b>>[2] = b
  OBVIOUS

LEMMA TripleFacts ==
  ASSUME NEW S, NEW a \in S, NEW b \in S, NEW c \in S
  PROVE  /\ <<a, b, c>> \in Seq(S) /\ Len(<<a, b, c>>) = 3
         /\ <<a, b, c>>[1] = a /\ <<a, b, c>>[2] = b /\ <<a, b, c>>[3] = c
  OBVIOUS

LEMMA FunctionIsSequence ==
  ASSUME NEW S, NEW n \in Nat, NEW f \in [1 .. n -> S]
  PROVE  f \in Seq(S) /\ Len(f) = n
  BY IsASeq, LenProperties

LEMMA EmptyFacts ==
  ASSUME NEW S
  PROVE  <<>> \in Seq(S) /\ Len(<<>>) = 0
  OBVIOUS
-----------------------------------------------------------------------------
(* Places.                                                                  *)

LEMMA CountRange == ASSUME TypeOK PROVE Count \in 0 .. Cap - 1
  BY RingAssumption DEF TypeOK, Count, Places

\* What Fits admits leaves the one place free that tells full from empty.
LEMMA FitsMeansRoom ==
  ASSUME TypeOK, NEW n \in Nat \ {0}, Fits(readIndex, writeIndex, n)
  PROVE  /\ Count + n <= Cap - 1
         /\ NextWrite(readIndex, writeIndex, n) = WPlace(n)
         /\ WPlace(n) \in Places
  BY RingAssumption DEF TypeOK, Fits, Free, Count, Places, NextWrite, WPlace

\* The pieces of AddItems cover the batch, one behind the other.
LEMMA ItemPiecesContiguous ==
  ASSUME TypeOK, NEW batch \in Seq(Items), Len(batch) >= 1,
         Fits(readIndex, writeIndex, Len(batch)),
         NEW todo, todo = ItemPieces(readIndex, writeIndex, Len(batch))
  PROVE  /\ todo \in Pieces /\ todo # <<>> /\ todo[1].from = 0
         /\ Contiguous(todo, batch)
  <1> DEFINE n == Len(batch)
             r == readIndex
             w == writeIndex
             P == [at : Places, from : Nat, len : Nat \ {0}]
  <1>1. n \in Nat \ {0} /\ r \in Places /\ w \in Places /\ Count + n <= Cap - 1
    BY FitsMeansRoom, LenProperties DEF TypeOK
  <1>2. CASE w < r \/ w + n <= Cap
    <2>1. w + n <= Cap
      BY <1>1, <1>2, CountRange, RingAssumption DEF Count, Places
    <2>2. Piece(w, 0, n) \in P
      BY <1>1 DEF Piece
    <2>3. todo = <<Piece(w, 0, n)>>
      BY <1>2 DEF ItemPieces
    <2>4. todo \in Seq(P) /\ Len(todo) = 1 /\ todo[1] = Piece(w, 0, n)
      BY <2>2, <2>3, SingleFacts
    <2>5. WPlace(0) = w
      BY <1>1, RingAssumption DEF WPlace, Places
    <2> QED
      BY <1>1, <2>1, <2>3, <2>4, <2>5 DEF Pieces, Contiguous, EndOf, Piece
  <1>3. CASE ~(w < r \/ w + n <= Cap)
    <2> DEFINE a == Piece(w, 0, Cap - w)
               b == Piece(0, Cap - w, n - (Cap - w))
    <2>1. a \in P /\ b \in P
      BY <1>1, <1>3, RingAssumption DEF Piece, Places
    <2>2. todo = <<a, b>>
      BY <1>3 DEF ItemPieces
    <2>3. todo \in Seq(P) /\ Len(todo) = 2 /\ todo[1] = a /\ todo[2] = b
      BY <2>1, <2>2, PairFacts
    <2>4. WPlace(0) = w /\ WPlace(Cap - w) = 0 /\ n - (Cap - w) <= Cap
      BY <1>1, <1>3, CountRange, RingAssumption DEF WPlace, Places
    <2> QED
      BY <1>1, <2>2, <2>3, <2>4, RingAssumption
      DEF Pieces, Contiguous, EndOf, Piece, Places
  <1> QED BY <1>2, <1>3

\* The same for a batch that starts with its length prefix.
LEMMA PrefixedPiecesContiguous ==
  ASSUME TypeOK, NEW batch \in Seq(Items), NEW n \in Nat \ {0},
         Len(batch) = PrefixLen + n,
         Fits(readIndex, writeIndex, Len(batch)),
         NEW todo, todo = PrefixedPieces(readIndex, writeIndex, n)
  PROVE  /\ todo \in Pieces /\ todo # <<>> /\ todo[1].from = 0
         /\ Contiguous(todo, batch)
  <1> DEFINE w == writeIndex
             toEnd == Cap - w
             P == [at : Places, from : Nat, len : Nat \ {0}]
  <1>1. /\ w \in Places /\ PrefixLen \in Nat \ {0} /\ Cap \in Nat \ {0}
        /\ Count + PrefixLen + n <= Cap - 1 /\ Count \in Nat /\ readIndex \in Places
    <2>1. w \in Places /\ readIndex \in Places /\ Len(batch) \in Nat \ {0}
      BY RingAssumption, LenProperties DEF TypeOK
    <2> QED
      BY <2>1, FitsMeansRoom, CountRange, RingAssumption
  <1>2. /\ WPlace(0) = w
        /\ \A i \in 0 .. toEnd - 1 : WPlace(i) = w + i
        /\ \A i \in toEnd .. PrefixLen + n : WPlace(i) = i - toEnd
    BY <1>1 DEF WPlace, Places
  <1>3. CASE w < readIndex \/ PrefixLen + n <= toEnd
    <2> DEFINE a == Piece(w, 0, PrefixLen)
               b == Piece(w + PrefixLen, PrefixLen, n)
    <2>1. PrefixLen + n <= toEnd
      BY <1>1, <1>3 DEF Count, Places
    <2>2. a \in P /\ b \in P
      BY <1>1, <2>1 DEF Piece, Places
    <2>3. todo = <<a, b>>
      BY <1>3 DEF PrefixedPieces
    <2>4. todo \in Seq(P) /\ Len(todo) = 2 /\ todo[1] = a /\ todo[2] = b
      BY <2>2, <2>3, PairFacts
    <2> QED
      BY <1>1, <1>2, <2>1, <2>3, <2>4 DEF Pieces, Contiguous, EndOf, Piece, Places
  <1>4. CASE ~(w < readIndex \/ PrefixLen + n <= toEnd) /\ toEnd > PrefixLen
    <2> DEFINE a == Piece(w, 0, PrefixLen)
               b == Piece(w + PrefixLen, PrefixLen, toEnd - PrefixLen)
               c == Piece(0, toEnd, n - (toEnd - PrefixLen))
    <2>2. a \in P /\ b \in P /\ c \in P
      BY <1>1, <1>4 DEF Piece, Places
    <2>3. todo = <<a, b, c>>
      BY <1>4 DEF PrefixedPieces
    <2>4. /\ todo \in Seq(P) /\ Len(todo) = 3
          /\ todo[1] = a /\ todo[2] = b /\ todo[3] = c
      BY <2>2, <2>3, TripleFacts
    <2>5. WPlace(0) = w /\ WPlace(PrefixLen) = w + PrefixLen /\ WPlace(toEnd) = 0
      BY <1>1, <1>2, <1>4 DEF Places
    <2>6. n - (toEnd - PrefixLen) <= Cap /\ w + toEnd = Cap
      BY <1>1, <1>4 DEF Places
    <2>7. /\ a.at = w /\ a.from = 0 /\ a.len = PrefixLen
          /\ b.at = w + PrefixLen /\ b.from = PrefixLen /\ b.len = toEnd - PrefixLen
          /\ c.at = 0 /\ c.from = toEnd /\ c.len = n - (toEnd - PrefixLen)
      BY DEF Piece
    <2> HIDE DEF a, b, c
    <2>8. Contiguous(todo, batch)
      <3> SUFFICES ASSUME NEW j \in {1, 2, 3}
                   PROVE  /\ todo[j].at = WPlace(todo[j].from)
                          /\ todo[j].at + todo[j].len <= Cap
                          /\ todo[j].from + todo[j].len = EndOf(todo, batch, j)
                          /\ todo[j].from + todo[j].len <= Len(batch)
        BY <2>4 DEF Contiguous
      <3>1. CASE j = 1
        BY <3>1, <1>1, <1>4, <2>4, <2>5, <2>7 DEF EndOf, Places
      <3>2. CASE j = 2
        BY <3>2, <1>1, <1>4, <2>4, <2>5, <2>6, <2>7 DEF EndOf, Places
      <3>3. CASE j = 3
        BY <3>3, <1>1, <1>4, <2>4, <2>5, <2>6, <2>7 DEF EndOf, Places
      <3> QED BY <3>1, <3>2, <3>3
    <2> QED
      BY <2>3, <2>4, <2>7, <2>8 DEF Pieces
  <1>5. CASE ~(w < readIndex \/ PrefixLen + n <= toEnd) /\ toEnd = PrefixLen
    <2> DEFINE a == Piece(w, 0, PrefixLen)
               b == Piece(0, PrefixLen, n)
    <2>2. a \in P /\ b \in P
      BY <1>1, <1>5 DEF Piece, Places
    <2>3. todo = <<a, b>>
      BY <1>1, <1>5 DEF PrefixedPieces, Places
    <2>4. todo \in Seq(P) /\ Len(todo) = 2 /\ todo[1] = a /\ todo[2] = b
      BY <2>2, <2>3, PairFacts
    <2> QED
      BY <1>1, <1>2, <1>5, <2>3, <2>4 DEF Pieces, Contiguous, EndOf, Piece, Places
  <1>6. CASE ~(w < readIndex \/ PrefixLen + n <= toEnd) /\ toEnd < PrefixLen
    <2> DEFINE a == Piece(w, 0, toEnd)
               b == Piece(0, toEnd, PrefixLen - toEnd)
               c == Piece(PrefixLen - toEnd, PrefixLen, n)
    <2>2. a \in P /\ b \in P /\ c \in P
      BY <1>1, <1>6 DEF Piece, Places
    <2>3. todo = <<a, b, c>>
      BY <1>1, <1>6 DEF PrefixedPieces, Places
    <2>4. /\ todo \in Seq(P) /\ Len(todo) = 3
          /\ todo[1] = a /\ todo[2] = b /\ todo[3] = c
      BY <2>2, <2>3, TripleFacts
    <2> QED
      BY <1>1, <1>2, <1>6, <2>3, <2>4 DEF Pieces, Contiguous, EndOf, Piece, Places
  <1> QED BY <1>1, <1>3, <1>4, <1>5, <1>6 DEF Places

\* The cuts of a consumer's call as ConsInv wants them.
Cutting(todo) ==
  /\ todo \in Cuts
  /\ Len(todo) \in {1, 2}
  /\ todo[1].at = readIndex
  /\ todo[1].len <= Count
  /\ todo[1].at + todo[1].len <= Cap
  /\ todo[1].next = Place(todo[1].len)
  /\ Len(todo) = 2 =>
       /\ todo[2].at = todo[1].next
       /\ todo[1].len + todo[2].len <= Count
       /\ todo[2].at + todo[2].len <= Cap
       /\ todo[2].next = Place(todo[1].len + todo[2].len)

LEMMA OneCutting ==
  ASSUME TypeOK, NEW len \in Nat \ {0}, len <= Count, readIndex + len <= Cap
  PROVE  Cutting(<<Cut(readIndex, len, Wrap(readIndex + len))>>)
  <1> DEFINE a == Cut(readIndex, len, Wrap(readIndex + len))
             P == [at : Places, len : Nat \ {0}, next : Places]
  <1>1. a \in P
    BY RingAssumption DEF TypeOK, Cut, Wrap, Places
  <1>2. <<a>> \in Seq(P) /\ Len(<<a>>) = 1 /\ <<a>>[1] = a
    BY <1>1, SingleFacts
  <1>3. Wrap(readIndex + len) = Place(len)
    BY RingAssumption DEF TypeOK, Wrap, Place, Places
  <1> QED BY <1>2, <1>3 DEF Cutting, Cuts, Cut

LEMMA GetCutting ==
  ASSUME TypeOK, readIndex # writeIndex
  PROVE  /\ Cutting(OneCut(readIndex, writeIndex))
         /\ \A n \in Nat \ {0} : Cutting(RequestCuts(readIndex, writeIndex, n))
         /\ Cutting(AllCuts(readIndex, writeIndex))
  <1> DEFINE r == readIndex
             w == writeIndex
  <1>1. r \in Places /\ w \in Places /\ Count \in Nat \ {0}
    BY CountRange, RingAssumption DEF TypeOK, Count, Places
  <1>2. Cutting(OneCut(r, w))
    <2>1. 1 <= Count /\ r + 1 <= Cap
      BY <1>1, RingAssumption DEF Places
    <2> QED BY <2>1, OneCutting DEF OneCut
  <1>3. ASSUME NEW n \in Nat \ {0}
        PROVE  Cutting(RequestCuts(r, w, n))
    <2> DEFINE run == IF r < w THEN w - r ELSE Cap - r
               len == IF run <= n THEN run ELSE n
    <2>1. len \in Nat \ {0} /\ len <= Count /\ r + len <= Cap
      BY <1>1, RingAssumption DEF Places, Count
    <2>2. RequestCuts(r, w, n) = <<Cut(r, len, Wrap(r + len))>>
      BY DEF RequestCuts
    <2> HIDE DEF len
    <2> QED BY <2>1, <2>2, OneCutting
  <1>4. Cutting(AllCuts(r, w))
    <2>1. CASE r < w
      <3>1. w - r \in Nat \ {0} /\ w - r <= Count /\ r + (w - r) <= Cap
            /\ Wrap(r + (w - r)) = w
        BY <1>1, <2>1, RingAssumption DEF Places, Count, Wrap
      <3> QED BY <2>1, <3>1, OneCutting DEF AllCuts
    <2>2. CASE ~(r < w) /\ w = 0
      <3>1. Cap - r \in Nat \ {0} /\ Cap - r <= Count /\ r + (Cap - r) <= Cap
            /\ Wrap(r + (Cap - r)) = 0
        BY <1>1, <2>2, RingAssumption DEF Places, Count, Wrap
      <3> QED BY <2>2, <3>1, OneCutting DEF AllCuts
    <2>3. CASE ~(r < w) /\ w # 0
      <3> DEFINE a == Cut(r, Cap - r, 0)
                 b == Cut(0, w, w)
                 P == [at : Places, len : Nat \ {0}, next : Places]
      <3>1. a \in P /\ b \in P
        BY <1>1, <2>3, RingAssumption DEF Cut, Places
      <3>2. <<a, b>> \in Seq(P) /\ Len(<<a, b>>) = 2
            /\ <<a, b>>[1] = a /\ <<a, b>>[2] = b
        BY <3>1, PairFacts
      <3>3. AllCuts(r, w) = <<a, b>>
        BY <2>3 DEF AllCuts
      <3>4. /\ Cap - r <= Count /\ r + (Cap - r) <= Cap /\ 0 = Place(Cap - r)
            /\ (Cap - r) + w <= Count /\ w <= Cap /\ w = Place((Cap - r) + w)
        BY <1>1, <2>3, RingAssumption DEF Places, Count, Place
      <3> QED BY <3>2, <3>3, <3>4 DEF Cutting, Cuts, Cut
    <2> QED BY <2>1, <2>2, <2>3
  <1> QED BY <1>2, <1>3, <1>4

-----------------------------------------------------------------------------
(* How the places move when an index moves.                                 *)

LEMMA PlaceRange ==
  ASSUME TypeOK
  PROVE  /\ \A i \in 0 .. Cap - 1 : Place(i) \in Places /\ WPlace(i) \in Places
         /\ \A i, k \in 0 .. Cap - 1 : Count + k < Cap /\ i < Count =>
              Place(i) # WPlace(k)
         /\ \A i, k \in 0 .. Cap - 1 : WPlace(i) = WPlace(k) => i = k
         /\ \A k \in 0 .. Cap - 1 : Count + k < Cap => WPlace(k) = Place(Count + k)
  BY RingAssumption DEF TypeOK, Count, Place, WPlace, Places

\* A piece that starts where its batch says and stays inside the buffer.
LEMMA PieceCovers ==
  ASSUME TypeOK, NEW p \in [at : Places, from : Nat, len : Nat \ {0}],
         p.at = WPlace(p.from), p.at + p.len <= Cap, p.from + p.len <= Cap
  PROVE  /\ \A i \in 0 .. p.len - 1 : WPlace(p.from + i) = p.at + i
         /\ \A c \in Places : Covers(p, c) =>
              /\ c - p.at \in 0 .. p.len - 1
              /\ c = WPlace(p.from + c - p.at)
         /\ \A i \in 0 .. Cap - 1 :
              Covers(p, WPlace(i)) <=> i \in p.from .. p.from + p.len - 1
  <1>1. /\ writeIndex \in Places /\ Cap \in Nat \ {0}
        /\ p.at \in Places /\ p.from \in Nat /\ p.len \in Nat \ {0}
    BY RingAssumption DEF TypeOK
  <1>2. \A i \in 0 .. p.len - 1 : WPlace(p.from + i) = p.at + i
    BY <1>1 DEF WPlace, Places
  <1>3. ASSUME NEW c \in Places, Covers(p, c)
        PROVE  /\ c - p.at \in 0 .. p.len - 1
               /\ c = WPlace(p.from + c - p.at)
    BY <1>1, <1>3 DEF WPlace, Places, Covers
  <1>4. ASSUME NEW i \in 0 .. Cap - 1
        PROVE  Covers(p, WPlace(i)) <=> i \in p.from .. p.from + p.len - 1
    BY <1>1 DEF WPlace, Places, Covers
  <1> QED BY <1>2, <1>3, <1>4

LEMMA ReadAdvances ==
  ASSUME TypeOK, NEW len \in Nat \ {0}, len <= Count,
         readIndex' = Place(len), writeIndex' = writeIndex
  PROVE  /\ Count' = Count - len
         /\ \A i \in 0 .. Cap - len : Place(i)' = Place(len + i)
         /\ \A i \in 0 .. Cap - 1 : WPlace(i)' = WPlace(i)
  BY RingAssumption DEF TypeOK, Count, Place, WPlace, Places

LEMMA WriteAdvances ==
  ASSUME TypeOK, NEW n \in Nat \ {0}, Count + n <= Cap - 1,
         writeIndex' = WPlace(n), readIndex' = readIndex
  PROVE  /\ Count' = Count + n
         /\ \A i \in 0 .. Cap - 1 : Place(i)' = Place(i)
  BY RingAssumption DEF TypeOK, Count, Place, WPlace, Places
-----------------------------------------------------------------------------
(* The steps.                                                               *)

LEMMA InitInv == RingInit => IInv
  <1> SUFFICES ASSUME RingInit PROVE IInv
    OBVIOUS
  <1>1. TypeOK
    <2>1. 0 \in Places
      BY RingAssumption DEF Places
    <2>2. <<>> \in Pieces /\ <<>> \in Cuts /\ <<>> \in Seq(Items)
      BY EmptyFacts DEF Pieces, Cuts
    <2> QED BY <2>1, <2>2 DEF RingInit, TypeOK, NoCall, NoTake, Phases
  <1>2. ProdInv
    BY DEF RingInit, ProdInv, NoCall
  <1>3. ConsInv
    BY DEF RingInit, ConsInv, NoTake
  <1> QED BY <1>1, <1>2, <1>3 DEF IInv

LEMMA CallInv ==
  ASSUME IInv, NEW todo, NEW batch \in Seq(Items), Len(batch) >= 1,
         Fits(readIndex, writeIndex, Len(batch)) =>
           /\ todo \in Pieces /\ todo # <<>> /\ todo[1].from = 0
           /\ Contiguous(todo, batch),
         Call(todo, batch)
  PROVE  IInv'
  <1> DEFINE n == Len(batch)
  <1>1. /\ n \in Nat \ {0} /\ Count + n <= Cap - 1
        /\ NextWrite(readIndex, writeIndex, n) = WPlace(n) /\ WPlace(n) \in Places
        /\ todo \in Pieces /\ todo # <<>> /\ todo[1].from = 0
        /\ Contiguous(todo, batch)
    <2>1. n \in Nat \ {0}
      BY LenProperties
    <2> QED BY <2>1, FitsMeansRoom DEF Call, IInv
  <1>2. prod' = [pc |-> "copy", todo |-> todo, batch |-> batch, next |-> WPlace(n)]
    BY <1>1 DEF Call
  <1>3. UNCHANGED <<buf, readIndex, writeIndex, cons, delivered>>
    BY DEF Call
  <1>4. TypeOK'
    BY <1>1, <1>2, <1>3 DEF IInv, TypeOK, Phases, Places
  <1>5. /\ Count' = Count
        /\ \A i : Place(i)' = Place(i) /\ WPlace(i)' = WPlace(i)
    BY <1>3 DEF Count, Place, WPlace
  <1>6. ConsInv'
    BY <1>3, <1>5 DEF IInv, ConsInv, Content
  <1>7. ProdInv'
    <2>1. Contiguous(todo, batch)'
      BY <1>1, <1>5 DEF Contiguous, EndOf
    <2>2. Done' = 0
      BY <1>1, <1>2 DEF Done
    <2>3. prod' # NoCall /\ prod'.pc = "copy" /\ prod'.todo = todo
          /\ prod'.batch = batch /\ prod'.next = WPlace(n)'
      BY <1>2, <1>5 DEF NoCall
    <2> QED BY <1>1, <1>2, <1>5, <2>1, <2>2, <2>3 DEF ProdInv, Contiguous
  <1> QED BY <1>4, <1>6, <1>7 DEF IInv

\* What holds of the piece a producer is about to write.
LEMMA FirstPiece ==
  ASSUME IInv, prod.pc = "copy"
  PROVE  /\ prod.todo # <<>> /\ Len(prod.todo) \in Nat \ {0}
         /\ prod.todo[1] \in [at : Places, from : Nat, len : Nat \ {0}]
         /\ Head(prod.todo) = prod.todo[1]
         /\ prod.todo[1].at = WPlace(prod.todo[1].from)
         /\ prod.todo[1].at + prod.todo[1].len <= Cap
         /\ prod.todo[1].from + prod.todo[1].len = EndOf(prod.todo, prod.batch, 1)
         /\ prod.todo[1].from + prod.todo[1].len <= Len(prod.batch)
         /\ Len(prod.batch) \in Nat /\ Count + Len(prod.batch) <= Cap - 1
         /\ Count \in Nat
  <1>1. /\ prod.todo \in Pieces /\ prod.todo # <<>> /\ prod.batch \in Seq(Items)
        /\ Contiguous(prod.todo, prod.batch)
        /\ Count + Len(prod.batch) <= Cap - 1
    BY DEF IInv, TypeOK, ProdInv
  <1>2. /\ Len(prod.todo) \in Nat \ {0} /\ Head(prod.todo) = prod.todo[1]
        /\ prod.todo[1] \in [at : Places, from : Nat, len : Nat \ {0}]
    <2> DEFINE P == [at : Places, from : Nat, len : Nat \ {0}]
    <2>1. prod.todo \in Seq(P) /\ prod.todo # <<>>
      BY <1>1 DEF Pieces
    <2> HIDE DEF P
    <2>2. /\ Len(prod.todo) \in Nat \ {0} /\ Head(prod.todo) = prod.todo[1]
          /\ Head(prod.todo) \in P
      BY <2>1, TailFacts
    <2> QED BY <2>2 DEF P
  <1>3. Len(prod.batch) \in Nat /\ Count \in Nat
    BY <1>1, LenProperties, CountRange, RingAssumption DEF IInv
  <1> QED BY <1>1, <1>2, <1>3 DEF Contiguous

\* CopyIn fills the places of its piece and leaves every readable place alone.
LEMMA CopyInEffect ==
  ASSUME IInv, CopyIn
  PROVE  /\ \A i \in 0 .. Cap - 1 : i < Count => buf'[Place(i)] = buf[Place(i)]
         /\ \A i \in 0 .. Done - 1 : buf'[WPlace(i)] = prod.batch[i + 1]
         /\ \A i \in Done .. EndOf(prod.todo, prod.batch, 1) - 1 :
              buf'[WPlace(i)] = prod.batch[i + 1]
         /\ buf' \in [Places -> Items]
  <1> DEFINE p == prod.todo[1]
             n == Len(prod.batch)
  <1>1. /\ prod.pc = "copy" /\ TypeOK /\ Done = p.from /\ Done \in Nat
        /\ \A i \in 0 .. Done - 1 : buf[WPlace(i)] = prod.batch[i + 1]
        /\ prod.batch \in Seq(Items)
    BY FirstPiece DEF CopyIn, IInv, ProdInv, Done, TypeOK
  <1>2. /\ p \in [at : Places, from : Nat, len : Nat \ {0}]
        /\ p.at = WPlace(p.from) /\ p.at + p.len <= Cap
        /\ p.from + p.len <= n /\ n \in Nat /\ Count + n <= Cap - 1 /\ Count \in Nat
        /\ p.from + p.len = EndOf(prod.todo, prod.batch, 1)
    BY <1>1, FirstPiece
  <1>3. buf' = [c \in Places |->
                 IF Covers(p, c) THEN prod.batch[p.from + c - p.at + 1] ELSE buf[c]]
    BY <1>1, FirstPiece DEF CopyIn
  <1> HIDE DEF p
  <1>4. /\ \A i \in 0 .. p.len - 1 : WPlace(p.from + i) = p.at + i
        /\ \A c \in Places : Covers(p, c) =>
             /\ c - p.at \in 0 .. p.len - 1
             /\ c = WPlace(p.from + c - p.at)
        /\ \A i \in 0 .. Cap - 1 :
             Covers(p, WPlace(i)) <=> i \in p.from .. p.from + p.len - 1
    <2>1. p.from + p.len <= Cap
      BY <1>2, RingAssumption
    <2> QED BY <1>1, <1>2, <2>1, PieceCovers
  <1>5. ASSUME NEW i \in 0 .. Cap - 1, i < Count
        PROVE  buf'[Place(i)] = buf[Place(i)]
    <2>1. Place(i) \in Places
      BY <1>1, PlaceRange
    <2>2. ~Covers(p, Place(i))
      <3>1. SUFFICES ASSUME Covers(p, Place(i)) PROVE FALSE
        OBVIOUS
      <3>2. PICK k \in 0 .. p.len - 1 : Place(i) = WPlace(p.from + k)
        <4>1. /\ Place(i) - p.at \in 0 .. p.len - 1
              /\ Place(i) = WPlace(p.from + Place(i) - p.at)
          BY <1>4, <2>1, <3>1
        <4>2. p.from + Place(i) - p.at = p.from + (Place(i) - p.at)
          BY <1>2, <2>1, RingAssumption DEF Places
        <4> QED BY <4>1, <4>2
      <3>3. p.from + k \in 0 .. Cap - 1 /\ Count + (p.from + k) < Cap
        BY <1>2, RingAssumption
      <3> QED BY <1>1, <1>5, <3>2, <3>3, PlaceRange
    <2> QED BY <1>3, <2>1, <2>2
  <1>6. ASSUME NEW i \in 0 .. Done - 1
        PROVE  buf'[WPlace(i)] = prod.batch[i + 1]
    <2>1. i \in 0 .. Cap - 1 /\ i \notin p.from .. p.from + p.len - 1
      BY <1>1, <1>2, RingAssumption
    <2>2. WPlace(i) \in Places /\ ~Covers(p, WPlace(i))
      BY <1>1, <1>4, <2>1, PlaceRange
    <2> QED BY <1>1, <1>3, <2>2
  <1>7. ASSUME NEW i \in Done .. EndOf(prod.todo, prod.batch, 1) - 1
        PROVE  buf'[WPlace(i)] = prod.batch[i + 1]
    <2>1. i \in 0 .. Cap - 1 /\ i \in p.from .. p.from + p.len - 1
      BY <1>1, <1>2, RingAssumption
    <2>2. WPlace(i) \in Places /\ Covers(p, WPlace(i))
      BY <1>1, <1>4, <2>1, PlaceRange
    <2>3. WPlace(i) = p.at + (i - p.from)
      <3>1. i - p.from \in 0 .. p.len - 1 /\ p.from + (i - p.from) = i
        BY <1>2, <2>1
      <3> QED BY <1>4, <3>1
    <2>4. p.from + WPlace(i) - p.at + 1 = i + 1
      BY <1>2, <2>1, <2>3 DEF Places
    <2> QED BY <1>3, <2>2, <2>4
  <1>8. buf' \in [Places -> Items]
    <2>1. ASSUME NEW c \in Places, Covers(p, c)
          PROVE  prod.batch[p.from + c - p.at + 1] \in Items
      <3>1. c - p.at \in 0 .. p.len - 1
        BY <1>4, <2>1
      <3>2. p.from + c - p.at + 1 \in 1 .. n
        BY SMTT(30), <1>2, <3>1, RingAssumption DEF Places
      <3> QED BY <1>1, <3>2, ElementOfSeq
    <2>2. \A c \in Places : buf[c] \in Items
      BY <1>1 DEF TypeOK
    <2> QED BY <1>3, <2>1, <2>2
  <1> QED BY <1>5, <1>6, <1>7, <1>8

LEMMA CopyInInv == ASSUME IInv, CopyIn PROVE IInv'
  <1> DEFINE todo == prod.todo
             batch == prod.batch
             n == Len(batch)
             P == [at : Places, from : Nat, len : Nat \ {0}]
  <1>1. /\ prod.pc = "copy" /\ TypeOK /\ ProdInv /\ ConsInv
        /\ todo \in Seq(P) /\ todo # <<>> /\ batch \in Seq(Items) /\ n \in Nat
    BY FirstPiece DEF CopyIn, IInv, TypeOK, Pieces
  <1>2. /\ Tail(todo) \in Seq(P)
        /\ Len(todo) \in Nat \ {0}
        /\ Len(Tail(todo)) = Len(todo) - 1
        /\ \A i \in 1 .. Len(Tail(todo)) : Tail(todo)[i] = todo[i + 1]
        /\ Tail(todo) = <<>> <=> Len(todo) = 1
    <2>1. /\ Tail(todo) \in Seq(P)
          /\ Len(todo) \in Nat \ {0}
          /\ Len(Tail(todo)) = Len(todo) - 1
          /\ \A i \in 1 .. Len(Tail(todo)) : Tail(todo)[i] = todo[i + 1]
      <3> HIDE DEF P
      <3> QED BY <1>1, TailFacts
    <2>2. Tail(todo) = <<>> <=> Len(Tail(todo)) = 0
      BY <2>1, EmptySeq
    <2> QED BY <2>1, <2>2
  <1>3. /\ prod'.pc = (IF Len(todo) = 1 THEN "publish" ELSE "copy")
        /\ prod'.todo = Tail(todo) /\ prod'.batch = batch /\ prod'.next = prod.next
        /\ prod' \in [pc : Phases, todo : Pieces, batch : Seq(Items), next : Places]
    BY <1>1, <1>2 DEF CopyIn, TypeOK, Pieces, Phases
  <1>4. UNCHANGED <<readIndex, writeIndex, cons, delivered>>
    BY DEF CopyIn
  <1>5. /\ Count' = Count
        /\ \A i : Place(i)' = Place(i) /\ WPlace(i)' = WPlace(i)
    BY <1>4 DEF Count, Place, WPlace
  <1>6. TypeOK'
    BY <1>1, <1>3, <1>4, CopyInEffect DEF TypeOK
  <1>7. Done' = EndOf(todo, batch, 1)
    BY <1>2, <1>3 DEF Done, EndOf
  <1>8. ProdInv'
    <2>1. Contiguous(prod.todo, prod.batch)'
      <3>1. ASSUME NEW j \in 1 .. Len(Tail(todo))
            PROVE  /\ Tail(todo)[j] = todo[j + 1]
                   /\ j + 1 \in 1 .. Len(todo)
                   /\ EndOf(Tail(todo), batch, j) = EndOf(todo, batch, j + 1)
        BY <1>2 DEF EndOf
      <3>2. Contiguous(todo, batch)
        BY <1>1 DEF ProdInv
      <3> QED BY <1>3, <1>5, <3>1, <3>2 DEF Contiguous, EndOf
    <2>2. \A i \in 0 .. Done' - 1 : buf'[WPlace(i)'] = prod'.batch[i + 1]
      <3>1. Done \in Nat /\ Done' \in Nat
        BY SMTT(30), <1>1, <1>7, FirstPiece DEF Done
      <3> QED BY <1>3, <1>5, <1>7, <3>1, CopyInEffect
    <2>3. prod'.pc # "idle" /\ prod' # NoCall
      BY <1>3 DEF NoCall
    <2>4. prod'.pc = "publish" <=> prod'.todo = <<>>
      BY <1>2, <1>3
    <2>5. /\ Len(prod'.batch) >= 1
          /\ Count' + Len(prod'.batch) <= Cap - 1
          /\ prod'.next = WPlace(Len(prod.batch))'
      BY <1>1, <1>3, <1>5 DEF ProdInv
    <2> QED BY <2>1, <2>2, <2>3, <2>4, <2>5 DEF ProdInv
  <1>9. ConsInv'
    <2>1. ASSUME cons.pc = "publish"
          PROVE  Content(cons.todo[1].at, cons.todo[1].len)'
                   = Content(cons.todo[1].at, cons.todo[1].len)
      <3> DEFINE q == cons.todo[1]
      <3>1. /\ q.at = readIndex /\ q.len <= Count /\ q.at + q.len <= Cap
            /\ q \in [at : Places, len : Nat \ {0}, next : Places]
        <4>1. cons.todo \in Cuts /\ Len(cons.todo) \in {1, 2}
          BY <1>1, <2>1 DEF ConsInv, TypeOK
        <4>2. 1 \in 1 .. Len(cons.todo)
          BY SMTT(30), <4>1
        <4> QED BY <1>1, <2>1, <4>1, <4>2, ElementOfSeq DEF ConsInv, Cuts
      <3> HIDE DEF q
      <3>2. ASSUME NEW i \in 1 .. q.len
            PROVE  buf'[q.at + i - 1] = buf[q.at + i - 1]
        <4>1. Place(i - 1) = q.at + i - 1 /\ i - 1 \in 0 .. Cap - 1 /\ i - 1 < Count
          BY SMTT(30), <1>1, <3>1, CountRange, RingAssumption DEF Place, TypeOK, Places
        <4> QED BY <4>1, CopyInEffect
      <3>3. /\ Content(q.at, q.len) = [i \in 1 .. q.len |-> buf[q.at + i - 1]]
            /\ q' = q
            /\ Content(q.at, q.len)' = [i \in 1 .. q.len |-> buf'[q.at + i - 1]]
        BY <1>4 DEF Content, q
      <3>4. Content(q.at, q.len)' = Content(q.at, q.len)
        BY <3>2, <3>3
      <3> QED BY <3>4 DEF q
    <2>2. \A i : Place(i)' = Place(i)
      BY <1>5
    <2> QED BY <1>1, <1>4, <1>5, <2>1, <2>2 DEF ConsInv
  <1> QED BY <1>6, <1>8, <1>9 DEF IInv

LEMMA PublishWriteInv == ASSUME IInv, PublishWrite PROVE IInv'
  <1> DEFINE n == Len(prod.batch)
  <1>1. /\ prod.pc = "publish" /\ TypeOK /\ ProdInv /\ ConsInv
        /\ n \in Nat \ {0} /\ Count + n <= Cap - 1 /\ prod.next = WPlace(n)
    BY LenProperties DEF PublishWrite, IInv, TypeOK, ProdInv
  <1>2. /\ writeIndex' = WPlace(n) /\ prod' = NoCall
        /\ UNCHANGED <<buf, readIndex, cons, delivered>>
    BY <1>1 DEF PublishWrite
  <1>3. Count' = Count + n /\ \A i \in 0 .. Cap - 1 : Place(i)' = Place(i)
    <2> HIDE DEF n
    <2> QED BY <1>1, <1>2, WriteAdvances
  <1>4. TypeOK'
    <2>1. NoCall \in [pc : Phases, todo : Pieces, batch : Seq(Items), next : Places]
      BY EmptyFacts, RingAssumption DEF NoCall, Phases, Pieces, Places
    <2>2. writeIndex' \in Places
      BY <1>1, <1>2 DEF TypeOK
    <2> QED BY <1>1, <1>2, <2>1, <2>2 DEF TypeOK
  <1>5. ProdInv'
    BY <1>2 DEF ProdInv, NoCall
  <1>6. ConsInv'
    <2>1. CASE cons.pc = "idle"
      BY <1>1, <1>2, <2>1 DEF ConsInv
    <2>2. CASE cons.pc # "idle"
      <3> DEFINE a == cons.todo[1]
                 b == cons.todo[2]
      <3>1. /\ cons.todo \in Cuts /\ Len(cons.todo) \in {1, 2}
            /\ a.len <= Count
            /\ Len(cons.todo) = 2 => a.len + b.len <= Count
        BY <1>1, <2>2 DEF ConsInv, TypeOK
      <3>5. a.len \in Nat /\ (Len(cons.todo) = 2 => b.len \in Nat)
        <4> DEFINE P == [at : Places, len : Nat \ {0}, next : Places]
        <4>1. cons.todo \in Seq(P)
          BY <3>1 DEF Cuts
        <4>2. 1 \in 1 .. Len(cons.todo)
              /\ (Len(cons.todo) = 2 => 2 \in 1 .. Len(cons.todo))
          BY <3>1
        <4>3. a \in P /\ (Len(cons.todo) = 2 => b \in P)
          <5> HIDE DEF P
          <5> QED BY <4>1, <4>2, ElementOfSeq
        <4> QED BY <4>3
      <3>6. Count \in 0 .. Cap - 1
        BY <1>1, CountRange
      <3> DEFINE la == a.len
                 lb == b.len
      <3> HIDE DEF la, lb, n
      <3>2. a.len <= Count' /\ Place(a.len)' = Place(a.len)
        <4>1. la \in 0 .. Cap - 1
          BY <3>1, <3>5, <3>6, RingAssumption DEF la
        <4>2. Place(la)' = Place(la)
          BY <1>2, <4>1, <1>3 DEF la
        <4> QED BY <1>1, <1>2, <1>3, <3>1, <3>5, <3>6, <4>2 DEF la
      <3>3. Len(cons.todo) = 2 => /\ a.len + b.len <= Count'
                                  /\ Place(a.len + b.len)' = Place(a.len + b.len)
        <4> SUFFICES ASSUME Len(cons.todo) = 2
                     PROVE  /\ a.len + b.len <= Count'
                            /\ Place(a.len + b.len)' = Place(a.len + b.len)
          OBVIOUS
        <4>1. la + lb \in 0 .. Cap - 1
          BY <3>1, <3>5, <3>6, RingAssumption DEF la, lb
        <4>2. Place(la + lb)' = Place(la + lb)
          BY <1>2, <4>1, <1>3 DEF la, lb
        <4> QED BY <1>1, <1>2, <1>3, <3>1, <3>5, <3>6, <4>2 DEF la, lb
      <3>4. Content(a.at, a.len)' = Content(a.at, a.len)
        BY <1>2 DEF Content
      <3> QED BY <1>1, <1>2, <2>2, <3>1, <3>2, <3>3, <3>4 DEF ConsInv
    <2> QED BY <2>1, <2>2
  <1> QED BY <1>4, <1>5, <1>6 DEF IInv

\* A step that leaves the buffer, the indexes and the producer alone.
LEMMA ConsumerFrame ==
  ASSUME IInv, UNCHANGED <<buf, readIndex, writeIndex, prod, delivered>>,
         cons' \in [pc : Phases, todo : Cuts, got : Seq(Items)]
  PROVE  /\ TypeOK' /\ ProdInv'
         /\ Count' = Count /\ \A i : Place(i)' = Place(i)
  <1>1. Count' = Count /\ \A i : Place(i)' = Place(i) /\ WPlace(i)' = WPlace(i)
    BY DEF Count, Place, WPlace
  <1>2. TypeOK'
    BY DEF IInv, TypeOK
  <1>3. Contiguous(prod.todo, prod.batch) => Contiguous(prod.todo, prod.batch)'
    BY <1>1 DEF Contiguous, EndOf
  <1>4. ProdInv'
    BY <1>1, <1>3 DEF IInv, ProdInv, Done
  <1> QED BY <1>1, <1>2, <1>4

LEMMA TakeInv ==
  ASSUME IInv, NEW todo, Cutting(todo), Take(todo)
  PROVE  IInv'
  <1>1. cons' = [pc |-> "copy", todo |-> todo, got |-> <<>>]
    BY DEF Take
  <1>2. UNCHANGED <<buf, readIndex, writeIndex, prod, delivered>>
    BY DEF Take
  <1>3. cons' \in [pc : Phases, todo : Cuts, got : Seq(Items)]
    BY <1>1, EmptyFacts DEF Phases, Cutting
  <1>4. TypeOK' /\ ProdInv' /\ Count' = Count /\ \A i : Place(i)' = Place(i)
    BY <1>2, <1>3, ConsumerFrame
  <1>5. ConsInv'
    BY <1>1, <1>2, <1>4 DEF ConsInv, Cutting, NoTake
  <1> QED BY <1>4, <1>5 DEF IInv

\* What holds of the cut a consumer is about to read or to publish.
LEMMA FirstCut ==
  ASSUME IInv, cons.pc # "idle"
  PROVE  /\ cons.todo \in Cuts /\ Len(cons.todo) \in {1, 2}
         /\ cons.todo[1] \in [at : Places, len : Nat \ {0}, next : Places]
         /\ Head(cons.todo) = cons.todo[1]
         /\ cons.todo[1].at = readIndex
         /\ cons.todo[1].at + cons.todo[1].len <= Cap
         /\ cons.todo[1].len <= Count
         /\ \A i \in 1 .. cons.todo[1].len :
              Place(i - 1) = cons.todo[1].at + i - 1 /\ Place(i - 1) \in Places
  <1>1. /\ cons.todo \in Cuts /\ Len(cons.todo) \in {1, 2}
        /\ cons.todo[1].at = readIndex
        /\ cons.todo[1].at + cons.todo[1].len <= Cap
        /\ cons.todo[1].len <= Count
    BY DEF IInv, ConsInv, TypeOK
  <1>2. /\ cons.todo[1] \in [at : Places, len : Nat \ {0}, next : Places]
        /\ Head(cons.todo) = cons.todo[1]
    <2> DEFINE P == [at : Places, len : Nat \ {0}, next : Places]
    <2>1. cons.todo \in Seq(P) /\ cons.todo # <<>>
      BY <1>1, EmptyFacts DEF Cuts
    <2> HIDE DEF P
    <2>2. Head(cons.todo) \in P /\ Head(cons.todo) = cons.todo[1]
      BY <2>1, TailFacts
    <2> QED BY <2>2 DEF P
  <1>3. \A i \in 1 .. cons.todo[1].len :
          Place(i - 1) = cons.todo[1].at + i - 1 /\ Place(i - 1) \in Places
    BY <1>1, <1>2, RingAssumption DEF Place, Places
  <1> QED BY <1>1, <1>2, <1>3

LEMMA CopyOutInv == ASSUME IInv, CopyOut PROVE IInv'
  <1> DEFINE a == cons.todo[1]
             got == Content(a.at, a.len)
  <1>1. cons.pc = "copy" /\ TypeOK /\ ConsInv
    BY DEF CopyOut, IInv
  <1>2. /\ cons' = [cons EXCEPT !.pc = "publish", !.got = got]
        /\ UNCHANGED <<buf, readIndex, writeIndex, prod, delivered>>
    BY <1>1, FirstCut DEF CopyOut
  <1>3. got \in Seq(Items)
    <2>1. a.len \in Nat /\ \A i \in 1 .. a.len : a.at + i - 1 \in Places
      <3>1. /\ a \in [at : Places, len : Nat \ {0}, next : Places]
            /\ \A i \in 1 .. a.len : Place(i - 1) = a.at + i - 1
                                     /\ Place(i - 1) \in Places
        BY <1>1, FirstCut
      <3> QED BY <3>1
    <2>2. got \in [1 .. a.len -> Items]
      BY <1>1, <2>1 DEF Content, TypeOK
    <2> HIDE DEF got
    <2> QED BY <2>1, <2>2, FunctionIsSequence
  <1> HIDE DEF got
  <1>4. /\ cons' \in [pc : Phases, todo : Cuts, got : Seq(Items)]
        /\ cons'.pc = "publish" /\ cons'.todo = cons.todo /\ cons'.got = got
    BY <1>1, <1>2, <1>3 DEF TypeOK, Phases
  <1>5. TypeOK' /\ ProdInv' /\ Count' = Count /\ \A i : Place(i)' = Place(i)
    BY <1>2, <1>4, ConsumerFrame
  <1>6. ConsInv'
    <2>1. Content(cons.todo[1].at, cons.todo[1].len)' = got
      BY <1>2, <1>4 DEF Content, got
    <2>2. cons' # NoTake
      BY <1>4 DEF NoTake
    <2> QED BY <1>1, <1>2, <1>4, <1>5, <2>1, <2>2 DEF ConsInv
  <1> QED BY <1>5, <1>6 DEF IInv

LEMMA LeaveItemsInv == ASSUME IInv, LeaveItems PROVE IInv'
  <1>1. /\ cons' = NoTake
        /\ UNCHANGED <<buf, readIndex, writeIndex, prod, delivered>>
    BY DEF LeaveItems
  <1>2. NoTake \in [pc : Phases, todo : Cuts, got : Seq(Items)]
    BY EmptyFacts DEF NoTake, Phases, Cuts
  <1>3. TypeOK' /\ ProdInv'
    BY <1>1, <1>2, ConsumerFrame
  <1>4. ConsInv'
    BY <1>1 DEF ConsInv, NoTake
  <1> QED BY <1>3, <1>4 DEF IInv

LEMMA ClearContentInv == ASSUME IInv, ClearContent PROVE IInv'
  <1>1. prod = NoCall /\ cons = NoTake /\ TypeOK
    BY DEF IInv, ProdInv, ConsInv, ClearContent
  <1>2. TypeOK'
    BY <1>1, RingAssumption DEF ClearContent, TypeOK, Places
  <1>3. ProdInv' /\ ConsInv'
    BY <1>1 DEF ClearContent, ProdInv, ConsInv, NoCall, NoTake
  <1> QED BY <1>2, <1>3 DEF IInv

LEMMA PublishReadInv == ASSUME IInv, PublishRead PROVE IInv'
  <1> DEFINE a == cons.todo[1]
             la == a.len
             n == Len(prod.batch)
  <1>1. /\ cons.pc = "publish" /\ TypeOK /\ ProdInv /\ ConsInv
        /\ cons.got \in Seq(Items)
    BY DEF PublishRead, IInv, TypeOK
  <1>2. /\ cons.todo \in Cuts /\ Len(cons.todo) \in {1, 2}
        /\ a \in [at : Places, len : Nat \ {0}, next : Places]
        /\ Head(cons.todo) = a /\ la <= Count /\ a.next = Place(la)
        /\ la \in Nat \ {0} /\ Count \in 0 .. Cap - 1
    <2>1. a.next = Place(la)
      BY <1>1 DEF ConsInv
    <2> QED BY <1>1, <2>1, FirstCut, CountRange
  <1>3. /\ readIndex' = Place(la) /\ delivered' = cons.got
        /\ UNCHANGED <<buf, writeIndex, prod>>
    BY <1>2 DEF PublishRead
  <1>4. /\ Count' = Count - la
        /\ \A i \in 0 .. Cap - la : Place(i)' = Place(la + i)
        /\ \A i \in 0 .. Cap - 1 : WPlace(i)' = WPlace(i)
    <2> HIDE DEF la
    <2> QED BY <1>1, <1>2, <1>3, ReadAdvances
  <1>5. ASSUME Len(cons.todo) = 1
        PROVE  ConsInv' /\ cons' \in [pc : Phases, todo : Cuts, got : Seq(Items)]
    <2>1. cons' = NoTake
      BY <1>5 DEF PublishRead
    <2>2. NoTake \in [pc : Phases, todo : Cuts, got : Seq(Items)]
      BY EmptyFacts DEF NoTake, Phases, Cuts
    <2>3. ConsInv'
      BY <2>1 DEF ConsInv, NoTake
    <2> QED BY <2>1, <2>2, <2>3
  <1>6. ASSUME Len(cons.todo) = 2
        PROVE  ConsInv' /\ cons' \in [pc : Phases, todo : Cuts, got : Seq(Items)]
    <2> DEFINE b == cons.todo[2]
               rest == Tail(cons.todo)
    <2>1. cons' = [pc |-> "copy", todo |-> rest, got |-> <<>>]
      BY <1>6 DEF PublishRead
    <2>2. /\ rest \in Cuts /\ Len(rest) = 1 /\ rest[1] = b
          /\ b \in [at : Places, len : Nat \ {0}, next : Places]
      <3> DEFINE P == [at : Places, len : Nat \ {0}, next : Places]
      <3>1. cons.todo \in Seq(P) /\ cons.todo # <<>> /\ 2 \in 1 .. Len(cons.todo)
        BY <1>2, <1>6, EmptyFacts DEF Cuts
      <3>2. rest \in Seq(P) /\ Len(rest) = 1 /\ rest[1] = b
        <4> HIDE DEF P
        <4>1. /\ rest \in Seq(P) /\ Len(rest) = Len(cons.todo) - 1
              /\ \A i \in 1 .. Len(rest) : rest[i] = cons.todo[i + 1]
          BY <3>1, TailFacts
        <4> QED BY <1>6, <4>1
      <3>3. b \in P
        <4> HIDE DEF P
        <4> QED BY <3>1, ElementOfSeq
      <3> QED BY <3>2, <3>3 DEF Cuts
    <2>3. /\ b.at = a.next /\ la + b.len <= Count /\ b.at + b.len <= Cap
          /\ b.next = Place(la + b.len)
      BY <1>1, <1>6 DEF ConsInv
    <2>4. PICK lb \in Nat \ {0} : lb = b.len
      BY <2>2
    <2>5. Place(lb)' = Place(la + lb) /\ lb <= Count'
      <3>1. la + lb <= Count
        BY <2>3, <2>4
      <3> HIDE DEF la
      <3>2. lb \in 0 .. Cap - la
        BY <1>2, <2>4, <3>1, RingAssumption
      <3> QED BY <1>2, <1>4, <2>4, <3>1, <3>2
    <2>6. cons' \in [pc : Phases, todo : Cuts, got : Seq(Items)]
      BY <2>1, <2>2, EmptyFacts DEF Phases
    <2>7. ConsInv'
      <3>1. /\ cons'.pc = "copy" /\ cons'.todo = rest /\ cons' # NoTake
        BY <2>1 DEF NoTake
      <3>2. /\ cons'.todo[1].at = readIndex' /\ cons'.todo[1].len = lb
            /\ cons'.todo[1].at + lb <= Cap
            /\ cons'.todo[1].next = Place(lb)'
        <4>1. cons'.todo[1] = b
          BY <2>2, <3>1
        <4> QED BY <1>2, <1>3, <2>3, <2>4, <2>5, <4>1
      <3>3. Len(cons'.todo) = 1
        BY <2>2, <3>1
      <3>4. cons'.todo[1].next = Place(cons.todo[1].len)'
        BY <3>2 DEF Place
      <3> HIDE DEF rest, la
      <3> QED BY <2>5, <3>1, <3>2, <3>3, <3>4 DEF ConsInv
    <2> QED BY <2>6, <2>7
  <1>7. TypeOK'
    <2>1. readIndex' \in Places
      BY <1>2, <1>3
    <2> QED BY <1>1, <1>2, <1>3, <1>5, <1>6, <2>1 DEF TypeOK
  <1>8. ProdInv'
    <2>1. CASE prod.pc = "idle"
      BY <1>1, <1>3, <2>1 DEF ProdInv
    <2>2. CASE prod.pc # "idle"
      <3>1. /\ n \in Nat /\ n >= 1 /\ Count + n <= Cap - 1
            /\ prod.next = WPlace(n)
            /\ Contiguous(prod.todo, prod.batch)
            /\ Done \in Nat /\ Done <= n
        <4>1. n \in Nat /\ prod.todo \in Pieces
          BY <1>1, LenProperties DEF TypeOK
        <4>2. Done \in Nat /\ Done <= n
          <5>1. CASE prod.todo = <<>>
            BY <4>1, <5>1 DEF Done
          <5>2. CASE prod.todo # <<>>
            <6>1. prod.pc = "copy"
              BY <1>1, <2>2, <5>2 DEF ProdInv, TypeOK, Phases
            <6> QED BY <5>2, <6>1, FirstPiece DEF Done
          <5> QED BY <5>1, <5>2
        <4> QED BY <1>1, <2>2, <4>1, <4>2 DEF ProdInv
      <3>2. n \in 0 .. Cap - 1 /\ Count' + n <= Cap - 1
        <4> HIDE DEF n, la
        <4> QED BY <1>2, <1>4, <3>1, RingAssumption
      <3>3. prod.next = WPlace(n)'
        <4> HIDE DEF n
        <4>1. n' = n
          BY <1>3 DEF n
        <4> QED BY <1>4, <3>1, <3>2, <4>1
      <3>4. \A i \in 0 .. Done - 1 : buf[WPlace(i)'] = prod.batch[i + 1]
        <4>1. \A i \in 0 .. Done - 1 : WPlace(i)' = WPlace(i)
          BY <1>3 DEF WPlace
        <4> QED BY <1>1, <2>2, <4>1 DEF ProdInv
      <3>5. Contiguous(prod.todo, prod.batch)'
        <4>1. ASSUME NEW j \in 1 .. Len(prod.todo)
              PROVE  WPlace(prod.todo[j].from)' = WPlace(prod.todo[j].from)
          BY <1>3 DEF WPlace
        <4> QED BY <1>3, <3>1, <4>1 DEF Contiguous, EndOf
      <3>6. Done' = Done
        BY <1>3 DEF Done
      <3> QED BY <1>1, <1>3, <2>2, <3>1, <3>2, <3>3, <3>4, <3>5, <3>6 DEF ProdInv
    <2> QED BY <2>1, <2>2
  <1>9. ConsInv'
    BY <1>2, <1>5, <1>6
  <1> QED BY <1>7, <1>8, <1>9 DEF IInv

LEMMA NextInv == ASSUME IInv, [RingNext]_ringVars PROVE IInv'
  <1>1. ASSUME NEW n \in 1 .. MaxBatch, NEW batch \in [1 .. n -> Items],
               Call(ItemPieces(readIndex, writeIndex, n), batch)
        PROVE  IInv'
    <2>1. n \in Nat \ {0}
      BY RingAssumption
    <2>2. batch \in Seq(Items) /\ Len(batch) = n
      BY <2>1, FunctionIsSequence
    <2> DEFINE todo == ItemPieces(readIndex, writeIndex, n)
    <2>3. Fits(readIndex, writeIndex, Len(batch)) =>
            /\ todo \in Pieces /\ todo # <<>> /\ todo[1].from = 0
            /\ Contiguous(todo, batch)
      BY <2>1, <2>2, ItemPiecesContiguous DEF IInv
    <2> HIDE DEF todo
    <2>4. Call(todo, batch)
      BY <1>1 DEF todo
    <2> QED BY <2>1, <2>2, <2>3, <2>4, CallInv
  <1>2. ASSUME NEW n \in 1 .. MaxBatch, NEW batch \in [1 .. PrefixLen + n -> Items],
               Call(PrefixedPieces(readIndex, writeIndex, n), batch)
        PROVE  IInv'
    <2>1. n \in Nat \ {0} /\ PrefixLen + n \in Nat \ {0}
      BY RingAssumption
    <2>2. batch \in Seq(Items) /\ Len(batch) = PrefixLen + n
      BY <2>1, FunctionIsSequence
    <2> DEFINE todo == PrefixedPieces(readIndex, writeIndex, n)
    <2>3. Fits(readIndex, writeIndex, Len(batch)) =>
            /\ todo \in Pieces /\ todo # <<>> /\ todo[1].from = 0
            /\ Contiguous(todo, batch)
      BY <2>1, <2>2, PrefixedPiecesContiguous DEF IInv
    <2> HIDE DEF todo
    <2>4. Call(todo, batch)
      BY <1>2 DEF todo
    <2> QED BY <2>1, <2>2, <2>3, <2>4, CallInv
  <1>3. ASSUME GetOneItem \/ RequestItems \/ CopyAllItems
        PROVE  IInv'
    <2>1. TypeOK /\ readIndex # writeIndex
      BY <1>3 DEF IInv, GetOneItem, RequestItems, CopyAllItems, Take
    <2>2. PICK todo : Cutting(todo) /\ Take(todo)
      <3>1. CASE GetOneItem
        BY <2>1, <3>1, GetCutting DEF GetOneItem
      <3>2. CASE CopyAllItems
        BY <2>1, <3>2, GetCutting DEF CopyAllItems
      <3>3. CASE RequestItems
        <4>1. PICK n \in 1 .. MaxBatch : Take(RequestCuts(readIndex, writeIndex, n))
          BY <3>3 DEF RequestItems
        <4>2. n \in Nat \ {0}
          BY RingAssumption
        <4> QED BY <2>1, <4>1, <4>2, GetCutting
      <3> QED BY <1>3, <3>1, <3>2, <3>3
    <2> QED BY <2>2, TakeInv
  <1>4. CASE UNCHANGED ringVars
    <2>1. cons \in [pc : Phases, todo : Cuts, got : Seq(Items)]
      BY DEF IInv, TypeOK
    <2>2. TypeOK' /\ ProdInv' /\ Count' = Count /\ \A i : Place(i)' = Place(i)
      BY <1>4, <2>1, ConsumerFrame DEF ringVars
    <2>3. ConsInv'
      BY <1>4, <2>2 DEF IInv, ConsInv, Content, ringVars
    <2> QED BY <2>2, <2>3 DEF IInv
  <1> QED
    BY <1>1, <1>2, <1>3, <1>4, CopyInInv, PublishWriteInv, CopyOutInv,
       PublishReadInv, LeaveItemsInv, ClearContentInv
    DEF RingNext, AddItems, AddDataToFixCirclebufForItemSizeOneByte

\* LFixLenCircleBuf: the inductive invariant of the ring, for every capacity,
\* batch size and prefix length.
THEOREM RingInv == RingSpec => []IInv
  <1>1. RingInit => IInv
    BY InitInv
  <1>2. IInv /\ [RingNext]_ringVars => IInv'
    BY NextInv
  <1> QED BY <1>1, <1>2, PTL DEF RingSpec

\* LFixLenCircleBuf: the indexes and the pieces in progress keep their types.
THEOREM RingTypeCorrect == RingSpec => []TypeOK
  <1>1. IInv => TypeOK
    BY DEF IInv
  <1> QED BY <1>1, RingInv, PTL

\* LFixLenCircleBuf: what one side moves between its snapshot and its publish is
\* out of the other side's reach.
THEOREM RingSidesApart == RingSpec => []Apart
  <1>1. ASSUME IInv PROVE Apart
    <2>1. TypeOK /\ Cap \in Nat \ {0} /\ Count \in 0 .. Cap - 1
      BY <1>1, CountRange, RingAssumption DEF IInv
    <2>2. ASSUME NEW j \in 1 .. Len(prod.todo), NEW i \in 0 .. prod.todo[j].len - 1
          PROVE  prod.todo[j].at + i \in Places /\ ~Live(prod.todo[j].at + i)
      <3> DEFINE P == [at : Places, from : Nat, len : Nat \ {0}]
                 p == prod.todo[j]
                 n == Len(prod.batch)
      <3>1. prod.todo \in Seq(P) /\ prod.todo # <<>> /\ n \in Nat
        BY <2>1, <2>2, EmptyFacts, LenProperties DEF TypeOK, Pieces
      <3>2. p \in P
        <4> HIDE DEF P
        <4> QED BY <3>1, ElementOfSeq
      <3>3. prod.pc # "idle"
        BY <1>1, <3>1 DEF IInv, ProdInv, NoCall
      <3>4. /\ p.at = WPlace(p.from) /\ p.at + p.len <= Cap
            /\ p.from + p.len <= n /\ Count + n <= Cap - 1
        BY <1>1, <3>3 DEF IInv, ProdInv, Contiguous
      <3>9. i \in 0 .. p.len - 1 /\ p.from \in Nat /\ p.len \in Nat \ {0}
        BY <2>2, <3>2
      <3> HIDE DEF p, n
      <3>5. p.from + i \in 0 .. Cap - 1 /\ Count + (p.from + i) < Cap /\ p.from + p.len <= Cap
        <4>1. i \in Nat /\ i <= p.len - 1
          BY <3>9
        <4>2. Count \in Nat /\ Count <= Cap - 1
          BY <2>1
        <4>3. p.from + i \in Nat /\ p.from + i < n
          BY <3>1, <3>4, <3>9, <4>1
        <4>4. Count + (p.from + i) < Cap /\ p.from + i <= Cap - 1
          BY <2>1, <3>1, <3>4, <4>2, <4>3
        <4>5. p.from + p.len <= Cap
          BY <2>1, <3>1, <3>4, <3>9, <4>2
        <4> QED BY <2>1, <4>3, <4>4, <4>5
      <3>6. WPlace(p.from + i) = p.at + i
        BY <2>1, <3>2, <3>4, <3>5, <3>9, PieceCovers
      <3>7. p.at + i \in Places
        BY <2>1, <3>5, <3>6, PlaceRange
      <3>8. ASSUME NEW k \in 0 .. Count - 1 PROVE p.at + i # Place(k)
        <4>1. k \in 0 .. Cap - 1 /\ k < Count
          BY <2>1
        <4> QED BY <2>1, <3>5, <3>6, <4>1, PlaceRange
      <3> QED BY <3>7, <3>8 DEF Live, p
    <2>3. ASSUME NEW j \in 1 .. Len(cons.todo), NEW i \in 0 .. cons.todo[j].len - 1
          PROVE  cons.todo[j].at + i \in Places /\ Live(cons.todo[j].at + i)
      <3> DEFINE P == [at : Places, len : Nat \ {0}, next : Places]
                 a == cons.todo[1]
                 b == cons.todo[2]
      <3>1. cons.pc # "idle"
        BY <1>1, <2>3 DEF IInv, ConsInv, NoTake
      <3>2. /\ cons.todo \in Seq(P) /\ Len(cons.todo) \in {1, 2}
            /\ a \in P /\ a.at + a.len <= Cap /\ a.len <= Count
            /\ \A k \in 1 .. a.len :
                 Place(k - 1) = a.at + k - 1 /\ Place(k - 1) \in Places
        BY <1>1, <3>1, FirstCut DEF Cuts
      <3>3. CASE j = 1
        <4>1. i + 1 \in 1 .. a.len /\ i \in 0 .. Count - 1 /\ (i + 1) - 1 = i
          BY <2>1, <3>2, <3>3
        <4>2. Place(i) = a.at + i /\ Place(i) \in Places
          BY <2>1, <3>2, <4>1
        <4> QED BY <3>3, <4>1, <4>2 DEF Live
      <3>4. CASE j = 2
        <4>1. Len(cons.todo) = 2 /\ 2 \in 1 .. Len(cons.todo)
          BY <3>2, <3>4
        <4>2. b \in P
          <5> HIDE DEF P
          <5> QED BY <3>2, <4>1, ElementOfSeq
        <4>3. /\ b.at = Place(a.len) /\ a.len + b.len <= Count /\ b.at + b.len <= Cap
          BY <1>1, <3>1, <4>1 DEF IInv, ConsInv
        <4>4. a.len + i \in 0 .. Count - 1 /\ Place(a.len + i) = b.at + i
              /\ b.at + i \in Places
          <5>1. readIndex \in Places
            BY <2>1 DEF TypeOK
          <5>2. /\ a.len \in Nat \ {0} /\ b.len \in Nat \ {0} /\ b.at \in Places
                /\ i \in 0 .. b.len - 1
            BY <2>3, <3>2, <3>4, <4>2
          <5> HIDE DEF a, b
          <5>3. PICK la \in Nat \ {0}, lb \in Nat \ {0}, at \in Places :
                  la = a.len /\ lb = b.len /\ at = b.at
            BY <5>2
          <5>4. at = Place(la) /\ la + lb <= Count /\ at + lb <= Cap /\ i \in 0 .. lb - 1
            BY <4>3, <5>2, <5>3
          <5>7. i \in Nat /\ i <= lb - 1
            BY <5>3, <5>4
          <5>8. Count \in Nat /\ Count <= Cap - 1
            BY <2>1
          <5>5. la + i \in 0 .. Count - 1 /\ at + i \in Places
            <6>1. la + i \in Nat /\ la + i <= Count - 1
              BY <5>3, <5>4, <5>7, <5>8
            <6>2. at + i \in Nat /\ at + i <= Cap - 1
              BY SMTT(30), <2>1, <5>3, <5>4, <5>7 DEF Places
            <6> QED BY <2>1, <5>8, <6>1, <6>2 DEF Places
          <5>6. Place(la + i) = at + i
            <6>1. /\ readIndex \in Nat /\ readIndex <= Cap - 1
                  /\ la \in Nat /\ la + lb <= Cap - 1 /\ at + lb <= Cap
              BY <2>1, <5>1, <5>3, <5>4, <5>8 DEF Places
            <6>2. at = IF readIndex + la < Cap THEN readIndex + la
                       ELSE readIndex + la - Cap
              BY <5>4 DEF Place
            <6>3. readIndex + (la + i) < Cap <=> readIndex + la < Cap
              <7>1. CASE readIndex + la < Cap
                <8>1. readIndex + la + lb <= Cap
                  BY <6>1, <6>2, <7>1
                <8> QED BY SMTT(30), <2>1, <5>3, <5>7, <6>1, <7>1, <8>1
              <7>2. CASE ~(readIndex + la < Cap)
                BY <2>1, <5>3, <5>7, <6>1, <7>2
              <7> QED BY <7>1, <7>2
            <6> QED BY <2>1, <5>7, <6>1, <6>2, <6>3 DEF Place
          <5> QED BY <5>3, <5>5, <5>6
        <4> QED BY <3>4, <4>4 DEF Live
      <3> QED BY <3>2, <3>3, <3>4
    <2> QED BY <2>2, <2>3 DEF Apart
  <1>2. IInv => Apart
    BY <1>1
  <1> QED BY <1>2, RingInv, PTL

-----------------------------------------------------------------------------
(* The ring is a bounded queue.                                             *)

QueueIsContent ==
  /\ Queue \in Seq(Items) /\ Len(Queue) = Count /\ Count \in 0 .. Cap - 1
  /\ \A i \in 1 .. Count : Queue[i] = buf[Place(i - 1)]

LEMMA QueueFacts == TypeOK => QueueIsContent
  <1> SUFFICES ASSUME TypeOK PROVE QueueIsContent
    OBVIOUS
  <1>1. Count \in 0 .. Cap - 1 /\ Count \in Nat
    BY CountRange, RingAssumption
  <1>2. Queue = [i \in 1 .. Count |-> buf[Place(i - 1)]]
    BY DEF Queue
  <1>3. \A i \in 1 .. Count : buf[Place(i - 1)] \in Items
    <2>1. \A i \in 1 .. Count : i - 1 \in 0 .. Cap - 1
      BY <1>1, RingAssumption
    <2> QED BY <2>1, PlaceRange DEF TypeOK
  <1>4. Queue \in [1 .. Count -> Items]
    BY <1>2, <1>3
  <1>5. Queue \in Seq(Items) /\ Len(Queue) = Count
    BY <1>1, <1>4, FunctionIsSequence
  <1> QED BY <1>1, <1>2, <1>5 DEF QueueIsContent

LEMMA QueueFactsNext == TypeOK' => QueueIsContent'
  BY QueueFacts, PTL

\* Two sequences with the same length and elements are equal.
LEMMA SameSequence ==
  ASSUME NEW S, NEW s \in Seq(S), NEW t \in Seq(S), Len(s) = Len(t),
         \A i \in 1 .. Len(s) : s[i] = t[i]
  PROVE  s = t
  BY SeqEqual

LEMMA ConcatFacts ==
  ASSUME NEW s \in Seq(Items), NEW t \in Seq(Items)
  PROVE  /\ s \o t \in Seq(Items) /\ Len(s \o t) = Len(s) + Len(t)
         /\ \A i \in 1 .. Len(s) : (s \o t)[i] = s[i]
         /\ \A i \in Len(s) + 1 .. Len(s) + Len(t) : (s \o t)[i] = t[i - Len(s)]
  <1>1. /\ s \o t \in Seq(Items)
        /\ Len(s \o t) = Len(s) + Len(t)
        /\ \A i \in 1 .. Len(s) + Len(t) : (s \o t)[i] =
             IF i <= Len(s) THEN s[i] ELSE t[i - Len(s)]
    BY ConcatProperties
  <1>2. PICK k \in Nat, m \in Nat : k = Len(s) /\ m = Len(t)
    BY LenProperties
  <1>3. ASSUME NEW i \in 1 .. k + m
        PROVE  (s \o t)[i] = IF i <= k THEN s[i] ELSE t[i - k]
    BY <1>1, <1>2
  <1>4. ASSUME NEW i \in 1 .. k
        PROVE  (s \o t)[i] = s[i]
    <2>1. i \in 1 .. k + m /\ i <= k
      OBVIOUS
    <2> QED BY <1>3, <2>1
  <1>5. ASSUME NEW i \in k + 1 .. k + m
        PROVE  (s \o t)[i] = t[i - k]
    <2>1. i \in 1 .. k + m /\ ~(i <= k)
      OBVIOUS
    <2> QED BY <1>3, <2>1
  <1> QED BY <1>1, <1>2, <1>4, <1>5

LEMMA SubSeqFacts ==
  ASSUME NEW S, NEW s \in Seq(S), NEW k \in Nat, Len(s) = k, NEW m \in 0 .. k
  PROVE  /\ SubSeq(s, m + 1, k) \in Seq(S) /\ Len(SubSeq(s, m + 1, k)) = k - m
         /\ \A i \in 1 .. k - m : SubSeq(s, m + 1, k)[i] = s[i + m]
  <1>1. \A i \in m + 1 .. k : s[i] \in S
    BY ElementOfSeq
  <1>2. /\ SubSeq(s, m + 1, k) \in Seq(S)
        /\ Len(SubSeq(s, m + 1, k)) = IF m + 1 <= k THEN k - (m + 1) + 1 ELSE 0
        /\ \A i \in 1 .. k - (m + 1) + 1 :
             SubSeq(s, m + 1, k)[i] = s[(m + 1) + i - 1]
    BY <1>1, SubSeqProperties
  <1> QED BY <1>2

\* A publish of the producer appends its batch to the queue.
LEMMA PublishWritePuts == ASSUME IInv, PublishWrite PROVE Abstract!Put
  <1> DEFINE n == Len(prod.batch)
  <1>1. /\ TypeOK /\ TypeOK' /\ prod.pc = "publish" /\ prod.todo = <<>>
        /\ prod.batch \in Seq(Items) /\ n \in Nat \ {0} /\ Count + n <= Cap - 1
        /\ prod.next = WPlace(n)
        /\ \A i \in 0 .. n - 1 : buf[WPlace(i)] = prod.batch[i + 1]
    BY PublishWriteInv, LenProperties DEF PublishWrite, IInv, TypeOK, ProdInv, Done
  <1>2. /\ writeIndex' = WPlace(n)
        /\ UNCHANGED <<buf, readIndex, delivered>>
    BY <1>1 DEF PublishWrite
  <1>3. PICK m \in Nat \ {0} : m = n
    BY <1>1
  <1>4. Count' = Count + m /\ \A i \in 0 .. Cap - 1 : Place(i)' = Place(i)
    <2> HIDE DEF n
    <2> QED BY <1>1, <1>2, <1>3, WriteAdvances
  <1>5. QueueIsContent /\ QueueIsContent'
    BY <1>1, QueueFacts, QueueFactsNext
  <1>6. Queue' = Queue \o prod.batch
    <2> DEFINE both == Queue \o prod.batch
    <2>1. /\ both \in Seq(Items) /\ Len(both) = Count + m
          /\ \A i \in 1 .. Count : both[i] = Queue[i]
          /\ \A i \in Count + 1 .. Count + m : both[i] = prod.batch[i - Count]
      <3>1. Len(Queue) = Count /\ Count \in Nat /\ Queue \in Seq(Items)
        BY <1>5, RingAssumption DEF QueueIsContent
      <3>2. prod.batch \in Seq(Items) /\ Len(prod.batch) = m
        BY <1>1, <1>3
      <3> QED BY <3>1, <3>2, ConcatFacts
    <2>2. ASSUME NEW i \in 1 .. Count + m
          PROVE  Queue'[i] = both[i]
      <3>1. i - 1 \in 0 .. Cap - 1 /\ Count \in Nat
        BY <1>1, <1>3, <1>5, RingAssumption DEF QueueIsContent
      <3>2. Queue'[i] = buf[Place(i - 1)]
        BY <1>2, <1>4, <1>5, <3>1 DEF QueueIsContent
      <3>3. CASE i <= Count
        BY <1>5, <2>1, <3>1, <3>2, <3>3 DEF QueueIsContent
      <3>4. CASE i > Count
        <4>1. PICK k \in 0 .. m - 1 : i = Count + k + 1
          <5>1. i - Count - 1 \in 0 .. m - 1 /\ i = Count + (i - Count - 1) + 1
            BY <1>3, <3>1, <3>4
          <5> QED BY <5>1
        <4>2. WPlace(k) = Place(i - 1)
          <5>1. k \in 0 .. Cap - 1 /\ Count + k < Cap /\ i - 1 = Count + k
            BY <1>1, <1>3, <3>1, <4>1, RingAssumption
          <5> QED BY <1>1, <5>1, PlaceRange
        <4>3. buf[Place(i - 1)] = prod.batch[k + 1]
          BY <1>1, <1>3, <4>1, <4>2
        <4>4. i \in Count + 1 .. Count + m /\ i - Count = k + 1
          BY <1>3, <3>1, <3>4, <4>1
        <4>5. both[i] = prod.batch[k + 1]
          <5> HIDE DEF both
          <5> QED BY <2>1, <4>4
        <4> QED BY <3>2, <4>3, <4>5
      <3> HIDE DEF both
      <3>5. i <= Count \/ i > Count
        BY <1>3, <3>1
      <3> QED BY <3>3, <3>4, <3>5
    <2>3. Queue' \in Seq(Items) /\ Len(Queue') = Count + m
      BY <1>4, <1>5 DEF QueueIsContent
    <2> HIDE DEF both
    <2>4. Queue' = both
      BY <2>1, <2>2, <2>3, SameSequence
    <2> QED BY <2>4 DEF both
  <1>7. m \in 1 .. (Cap - 1) - Len(Queue) /\ prod.batch \in [1 .. m -> Items]
    <2>1. prod.batch \in [1 .. m -> Items]
      BY <1>1, <1>3, SeqDef, LenProperties
    <2> QED BY <1>1, <1>3, <1>5, <2>1, RingAssumption DEF QueueIsContent
  <1> QED BY <1>2, <1>6, <1>7 DEF Abstract!Put

\* A publish of the consumer takes the oldest items of the queue.
LEMMA PublishReadGets == ASSUME IInv, PublishRead PROVE Abstract!Get
  <1> DEFINE a == cons.todo[1]
  <1>1. /\ TypeOK /\ TypeOK' /\ cons.pc = "publish"
        /\ a.next = Place(a.len) /\ cons.got = Content(a.at, a.len)
        /\ Head(cons.todo) = a /\ a.len <= Count
        /\ a \in [at : Places, len : Nat \ {0}, next : Places]
        /\ \A i \in 1 .. a.len : Place(i - 1) = a.at + i - 1
    BY PublishReadInv, FirstCut DEF PublishRead, IInv, ConsInv
  <1>2. PICK m \in Nat \ {0} : m = a.len
    BY <1>1
  <1>3. /\ readIndex' = Place(m) /\ delivered' = cons.got
        /\ UNCHANGED <<buf, writeIndex>>
    BY <1>1, <1>2 DEF PublishRead
  <1>4. /\ Count' = Count - m
        /\ \A i \in 0 .. Cap - m : Place(i)' = Place(m + i)
    BY <1>1, <1>2, <1>3, ReadAdvances
  <1>5. QueueIsContent /\ QueueIsContent'
    BY <1>1, QueueFacts, QueueFactsNext
  <1>6. m \in 1 .. Count /\ Count \in 0 .. Cap - 1
    BY <1>1, <1>2, <1>5 DEF QueueIsContent
  <1>7. delivered' = SubSeq(Queue, 1, m)
    <2>1. cons.got = [i \in 1 .. m |-> buf[a.at + i - 1]]
      BY <1>1, <1>2 DEF Content
    <2>2. \A i \in 1 .. m : buf[a.at + i - 1] = Queue[i]
      BY <1>1, <1>2, <1>5, <1>6 DEF QueueIsContent
    <2>3. SubSeq(Queue, 1, m) = [i \in 1 .. m |-> Queue[i]]
      OBVIOUS
    <2> QED BY <1>3, <2>1, <2>2, <2>3
  <1>8. Queue' = SubSeq(Queue, m + 1, Len(Queue))
    <2> DEFINE rest == SubSeq(Queue, m + 1, Len(Queue))
    <2>1. Len(Queue) = Count
      BY <1>5 DEF QueueIsContent
    <2>5. /\ rest \in Seq(Items) /\ Len(rest) = Count - m
          /\ \A i \in 1 .. Count - m : rest[i] = Queue[i + m]
      <3>1. Queue \in Seq(Items) /\ Count \in Nat /\ m \in 0 .. Count
        BY <1>5, <1>6, RingAssumption DEF QueueIsContent
      <3> QED BY <2>1, <3>1, SubSeqFacts
    <2>6. ASSUME NEW i \in 1 .. Count - m
          PROVE  Queue'[i] = rest[i]
      <3>1. i - 1 \in 0 .. Cap - m /\ m + (i - 1) = (i + m) - 1 /\ i + m \in 1 .. Count
        BY <1>2, <1>6, RingAssumption
      <3>2. Queue'[i] = buf[Place(i - 1)']
        BY <1>3, <1>4, <1>5 DEF QueueIsContent
      <3>3. Place(i - 1)' = Place(i + m - 1)
        BY <1>4, <3>1
      <3>4. Queue[i + m] = buf[Place(i + m - 1)]
        BY <1>5, <3>1 DEF QueueIsContent
      <3> QED BY <2>5, <3>2, <3>3, <3>4
    <2>7. Queue' \in Seq(Items) /\ Len(Queue') = Count - m
      BY <1>4, <1>5 DEF QueueIsContent
    <2> HIDE DEF rest
    <2>8. Queue' = rest
      BY <2>5, <2>6, <2>7, SameSequence
    <2> QED BY <2>8 DEF rest
  <1>9. m \in 1 .. Len(Queue)
    BY <1>5, <1>6 DEF QueueIsContent
  <1> QED BY <1>7, <1>8, <1>9 DEF Abstract!Get

\* A step that moves neither index nor any readable item is a stutter.
LEMMA SameQueue ==
  ASSUME UNCHANGED <<readIndex, writeIndex, delivered>>, TypeOK,
         \A i \in 0 .. Cap - 1 : i < Count => buf'[Place(i)] = buf[Place(i)]
  PROVE  UNCHANGED <<Queue, delivered>>
  <1>1. Count' = Count /\ \A i : Place(i)' = Place(i)
    BY DEF Count, Place
  <1>2. Count \in 0 .. Cap - 1
    BY CountRange
  <1>3. \A i \in 1 .. Count : i - 1 \in 0 .. Cap - 1 /\ i - 1 < Count
    BY <1>2, RingAssumption
  <1>4. Queue' = [i \in 1 .. Count' |-> buf'[Place(i - 1)']]
    BY DEF Queue
  <1>5. Queue' = [i \in 1 .. Count |-> buf[Place(i - 1)]]
    BY <1>1, <1>3, <1>4
  <1> QED BY <1>5 DEF Queue

LEMMA StepRefines == ASSUME IInv, [RingNext]_ringVars PROVE [Abstract!Next]_<<Queue, delivered>>
  <1>1. TypeOK
    BY DEF IInv
  <1>2. CASE PublishWrite
    BY <1>2, PublishWritePuts DEF Abstract!Next
  <1>3. CASE PublishRead
    BY <1>3, PublishReadGets DEF Abstract!Next
  <1>4. CASE ClearContent
    <2>1. Queue' = <<>>
      <3>1. Count' = 0
        BY <1>4 DEF ClearContent, Count
      <3>2. Queue' = [i \in 1 .. Count' |-> buf'[Place(i - 1)']]
        BY DEF Queue
      <3> QED BY <3>1, <3>2
    <2>2. UNCHANGED delivered
      BY <1>4 DEF ClearContent
    <2> QED BY <2>1, <2>2 DEF Abstract!Next, Abstract!Clear
  <1>5. CASE CopyIn
    <2>1. UNCHANGED <<readIndex, writeIndex, delivered>>
      BY <1>5 DEF CopyIn
    <2> QED BY <1>1, <1>5, <2>1, CopyInEffect, SameQueue
  <1>6. CASE UNCHANGED <<buf, readIndex, writeIndex, delivered>>
    BY <1>1, <1>6, SameQueue
  <1> QED
    BY <1>2, <1>3, <1>4, <1>5, <1>6
    DEF RingNext, ringVars, AddItems, AddDataToFixCirclebufForItemSizeOneByte, Call,
        GetOneItem, RequestItems, CopyAllItems, Take, CopyOut, LeaveItems

\* LFixLenCircleBuf: whatever the capacity, the batches and the interleaving of
\* the two threads' copies and publishes, one producer and one consumer see a
\* first-in first-out queue of Cap - 1 places.
THEOREM RingIsBoundedQueue == RingSpec => ImplementsBoundedQueue
  <1>1. RingInit => Abstract!Init
    <2> SUFFICES ASSUME RingInit PROVE Abstract!Init
      OBVIOUS
    <2>1. Queue = <<>>
      BY DEF RingInit, Queue, Count
    <2> QED BY <2>1 DEF RingInit, Abstract!Init
  <1>2. IInv /\ [RingNext]_ringVars => [Abstract!Next]_<<Queue, delivered>>
    BY StepRefines
  <1> QED
    BY <1>1, <1>2, RingInv, PTL DEF RingSpec, ImplementsBoundedQueue, Abstract!Spec
=============================================================================
