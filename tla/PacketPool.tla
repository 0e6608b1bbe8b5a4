------------------------------ MODULE PacketPool ------------------------------
(***************************************************************************)
(* LPacketPoolManager: packets of a few lengths, created when the pool is  *)
(* initialized and kept in one LFixLenCircleBuf per length.  Pools pass    *)
(* packets to each other.  A template the repository never instantiates:   *)
(* the callers are external and take turns; they free a packet under the   *)
(* length it was created with.                                             *)
(*                                                                         *)
(* A packet is the length it was created with.  A ring is its size, its    *)
(* read index and its packets, oldest first; size 0 has no memory.         *)
(***************************************************************************)
EXTENDS Integers, Sequences, FiniteSetsExt

CONSTANTS
  Pools,       \* the pools
  PacketLens,  \* lengths callers ask for
  Descs,       \* t_Packet_Pool_Desc arrays Initialize may be called with
  MaxCount     \* bound: unExpecttedCount

ASSUME PacketPoolAssumption ==
  /\ IsFiniteSet(Pools) /\ IsFiniteSet(PacketLens)
  /\ PacketLens \subseteq Nat \ {0} /\ MaxCount \in Nat
  /\ Descs \subseteq Seq([len : PacketLens \cup {0}, init : Nat, max : Nat])

VARIABLES
  phase,  \* of each pool: "new", "ready", "failed" or "released"
  given,  \* history: the array Initialize was called with
  descs,  \* m_parrPacketPoolDesc
  rings,  \* m_parrFixLenCircleBuf
  held,   \* packets the callers have, by the length asked for and their own
  made    \* packets alive, by their length
poolVars == <<phase, given, descs, rings, held, made>>

NoRing == [size |-> 0, read |-> 0, items |-> <<>>]

PoolInit ==
  /\ phase = [p \in Pools |-> "new"]
  /\ given = [p \in Pools |-> <<>>]
  /\ descs = [p \in Pools |-> <<>>]
  /\ rings = [p \in Pools |-> <<>>]
  /\ held = [asked \in PacketLens |-> [len \in PacketLens |-> 0]]
  /\ made = [len \in PacketLens |-> 0]

-----------------------------------------------------------------------------
(* The rings.                                                               *)

\* AddItems puts all items or none; one place stays free.
CanAdd(ring, n) == ring.size > 0 /\ Len(ring.items) + n < ring.size
WithItems(ring, items) == [ring EXCEPT !.items = @ \o items]
WithoutFirst(ring, n) ==
  [ring EXCEPT !.items = SubSeq(@, n + 1, Len(@)), !.read = (@ + n) % ring.size]

\* How many items lie between the read index and the end of the buffer.
FirstPiece(ring) == Min({Len(ring.items), ring.size - ring.read})

-----------------------------------------------------------------------------
(* Initialize.                                                              *)

\* The sort.  Its third assignment copies back what the second wrote, so the
\* inner place keeps its entry: each place ends with the shortest entry that lay
\* there or behind it.
Ordered(list) ==
  [i \in DOMAIN list |->
     CHOOSE entry \in {list[j] : j \in i .. Len(list)} :
       \A j \in i .. Len(list) : entry.len <= list[j].len]

\* OrderAndSetPacketDesc refuses zeros and a length that is there twice.
Acceptable(list) ==
  /\ list # <<>>
  /\ \A i \in DOMAIN list : list[i].len # 0 /\ list[i].max # 0
  /\ \A i, j \in DOMAIN list : i # j => list[i].len # list[j].len

\* The packets of a ring are created one by one; the first that does not fit
\* is deleted and ends Initialize, and what is there stays.
Filled(desc) ==
  [size |-> desc.max, read |-> 0,
   items |-> [k \in 1 .. Min({desc.init, desc.max - 1}) |-> desc.len]]
Overfull(list) == {i \in DOMAIN list : list[i].init >= list[i].max}

DisjointUnion(sets) == UNION {{i} \X sets[i] : i \in DOMAIN sets}

\* The places of some rings where a packet of a length lies.
LyingAt(items, len) == {k \in DOMAIN items : items[k] = len}
PlacesIn(someRings, len) ==
  DisjointUnion([i \in DOMAIN someRings |-> LyingAt(someRings[i].items, len)])
CountOf(len, someRings) == Cardinality(PlacesIn(someRings, len))

Initialize(p) ==
  /\ phase[p] = "new"
  /\ \E list \in Descs :
       /\ given' = [given EXCEPT ![p] = list]
       /\ IF ~Acceptable(list)
            THEN /\ phase' = [phase EXCEPT ![p] = "failed"]
                 /\ UNCHANGED <<descs, rings, made>>
            ELSE LET sorted == Ordered(list)
                     bad    == Overfull(sorted)
                     last   == IF bad = {} THEN Len(sorted) ELSE Min(bad)
                     built  == [i \in DOMAIN sorted |->
                                 IF i <= last THEN Filled(sorted[i]) ELSE NoRing]
                 IN  /\ phase' = [phase EXCEPT ![p] = IF bad = {} THEN "ready" ELSE "failed"]
                     /\ descs' = [descs EXCEPT ![p] = sorted]
                     /\ rings' = [rings EXCEPT ![p] = built]
                     /\ made' = [len \in PacketLens |-> made[len] + CountOf(len, built)]
  /\ UNCHANGED held

\* Every packet in a ring is deleted; those the callers have stay.
ReleasePacketPoolManagerResource(p) ==
  /\ phase[p] \in {"ready", "failed"}
  /\ phase' = [phase EXCEPT ![p] = "released"]
  /\ made' = [len \in PacketLens |-> made[len] - CountOf(len, rings[p])]
  /\ rings' = [rings EXCEPT ![p] = <<>>]
  /\ UNCHANGED <<given, descs, held>>

-----------------------------------------------------------------------------
(* The lengths: the index of an entry, or none.  Both searches first compare *)
(* with m_usMaxPacketSize, the length of the last entry.                    *)

Largest(p) == descs[p][Len(descs[p])].len

FirstIndex(S) == IF S = {} THEN {} ELSE {Min(S)}

SelectIndexForPacketLen(p, len) ==
  FirstIndex({i \in DOMAIN descs[p] : len <= Largest(p) /\ len <= descs[p][i].len})

\* Mutant of SelectIndexForPacketLenEqual: the search of the requests.
SelectIndexThatFits(p, len) ==
  FirstIndex({i \in DOMAIN descs[p] : len <= Largest(p) /\ len <= descs[p][i].len})

SelectIndexForPacketLenEqual(p, len) ==
  FirstIndex({i \in DOMAIN descs[p] : len <= Largest(p) /\ len = descs[p][i].len})

-----------------------------------------------------------------------------
(* The callers.                                                             *)

\* Without an entry, or with its ring empty, the caller gets NULL.
RequestOnePacket(p, asked) ==
  /\ phase[p] = "ready"
  /\ \E i \in SelectIndexForPacketLen(p, asked) :
       /\ rings[p][i].items # <<>>
       /\ held' = [held EXCEPT ![asked][Head(rings[p][i].items)] = @ + 1]
       /\ rings' = [rings EXCEPT ![p][i] = WithoutFirst(@, 1)]
  /\ UNCHANGED <<phase, given, descs, made>>

\* False, and the caller keeps the packet, when the pool has no entry of this
\* length or its ring is full.
FreeOneItemToPool(p, asked, len) ==
  /\ phase[p] = "ready" /\ held[asked][len] > 0
  /\ \E i \in SelectIndexForPacketLenEqual(p, len) :
       /\ CanAdd(rings[p][i], 1)
       /\ rings' = [rings EXCEPT ![p][i] = WithItems(@, <<len>>)]
  /\ held' = [held EXCEPT ![asked][len] = @ - 1]
  /\ UNCHANGED <<phase, given, descs, made>>

\* n packets go from ring i of p to ring j of q.
Move(p, i, q, j, n) ==
  rings' = [rings EXCEPT ![p][i] = WithoutFirst(@, n),
                         ![q][j] = WithItems(@, SubSeq(rings[p][i].items, 1, n))]

\* q asks p for packets.  RequestItems stops at the end of the buffer, and
\* does nothing when the other ring has no room for all it would move.
Request(p, q, len, count) ==
  /\ p # q /\ phase[p] = "ready" /\ phase[q] = "ready"
  /\ \E i \in SelectIndexForPacketLenEqual(p, len), j \in SelectIndexForPacketLenEqual(q, len) :
       LET n == Min({count, FirstPiece(rings[p][i])})
       IN  n > 0 /\ CanAdd(rings[q][j], n) /\ Move(p, i, q, j, n)
  /\ UNCHANGED <<phase, given, descs, held, made>>

\* CopyAllItemsToOtherFixLenCircleBuf: the items up to the end of the buffer,
\* then those at its front if there is room; the first stay moved if not.
CommitToAnother(p, q, len) ==
  /\ p # q /\ phase[p] = "ready" /\ phase[q] = "ready"
  /\ \E i \in SelectIndexForPacketLenEqual(p, len), j \in SelectIndexForPacketLenEqual(q, len) :
       LET first == FirstPiece(rings[p][i])
           all   == Len(rings[p][i].items)
       IN  /\ first > 0 /\ CanAdd(rings[q][j], first)
           /\ Move(p, i, q, j, IF CanAdd(rings[q][j], all) THEN all ELSE first)
  /\ UNCHANGED <<phase, given, descs, held, made>>

PoolNext ==
  \E p \in Pools :
    \/ Initialize(p)
    \/ ReleasePacketPoolManagerResource(p)
    \/ \E asked \in PacketLens : RequestOnePacket(p, asked)
    \/ \E asked, len \in PacketLens : FreeOneItemToPool(p, asked, len)
    \/ \E q \in Pools, len \in PacketLens :
         \/ \E count \in 1 .. MaxCount : Request(p, q, len, count)
         \/ CommitToAnother(p, q, len)

PoolSpec == PoolInit /\ [][PoolNext]_poolVars

-----------------------------------------------------------------------------
(* Properties.                                                              *)

\* The packets of a length that lie in the pools, and those the callers have.
InPools(len) == DisjointUnion([p \in Pools |-> PlacesIn(rings[p], len)])
InHands(len) == DisjointUnion([asked \in PacketLens |-> 1 .. held[asked][len]])

\* LPacketPoolManager.h:151-220: whatever is requested, freed and passed between
\* pools, no packet is lost or doubled, a ring holds only packets of its own
\* length, and a caller has a packet at least as long as it asked for.
PacketsKeepTheirPlace ==
  /\ \A p \in Pools : \A i \in DOMAIN rings[p] :
       \A k \in DOMAIN rings[p][i].items : rings[p][i].items[k] = descs[p][i].len
  /\ \A len \in PacketLens :
       made[len] = Cardinality(InPools(len)) + Cardinality(InHands(len))
  /\ \A asked, len \in PacketLens : held[asked][len] > 0 => asked <= len
=============================================================================
