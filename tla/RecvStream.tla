------------------------------ MODULE RecvStream ------------------------------
(***************************************************************************)
(* LSession::RecvData and RecvFirstData of one session: the bytes recv()   *)
(* returns are appended to a buffer of m_unMaxPacketLen + 4 bytes, every   *)
(* packet in front of it is handed to the main thread, and the descriptor  *)
(* is armed again or the close thread is asked to close the session.       *)
(*                                                                         *)
(* A packet on the wire is a 2-byte length, which counts itself, and its   *)
(* data; the system cuts the stream where it likes.  Packets are numbered. *)
(***************************************************************************)
EXTENDS Integers, Sequences

CONSTANTS
  StreamMaxLen,   \* m_unMaxPacketLen
  StreamBufLen,   \* m_unRecvBufLen
  StreamLengths,  \* lengths the peer may write in front of a packet
  StreamQueueCap, \* packets the ring to the main thread holds
  MaxStream       \* bound: packets the peer sends

ASSUME StreamAssumption ==
  /\ StreamMaxLen \in Nat \ {0, 1} /\ StreamBufLen = StreamMaxLen + 4
  /\ StreamLengths \subseteq Nat
  /\ StreamQueueCap \in Nat \ {0} /\ MaxStream \in Nat

VARIABLES
  recvState,  \* "wait" armed, "take" in RecvData's loop, "closing"
  peerSent,   \* number of packets the peer sent
  peerGone,   \* it closed or reset the connection
  unparsed,   \* packets that RecvData did not take yet, in order
  unread,     \* bytes of them that recv() has not returned yet
  contentLen, \* m_unCurrentContentLen
  recvQueue,  \* packets in the ring to the main thread
  handled     \* number of the last packet the main thread took
streamVars ==
  <<recvState, peerSent, peerGone, unparsed, unread, contentLen, recvQueue, handled>>

StreamInit ==
  /\ recvState = "wait"
  /\ peerSent = 0 /\ peerGone = FALSE
  /\ unparsed = <<>> /\ unread = 0 /\ contentLen = 0
  /\ recvQueue = <<>> /\ handled = 0

-----------------------------------------------------------------------------
(* The peer.                                                                *)

LegalPacketLen(len) == 2 <= len /\ len <= StreamMaxLen

\* What follows a header with an illegal length does not matter.
BytesOf(len) == IF LegalPacketLen(len) THEN len ELSE 2

PeerSends ==
  /\ peerSent < MaxStream /\ ~peerGone
  /\ \E len \in StreamLengths :
       /\ unparsed' = Append(unparsed, [no |-> peerSent + 1, len |-> len])
       /\ unread' = unread + BytesOf(len)
  /\ peerSent' = peerSent + 1
  /\ UNCHANGED <<recvState, peerGone, contentLen, recvQueue, handled>>

PeerGoes ==
  /\ ~peerGone
  /\ peerGone' = TRUE
  /\ UNCHANGED <<recvState, peerSent, unparsed, unread, contentLen, recvQueue, handled>>

-----------------------------------------------------------------------------
(* RecvData.                                                                *)

\* AddSessionToCloseThreadToClose.
CloseSession == recvState' = "closing"

\* AddToEpollWaitThread (that epoll_ctl may fail is in SessionIO).
ArmAgain == recvState' = "wait"

\* Mutant of LookAtHeader: one byte is enough to look at the length.
LookAtHeaderEarly(n, packets) ==
  IF n = 0 THEN ArmAgain
  ELSE IF n = 1 THEN CloseSession \/ recvState' = "take"
  ELSE IF LegalPacketLen(Head(packets).len) THEN recvState' = "take"
  ELSE CloseSession

\* With n bytes in the buffer, the first of them those of Head(packets): wait
\* for the rest of the header, refuse its length, or go into the loop.
LookAtHeader(n, packets) ==
  IF n < 2 THEN ArmAgain
  ELSE IF LegalPacketLen(Head(packets).len) THEN recvState' = "take"
  ELSE CloseSession

RecvBytes ==
  /\ recvState = "wait" /\ unread > 0
  /\ \E n \in 1 .. unread :
       /\ contentLen + n <= StreamBufLen
       /\ contentLen' = contentLen + n
       /\ unread' = unread - n
       /\ LookAtHeader(contentLen + n, unparsed)
  /\ UNCHANGED <<peerSent, peerGone, unparsed, recvQueue, handled>>

\* recv() of no bytes: the end of the stream, an error, or no room to read to.
RecvNothing ==
  /\ recvState = "wait"
  /\ (unread = 0 /\ peerGone) \/ (unread > 0 /\ contentLen = StreamBufLen)
  /\ CloseSession
  /\ UNCHANGED <<peerSent, peerGone, unparsed, unread, contentLen, recvQueue, handled>>

\* Mutant of TakeRecvedPacket: one packet for one call of recv().
TakeOnlyOnePacket ==
  /\ recvState = "take" /\ contentLen >= Head(unparsed).len
  /\ Head(unparsed).len > 2 /\ Len(recvQueue) < StreamQueueCap
  /\ recvQueue' = Append(recvQueue, Head(unparsed).no)
  /\ contentLen' = contentLen - Head(unparsed).len
  /\ unparsed' = Tail(unparsed)
  /\ ArmAgain
  /\ UNCHANGED <<peerSent, peerGone, unread, handled>>

\* A complete packet goes to the main thread and out of the buffer.
TakeRecvedPacket ==
  /\ recvState = "take" /\ contentLen >= Head(unparsed).len
  /\ Head(unparsed).len > 2 /\ Len(recvQueue) < StreamQueueCap
  /\ recvQueue' = Append(recvQueue, Head(unparsed).no)
  /\ contentLen' = contentLen - Head(unparsed).len
  /\ unparsed' = Tail(unparsed)
  /\ LookAtHeader(contentLen', unparsed')
  /\ UNCHANGED <<peerSent, peerGone, unread, handled>>

\* AddRecvedPacketToMainLogicVarLenCircleBuf fails: no data, or no room.
RefusePacket ==
  /\ recvState = "take" /\ contentLen >= Head(unparsed).len
  /\ Head(unparsed).len = 2 \/ Len(recvQueue) = StreamQueueCap
  /\ CloseSession
  /\ UNCHANGED <<peerSent, peerGone, unparsed, unread, contentLen, recvQueue, handled>>

NoWholePacket ==
  /\ recvState = "take" /\ contentLen < Head(unparsed).len
  /\ ArmAgain
  /\ UNCHANGED <<peerSent, peerGone, unparsed, unread, contentLen, recvQueue, handled>>

\* ProcessRecvedPacketFromRecvThread.
MainTakesPacket ==
  /\ recvQueue # <<>>
  /\ handled' = Head(recvQueue) /\ recvQueue' = Tail(recvQueue)
  /\ UNCHANGED <<recvState, peerSent, peerGone, unparsed, unread, contentLen>>

-----------------------------------------------------------------------------
StreamNext ==
  \/ PeerSends \/ PeerGoes \/ MainTakesPacket
  \/ RecvBytes \/ RecvNothing
  \/ TakeRecvedPacket \/ RefusePacket \/ NoWholePacket

StreamSpec == StreamInit /\ [][StreamNext]_streamVars
-----------------------------------------------------------------------------
(* Properties.                                                              *)

\* LSession.cpp:276: when the descriptor is armed, every packet of which all
\* bytes were received is with the main thread, in order and none left out, and
\* the buffer has room for what comes: nothing waits for bytes that never come.
NothingHeldBack ==
  recvState = "wait" =>
    /\ contentLen < StreamMaxLen
    /\ unparsed # <<>> => contentLen < BytesOf(Head(unparsed).len)
    /\ handled + Len(recvQueue) + Len(unparsed) = peerSent

\* The packet in front is a header alone.
KeepAliveInFront == recvState = "take" /\ Head(unparsed).len = 2

\* LRecvThread.cpp:291 takes a packet that is a header alone for a keep-alive:
\* it does not end the session.
KeepAliveIsNoCause == [][KeepAliveInFront => recvState' # "closing"]_streamVars

\* LSession.cpp:230: a session is given up only when its peer went, or for the
\* packet in front of the buffer: an illegal length, or no room in the ring to
\* the main thread; never because of where the stream was cut.  The one other
\* way is the keep-alive above, a disagreement of its own.
ClosedForCause ==
  [][recvState # "closing" /\ recvState' = "closing" =>
       \/ peerGone /\ unread = 0
       \/ contentLen' >= 2 /\ ~LegalPacketLen(Head(unparsed').len)
       \/ contentLen >= Head(unparsed).len /\ Len(recvQueue) = StreamQueueCap
       \/ KeepAliveInFront]_streamVars
=============================================================================
