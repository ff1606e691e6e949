---------------------------- MODULE TcpReassembly ----------------------------
(***************************************************************************)
(* The receive side of a CycloneTCP socket with sequence numbers of finite *)
(* width: tcpCheckSeqNum, tcpProcessSegmentData and tcpUpdateSackBlocks of *)
(* core/tcp_misc.c, and the reads of tcpReceive.  Segments of one stream   *)
(* arrive in any order and any number of times.                            *)
(*                                                                         *)
(* The stream is the sequence of the positions 0, 1, 2 ...: the byte at    *)
(* position p is p, and it has the sequence number irs + 1 + p modulo the  *)
(* width.  The model starts when Start bytes were received and read.       *)
(***************************************************************************)
EXTENDS TcpSeq, SequencesExt

CONSTANTS
    Irs,            \* the initial sequence number of the peer
    Start,          \* the position at which the model starts
    Length,         \* bound: how many bytes the peer sends from there
    Mss,            \* largest segment
    RxBufferSize,
    MaxSackBlocks   \* TCP_MAX_SACK_BLOCKS

ASSUME ReassemblyAssumption ==
    /\ Irs \in SeqNum /\ Start \in Nat /\ Length \in Nat
    /\ Mss \in Nat \ {0} /\ RxBufferSize \in Nat \ {0}
    /\ MaxSackBlocks \in Nat \ {0}
    /\ RxBufferSize + RxBufferSize < Modulus

VARIABLES
    rcvNxt, rcvUser, rcvWnd,
    sackBlock,      \* the out-of-order blocks, the newest first
    rxBuf,          \* the receive ring buffer
    pos,            \* history: the position that rcvNxt stands for
    got             \* history: the positions received and not forgotten since

vars == <<rcvNxt, rcvUser, rcvWnd, sackBlock, rxBuf, pos, got>>

Lost == -1

SeqNumOf(p) == Wrap(Irs + 1 + p)

\* The position that a sequence number inside the window stands for.
PosOf(seq) == pos + CmpSeq(seq, rcvNxt)

Init ==
    /\ rcvNxt = SeqNumOf(Start) /\ rcvUser = 0 /\ rcvWnd = RxBufferSize
    /\ sackBlock = << >>
    /\ rxBuf = [i \in 0 .. RxBufferSize - 1 |-> Lost]
    /\ pos = Start
    /\ got = {}

-----------------------------------------------------------------------------
InWindow(seq) == /\ CmpSeq(seq, rcvNxt) >= 0
                 /\ CmpSeq(seq, Wrap(rcvNxt + rcvWnd)) < 0

\* tcpCheckSeqNum on a segment of n > 0 bytes.
Acceptable(seq, n) ==
    rcvWnd # 0 /\ (InWindow(seq) \/ InWindow(Wrap(seq + n - 1)))

\* The offset of a sequence number in the ring buffer, as a write and a read
\* compute it for their first byte.
Offset(seq) == Wrap(seq - Irs - 1) % RxBufferSize

\* Mutants of Touches: a gap of one byte is taken for none; only ranges that
\* overlap touch.
TouchesOverGap(range, block) ==
    CmpSeq(range.right, block.left) >= -1 /\ CmpSeq(range.left, block.right) <= 0

Overlaps(range, block) ==
    CmpSeq(range.right, block.left) > 0 /\ CmpSeq(range.left, block.right) < 0

\* tcpUpdateSackBlocks looks for the blocks that a range overlaps or adjoins.
Touches(range, block) ==
    CmpSeq(range.right, block.left) >= 0 /\ CmpSeq(range.left, block.right) <= 0

\* Mutant of Join: the end of the block is forgotten.
JoinLeft(range, block) ==
    [range EXCEPT !.left = IF @ < block.left THEN @ ELSE block.left]

\* They are merged with MIN and MAX of the unsigned numbers.
Join(range, block) ==
    [range EXCEPT !.left = IF @ < block.left THEN @ ELSE block.left,
                  !.right = IF @ > block.right THEN @ ELSE block.right]

\* One turn of the loop over the blocks.
MergeBlock(range, block) ==
    IF Touches(range, block) THEN Join(range, block)
    ELSE [range EXCEPT !.kept = Append(@, block)]

Merged(left, right) ==
    FoldLeft(MergeBlock, [left |-> left, right |-> right, kept |-> << >>],
             sackBlock)

\* Out of order when the merged range starts past rcvNxt.
OutOfOrder(m) == CmpSeq(m.left, rcvNxt) > 0

\* The new list: a range out of order comes first, the oldest block may go.
NewBlocks(m) ==
    LET all == << [left |-> m.left, right |-> m.right] >> \o m.kept
    IN  IF OutOfOrder(m)
        THEN SubSeq(all, 1, IF Len(all) < MaxSackBlocks THEN Len(all)
                            ELSE MaxSackBlocks)
        ELSE m.kept

\* tcpWriteRxBuffer: n bytes, of the positions from p on, go to the places that
\* follow each other round the buffer from the offset of the first one.
WriteRxBuffer(seq, n, p) ==
    [o \in 0 .. RxBufferSize - 1 |->
        LET i == (o - Offset(seq)) % RxBufferSize
        IN  IF i < n THEN p + i ELSE rxBuf[o]]

\* tcpReadRxBuffer: the n bytes that follow each other from the offset of seq.
ReadRxBuffer(seq, n) ==
    [i \in 1 .. n |-> rxBuf[(Offset(seq) + i - 1) % RxBufferSize]]

\* The part of a segment of n bytes at seq that lies inside the window.
LeftEdge(seq) == IF CmpSeq(seq, rcvNxt) < 0 THEN rcvNxt ELSE seq

\* Mutant of RightEdge: what lies past the window is kept.
RightEdgeUnclipped(seq, n) == Wrap(seq + n)

RightEdge(seq, n) ==
    LET end  == Wrap(seq + n)
        edge == Wrap(rcvNxt + rcvWnd)
    IN  IF CmpSeq(end, edge) > 0 THEN edge ELSE end

\* By how much the merged range m moves rcvNxt.
Moved(m) == IF OutOfOrder(m) THEN 0 ELSE Wrap(m.right - m.left)

\* tcpProcessSegmentData on the n bytes from position p on.
Arrive(p, n) ==
    LET seq    == SeqNumOf(p)
        left   == LeftEdge(seq)
        first  == p + Wrap(left - seq)
        length == Wrap(RightEdge(seq, n) - left)
        m      == Merged(left, RightEdge(seq, n))
    IN  /\ Acceptable(seq, n)
        /\ rxBuf' = WriteRxBuffer(left, length, first)
        /\ sackBlock' = NewBlocks(m)
        /\ rcvNxt' = Wrap(rcvNxt + Moved(m))
        /\ rcvUser' = rcvUser + Moved(m)
        /\ rcvWnd' = rcvWnd - Moved(m)
        /\ pos' = pos + Moved(m)
        /\ got' = {q \in got \cup (first .. first + length - 1) :
                     q <= pos' \/ \E k \in 1 .. Len(sackBlock') :
                        LET b == sackBlock'[k] IN
                        /\ CmpSeq(SeqNumOf(q), b.left) >= 0
                        /\ CmpSeq(SeqNumOf(q), b.right) < 0}

\* Any segment of the peer, old ones and ones that overrun the window included.
Receive ==
    \E n \in 1 .. Mss : \E p \in Start .. Start + Length - n : Arrive(p, n)

\* The reads of tcpReceive, with tcpUpdateReceiveWindow.
Read ==
    \E n \in 1 .. rcvUser :
        LET reduction == RxBufferSize - (rcvUser - n) - rcvWnd
            threshold == IF Mss < RxBufferSize \div 2 THEN Mss
                         ELSE RxBufferSize \div 2
        IN  /\ rcvUser' = rcvUser - n
            /\ rcvWnd' = IF rcvWnd + reduction >= threshold
                         THEN rcvWnd + reduction ELSE rcvWnd
            /\ UNCHANGED <<rcvNxt, sackBlock, rxBuf, pos, got>>

Next == Receive \/ Read

Spec == Init /\ [][Next]_vars

-----------------------------------------------------------------------------
\* A read of tcpReceive returns the bytes of the stream: it starts at the byte
\* after the last one that was read, and takes the offset of that one only.
UnreadBytesAreRight ==
    ReadRxBuffer(Wrap(rcvNxt - rcvUser), rcvUser)
        = [i \in 1 .. rcvUser |-> pos - rcvUser + i - 1]

\* Nothing is acknowledged, by rcvNxt or by a SACK block, that did not arrive.
OnlyReceivedIsAcknowledged ==
    /\ \A p \in Start .. pos - 1 : p \in got
    /\ \A k \in 1 .. Len(sackBlock) :
          LET b == sackBlock[k] IN
          /\ CmpSeq(b.left, rcvNxt) > 0
          /\ \A p \in PosOf(b.left) .. PosOf(b.right) - 1 : p \in got

\* The blocks are apart from each other and inside the window, so that merging
\* a range once into the list cannot leave two blocks that touch.
BlocksAreApart ==
    \A k \in 1 .. Len(sackBlock) :
        LET b == sackBlock[k] IN
        /\ CmpSeq(b.left, b.right) < 0
        /\ CmpSeq(b.right, Wrap(rcvNxt + rcvWnd)) <= 0
        /\ \A j \in (1 .. Len(sackBlock)) \ {k} :
              \/ CmpSeq(b.right, sackBlock[j].left) < 0
              \/ CmpSeq(sackBlock[j].right, b.left) < 0

\* The numbers from rcvNxt to the right edge of the window include zero.
WindowWraps == rcvNxt + rcvWnd >= Modulus

\* The byte rcvNxt stands at has not arrived: what came out of order is
\* acknowledged as soon as the gap before it is filled, as in the data
\* processing of TcpSocket, when the window is away from the wrap-around.
NoGapUnlessWrapped == WindowWraps \/ pos \notin got

\* tcpUpdateSackBlocks merges blocks "to form a contiguous one": a segment that
\* starts at the first missing byte is taken in, whatever came before it.  MIN
\* and MAX of the unsigned numbers break this at the wrap-around.
InOrderDataIsTaken ==
    rcvWnd # 0 =>
        \A n \in 1 .. Mss : Moved(Merged(rcvNxt, RightEdge(rcvNxt, n))) > 0
=============================================================================
