----------------------- MODULE InlineRecorder_proofs -----------------------
(***************************************************************************)
(* Theorems about InlineRecorder, for every value of its constants.        *)
(***************************************************************************)
EXTENDS InlineRecorder, SequenceTheorems, TLAPS

-----------------------------------------------------------------------------
(* The reader's position in the active buffer: TypeOK is not inductive     *)
(* without it.  Before the buffers exist nothing can have been stored.     *)

BeforeAlloc == apc \in {"mark", "reset"}

IndexInv ==
  /\ rpc = "copy" => ReadPtrBufIndex < BufCap
  /\ rpc = "signal" => ReadPtrBufIndex = 0
  /\ old /\ rpc # "recv" =>
       rpc \in {"room", "copy"} /\ gap = 0 /\ ReadPtrBufIndex < ReadPtrSize
  /\ ~old \/ rpc = "recv" => ReadPtrBufIndex = ReadPtrSize
  /\ BeforeAlloc => /\ ~allocated /\ ReadPtrBufIndex = 0 /\ ReadPtrSize = 0
                    /\ rpc \in {"recv", "room", "copy"} /\ ~old /\ ~bWaitForSignal
  /\ apc # "done" => wpc = "off"

TypeInv == FlagsOK /\ DataOK /\ IndexInv

USE RecorderAssumption
USE DEF Zero, Active, Inactive, Running, SignalEvent, WaitForSignal, DeInitEvent,
        AllocationFails, StillRecording, OldIndex, BufferFull, MustAwait, CanReceive,
        FramesWith, OpenFirstFile, AfterStopCheck, FlushSize, BeforeAlloc, ptrVars,
        memVars, sgnVars, fileVars, readerVars, writerVars

LEMMA SlotsType ==
  ASSUME DataOK, NEW b \in {1, 2}, NEW k \in 0..BufCap
  PROVE  Slots(b, k) \in Seq(0..MaxPkt) /\ Len(Slots(b, k)) = k
  <1>1. \A i \in 1..k : bufs[b][i] \in 0..MaxPkt
    BY DEF DataOK
  <1>2. k \in Nat
    OBVIOUS
  <1> QED BY <1>1, <1>2 DEF Slots

\* Whatever writeDataToFile_Inline stores, the file stays a sequence of slots.
LEMMA StoreType ==
  ASSUME FlagsOK, DataOK, NEW b \in {1, 2}, NEW n \in 0..BufCap, StoreInFile(b, n)
  PROVE  /\ file' \in Seq(0..MaxPkt)
         /\ fileOpen' \in BOOLEAN /\ stopReq' \in BOOLEAN
         /\ fault' \in {"none", "buffer", "file"}
  <1>1. fileOpen' \in BOOLEAN /\ stopReq' \in BOOLEAN
    BY DEF StoreInFile, FlagsOK
  <1>2. fault' \in {"none", "buffer", "file"}
    BY DEF StoreInFile, DataOK
  <1>3. file' \in Seq(0..MaxPkt)
    <2>1. file \in Seq(0..MaxPkt)
      BY DEF DataOK
    <2>2. \A k \in 0..n : file \o Slots(b, k) \in Seq(0..MaxPkt)
      <3> TAKE k \in 0..n
      <3>1. k \in 0..BufCap
        OBVIOUS
      <3>2. Slots(b, k) \in Seq(0..MaxPkt)
        BY <3>1, SlotsType
      <3> QED BY <2>1, <3>2, ConcatProperties
    <2>3. n \in 0..n
      OBVIOUS
    <2> QED BY <2>1, <2>2, <2>3 DEF StoreInFile
  <1> QED BY <1>1, <1>2, <1>3

LEMMA TypeInvInit == Init => TypeInv
  <1> SUFFICES ASSUME Init PROVE TypeInv
    OBVIOUS
  <1>1. FlagsOK
    BY DEF Init, FlagsOK
  <1>2. DataOK
    BY DEF Init, DataOK
  <1>3. IndexInv
    BY DEF Init, IndexInv
  <1> QED BY <1>1, <1>2, <1>3 DEF TypeInv

LEMMA TypeInvStarter ==
  ASSUME TypeInv, Starter
  PROVE  TypeInv'
  <1> USE DEF TypeInv
  <1>1. CASE StartMark
    <2>1. FlagsOK'
      BY <1>1 DEF StartMark, FlagsOK
    <2>2. DataOK'
      BY <1>1 DEF StartMark, DataOK, IndexInv
    <2>3. IndexInv'
      BY <1>1 DEF StartMark, FlagsOK, DataOK, IndexInv
    <2> QED BY <2>1, <2>2, <2>3
  <1>2. CASE StartReset
    <2>1. FlagsOK'
      BY <1>2 DEF StartReset, FlagsOK
    <2>2. DataOK'
      BY <1>2 DEF StartReset, DataOK, IndexInv
    <2>3. IndexInv'
      BY <1>2 DEF StartReset, FlagsOK, DataOK, IndexInv
    <2> QED BY <2>1, <2>2, <2>3
  <1>3. CASE StartAlloc
    <2>1. FlagsOK'
      BY <1>3 DEF StartAlloc, FlagsOK
    <2>2. DataOK'
      BY <1>3 DEF StartAlloc, DataOK, IndexInv
    <2>3. IndexInv'
      BY <1>3 DEF StartAlloc, FlagsOK, DataOK, IndexInv
    <2> QED BY <2>1, <2>2, <2>3
  <1>4. CASE StartSpawn
    <2>1. FlagsOK'
      BY <1>4 DEF StartSpawn, FlagsOK
    <2>2. DataOK'
      BY <1>4 DEF StartSpawn, DataOK, IndexInv
    <2>3. IndexInv'
      BY <1>4 DEF StartSpawn, FlagsOK, DataOK, IndexInv
    <2> QED BY <2>1, <2>2, <2>3
  <1> QED BY <1>1, <1>2, <1>3, <1>4 DEF Starter

LEMMA TypeInvReceive ==
  ASSUME NEW n \in 1..MaxPkt, TypeInv, Receive(n)
  PROVE  TypeInv'
  <1> USE DEF TypeInv
  <1>1. CASE ReceiveFirst(n)
    <2>1. FlagsOK'
      BY <1>1 DEF ReceiveFirst, FlagsOK
    <2>2. DataOK'
      BY <1>1 DEF ReceiveFirst, DataOK, IndexInv
    <2>3. IndexInv'
      BY <1>1 DEF ReceiveFirst, FlagsOK, DataOK, IndexInv
    <2> QED BY <2>1, <2>2, <2>3
  <1>2. CASE ReceiveBeyondLastFrame(n)
    <2>1. FlagsOK'
      BY <1>2 DEF ReceiveBeyondLastFrame, ReceiveNext, FlagsOK
    <2>2. DataOK'
      BY <1>2 DEF ReceiveBeyondLastFrame, ReceiveNext, DataOK, IndexInv
    <2>3. IndexInv'
      BY <1>2 DEF ReceiveBeyondLastFrame, ReceiveNext, FlagsOK, DataOK, IndexInv
    <2> QED BY <2>1, <2>2, <2>3
  <1>3. CASE ReceiveAhead(n)
    <2>1. FlagsOK'
      BY <1>3 DEF ReceiveAhead, ReceiveNext, FlagsOK
    <2>2. DataOK'
      BY <1>3 DEF ReceiveAhead, ReceiveNext, DataOK, IndexInv
    <2>3. IndexInv'
      BY <1>3 DEF ReceiveAhead, ReceiveNext, FlagsOK, DataOK, IndexInv
    <2> QED BY <2>1, <2>2, <2>3
  <1>4. CASE ReceiveOld(n)
    <2>1. FlagsOK'
      BY <1>4 DEF ReceiveOld, ReceiveNext, FlagsOK
    <2>2. DataOK'
      BY <1>4 DEF ReceiveOld, ReceiveNext, DataOK, IndexInv
    <2>3. IndexInv'
      BY <1>4 DEF ReceiveOld, ReceiveNext, FlagsOK, DataOK, IndexInv
    <2> QED BY <2>1, <2>2, <2>3
  <1>5. CASE ReceiveTooOld(n)
    <2>1. FlagsOK'
      BY <1>5 DEF ReceiveTooOld, ReceiveNext, FlagsOK
    <2>2. DataOK'
      BY <1>5 DEF ReceiveTooOld, ReceiveNext, DataOK, IndexInv
    <2>3. IndexInv'
      BY <1>5 DEF ReceiveTooOld, ReceiveNext, FlagsOK, DataOK, IndexInv
    <2> QED BY <2>1, <2>2, <2>3
  <1> QED BY <1>1, <1>2, <1>3, <1>4, <1>5 DEF Receive

LEMMA TypeInvReader ==
  ASSUME TypeInv, Reader
  PROVE  TypeInv'
  <1> USE DEF TypeInv
  <1>1. CASE ReaderRoom
    <2>1. FlagsOK'
      BY <1>1 DEF ReaderRoom, FlagsOK
    <2>2. DataOK'
      BY <1>1 DEF ReaderRoom, DataOK, IndexInv
    <2>3. IndexInv'
      BY <1>1 DEF ReaderRoom, FlagsOK, DataOK, IndexInv
    <2> QED BY <2>1, <2>2, <2>3
  <1>2. CASE ReaderAwait
    <2>1. FlagsOK'
      BY <1>2 DEF ReaderAwait, FlagsOK
    <2>2. DataOK'
      BY <1>2 DEF ReaderAwait, DataOK, IndexInv
    <2>3. IndexInv'
      BY <1>2 DEF ReaderAwait, FlagsOK, DataOK, IndexInv
    <2> QED BY <2>1, <2>2, <2>3
  <1>3. CASE ReaderSwap
    <2>1. FlagsOK'
      BY <1>3 DEF ReaderSwap, FlagsOK
    <2>2. DataOK'
      BY <1>3 DEF ReaderSwap, DataOK, IndexInv
    <2>3. IndexInv'
      BY <1>3 DEF ReaderSwap, FlagsOK, DataOK, IndexInv
    <2> QED BY <2>1, <2>2, <2>3
  <1>4. CASE ReaderSignal
    <2>1. FlagsOK'
      BY <1>4 DEF ReaderSignal, FlagsOK
    <2>2. DataOK'
      BY <1>4 DEF ReaderSignal, DataOK, IndexInv
    <2>3. IndexInv'
      BY <1>4 DEF ReaderSignal, FlagsOK, DataOK, IndexInv
    <2> QED BY <2>1, <2>2, <2>3
  <1>5. CASE ReaderCopy
    <2>1. FlagsOK'
      BY <1>5 DEF ReaderCopy, FlagsOK
    <2>2. bufs' \in [{1, 2} -> [1..BufCap -> 0..MaxPkt]]
      <3>1. ReadPtrBufIndex + 1 \in 1..BufCap
        BY <1>5 DEF ReaderCopy, DataOK, IndexInv
      <3>2. (IF gap > 0 THEN 0 ELSE pkt) \in 0..MaxPkt
        BY DEF DataOK
      <3> QED BY <1>5, <3>1, <3>2 DEF ReaderCopy, DataOK
    <2>3. ReadPtrSize' \in 0..BufCap /\ ReadPtrBufIndex' \in 0..BufCap
      BY <1>5 DEF ReaderCopy, DataOK, IndexInv
    <2>4. gap' \in 0..MaxPkt /\ total' \in Nat /\ nextPkt' \in Nat
      BY <1>5 DEF ReaderCopy, DataOK
    <2>5. DataOK'
      BY <1>5, <2>2, <2>3, <2>4 DEF ReaderCopy, DataOK
    <2>6. IndexInv'
      BY <1>5 DEF ReaderCopy, FlagsOK, DataOK, IndexInv
    <2> QED BY <2>1, <2>5, <2>6
  <1>6. CASE ReaderCopyFault
    <2>1. FlagsOK'
      BY <1>6 DEF ReaderCopyFault, FlagsOK
    <2>2. DataOK'
      BY <1>6 DEF ReaderCopyFault, DataOK, IndexInv
    <2>3. IndexInv'
      BY <1>6 DEF ReaderCopyFault, FlagsOK, DataOK, IndexInv
    <2> QED BY <2>1, <2>2, <2>3
  <1> QED BY <1>1, <1>2, <1>3, <1>4, <1>5, <1>6 DEF Reader

LEMMA TypeInvWriter ==
  ASSUME TypeInv, Writer
  PROVE  TypeInv'
  <1> USE DEF TypeInv
  <1>1. CASE WriterWait
    <2>1. FlagsOK'
      BY <1>1 DEF WriterWait, FlagsOK
    <2>2. DataOK'
      BY <1>1 DEF WriterWait, DataOK, IndexInv
    <2>3. IndexInv'
      BY <1>1 DEF WriterWait, FlagsOK, DataOK, IndexInv
    <2> QED BY <2>1, <2>2, <2>3
  <1>2. CASE WriterSelect
    <2>1. FlagsOK'
      BY <1>2 DEF WriterSelect, FlagsOK
    <2>2. DataOK'
      BY <1>2 DEF WriterSelect, DataOK, IndexInv
    <2>3. IndexInv'
      BY <1>2 DEF WriterSelect, FlagsOK, DataOK, IndexInv
    <2> QED BY <2>1, <2>2, <2>3
  <1>3. CASE WriterWrite
    <2>1. FlagsOK'
      BY <1>3, StoreType DEF WriterWrite, FlagsOK, DataOK
    <2>2. DataOK'
      BY <1>3, StoreType DEF WriterWrite, DataOK
    <2>3. IndexInv'
      BY <1>3 DEF WriterWrite, FlagsOK, DataOK, IndexInv
    <2> QED BY <2>1, <2>2, <2>3
  <1>4. CASE WriterSignal
    <2>1. FlagsOK'
      BY <1>4 DEF WriterSignal, FlagsOK
    <2>2. DataOK'
      BY <1>4 DEF WriterSignal, DataOK, IndexInv
    <2>3. IndexInv'
      BY <1>4 DEF WriterSignal, FlagsOK, DataOK, IndexInv
    <2> QED BY <2>1, <2>2, <2>3
  <1> QED BY <1>1, <1>2, <1>3, <1>4 DEF Writer

LEMMA TypeInvStopper ==
  ASSUME TypeInv, StopMark \/ Stopper
  PROVE  TypeInv'
  <1> USE DEF TypeInv
  <1>1. CASE StopMark
    <2>1. FlagsOK'
      BY <1>1 DEF StopMark, FlagsOK
    <2>2. DataOK'
      BY <1>1 DEF StopMark, DataOK, IndexInv
    <2>3. IndexInv'
      BY <1>1 DEF StopMark, FlagsOK, DataOK, IndexInv
    <2> QED BY <2>1, <2>2, <2>3
  <1>2. CASE StopCheck
    <2>1. FlagsOK'
      BY <1>2 DEF StopCheck, FlagsOK
    <2>2. DataOK'
      BY <1>2 DEF StopCheck, DataOK, IndexInv
    <2>3. IndexInv'
      BY <1>2 DEF StopCheck, FlagsOK, DataOK, IndexInv
    <2> QED BY <2>1, <2>2, <2>3
  <1>3. CASE StopAwait
    <2>1. FlagsOK'
      BY <1>3 DEF StopAwait, FlagsOK
    <2>2. DataOK'
      BY <1>3 DEF StopAwait, DataOK, IndexInv
    <2>3. IndexInv'
      BY <1>3 DEF StopAwait, FlagsOK, DataOK, IndexInv
    <2> QED BY <2>1, <2>2, <2>3
  <1>4. CASE StopFlip
    <2>1. FlagsOK'
      BY <1>4 DEF StopFlip, FlagsOK
    <2>2. DataOK'
      BY <1>4 DEF StopFlip, DataOK, IndexInv
    <2>3. IndexInv'
      BY <1>4 DEF StopFlip, FlagsOK, DataOK, IndexInv
    <2> QED BY <2>1, <2>2, <2>3
  <1>5. CASE StopFlush
    <2>1. FlagsOK'
      BY <1>5, StoreType DEF StopFlush, FlagsOK, DataOK
    <2>2. DataOK'
      BY <1>5, StoreType DEF StopFlush, DataOK
    <2>3. IndexInv'
      BY <1>5 DEF StopFlush, FlagsOK, DataOK, IndexInv
    <2> QED BY <2>1, <2>2, <2>3
  <1>6. CASE StopDeInit
    <2>1. FlagsOK'
      BY <1>6 DEF StopDeInit, FlagsOK
    <2>2. DataOK'
      BY <1>6 DEF StopDeInit, DataOK, IndexInv
    <2>3. IndexInv'
      BY <1>6 DEF StopDeInit, FlagsOK, DataOK, IndexInv
    <2> QED BY <2>1, <2>2, <2>3
  <1>7. CASE StopFree
    <2>1. FlagsOK'
      BY <1>7 DEF StopFree, FlagsOK
    <2>2. DataOK'
      BY <1>7 DEF StopFree, DataOK, IndexInv
    <2>3. IndexInv'
      BY <1>7 DEF StopFree, FlagsOK, DataOK, IndexInv
    <2> QED BY <2>1, <2>2, <2>3
  <1>8. CASE StopClose
    <2>1. FlagsOK'
      BY <1>8 DEF StopClose, FlagsOK
    <2>2. DataOK'
      BY <1>8 DEF StopClose, DataOK, IndexInv
    <2>3. IndexInv'
      BY <1>8 DEF StopClose, FlagsOK, DataOK, IndexInv
    <2> QED BY <2>1, <2>2, <2>3
  <1>9. CASE StopBlocked
    <2>1. FlagsOK'
      BY <1>9 DEF StopBlocked, FlagsOK
    <2>2. DataOK'
      BY <1>9 DEF StopBlocked, DataOK, IndexInv
    <2>3. IndexInv'
      BY <1>9 DEF StopBlocked, FlagsOK, DataOK, IndexInv
    <2> QED BY <2>1, <2>2, <2>3
  <1> QED BY <1>1, <1>2, <1>3, <1>4, <1>5, <1>6, <1>7, <1>8, <1>9 DEF Stopper

LEMMA TypeInvStutter ==
  ASSUME TypeInv, UNCHANGED vars
  PROVE  TypeInv'
  <1>1. FlagsOK'
    BY DEF vars, TypeInv, FlagsOK
  <1>2. DataOK' /\ IndexInv'
    BY DEF vars, TypeInv, DataOK, IndexInv
  <1> QED BY <1>1, <1>2 DEF TypeInv

LEMMA TypeInvNext == TypeInv /\ [Next]_vars => TypeInv'
  BY TypeInvStarter, TypeInvReceive, TypeInvReader, TypeInvWriter, TypeInvStopper,
     TypeInvStutter DEF Next, IgnorePacket, Crashed

\* Every variable keeps its type, and no index or size leaves its buffer, under
\* every interleaving of the four threads (readData, writeDataToBuffer_Inline).
THEOREM TypeCorrect == Spec => []TypeOK
  <1>1. TypeInv => TypeOK
    BY DEF TypeInv, TypeOK
  <1> QED BY <1>1, TypeInvInit, TypeInvNext, PTL DEF Spec, Safety
-----------------------------------------------------------------------------
(* The handoff between the reader and the writer.                          *)

WriterBusy == wpc \in {"select", "write", "signal"}
NoHandoff  == ~sgnInit /\ ~WriterBusy /\ ~sgnCompletion

HandoffInv ==
  /\ ~(sgnInit /\ WriterBusy) /\ ~(sgnInit /\ sgnCompletion) /\ ~(WriterBusy /\ sgnCompletion)
  /\ rpc \in {"swap", "signal"} => NoHandoff /\ bWaitForSignal
  /\ ~bWaitForSignal => NoHandoff

LEMMA HandoffInvNext ==
  ASSUME TypeInv, HandoffInv, [Next]_vars
  PROVE  HandoffInv'
  <1>1. CASE StartMark
    BY <1>1 DEF StartMark, TypeInv, IndexInv, HandoffInv, WriterBusy, NoHandoff
  <1>2. CASE StartReset
    BY <1>2 DEF StartReset, TypeInv, IndexInv, HandoffInv, WriterBusy, NoHandoff
  <1>3. CASE StartAlloc
    BY <1>3 DEF StartAlloc, TypeInv, IndexInv, HandoffInv, WriterBusy, NoHandoff
  <1>4. CASE StartSpawn
    BY <1>4 DEF StartSpawn, TypeInv, IndexInv, HandoffInv, WriterBusy, NoHandoff
  <1>5. ASSUME NEW n \in 1..MaxPkt, ReceiveFirst(n) PROVE HandoffInv'
    BY <1>5 DEF ReceiveFirst, TypeInv, IndexInv, HandoffInv, WriterBusy, NoHandoff
  <1>6. ASSUME NEW n \in 1..MaxPkt, ReceiveBeyondLastFrame(n) PROVE HandoffInv'
    BY <1>6 DEF ReceiveBeyondLastFrame, ReceiveNext, TypeInv, IndexInv, HandoffInv, WriterBusy, NoHandoff
  <1>7. ASSUME NEW n \in 1..MaxPkt, ReceiveAhead(n) PROVE HandoffInv'
    BY <1>7 DEF ReceiveAhead, ReceiveNext, TypeInv, IndexInv, HandoffInv, WriterBusy, NoHandoff
  <1>8. ASSUME NEW n \in 1..MaxPkt, ReceiveOld(n) PROVE HandoffInv'
    BY <1>8 DEF ReceiveOld, ReceiveNext, TypeInv, IndexInv, HandoffInv, WriterBusy, NoHandoff
  <1>9. ASSUME NEW n \in 1..MaxPkt, ReceiveTooOld(n) PROVE HandoffInv'
    BY <1>9 DEF ReceiveTooOld, ReceiveNext, TypeInv, IndexInv, HandoffInv, WriterBusy, NoHandoff
  <1>10. CASE ReaderRoom
    BY <1>10 DEF ReaderRoom, TypeInv, IndexInv, HandoffInv, WriterBusy, NoHandoff
  <1>11. CASE ReaderAwait
    BY <1>11 DEF ReaderAwait, TypeInv, IndexInv, HandoffInv, WriterBusy, NoHandoff
  <1>12. CASE ReaderSwap
    BY <1>12 DEF ReaderSwap, TypeInv, IndexInv, HandoffInv, WriterBusy, NoHandoff
  <1>13. CASE ReaderSignal
    BY <1>13 DEF ReaderSignal, TypeInv, IndexInv, HandoffInv, WriterBusy, NoHandoff
  <1>14. CASE ReaderCopy
    BY <1>14 DEF ReaderCopy, TypeInv, IndexInv, HandoffInv, WriterBusy, NoHandoff
  <1>15. CASE ReaderCopyFault
    BY <1>15 DEF ReaderCopyFault, TypeInv, IndexInv, HandoffInv, WriterBusy, NoHandoff
  <1>16. CASE WriterWait
    BY <1>16 DEF WriterWait, TypeInv, IndexInv, HandoffInv, WriterBusy, NoHandoff
  <1>17. CASE WriterSelect
    BY <1>17 DEF WriterSelect, TypeInv, IndexInv, HandoffInv, WriterBusy, NoHandoff
  <1>18. CASE WriterWrite
    BY <1>18 DEF WriterWrite, StoreInFile, TypeInv, IndexInv, HandoffInv, WriterBusy, NoHandoff
  <1>19. CASE WriterSignal
    BY <1>19 DEF WriterSignal, TypeInv, IndexInv, HandoffInv, WriterBusy, NoHandoff
  <1>20. CASE StopMark
    BY <1>20 DEF StopMark, TypeInv, IndexInv, HandoffInv, WriterBusy, NoHandoff
  <1>21. CASE StopCheck
    BY <1>21 DEF StopCheck, TypeInv, IndexInv, HandoffInv, WriterBusy, NoHandoff
  <1>22. CASE StopAwait
    BY <1>22 DEF StopAwait, TypeInv, IndexInv, HandoffInv, WriterBusy, NoHandoff
  <1>23. CASE StopFlip
    BY <1>23 DEF StopFlip, TypeInv, IndexInv, HandoffInv, WriterBusy, NoHandoff
  <1>24. CASE StopFlush
    BY <1>24 DEF StopFlush, StoreInFile, TypeInv, IndexInv, HandoffInv, WriterBusy, NoHandoff
  <1>25. CASE StopDeInit
    BY <1>25 DEF StopDeInit, TypeInv, IndexInv, HandoffInv, WriterBusy, NoHandoff
  <1>26. CASE StopFree
    BY <1>26 DEF StopFree, TypeInv, IndexInv, HandoffInv, WriterBusy, NoHandoff
  <1>27. CASE StopClose
    BY <1>27 DEF StopClose, TypeInv, IndexInv, HandoffInv, WriterBusy, NoHandoff
  <1>28. CASE UNCHANGED vars
    BY <1>28 DEF vars, TypeInv, IndexInv, HandoffInv, WriterBusy, NoHandoff
  <1>29. CASE StopBlocked
    BY <1>29 DEF StopBlocked, TypeInv, IndexInv, HandoffInv, WriterBusy, NoHandoff
  <1> QED BY <1>1, <1>2, <1>3, <1>4, <1>5, <1>6, <1>7, <1>8, <1>9, <1>10, <1>11, <1>12,
        <1>13, <1>14, <1>15, <1>16, <1>17, <1>18, <1>19, <1>20, <1>21, <1>22, <1>23, <1>24, <1>25, <1>26, <1>27, <1>28, <1>29
      DEF Next, Starter, Receive, Reader, Writer, Stopper, IgnorePacket, Crashed

\* Whatever overlaps, the two event flags and the writer never hold more than one
\* handoff, so no signal of a file-write event is ever lost.
THEOREM HandoffIsUnique == Spec => []OneHandoff
  <1>1. Init => HandoffInv
    BY DEF Init, HandoffInv, WriterBusy, NoHandoff
  <1>2. TypeInv /\ HandoffInv /\ [Next]_vars => HandoffInv'
    BY HandoffInvNext
  <1>3. HandoffInv => OneHandoff
    BY DEF HandoffInv, WriterBusy, OneHandoff, Announced, Taken, Finished
  <1> QED BY <1>1, <1>2, <1>3, TypeInvInit, TypeInvNext, PTL DEF Spec, Safety

-----------------------------------------------------------------------------
(* The recording flag: setThreadStart raises it, setThreadStop, the reader *)
(* and a failed allocation lower it, and nobody raises it again.           *)

FlagInv ==
  /\ bThreadState \/ stopReq \/ rpc # "recv" => apc # "mark"
  /\ spc # "idle" => ~bThreadState /\ apc # "mark"

LEMMA FlagInvNext ==
  ASSUME TypeInv, FlagInv, [Next]_vars
  PROVE  FlagInv'
  <1>1. CASE Starter
    BY <1>1 DEF Starter, StartMark, StartReset, StartAlloc, StartSpawn, FlagInv
  <1>2. ASSUME NEW n \in 1..MaxPkt, Receive(n) PROVE FlagInv'
    BY <1>2 DEF Receive, ReceiveFirst, ReceiveNext, ReceiveBeyondLastFrame, ReceiveAhead,
       ReceiveOld, ReceiveTooOld, FlagInv
  <1>3. CASE Reader
    <2>1. rpc # "recv" /\ apc # "mark" /\ UNCHANGED <<apc, spc>>
      BY <1>3 DEF Reader, ReaderRoom, ReaderAwait, ReaderSwap, ReaderSignal, ReaderCopy,
         ReaderCopyFault, FlagInv
    <2>2. bThreadState' => bThreadState
      BY <1>3 DEF Reader, ReaderRoom, ReaderAwait, ReaderSwap, ReaderSignal, ReaderCopy,
         ReaderCopyFault, TypeInv, FlagsOK
    <2> QED BY <2>1, <2>2 DEF FlagInv
  <1>4. CASE Writer
    BY <1>4 DEF Writer, WriterWait, WriterSelect, WriterWrite, WriterSignal, StoreInFile,
       TypeInv, IndexInv, FlagInv
  <1>5. CASE StopMark \/ Stopper
    BY <1>5 DEF Stopper, StopMark, StopCheck, StopAwait, StopFlip, StopFlush, StopBlocked,
       StopDeInit, StopFree, StopClose, StoreInFile, FlagInv
  <1>6. CASE UNCHANGED vars
    BY <1>6 DEF vars, FlagInv
  <1> QED BY <1>1, <1>2, <1>3, <1>4, <1>5, <1>6 DEF Next, IgnorePacket, Crashed

\* Whenever the stop comes, before the buffers exist or in the middle of a packet, the
\* reader takes no further packet once setThreadStop has begun (readData, setThreadStop).
THEOREM ReaderStops == Spec => NoPacketAfterStop
  <1>1. Init => FlagInv
    BY DEF Init, FlagInv
  <1>2. TypeInv /\ FlagInv /\ [Next]_vars => FlagInv'
    BY FlagInvNext
  <1>3. FlagInv /\ [Next]_vars => [spc # "idle" /\ rpc = "recv" => UNCHANGED readerVars]_vars
    <2> SUFFICES ASSUME FlagInv, Next, spc # "idle", rpc = "recv" PROVE UNCHANGED readerVars
      OBVIOUS
    <2>1. CASE Starter
      BY <2>1 DEF Starter, StartMark, StartReset, StartAlloc, StartSpawn
    <2>2. ~bThreadState
      BY DEF FlagInv
    <2>3. \A n \in 1..MaxPkt : ~Receive(n)
      BY <2>2 DEF Receive, ReceiveFirst, ReceiveNext, ReceiveBeyondLastFrame, ReceiveAhead,
         ReceiveOld, ReceiveTooOld
    <2>4. ~Reader
      BY DEF Reader, ReaderRoom, ReaderAwait, ReaderSwap, ReaderSignal, ReaderCopy,
         ReaderCopyFault
    <2>5. CASE Writer
      BY <2>5 DEF Writer, WriterWait, WriterSelect, WriterWrite, WriterSignal
    <2>6. CASE StopMark \/ Stopper
      BY <2>6 DEF Stopper, StopMark, StopCheck, StopAwait, StopFlip, StopFlush, StopBlocked,
         StopDeInit, StopFree, StopClose
    <2> QED BY <2>1, <2>3, <2>4, <2>5, <2>6 DEF Next, IgnorePacket, Crashed, vars
  <1> QED BY <1>1, <1>2, <1>3, TypeInvInit, TypeInvNext, PTL DEF Spec, Safety, NoPacketAfterStop

-----------------------------------------------------------------------------
(* Orderly recordings: no stray packet, no fopen failure, and the stop     *)
(* arrives between two packets (always so when readData itself ends the    *)
(* recording).                                                             *)

Orderly == StopWhen = "quiet" /\ ~StrayPackets /\ ~FileErrors

Flushing  == spc \in {"await", "flip", "flush"}
Releasing == spc \in {"deinit", "destroy", "free", "close", "done"}

OrderlyInv ==
  /\ apc # "done" => rpc = "recv" /\ spc = "idle" /\ ~stopReq /\ bFirstPktSeqSet
  /\ apc \in {"spawn", "done"} /\ bThreadState => allocated
  /\ stopReq \/ spc # "idle" => rpc = "recv" /\ ~bThreadState
  /\ bFirstPktSeqSet => rpc = "recv" /\ ReadPtrSize = 0 /\ ~bWaitForSignal
  /\ ~bFirstPktSeqSet => /\ apc = "done"
                         /\ fileOpen \/ spc = "done"
                         /\ allocated \/ spc \in {"close", "done"}
  /\ bWaitForSignal /\ rpc \in {"recv", "room", "await", "swap"} => ReadPtrSize > 0
  /\ Flushing => ReadPtrSize > 0
  /\ spc \in {"flip", "flush"} \/ Releasing => NoHandoff
  /\ wpc = "write" => wBuf = Inactive /\ wSize = WritePtrSize
  /\ fault = "none"

LEMMA OrderlyInvNext ==
  ASSUME Orderly, TypeInv, HandoffInv, OrderlyInv, [Next]_vars
  PROVE  OrderlyInv'
  <1>1. CASE StartMark
    BY <1>1 DEF StartMark, Orderly, TypeInv, DataOK, IndexInv, HandoffInv, WriterBusy,
       NoHandoff, OrderlyInv, Flushing, Releasing
  <1>2. CASE StartReset
    BY <1>2 DEF StartReset, Orderly, TypeInv, DataOK, IndexInv, HandoffInv, WriterBusy,
       NoHandoff, OrderlyInv, Flushing, Releasing
  <1>3. CASE StartAlloc
    BY <1>3 DEF StartAlloc, Orderly, TypeInv, DataOK, IndexInv, HandoffInv, WriterBusy,
       NoHandoff, OrderlyInv, Flushing, Releasing
  <1>4. CASE StartSpawn
    BY <1>4 DEF StartSpawn, Orderly, TypeInv, DataOK, IndexInv, HandoffInv, WriterBusy,
       NoHandoff, OrderlyInv, Flushing, Releasing
  <1>5. ASSUME NEW n \in 1..MaxPkt, ReceiveFirst(n) PROVE OrderlyInv'
    BY <1>5 DEF ReceiveFirst, Orderly, TypeInv, DataOK, IndexInv, HandoffInv, WriterBusy,
       NoHandoff, OrderlyInv, Flushing, Releasing
  <1>6. ASSUME NEW n \in 1..MaxPkt, ReceiveBeyondLastFrame(n) PROVE OrderlyInv'
    BY <1>6 DEF ReceiveBeyondLastFrame, ReceiveNext, Orderly, TypeInv, DataOK, IndexInv, HandoffInv, WriterBusy,
       NoHandoff, OrderlyInv, Flushing, Releasing
  <1>7. ASSUME NEW n \in 1..MaxPkt, ReceiveAhead(n) PROVE OrderlyInv'
    BY <1>7 DEF ReceiveAhead, ReceiveNext, Orderly, TypeInv, DataOK, IndexInv, HandoffInv, WriterBusy,
       NoHandoff, OrderlyInv, Flushing, Releasing
  <1>8. ASSUME NEW n \in 1..MaxPkt, ReceiveOld(n) PROVE OrderlyInv'
    BY <1>8 DEF ReceiveOld, ReceiveNext, Orderly, TypeInv, DataOK, IndexInv, HandoffInv, WriterBusy,
       NoHandoff, OrderlyInv, Flushing, Releasing
  <1>9. ASSUME NEW n \in 1..MaxPkt, ReceiveTooOld(n) PROVE OrderlyInv'
    BY <1>9 DEF ReceiveTooOld, ReceiveNext, Orderly, TypeInv, DataOK, IndexInv, HandoffInv, WriterBusy,
       NoHandoff, OrderlyInv, Flushing, Releasing
  <1>10. CASE ReaderRoom
    BY <1>10 DEF ReaderRoom, Orderly, TypeInv, DataOK, IndexInv, HandoffInv, WriterBusy,
       NoHandoff, OrderlyInv, Flushing, Releasing
  <1>11. CASE ReaderAwait
    BY <1>11 DEF ReaderAwait, Orderly, TypeInv, DataOK, IndexInv, HandoffInv, WriterBusy,
       NoHandoff, OrderlyInv, Flushing, Releasing
  <1>12. CASE ReaderSwap
    BY <1>12 DEF ReaderSwap, Orderly, TypeInv, DataOK, IndexInv, HandoffInv, WriterBusy,
       NoHandoff, OrderlyInv, Flushing, Releasing
  <1>13. CASE ReaderSignal
    BY <1>13 DEF ReaderSignal, Orderly, TypeInv, DataOK, IndexInv, HandoffInv, WriterBusy,
       NoHandoff, OrderlyInv, Flushing, Releasing
  <1>14. CASE ReaderCopy
    BY <1>14 DEF ReaderCopy, Orderly, TypeInv, DataOK, IndexInv, HandoffInv, WriterBusy,
       NoHandoff, OrderlyInv, Flushing, Releasing
  <1>15. CASE ReaderCopyFault
    BY <1>15 DEF ReaderCopyFault, Orderly, TypeInv, DataOK, IndexInv, HandoffInv, WriterBusy,
       NoHandoff, OrderlyInv, Flushing, Releasing
  <1>16. CASE WriterWait
    BY <1>16 DEF WriterWait, Orderly, TypeInv, DataOK, IndexInv, HandoffInv, WriterBusy,
       NoHandoff, OrderlyInv, Flushing, Releasing
  <1>17. CASE WriterSelect
    BY <1>17 DEF WriterSelect, Orderly, TypeInv, DataOK, IndexInv, HandoffInv, WriterBusy,
       NoHandoff, OrderlyInv, Flushing, Releasing
  <1>18. CASE WriterWrite
    BY <1>18 DEF WriterWrite, StoreInFile, Orderly, TypeInv, DataOK, IndexInv, HandoffInv, WriterBusy,
       NoHandoff, OrderlyInv, Flushing, Releasing
  <1>19. CASE WriterSignal
    BY <1>19 DEF WriterSignal, Orderly, TypeInv, DataOK, IndexInv, HandoffInv, WriterBusy,
       NoHandoff, OrderlyInv, Flushing, Releasing
  <1>20. CASE StopMark
    BY <1>20 DEF StopMark, Orderly, TypeInv, DataOK, IndexInv, HandoffInv, WriterBusy,
       NoHandoff, OrderlyInv, Flushing, Releasing
  <1>21. CASE StopCheck
    BY <1>21 DEF StopCheck, Orderly, TypeInv, DataOK, IndexInv, HandoffInv, WriterBusy,
       NoHandoff, OrderlyInv, Flushing, Releasing
  <1>22. CASE StopAwait
    BY <1>22 DEF StopAwait, Orderly, TypeInv, DataOK, IndexInv, HandoffInv, WriterBusy,
       NoHandoff, OrderlyInv, Flushing, Releasing
  <1>23. CASE StopFlip
    BY <1>23 DEF StopFlip, Orderly, TypeInv, DataOK, IndexInv, HandoffInv, WriterBusy,
       NoHandoff, OrderlyInv, Flushing, Releasing
  <1>24. CASE StopFlush
    BY <1>24 DEF StopFlush, StoreInFile, Orderly, TypeInv, DataOK, IndexInv, HandoffInv, WriterBusy,
       NoHandoff, OrderlyInv, Flushing, Releasing
  <1>25. CASE StopDeInit
    BY <1>25 DEF StopDeInit, Orderly, TypeInv, DataOK, IndexInv, HandoffInv, WriterBusy,
       NoHandoff, OrderlyInv, Flushing, Releasing
  <1>26. CASE StopFree
    BY <1>26 DEF StopFree, Orderly, TypeInv, DataOK, IndexInv, HandoffInv, WriterBusy,
       NoHandoff, OrderlyInv, Flushing, Releasing
  <1>27. CASE StopClose
    BY <1>27 DEF StopClose, Orderly, TypeInv, DataOK, IndexInv, HandoffInv, WriterBusy,
       NoHandoff, OrderlyInv, Flushing, Releasing
  <1>28. CASE UNCHANGED vars
    BY <1>28 DEF vars, Orderly, TypeInv, DataOK, IndexInv, HandoffInv, WriterBusy,
       NoHandoff, OrderlyInv, Flushing, Releasing
  <1>29. CASE StopBlocked
    BY <1>29 DEF StopBlocked, Orderly, TypeInv, DataOK, IndexInv, HandoffInv, WriterBusy,
       NoHandoff, OrderlyInv, Flushing, Releasing
  <1> QED BY <1>1, <1>2, <1>3, <1>4, <1>5, <1>6, <1>7, <1>8, <1>9, <1>10, <1>11, <1>12,
        <1>13, <1>14, <1>15, <1>16, <1>17, <1>18, <1>19, <1>20, <1>21, <1>22, <1>23, <1>24, <1>25, <1>26, <1>27, <1>28, <1>29
      DEF Next, Starter, Receive, Reader, Writer, Stopper, IgnorePacket, Crashed

LEMMA OrderlyInductive ==
  ASSUME Orderly
  PROVE  Spec => [](TypeInv /\ HandoffInv /\ OrderlyInv)
  <1>1. Init => TypeInv /\ HandoffInv /\ OrderlyInv
    <2>1. Init => HandoffInv
      BY DEF Init, HandoffInv, WriterBusy, NoHandoff
    <2>2. Init => OrderlyInv
      BY DEF Init, OrderlyInv, Flushing, Releasing
    <2> QED BY <2>1, <2>2, TypeInvInit
  <1>2. TypeInv /\ HandoffInv /\ OrderlyInv /\ [Next]_vars
          => (TypeInv /\ HandoffInv /\ OrderlyInv)'
    BY TypeInvNext, HandoffInvNext, OrderlyInvNext
  <1> QED BY <1>1, <1>2, PTL DEF Spec, Safety

\* In an orderly recording the buffers are switched, flushed and released only
\* while no handoff is under way (writeDataToBuffer_Inline, setThreadStop).
THEOREM SwitchesAreSettled ==
  ASSUME Orderly
  PROVE  Spec => []SettledWhenSwitching
  <1>1. HandoffInv /\ OrderlyInv => SettledWhenSwitching
    BY DEF HandoffInv, OrderlyInv, Releasing, WriterBusy, NoHandoff, SettledWhenSwitching,
           Announced, Taken, Finished
  <1> QED BY <1>1, OrderlyInductive, PTL

\* In an orderly recording the writer stores the buffer that the reader and the
\* stopper leave alone, with the size that was handed over.
THEOREM BuffersAreExclusive ==
  ASSUME Orderly
  PROVE  Spec => []BufferExclusion
  <1>1. OrderlyInv => BufferExclusion
    BY DEF OrderlyInv, BufferExclusion
  <1> QED BY <1>1, OrderlyInductive, PTL

\* In an orderly recording no thread uses a buffer or the FILE before it exists
\* or after setThreadStop released it.
THEOREM NothingReleasedIsUsed ==
  ASSUME Orderly
  PROVE  Spec => []NoFault
  <1>1. OrderlyInv => NoFault
    BY DEF OrderlyInv, NoFault
  <1> QED BY <1>1, OrderlyInductive, PTL

-----------------------------------------------------------------------------
(* Counting the slots: those in the file, those handed to the writer and   *)
(* those in the active buffer make up the recording so far.                *)

HandedSlots   == IF sgnInit \/ wpc \in {"select", "write"} \/ rpc = "signal"
                   THEN WritePtrSize ELSE 0
UnhandedSlots == IF Releasing THEN 0 ELSE ReadPtrSize
Accepted      == Len(file) + HandedSlots + UnhandedSlots

CountInv ==
  /\ firstPkt <= nextPkt
  /\ bFirstPktSeqSet => Accepted = 0 /\ nextPkt = 0 /\ firstPkt = 0
  /\ rpc = "recv" \/ old =>
       \/ Accepted = nextPkt - firstPkt
       \/ mode = "BYTES" /\ stopReq /\ Accepted = Goal
  /\ rpc # "recv" /\ ~old => nextPkt <= pkt - gap /\ Accepted = pkt - gap - firstPkt
  /\ mode = "BYTES" /\ ~stopReq => total = Accepted /\ total < Goal

LEMMA StoreLength ==
  ASSUME Orderly, DataOK, allocated, fileOpen,
         NEW b \in {1, 2}, NEW n \in 0..BufCap, StoreInFile(b, n)
  PROVE  /\ Len(file') = Len(file) + n
         /\ UNCHANGED <<stopReq, fault, fileOpen>>
  <1>1. file' = file \o Slots(b, n) /\ UNCHANGED <<stopReq, fault, fileOpen>>
    BY DEF StoreInFile, Orderly
  <1>2. Slots(b, n) \in Seq(0..MaxPkt) /\ Len(Slots(b, n)) = n
    BY SlotsType
  <1>3. file \in Seq(0..MaxPkt)
    BY DEF DataOK
  <1> QED BY <1>1, <1>2, <1>3, ConcatProperties

LEMMA CountInvNext ==
  ASSUME Orderly, TypeInv, HandoffInv, OrderlyInv, CountInv, [Next]_vars
  PROVE  CountInv'
  <1>0. Len(file) \in Nat
    BY LenProperties DEF TypeInv, DataOK
  <1>1. CASE StartMark
    BY <1>0, <1>1 DEF StartMark, Orderly, TypeInv, DataOK, IndexInv, HandoffInv, WriterBusy, NoHandoff,
       OrderlyInv, Flushing, Releasing, CountInv, Accepted, HandedSlots, UnhandedSlots
  <1>2. CASE StartReset
    BY <1>0, <1>2 DEF StartReset, Orderly, TypeInv, DataOK, IndexInv, HandoffInv, WriterBusy, NoHandoff,
       OrderlyInv, Flushing, Releasing, CountInv, Accepted, HandedSlots, UnhandedSlots
  <1>3. CASE StartAlloc
    BY <1>0, <1>3 DEF StartAlloc, Orderly, TypeInv, DataOK, IndexInv, HandoffInv, WriterBusy, NoHandoff,
       OrderlyInv, Flushing, Releasing, CountInv, Accepted, HandedSlots, UnhandedSlots
  <1>4. CASE StartSpawn
    BY <1>0, <1>4 DEF StartSpawn, Orderly, TypeInv, DataOK, IndexInv, HandoffInv, WriterBusy, NoHandoff,
       OrderlyInv, Flushing, Releasing, CountInv, Accepted, HandedSlots, UnhandedSlots
  <1>5. ASSUME NEW n \in 1..MaxPkt, ReceiveFirst(n) PROVE CountInv'
    BY <1>0, <1>5 DEF ReceiveFirst, Orderly, TypeInv, DataOK, IndexInv, HandoffInv, WriterBusy, NoHandoff,
       OrderlyInv, Flushing, Releasing, CountInv, Accepted, HandedSlots, UnhandedSlots
  <1>6. ASSUME NEW n \in 1..MaxPkt, ReceiveBeyondLastFrame(n) PROVE CountInv'
    BY <1>0, <1>6 DEF ReceiveBeyondLastFrame, ReceiveNext, Orderly, TypeInv, DataOK, IndexInv, HandoffInv, WriterBusy, NoHandoff,
       OrderlyInv, Flushing, Releasing, CountInv, Accepted, HandedSlots, UnhandedSlots
  <1>7. ASSUME NEW n \in 1..MaxPkt, ReceiveAhead(n) PROVE CountInv'
    <2>1. Accepted' = Accepted
      BY <1>7 DEF ReceiveAhead, ReceiveNext, OrderlyInv, Accepted, HandedSlots, UnhandedSlots, Releasing
    <2>2. ~stopReq /\ rpc = "recv" /\ Accepted = nextPkt - firstPkt
      BY <1>7 DEF ReceiveAhead, ReceiveNext, OrderlyInv, CountInv
    <2> QED BY <1>7, <2>1, <2>2 DEF ReceiveAhead, ReceiveNext, TypeInv, DataOK, CountInv
  <1>8. ASSUME NEW n \in 1..MaxPkt, ReceiveOld(n) PROVE CountInv'
    BY <1>0, <1>8 DEF ReceiveOld, ReceiveNext, Orderly, TypeInv, DataOK, IndexInv, HandoffInv, WriterBusy, NoHandoff,
       OrderlyInv, Flushing, Releasing, CountInv, Accepted, HandedSlots, UnhandedSlots
  <1>9. ASSUME NEW n \in 1..MaxPkt, ReceiveTooOld(n) PROVE CountInv'
    BY <1>0, <1>9 DEF ReceiveTooOld, ReceiveNext, Orderly, TypeInv, DataOK, IndexInv, HandoffInv, WriterBusy, NoHandoff,
       OrderlyInv, Flushing, Releasing, CountInv, Accepted, HandedSlots, UnhandedSlots
  <1>10. CASE ReaderRoom
    BY <1>0, <1>10 DEF ReaderRoom, Orderly, TypeInv, DataOK, IndexInv, HandoffInv, WriterBusy, NoHandoff,
       OrderlyInv, Flushing, Releasing, CountInv, Accepted, HandedSlots, UnhandedSlots
  <1>11. CASE ReaderAwait
    BY <1>0, <1>11 DEF ReaderAwait, Orderly, TypeInv, DataOK, IndexInv, HandoffInv, WriterBusy, NoHandoff,
       OrderlyInv, Flushing, Releasing, CountInv, Accepted, HandedSlots, UnhandedSlots
  <1>12. CASE ReaderSwap
    <2>1. spc = "idle" /\ ~sgnInit /\ ~WriterBusy /\ ~old
      BY <1>12 DEF ReaderSwap, TypeInv, DataOK, IndexInv, HandoffInv, NoHandoff, OrderlyInv
    <2>2. Accepted' = Accepted
      BY <1>0, <1>12, <2>1 DEF ReaderSwap, TypeInv, DataOK, Accepted, HandedSlots, UnhandedSlots, Releasing, WriterBusy
    <2> QED BY <1>12, <2>1, <2>2 DEF ReaderSwap, CountInv
  <1>13. CASE ReaderSignal
    BY <1>0, <1>13 DEF ReaderSignal, Orderly, TypeInv, DataOK, IndexInv, HandoffInv, WriterBusy, NoHandoff,
       OrderlyInv, Flushing, Releasing, CountInv, Accepted, HandedSlots, UnhandedSlots
  <1>14. CASE ReaderCopy
    <2>1. spc = "idle" /\ ~stopReq /\ ~bFirstPktSeqSet /\ rpc = "copy"
      BY <1>14 DEF ReaderCopy, OrderlyInv
    <2>2. Accepted \in Nat
      <3>1. HandedSlots \in Nat
        BY DEF TypeInv, DataOK, HandedSlots
      <3>2. UnhandedSlots \in Nat
        BY DEF TypeInv, DataOK, UnhandedSlots
      <3> QED BY <1>0, <3>1, <3>2 DEF Accepted
    <2>3. Accepted' = IF old THEN Accepted ELSE Accepted + 1
      <3>1. file' = file /\ HandedSlots' = HandedSlots
        BY <1>14 DEF ReaderCopy, HandedSlots
      <3>2. ReadPtrSize' = (IF old THEN ReadPtrSize ELSE ReadPtrSize + 1) /\ ~Releasing /\ ~Releasing'
        BY <1>14, <2>1 DEF ReaderCopy, Releasing
      <3>3. HandedSlots \in Nat /\ ReadPtrSize \in Nat
        BY DEF TypeInv, DataOK, HandedSlots
      <3> QED BY <1>0, <3>1, <3>2, <3>3 DEF Accepted, UnhandedSlots
    <2>4. CASE old
      BY <1>14, <2>1, <2>2, <2>3, <2>4 DEF ReaderCopy, TypeInv, DataOK, IndexInv, CountInv
    <2>5. CASE ~old
      <3> DEFINE atGoal == mode = "BYTES" /\ total + 1 >= Goal
      <3>1. /\ nextPkt \in Nat /\ firstPkt \in Nat /\ pkt \in Nat /\ gap \in Nat
            /\ total \in Nat /\ firstPkt <= nextPkt
            /\ nextPkt <= pkt - gap /\ Accepted = pkt - gap - firstPkt
            /\ mode = "BYTES" => total = Accepted /\ total < Goal
        BY <2>1, <2>5 DEF TypeInv, DataOK, CountInv
      <3>2. /\ Accepted' = Accepted + 1 /\ UNCHANGED <<mode, firstPkt, pkt, old, bFirstPktSeqSet>>
            /\ stopReq' <=> atGoal
            /\ total' = IF mode = "BYTES" /\ ~atGoal THEN total + 1 ELSE total
            /\ gap' = IF gap > 0 /\ ~atGoal THEN gap - 1 ELSE 0
            /\ rpc' = IF gap > 0 /\ ~atGoal THEN "room" ELSE "recv"
            /\ nextPkt' = IF gap = 0 /\ ~atGoal THEN pkt + 1 ELSE nextPkt
        BY <1>14, <2>1, <2>3, <2>5 DEF ReaderCopy
      <3>3. CASE atGoal
        BY <2>1, <2>2, <2>5, <3>1, <3>2, <3>3 DEF CountInv
      <3>4. CASE ~atGoal /\ gap > 0
        BY <2>1, <2>2, <2>5, <3>1, <3>2, <3>4 DEF CountInv
      <3>5. CASE ~atGoal /\ gap = 0
        BY <2>1, <2>2, <2>5, <3>1, <3>2, <3>5 DEF CountInv
      <3> QED BY <3>1, <3>3, <3>4, <3>5
    <2> QED BY <2>4, <2>5
  <1>15. CASE ReaderCopyFault
    BY <1>0, <1>15 DEF ReaderCopyFault, Orderly, TypeInv, DataOK, IndexInv, HandoffInv, WriterBusy, NoHandoff,
       OrderlyInv, Flushing, Releasing, CountInv, Accepted, HandedSlots, UnhandedSlots
  <1>16. CASE WriterWait
    BY <1>0, <1>16 DEF WriterWait, Orderly, TypeInv, DataOK, IndexInv, HandoffInv, WriterBusy, NoHandoff,
       OrderlyInv, Flushing, Releasing, CountInv, Accepted, HandedSlots, UnhandedSlots
  <1>17. CASE WriterSelect
    BY <1>0, <1>17 DEF WriterSelect, Orderly, TypeInv, DataOK, IndexInv, HandoffInv, WriterBusy, NoHandoff,
       OrderlyInv, Flushing, Releasing, CountInv, Accepted, HandedSlots, UnhandedSlots
  <1>18. CASE WriterWrite
    <2>1. Len(file') = Len(file) + wSize /\ UNCHANGED <<stopReq, fault, fileOpen>>
      <3>1. allocated /\ fileOpen
        BY <1>18 DEF WriterWrite, OrderlyInv, HandoffInv, WriterBusy, NoHandoff, Flushing, Releasing
      <3>2. wBuf \in {1, 2} /\ wSize \in 0..BufCap
        BY DEF TypeInv, DataOK
      <3> QED BY <1>18, <3>1, <3>2, StoreLength DEF WriterWrite, TypeInv
    <2> QED BY <1>0, <1>18, <2>1 DEF WriterWrite, Orderly, TypeInv, DataOK, IndexInv, HandoffInv, WriterBusy, NoHandoff,
       OrderlyInv, Flushing, Releasing, CountInv, Accepted, HandedSlots, UnhandedSlots
  <1>19. CASE WriterSignal
    BY <1>0, <1>19 DEF WriterSignal, Orderly, TypeInv, DataOK, IndexInv, HandoffInv, WriterBusy, NoHandoff,
       OrderlyInv, Flushing, Releasing, CountInv, Accepted, HandedSlots, UnhandedSlots
  <1>20. CASE StopMark
    BY <1>0, <1>20 DEF StopMark, Orderly, TypeInv, DataOK, IndexInv, HandoffInv, WriterBusy, NoHandoff,
       OrderlyInv, Flushing, Releasing, CountInv, Accepted, HandedSlots, UnhandedSlots
  <1>21. CASE StopCheck
    BY <1>0, <1>21 DEF StopCheck, Orderly, TypeInv, DataOK, IndexInv, HandoffInv, WriterBusy, NoHandoff,
       OrderlyInv, Flushing, Releasing, CountInv, Accepted, HandedSlots, UnhandedSlots
  <1>22. CASE StopAwait
    BY <1>0, <1>22 DEF StopAwait, Orderly, TypeInv, DataOK, IndexInv, HandoffInv, WriterBusy, NoHandoff,
       OrderlyInv, Flushing, Releasing, CountInv, Accepted, HandedSlots, UnhandedSlots
  <1>23. CASE StopFlip
    BY <1>0, <1>23 DEF StopFlip, Orderly, TypeInv, DataOK, IndexInv, HandoffInv, WriterBusy, NoHandoff,
       OrderlyInv, Flushing, Releasing, CountInv, Accepted, HandedSlots, UnhandedSlots
  <1>24. CASE StopFlush
    <2>1. Len(file') = Len(file) + FlushSize /\ UNCHANGED <<stopReq, fault, fileOpen>>
      <3>1. allocated /\ fileOpen
        BY <1>24 DEF StopFlush, OrderlyInv, HandoffInv, WriterBusy, NoHandoff, Flushing, Releasing
      <3>2. Inactive \in {1, 2} /\ FlushSize \in 0..BufCap
        BY DEF TypeInv, DataOK
      <3> QED BY <1>24, <3>1, <3>2, StoreLength DEF StopFlush, TypeInv
    <2> QED BY <1>0, <1>24, <2>1 DEF StopFlush, Orderly, TypeInv, DataOK, IndexInv, HandoffInv, WriterBusy, NoHandoff,
       OrderlyInv, Flushing, Releasing, CountInv, Accepted, HandedSlots, UnhandedSlots
  <1>25. CASE StopDeInit
    BY <1>0, <1>25 DEF StopDeInit, Orderly, TypeInv, DataOK, IndexInv, HandoffInv, WriterBusy, NoHandoff,
       OrderlyInv, Flushing, Releasing, CountInv, Accepted, HandedSlots, UnhandedSlots
  <1>26. CASE StopFree
    BY <1>0, <1>26 DEF StopFree, Orderly, TypeInv, DataOK, IndexInv, HandoffInv, WriterBusy, NoHandoff,
       OrderlyInv, Flushing, Releasing, CountInv, Accepted, HandedSlots, UnhandedSlots
  <1>27. CASE StopClose
    BY <1>0, <1>27 DEF StopClose, Orderly, TypeInv, DataOK, IndexInv, HandoffInv, WriterBusy, NoHandoff,
       OrderlyInv, Flushing, Releasing, CountInv, Accepted, HandedSlots, UnhandedSlots
  <1>28. CASE UNCHANGED vars
    BY <1>0, <1>28 DEF vars, Orderly, TypeInv, DataOK, IndexInv, HandoffInv, WriterBusy, NoHandoff,
       OrderlyInv, Flushing, Releasing, CountInv, Accepted, HandedSlots, UnhandedSlots
  <1>29. CASE StopBlocked
    BY <1>0, <1>29 DEF StopBlocked, Orderly, TypeInv, DataOK, IndexInv, HandoffInv, WriterBusy, NoHandoff,
       OrderlyInv, Flushing, Releasing, CountInv, Accepted, HandedSlots, UnhandedSlots
  <1> QED BY <1>1, <1>2, <1>3, <1>4, <1>5, <1>6, <1>7, <1>8, <1>9, <1>10, <1>11, <1>12, <1>13, <1>14, <1>15, <1>16, <1>17, <1>18, <1>19, <1>20, <1>21, <1>22, <1>23, <1>24, <1>25, <1>26, <1>27, <1>28, <1>29
      DEF Next, Starter, Receive, Reader, Writer, Stopper, IgnorePacket, Crashed

\* When setThreadStop of an orderly recording has finished, the file is complete: one
\* slot for every position from the first packet on, or exactly the byte goal.
THEOREM FileIsComplete ==
  ASSUME Orderly
  PROVE  Spec => []CompleteFile
  <1>1. Init => CountInv
    BY Len(<<>>) = 0 DEF Init, CountInv, Accepted, HandedSlots, UnhandedSlots, Releasing
  <1>2. TypeInv /\ HandoffInv /\ OrderlyInv /\ CountInv /\ [Next]_vars => CountInv'
    BY CountInvNext
  <1>3. TypeInv /\ HandoffInv /\ OrderlyInv /\ CountInv => CompleteFile
    <2>1. ASSUME TypeInv, OrderlyInv, CountInv, spc = "done" PROVE Accepted = Len(file)
      BY <2>1, LenProperties
         DEF TypeInv, DataOK, OrderlyInv, NoHandoff, WriterBusy, Releasing, Accepted, HandedSlots, UnhandedSlots
    <2> QED BY <2>1 DEF CompleteFile, CountInv, OrderlyInv
  <1> QED BY <1>1, <1>2, <1>3, OrderlyInductive, PTL DEF Spec, Safety
=============================================================================
