---------------------- MODULE InlineRecorder_refinement ----------------------
(***************************************************************************)
(* The four threads of an orderly recording implement RecordedStream: each *)
(* of their steps is a step of the stream or leaves it as it is.           *)
(***************************************************************************)
EXTENDS InlineRecorder_proofs

-----------------------------------------------------------------------------
(* Sequences of slots.                                                     *)

\* A slot added to the last of three parts is added to the whole.
LEMMA AppendToTail ==
  ASSUME NEW S, NEW f \in Seq(S), NEW h \in Seq(S), NEW u \in Seq(S), NEW x \in S
  PROVE  f \o h \o Append(u, x) = Append(f \o h \o u, x)
  <1>1. f \o h \in Seq(S) /\ f \o h \o u \in Seq(S) /\ <<x>> \in Seq(S)
    BY ConcatProperties
  <1>2. Append(u, x) = u \o <<x>> /\ Append(f \o h \o u, x) = (f \o h \o u) \o <<x>>
    BY <1>1, AppendIsConcat
  <1> QED BY <1>1, <1>2, ConcatAssociative

\* Replacing a slot of the last part replaces it in the whole.
LEMMA ExceptInTail ==
  ASSUME NEW S, NEW g \in Seq(S), NEW u \in Seq(S), NEW i \in 1..Len(u), NEW x \in S
  PROVE  g \o [u EXCEPT ![i] = x] = [g \o u EXCEPT ![Len(g) + i] = x]
  <1> DEFINE v == [u EXCEPT ![i] = x]
  <1>1. /\ Len(g) \in Nat /\ Len(u) \in Nat
        /\ g \o u \in Seq(S) /\ Len(g \o u) = Len(g) + Len(u)
    BY ConcatProperties, LenProperties
  <1>2. /\ v \in Seq(S) /\ Len(v) = Len(u)
        /\ \A j \in 1..Len(u) : v[j] = IF j = i THEN x ELSE u[j]
    BY ExceptSeq
  <1>3. /\ g \o v \in Seq(S) /\ Len(g \o v) = Len(g) + Len(u)
        /\ \A j \in 1..(Len(g) + Len(u)) :
             (g \o v)[j] = IF j <= Len(g) THEN g[j] ELSE v[j - Len(g)]
    <2> HIDE DEF v
    <2>1. /\ g \o v \in Seq(S) /\ Len(g \o v) = Len(g) + Len(v)
          /\ \A j \in 1..(Len(g) + Len(v)) :
               (g \o v)[j] = IF j <= Len(g) THEN g[j] ELSE v[j - Len(g)]
      BY <1>2, ConcatProperties
    <2> QED BY <1>2, <2>1
  <1>4. Len(g) + i \in 1..Len(g \o u)
    BY <1>1
  <1> DEFINE w == [g \o u EXCEPT ![Len(g) + i] = x]
  <1>5. /\ w \in Seq(S) /\ Len(w) = Len(g \o u)
        /\ \A j \in 1..Len(g \o u) : w[j] = IF j = Len(g) + i THEN x ELSE (g \o u)[j]
    <2> DEFINE s == g \o u   k == Len(g) + i
    <2>1. s \in Seq(S) /\ k \in 1..Len(s)
      BY <1>1, <1>4
    <2> HIDE DEF s, k
    <2>2. /\ [s EXCEPT ![k] = x] \in Seq(S) /\ Len([s EXCEPT ![k] = x]) = Len(s)
          /\ \A j \in 1..Len(s) : [s EXCEPT ![k] = x][j] = IF j = k THEN x ELSE s[j]
      BY <2>1, ExceptSeq
    <2> QED BY <2>2 DEF s, k
  <1>6. \A j \in 1..(Len(g) + Len(u)) :
          (g \o u)[j] = IF j <= Len(g) THEN g[j] ELSE u[j - Len(g)]
    BY ConcatProperties
  <1> HIDE DEF v, w
  <1>7. ASSUME NEW j \in 1..Len(g \o v) PROVE (g \o v)[j] = w[j]
    <2>1. CASE j <= Len(g)
      BY <1>1, <1>3, <1>5, <1>6, <2>1
    <2>2. CASE j > Len(g)
      <3> DEFINE k == j - Len(g)
      <3>1. k \in 1..Len(u) /\ j \in 1..(Len(g) + Len(u)) /\ ~(j <= Len(g))
              /\ (j = Len(g) + i <=> k = i)
        BY <1>1, <1>3, <2>2
      <3>2. (g \o v)[j] = v[k] /\ (g \o u)[j] = u[k]
        BY <1>3, <1>6, <3>1
      <3>3. v[k] = IF k = i THEN x ELSE u[k]
        BY <1>2, <3>1
      <3>4. w[j] = IF j = Len(g) + i THEN x ELSE (g \o u)[j]
        BY <1>1, <1>5, <3>1
      <3> QED BY <3>1, <3>2, <3>3, <3>4
    <2> QED BY <1>1, <1>3, <2>1, <2>2
  <1>8. g \o v = w
    BY <1>1, <1>3, <1>5, <1>7, SeqEqual
  <1> QED BY <1>8 DEF v, w

-----------------------------------------------------------------------------
(* The three parts of the stream.                                          *)

USE RecorderAssumption
USE DEF Zero, Active, Inactive, Running, SignalEvent, WaitForSignal, DeInitEvent,
        AllocationFails, StillRecording, OldIndex, BufferFull, MustAwait, CanReceive,
        FramesWith, OpenFirstFile, AfterStopCheck, FlushSize, BeforeAlloc, ptrVars,
        memVars, sgnVars, fileVars, readerVars, writerVars

Recorded == file \o HandedOver \o Unhanded

LEMMA UnhandedCases ==
  ASSUME TypeInv
  PROVE  Unhanded = IF Releasing THEN <<>>
                    ELSE IF spc = "flush" THEN Slots(Inactive, ReadPtrSize)
                    ELSE Slots(Active, ReadPtrSize)
  BY DEF TypeInv, DataOK, Unhanded, Releasing

LEMMA PartsType ==
  ASSUME TypeInv
  PROVE  /\ file \in Seq(0..MaxPkt) /\ Len(file) \in Nat
         /\ HandedOver \in Seq(0..MaxPkt) /\ Len(HandedOver) = HandedSlots
         /\ Unhanded \in Seq(0..MaxPkt) /\ Len(Unhanded) = UnhandedSlots
         /\ HandedSlots \in Nat /\ UnhandedSlots \in Nat
         /\ file \o HandedOver \in Seq(0..MaxPkt)
         /\ Recorded \in Seq(0..MaxPkt) /\ Len(Recorded) = Accepted
  <1>1. DataOK /\ file \in Seq(0..MaxPkt) /\ Len(file) \in Nat
    BY LenProperties DEF TypeInv, DataOK
  <1>2. /\ Active \in {1, 2} /\ Inactive \in {1, 2}
        /\ ReadPtrSize \in 0..BufCap /\ WritePtrSize \in 0..BufCap
    BY <1>1 DEF DataOK
  <1>3. HandedOver \in Seq(0..MaxPkt) /\ Len(HandedOver) = HandedSlots
    <2>1. Slots(Inactive, WritePtrSize) \in Seq(0..MaxPkt)
            /\ Len(Slots(Inactive, WritePtrSize)) = WritePtrSize
      BY <1>1, <1>2, SlotsType
    <2>2. <<>> \in Seq(0..MaxPkt) /\ Len(<<>>) = 0
      BY EmptySeq
    <2>3. CASE sgnInit \/ wpc \in {"select", "write"} \/ rpc = "signal"
      <3>1. HandedOver = Slots(Inactive, WritePtrSize) /\ HandedSlots = WritePtrSize
        BY <2>3 DEF HandedOver, HandedSlots
      <3> QED BY <2>1, <3>1
    <2>4. CASE ~(sgnInit \/ wpc \in {"select", "write"} \/ rpc = "signal")
      BY <2>2, <2>4 DEF HandedOver, HandedSlots
    <2> QED BY <2>3, <2>4
  <1>4. Unhanded \in Seq(0..MaxPkt) /\ Len(Unhanded) = UnhandedSlots
    <2>1. \A b \in {1, 2} : Slots(b, ReadPtrSize) \in Seq(0..MaxPkt)
                              /\ Len(Slots(b, ReadPtrSize)) = ReadPtrSize
      BY <1>1, <1>2, SlotsType
    <2>2. <<>> \in Seq(0..MaxPkt) /\ Len(<<>>) = 0
      BY EmptySeq
    <2> QED BY <1>2, <2>1, <2>2, UnhandedCases DEF UnhandedSlots
  <1>5. HandedSlots \in Nat /\ UnhandedSlots \in Nat
    BY <1>2 DEF HandedSlots, UnhandedSlots
  <1>6. /\ file \o HandedOver \in Seq(0..MaxPkt)
        /\ Len(file \o HandedOver) = Len(file) + HandedSlots
    BY <1>1, <1>3, ConcatProperties
  <1>7. Recorded \in Seq(0..MaxPkt) /\ Len(Recorded) = Accepted
    BY <1>1, <1>3, <1>4, <1>5, <1>6, ConcatProperties DEF Recorded, Accepted
  <1> QED BY <1>1, <1>3, <1>4, <1>5, <1>6, <1>7

-----------------------------------------------------------------------------
(* The origin of the stream, and the place of a late packet in the active  *)
(* buffer.                                                                 *)

OriginInv ==
  /\ ~bFirstPktSeqSet => firstPkt \in 1..MaxPkt
  /\ old /\ rpc # "recv" => pkt + ReadPtrSize = nextPkt + ReadPtrBufIndex

LEMMA OriginInvNext ==
  ASSUME Orderly, TypeInv, HandoffInv, OrderlyInv, OriginInv, [Next]_vars
  PROVE  OriginInv'
  <1> USE DEF TypeInv, FlagsOK, DataOK, IndexInv, OrderlyInv, OriginInv
  <1>1. CASE StartMark
    BY <1>1 DEF StartMark
  <1>2. CASE StartReset
    BY <1>2 DEF StartReset
  <1>3. CASE StartAlloc
    BY <1>3 DEF StartAlloc
  <1>4. CASE StartSpawn
    BY <1>4 DEF StartSpawn
  <1>5. ASSUME NEW n \in 1..MaxPkt, ReceiveFirst(n) PROVE OriginInv'
    BY <1>5 DEF ReceiveFirst
  <1>6. ASSUME NEW n \in 1..MaxPkt, ReceiveBeyondLastFrame(n) PROVE OriginInv'
    BY <1>6 DEF ReceiveBeyondLastFrame, ReceiveNext
  <1>7. ASSUME NEW n \in 1..MaxPkt, ReceiveAhead(n) PROVE OriginInv'
    BY <1>7 DEF ReceiveAhead, ReceiveNext
  <1>8. ASSUME NEW n \in 1..MaxPkt, ReceiveOld(n) PROVE OriginInv'
    BY <1>8 DEF ReceiveOld, ReceiveNext
  <1>9. ASSUME NEW n \in 1..MaxPkt, ReceiveTooOld(n) PROVE OriginInv'
    BY <1>9 DEF ReceiveTooOld, ReceiveNext
  <1>10. CASE ReaderRoom
    BY <1>10 DEF ReaderRoom
  <1>11. CASE ReaderAwait
    BY <1>11 DEF ReaderAwait
  <1>12. CASE ReaderSwap
    BY <1>12 DEF ReaderSwap
  <1>13. CASE ReaderSignal
    BY <1>13 DEF ReaderSignal
  <1>14. CASE ReaderCopy
    BY <1>14 DEF ReaderCopy
  <1>15. CASE ReaderCopyFault
    BY <1>15 DEF ReaderCopyFault
  <1>16. CASE WriterWait
    BY <1>16 DEF WriterWait
  <1>17. CASE WriterSelect
    BY <1>17 DEF WriterSelect
  <1>18. CASE WriterWrite
    BY <1>18 DEF WriterWrite, StoreInFile
  <1>19. CASE WriterSignal
    BY <1>19 DEF WriterSignal
  <1>20. CASE StopMark
    BY <1>20 DEF StopMark
  <1>21. CASE StopCheck
    BY <1>21 DEF StopCheck
  <1>22. CASE StopAwait
    BY <1>22 DEF StopAwait
  <1>23. CASE StopFlip
    BY <1>23 DEF StopFlip
  <1>24. CASE StopFlush
    BY <1>24 DEF StopFlush, StoreInFile
  <1>25. CASE StopDeInit
    BY <1>25 DEF StopDeInit
  <1>26. CASE StopFree
    BY <1>26 DEF StopFree
  <1>27. CASE StopClose
    BY <1>27 DEF StopClose
  <1>28. CASE UNCHANGED vars
    BY <1>28 DEF vars
  <1>29. CASE StopBlocked
    BY <1>29 DEF StopBlocked
  <1> QED BY <1>1, <1>2, <1>3, <1>4, <1>5, <1>6, <1>7, <1>8, <1>9, <1>10, <1>11, <1>12,
        <1>13, <1>14, <1>15, <1>16, <1>17, <1>18, <1>19, <1>20, <1>21, <1>22,
        <1>23, <1>24, <1>25, <1>26, <1>27, <1>28, <1>29
      DEF Next, Starter, Receive, Reader, Writer, Stopper, IgnorePacket, Crashed

-----------------------------------------------------------------------------
(* The steps.                                                              *)

StreamStep == [Stream!Next]_(Stream!streamVars)

\* A step that moves no slot out of its part is not seen by the stream.
LEMMA NothingMoves ==
  ASSUME UNCHANGED <<file, HandedOver, Unhanded, firstPkt>>, spc' = "done" <=> spc = "done"
  PROVE  StreamStep
  BY DEF StreamStep, Stream!streamVars

\* Nor is one that moves slots within the stream, before or at the handoff.
LEMMA SlotsMoveInside ==
  ASSUME UNCHANGED <<file, Recorded, firstPkt>>, spc' = "done" <=> spc = "done"
  PROVE  StreamStep
  BY DEF StreamStep, Stream!streamVars, Recorded

\* Storing a prefix of what is not yet in the file is a step of the stream.
LEMMA StoringIsStore ==
  ASSUME UNCHANGED <<Recorded, firstPkt>>, spc # "done", spc' # "done",
         Len(file) \in Nat, Len(file') \in Nat, Len(Recorded) \in Nat,
         Len(file) <= Len(file'), Len(file') <= Len(Recorded)
  PROVE  StreamStep
  <1>1. Len(file') \in Len(file)..Len(Recorded)
    OBVIOUS
  <1>2. Stream!Store
    BY <1>1 DEF Stream!Store, Recorded
  <1> QED BY <1>2 DEF StreamStep, Stream!Next

LEMMA StarterRefines ==
  ASSUME Orderly, TypeInv, HandoffInv, OrderlyInv, Starter
  PROVE  StreamStep
  <1> SUFFICES UNCHANGED <<file, HandedOver, Unhanded, firstPkt, spc>>
    BY NothingMoves
  <1>1. CASE StartMark
    BY <1>1 DEF StartMark, HandedOver, Unhanded, Slots
  <1>2. CASE StartReset
    BY <1>2 DEF StartReset, TypeInv, IndexInv, OrderlyInv, HandoffInv, NoHandoff, HandedOver, Unhanded, Slots
  <1>3. CASE StartAlloc
    BY <1>3 DEF StartAlloc, TypeInv, IndexInv, OrderlyInv, HandoffInv, NoHandoff, WriterBusy,
       HandedOver, Unhanded, Slots
  <1>4. CASE StartSpawn
    BY <1>4 DEF StartSpawn, TypeInv, IndexInv, HandedOver, Unhanded, Slots
  <1> QED BY <1>1, <1>2, <1>3, <1>4 DEF Starter

LEMMA ReceiveRefines ==
  ASSUME Orderly, TypeInv, HandoffInv, OrderlyInv, CountInv, OriginInv,
         NEW n \in 1..MaxPkt, Receive(n)
  PROVE  StreamStep
  <1>1. CASE ReceiveFirst(n)
    <2>1. spc = "idle" /\ spc' = "idle" /\ firstPkt = 0 /\ Accepted = 0
      BY <1>1 DEF ReceiveFirst, OrderlyInv, CountInv
    <2>2. file = <<>> /\ HandedOver = <<>> /\ Unhanded = <<>>
      <3>1. Len(file) = 0 /\ Len(HandedOver) = 0 /\ Len(Unhanded) = 0
        BY <2>1, PartsType DEF Accepted
      <3> QED BY <3>1, PartsType, EmptySeq
    <2>3. file' = <<>> /\ HandedOver' = <<>> /\ Unhanded' = <<>>
      BY <1>1, <2>1
         DEF ReceiveFirst, OrderlyInv, HandoffInv, NoHandoff, WriterBusy, HandedOver, Unhanded, Slots
    <2>4. Stream!Begin(n)
      BY <1>1, <2>1, <2>2, <2>3 DEF ReceiveFirst, Stream!Begin
    <2> QED BY <2>4 DEF StreamStep, Stream!Next
  <1>2. CASE ReceiveBeyondLastFrame(n)
    <2>1. UNCHANGED <<file, HandedOver, Unhanded, firstPkt, spc>>
      BY <1>2 DEF ReceiveBeyondLastFrame, ReceiveNext, HandedOver, Unhanded, Slots
    <2> QED BY <2>1, NothingMoves
  <1>3. CASE ReceiveAhead(n)
    <2>1. UNCHANGED <<file, HandedOver, Unhanded, firstPkt, spc>>
      BY <1>3 DEF ReceiveAhead, ReceiveNext, HandedOver, Unhanded, Slots
    <2> QED BY <2>1, NothingMoves
  <1>4. CASE ReceiveOld(n)
    <2>1. UNCHANGED <<file, HandedOver, Unhanded, firstPkt, spc>>
      BY <1>4 DEF ReceiveOld, ReceiveNext, HandedOver, Unhanded, Slots
    <2> QED BY <2>1, NothingMoves
  <1>5. CASE ReceiveTooOld(n)
    <2>1. UNCHANGED <<file, HandedOver, Unhanded, firstPkt, spc>>
      BY <1>5 DEF ReceiveTooOld, ReceiveNext, HandedOver, Unhanded, Slots
    <2> QED BY <2>1, NothingMoves
  <1> QED BY <1>1, <1>2, <1>3, <1>4, <1>5 DEF Receive

\* The memcpy: one more slot of the stream, or a late packet in its place.
LEMMA CopyRefines ==
  ASSUME Orderly, TypeInv, HandoffInv, OrderlyInv, CountInv, OriginInv, ReaderCopy
  PROVE  StreamStep
  <1> DEFINE slot == IF gap > 0 THEN 0 ELSE pkt
             U == Slots(Active, ReadPtrSize)
  <1>1. /\ rpc = "copy" /\ spc = "idle" /\ spc' = "idle" /\ ~stopReq /\ ~bFirstPktSeqSet
        /\ UNCHANGED <<file, firstPkt, bBuf1Empty, WritePtrSize>>
        /\ bufs' = [bufs EXCEPT ![Active][ReadPtrBufIndex + 1] = slot]
        /\ ReadPtrSize' = IF old THEN ReadPtrSize ELSE ReadPtrSize + 1
    BY DEF ReaderCopy, OrderlyInv
  <1>2. /\ bufs \in [{1, 2} -> [1..BufCap -> 0..MaxPkt]] /\ slot \in 0..MaxPkt
        /\ ReadPtrSize \in 0..BufCap /\ ReadPtrBufIndex \in 0..(BufCap - 1)
        /\ WritePtrSize \in 0..BufCap
        /\ Active \in {1, 2} /\ Inactive \in {1, 2} /\ Active # Inactive
        /\ ReadPtrBufIndex <= ReadPtrSize
        /\ old => ReadPtrBufIndex < ReadPtrSize /\ slot = pkt
        /\ ~old => ReadPtrBufIndex = ReadPtrSize
    <2>1. /\ bufs \in [{1, 2} -> [1..BufCap -> 0..MaxPkt]] /\ slot \in 0..MaxPkt
          /\ ReadPtrSize \in 0..BufCap /\ WritePtrSize \in 0..BufCap
      BY DEF TypeInv, DataOK
    <2>2. Active \in {1, 2} /\ Inactive \in {1, 2} /\ Active # Inactive
      OBVIOUS
    <2>3. /\ ReadPtrBufIndex \in 0..(BufCap - 1) /\ ReadPtrBufIndex <= ReadPtrSize
          /\ old => ReadPtrBufIndex < ReadPtrSize /\ gap = 0
          /\ ~old => ReadPtrBufIndex = ReadPtrSize
      BY <1>1 DEF TypeInv, DataOK, IndexInv
    <2> QED BY <2>1, <2>2, <2>3
  <1>3. /\ bufs'[Active] = [bufs[Active] EXCEPT ![ReadPtrBufIndex + 1] = slot]
        /\ bufs'[Inactive] = bufs[Inactive]
    BY <1>1, <1>2
  <1>4. Unhanded = U /\ U \in Seq(0..MaxPkt) /\ Len(U) = ReadPtrSize
    BY <1>1, <1>2, SlotsType DEF Unhanded, TypeInv
  <1>5. HandedOver' = HandedOver
    <2>1. Slots(Inactive, WritePtrSize)' = Slots(Inactive, WritePtrSize)
      BY <1>1, <1>3 DEF Slots
    <2> QED BY <1>1, <2>1 DEF ReaderCopy, HandedOver
  <1>6. Unhanded' = [i \in 1..ReadPtrSize' |-> bufs'[Active][i]]
    BY <1>1 DEF Unhanded, Slots
  <1>7. /\ file \o HandedOver \in Seq(0..MaxPkt) /\ Len(file \o HandedOver) = Len(file) + HandedSlots
        /\ Recorded \in Seq(0..MaxPkt) /\ Len(Recorded) = Accepted
        /\ Len(file) \in Nat /\ HandedSlots \in Nat
        /\ Accepted = Len(file) + HandedSlots + ReadPtrSize
        /\ file \in Seq(0..MaxPkt) /\ HandedOver \in Seq(0..MaxPkt)
    <2>1. Len(file \o HandedOver) = Len(file) + HandedSlots
      BY PartsType, ConcatProperties
    <2> QED BY <1>1, <2>1, PartsType DEF Accepted, UnhandedSlots, Releasing
  <1>8. firstPkt \in 1..MaxPkt /\ pkt \in Nat /\ gap \in Nat /\ nextPkt \in Nat
    BY <1>1 DEF OriginInv, TypeInv, DataOK
  <1> HIDE DEF U, slot, Active, Inactive
  <1>11. slot \in 0..MaxPkt /\ U \in Seq(0..MaxPkt) /\ Len(U) = ReadPtrSize
    BY <1>2, <1>4
  <1>12. /\ ReadPtrSize \in Nat /\ ReadPtrBufIndex \in Nat /\ Len(file) \in Nat /\ HandedSlots \in Nat
         /\ Len(Recorded) = Len(file) + HandedSlots + ReadPtrSize
         /\ Accepted = Len(file) + HandedSlots + ReadPtrSize
         /\ old => ReadPtrBufIndex < ReadPtrSize
    BY <1>2, <1>7
  <1>9. CASE ~old
    <2>1. Unhanded' = Append(U, slot)
      <3>1. Unhanded' = [i \in 1..(ReadPtrSize + 1) |->
                           IF i = ReadPtrSize + 1 THEN slot ELSE bufs[Active][i]]
        BY <1>1, <1>2, <1>3, <1>6, <1>9
      <3>2. Append(U, slot) = [i \in 1..(ReadPtrSize + 1) |->
                                 IF i = ReadPtrSize + 1 THEN slot ELSE bufs[Active][i]]
        BY <1>2, <1>4 DEF U, Slots
      <3> QED BY <3>1, <3>2
    <2>2. Recorded' = Append(Recorded, slot)
      <3>1. file \o HandedOver \o Append(U, slot) = Append(file \o HandedOver \o U, slot)
        <4> DEFINE S == 0..MaxPkt
        <4>1. file \in Seq(S) /\ HandedOver \in Seq(S) /\ U \in Seq(S) /\ slot \in S
          BY <1>7, <1>11
        <4> HIDE DEF S
        <4> QED BY <4>1, AppendToTail
      <3> QED BY <1>1, <1>4, <1>5, <2>1, <3>1 DEF Recorded
    <2>3. slot \in {0, firstPkt + (Len(Recorded) + 1) - 1}
      BY <1>1, <1>7, <1>8, <1>9 DEF CountInv, slot
    <2>4. Stream!Extend
      <3>1. \E x \in {0, firstPkt + (Len(Recorded) + 1) - 1} : Recorded' = Append(Recorded, x)
        BY <2>2, <2>3
      <3>2. firstPkt # 0 /\ ~(spc = "done") /\ UNCHANGED <<firstPkt, Len(file), spc = "done">>
        BY <1>1, <1>8
      <3> QED BY <3>1, <3>2 DEF Stream!Extend, Stream!PacketAt, Recorded
    <2> QED BY <2>4 DEF StreamStep, Stream!Next
  <1>10. CASE old
    <2> DEFINE G == file \o HandedOver
               k == ReadPtrBufIndex + 1
               place == Len(G) + k
    <2>1. k \in 1..Len(U) /\ slot = pkt
      BY <1>2, <1>4, <1>10
    <2>2. Unhanded' = [U EXCEPT ![k] = slot]
      <3>1. Unhanded' = [j \in 1..ReadPtrSize |-> IF j = k THEN slot ELSE bufs[Active][j]]
        <4>1. \A j \in 1..ReadPtrSize :
                 bufs'[Active][j] = IF j = k THEN slot ELSE bufs[Active][j]
          BY <1>2, <1>3
        <4> HIDE DEF k
        <4> QED BY <1>1, <1>6, <1>10, <4>1
      <3>2. U = [j \in 1..ReadPtrSize |-> bufs[Active][j]]
        BY DEF U, Slots
      <3> HIDE DEF k
      <3> QED BY <3>1, <3>2
    <2>3. /\ G \in Seq(0..MaxPkt) /\ Len(G) = Len(file) + HandedSlots
          /\ Recorded = G \o U /\ Recorded' = G \o Unhanded'
      BY <1>1, <1>4, <1>5, <1>7 DEF Recorded
    <2>4. place > Len(file) /\ place \in 1..Len(Recorded)
      <3> HIDE DEF G
      <3> QED BY <1>10, <1>12, <2>3
    <2>5. slot = firstPkt + place - 1
      <3>1. Accepted = nextPkt - firstPkt
        BY <1>1, <1>10 DEF CountInv
      <3>2. pkt + ReadPtrSize = nextPkt + ReadPtrBufIndex
        BY <1>1, <1>10 DEF OriginInv
      <3> HIDE DEF G
      <3>3. firstPkt \in Nat /\ pkt \in Nat /\ nextPkt \in Nat
        BY <1>8
      <3>4. pkt = firstPkt + (Len(file) + HandedSlots + ReadPtrBufIndex)
        BY <1>12, <3>1, <3>2, <3>3
      <3>5. Len(G) = Len(file) + HandedSlots /\ slot = pkt
        BY <2>1, <2>3
      <3> QED BY <1>12, <3>3, <3>4, <3>5
    <2> HIDE DEF G, k
    <2>6. Recorded' = [Recorded EXCEPT ![place] = slot]
      <3>1. G \o [U EXCEPT ![k] = slot] = [G \o U EXCEPT ![place] = slot]
        <4> DEFINE S == 0..MaxPkt
        <4>1. G \in Seq(S) /\ U \in Seq(S) /\ slot \in S
          BY <1>11, <2>3
        <4> HIDE DEF S
        <4> QED BY <2>1, <4>1, ExceptInTail DEF place
      <3> QED BY <2>2, <2>3, <3>1
    <2> HIDE DEF place
    <2>7. Stream!FillLate(place)
      BY <1>1, <2>4, <2>5, <2>6 DEF Stream!FillLate, Stream!PacketAt, Recorded
    <2>8. DOMAIN Recorded = 1..Len(Recorded)
      BY <1>7, LenProperties
    <2> QED BY <2>4, <2>7, <2>8 DEF StreamStep, Stream!Next, Recorded
  <1> QED BY <1>9, <1>10

LEMMA ReaderRefines ==
  ASSUME Orderly, TypeInv, HandoffInv, OrderlyInv, CountInv, OriginInv, Reader
  PROVE  StreamStep
  <1>1. CASE ReaderRoom
    <2>1. UNCHANGED <<file, HandedOver, Unhanded, firstPkt, spc>>
      BY <1>1 DEF ReaderRoom, HandedOver, Unhanded, Slots
    <2> QED BY <2>1, NothingMoves
  <1>2. CASE ReaderAwait
    <2>1. UNCHANGED <<file, HandedOver, Unhanded, firstPkt, spc>>
      BY <1>2 DEF ReaderAwait, HandedOver, Unhanded, Slots
    <2> QED BY <2>1, NothingMoves
  <1>3. CASE ReaderSwap
    <2>1. spc = "idle" /\ spc' = "idle" /\ UNCHANGED <<file, firstPkt>>
      BY <1>3 DEF ReaderSwap, OrderlyInv
    <2>2. HandedOver = <<>> /\ Unhanded' = <<>>
      BY <1>3, <2>1
         DEF ReaderSwap, HandoffInv, NoHandoff, WriterBusy, HandedOver, Unhanded, Slots
    <2>3. HandedOver' = Unhanded
      BY <1>3, <2>1 DEF ReaderSwap, TypeInv, FlagsOK, HandedOver, Unhanded, Slots
    <2>4. Recorded' = Recorded
      BY <2>1, <2>2, <2>3, PartsType, ConcatEmptySeq, ConcatProperties DEF Recorded
    <2> QED BY <2>1, <2>4, SlotsMoveInside
  <1>4. CASE ReaderSignal
    <2>1. UNCHANGED <<file, HandedOver, Unhanded, firstPkt, spc>>
      BY <1>4 DEF ReaderSignal, HandedOver, Unhanded, Slots
    <2> QED BY <2>1, NothingMoves
  <1>5. CASE ReaderCopy
    BY <1>5, CopyRefines
  <1>6. CASE ReaderCopyFault
    <2>1. UNCHANGED <<file, HandedOver, Unhanded, firstPkt, spc>>
      BY <1>6 DEF ReaderCopyFault, HandedOver, Unhanded, Slots
    <2> QED BY <2>1, NothingMoves
  <1> QED BY <1>1, <1>2, <1>3, <1>4, <1>5, <1>6 DEF Reader

LEMMA WriterRefines ==
  ASSUME Orderly, TypeInv, HandoffInv, OrderlyInv, Writer
  PROVE  StreamStep
  <1>1. CASE WriterWait
    <2>1. UNCHANGED <<file, HandedOver, Unhanded, firstPkt, spc>>
      BY <1>1 DEF WriterWait, HandedOver, Unhanded, Slots
    <2> QED BY <2>1, NothingMoves
  <1>2. CASE WriterSelect
    <2>1. UNCHANGED <<file, HandedOver, Unhanded, firstPkt, spc>>
      BY <1>2 DEF WriterSelect, HandedOver, Unhanded, Slots
    <2> QED BY <2>1, NothingMoves
  <1>3. CASE WriterWrite
    <2>1. /\ allocated /\ fileOpen /\ ~sgnInit /\ rpc # "signal" /\ spc # "done"
          /\ wBuf = Inactive /\ wSize = WritePtrSize
          /\ UNCHANGED <<bufs, rpc, spc, sgnInit, firstPkt, bBuf1Empty, ReadPtrSize>>
      BY <1>3 DEF WriterWrite, OrderlyInv, HandoffInv, WriterBusy, NoHandoff, Flushing, Releasing
    <2>2. HandedOver = Slots(wBuf, wSize) /\ HandedOver' = <<>>
      BY <1>3, <2>1 DEF WriterWrite, HandedOver
    <2>3. file' = file \o HandedOver
      BY <1>3, <2>1, <2>2 DEF WriterWrite, StoreInFile, Orderly
    <2>4. Unhanded' = Unhanded
      BY <2>1 DEF Unhanded, Slots
    <2>5. Recorded' = Recorded
      <3>1. file' \o <<>> = file'
        BY <2>3, PartsType, ConcatEmptySeq
      <3> QED BY <2>2, <2>3, <2>4, <3>1 DEF Recorded
    <2>6. Len(file') = Len(file) + HandedSlots
      BY <2>3, PartsType, ConcatProperties
    <2>7. Len(Recorded) = Len(file) + HandedSlots + UnhandedSlots
      BY PartsType DEF Accepted
    <2> QED BY <2>1, <2>5, <2>6, <2>7, PartsType, StoringIsStore
  <1>4. CASE WriterSignal
    <2>1. UNCHANGED <<file, HandedOver, Unhanded, firstPkt, spc>>
      BY <1>4 DEF WriterSignal, HandedOver, Unhanded, Slots
    <2> QED BY <2>1, NothingMoves
  <1> QED BY <1>1, <1>2, <1>3, <1>4 DEF Writer

LEMMA StopperRefines ==
  ASSUME Orderly, TypeInv, HandoffInv, OrderlyInv, StopMark \/ Stopper
  PROVE  StreamStep
  <1>1. CASE StopMark
    <2>1. UNCHANGED <<file, HandedOver, Unhanded, firstPkt>> /\ spc = "idle" /\ spc' = "check"
      BY <1>1 DEF StopMark, HandedOver, Unhanded, Slots
    <2> QED BY <2>1, NothingMoves
  <1>2. CASE StopCheck
    <2>1. UNCHANGED <<file, HandedOver, firstPkt, ReadPtrSize>>
            /\ spc = "check" /\ spc' = AfterStopCheck
      BY <1>2 DEF StopCheck, HandedOver, Slots
    <2>2. Unhanded' = Unhanded
      BY <1>2 DEF StopCheck, Unhanded, Slots
    <2> QED BY <2>1, <2>2, NothingMoves
  <1>3. CASE StopAwait
    <2>1. UNCHANGED <<file, HandedOver, Unhanded, firstPkt>> /\ spc = "await" /\ spc' = "flip"
      BY <1>3 DEF StopAwait, HandedOver, Unhanded, Slots
    <2> QED BY <2>1, NothingMoves
  <1>4. CASE StopFlip
    <2>1. UNCHANGED <<file, firstPkt>> /\ spc = "flip" /\ spc' = "flush"
      BY <1>4 DEF StopFlip
    <2>2. HandedOver = <<>> /\ HandedOver' = <<>>
      BY <1>4 DEF StopFlip, OrderlyInv, NoHandoff, WriterBusy, HandedOver
    <2>3. Unhanded' = Unhanded
      BY <1>4 DEF StopFlip, TypeInv, FlagsOK, Unhanded, Slots
    <2> QED BY <2>1, <2>2, <2>3, NothingMoves
  <1>5. CASE StopFlush
    <2>1. /\ allocated /\ fileOpen /\ spc = "flush" /\ spc' = "deinit"
          /\ UNCHANGED <<bufs, rpc, wpc, sgnInit, firstPkt, bBuf1Empty, ReadPtrSize>>
          /\ ~sgnInit /\ ~WriterBusy /\ rpc # "signal"
      BY <1>5 DEF StopFlush, TypeInv, DataOK, OrderlyInv, HandoffInv, WriterBusy, NoHandoff,
         Flushing, Releasing
    <2>2. HandedOver = <<>> /\ HandedOver' = <<>>
      BY <2>1 DEF HandedOver, WriterBusy
    <2>3. Unhanded = Slots(Inactive, ReadPtrSize) /\ Unhanded' = <<>>
      BY <2>1 DEF Unhanded
    <2>4. file' = file \o Unhanded
      BY <1>5, <2>1, <2>3 DEF StopFlush, StoreInFile, Orderly
    <2>5. Recorded = file' /\ Recorded' = file'
      <3>1. file \o <<>> = file /\ file' \in Seq(0..MaxPkt)
        BY <2>4, PartsType, ConcatEmptySeq, ConcatProperties
      <3>2. file' \o <<>> = file'
        BY <3>1, ConcatEmptySeq
      <3> QED BY <2>2, <2>3, <2>4, <3>1, <3>2 DEF Recorded
    <2>6. Len(file') = Len(file) + UnhandedSlots
      BY <2>4, PartsType, ConcatProperties
    <2> QED BY <2>1, <2>5, <2>6, PartsType, StoringIsStore
  <1>6. CASE StopDeInit
    <2>1. UNCHANGED <<file, Unhanded, firstPkt>> /\ spc \in {"deinit", "destroy"} /\ spc' = "free"
      BY <1>6 DEF StopDeInit, Unhanded
    <2>2. HandedOver = <<>> /\ HandedOver' = <<>>
      BY <1>6 DEF StopDeInit, OrderlyInv, Releasing, NoHandoff, WriterBusy, HandedOver
    <2> QED BY <2>1, <2>2, NothingMoves
  <1>7. CASE StopFree
    <2>1. UNCHANGED <<file, HandedOver, Unhanded, firstPkt>> /\ spc = "free" /\ spc' = "close"
      BY <1>7 DEF StopFree, HandedOver, Unhanded, Slots
    <2> QED BY <2>1, NothingMoves
  <1>8. CASE StopClose
    <2>1. UNCHANGED <<file, HandedOver, Unhanded, firstPkt>> /\ spc = "close" /\ spc' = "done"
      BY <1>8 DEF StopClose, HandedOver, Unhanded, Slots
    <2>2. HandedSlots = 0 /\ UnhandedSlots = 0
      BY <2>1 DEF OrderlyInv, Releasing, NoHandoff, WriterBusy, HandedSlots, UnhandedSlots
    <2>3. Len(file) = Len(Recorded)
      BY <2>2, PartsType DEF Accepted
    <2>4. Stream!Close
      BY <2>1, <2>3 DEF Stream!Close, Recorded
    <2> QED BY <2>4 DEF StreamStep, Stream!Next
  <1>9. CASE StopBlocked
    <2>1. UNCHANGED <<file, HandedOver, Unhanded, firstPkt>> /\ spc = "deinit" /\ spc' = "destroy"
      BY <1>9 DEF StopBlocked, HandedOver, Unhanded, Slots
    <2> QED BY <2>1, NothingMoves
  <1> QED BY <1>1, <1>2, <1>3, <1>4, <1>5, <1>6, <1>7, <1>8, <1>9 DEF Stopper

\* Every step of an orderly recording is a step of the stream, or none.
LEMMA StepRefines ==
  ASSUME Orderly, TypeInv, HandoffInv, OrderlyInv, CountInv, OriginInv, [Next]_vars
  PROVE  StreamStep
  <1>1. CASE UNCHANGED vars
    <2>1. UNCHANGED <<file, HandedOver, Unhanded, firstPkt, spc>>
      BY <1>1 DEF vars, HandedOver, Unhanded, Slots
    <2> QED BY <2>1, NothingMoves
  <1> QED BY <1>1, StarterRefines, ReceiveRefines, ReaderRefines, WriterRefines, StopperRefines
          DEF Next, IgnorePacket, Crashed

LEMMA InitRefines == Init => Stream!Init
  <1> SUFFICES ASSUME Init PROVE Stream!Init
    OBVIOUS
  <1>1. file = <<>> /\ HandedOver = <<>> /\ Unhanded = <<>> /\ firstPkt = 0 /\ spc = "idle"
    BY DEF Init, HandedOver, Unhanded, Slots
  <1>2. Len(<<>>) = 0 /\ <<>> \o <<>> \o <<>> = <<>>
    OBVIOUS
  <1> QED BY <1>1, <1>2 DEF Stream!Init

\* An orderly recording keeps the promise of RecordedStream, whatever the order of the
\* four threads, the packets lost and late, and the sizes of the buffers: the file is the
\* received stream in order, with zeros for what is missing, late packets only where
\* nothing was stored yet (readData, writeDataToBuffer_Inline, setThreadStop).
THEOREM ThreadsImplementStream ==
  ASSUME Orderly
  PROVE  Spec => ImplementsStream
  <1> DEFINE I == TypeInv /\ HandoffInv /\ OrderlyInv
             J == CountInv /\ OriginInv
  <1>1. Init => Stream!Init /\ J
    <2>1. Init => CountInv
      BY Len(<<>>) = 0 DEF Init, CountInv, Accepted, HandedSlots, UnhandedSlots, Releasing
    <2>2. Init => OriginInv
      BY DEF Init, OriginInv
    <2> QED BY <2>1, <2>2, InitRefines
  <1>2. I /\ J /\ [Next]_vars => J'
    BY CountInvNext, OriginInvNext
  <1>3. I /\ J /\ [Next]_vars => [Stream!Next]_(Stream!streamVars)
    BY StepRefines DEF StreamStep
  <1>4. Spec => []I
    BY OrderlyInductive
  <1> HIDE DEF I, J
  <1> QED BY <1>1, <1>2, <1>3, <1>4, PTL DEF Spec, Safety, ImplementsStream, Stream!Spec
=============================================================================
