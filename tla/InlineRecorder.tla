--------------------------- MODULE InlineRecorder ---------------------------
(***************************************************************************)
(* One cUdpDataReceiver object of the RF_API library (recorddatarecv.cpp,  *)
(* inline-processing build) during one recording.  Four threads share it:  *)
(*                                                                         *)
(*   starter  setThreadStart, called by StartRecordData after it spawned   *)
(*            the reader and before it spawns the writer                   *)
(*   reader   readData: receives UDP packets and fills the active buffer   *)
(*   writer   Thread_WriteDataToFile: stores the other buffer in the file  *)
(*   stopper  setThreadStop: flushes the active buffer, releases all       *)
(*                                                                         *)
(* Every payload has the same size, so buffers, the file and the byte goal *)
(* are counted in slots of one payload.  Packet n carries the n-th slot of *)
(* the stream; a slot holds a packet number or Zero (zero filled).         *)
(***************************************************************************)
EXTENDS Naturals, Sequences

CONSTANTS
  BufCap,         \* INLINE_BUF_SIZE, in slots
  MaxPkt,         \* bound: the FPGA sends packets 1..MaxPkt
  Goal,           \* u32BytesToCapture in slots, or u32FramesToCapture
  FrameStart,     \* the packets that begin with the frame header
  StopModes,      \* the eRecordStopMode values explored
  StopWhen,       \* "quiet": others call setThreadStop only between packets;
                  \* "any": at any time
  StrayPackets,   \* TRUE: packets may arrive before START was sent
  FileErrors      \* TRUE: fopen may fail

ASSUME RecorderAssumption ==
  /\ BufCap \in Nat \ {0}
  /\ MaxPkt \in Nat
  /\ Goal \in Nat \ {0}
  /\ FrameStart \subseteq 1..MaxPkt
  /\ StopModes \subseteq {"BYTES", "FRAMES", "DURATION"}
  /\ StopWhen \in {"quiet", "any"}
  /\ StrayPackets \in BOOLEAN
  /\ FileErrors \in BOOLEAN

VARIABLES
  mode,                                   \* sRFDCCard_StartRecConfig.eRecordStopMode
  bThreadState, bFirstPktSeqSet,          \* recording; next packet is the first
  bBuf1Empty, bWaitForSignal,             \* buffer 1 is active; a handoff was made
  ReadPtrSize, ReadPtrBufIndex,           \* fill level and write position, active buffer
  WritePtrSize,                           \* size handed to the writer
  bufs, allocated,                        \* s8RecBuf1/2 and whether they are non-NULL
  sgnInit, sgnCompletion,                 \* bSignalled of the two file-write events
  file, fileOpen,                         \* stored slots; pRecordDataFile # NULL
  rpc, pkt, gap, old,                     \* reader: step, packet, zero slots left, old packet
  nextPkt, firstPkt, total, frames,       \* reader: expected and first packet, counts
  wpc, wBuf, wSize,                       \* writer: step, chosen buffer, size
  apc, spc,                               \* starter and stopper steps
  stopReq,                                \* a callback asked for the stop thread
  fault                                   \* first use of a NULL buffer or FILE

readerVars == <<rpc, pkt, gap, old, nextPkt, firstPkt, total, frames>>
writerVars == <<wpc, wBuf, wSize>>
ptrVars    == <<bBuf1Empty, ReadPtrSize, ReadPtrBufIndex, WritePtrSize>>
memVars    == <<bufs, allocated>>
sgnVars    == <<sgnInit, sgnCompletion>>
fileVars   == <<file, fileOpen>>
vars == <<mode, bThreadState, bFirstPktSeqSet, bWaitForSignal, ptrVars, memVars,
          sgnVars, fileVars, readerVars, writerVars, apc, spc, stopReq, fault>>

Zero == 0
Active == IF bBuf1Empty THEN 1 ELSE 2
Inactive == IF bBuf1Empty THEN 2 ELSE 1

Running == fault = "none"

\* osal_linux.cpp: SignalEvent leaves the flag set until a waiter takes it, the
\* NON_STOP WaitForSignal blocks until it is set and clears it.
SignalEvent_Lost(e) == UNCHANGED e
SignalEvent(e) == e' = TRUE

WaitForSignal_Sticky(e) == e /\ UNCHANGED e
WaitForSignal(e) == e /\ e' = FALSE

DeInitEvent(e) == e' = FALSE

-----------------------------------------------------------------------------
Init ==
  /\ mode \in StopModes
  /\ bThreadState = FALSE /\ bFirstPktSeqSet = TRUE
  /\ bBuf1Empty = FALSE /\ bWaitForSignal = FALSE
  /\ ReadPtrSize = 0 /\ ReadPtrBufIndex = 0 /\ WritePtrSize = 0
  /\ bufs = [b \in {1, 2} |-> [i \in 1..BufCap |-> Zero]] /\ allocated = FALSE
  /\ sgnInit = FALSE /\ sgnCompletion = FALSE
  /\ file = <<>> /\ fileOpen = FALSE
  /\ rpc = "recv" /\ pkt = 0 /\ gap = 0 /\ old = FALSE
  /\ nextPkt = 0 /\ firstPkt = 0 /\ total = 0 /\ frames = 0
  /\ wpc = "off" /\ wBuf = 1 /\ wSize = 0
  /\ apc = "mark" /\ spc = "idle"
  /\ stopReq = FALSE /\ fault = "none"

-----------------------------------------------------------------------------
(* The starter: setThreadStart enables the reader before anything is reset *)
(* or allocated.                                                           *)

StartMark ==
  /\ Running /\ apc = "mark"
  /\ bThreadState' = TRUE
  /\ apc' = "reset"
  /\ UNCHANGED <<mode, bFirstPktSeqSet, bWaitForSignal, ptrVars, memVars, sgnVars,
                 fileVars, readerVars, writerVars, spc, stopReq, fault>>

StartReset ==
  /\ Running /\ apc = "reset"
  /\ bFirstPktSeqSet' = TRUE
  /\ bBuf1Empty' = TRUE /\ bWaitForSignal' = FALSE
  /\ ReadPtrBufIndex' = 0 /\ ReadPtrSize' = 0 /\ WritePtrSize' = 0
  /\ sgnCompletion' = FALSE /\ sgnInit' = FALSE
  /\ apc' = "alloc"
  /\ UNCHANGED <<mode, bThreadState, memVars, fileVars, readerVars, writerVars,
                 spc, stopReq, fault>>

AllocationFails_KeepsRecording == UNCHANGED <<bThreadState, memVars>>
AllocationFails == bThreadState' = FALSE /\ UNCHANGED memVars

\* Four mallocs; when one fails the callback only logs and packets are ignored.
StartAlloc ==
  /\ Running /\ apc = "alloc"
  /\ \/ /\ allocated' = TRUE
        /\ bufs' = [b \in {1, 2} |-> [i \in 1..BufCap |-> Zero]]
        /\ UNCHANGED bThreadState
     \/ AllocationFails
  /\ apc' = "spawn"
  /\ UNCHANGED <<mode, bFirstPktSeqSet, bWaitForSignal, ptrVars, sgnVars, fileVars,
                 readerVars, writerVars, spc, stopReq, fault>>

\* StartRecordData creates the writer thread and sends START to the FPGA.
StartSpawn ==
  /\ Running /\ apc = "spawn"
  /\ wpc' = "wait"
  /\ apc' = "done"
  /\ UNCHANGED <<mode, bThreadState, bFirstPktSeqSet, bWaitForSignal, ptrVars, memVars,
                 sgnVars, fileVars, readerVars, wBuf, wSize, spc, stopReq, fault>>

-----------------------------------------------------------------------------
(* The reader.                                                             *)

\* The header compared in FRAMES mode: equal for the packets of FrameStart.
SameHeader(n, m) == n = m \/ {n, m} \subseteq FrameStart

\* setFileName: truncates the file; on failure the callback requests the stop
\* and readData goes on.
OpenFirstFile ==
  /\ file' = <<>>
  /\ \/ fileOpen' = TRUE /\ UNCHANGED stopReq
     \/ FileErrors /\ fileOpen' = FALSE /\ stopReq' = TRUE

\* seekOldIndexReadBuf: where packet n < nextPkt belongs in the active buffer.
OldIndex_OffByOne(n) == ReadPtrBufIndex + 1 - (nextPkt - n)
OldIndex(n) == ReadPtrBufIndex - (nextPkt - n)

\* bThreadState after readData found the recording complete, or not.
StillRecording_Stale(complete) == ~complete
StillRecording(complete) == bThreadState /\ ~complete

\* A datagram is looked at while bThreadState holds, whether or not
\* setThreadStart has finished.
CanReceive == Running /\ rpc = "recv" /\ bThreadState /\ (StrayPackets \/ apc = "done")

\* The first datagram of the recording defines the origin of the stream.
ReceiveFirst(n) ==
  /\ CanReceive /\ bFirstPktSeqSet
  /\ bFirstPktSeqSet' = FALSE
  /\ OpenFirstFile
  /\ bBuf1Empty' = TRUE
  /\ ReadPtrSize' = 0 /\ WritePtrSize' = 0 /\ ReadPtrBufIndex' = 0
  /\ firstPkt' = n /\ nextPkt' = n /\ total' = 0
  /\ frames' = IF mode = "FRAMES" THEN 1 ELSE 0
  /\ pkt' = n /\ gap' = 0 /\ old' = FALSE /\ rpc' = "room"
  /\ UNCHANGED <<mode, bThreadState, bWaitForSignal, memVars, sgnVars, writerVars,
                 apc, spc, fault>>

\* dTotalFrames after datagram n.
FramesWith(n) == IF mode = "FRAMES" /\ SameHeader(n, firstPkt) THEN frames + 1 ELSE frames

ReceiveNext(n) ==
  /\ CanReceive /\ ~bFirstPktSeqSet
  /\ frames' = FramesWith(n)
  /\ UNCHANGED <<mode, bFirstPktSeqSet, bWaitForSignal, bBuf1Empty, ReadPtrSize, WritePtrSize,
                 memVars, sgnVars, fileVars, nextPkt, firstPkt, total, writerVars,
                 apc, spc, fault>>

\* FRAMES mode: the datagram that begins one frame too many ends the recording.
ReceiveBeyondLastFrame(n) ==
  /\ ReceiveNext(n) /\ FramesWith(n) > Goal
  /\ bThreadState' = StillRecording(TRUE) /\ stopReq' = TRUE
  /\ UNCHANGED <<ReadPtrBufIndex, rpc, pkt, gap, old>>

\* The expected datagram (no gap) or a later one (zeros for those skipped).
ReceiveAhead(n) ==
  /\ ReceiveNext(n) /\ FramesWith(n) <= Goal
  /\ n >= nextPkt
  /\ pkt' = n /\ gap' = n - nextPkt /\ old' = FALSE /\ rpc' = "room"
  /\ UNCHANGED <<bThreadState, stopReq, ReadPtrBufIndex>>

\* An old datagram whose place is still in the active buffer.
ReceiveOld(n) ==
  /\ ReceiveNext(n) /\ FramesWith(n) <= Goal
  /\ n < nextPkt /\ nextPkt - n <= ReadPtrBufIndex
  /\ ReadPtrBufIndex' = OldIndex(n)
  /\ pkt' = n /\ gap' = 0 /\ old' = TRUE /\ rpc' = "room"
  /\ UNCHANGED <<bThreadState, stopReq>>

\* An old datagram whose place was handed to the writer: dropped.
ReceiveTooOld(n) ==
  /\ ReceiveNext(n) /\ FramesWith(n) <= Goal
  /\ n < nextPkt /\ nextPkt - n > ReadPtrBufIndex
  /\ UNCHANGED <<bThreadState, stopReq, ReadPtrBufIndex, rpc, pkt, gap, old>>

\* A datagram that arrives while bThreadState is false is received and ignored.
IgnorePacket ==
  /\ Running /\ rpc = "recv" /\ ~bThreadState
  /\ UNCHANGED vars

BufferFull_OffByOne == ReadPtrBufIndex > BufCap
BufferFull == ReadPtrBufIndex + 1 > BufCap

\* Every handoff but the first waits for the completion of the previous one.
MustAwait_Never == FALSE
MustAwait == bWaitForSignal

\* writeDataToBuffer_Inline: is there room, was there an earlier handoff?
ReaderRoom ==
  /\ Running /\ rpc = "room"
  /\ \/ /\ ~BufferFull
        /\ rpc' = "copy" /\ UNCHANGED bWaitForSignal
     \/ /\ BufferFull /\ MustAwait
        /\ rpc' = "await" /\ UNCHANGED bWaitForSignal
     \/ /\ BufferFull /\ ~MustAwait
        /\ bWaitForSignal' = TRUE /\ rpc' = "swap"
  /\ UNCHANGED <<mode, bThreadState, bFirstPktSeqSet, ptrVars, memVars, sgnVars, fileVars,
                 pkt, gap, old, nextPkt, firstPkt, total, frames, writerVars, apc, spc,
                 stopReq, fault>>

ReaderAwait ==
  /\ Running /\ rpc = "await" /\ WaitForSignal(sgnCompletion)
  /\ rpc' = "swap"
  /\ UNCHANGED <<mode, bThreadState, bFirstPktSeqSet, bWaitForSignal, ptrVars, memVars,
                 sgnInit, fileVars, pkt, gap, old, nextPkt, firstPkt, total, frames,
                 writerVars, apc, spc, stopReq, fault>>

ReaderSwap ==
  /\ Running /\ rpc = "swap"
  /\ bBuf1Empty' = ~bBuf1Empty
  /\ WritePtrSize' = ReadPtrSize
  /\ ReadPtrSize' = 0 /\ ReadPtrBufIndex' = 0
  /\ rpc' = "signal"
  /\ UNCHANGED <<mode, bThreadState, bFirstPktSeqSet, bWaitForSignal, memVars, sgnVars,
                 fileVars, pkt, gap, old, nextPkt, firstPkt, total, frames, writerVars,
                 apc, spc, stopReq, fault>>

ReaderSignal ==
  /\ Running /\ rpc = "signal"
  /\ SignalEvent(sgnInit)
  /\ rpc' = "copy"
  /\ UNCHANGED <<mode, bThreadState, bFirstPktSeqSet, bWaitForSignal, ptrVars, memVars,
                 sgnCompletion, fileVars, pkt, gap, old, nextPkt, firstPkt, total, frames,
                 writerVars, apc, spc, stopReq, fault>>

\* memcpy into the active buffer, then what readData does after the write:
\* restore the index (old packet), stop at the byte goal, fill the rest of the
\* gap, or finish the packet.
ReaderCopy ==
  LET atGoal == ~old /\ mode = "BYTES" /\ total + 1 >= Goal
      slot   == IF gap > 0 THEN Zero ELSE pkt
  IN
  /\ Running /\ rpc = "copy" /\ allocated
  /\ bufs' = [bufs EXCEPT ![Active][ReadPtrBufIndex + 1] = slot]
  /\ ReadPtrSize' = IF old THEN ReadPtrSize ELSE ReadPtrSize + 1
  /\ ReadPtrBufIndex' = IF old THEN ReadPtrSize ELSE ReadPtrBufIndex + 1
  /\ total' = IF mode = "BYTES" /\ ~old /\ ~atGoal THEN total + 1 ELSE total
  /\ gap' = IF gap > 0 /\ ~atGoal THEN gap - 1 ELSE 0
  /\ rpc' = IF gap > 0 /\ ~atGoal THEN "room" ELSE "recv"
  /\ nextPkt' = IF gap = 0 /\ ~old /\ ~atGoal THEN pkt + 1 ELSE nextPkt
  /\ bThreadState' = StillRecording(atGoal)
  /\ stopReq' = (stopReq \/ atGoal)
  /\ UNCHANGED <<mode, bFirstPktSeqSet, bWaitForSignal, bBuf1Empty, WritePtrSize, allocated,
                 sgnVars, fileVars, pkt, old, firstPkt, frames, writerVars, apc, spc, fault>>

ReaderCopyFault ==
  /\ Running /\ rpc = "copy" /\ ~allocated
  /\ fault' = "buffer"
  /\ UNCHANGED <<mode, bThreadState, bFirstPktSeqSet, bWaitForSignal, ptrVars, memVars,
                 sgnVars, fileVars, readerVars, writerVars, apc, spc, stopReq>>

-----------------------------------------------------------------------------
(* The file.  writeDataToFile_Inline stores size slots of buffer b; when   *)
(* fopen of the next file fails, only the k slots already written remain.  *)

Slots(b, k) == [i \in 1..k |-> bufs[b][i]]

StoreInFile(b, size) ==
  \/ /\ allocated /\ fileOpen
     /\ file' = file \o Slots(b, size)
     /\ UNCHANGED <<fileOpen, stopReq, fault>>
  \/ /\ FileErrors /\ allocated /\ fileOpen
     /\ \E k \in 0..size : file' = file \o Slots(b, k)
     /\ fileOpen' = FALSE /\ stopReq' = TRUE /\ UNCHANGED fault
  \/ /\ ~allocated \/ ~fileOpen
     /\ fault' = IF allocated THEN "file" ELSE "buffer"
     /\ UNCHANGED <<fileVars, stopReq>>

WriterWait ==
  /\ Running /\ wpc = "wait" /\ WaitForSignal(sgnInit)
  /\ wpc' = "select"
  /\ UNCHANGED <<mode, bThreadState, bFirstPktSeqSet, bWaitForSignal, ptrVars, memVars,
                 sgnCompletion, fileVars, readerVars, wBuf, wSize, apc, spc, stopReq, fault>>

\* The arguments of writeDataToFile_Inline are read from the shared fields.
WriterSelect ==
  /\ Running /\ wpc = "select"
  /\ wBuf' = Inactive /\ wSize' = WritePtrSize
  /\ wpc' = "write"
  /\ UNCHANGED <<mode, bThreadState, bFirstPktSeqSet, bWaitForSignal, ptrVars, memVars,
                 sgnVars, fileVars, readerVars, apc, spc, stopReq, fault>>

WriterWrite ==
  /\ Running /\ wpc = "write"
  /\ StoreInFile(wBuf, wSize)
  /\ wpc' = "signal"
  /\ UNCHANGED <<mode, bThreadState, bFirstPktSeqSet, bWaitForSignal, ptrVars, memVars,
                 sgnVars, readerVars, wBuf, wSize, apc, spc>>

WriterSignal ==
  /\ Running /\ wpc = "signal"
  /\ SignalEvent(sgnCompletion)
  /\ wpc' = "wait"
  /\ UNCHANGED <<mode, bThreadState, bFirstPktSeqSet, bWaitForSignal, ptrVars, memVars,
                 sgnInit, fileVars, readerVars, wBuf, wSize, apc, spc, stopReq, fault>>

-----------------------------------------------------------------------------
(* The stopper: setThreadStop, run by the stop thread of the record tool   *)
(* or by the configuration thread when START is refused.                   *)

StopMark ==
  /\ Running /\ spc = "idle"
  /\ \/ stopReq
     \/ apc = "done" /\ StopWhen = "any"
     \/ apc = "done" /\ StopWhen = "quiet" /\ rpc = "recv"
  /\ bThreadState' = FALSE
  /\ spc' = "check"
  /\ UNCHANGED <<mode, bFirstPktSeqSet, bWaitForSignal, ptrVars, memVars, sgnVars, fileVars,
                 readerVars, writerVars, apc, stopReq, fault>>

\* Where setThreadStop continues: nothing to flush, a handoff to wait for, or
\* the flush at once.
AfterStopCheck_NoAwait == IF ReadPtrSize = 0 THEN "deinit" ELSE "flip"
AfterStopCheck_AlwaysAwait == IF ReadPtrSize = 0 THEN "deinit" ELSE "await"
AfterStopCheck ==
  IF ReadPtrSize = 0 THEN "deinit" ELSE IF bWaitForSignal THEN "await" ELSE "flip"

StopCheck ==
  /\ Running /\ spc = "check"
  /\ spc' = AfterStopCheck
  /\ UNCHANGED <<mode, bThreadState, bFirstPktSeqSet, bWaitForSignal, ptrVars, memVars,
                 sgnVars, fileVars, readerVars, writerVars, apc, stopReq, fault>>

StopAwait ==
  /\ Running /\ spc = "await" /\ WaitForSignal(sgnCompletion)
  /\ spc' = "flip"
  /\ UNCHANGED <<mode, bThreadState, bFirstPktSeqSet, bWaitForSignal, ptrVars, memVars,
                 sgnInit, fileVars, readerVars, writerVars, apc, stopReq, fault>>

StopFlip ==
  /\ Running /\ spc = "flip"
  /\ bBuf1Empty' = ~bBuf1Empty
  /\ spc' = "flush"
  /\ UNCHANGED <<mode, bThreadState, bFirstPktSeqSet, bWaitForSignal, ReadPtrSize,
                 ReadPtrBufIndex, WritePtrSize, memVars, sgnVars, fileVars, readerVars,
                 writerVars, apc, stopReq, fault>>

FlushSize_OfHandoff == WritePtrSize
FlushSize == ReadPtrSize

StopFlush ==
  /\ Running /\ spc = "flush"
  /\ StoreInFile(Inactive, FlushSize)
  /\ spc' = "deinit"
  /\ UNCHANGED <<mode, bThreadState, bFirstPktSeqSet, bWaitForSignal, ptrVars, memVars,
                 sgnVars, readerVars, writerVars, apc>>

\* DeInitEvent destroys a condition variable while a thread may be blocked on it, which
\* POSIX leaves undefined: pthread_cond_destroy returns, or it waits for that thread.
BlockedOnEvent == rpc = "await" \/ wpc = "wait"

StopBlocked ==
  /\ Running /\ spc = "deinit" /\ BlockedOnEvent
  /\ spc' = "destroy"
  /\ UNCHANGED <<mode, bThreadState, bFirstPktSeqSet, bWaitForSignal, ptrVars, memVars,
                 sgnVars, fileVars, readerVars, writerVars, apc, stopReq, fault>>

StopDeInit ==
  /\ Running /\ (spc = "deinit" \/ (spc = "destroy" /\ ~BlockedOnEvent))
  /\ DeInitEvent(sgnCompletion) /\ DeInitEvent(sgnInit)
  /\ spc' = "free"
  /\ UNCHANGED <<mode, bThreadState, bFirstPktSeqSet, bWaitForSignal, ptrVars, memVars,
                 fileVars, readerVars, writerVars, apc, stopReq, fault>>

StopFree ==
  /\ Running /\ spc = "free"
  /\ allocated' = FALSE
  /\ spc' = "close"
  /\ UNCHANGED <<mode, bThreadState, bFirstPktSeqSet, bWaitForSignal, ptrVars, bufs, sgnVars,
                 fileVars, readerVars, writerVars, apc, stopReq, fault>>

StopClose ==
  /\ Running /\ spc = "close"
  /\ fileOpen' = FALSE
  /\ spc' = "done"
  /\ UNCHANGED <<mode, bThreadState, bFirstPktSeqSet, bWaitForSignal, ptrVars, memVars,
                 sgnVars, file, readerVars, writerVars, apc, stopReq, fault>>

\* After a fault the process is gone.
Crashed == ~Running /\ UNCHANGED vars

-----------------------------------------------------------------------------
Starter == StartMark \/ StartReset \/ StartAlloc \/ StartSpawn
Receive(n) == ReceiveFirst(n) \/ ReceiveBeyondLastFrame(n) \/ ReceiveAhead(n)
                \/ ReceiveOld(n) \/ ReceiveTooOld(n)
Reader  == ReaderRoom \/ ReaderAwait \/ ReaderSwap \/ ReaderSignal
             \/ ReaderCopy \/ ReaderCopyFault
Writer  == WriterWait \/ WriterSelect \/ WriterWrite \/ WriterSignal
Stopper == StopCheck \/ StopAwait \/ StopFlip \/ StopFlush
             \/ StopBlocked \/ StopDeInit \/ StopFree \/ StopClose

Next ==
  \/ Starter \/ Reader \/ Writer \/ Stopper
  \/ StopMark
  \/ \E n \in 1..MaxPkt : Receive(n)
  \/ IgnorePacket
  \/ Crashed

(* The threads are scheduled by the operating system: each one that can    *)
(* move eventually does.  Nothing is assumed of the network or the user;   *)
(* once a callback asked for the stop, the stop thread starts.             *)
Fairness ==
  /\ WF_vars(Starter) /\ WF_vars(Reader) /\ WF_vars(Writer) /\ WF_vars(Stopper)
  /\ WF_vars(stopReq /\ StopMark)

Safety == Init /\ [][Next]_vars
Spec == Safety /\ Fairness
-----------------------------------------------------------------------------
(* Properties.                                                             *)

FlagsOK ==
  /\ bThreadState \in BOOLEAN /\ bFirstPktSeqSet \in BOOLEAN
  /\ bBuf1Empty \in BOOLEAN /\ bWaitForSignal \in BOOLEAN
  /\ allocated \in BOOLEAN /\ sgnInit \in BOOLEAN /\ sgnCompletion \in BOOLEAN
  /\ fileOpen \in BOOLEAN /\ old \in BOOLEAN /\ stopReq \in BOOLEAN

DataOK ==
  /\ mode \in {"BYTES", "FRAMES", "DURATION"}
  /\ ReadPtrSize \in 0..BufCap /\ ReadPtrBufIndex \in 0..BufCap
  /\ WritePtrSize \in 0..BufCap
  /\ bufs \in [{1, 2} -> [1..BufCap -> 0..MaxPkt]]
  /\ file \in Seq(0..MaxPkt)
  /\ rpc \in {"recv", "room", "await", "swap", "signal", "copy"}
  /\ pkt \in 0..MaxPkt /\ gap \in 0..MaxPkt
  /\ nextPkt \in Nat /\ firstPkt \in 0..MaxPkt /\ total \in Nat /\ frames \in Nat
  /\ wpc \in {"off", "wait", "select", "write", "signal"}
  /\ wBuf \in {1, 2} /\ wSize \in 0..BufCap
  /\ apc \in {"mark", "reset", "alloc", "spawn", "done"}
  /\ spc \in {"idle", "check", "await", "flip", "flush", "deinit", "destroy", "free", "close",
             "done"}
  /\ fault \in {"none", "buffer", "file"}

\* The types, and that no index or size ever leaves its buffer.
TypeOK == FlagsOK /\ DataOK

\* The handoffs under way: announced by the reader, taken by the writer, or
\* finished and not yet acknowledged.
Announced == IF sgnInit THEN 1 ELSE 0
Taken     == IF wpc \in {"select", "write", "signal"} THEN 1 ELSE 0
Finished  == IF sgnCompletion THEN 1 ELSE 0

\* At most one handoff exists at any time, so a single bSignalled flag per event
\* never swallows a second signal (writeDataToBuffer_Inline, Thread_WriteDataToFile).
\* This holds however the stop and the start overlap with the reader.
OneHandoff == Announced + Taken + Finished <= 1

\* No handoff is under way while the reader switches the buffers or the stopper
\* flushes and releases them (writeDataToBuffer_Inline, setThreadStop).
SettledWhenSwitching ==
  rpc \in {"swap", "signal"} \/ spc \in {"flip", "flush", "deinit", "destroy", "free", "close", "done"} =>
    Announced + Taken + Finished = 0

\* The writer never stores the buffer the reader or the stopper is using: from
\* its choice of a buffer to the end of the fwrite the roles stay as they were.
BufferExclusion ==
  wpc = "write" => wBuf = Inactive /\ wSize = WritePtrSize

\* No thread uses a record buffer or the FILE before it exists or after
\* setThreadStop released it.
NoFault == fault = "none"

\* When setThreadStop has finished, the file holds one slot for every position
\* from the first packet to the last accepted one, or exactly the byte goal.
CompleteFile ==
  spc = "done" =>
    \/ Len(file) = nextPkt - firstPkt
    \/ mode = "BYTES" /\ Len(file) = Goal

\* The reader that waits for the completion event gets it (no lost wakeup).
ReaderProceeds == (rpc = "await") ~> (rpc # "await")

\* Once a stop is requested setThreadStop gets through its wait for the writer and its
\* flush and returns; nothing holds it for ever but a thread blocked on an event it destroys.
StopFlushes == stopReq ~> (spc = "done" \/ (spc = "destroy" /\ BlockedOnEvent))

\* Once setThreadStop has begun the reader takes no further packet: it finishes at most the
\* one it holds, and nothing it or setThreadStart does turns bThreadState on again.
NoPacketAfterStop == [][spc # "idle" /\ rpc = "recv" => UNCHANGED readerVars]_vars

\* "Handle the received packet till stop command is executed" (readData): once
\* setThreadStop has read how much is left to flush, no packet is added to a buffer.
NothingAfterStop == [][spc \notin {"idle", "check"} => bufs' = bufs]_vars

\* The recorded stream: the file, the slots handed to the writer, the slots of
\* the buffer the stopper flushes or the reader fills.
HandedOver ==
  IF sgnInit \/ wpc \in {"select", "write"} \/ rpc = "signal"
    THEN Slots(Inactive, WritePtrSize) ELSE <<>>
Unhanded ==
  CASE spc \in {"idle", "check", "await", "flip"} -> Slots(Active, ReadPtrSize)
    [] spc = "flush" -> Slots(Inactive, ReadPtrSize)
    [] OTHER -> <<>>

Stream == INSTANCE RecordedStream WITH
  Packets <- 1..MaxPkt,
  first <- firstPkt,
  stream <- file \o HandedOver \o Unhanded,
  stored <- Len(file),
  closed <- spc = "done"

\* The threads together implement the promise of RecordedStream.
ImplementsStream == Stream!Spec
=============================================================================
