----------------------------- MODULE RecordStatus -----------------------------
(***************************************************************************)
(* What a recording reports about itself.  The receiver of a data port     *)
(* counts its packets (readData, recorddatarecv.cpp) and hands a copy of   *)
(* the counters to inlineStatsCallback; updateRecInlineStatus, a thread of *)
(* CLI_Record, writes them to shared memory; other threads set bits of the *)
(* asynchronous status there through cmdRecvCallback (cli_record_main.cpp, *)
(* osal_linux.cpp); the query of CLI_Control displays both.                *)
(*                                                                         *)
(* The threads share the counters, bReady and the status word without a    *)
(* lock.  One data port is in use, as in RAW_MODE.  Of the counters handed  *)
(* over, the out of sequence count stands for all: they travel together.   *)
(***************************************************************************)
EXTENDS Integers, FiniteSets

CONSTANTS
  MaxPkt,        \* packets are numbered 1..MaxPkt
  MaxArrivals,   \* bound on the packets that arrive, repeated ones included
  Width,         \* the counters are unsigned: 2^64, scaled
  Statuses       \* the asynchronous statuses that may be reported, each at most once

ASSUME StatusAssumption ==
  /\ MaxPkt \in Nat \ {0} /\ MaxArrivals \in Nat /\ Width \in Nat \ {0}
  /\ Statuses \subseteq {"NO_LVDS_DATA", "NO_HEADER", "EEPROM_FAILURE", "SD_CARD_DETECTED",
       "SD_CARD_REMOVED", "SD_CARD_FULL", "MODE_CONFIG_FAILURE", "DDR_FULL", "REC_COMPLETED",
       "LVDS_BUFFER_FULL", "REC_PROC_TIMEOUT", "REC_FILE_CREATION_ERR", "REC_REORDERING_ERR",
       "INVALID_RESP_PKT_ERR", "REC_INLINE_BUF_ALLOCATION_ERR"}

VARIABLES
  bThreadState,             \* the receiver records
  first, next, prev,        \* first packet, u32NextPktNum, u32PrevPktNum
  stats,                    \* sRFDCCard_InlineStats: received, zero filled, out of sequence
  dpc, report,              \* receiver: step, arguments of inlineStatsCallback
  gInlineStats, gbOutOfSeqSetFlag, bReady, sgnInlineSts,
  bRecProgress,
  upc, uflag,               \* update thread: step, its copy of the flag
  cpc, told,                \* threads in cmdRecvCallback: step, status
  async, shown,             \* shared memory: asynchronous status, counters
  local, inside,            \* each thread's copy of async; the threads inside |=
  cause,                    \* what first asked to stop
  stored, twice, arrivals,  \* packets stored; one of them came twice; packets received
  reported, overlap         \* statuses fully reported; two threads were inside |=

streamVars == <<bThreadState, first, next, prev, stats, dpc, report, stored, twice, arrivals>>
handoverVars == <<gInlineStats, gbOutOfSeqSetFlag, bReady, sgnInlineSts>>
updateVars == <<upc, uflag, shown>>
wordVars == <<async, local, inside, overlap>>
callVars == <<cpc, told, reported>>
vars == <<streamVars, handoverVars, bRecProgress, updateVars, wordVars, callVars, cause>>

Reporters == {"config", "writer", "capture"}
Writers == Reporters \cup {"update"}
Bits == Statuses \cup {"REC_PKT_OUT_OF_SEQ"}
Count == 0..(Width - 1)
Counters == [received : Count, zeroFilled : Count, outOfSeq : Count]
Zeros == [received |-> 0, zeroFilled |-> 0, outOfSeq |-> 0]

\* Which thread comes upon a status, and which statuses stop the recording.
Reporter(st) ==
  CASE st = "REC_PROC_TIMEOUT" -> "capture"
    [] st \in {"REC_FILE_CREATION_ERR", "REC_REORDERING_ERR"} -> "writer"
    [] OTHER -> "config"
Stops(st) == st \in {"NO_LVDS_DATA", "NO_HEADER", "REC_COMPLETED", "REC_FILE_CREATION_ERR",
                     "REC_REORDERING_ERR", "REC_PROC_TIMEOUT"}
HasBit(st) == st # "REC_COMPLETED"

\* ReadShmForQueryStatusCmd: the bits the status query displays.
Displayed == async \ {"SD_CARD_FULL", "INVALID_RESP_PKT_ERR"}

Init ==
  /\ bThreadState = TRUE /\ first = 0 /\ next = 0 /\ prev = 0
  /\ stats = Zeros /\ dpc = "recv" /\ report = [count |-> 0, flag |-> FALSE]
  /\ gInlineStats = 0 /\ gbOutOfSeqSetFlag = TRUE /\ bReady = TRUE /\ sgnInlineSts = FALSE
  /\ bRecProgress = TRUE
  /\ upc = "wait" /\ uflag = FALSE /\ shown = 0
  /\ cpc = [t \in Reporters |-> "none"] /\ told = [t \in Reporters |-> "none"]
  /\ async = {} /\ local = [t \in Writers |-> {}] /\ inside = {} /\ overlap = FALSE
  /\ cause = "none" /\ stored = {} /\ twice = FALSE /\ arrivals = 0 /\ reported = {}

-----------------------------------------------------------------------------
(* readData.                                                               *)

\* The counters wrap: u64NumOfZeroFilledPackets-- at zero leaves the largest value.
Plus_NoWrap(a, b) == a + b
Plus(a, b) == (a + b) % Width

Counted(r, z, o) ==
  stats' = [received   |-> Plus(stats.received, r),
            zeroFilled |-> Plus(stats.zeroFilled, z),
            outOfSeq   |-> Plus(stats.outOfSeq, o)]
Late(n) == IF prev + 1 = n \/ first = 0 THEN 0 ELSE 1

\* UpdateInlineStatus(flag, u8DataTypeId): the callback gets a copy of the counters.
Announce(flag) == report' = [count |-> stats'.outOfSeq, flag |-> flag] /\ dpc' = "report"

Packet(n) ==
  /\ dpc = "recv" /\ bThreadState
  /\ arrivals < MaxArrivals /\ arrivals' = arrivals + 1
  /\ first' = IF first = 0 THEN n ELSE first
  /\ prev' = n
  /\ UNCHANGED <<handoverVars, bRecProgress, updateVars, wordVars, callVars, cause>>
Store(n) == stored' = stored \cup {n} /\ twice' = (twice \/ n \in stored)

\* The packet that is due; it may complete the bytes to capture.
ReceiveNext(n) ==
  /\ Packet(n) /\ (first = 0 \/ n = next)
  /\ Counted(1, 0, Late(n))
  /\ Store(n)
  /\ \/ next' = n + 1 /\ Announce(FALSE) /\ UNCHANGED bThreadState
     \/ UNCHANGED next /\ Announce(TRUE) /\ bThreadState' = FALSE

ReceiveLate_Uncounted(n) ==
  /\ Packet(n) /\ first # 0 /\ n < next
  /\ \/ n >= first /\ Counted(1, 0, Late(n)) /\ Store(n)
     \/ Counted(0, 0, Late(n)) /\ UNCHANGED <<stored, twice>>
  /\ Announce(TRUE)
  /\ UNCHANGED <<next, bThreadState>>

\* A packet that was passed over: its place is still in the buffer, or not any more.
ReceiveLate(n) ==
  /\ Packet(n) /\ first # 0 /\ n < next
  /\ \/ n >= first /\ Counted(1, -1, Late(n)) /\ Store(n)
     \/ Counted(0, 0, Late(n)) /\ UNCHANGED <<stored, twice>>
  /\ Announce(TRUE)
  /\ UNCHANGED <<next, bThreadState>>

\* A packet after a gap that is filled with zeros.
ReceiveAhead(n) ==
  /\ Packet(n) /\ first # 0 /\ n > next
  /\ Counted(1, n - next, Late(n))
  /\ Announce(TRUE)
  /\ \/ next' = n + 1 /\ Store(n) /\ UNCHANGED bThreadState
     \/ UNCHANGED <<next, stored, twice>> /\ bThreadState' = FALSE

\* inlineStatsCallback: a report that finds the update thread busy is dropped.
Tell ==
  /\ dpc = "report"
  /\ dpc' = IF bReady THEN "copy" ELSE IF bThreadState THEN "recv" ELSE "completed"
  /\ UNCHANGED <<bThreadState, first, next, prev, stats, report, stored, twice, arrivals, handoverVars,
                 bRecProgress, updateVars, wordVars, callVars, cause>>

Copy ==
  /\ dpc = "copy"
  /\ gInlineStats' = report.count /\ gbOutOfSeqSetFlag' = report.flag
  /\ sgnInlineSts' = TRUE
  /\ dpc' = IF bThreadState THEN "recv" ELSE "completed"
  /\ UNCHANGED <<bThreadState, first, next, prev, stats, report, stored, twice, arrivals, bReady,
                 bRecProgress, updateVars, wordVars, callVars, cause>>

AskStop(st) == cause' = IF cause = "none" THEN st ELSE cause

Complete ==
  /\ dpc = "completed"
  /\ dpc' = "done"
  /\ AskStop("REC_COMPLETED")
  /\ UNCHANGED <<bThreadState, first, next, prev, stats, report, stored, twice, arrivals, handoverVars,
                 bRecProgress, updateVars, wordVars, callVars>>

-----------------------------------------------------------------------------
(* WriteRecAsyncStatus: u32AsyncStatus |= bit reads the word, then writes. *)

LoadWord(t) ==
  /\ local' = [local EXCEPT ![t] = async]
  /\ inside' = inside \cup {t} /\ overlap' = (overlap \/ inside # {})
  /\ UNCHANGED async
StoreWord(t, bit) ==
  /\ async' = local[t] \cup {bit}
  /\ local' = [local EXCEPT ![t] = {}] /\ inside' = inside \ {t}
  /\ UNCHANGED overlap

(* updateRecInlineStatus and WriteRecProcInlineStats.                      *)

UpdateWake ==
  /\ upc = "wait" /\ sgnInlineSts
  /\ sgnInlineSts' = FALSE /\ bReady' = FALSE
  /\ uflag' = gbOutOfSeqSetFlag
  /\ upc' = IF ~bRecProgress THEN "ready" ELSE IF gbOutOfSeqSetFlag THEN "load" ELSE "write"
  /\ UNCHANGED <<streamVars, gInlineStats, gbOutOfSeqSetFlag, bRecProgress, shown, wordVars,
                 callVars, cause>>

UpdateLoad ==
  /\ upc = "load" /\ upc' = "store"
  /\ LoadWord("update")
  /\ UNCHANGED <<streamVars, handoverVars, bRecProgress, uflag, shown, callVars, cause>>

UpdateStore ==
  /\ upc = "store" /\ upc' = "write"
  /\ StoreWord("update", "REC_PKT_OUT_OF_SEQ")
  /\ UNCHANGED <<streamVars, handoverVars, bRecProgress, uflag, shown, callVars, cause>>

\* The counters are read through a pointer, so they may be newer than the flag.
UpdateWrite ==
  /\ upc = "write" /\ upc' = "ready"
  /\ shown' = gInlineStats
  /\ UNCHANGED <<streamVars, handoverVars, bRecProgress, uflag, wordVars, callVars, cause>>

UpdateReady_ClearsSignal ==
  /\ upc = "ready" /\ upc' = IF bRecProgress THEN "wait" ELSE "ended"
  /\ bReady' = TRUE /\ sgnInlineSts' = FALSE
  /\ UNCHANGED <<streamVars, gInlineStats, gbOutOfSeqSetFlag, bRecProgress, uflag, shown,
                 wordVars, callVars, cause>>

UpdateReady ==
  /\ upc = "ready" /\ upc' = IF bRecProgress THEN "wait" ELSE "ended"
  /\ bReady' = TRUE
  /\ UNCHANGED <<streamVars, gInlineStats, gbOutOfSeqSetFlag, sgnInlineSts, bRecProgress, uflag,
                 shown, wordVars, callVars, cause>>

-----------------------------------------------------------------------------
(* cmdRecvCallback.                                                        *)

Notify_StopFirst(t, st) ==
  /\ cpc[t] = "none" /\ Reporter(st) = t /\ st \notin reported
  /\ told' = [told EXCEPT ![t] = st]
  /\ cpc' = [cpc EXCEPT ![t] = IF HasBit(st) THEN "load" ELSE "act"]
  /\ IF Stops(st) THEN AskStop(st) ELSE UNCHANGED cause
  /\ UNCHANGED <<reported, streamVars, handoverVars, bRecProgress, updateVars, wordVars>>

Notify(t, st) ==
  /\ cpc[t] = "none" /\ Reporter(st) = t /\ st \notin reported
  /\ told' = [told EXCEPT ![t] = st]
  /\ cpc' = [cpc EXCEPT ![t] = IF HasBit(st) THEN "load" ELSE "act"]
  /\ UNCHANGED <<reported, streamVars, handoverVars, bRecProgress, updateVars, wordVars, cause>>

NotifyLoad(t) ==
  /\ cpc[t] = "load" /\ cpc' = [cpc EXCEPT ![t] = "store"]
  /\ LoadWord(t)
  /\ UNCHANGED <<told, reported, streamVars, handoverVars, bRecProgress, updateVars, cause>>

NotifyStore_Overwrites(t) ==
  /\ cpc[t] = "store" /\ cpc' = [cpc EXCEPT ![t] = "act"]
  /\ async' = {told[t]} /\ local' = [local EXCEPT ![t] = {}]
  /\ inside' = inside \ {t} /\ UNCHANGED overlap
  /\ UNCHANGED <<told, reported, streamVars, handoverVars, bRecProgress, updateVars, cause>>

NotifyStore(t) ==
  /\ cpc[t] = "store" /\ cpc' = [cpc EXCEPT ![t] = "act"]
  /\ StoreWord(t, told[t])
  /\ UNCHANGED <<told, reported, streamVars, handoverVars, bRecProgress, updateVars, cause>>

NotifyAct(t) ==
  /\ cpc[t] = "act" /\ cpc' = [cpc EXCEPT ![t] = "none"]
  /\ reported' = reported \cup {told[t]}
  /\ IF Stops(told[t]) THEN AskStop(told[t]) ELSE UNCHANGED cause
  /\ told' = [told EXCEPT ![t] = "none"]
  /\ UNCHANGED <<streamVars, handoverVars, bRecProgress, updateVars, wordVars>>

\* Main is woken by the stop: "Reset record status".
MainEnds ==
  /\ bRecProgress /\ cause # "none"
  /\ bRecProgress' = FALSE /\ sgnInlineSts' = TRUE
  /\ UNCHANGED <<streamVars, gInlineStats, gbOutOfSeqSetFlag, bReady, updateVars, wordVars,
                 callVars, cause>>

Ended == upc = "ended" /\ UNCHANGED vars

-----------------------------------------------------------------------------
Receive == \E n \in 1..MaxPkt : ReceiveNext(n) \/ ReceiveLate(n) \/ ReceiveAhead(n)
Receiver == Tell \/ Copy \/ Complete
Updater == UpdateWake \/ UpdateLoad \/ UpdateStore \/ UpdateWrite \/ UpdateReady
Callback(t) == NotifyLoad(t) \/ NotifyStore(t) \/ NotifyAct(t)

Next ==
  \/ Receive \/ Receiver \/ Updater \/ MainEnds \/ Ended
  \/ \E t \in Reporters : Callback(t) \/ \E st \in Statuses : Notify(t, st)

(* The threads inside a function leave it, and the update thread runs.     *)
Fairness == WF_vars(Receiver) /\ WF_vars(Updater) /\ \A t \in Reporters : WF_vars(Callback(t))

Spec == Init /\ [][Next]_vars /\ Fairness
-----------------------------------------------------------------------------
(* Properties.                                                             *)

TypeOK ==
  /\ bThreadState \in BOOLEAN
  /\ first \in 0..MaxPkt /\ next \in 0..(MaxPkt + 1) /\ prev \in 0..MaxPkt
  /\ stats \in Counters /\ dpc \in {"recv", "report", "copy", "completed", "done"}
  /\ report \in [count : Count, flag : BOOLEAN]
  /\ gInlineStats \in Count /\ gbOutOfSeqSetFlag \in BOOLEAN
  /\ bReady \in BOOLEAN /\ sgnInlineSts \in BOOLEAN /\ bRecProgress \in BOOLEAN
  /\ upc \in {"wait", "load", "store", "write", "ready", "ended"} /\ uflag \in BOOLEAN
  /\ shown \in Count
  /\ cpc \in [Reporters -> {"none", "load", "store", "act"}]
  /\ told \in [Reporters -> Statuses \cup {"none"}]
  /\ async \subseteq Bits
  /\ local \in [Writers -> SUBSET Bits] /\ inside \subseteq Writers
  /\ cause \in Statuses \cup {"none", "REC_COMPLETED"}
  /\ stored \subseteq 1..MaxPkt /\ twice \in BOOLEAN /\ arrivals \in 0..MaxArrivals
  /\ reported \subseteq Statuses /\ overlap \in BOOLEAN

\* While the recording runs, the packets received and the packets filled with zeros are
\* together the packets passed, in whatever order, however late and however often they
\* come; a duplicate makes one of the counters wrap, never the sum.
ReceivedAndFilled ==
  bThreadState /\ first # 0 => Plus(stats.received, stats.zeroFilled) = (next - first) % Width

\* Unless a packet comes twice, the number of zero-filled packets displayed is the number of
\* packets that were passed over and have not been stored since: it never wraps below zero.
ZeroFilledIsExact ==
  bThreadState /\ first # 0 /\ ~twice =>
    stats.zeroFilled = Cardinality((first..(next - 1)) \ stored) % Width

\* A status that was reported stays in shared memory; the unlocked |= loses one only when
\* two threads were inside it at once.
ReportedIsKept == ~overlap => \A st \in reported : HasBit(st) => st \in async

\* A recording that ends for another reason than completion can be explained: whoever
\* queries the status once the stop has been asked for is shown the reason.
StopIsExplained == cause \notin {"none", "REC_COMPLETED"} /\ ~overlap => cause \in Displayed

\* A report that was handed over while the recording runs is displayed in the end, or a
\* later one is: the update thread never stops listening because of a lost signal.
ReportIsShown ==
  (sgnInlineSts /\ bRecProgress) ~> (shown = gInlineStats \/ ~bRecProgress)
=============================================================================
