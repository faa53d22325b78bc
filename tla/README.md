# Verification of the mmWave raw-data recorder

TLA+ models of the recorder in `src/`, checked with TLC and proved with TLAPS. This file
says what the system is, what is modelled, what the runs and proofs show, and what is left.

## 1. The system

The repository captures raw ADC data of a radar sensor through a DCA1000EVM card (an FPGA
that streams the samples as UDP packets). A C++ SDK (`src/DCA1000_SDK`) contains the library
`RF_API`, the tool `CLI_Control` (one command per process) and the tool `CLI_Record` (one
process per recording). Python drivers (`src/radar_recorder.py`, `src/DCA1000`, `src/Sensor`)
either run the tools or talk to the card themselves.

| Component | State | Operations | Hard behaviour |
|---|---|---|---|
| OSAL events (`osal_linux.cpp`) | `bSignalled`, mutex, condition variable | SignalEvent, WaitForSignal (endless or timed), InitEvent, DeInitEvent | the endless wait is sticky, the timed wait ignores `bSignalled`: a signal without a waiter is lost |
| Inline recorder (`recorddatarecv.cpp`, one object per data port) | two buffers, active flag, read index and size, handed-over size, file | setThreadStart, setThreadStop, readData, writeDataToBuffer_Inline, Thread_WriteDataToFile, writeDataToFile_Inline | four threads share the fields without a lock; packets lost, late, reordered |
| Configuration thread (`configdatarecv.cpp`) | `configResp` | readConfigDatagrams | signals the waiting thread, runs callbacks, ends on a malformed datagram |
| Record session (`rf_api.cpp`) | `gbRecStopCmdSent`, three events | StartRecordData, StopRecordData, duration timer, capture timeout | timeouts racing answers, stop from several threads |
| CLI_Record (`cli_record_main.cpp`) | `bStopCmdSent`, `sgnRecStopWaitEvent` | main, cmdRecvCallback, StopRecordProc_Thread | any reporter may spawn the stop thread |
| Shared memory (`osal_linux.cpp`) | record status, asynchronous bits, statistics | Create, Map, Write..., Query, Destroy | written by several threads, read by another process |
| CLI_Control (`cli_control_main.cpp`) | none besides shared memory | start_record, stop_record, query, configuration commands | polls the status with a shorter timeout than the library's |
| Configuration commands (`rf_api.cpp`, `commandsprotocol.cpp`) | socket | send a request, wait for the answer | an answer is accepted whatever its command code |
| Parameter validation (`validate_params.cpp`) | none | range checks | boundaries |
| Python UDP recorder (`udp_cmd.py`) | last sequence number, byte count, file | handlePackets, handleOneFramePackets, handleLastPacket | late packets |
| Hardware trigger (`hardware_trigger.py`, `radar_recorder.py`) | event, counters | trigger thread, frame loop | event cleared after the pulse, thread ends after two idle intervals |
| Python orchestration, sensor configuration, utilities | files, serial ports, subprocesses | sequential | external effects |
| jsoncpp, osal_win.cpp, POST_PROCESSING variant | | | vendored, or not in the Linux build |

What makes each part correct: the recorder must store every slot of the stream exactly once
and in order, put late packets in their place, never mix the buffers, and finish whenever a
stop is asked. The session must flush before it says STOPPED, stop once, end whenever the
user asks, and leave a final status. CLI_Control must read the status of a process that
exists. A configuration command must accept only its own answer.

## 2. Modules

| Module | Models | Role |
|---|---|---|
| `InlineRecorder` | one `cUdpDataReceiver` during one recording: starter, reader, writer, stopper | detailed specification |
| `RecordedStream` | what the file of a recording promises | abstract specification |
| `MCInlineRecorder` | values of the constants | model checking |
| `InlineRecorder_proofs` | theorems about `InlineRecorder` | proofs |
| `InlineRecorder_refinement` | `InlineRecorder` implements `RecordedStream` | proofs |
| `RecordSession` | one `CLI_Record` process with the library's threads and the shared status | detailed specification |
| `RecordSession_proofs` | theorems about `RecordSession` | proofs |
| `CliTools` | `CLI_Control` and the `CLI_Record` processes around the shared memory segments | composition of the tools |
| `CliTools_proofs` | theorems about `CliTools` | proofs |
| `ConfigCommand` | commands to the FPGA over the configuration port | composition of the tools, the port and the FPGA |
| `ConfigCommand_proofs` | theorems about `ConfigCommand` | proofs |
| `RecordStatus` | statistics and status word, from the receiver to the status query | composition of receiver, callbacks and update thread |
| `RecordStatus_proofs` | theorems about `RecordStatus` | proofs |
| `StartParameters` | the settings file, its validation and the values taken from it | operators and steps |
| `DataFile` | buffers to files: reordering, rotation, offset log | extends `StartParameters` |
| `DataFile_proofs` | theorems about `DataFile` and the settings it uses | proofs |
| `UdpRecorder` | the SOCKET mode of the Python driver with the trigger thread | detailed specification |
| `UdpRecorder_proofs` | theorems about `UdpRecorder` | proofs |

The modules cut the system where one of its interfaces is narrow. `InlineRecorder` and
`DataFile` share the buffer: the first has the threads with slots of one size, the second the
bytes with one thread. `RecordSession` is the inside of what `CliTools` calls a recording and
`ConfigCommand` a holder of the port. `RecordStatus` has the two things those three leave
out, the counters and the status word.

### InlineRecorder

Each variable has the name of the field or local it stands for; `rpc`, `wpc`, `apc`, `spc`
are the points the reader, the writer, the starter and the stopper have reached, and each
action is the code between two points at which another thread can change what it reads.
`pkt`, `gap` and `old` are what the reader remembers of the packet it is storing. Payloads
have one size, so buffers and files are counted in slots of one payload: packet n carries
slot n, and a slot holds a packet number or `Zero`. A gap of n packets is n zero slots, as
in the loop of `readData`, each with its own check of the byte goal and of the buffer.
The sockets are an unordered, lossy source: any packet number of `1..MaxPkt` may arrive at
any time, again, late or never. `FRAMES` stands for that mode with the multi-mode log, the
only combination for which the code counts frames.

`fault` records the first use of a NULL buffer or file; nothing happens afterwards.
Nondeterministic outcomes: `malloc` fails, `fopen` fails (`FileErrors`), packets arrive
before START (`StrayPackets`), setThreadStop starts between packets or anywhere
(`StopWhen`), and `pthread_cond_destroy` returns or waits whenever a thread is blocked on
the event (`StopBlocked`; undefined behaviour in POSIX, the current GNU C library waits).

`RecordedStream` states the promise: the recording is one stream that starts with the first
packet; position i holds its packet or Zero; a zero may become its packet while it is not
stored; what is stored never changes and is stored in order. `ImplementsStream` maps the
file, the slots under handoff and the slots of the active buffer to that stream.

### RecordSession

`mpc` is main inside StartRecordData and after it, `cpc` the configuration thread, `call[c]`
the thread c inside cmdRecvCallback, `spc[c]` the stop thread c has spawned. `waiters` are
the threads blocked in the timed wait on `sgnCmdTimeoutWaitEvent`; a signal wakes one of
them or is lost, as `osal::WaitForSignal` ignores `bSignalled` there. `net` are the
datagrams for the configuration port: each is sent at most once and may stay in flight for
ever, which stands for its loss, or arrive late. The FPGA obeys START and STOP, refuses them
or never gets them. setThreadStop is a step that begins and one
that ends (`releasing`, `flushed`); what it does inside is `InlineRecorder`, and that it
ends is assumed here. Threads other
than the configuration thread report at most once (bound). Spurious wakeups of
`pthread_cond_timedwait` are left out.

### CliTools

`cpc` is the step of the one `CLI_Control` process, `cmd` its command; `rpc[r]` is main of
the record process r and `stopper[r]` its stop thread. A segment has a `status` and the card
it was `made` for; `listed` is what the system finds under a key, `hShmem` and `attached`
are the identifier and the pointer each process keeps (`osal_linux.cpp`). A removed segment
lives on while it is attached and is then reclaimed, so that a later segment may get its
number only when nobody remembers it. `Key` is what `ftok` returns for the name the code
gives it, which is the name of no file. Any process may be killed; the system then releases
its segment and its port. `abandoned` records which commands were left half way, because the
strongest promises hold only while none was. The user's commands are unbounded; the record
processes are bounded by `Recs`.

### ConfigCommand

`pc[p]` is the step of a `CLI_Control` process, several of which may run at a time, `rpc[r]`
that of a record process. `owner` says who has bound which port, `inbox` is the queue of the
configuration port (dropped when the socket is closed), `requests` the queue of datagrams on
the way to the FPGA. The FPGA is external: it handles the requests in order, carries each out
or refuses it, and its answer may be lost; it may report a status nobody asked for once a
recording was started. An answer is delayed by delaying its request. A late answer meets
whoever holds the port by then: `done[p]` is what really happened to the command of p,
`result[p]` what p believes. `foreign` is set in the four circumstances in which a datagram
may meet a process it is not meant for: a command or a record process gave up waiting, was
killed while it waited, the FPGA reported to a waiting command, or `stop_record` reached one.
The status segment is one flag here.

### RecordStatus

`stats` are the counters of `readData`, modulo `Width`; `Tell` and `Copy` are
`inlineStatsCallback`, `upc` is `updateRecInlineStatus`, `cpc[t]` the threads inside
`cmdRecvCallback`. The `|=` of `WriteRecAsyncStatus` is a load into `local[t]` and a store;
`inside` are the threads between the two, `overlap` says that there were two of them at some
time. `bReady`, `sgnInlineSts` and the copy of the counters are separate steps, as nothing
locks them. The buffers are left out: whether the place of a late packet is still there is a
choice.

### StartParameters and DataFile

`StartParameters` keeps one operator per validator of `validate_params.cpp` and per reading
of the settings file. A number is a text with a value without bound, so that conversions may
wrap; a real or hexadecimal number has a form of its own. A file is edited before the command
or between the two times it is read. Everything the second reading, `StartRecordData` and the
packets of the commands do with the values follows.

`DataFile` continues with a recording started from such a file. Positions are bytes of the
stream; a file is a sequence of ranges of it, so that a hole, an overlap or a wrong boundary
shows. `out` is the buffer being written and `step` what its writer is doing;
`writeLogToFile_Inline` goes through the log entries of the buffer one by one (`BeginLog`,
`LogEntry`, `WriteLog`). `ReorderedBlock` is the reordering of one block, checked against its
reference by an assumption. Sizes are scaled (a payload is 32 bytes), their relations kept: a buffer holds
three payloads and a rest, a file three and a different rest.

### UdpRecorder

`main` is where `recordDataSocket` is, `pulser` the trigger thread, `event` the
`threading.Event` between them. The sensor owes a frame of packets for a pulse; `net` is
what can still be received, in any order. `last`, `bytes` and `frames` have the meaning of
`last_seq_num`, `data_bytes_cnt` and `data_frames_cnt`.

## 3. Runs

| Run | Shows | Constants |
|---|---|---|
| `recorder_quiet` | handoff, flush, late packets, goals and refinement of `RecordedStream` for a stop between packets | buffers of 2 slots, 7 packets, goal 5, all stop modes |
| `recorder_any_stop` | handoffs never overlap and no packet is taken after a stop, with a stop at any instant, packets before START, failing fopen | buffers of 2 slots, 5 packets, goal 3 |
| `recorder_stop_in_packet` | violation: the packet under way is added behind the flush | buffers of 2 slots, 2 packets, no goal |
| `session_any` | reports at any time by the configuration thread and the capture timeout | two callers |
| `session_single` | one reporter of each of the four kinds, malformed datagrams: one STOP, flushed exit, STOPPED only for an answer to STOP, final status | one reporter per behaviour |
| `session_two_reporters` | violation: StopRecordData runs twice | configuration and data thread |
| `tools` | a recording can be found and stopped, a start is reported for the process it launched, every command ends | one card, two record processes, one poll |
| `tools_two_cards` | violation: the tools of two cards share a segment | two cards, two record processes |
| `card` | a command reports what the FPGA did about it, the launcher lets go of the port, every command ends | two `CLI_Control`, one record process, three commands run, one unasked status |
| `board` | counters and status word are right under every interleaving, an update that was signalled is written (one dropped while `bReady` is FALSE is not covered) | 3 packets and arrivals, counters of 4 values, 2 statuses besides the out-of-sequence bit |
| `storage` | from the settings file to the files: limits, rotation, reordering errors, log | one edit, 7 packets, gaps of 2, buffers of 100 and files of 110 or 220 bytes, payloads of 32 |
| `python` | the file follows the sequence, a recording ends | frames of 2 packets, 2 frames, goals 2 and 3, one failing receive |

Bounds. Buffers of two slots and seven packets give three handoffs and a partial last
buffer, a gap longer than a buffer, a late packet in the active and in a handed-over buffer,
and goals reached in a gap, after it and in order. Four kinds of reporters and two at a time
cover every pair the flags could confuse; a third stop thread does what the second does. Two
record processes allow a predecessor that was killed, hangs or is still stopping next to the
one being started; one poll distinguishes giving up from an answer. Three commands by two
processes allow an answer to outlive its command and meet another. Three packets allow a gap,
a late packet and a duplicate, and with four counter values the counters wrap. Seven payloads
fill two buffers and two files and leave a rest in each. What does not depend on a bound is
proved (section 4).

Fairness. Every thread that can take a step eventually does (weak fairness per thread: the
operating system schedules them, and no step waits on a lock held for ever), a stop thread
that was spawned starts, timed waits run out, and the user's stop of `RecordSession`, sent
from the same host, arrives. `CliTools`, `ConfigCommand` and `UdpRecorder` assume it only of
the steps of the processes themselves, `RecordStatus` of threads that are inside a function
and of the update thread. Nothing is assumed of the FPGA, the network, the sensor, the
trigger thread, the user, or of whoever kills a process.

Deadlock is checked where the system cannot stop. `session_single` may stop without the
process ending (nobody reports anything, or the configuration thread is gone) and
`recorder_any_stop` as well (a signal taken by the wrong thread). `card` stops when the user
has run `MaxRuns` commands, `storage` when a file was refused, a command sent
or a recording is over, `python` when the recording is over.

What the properties leave out is in their text. `LogIsExact` says nothing of a gap that ends
exactly where a buffer ends: the code hands it to the next buffer, whose valid first packet
forgets it. `AskedIsUsed` exempts hexadecimal octets of a MAC address, which `atoi` does not
read, and durations beyond 32 bits, which wrap. `RecordingEnds` exempts a byte goal with a
hardware trigger: without data such a recording goes on triggering frames. `AnswerIsOwn` is
about commands that met none of the four circumstances `foreign` records. `StopFlushes` says
that setThreadStop returns or is held by `pthread_cond_destroy`, which it is for good once
the idle writer waits for its next buffer; `UserStopEndsProcess` is about platforms where
it returns. `CliTools` has one `CLI_Control` at a time, so
`VisibleWhileRecording` and `StartIsReal` say nothing of two that start a recording at once.

### What the violations say

* `session_two_reporters`: both test-and-set flags are unsynchronised (rf_api.cpp:1843).
* `tools_two_cards`: the key of the segment is `ftok` of a name that is no file, which is -1
  whatever the port (osal_linux.cpp:132; globals.h:69 says the name is per port).
* `recorder_stop_in_packet`: "Handle the received packet till stop command is executed"
  (recorddatarecv.cpp:550), but `bThreadState` is tested once per datagram: the reader goes on
  inside a packet while setThreadStop flushes and frees, so what it adds is lost or goes
  through freed pointers. What does hold for every stop is `NoPacketAfterStop`: no further
  packet is taken.

Three more places where the code does not do what a text says are in the models, each named
in the property or action concerned, without a run that singles it out:

* STOPPED does not mean stopped. rf_api.h:300 calls it "Record is stopped", but
  StopRecordData publishes it for any answer to STOP (rf_api.cpp:1888-1900) and its caller
  looks for the write error alone (cli_record_main.cpp:179), so a refused STOP ends the
  process with STOPPED while the FPGA goes on. `StoppedIsAnswered` has that case as its second
  disjunct.
* setThreadStop is "to set data thread progress as recording stoppped and close the record
  file" (recorddatarecv.cpp:175-176), but where `pthread_cond_destroy` waits for blocked
  threads it neither closes the file nor returns. `StopFlushes` has that
  case as its second disjunct.
* `-d` of radar_recorder.py (README.md:43) is refused in CLI mode: `record()` writes a float
  (radar_recorder.py:141) and `validateDurationRecStopConfig` wants digits
  (validate_params.cpp:386). `WriteOption` writes that float and `ControlRefuses` refuses it.

Behaviour found while modelling that contradicts no text of the repository is in the models
as constants or in the conditions of the properties:

* `EarlyReasons`: main writes IN_PROG over a final status when a reason to stop comes before
  the answer to START was handled (cli_record_main.cpp:1204).
* `InvalidPackets`: the `break` at configdatarecv.cpp:406 leaves the loop, so the user's stop
  is not read after a malformed datagram.
* The status a command of a recording returns is that of the last datagram
  (rf_api.cpp:1749): a refused START whose answer is overwritten counts as started.

## 4. Proofs

`InlineRecorder_proofs` proves, for every buffer size, number of packets, goal and set of
frame starts: `TypeOK`, `OneHandoff` and `NoPacketAfterStop` for every schedule, and under the
assumption `Orderly` (stops between packets, no packets before START, no file errors)
`SettledWhenSwitching`, `BufferExclusion`, `NoFault` and `CompleteFile`. `Orderly` is not a convenience: section 3 lists what happens without it.

The argument. `TypeOK` needs only that the fill level and the write position stay within the
buffer and that an old packet finds both unchanged. `OneHandoff` is a token argument: one
handoff moves from the announcement to the writer to the completion, and a new one is made
only when `bWaitForSignal` was false or a completion was consumed. `NoPacketAfterStop`
follows the recording flag: setThreadStart raises it before there is a reader, everything
else only lowers it, and setThreadStop has it lowered first (`FlagInv`). The others rest on an
invariant that ties the program counters together (a recorder that was stopped has an idle
reader, a writer that is not waiting owns the inactive buffer, buffers exist from the
allocation until setThreadStop frees them), and `CompleteFile` on a count: slots in the
file, slots under handoff and slots in the active buffer add up to the positions of the
stream accepted so far, minus the part of a gap not yet written.

`InlineRecorder_refinement` proves `ImplementsStream` under the same assumption: every step
of the four threads is a step of `RecordedStream` or leaves the stream as it is. The stream
is the file, the slots under handoff and the slots of the active buffer, one after the other,
so a handoff and a flush only move slots from one part to the next (`SlotsMoveInside`), a slot
is added at the end of the last part and a late packet is put into the last part. For the
last of these `OriginInv` says that the reader's distance from the next packet is the
distance from the end of the buffer, which is what makes the index of `readData` the place of
the packet in the stream.

`RecordSession_proofs` proves `TypeOK`, `StoppedIsFlushed` and `ExitWasAsked` for every set
of reporting threads, every order of reports and every datagram, lost, late or malformed;
and, when one thread reports and main already waits (`SingleReason`), `ExitIsFlushed`,
`StoppedIsAnswered`, `FinalStatus` and `OneStop`. A second reporter and an early reason are the
two ways to leave `SingleReason`, so the theorems say that a double stop, an exit before the
flush, a status that is not final and a STOPPED without an answer to STOP come from these
races alone. An FPGA that goes on recording behind STOPPED has another source, a refused STOP.

The argument. For the first group it is enough that a thread spawns one stop thread at most
(`SpawnInv`), that a stop thread past setThreadStop finds the recording flushed (`FlushInv`)
and that whatever can set `sgnRecStop` was preceded by `bStopCmdSent` (`AskedInv`);
`CountInv` counts the stop threads that have sent STOP. For the second group `ReasonInv`
derives that there is one stop thread, `AnswerInv` follows the answer to START (by the time
main waits for the stop it has been handled, so only the answer to STOP can wake the stop
thread; a refusal mistaken for success leaves no configuration thread to answer), and
`StopInv` says what the stop thread has done by each of its steps.

`CliTools_proofs` proves `TypeOK` and `StopClearsStatus` for any number of cards, processes
and polls. `BaseInv` says which command and which step go together and that what `CLI_Control`
remembers since its first query is still what is found (`LookupInv`): only `start_record`
makes a segment, and there is one `CLI_Control`. A segment is free whenever one is made
because every process remembers one at most and a removed one nobody remembers is reclaimed.

`VisibleWhileRecording`, `StartIsReal` and `FailedAttachNeedsTimeout` are proved under the
assumption `OneCard`, for any number of processes. Without it they are false: the key is the
same for all cards, and TLC shows with two cards how the recording of one takes the segment
of the other (`tools_two_cards`). The argument is about two things that exclude a second
process, the data port of the card (`PortInv`) and the wait of `start_record` for the process
it launched (`StartInv`): until a `start_record` is abandoned, a process on its way to record
is the one that is waited for, and the segment it is about to attach is the one that
`start_record` has prepared. `RunInv` carries this on to the recording.

`ConfigCommand_proofs` proves `AnswerIsOwn` and `LauncherLetsGo` for every set of processes,
every set of commands and any number of runs. The protocol has no numbers, so the proof has
to show that the exclusive port does their work. `PortInv` says which steps hold which port.
The rest holds until `foreign`: every request on the way was sent by the process that holds
the configuration port and waits (`RequestInv`), a command that waits has its request on the
way or its answer at the port or has lost both, never two of them (`ToolInv`), and behind the
answer to STOP nothing else follows in the queue of a record process (`RecordInv`). So a
socket is closed only when nothing can come for the next one to bind it.

`RecordStatus_proofs` proves `TypeOK`, `ReportedIsKept` and `StopIsExplained` for every set of
statuses, and `ReceivedAndFilled` and `ZeroFilledIsExact` for every width of the counters and
number of packets. For the word: until two threads were inside `|=`, the copy of the one that
is equals the word (`StatusInv`). For the counters, `CountInv` carries the sum and the number
of missing packets modulo `Width`; it rests on lemmas about the remainder of a sum, proved
from the uniqueness of division, and on the cardinality of a range from which one packet is
taken.

`DataFile_proofs` proves `TypeOK`, `FilesAreStream`, `AskedIsUsed` and `LogIsExact` for every payload,
buffer and file size, every goal, every loss and every error the model has. `ParamsInv` says
that what a command or a recording was given is what the validated file says; that a
conversion to 32 bits is harmless then follows from the validated ranges, one lemma per
reading (`SentIsAsked`, `RecordingValues`). `DataInv` has one part per field: the slots in
hand follow the buffer in use (`SlotInv`), the buffer in use follows the one being written
(`OutInv`), the goal is not passed (`GoalInv`), and as long as the file is open the disk
holds the stream up to what is left to write (`TailInv`). The delicate points are these. The
file is cut only between payloads, and the cut leaves room for one in a new file because a
file holds at least one payload (`ChunkFits`). A buffer is switched only when it is not empty,
because a payload fits into an empty one. A buffer dropped by the reordering leaves a hole
only at the very end, since payloads are made of whole blocks (`PayloadsAreBlocks`), so that
only the rest of a stream that ends in a short packet is dropped, and never at the byte goal,
which the validation wants to be a multiple of a block. Once a file cannot be opened the disk
does not change any more: the next write ends the process.

`LogIsExact` needs a second invariant on top, `LogsInv`. Every log entry of a buffer is
marked valid exactly when its packet is not lost (`PendingMarksInv`, `BufMarksInv`,
`OutMarksInv`, through gaps, late packets and switches), and `Past` is the packet the log has
come to. `CarryInv` is what `u64ZeroFilledStartHandoverOffset` and the two locals stand for:
the packets from the one they name up to `Past` are lost and the one before is not, so that
the next valid packet ends a maximal run, or `Past` is the start of a buffer and the run is
the one the code forgets. The log then has only runs that end before `Past` (`OnlyRunsInv`),
which no late packet can fill any more, and all of those that are due (`AllRunsInv`).

`UdpRecorder_proofs` proves `FileFollowsSequence` for every frame size and goal: the file is
never shorter than `last_seq_num` (`FileInv`), so an appended packet is never before its
place, and equal to it while no packet was late.

Only model-checked: liveness (`ReaderProceeds`, `StopFlushes`, `UserStopEndsProcess`,
`CommandsEnd`, `CommandEnds`, `ReportIsShown`, `RecordingEnds`), which is outside what the
prover handles. Every safety property, action property and refinement of a passing run is a
theorem, under no more than the assumptions named above, which the constants of the run meet.

## 5. Not modelled, and the plan

Next, in this order:

1. `RecordSession` inside `CliTools`: the status word of the session in place of the three
   points at which `CliTools` writes it.
2. Theorems that say, for each state in which a thread waits, which other thread can still
   wake it: the safety part of `ReaderProceeds`, `StopFlushes` and `UserStopEndsProcess`.
3. The queue of the data socket next to the session: `select(0, ...)` examines no descriptor
   (configdatarecv.cpp:306), so the wait for an empty socket before completion never waits,
   and the packets in the queue are ignored. No module has that queue.

Partly modelled: the four data types of the multi-mode are frame counts in `InlineRecorder`
(their headers are bytes of the payload); the byte layout of command packets is left out, as
they are built and read by field; of the OSAL, buffer sizes and address conversion.

Left out for good: the Windows layer (its events have other semantics, and the makefile
builds `osal_linux.cpp`), the post-processing variant (not compiled), jsoncpp (vendored), the
generation of sensor configurations (text and floating-point numbers), the serial commands of
the sensor and the subprocesses of the CLI mode (external effects, called in sequence),
utilities, logging and console output.
