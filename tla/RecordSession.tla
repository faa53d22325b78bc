---------------------------- MODULE RecordSession ----------------------------
(***************************************************************************)
(* One run of the CLI_Record process: its main function and StartRecordData*)
(* (cli_record_main.cpp, rf_api.cpp), the configuration thread that reads  *)
(* the answers of the FPGA (configdatarecv.cpp), the threads that report a *)
(* reason to stop through cmdRecvCallback, the stop threads these spawn,   *)
(* and the record status in shared memory that CLI_Control reads.          *)
(*                                                                         *)
(* The recording itself is InlineRecorder; here setThreadStop is a step    *)
(* that begins and a step that ends.  Main, the stop threads and the       *)
(* configuration thread meet in one event, sgnCmdTimeoutWaitEvent, whose   *)
(* timed wait ignores bSignalled: a signal without a waiter is lost.       *)
(***************************************************************************)
EXTENDS Naturals, FiniteSets

CONSTANTS
  Callers,         \* threads that may report a reason to stop
  EarlyReasons,    \* TRUE: reasons may be reported before main waits for the stop
  OneReporter,     \* TRUE: all reasons are reported by one thread
  InvalidPackets   \* TRUE: a malformed datagram may reach the config port

ASSUME SessionAssumption ==
  /\ Callers \subseteq {"config", "data", "timer", "capture"}
  /\ "config" \in Callers
  /\ EarlyReasons \in BOOLEAN
  /\ OneReporter \in BOOLEAN
  /\ InvalidPackets \in BOOLEAN

VARIABLES
  mpc, result,          \* main: step, outcome of StartRecordData
  shm,                  \* s32CommandStatus in shared memory
  bStopCmdSent,         \* a stop thread was spawned
  gbRecStopCmdSent,     \* StopRecordData was entered
  sgnRecStop,           \* bSignalled of sgnRecStopWaitEvent
  waiters,              \* threads blocked on sgnCmdTimeoutWaitEvent
  configResp,           \* u16Status of the last datagram: zero or not
  cpc,                  \* configuration thread: step
  net,                  \* the datagrams for the config port
  call,                 \* the reporting threads: step within cmdRecvCallback
  spc,                  \* the stop thread each caller spawned: step
  releasing, flushed,   \* threads inside setThreadStop; one of them has left it
  fpga,                 \* "idle", "on" (recording) or "off" (stopped)
  stopsSent             \* STOP commands sent

mainVars == <<mpc, result>>
flagVars == <<bStopCmdSent, gbRecStopCmdSent, sgnRecStop>>
respVars == <<waiters, configResp>>
recVars  == <<releasing, flushed>>
fpgaVars == <<fpga, stopsSent>>
vars == <<mainVars, shm, flagVars, respVars, cpc, net, call, spc, recVars, fpgaVars>>

Messages ==
  {"startOk", "startRefused", "stopAck", "stopRefused", "userStop", "status", "invalid"}

Alive == mpc # "done"

\* When thread c may come upon a reason to stop: once the threads run, or only while
\* main waits for it; whatever the others do, or only if they have nothing to report.
HasReported(c) ==
  IF c = "config" THEN {net["userStop"], net["status"]} # {"unsent"} ELSE call[c] # "none"
MayReport(c) ==
  /\ mpc \notin {"reset", "open", "send", "done"}
  /\ EarlyReasons \/ mpc = "rest"
  /\ OneReporter => \A d \in Callers \ {c} : ~HasReported(d)

SendMessage(m) == net[m] = "unsent" /\ net' = [net EXCEPT ![m] = "flying"]

\* SignalEvent on sgnCmdTimeoutWaitEvent: wakes one blocked thread, if any.
WakeOneWaiter ==
  \/ waiters = {} /\ UNCHANGED waiters
  \/ \E t \in waiters : waiters' = waiters \ {t}

Init ==
  /\ mpc = "reset" /\ result = "none"
  /\ shm = "STOPPED"
  /\ bStopCmdSent = FALSE /\ gbRecStopCmdSent = FALSE /\ sgnRecStop = FALSE
  /\ waiters = {} /\ configResp = "zero"
  /\ cpc = "off"
  /\ net = [m \in Messages |-> "unsent"]
  /\ call = [c \in Callers |-> "none"] /\ spc = [c \in Callers |-> "none"]
  /\ releasing = {} /\ flushed = FALSE
  /\ fpga = "idle" /\ stopsSent = 0

-----------------------------------------------------------------------------
(* Main and StartRecordData.                                               *)

MainReset ==
  /\ mpc = "reset"
  /\ shm' = "START_INIT"
  /\ bStopCmdSent' = FALSE /\ gbRecStopCmdSent' = FALSE
  /\ \/ mpc' = "open" /\ UNCHANGED result
     \/ mpc' = "result" /\ result' = "invalid"        \* rejected parameters
  /\ UNCHANGED <<sgnRecStop, respVars, cpc, net, call, spc, recVars, fpgaVars>>

MainOpen ==
  /\ mpc = "open"
  /\ cpc' = "recv"
  /\ mpc' = "send"
  /\ UNCHANGED <<result, shm, flagVars, respVars, net, call, spc, recVars, fpgaVars>>

\* The FPGA gets START, answers or not; or the command cannot be sent.
MainSend ==
  /\ mpc = "send"
  /\ \/ /\ SendMessage("startOk") /\ fpga' = "on"
        /\ mpc' = "sent" /\ UNCHANGED <<result, releasing>>
     \/ /\ SendMessage("startRefused") /\ UNCHANGED fpga
        /\ mpc' = "sent" /\ UNCHANGED <<result, releasing>>
     \/ /\ releasing' = releasing \cup {"main"}
        /\ mpc' = "undo" /\ result' = "unsent" /\ UNCHANGED <<net, fpga>>
  /\ UNCHANGED <<shm, flagVars, respVars, cpc, call, spc, flushed, stopsSent>>

\* setThreadStop after the failed send.
MainUndo ==
  /\ mpc = "undo"
  /\ releasing' = releasing \ {"main"} /\ flushed' = TRUE
  /\ mpc' = "result"
  /\ UNCHANGED <<result, shm, flagVars, respVars, cpc, net, call, spc, fpgaVars>>

MainBlock ==
  /\ mpc = "sent"
  /\ waiters' = waiters \cup {"main"}
  /\ mpc' = "wait"
  /\ UNCHANGED <<result, shm, flagVars, configResp, cpc, net, call, spc, recVars, fpgaVars>>

MainTimeout_AsAnswered ==
  /\ mpc = "wait" /\ "main" \in waiters
  /\ waiters' = waiters \ {"main"}
  /\ mpc' = "result" /\ result' = "ok"
  /\ UNCHANGED <<shm, flagVars, configResp, cpc, net, call, spc, recVars, fpgaVars>>

MainTimeout ==
  /\ mpc = "wait" /\ "main" \in waiters
  /\ waiters' = waiters \ {"main"}
  /\ mpc' = "result" /\ result' = "timeout"
  /\ UNCHANGED <<shm, flagVars, configResp, cpc, net, call, spc, recVars, fpgaVars>>

StartResult == IF configResp = "zero" THEN "ok" ELSE "refused"

\* Woken: the status is read from the shared configResp.
MainWoken ==
  /\ mpc = "wait" /\ "main" \notin waiters
  /\ mpc' = "result" /\ result' = StartResult
  /\ UNCHANGED <<shm, flagVars, respVars, cpc, net, call, spc, recVars, fpgaVars>>

MainResult ==
  /\ mpc = "result"
  /\ IF result = "ok" THEN shm' = "IN_PROG" /\ mpc' = "rest"
                      ELSE shm' = "START_FAILED" /\ mpc' = "exit"
  /\ UNCHANGED <<result, flagVars, respVars, cpc, net, call, spc, recVars, fpgaVars>>

MainStopped ==
  /\ mpc = "rest" /\ sgnRecStop
  /\ sgnRecStop' = FALSE
  /\ mpc' = "exit"
  /\ UNCHANGED <<result, shm, bStopCmdSent, gbRecStopCmdSent, respVars, cpc, net, call,
                 spc, recVars, fpgaVars>>

\* main returns: every other thread of the process ends where it is.
MainExit ==
  /\ mpc = "exit"
  /\ mpc' = "done"
  /\ UNCHANGED <<result, shm, flagVars, respVars, cpc, net, call, spc, recVars, fpgaVars>>

-----------------------------------------------------------------------------
(* The configuration port.                                                 *)

UserMayStop == shm \notin {"STOPPED", "START_FAILED", "STOP_FAILED"}

\* CLI_Control sends the asynchronous stop while the status looks running.
UserStop ==
  /\ MayReport("config") /\ UserMayStop
  /\ SendMessage("userStop")
  /\ UNCHANGED <<mainVars, shm, flagVars, respVars, cpc, call, spc, recVars, fpgaVars>>

\* The FPGA reports an exceptional condition or the end of the recording.
FpgaStatus ==
  /\ MayReport("config") /\ fpga = "on"
  /\ SendMessage("status")
  /\ UNCHANGED <<mainVars, shm, flagVars, respVars, cpc, call, spc, recVars, fpgaVars>>

StrayDatagram ==
  /\ Alive /\ InvalidPackets /\ cpc # "off"
  /\ SendMessage("invalid")
  /\ UNCHANGED <<mainVars, shm, flagVars, respVars, cpc, call, spc, recVars, fpgaVars>>

\* What u16Status holds in a datagram; in a malformed one it can be anything.
Statuses(m) ==
  CASE m \in {"startRefused", "stopRefused", "status"} -> {"nonzero"}
    [] m = "invalid" -> {"zero", "nonzero"}
    [] OTHER -> {"zero"}

\* One iteration of readConfigDatagrams up to the callback or setThreadStop.
Receive(m) ==
  /\ Alive /\ cpc = "recv" /\ call["config"] = "none"
  /\ net[m] = "flying" /\ net' = [net EXCEPT ![m] = "handled"]
  /\ configResp' \in Statuses(m)
  /\ UNCHANGED <<mainVars, shm, flagVars, spc, flushed, fpgaVars>>

\* The answer to STOP signals the event whatever its status is.
ReceiveAck ==
  /\ \E m \in {"startOk", "stopAck", "stopRefused"} : Receive(m)
  /\ WakeOneWaiter
  /\ UNCHANGED <<cpc, call, releasing>>

ReceiveRefusal ==
  /\ Receive("startRefused")
  /\ WakeOneWaiter
  /\ releasing' = releasing \cup {"receiver"}
  /\ cpc' = "release"
  /\ UNCHANGED call

ReceiveReason(m) ==
  /\ Receive(m)
  /\ call' = [call EXCEPT !["config"] = "ask"]
  /\ UNCHANGED <<waiters, cpc, releasing>>

\* STS_REC_COMPLETED is not reported any more after the stop command.
ReceiveLateCompletion ==
  /\ Receive("status") /\ gbRecStopCmdSent
  /\ UNCHANGED <<waiters, cpc, call, releasing>>

\* A malformed datagram ends the loop.
ReceiveInvalid ==
  /\ Receive("invalid")
  /\ cpc' = "ended"
  /\ UNCHANGED <<waiters, call, releasing>>

ReleaseAfterRefusal ==
  /\ Alive /\ cpc = "release"
  /\ releasing' = releasing \ {"receiver"} /\ flushed' = TRUE
  /\ cpc' = "recv"
  /\ UNCHANGED <<mainVars, shm, flagVars, respVars, net, call, spc, fpgaVars>>

-----------------------------------------------------------------------------
(* cmdRecvCallback, run by whichever thread has something to report.  The  *)
(* bound on it: the threads other than the configuration thread report at  *)
(* most once.                                                              *)

Goto(c, step) == call' = [call EXCEPT ![c] = step]
After(c) == IF c = "config" THEN "none" ELSE "over"

\* The reader found the recording complete, or a file error.
DataReport ==
  /\ "data" \in Callers /\ call["data"] = "none"
  /\ MayReport("data") /\ fpga # "idle"
  /\ Goto("data", "ask")
  /\ UNCHANGED <<mainVars, shm, flagVars, respVars, cpc, net, spc, recVars, fpgaVars>>

\* startDurationStopModeTimer; a failed start lets it run out at once.
TimerReport ==
  /\ "timer" \in Callers /\ call["timer"] = "none" /\ ~gbRecStopCmdSent
  /\ MayReport("timer") /\ (fpga # "idle" \/ result = "timeout")
  /\ Goto("timer", "ask")
  /\ UNCHANGED <<mainVars, shm, flagVars, respVars, cpc, net, spc, recVars, fpgaVars>>

\* handleCaptureThreadTimeout: nothing was received for a long time.
CaptureTimeout ==
  /\ "capture" \in Callers /\ call["capture"] = "none" /\ ~gbRecStopCmdSent
  /\ MayReport("capture") /\ result \in {"ok", "refused"}
  /\ Goto("capture", "timedout")
  /\ UNCHANGED <<mainVars, shm, flagVars, respVars, cpc, net, spc, recVars, fpgaVars>>

CaptureReport ==
  /\ Alive /\ "capture" \in Callers /\ call["capture"] = "timedout"
  /\ shm' = "STOP_FAILED"
  /\ Goto("capture", "decide")
  /\ UNCHANGED <<mainVars, flagVars, respVars, cpc, net, spc, recVars, fpgaVars>>

CaptureDecide_AlwaysForces ==
  /\ Alive /\ "capture" \in Callers /\ call["capture"] = "decide"
  /\ Goto("capture", "force")
  /\ UNCHANGED <<mainVars, shm, flagVars, respVars, cpc, net, spc, recVars, fpgaVars>>

CaptureDecide ==
  /\ Alive /\ "capture" \in Callers /\ call["capture"] = "decide"
  /\ Goto("capture", IF bStopCmdSent THEN "force" ELSE "ask")
  /\ UNCHANGED <<mainVars, shm, flagVars, respVars, cpc, net, spc, recVars, fpgaVars>>

CaptureForce ==
  /\ Alive /\ "capture" \in Callers /\ call["capture"] = "force"
  /\ sgnRecStop' = TRUE
  /\ Goto("capture", "over")
  /\ UNCHANGED <<mainVars, shm, bStopCmdSent, gbRecStopCmdSent, respVars, cpc, net, spc,
                 recVars, fpgaVars>>

StopAlreadyAsked_Never == FALSE
StopAlreadyAsked == bStopCmdSent

\* StopRecordProc_Callback: test, set, spawn.
Ask(c) ==
  /\ Alive /\ call[c] = "ask"
  /\ Goto(c, IF StopAlreadyAsked THEN After(c) ELSE "claim")
  /\ UNCHANGED <<mainVars, shm, flagVars, respVars, cpc, net, spc, recVars, fpgaVars>>

Claim(c) ==
  /\ Alive /\ call[c] = "claim"
  /\ bStopCmdSent' = TRUE
  /\ spc' = [spc EXCEPT ![c] = "begin"]
  /\ Goto(c, After(c))
  /\ UNCHANGED <<mainVars, shm, gbRecStopCmdSent, sgnRecStop, respVars, cpc, net, recVars,
                 fpgaVars>>

-----------------------------------------------------------------------------
(* StopRecordProc_Thread and StopRecordData.                               *)

StopStep(t, from, to) ==
  Alive /\ spc[t] = from /\ spc' = [spc EXCEPT ![t] = to]

StopBegin(t) ==
  /\ StopStep(t, "begin", "test")
  /\ shm' = "STOP_INIT"
  /\ UNCHANGED <<mainVars, flagVars, respVars, cpc, net, call, recVars, fpgaVars>>

\* "To avoid multiple stop record being called": test, then set.
StopTest(t) ==
  /\ StopStep(t, "test", IF gbRecStopCmdSent THEN "finish" ELSE "mark")
  /\ UNCHANGED <<mainVars, shm, flagVars, respVars, cpc, net, call, recVars, fpgaVars>>

StopMark_NoFlush(t) ==
  /\ StopStep(t, "mark", "send")
  /\ gbRecStopCmdSent' = TRUE
  /\ UNCHANGED <<mainVars, shm, bStopCmdSent, sgnRecStop, respVars, cpc, net, call, recVars,
                 fpgaVars>>

StopMark(t) ==
  /\ StopStep(t, "mark", "flush")
  /\ gbRecStopCmdSent' = TRUE
  /\ releasing' = releasing \cup {t}
  /\ UNCHANGED <<mainVars, shm, bStopCmdSent, sgnRecStop, respVars, cpc, net, call, flushed,
                 fpgaVars>>

StopFlushed(t) ==
  /\ StopStep(t, "flush", "send")
  /\ releasing' = releasing \ {t} /\ flushed' = TRUE
  /\ UNCHANGED <<mainVars, shm, flagVars, respVars, cpc, net, call, fpgaVars>>

StopSend(t) ==
  /\ StopStep(t, "send", "sent")
  /\ stopsSent' = stopsSent + 1
  /\ \/ SendMessage("stopAck") /\ fpga' = "off"
     \/ SendMessage("stopRefused") /\ UNCHANGED fpga
     \/ UNCHANGED <<net, fpga>>                       \* STOP is lost
  /\ UNCHANGED <<mainVars, shm, flagVars, respVars, cpc, call, recVars>>

StopSendFails_NoStatus(t) ==
  /\ StopStep(t, "send", "finish")
  /\ UNCHANGED <<mainVars, shm, flagVars, respVars, cpc, net, call, recVars, fpgaVars>>

StopSendFails(t) ==
  /\ StopStep(t, "send", "finish")
  /\ shm' = "STOP_FAILED"
  /\ UNCHANGED <<mainVars, flagVars, respVars, cpc, net, call, recVars, fpgaVars>>

StopBlock(t) ==
  /\ StopStep(t, "sent", "wait")
  /\ waiters' = waiters \cup {t}
  /\ UNCHANGED <<mainVars, shm, flagVars, configResp, cpc, net, call, recVars, fpgaVars>>

StopTimeout_Resends(t) ==
  /\ StopStep(t, "wait", "send") /\ t \in waiters
  /\ waiters' = waiters \ {t}
  /\ UNCHANGED <<mainVars, shm, flagVars, configResp, cpc, net, call, recVars, fpgaVars>>

StopTimeout(t) ==
  /\ StopStep(t, "wait", "finish") /\ t \in waiters
  /\ waiters' = waiters \ {t}
  /\ shm' = "STOP_FAILED" /\ sgnRecStop' = TRUE
  /\ UNCHANGED <<mainVars, bStopCmdSent, gbRecStopCmdSent, configResp, cpc, net, call,
                 recVars, fpgaVars>>

StopAnswered(t) ==
  /\ StopStep(t, "wait", "finish") /\ t \notin waiters
  /\ shm' = "STOPPED" /\ sgnRecStop' = TRUE
  /\ UNCHANGED <<mainVars, bStopCmdSent, gbRecStopCmdSent, respVars, cpc, net, call,
                 recVars, fpgaVars>>

StopFinish_Silent(t) ==
  /\ StopStep(t, "finish", "over")
  /\ UNCHANGED <<mainVars, shm, flagVars, respVars, cpc, net, call, recVars, fpgaVars>>

StopFinish(t) ==
  /\ StopStep(t, "finish", "over")
  /\ sgnRecStop' = TRUE
  /\ UNCHANGED <<mainVars, shm, bStopCmdSent, gbRecStopCmdSent, respVars, cpc, net, call,
                 recVars, fpgaVars>>

Ended == ~Alive /\ UNCHANGED vars

-----------------------------------------------------------------------------
Main == MainReset \/ MainOpen \/ MainSend \/ MainUndo \/ MainBlock \/ MainTimeout
          \/ MainWoken \/ MainResult \/ MainStopped \/ MainExit
Arrival == ReceiveAck \/ ReceiveRefusal \/ (\E m \in {"userStop", "status"} : ReceiveReason(m))
             \/ ReceiveLateCompletion \/ ReceiveInvalid
Callback(c) == Ask(c) \/ Claim(c)
Capture == CaptureReport \/ CaptureDecide \/ CaptureForce
Stopper(t) == StopBegin(t) \/ StopTest(t) \/ StopMark(t) \/ StopFlushed(t) \/ StopSend(t)
                \/ StopSendFails(t) \/ StopBlock(t) \/ StopTimeout(t) \/ StopAnswered(t)
                \/ StopFinish(t)

Next ==
  \/ Main
  \/ UserStop \/ FpgaStatus \/ StrayDatagram
  \/ Arrival \/ ReleaseAfterRefusal
  \/ DataReport \/ TimerReport \/ CaptureTimeout \/ Capture
  \/ \E c \in Callers : Callback(c) \/ Stopper(c)
  \/ Ended

(* Every thread that can move moves, the timed waits run out, and the      *)
(* user's stop, which comes from the same host, is delivered.  The FPGA's  *)
(* datagrams may be lost: no fairness is assumed for them.                 *)
Fairness ==
  /\ WF_vars(Main) /\ WF_vars(ReleaseAfterRefusal) /\ WF_vars(Capture)
  /\ WF_vars(ReceiveReason("userStop"))
  /\ \A c \in Callers : WF_vars(Callback(c)) /\ WF_vars(Stopper(c))

Spec == Init /\ [][Next]_vars /\ Fairness
-----------------------------------------------------------------------------
(* Properties.                                                             *)

Threads == Callers \cup {"main", "receiver"}

TypeOK ==
  /\ mpc \in {"reset", "open", "send", "undo", "sent", "wait", "result", "rest", "exit", "done"}
  /\ result \in {"none", "invalid", "unsent", "timeout", "refused", "ok"}
  /\ shm \in {"IN_PROG", "STOPPED", "START_INIT", "START_FAILED", "STOP_INIT", "STOP_FAILED"}
  /\ bStopCmdSent \in BOOLEAN /\ gbRecStopCmdSent \in BOOLEAN /\ sgnRecStop \in BOOLEAN
  /\ waiters \subseteq Callers \cup {"main"} /\ configResp \in {"zero", "nonzero"}
  /\ cpc \in {"off", "recv", "release", "ended"}
  /\ net \in [Messages -> {"unsent", "flying", "handled"}]
  /\ call \in [Callers -> {"none", "timedout", "decide", "ask", "force", "claim", "over"}]
  /\ spc \in [Callers -> {"none", "begin", "test", "mark", "flush", "send", "sent", "wait",
                          "finish", "over"}]
  /\ releasing \subseteq Threads /\ flushed \in BOOLEAN
  /\ fpga \in {"idle", "on", "off"} /\ stopsSent \in 0..Cardinality(Callers)

\* StopRecordData runs setThreadStop before it publishes STOPPED, so whoever reads
\* STOPPED from shared memory finds a flushed recording, whatever else goes on.
StoppedIsFlushed == shm = "STOPPED" /\ mpc # "reset" => flushed

\* Main leaves its wait for the stop only after some thread asked for the stop: no
\* signal on sgnRecStopWaitEvent comes from nowhere (StopRecordProc_Callback, capture
\* timeout).
ExitWasAsked == mpc \in {"exit", "done"} /\ result = "ok" => bStopCmdSent

\* A user's stop that reached the config port ends the process, whichever other
\* reasons are reported and whatever the network loses, provided setThreadStop returns.
UserStopEndsProcess == (net["userStop"] = "flying") ~> (mpc = "done")

\* "To avoid multiple stop record being called" (StopRecordData): one STOP is sent, and
\* setThreadStop, which frees the buffers without a lock, is never run twice at a time.
OneStop == stopsSent <= 1 /\ Cardinality(releasing) <= 1

\* Main ends a successful recording only when setThreadStop has flushed it.
ExitIsFlushed == mpc = "done" /\ result = "ok" => flushed /\ releasing = {}

\* The stop thread publishes STOPPED only for an answer to STOP, never for the late
\* answer to START that wakes the same event (StopRecordData).  Either the FPGA has
\* obeyed, or it has refused: StopRecordData publishes STOPPED for a refusal too, its
\* caller looks for the write error alone, and the recording may still be running,
\* although rf_api.h calls the status "Record is stopped".
StoppedIsAnswered ==
  shm = "STOPPED" /\ mpc # "reset" =>
    (net["stopAck"] = "handled" /\ fpga = "off") \/ net["stopRefused"] = "handled"

\* The status in shared memory when the process is gone is a final one, otherwise
\* CLI_Control takes the process for running.
FinalStatus == mpc = "done" => shm \in {"STOPPED", "STOP_FAILED", "START_FAILED"}
=============================================================================
