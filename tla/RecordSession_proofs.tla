------------------------ MODULE RecordSession_proofs ------------------------
(***************************************************************************)
(* Theorems about RecordSession.  The first three hold for every set of    *)
(* reporting threads and whatever these do; their inductive invariant is   *)
(* Inv, with CountInv for the number of STOP commands.  The others need    *)
(* SingleReason, one thread with a reason to stop while main waits for it, *)
(* and the invariant SingleInv: the run session_two_reporters shows that   *)
(* OneStop fails without it.                                               *)
(***************************************************************************)
EXTENDS RecordSession, FiniteSetTheorems, TLAPS

USE SessionAssumption
USE DEF mainVars, flagVars, respVars, recVars, fpgaVars

\* TypeOK but for the number of STOP commands.
TypeInv ==
  /\ mpc \in {"reset", "open", "send", "undo", "sent", "wait", "result", "rest", "exit", "done"}
  /\ result \in {"none", "invalid", "unsent", "timeout", "refused", "ok"}
  /\ shm \in {"IN_PROG", "STOPPED", "START_INIT", "START_FAILED", "STOP_INIT", "STOP_FAILED"}
  /\ bStopCmdSent \in BOOLEAN /\ gbRecStopCmdSent \in BOOLEAN /\ sgnRecStop \in BOOLEAN
  /\ waiters \subseteq Callers \cup {"main"} /\ configResp \in {"zero", "nonzero"}
  /\ cpc \in {"off", "recv", "release", "ended"}
  /\ net \in [Messages -> {"unsent", "flying", "handled"}]
  /\ call \in [Callers -> {"none", "timedout", "decide", "ask", "force", "claim", "over"}]
  /\ spc \in [Callers -> {"none", "begin", "test", "mark", "flush", "send", "sent", "wait",
                          "finish", "over"}]
  /\ releasing \subseteq Threads /\ flushed \in BOOLEAN
  /\ fpga \in {"idle", "on", "off"} /\ stopsSent \in Nat

\* Nothing goes on before main resets the flags, and a thread that has spawned a
\* stop thread never comes to spawn another.
SpawnInv ==
  /\ mpc = "reset" =>
       cpc = "off" /\ ~sgnRecStop /\ \A c \in Callers : call[c] = "none" /\ spc[c] = "none"
  /\ \A c \in Callers : spc[c] # "none" => bStopCmdSent /\ call[c] # "claim"

\* A stop thread that has gone past setThreadStop leaves a flushed recording.
FlushInv ==
  /\ \A t \in Callers : spc[t] \in {"send", "sent", "wait"} => flushed
  /\ StoppedIsFlushed

\* Whatever may set sgnRecStop was asked for.
AskedInv ==
  /\ sgnRecStop => bStopCmdSent
  /\ "capture" \in Callers /\ call["capture"] = "force" => bStopCmdSent
  /\ ExitWasAsked

Inv == TypeInv /\ SpawnInv /\ FlushInv /\ AskedInv

LEMMA InvNext ==
  ASSUME Inv, [Next]_vars
  PROVE  Inv'
  <1> USE DEF Inv, TypeInv, SpawnInv, FlushInv, AskedInv, StoppedIsFlushed, ExitWasAsked,
          Threads, Messages
  <1>1. CASE MainReset  BY <1>1 DEF MainReset
  <1>2. CASE MainOpen  BY <1>2 DEF MainOpen
  <1>3. CASE MainSend
    <2>1. net' \in [Messages -> {"unsent", "flying", "handled"}]
      BY <1>3 DEF MainSend, SendMessage
    <2>2. releasing' \subseteq Threads
      BY <1>3 DEF MainSend
    <2>3. /\ mpc' \in {"sent", "undo"} /\ result' \in {result, "unsent"} /\ fpga' \in {fpga, "on"}
          /\ UNCHANGED <<shm, flagVars, respVars, cpc, call, spc, flushed, stopsSent>>
      BY <1>3 DEF MainSend
    <2>4. TypeInv'
      BY <2>1, <2>2, <2>3
    <2>5. SpawnInv' /\ FlushInv' /\ AskedInv'
      BY <1>3, <2>3 DEF MainSend
    <2> QED
      BY <2>4, <2>5
  <1>4. CASE MainUndo  BY <1>4 DEF MainUndo
  <1>5. CASE MainBlock  BY <1>5 DEF MainBlock
  <1>6. CASE MainTimeout  BY <1>6 DEF MainTimeout
  <1>7. CASE MainWoken  BY <1>7 DEF MainWoken, StartResult
  <1>8. CASE MainResult  BY <1>8 DEF MainResult
  <1>9. CASE MainStopped
    <2>1. /\ mpc' = "exit"
          /\ UNCHANGED <<result, shm, respVars, cpc, net, call, spc, recVars, fpgaVars>>
      BY <1>9 DEF MainStopped
    <2>2. bStopCmdSent' \in BOOLEAN /\ gbRecStopCmdSent' \in BOOLEAN /\ sgnRecStop' \in BOOLEAN
      BY <1>9 DEF MainStopped
    <2>3. SpawnInv' /\ FlushInv' /\ AskedInv'
      BY <1>9 DEF MainStopped
    <2>4. TypeInv'
      BY <2>1, <2>2
    <2> QED
      BY <2>3, <2>4
  <1>10. CASE MainExit  BY <1>10 DEF MainExit
  <1>11. CASE UserStop  BY <1>11 DEF UserStop, SendMessage, MayReport, Alive
  <1>12. CASE FpgaStatus  BY <1>12 DEF FpgaStatus, SendMessage, MayReport, Alive
  <1>13. CASE StrayDatagram  BY <1>13 DEF StrayDatagram, SendMessage, Alive
  <1>14. CASE ReceiveAck  BY <1>14 DEF ReceiveAck, Receive, Statuses, WakeOneWaiter, Alive
  <1>15. CASE ReceiveRefusal
    BY <1>15 DEF ReceiveRefusal, Receive, Statuses, WakeOneWaiter, Alive
  <1>16. CASE ReceiveLateCompletion
    BY <1>16 DEF ReceiveLateCompletion, Receive, Statuses, WakeOneWaiter, Alive
  <1>17. CASE ReceiveInvalid
    BY <1>17 DEF ReceiveInvalid, Receive, Statuses, WakeOneWaiter, Alive
  <1>18. CASE ReleaseAfterRefusal  BY <1>18 DEF ReleaseAfterRefusal, Alive
  <1>19. CASE DataReport  BY <1>19 DEF DataReport, Goto, MayReport, Alive
  <1>20. CASE TimerReport  BY <1>20 DEF TimerReport, Goto, MayReport, Alive
  <1>21. CASE CaptureTimeout  BY <1>21 DEF CaptureTimeout, Goto, MayReport, Alive
  <1>22. CASE CaptureReport  BY <1>22 DEF CaptureReport, Goto, Alive
  <1>23. CASE CaptureForce  BY <1>23 DEF CaptureForce, Goto, Alive
  <1>38. CASE CaptureDecide  BY <1>38 DEF CaptureDecide, Goto, Alive
  <1>24. ASSUME NEW m \in {"userStop", "status"}, ReceiveReason(m) PROVE Inv'
    BY <1>24 DEF ReceiveReason, Receive, Statuses, WakeOneWaiter, Goto, Alive
  <1>25. ASSUME NEW c \in Callers, Ask(c) PROVE Inv'
    BY <1>25 DEF Ask, Goto, After, StopAlreadyAsked, Alive
  <1>26. ASSUME NEW c \in Callers, Claim(c) PROVE Inv'
    BY <1>26 DEF Claim, Goto, After, Alive
  <1>27. ASSUME NEW c \in Callers, StopBegin(c) PROVE Inv'
    BY <1>27 DEF StopBegin, StopStep, Alive
  <1>28. ASSUME NEW c \in Callers, StopTest(c) PROVE Inv'
    BY <1>28 DEF StopTest, StopStep, Alive
  <1>29. ASSUME NEW c \in Callers, StopMark(c) PROVE Inv'
    BY <1>29 DEF StopMark, StopStep, Alive
  <1>30. ASSUME NEW c \in Callers, StopFlushed(c) PROVE Inv'
    BY <1>30 DEF StopFlushed, StopStep, Alive
  <1>31. ASSUME NEW c \in Callers, StopSend(c) PROVE Inv'
    BY <1>31 DEF StopSend, SendMessage, StopStep, Alive
  <1>32. ASSUME NEW c \in Callers, StopSendFails(c) PROVE Inv'
    BY <1>32 DEF StopSendFails, StopStep, Alive
  <1>33. ASSUME NEW c \in Callers, StopBlock(c) PROVE Inv'
    BY <1>33 DEF StopBlock, StopStep, Alive
  <1>34. ASSUME NEW c \in Callers, StopTimeout(c) PROVE Inv'
    BY <1>34 DEF StopTimeout, StopStep, Alive
  <1>35. ASSUME NEW c \in Callers, StopAnswered(c) PROVE Inv'
    BY <1>35 DEF StopAnswered, StopStep, Alive
  <1>36. ASSUME NEW c \in Callers, StopFinish(c) PROVE Inv'
    BY <1>36 DEF StopFinish, StopStep, Alive
  <1>37. CASE UNCHANGED vars
    BY <1>37 DEF vars
  <1> HIDE DEF Inv, TypeInv, SpawnInv, FlushInv, AskedInv, StoppedIsFlushed, ExitWasAsked,
          Threads, Messages
  <1> QED
    BY <1>1, <1>2, <1>3, <1>4, <1>5, <1>6, <1>7, <1>8, <1>9, <1>10, <1>11,
       <1>12, <1>13, <1>14, <1>15, <1>16, <1>17, <1>18, <1>19, <1>20, <1>21,
       <1>22, <1>23, <1>24, <1>25, <1>26, <1>27, <1>28, <1>29, <1>30, <1>31,
       <1>32, <1>33, <1>34, <1>35, <1>36, <1>37, <1>38
    DEF Next, Main, Arrival, Callback, Capture, Stopper, Ended

LEMMA InvHolds == Spec => []Inv
  <1>1. Init => Inv
    <2> SUFFICES ASSUME Init PROVE Inv
      OBVIOUS
    <2>1. bStopCmdSent \in BOOLEAN /\ gbRecStopCmdSent \in BOOLEAN /\ sgnRecStop \in BOOLEAN
      BY DEF Init
    <2>2. TypeInv
      BY <2>1 DEF Init, TypeInv, Threads, Messages
    <2>3. SpawnInv /\ FlushInv /\ AskedInv
      BY DEF Init, SpawnInv, FlushInv, AskedInv, StoppedIsFlushed, ExitWasAsked
    <2> QED
      BY <2>2, <2>3 DEF Inv
  <1> QED
    BY <1>1, InvNext, PTL DEF Spec

\* Every stop thread sends STOP at most once, so TypeOK's bound on stopsSent holds.
Sent == {t \in Callers : spc[t] \in {"sent", "wait", "finish", "over"}}
CountInv == stopsSent <= Cardinality(Sent)

LEMMA CallersAreFinite == IsFiniteSet(Callers)
  <1>1. IsFiniteSet({"config", "data", "timer", "capture"})
    <2>1. IsFiniteSet({"config"} \cup {"data"} \cup {"timer"} \cup {"capture"})
      BY FS_Singleton, FS_Union
    <2>2. {"config", "data", "timer", "capture"}
            = {"config"} \cup {"data"} \cup {"timer"} \cup {"capture"}
      OBVIOUS
    <2> QED
      BY <2>1, <2>2
  <1> QED
    BY <1>1, FS_Subset

LEMMA CountInvNext ==
  ASSUME Inv, Inv', CountInv, [Next]_vars
  PROVE  CountInv'
  <1> USE DEF Sent
  <1>1. IsFiniteSet(Sent) /\ IsFiniteSet(Sent')
    BY CallersAreFinite, FS_Subset
  <1>2. Cardinality(Sent) \in Nat /\ Cardinality(Sent') \in Nat
    BY <1>1, FS_CardinalityType
  <1>3. ASSUME NEW t \in Callers, StopSend(t) PROVE CountInv'
    <2>1. stopsSent' = stopsSent + 1 /\ t \notin Sent /\ Sent' = Sent \cup {t}
      BY <1>3 DEF StopSend, StopStep, Inv, TypeInv
    <2>2. Cardinality(Sent') = Cardinality(Sent) + 1
      BY <1>1, <2>1, FS_AddElement
    <2> QED
      BY <1>2, <2>1, <2>2 DEF CountInv, Inv, TypeInv
  <1>4. CASE UNCHANGED stopsSent /\ UNCHANGED spc
    BY <1>4 DEF CountInv
  <1>5. CASE UNCHANGED stopsSent /\ Sent \subseteq Sent'
    <2>1. Cardinality(Sent) <= Cardinality(Sent')
      BY <1>1, <1>5, FS_Subset
    <2> QED
      BY <1>2, <1>5, <2>1 DEF CountInv, Inv, TypeInv
  <1>6. ASSUME NEW t \in Callers, Claim(t) PROVE CountInv'
    BY <1>5, <1>6 DEF Claim, Alive, Inv, TypeInv, SpawnInv
  <1>7. ASSUME NEW t \in Callers, Stopper(t), ~StopSend(t) PROVE CountInv'
    <2>1. \E s : /\ spc' = [spc EXCEPT ![t] = s]
                 /\ t \in Sent => s \in {"sent", "wait", "finish", "over"}
      BY <1>7 DEF Stopper, StopStep, StopBegin, StopTest, StopMark, StopFlushed, StopSendFails,
         StopBlock, StopTimeout, StopAnswered, StopFinish
    <2>2. Sent \subseteq Sent'
      BY <2>1 DEF Inv, TypeInv
    <2>3. UNCHANGED stopsSent
      BY <1>7 DEF Stopper, StopBegin, StopTest, StopMark, StopFlushed, StopSendFails,
         StopBlock, StopTimeout, StopAnswered, StopFinish
    <2> QED
      BY <1>5, <2>2, <2>3
  <1>8. CASE UNCHANGED vars
    BY <1>4, <1>8 DEF vars
  <1>9. CASE Main
    BY <1>4, <1>9 DEF Main, MainReset, MainOpen, MainSend, MainUndo, MainBlock, MainTimeout,
       MainWoken, MainResult, MainStopped, MainExit
  <1>10. CASE Arrival \/ ReleaseAfterRefusal
    BY <1>4, <1>10 DEF Arrival, ReceiveAck, ReceiveRefusal, ReceiveReason,
       ReceiveLateCompletion, ReceiveInvalid, Receive, ReleaseAfterRefusal
  <1>11. CASE UserStop \/ FpgaStatus \/ StrayDatagram \/ DataReport \/ TimerReport
               \/ CaptureTimeout \/ Capture
    BY <1>4, <1>11 DEF UserStop, FpgaStatus, StrayDatagram, DataReport, TimerReport,
       CaptureTimeout, Capture, CaptureReport, CaptureDecide, CaptureForce
  <1>12. ASSUME NEW t \in Callers, Ask(t) PROVE CountInv'
    BY <1>4, <1>12 DEF Ask
  <1> QED
    BY <1>3, <1>6, <1>7, <1>8, <1>9, <1>10, <1>11, <1>12 DEF Next, Callback, Ended

-----------------------------------------------------------------------------
\* Every variable of a CLI_Record session keeps its type, and no more STOP commands
\* are sent than there are threads that can spawn a stop thread.
THEOREM SessionTypeCorrect == Spec => []TypeOK
  <1>1. Init => CountInv
    BY CallersAreFinite, FS_Subset, FS_CardinalityType, FS_EmptySet DEF Init, CountInv, Sent
  <1>2. Inv /\ CountInv => TypeOK
    <2> SUFFICES ASSUME Inv, CountInv PROVE TypeOK
      OBVIOUS
    <2>1. IsFiniteSet(Sent) /\ Cardinality(Sent) <= Cardinality(Callers)
      BY CallersAreFinite, FS_Subset DEF Sent
    <2>2. Cardinality(Sent) \in Nat /\ Cardinality(Callers) \in Nat
      BY <2>1, CallersAreFinite, FS_CardinalityType
    <2>3. stopsSent \in 0..Cardinality(Callers)
      BY <2>1, <2>2 DEF Inv, TypeInv, CountInv
    <2> QED
      BY <2>3 DEF Inv, TypeInv, TypeOK
  <1> QED
    BY <1>1, <1>2, InvHolds, CountInvNext, PTL DEF Spec

\* StopRecordData publishes STOPPED only once setThreadStop has run, whatever threads
\* report reasons to stop and whatever datagrams arrive.
THEOREM StoppedMeansFlushed == Spec => []StoppedIsFlushed
  <1>1. Inv => StoppedIsFlushed
    BY DEF Inv, FlushInv
  <1> QED
    BY <1>1, InvHolds, PTL

\* Main's wait for sgnRecStopWaitEvent ends only after a thread has set bStopCmdSent.
THEOREM ExitIsAsked == Spec => []ExitWasAsked
  <1>1. Inv => ExitWasAsked
    BY DEF Inv, AskedInv
  <1> QED
    BY <1>1, InvHolds, PTL

-----------------------------------------------------------------------------
\* One thread reports the reason to stop, and main already waits for it.
SingleReason == OneReporter /\ ~EarlyReasons

Stopping(t) == spc[t] # "none"

\* Only one thread has a reason to stop; so there is one stop thread, and the capture
\* thread never forces the end.
ReasonInv ==
  /\ \A c \in Callers : Stopping(c) \/ call[c] # "none" => HasReported(c)
  /\ \A c, d \in Callers : HasReported(c) /\ HasReported(d) => c = d
  /\ \A c \in Callers : HasReported(c) => mpc \in {"rest", "exit", "done"} /\ result = "ok"
  /\ bStopCmdSent => \E c \in Callers : Stopping(c)
  /\ \A c \in Callers : Stopping(c) /\ c # "config" => call[c] = "over"
  /\ "capture" \in Callers => call["capture"] # "force"

\* How the answer to START reaches main: a refusal is taken for success only if the
\* configuration thread has ended since.
AnswerInv ==
  /\ mpc \in {"reset", "open", "send"} => fpga = "idle"
  /\ mpc \in {"reset", "open", "send"} \/ result = "unsent" =>
       net["startOk"] = "unsent" /\ net["startRefused"] = "unsent"
  /\ mpc \in {"reset", "open", "send", "sent", "wait"} => result = "none"
  /\ mpc = "undo" => result = "unsent"
  /\ result = "ok" => mpc \in {"result", "rest", "exit", "done"}
  /\ mpc = "rest" => result = "ok"
  /\ "main" \in waiters => mpc = "wait"
  /\ net["startOk"] = "unsent" \/ net["startRefused"] = "unsent"
  /\ cpc = "release" => net["startRefused"] = "handled" /\ configResp = "nonzero"
  /\ net["startRefused"] = "handled" => configResp = "nonzero" \/ cpc = "ended"
  /\ (mpc = "wait" /\ "main" \notin waiters) \/ result = "ok" =>
       net["startOk"] = "handled" \/ net["startRefused"] = "handled"
  /\ result = "ok" /\ net["startRefused"] = "handled" => cpc = "ended"
  /\ net["stopAck"] # "unsent" => fpga = "off" /\ result = "ok"
  /\ net["stopRefused"] # "unsent" => result = "ok"

\* An answer to STOP has arrived.
StopWasAnswered ==
  (net["stopAck"] = "handled" /\ fpga = "off") \/ net["stopRefused"] = "handled"

\* What the stop thread has done by each of its steps.
StopInv ==
  /\ \A t \in Callers : spc[t] \in {"send", "sent", "wait", "finish", "over"} => flushed
  /\ \A t \in Callers : t \in waiters => spc[t] = "wait"
  /\ \A t \in Callers : spc[t] = "wait" /\ t \notin waiters => StopWasAnswered
  /\ \A t \in Callers : spc[t] \in {"finish", "over"} => shm \in {"STOPPED", "STOP_FAILED"}
  /\ gbRecStopCmdSent =>
       \E t \in Callers : spc[t] \in {"flush", "send", "sent", "wait", "finish", "over"}
  /\ sgnRecStop \/ (mpc \in {"exit", "done"} /\ result = "ok") =>
       \E t \in Callers : spc[t] \in {"finish", "over"}
  /\ mpc \in {"exit", "done"} /\ result # "ok" => shm = "START_FAILED"
  /\ stopsSent = 0 \/ (stopsSent = 1 /\ \E t \in Callers :
                                         spc[t] \in {"sent", "wait", "finish", "over"})
  /\ "main" \in releasing => mpc = "undo"
  /\ "receiver" \in releasing => cpc = "release"
  /\ \A t \in Callers : t \in releasing => spc[t] = "flush"
  /\ StoppedIsAnswered

SingleInv == ReasonInv /\ AnswerInv /\ StopInv

\* A stop thread reports nothing.
LEMMA StopperKeepsReason ==
  ASSUME Inv, ReasonInv, NEW c \in Callers, Stopper(c)
  PROVE  ReasonInv'
  <1>1. UNCHANGED <<mpc, result, bStopCmdSent, call>>
    BY DEF Stopper, StopBegin, StopTest, StopMark, StopFlushed, StopSend, StopSendFails,
       StopBlock, StopTimeout, StopAnswered, StopFinish
  <1>2. net'["userStop"] = net["userStop"] /\ net'["status"] = net["status"]
    BY DEF Stopper, StopBegin, StopTest, StopMark, StopFlushed, StopSend, StopSendFails,
       StopBlock, StopTimeout, StopAnswered, StopFinish, SendMessage, Inv, TypeInv,
       Messages
  <1>3. /\ spc[c] # "none" /\ spc'[c] # "none"
        /\ \A d \in Callers \ {c} : spc'[d] = spc[d]
    BY DEF Stopper, StopBegin, StopTest, StopMark, StopFlushed, StopSend, StopSendFails,
       StopBlock, StopTimeout, StopAnswered, StopFinish, StopStep, Inv, TypeInv
  <1>4. \A d \in Callers : Stopping(d)' <=> Stopping(d)
    BY <1>3 DEF Stopping
  <1>5. \A d \in Callers : HasReported(d)' <=> HasReported(d)
    BY <1>1, <1>2 DEF HasReported
  <1> QED
    BY <1>1, <1>4, <1>5 DEF ReasonInv

LEMMA ReasonInvNext ==
  ASSUME SingleReason, Inv, SingleInv, [Next]_vars
  PROVE  ReasonInv'
  <1> USE DEF SingleReason, Inv, TypeInv, SpawnInv, Threads, Messages, HasReported,
          Stopping, StoppedIsAnswered, StopWasAnswered, ReasonInv, AnswerInv, StopInv, SingleInv
  <1>1. CASE MainReset  BY <1>1 DEF MainReset
  <1>2. CASE MainOpen  BY <1>2 DEF MainOpen
  <1>3. CASE MainSend  BY <1>3 DEF MainSend, SendMessage
  <1>4. CASE MainUndo  BY <1>4 DEF MainUndo
  <1>5. CASE MainBlock  BY <1>5 DEF MainBlock
  <1>6. CASE MainTimeout  BY <1>6 DEF MainTimeout
  <1>7. CASE MainWoken  BY <1>7 DEF MainWoken, StartResult
  <1>8. CASE MainResult  BY <1>8 DEF MainResult
  <1>9. CASE MainStopped  BY <1>9 DEF MainStopped
  <1>10. CASE MainExit  BY <1>10 DEF MainExit
  <1>11. CASE UserStop  BY <1>11 DEF UserStop, SendMessage, MayReport, Alive
  <1>12. CASE FpgaStatus  BY <1>12 DEF FpgaStatus, SendMessage, MayReport, Alive
  <1>13. CASE StrayDatagram  BY <1>13 DEF StrayDatagram, SendMessage, Alive
  <1>14. CASE ReceiveAck  BY <1>14 DEF ReceiveAck, Receive, Statuses, WakeOneWaiter, Alive
  <1>15. CASE ReceiveRefusal
    BY <1>15 DEF ReceiveRefusal, Receive, Statuses, WakeOneWaiter, Alive
  <1>16. CASE ReceiveLateCompletion
    BY <1>16 DEF ReceiveLateCompletion, Receive, Statuses, WakeOneWaiter, Alive
  <1>17. CASE ReceiveInvalid
    BY <1>17 DEF ReceiveInvalid, Receive, Statuses, WakeOneWaiter, Alive
  <1>18. CASE ReleaseAfterRefusal  BY <1>18 DEF ReleaseAfterRefusal, Alive
  <1>19. CASE DataReport  BY <1>19 DEF DataReport, Goto, MayReport, Alive
  <1>20. CASE TimerReport  BY <1>20 DEF TimerReport, Goto, MayReport, Alive
  <1>21. CASE CaptureTimeout  BY <1>21 DEF CaptureTimeout, Goto, MayReport, Alive
  <1>22. CASE CaptureReport  BY <1>22 DEF CaptureReport, Goto, Alive
  <1>23. CASE CaptureForce  BY <1>23 DEF CaptureForce, Goto, Alive
  <1>38. CASE CaptureDecide  BY <1>38 DEF CaptureDecide, Goto, Alive
  <1>24. ASSUME NEW m \in {"userStop", "status"}, ReceiveReason(m) PROVE ReasonInv'
    BY <1>24 DEF ReceiveReason, Receive, Statuses, WakeOneWaiter, Goto, Alive
  <1>25. ASSUME NEW c \in Callers, Ask(c) PROVE ReasonInv'
    BY <1>25 DEF Ask, Goto, After, StopAlreadyAsked, Alive
  <1>26. ASSUME NEW c \in Callers, Claim(c) PROVE ReasonInv'
    BY <1>26 DEF Claim, Goto, After, Alive
  <1>27. ASSUME NEW c \in Callers, Stopper(c) PROVE ReasonInv'
    BY <1>27, StopperKeepsReason
  <1>37. CASE UNCHANGED vars
    BY <1>37 DEF vars
  <1> HIDE DEF SingleReason, Inv, TypeInv, SpawnInv, Threads, Messages, HasReported,
          Stopping, StoppedIsAnswered, StopWasAnswered, ReasonInv, AnswerInv, StopInv, SingleInv
  <1> QED
    BY <1>1, <1>2, <1>3, <1>4, <1>5, <1>6, <1>7, <1>8, <1>9, <1>10, <1>11,
       <1>12, <1>13, <1>14, <1>15, <1>16, <1>17, <1>18, <1>19, <1>20, <1>21,
       <1>22, <1>23, <1>24, <1>25, <1>26, <1>27, <1>37, <1>38
    DEF Next, Main, Arrival, Callback, Capture, Ended

LEMMA AnswerInvNext ==
  ASSUME SingleReason, Inv, SingleInv, [Next]_vars
  PROVE  AnswerInv'
  <1> USE DEF SingleReason, Inv, TypeInv, SpawnInv, Threads, Messages, HasReported,
          Stopping, StoppedIsAnswered, StopWasAnswered, ReasonInv, AnswerInv, StopInv, SingleInv
  <1>1. CASE MainReset  BY <1>1 DEF MainReset
  <1>2. CASE MainOpen  BY <1>2 DEF MainOpen
  <1>3. CASE MainSend  BY <1>3 DEF MainSend, SendMessage
  <1>4. CASE MainUndo  BY <1>4 DEF MainUndo
  <1>5. CASE MainBlock  BY <1>5 DEF MainBlock
  <1>6. CASE MainTimeout  BY <1>6 DEF MainTimeout
  <1>7. CASE MainWoken  BY <1>7 DEF MainWoken, StartResult
  <1>8. CASE MainResult  BY <1>8 DEF MainResult
  <1>9. CASE MainStopped  BY <1>9 DEF MainStopped
  <1>10. CASE MainExit  BY <1>10 DEF MainExit
  <1>11. CASE UserStop  BY <1>11 DEF UserStop, SendMessage, MayReport, Alive
  <1>12. CASE FpgaStatus  BY <1>12 DEF FpgaStatus, SendMessage, MayReport, Alive
  <1>13. CASE StrayDatagram  BY <1>13 DEF StrayDatagram, SendMessage, Alive
  <1>14. CASE ReceiveAck  BY <1>14 DEF ReceiveAck, Receive, Statuses, WakeOneWaiter, Alive
  <1>15. CASE ReceiveRefusal
    BY <1>15 DEF ReceiveRefusal, Receive, Statuses, WakeOneWaiter, Alive
  <1>16. CASE ReceiveLateCompletion
    BY <1>16 DEF ReceiveLateCompletion, Receive, Statuses, WakeOneWaiter, Alive
  <1>17. CASE ReceiveInvalid
    BY <1>17 DEF ReceiveInvalid, Receive, Statuses, WakeOneWaiter, Alive
  <1>18. CASE ReleaseAfterRefusal  BY <1>18 DEF ReleaseAfterRefusal, Alive
  <1>19. CASE DataReport  BY <1>19 DEF DataReport, Goto, MayReport, Alive
  <1>20. CASE TimerReport  BY <1>20 DEF TimerReport, Goto, MayReport, Alive
  <1>21. CASE CaptureTimeout  BY <1>21 DEF CaptureTimeout, Goto, MayReport, Alive
  <1>22. CASE CaptureReport  BY <1>22 DEF CaptureReport, Goto, Alive
  <1>23. CASE CaptureForce  BY <1>23 DEF CaptureForce, Goto, Alive
  <1>38. CASE CaptureDecide  BY <1>38 DEF CaptureDecide, Goto, Alive
  <1>24. ASSUME NEW m \in {"userStop", "status"}, ReceiveReason(m) PROVE AnswerInv'
    BY <1>24 DEF ReceiveReason, Receive, Statuses, WakeOneWaiter, Goto, Alive
  <1>25. ASSUME NEW c \in Callers, Ask(c) PROVE AnswerInv'
    BY <1>25 DEF Ask, Goto, After, StopAlreadyAsked, Alive
  <1>26. ASSUME NEW c \in Callers, Claim(c) PROVE AnswerInv'
    BY <1>26 DEF Claim, Goto, After, Alive
  <1>27. ASSUME NEW c \in Callers, StopBegin(c) PROVE AnswerInv'
    BY <1>27 DEF StopBegin, StopStep, Alive
  <1>28. ASSUME NEW c \in Callers, StopTest(c) PROVE AnswerInv'
    BY <1>28 DEF StopTest, StopStep, Alive
  <1>29. ASSUME NEW c \in Callers, StopMark(c) PROVE AnswerInv'
    BY <1>29 DEF StopMark, StopStep, Alive
  <1>30. ASSUME NEW c \in Callers, StopFlushed(c) PROVE AnswerInv'
    BY <1>30 DEF StopFlushed, StopStep, Alive
  <1>31. ASSUME NEW c \in Callers, StopSend(c) PROVE AnswerInv'
    BY <1>31 DEF StopSend, SendMessage, StopStep, Alive
  <1>32. ASSUME NEW c \in Callers, StopSendFails(c) PROVE AnswerInv'
    BY <1>32 DEF StopSendFails, StopStep, Alive
  <1>33. ASSUME NEW c \in Callers, StopBlock(c) PROVE AnswerInv'
    BY <1>33 DEF StopBlock, StopStep, Alive
  <1>34. ASSUME NEW c \in Callers, StopTimeout(c) PROVE AnswerInv'
    BY <1>34 DEF StopTimeout, StopStep, Alive
  <1>35. ASSUME NEW c \in Callers, StopAnswered(c) PROVE AnswerInv'
    BY <1>35 DEF StopAnswered, StopStep, Alive
  <1>36. ASSUME NEW c \in Callers, StopFinish(c) PROVE AnswerInv'
    BY <1>36 DEF StopFinish, StopStep, Alive
  <1>37. CASE UNCHANGED vars
    BY <1>37 DEF vars
  <1> HIDE DEF SingleReason, Inv, TypeInv, SpawnInv, Threads, Messages, HasReported,
          Stopping, StoppedIsAnswered, StopWasAnswered, ReasonInv, AnswerInv, StopInv, SingleInv
  <1> QED
    BY <1>1, <1>2, <1>3, <1>4, <1>5, <1>6, <1>7, <1>8, <1>9, <1>10, <1>11,
       <1>12, <1>13, <1>14, <1>15, <1>16, <1>17, <1>18, <1>19, <1>20, <1>21,
       <1>22, <1>23, <1>24, <1>25, <1>26, <1>27, <1>28, <1>29, <1>30, <1>31,
       <1>32, <1>33, <1>34, <1>35, <1>36, <1>37, <1>38
    DEF Next, Main, Arrival, Callback, Capture, Stopper, Ended

LEMMA StopInvNext ==
  ASSUME SingleReason, Inv, SingleInv, [Next]_vars
  PROVE  StopInv'
  <1> USE DEF SingleReason, Inv, TypeInv, SpawnInv, Threads, Messages, HasReported,
          Stopping, StoppedIsAnswered, StopWasAnswered, ReasonInv, AnswerInv, StopInv, SingleInv
  <1>1. CASE MainReset  BY <1>1 DEF MainReset
  <1>2. CASE MainOpen  BY <1>2 DEF MainOpen
  <1>3. CASE MainSend  BY <1>3 DEF MainSend, SendMessage
  <1>4. CASE MainUndo  BY <1>4 DEF MainUndo
  <1>5. CASE MainBlock  BY <1>5 DEF MainBlock
  <1>6. CASE MainTimeout  BY <1>6 DEF MainTimeout
  <1>7. CASE MainWoken  BY <1>7 DEF MainWoken, StartResult
  <1>8. CASE MainResult  BY <1>8 DEF MainResult
  <1>9. CASE MainStopped  BY <1>9 DEF MainStopped
  <1>10. CASE MainExit  BY <1>10 DEF MainExit
  <1>11. CASE UserStop  BY <1>11 DEF UserStop, SendMessage, MayReport, Alive
  <1>12. CASE FpgaStatus  BY <1>12 DEF FpgaStatus, SendMessage, MayReport, Alive
  <1>13. CASE StrayDatagram  BY <1>13 DEF StrayDatagram, SendMessage, Alive
  <1>14. CASE ReceiveAck  BY <1>14 DEF ReceiveAck, Receive, Statuses, WakeOneWaiter, Alive
  <1>15. CASE ReceiveRefusal
    BY <1>15 DEF ReceiveRefusal, Receive, Statuses, WakeOneWaiter, Alive
  <1>16. CASE ReceiveLateCompletion
    BY <1>16 DEF ReceiveLateCompletion, Receive, Statuses, WakeOneWaiter, Alive
  <1>17. CASE ReceiveInvalid
    BY <1>17 DEF ReceiveInvalid, Receive, Statuses, WakeOneWaiter, Alive
  <1>18. CASE ReleaseAfterRefusal  BY <1>18 DEF ReleaseAfterRefusal, Alive
  <1>19. CASE DataReport  BY <1>19 DEF DataReport, Goto, MayReport, Alive
  <1>20. CASE TimerReport  BY <1>20 DEF TimerReport, Goto, MayReport, Alive
  <1>21. CASE CaptureTimeout  BY <1>21 DEF CaptureTimeout, Goto, MayReport, Alive
  <1>22. CASE CaptureReport  BY <1>22 DEF CaptureReport, Goto, Alive
  <1>23. CASE CaptureForce  BY <1>23 DEF CaptureForce, Goto, Alive
  <1>38. CASE CaptureDecide  BY <1>38 DEF CaptureDecide, Goto, Alive
  <1>24. ASSUME NEW m \in {"userStop", "status"}, ReceiveReason(m) PROVE StopInv'
    BY <1>24 DEF ReceiveReason, Receive, Statuses, WakeOneWaiter, Goto, Alive
  <1>25. ASSUME NEW c \in Callers, Ask(c) PROVE StopInv'
    BY <1>25 DEF Ask, Goto, After, StopAlreadyAsked, Alive
  <1>26. ASSUME NEW c \in Callers, Claim(c) PROVE StopInv'
    BY <1>26 DEF Claim, Goto, After, Alive
  <1>27. ASSUME NEW c \in Callers, StopBegin(c) PROVE StopInv'
    BY <1>27 DEF StopBegin, StopStep, Alive
  <1>28. ASSUME NEW c \in Callers, StopTest(c) PROVE StopInv'
    BY <1>28 DEF StopTest, StopStep, Alive
  <1>29. ASSUME NEW c \in Callers, StopMark(c) PROVE StopInv'
    BY <1>29 DEF StopMark, StopStep, Alive
  <1>30. ASSUME NEW c \in Callers, StopFlushed(c) PROVE StopInv'
    BY <1>30 DEF StopFlushed, StopStep, Alive
  <1>31. ASSUME NEW c \in Callers, StopSend(c) PROVE StopInv'
    BY <1>31 DEF StopSend, SendMessage, StopStep, Alive
  <1>32. ASSUME NEW c \in Callers, StopSendFails(c) PROVE StopInv'
    BY <1>32 DEF StopSendFails, StopStep, Alive
  <1>33. ASSUME NEW c \in Callers, StopBlock(c) PROVE StopInv'
    BY <1>33 DEF StopBlock, StopStep, Alive
  <1>34. ASSUME NEW c \in Callers, StopTimeout(c) PROVE StopInv'
    BY <1>34 DEF StopTimeout, StopStep, Alive
  <1>35. ASSUME NEW c \in Callers, StopAnswered(c) PROVE StopInv'
    BY <1>35 DEF StopAnswered, StopStep, Alive
  <1>36. ASSUME NEW c \in Callers, StopFinish(c) PROVE StopInv'
    BY <1>36 DEF StopFinish, StopStep, Alive
  <1>37. CASE UNCHANGED vars
    BY <1>37 DEF vars
  <1> HIDE DEF SingleReason, Inv, TypeInv, SpawnInv, Threads, Messages, HasReported,
          Stopping, StoppedIsAnswered, StopWasAnswered, ReasonInv, AnswerInv, StopInv, SingleInv
  <1> QED
    BY <1>1, <1>2, <1>3, <1>4, <1>5, <1>6, <1>7, <1>8, <1>9, <1>10, <1>11,
       <1>12, <1>13, <1>14, <1>15, <1>16, <1>17, <1>18, <1>19, <1>20, <1>21,
       <1>22, <1>23, <1>24, <1>25, <1>26, <1>27, <1>28, <1>29, <1>30, <1>31,
       <1>32, <1>33, <1>34, <1>35, <1>36, <1>37, <1>38
    DEF Next, Main, Arrival, Callback, Capture, Stopper, Ended

LEMMA SingleInvHolds == SingleReason /\ Spec => []SingleInv
  <1> SUFFICES ASSUME SingleReason PROVE Spec => []SingleInv
    OBVIOUS
  <1>1. Init => SingleInv
    BY DEF Init, SingleReason, SingleInv, ReasonInv, AnswerInv, StopInv, StoppedIsAnswered, StopWasAnswered,
           HasReported, Stopping, Messages
  <1>2. Inv /\ SingleInv /\ [Next]_vars => SingleInv'
    BY ReasonInvNext, AnswerInvNext, StopInvNext DEF SingleInv
  <1> QED
    BY <1>1, <1>2, InvHolds, PTL DEF Spec

LEMMA AtMostOne ==
  ASSUME NEW S, \A s, t \in S : s = t
  PROVE  Cardinality(S) <= 1
  <1>1. CASE S = {}
    BY <1>1, FS_EmptySet
  <1>2. ASSUME NEW s \in S PROVE Cardinality(S) <= 1
    <2>1. S = {s}
      OBVIOUS
    <2>2. Cardinality({s}) = 1
      BY FS_Singleton
    <2> QED
      BY <2>1, <2>2
  <1> QED
    BY <1>1, <1>2

-----------------------------------------------------------------------------
\* With a single reason to stop, a successful recording ends with the last buffer
\* written and no thread inside setThreadStop (StopRecordData, main).
THEOREM SingleExitIsFlushed == SingleReason /\ Spec => []ExitIsFlushed
  <1>1. Inv /\ SingleInv => ExitIsFlushed
    BY DEF Inv, TypeInv, SingleInv, ReasonInv, AnswerInv, StopInv, ExitIsFlushed, Threads, Stopping
  <1> QED
    BY <1>1, InvHolds, SingleInvHolds, PTL

\* With a single reason to stop, STOPPED is published only for an answer to STOP, be
\* it a refusal: no answer to START wakes the stop thread.
THEOREM SingleStoppedIsAnswered == SingleReason /\ Spec => []StoppedIsAnswered
  <1>1. SingleInv => StoppedIsAnswered
    BY DEF SingleInv, StopInv
  <1> QED
    BY <1>1, SingleInvHolds, PTL

\* With a single reason to stop, the process leaves a final status for CLI_Control.
THEOREM SingleFinalStatus == SingleReason /\ Spec => []FinalStatus
  <1>1. SingleInv => FinalStatus
    BY DEF SingleInv, StopInv, FinalStatus
  <1> QED
    BY <1>1, SingleInvHolds, PTL

\* With a single reason to stop, STOP is sent once and setThreadStop never overlaps
\* itself; with two, the run session_two_reporters shows that both happen.
THEOREM SingleOneStop == SingleReason /\ Spec => []OneStop
  <1>1. Inv /\ SingleInv => OneStop
    <2> SUFFICES ASSUME Inv, SingleInv PROVE OneStop
      OBVIOUS
    <2> USE DEF Inv, TypeInv, SingleInv, ReasonInv, AnswerInv, StopInv, Threads, Stopping
    <2>1. stopsSent <= 1
      OBVIOUS
    <2>2. ASSUME NEW t \in releasing, t \in Callers PROVE releasing \subseteq {t}
      <3>1. spc[t] = "flush" /\ HasReported(t) /\ result = "ok"
        BY <2>2
      <3>2. "main" \notin releasing /\ "receiver" \notin releasing
        BY <3>1
      <3>3. \A d \in releasing : d \in Callers => d = t
        BY <3>1
      <3> QED
        BY <3>2, <3>3
    <2>3. "main" \notin releasing \/ "receiver" \notin releasing
      OBVIOUS
    <2>4. ASSUME NEW s \in releasing, NEW t \in releasing PROVE s = t
      BY <2>2, <2>3
    <2>5. Cardinality(releasing) <= 1
      BY <2>4, AtMostOne
    <2> QED
      BY <2>1, <2>5 DEF OneStop
  <1> QED
    BY <1>1, InvHolds, SingleInvHolds, PTL
=============================================================================
