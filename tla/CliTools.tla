------------------------------- MODULE CliTools -------------------------------
(***************************************************************************)
(* The processes of the command line tools and the shared memory through   *)
(* which they meet: one CLI_Control process at a time (start_record,       *)
(* stop_record, the configuration commands, the status query;              *)
(* cli_control_main.cpp) and the CLI_Record processes it launches          *)
(* (cli_record_main.cpp).  osal_linux.cpp finds a segment by a key, keeps  *)
(* its identifier for the life of the process (hShmem) and attaches it     *)
(* (shm_proc_states); a removed segment stays alive while it is attached.  *)
(*                                                                         *)
(* The inside of a recording is RecordSession; here it is the points at    *)
(* which the process writes its status.  Processes may be slow to start,   *)
(* and be killed at any point, which leaves their status behind.           *)
(***************************************************************************)
EXTENDS Naturals, FiniteSets

CONSTANTS
  Cards,         \* configuration ports, one for each card
  Recs,          \* the CLI_Record processes: a bound on how many are launched
  Polls,         \* CLI_CMD_TIMEOUT_DURATION / MILLI_SEC_TO_READ_SHM
  NoSeg, NoCard, Nobody

ASSUME ToolsAssumption ==
  /\ IsFiniteSet(Cards) /\ IsFiniteSet(Recs) /\ Polls \in Nat
  /\ "ctl" \notin Recs /\ Nobody \notin Recs \cup {"ctl"}

Procs == Recs \cup {"ctl"}
Segs == 1..(Cardinality(Recs) + 2)   \* enough: each one is listed or known to a process

ASSUME SegmentAssumption == NoSeg \notin Segs /\ NoCard \notin Cards

(* ftok(s8ShmName, 65) with a name that is no file fails, whatever the     *)
(* configuration port in the name: the key is -1.                          *)
Key(c) == "-1"
Keys == {Key(c) : c \in Cards}

VARIABLES
  listed,               \* segment found under a key, or NoSeg
  status,               \* s32CommandStatus of each segment
  made,                 \* the card a segment was created for
  hShmem, attached,     \* of each process
  port,                 \* owner of the configuration port of each card
  cmd, cpc, iLoop,      \* CLI_Control: command, step, polls done
  rcard, rpc,           \* CLI_Record: card, step of main
  stopper,              \* its stop thread
  abandoned,            \* which commands were abandoned half way: timed out or killed
  fault                 \* a process has used the result of a failed shmat

shmVars == <<listed, status, made, hShmem, attached>>
ctlVars == <<cmd, cpc, iLoop>>
recVars == <<rcard, rpc, stopper>>
vars == <<shmVars, port, ctlVars, recVars, abandoned, fault>>

Statuses == {"IN_PROG", "STOPPED", "START_INIT", "START_FAILED", "STOP_INIT", "STOP_FAILED"}

\* A fresh segment is zero, and STS_CLI_REC_PROC_IS_IN_PROG is 0.
Zeroed == "IN_PROG"

Running == Statuses \ {"STOPPED", "START_FAILED", "STOP_FAILED"}
Ended == {"STOPPED", "STOP_FAILED"}

NoCommand == [name |-> "query", card |-> NoCard, rec |-> Nobody]

CardOf(p) == IF p = "ctl" THEN cmd.card ELSE rcard[p]

-----------------------------------------------------------------------------
(* osal: the shared memory.                                                *)

Exists(s) == \/ \E k \in Keys : listed[k] = s
             \/ \E q \in Procs : attached[q] /\ hShmem[q] = s
Known(s) == Exists(s) \/ \E q \in Procs : hShmem[q] = s

\* The segment that process p works with: the one it remembers, or looks up.
Found(p) == IF hShmem[p] # NoSeg THEN hShmem[p] ELSE listed[Key(CardOf(p))]

\* shmat reports failure with (void *) -1, which the code takes for a pointer.
AttachFails(p) == ~attached[p] /\ Found(p) # NoSeg /\ ~Exists(Found(p))

\* QueryRecordProcStatus: remember, attach, read, detach.
Query(p) ==
  /\ hShmem' = [hShmem EXCEPT ![p] = Found(p)]
  /\ attached' = [attached EXCEPT ![p] = FALSE]
  /\ UNCHANGED <<listed, status, made>>
Answers(p, statuses) == Found(p) # NoSeg /\ status[Found(p)] \in statuses

\* MapShm and a write.
Write(p, st) ==
  /\ attached' = [attached EXCEPT ![p] = TRUE]
  /\ status' = [status EXCEPT ![hShmem[p]] = st]
  /\ UNCHANGED <<listed, made, hShmem>>

\* The first half of CreateShm: shmget(IPC_CREAT).
Create(p) ==
  /\ UNCHANGED attached
  /\ IF Found(p) # NoSeg
     THEN hShmem' = [hShmem EXCEPT ![p] = Found(p)] /\ UNCHANGED <<listed, status, made>>
     ELSE LET s == CHOOSE x \in Segs : ~Known(x) IN
            /\ listed' = [listed EXCEPT ![Key(CardOf(p))] = s]
            /\ status' = [status EXCEPT ![s] = Zeroed]
            /\ made' = [made EXCEPT ![s] = CardOf(p)]
            /\ hShmem' = [hShmem EXCEPT ![p] = s]

\* The system reclaims a segment that is removed and that nobody can name any more.
Reclaim ==
  /\ status' = [s \in Segs |-> IF Known(s)' THEN status[s] ELSE Zeroed]
  /\ made' = [s \in Segs |-> IF Known(s)' THEN made[s] ELSE NoCard]

DestroyShm_Forgets(p) ==
  /\ hShmem' = [hShmem EXCEPT ![p] = NoSeg] /\ UNCHANGED <<listed, status, made, attached>>

DestroyShm(p) ==
  /\ listed' = [k \in Keys |-> IF listed[k] = Found(p) THEN NoSeg ELSE listed[k]]
  /\ hShmem' = [hShmem EXCEPT ![p] = NoSeg]
  /\ UNCHANGED attached
  /\ Reclaim

\* What the system does when process p ends.
Release(p) ==
  /\ hShmem' = [hShmem EXCEPT ![p] = NoSeg]
  /\ attached' = [attached EXCEPT ![p] = FALSE]
  /\ port' = [c \in Cards |-> IF port[c] = p THEN Nobody ELSE port[c]]
  /\ UNCHANGED listed
  /\ Reclaim

-----------------------------------------------------------------------------
Init ==
  /\ listed = [k \in Keys |-> NoSeg]
  /\ status = [s \in Segs |-> Zeroed] /\ made = [s \in Segs |-> NoCard]
  /\ hShmem = [p \in Procs |-> NoSeg] /\ attached = [p \in Procs |-> FALSE]
  /\ port = [c \in Cards |-> Nobody]
  /\ cmd = NoCommand
  /\ cpc = "idle" /\ iLoop = 0
  /\ rcard = [r \in Recs |-> NoCard]
  /\ rpc = [r \in Recs |-> "none"] /\ stopper = [r \in Recs |-> "none"]
  /\ abandoned = {} /\ fault = FALSE

-----------------------------------------------------------------------------
(* CLI_Control.                                                            *)

CtlGoto(to) == cpc' = to /\ UNCHANGED cmd
CtlEnds == cpc' = "idle" /\ iLoop' = 0 /\ cmd' = NoCommand /\ Release("ctl")

GivesUp(what, if) == abandoned' = abandoned \cup (IF if THEN {what} ELSE {})

\* A user starts a command; its name and its file were accepted.
CtlBegin(name, c) ==
  /\ cpc = "idle"
  /\ cmd' = [name |-> name, card |-> c, rec |-> Nobody]
  /\ cpc' = IF name = "query" THEN "query" ELSE "check"
  /\ UNCHANGED <<shmVars, port, iLoop, recVars, abandoned, fault>>

CtlQuery ==
  /\ cpc = "query"
  /\ CtlEnds
  /\ UNCHANGED <<recVars, abandoned, fault>>

\* "No record process is running", "Stop the already running process".
CtlCheck ==
  /\ cpc = "check"
  /\ IF Answers("ctl", Running) = (cmd.name = "stop")
     THEN CtlGoto("connect") /\ Query("ctl") /\ UNCHANGED <<port, iLoop>>
     ELSE CtlEnds
  /\ UNCHANGED <<recVars, abandoned, fault>>

\* Only stop_record does without the configuration port.
CtlConnect ==
  /\ cpc = "connect"
  /\ \/ /\ cmd.name = "stop"
        /\ CtlGoto("ask") /\ UNCHANGED <<shmVars, port, iLoop>>
     \/ /\ cmd.name # "stop" /\ port[cmd.card] = Nobody
        /\ port' = [port EXCEPT ![cmd.card] = "ctl"]
        /\ CtlGoto("talk") /\ UNCHANGED <<shmVars, iLoop>>
     \/ CtlEnds                                       \* bind or another system call fails
  /\ UNCHANGED <<recVars, abandoned, fault>>

\* A configuration command, or the handshake before a recording.
CtlTalk ==
  /\ cpc = "talk"
  /\ \/ CtlEnds                                       \* done, or no answer
     \/ /\ cmd.name = "start"
        /\ port' = [port EXCEPT ![cmd.card] = Nobody]
        /\ CtlGoto("create") /\ UNCHANGED <<shmVars, iLoop>>
  /\ UNCHANGED <<recVars, abandoned, fault>>

CtlCreate ==
  /\ cpc = "create"
  /\ Create("ctl")
  /\ CtlGoto("default")
  /\ UNCHANGED <<port, iLoop, recVars, abandoned, fault>>

CtlDefault_Skipped ==
  /\ cpc = "default"
  /\ CtlGoto("launch")
  /\ UNCHANGED <<shmVars, port, iLoop, recVars, abandoned, fault>>

CtlDefault ==
  /\ cpc = "default"
  /\ Write("ctl", "STOPPED")
  /\ CtlGoto("launch")
  /\ UNCHANGED <<port, iLoop, recVars, abandoned, fault>>

\* system(): CLI_Record is launched, or not.
CtlLaunch ==
  /\ cpc = "launch"
  /\ \/ \E r \in Recs :
          /\ rpc[r] = "none"
          /\ rpc' = [rpc EXCEPT ![r] = "check"]
          /\ rcard' = [rcard EXCEPT ![r] = cmd.card]
          /\ UNCHANGED stopper
          /\ cmd' = [cmd EXCEPT !.rec = r]
          /\ cpc' = "poll" /\ UNCHANGED <<shmVars, port, iLoop>>
     \/ CtlEnds /\ UNCHANGED recVars
  /\ UNCHANGED <<abandoned, fault>>

\* StopRecordAsyncCmd: a datagram to the owner of the configuration port; it may be
\* lost, and sending may fail.
CtlAsk ==
  /\ cpc = "ask"
  /\ \/ \E r \in Recs :
          /\ port[cmd.card] = r /\ stopper[r] = "none"
          /\ stopper' = [stopper EXCEPT ![r] = "asked"]
          /\ CtlGoto("poll") /\ UNCHANGED <<shmVars, port, iLoop, rcard, rpc>>
     \/ CtlGoto("poll") /\ UNCHANGED <<shmVars, port, iLoop, recVars>>
     \/ CtlEnds /\ UNCHANGED recVars
  /\ UNCHANGED <<abandoned, fault>>

CtlPollStart_FireAndForget ==
  /\ cpc = "poll" /\ cmd.name = "start"
  /\ CtlEnds
  /\ UNCHANGED <<recVars, abandoned, fault>>

CtlPollStart_OneMore ==
  /\ cpc = "poll" /\ cmd.name = "start"
  /\ IF Answers("ctl", Running) \/ iLoop > Polls
     THEN CtlEnds /\ GivesUp("start", ~Answers("ctl", Running))
     ELSE /\ Query("ctl") /\ iLoop' = iLoop + 1
          /\ UNCHANGED <<cmd, cpc, port, abandoned>>
  /\ UNCHANGED <<recVars, fault>>

CtlPollStart ==
  /\ cpc = "poll" /\ cmd.name = "start"
  /\ IF Answers("ctl", Running) \/ iLoop = Polls
     THEN CtlEnds /\ GivesUp("start", ~Answers("ctl", Running))
     ELSE /\ Query("ctl") /\ iLoop' = iLoop + 1
          /\ UNCHANGED <<cmd, cpc, port, abandoned>>
  /\ UNCHANGED <<recVars, fault>>

CtlPollStop_NoBound ==
  /\ cpc = "poll" /\ cmd.name = "stop"
  /\ IF Answers("ctl", Ended)
     THEN DestroyShm("ctl") /\ CtlGoto("end") /\ UNCHANGED <<iLoop, abandoned>>
     ELSE Query("ctl") /\ UNCHANGED <<cmd, cpc, iLoop, abandoned>>
  /\ UNCHANGED <<port, recVars, fault>>

CtlPollStop_NoWait ==
  /\ cpc = "poll" /\ cmd.name = "stop"
  /\ DestroyShm("ctl") /\ CtlGoto("end")
  /\ UNCHANGED <<iLoop, port, recVars, abandoned, fault>>

\* The segment is removed whether the process has stopped or not.
CtlPollStop ==
  /\ cpc = "poll" /\ cmd.name = "stop"
  /\ IF Answers("ctl", Ended) \/ iLoop = Polls
     THEN /\ DestroyShm("ctl") /\ CtlGoto("end")
          /\ GivesUp("stop", ~Answers("ctl", Ended)) /\ UNCHANGED iLoop
     ELSE Query("ctl") /\ iLoop' = iLoop + 1 /\ UNCHANGED <<cmd, cpc, abandoned>>
  /\ UNCHANGED <<port, recVars, fault>>

CtlEnd ==
  /\ cpc = "end"
  /\ CtlEnds
  /\ UNCHANGED <<recVars, abandoned, fault>>

\* The user interrupts the command.
CtlKilled ==
  /\ cpc \notin {"idle", "end"}
  /\ CtlEnds
  /\ GivesUp(cmd.name, cmd.name \in {"start", "stop"} /\ cpc \in {"create", "default", "launch", "poll"})
  /\ UNCHANGED <<recVars, fault>>

-----------------------------------------------------------------------------
(* CLI_Record.                                                             *)

RecStep(r, from, to) == rpc[r] = from /\ rpc' = [rpc EXCEPT ![r] = to]
RecEnds(r) ==
  /\ rpc' = [rpc EXCEPT ![r] = "done"] /\ stopper' = [stopper EXCEPT ![r] = "none"]
  /\ rcard' = [rcard EXCEPT ![r] = NoCard]
  /\ Release(r)
Others == <<ctlVars, abandoned, fault>>

\* IsRecordProcRunning_Rec
RecCheck(r) ==
  /\ rpc[r] = "check"
  /\ IF Answers(r, Running)
     THEN RecEnds(r)
     ELSE RecStep(r, "check", "recheck") /\ Query(r) /\ UNCHANGED <<port, rcard, stopper>>
  /\ UNCHANGED Others

\* The second query; without a segment one is created.
RecRecheck(r) ==
  /\ rpc[r] = "recheck" /\ ~AttachFails(r)
  /\ IF Found(r) = NoSeg
     THEN Create(r) /\ RecStep(r, "recheck", "default")
     ELSE Query(r) /\ RecStep(r, "recheck", "connect")
  /\ UNCHANGED <<port, rcard, stopper, Others>>

RecDefault(r) ==
  /\ ~AttachFails(r)
  /\ RecStep(r, "default", "connect")
  /\ Write(r, "STOPPED")
  /\ UNCHANGED <<port, rcard, stopper, Others>>

\* ConnectRFDCCard_RecordMode binds the configuration port; a failure leaves no status.
RecConnect(r) ==
  /\ rpc[r] = "connect"
  /\ \/ /\ port[rcard[r]] = Nobody
        /\ port' = [port EXCEPT ![rcard[r]] = r]
        /\ RecStep(r, "connect", "map") /\ UNCHANGED <<shmVars, rcard, stopper>>
     \/ RecEnds(r)
  /\ UNCHANGED Others

\* MapShm, WriteDefaultRecordProcStatus, START_INIT.
RecMap(r) ==
  /\ ~AttachFails(r)
  /\ RecStep(r, "map", "starting")
  /\ Write(r, "START_INIT")
  /\ UNCHANGED <<port, rcard, stopper, Others>>

\* A segment that was removed cannot be attached: the process crashes on the write.
RecFault(r) ==
  /\ rpc[r] \in {"recheck", "default", "map"} /\ AttachFails(r)
  /\ RecEnds(r)
  /\ fault' = TRUE
  /\ UNCHANGED <<ctlVars, abandoned>>

\* The outcome of StartRecordData.
RecStarted(r) ==
  /\ \/ RecStep(r, "starting", "recording") /\ Write(r, "IN_PROG")
     \/ RecStep(r, "starting", "exit") /\ Write(r, "START_FAILED")
  /\ UNCHANGED <<port, rcard, stopper, Others>>

\* A reason of the FPGA or of the recorder to stop.
RecReason(r) ==
  /\ rpc[r] \in {"starting", "recording"} /\ stopper[r] = "none"
  /\ stopper' = [stopper EXCEPT ![r] = "asked"]
  /\ UNCHANGED <<shmVars, port, rcard, rpc, Others>>

\* StopRecordProc_Thread: STOP_INIT, then the outcome of StopRecordData.
StopBegin(r) ==
  /\ rpc[r] \in {"starting", "recording"} /\ stopper[r] = "asked"
  /\ stopper' = [stopper EXCEPT ![r] = "stopping"]
  /\ Write(r, "STOP_INIT")
  /\ UNCHANGED <<port, rcard, rpc, Others>>

StopEnd(r) ==
  /\ rpc[r] \in {"starting", "recording"} /\ stopper[r] = "stopping"
  /\ stopper' = [stopper EXCEPT ![r] = "over"]
  /\ Write(r, "STOPPED") \/ Write(r, "STOP_FAILED")
  /\ UNCHANGED <<port, rcard, rpc, Others>>

RecStopped(r) ==
  /\ stopper[r] = "over"
  /\ RecStep(r, "recording", "exit")
  /\ UNCHANGED <<shmVars, port, rcard, stopper, Others>>

RecExit(r) ==
  /\ rpc[r] = "exit"
  /\ RecEnds(r)
  /\ UNCHANGED Others

\* The terminal of the process is closed, or the process dies.
RecKilled(r) ==
  /\ rpc[r] \notin {"none", "done"}
  /\ RecEnds(r)
  /\ UNCHANGED Others

-----------------------------------------------------------------------------
Commands == {"start", "stop", "config", "query"}

Control == CtlQuery \/ CtlCheck \/ CtlConnect \/ CtlTalk \/ CtlCreate \/ CtlDefault
             \/ CtlLaunch \/ CtlAsk \/ CtlPollStart \/ CtlPollStop \/ CtlEnd
Record(r) == RecCheck(r) \/ RecRecheck(r) \/ RecDefault(r) \/ RecConnect(r) \/ RecMap(r)
               \/ RecFault(r) \/ RecStarted(r) \/ StopBegin(r) \/ StopEnd(r)
               \/ RecStopped(r) \/ RecExit(r)

Next ==
  \/ \E name \in Commands, c \in Cards : CtlBegin(name, c)
  \/ Control \/ CtlKilled
  \/ \E r \in Recs : Record(r) \/ RecReason(r) \/ RecKilled(r)

(* The processes that can move do move; nothing is assumed of the users,   *)
(* of the reasons to stop and of what kills a process.                     *)
Fairness == WF_vars(Control) /\ \A r \in Recs : WF_vars(Record(r))

Spec == Init /\ [][Next]_vars /\ Fairness
-----------------------------------------------------------------------------
(* Properties.                                                             *)

TypeOK ==
  /\ listed \in [Keys -> Segs \cup {NoSeg}]
  /\ status \in [Segs -> Statuses] /\ made \in [Segs -> Cards \cup {NoCard}]
  /\ hShmem \in [Procs -> Segs \cup {NoSeg}] /\ attached \in [Procs -> BOOLEAN]
  /\ port \in [Cards -> Procs \cup {Nobody}]
  /\ cmd \in [name : Commands, card : Cards \cup {NoCard}, rec : Recs \cup {Nobody}]
  /\ cpc \in {"idle", "query", "check", "connect", "talk", "create", "default", "launch", "ask",
              "poll", "end"}
  /\ iLoop \in 0..Polls
  /\ rcard \in [Recs -> Cards \cup {NoCard}]
  /\ rpc \in [Recs -> {"none", "check", "recheck", "default", "connect", "map", "starting",
                       "recording", "exit", "done"}]
  /\ stopper \in [Recs -> {"none", "asked", "stopping", "over"}]
  /\ abandoned \subseteq {"start", "stop"} /\ fault \in BOOLEAN

\* "Stop the already running process": as long as no command was abandoned, whoever looks
\* up the shared memory finds the recording that nobody has asked to stop yet, so
\* stop_record can stop it.  CLI_Control checks the status, and resets it much later.
VisibleWhileRecording ==
  abandoned = {} => \A r \in Recs :
    rpc[r] = "recording" /\ stopper[r] = "none" =>
      listed[Key(rcard[r])] = hShmem[r] /\ status[hShmem[r]] = "IN_PROG"

\* start_record reports success when it reads a running status: as long as no command was
\* abandoned, the process it launched has written it, never a predecessor.
StartIsReal ==
  cpc = "poll" /\ cmd.name = "start" /\ Answers("ctl", Running) /\ "start" \notin abandoned =>
    rpc[cmd.rec] \notin {"check", "recheck", "default", "connect", "map"}

\* The unchecked result of shmat matters only after a command was abandoned: until then no
\* process remembers a segment that is gone, killed recordings notwithstanding.
FailedAttachNeedsTimeout == fault => "start" \in abandoned

\* After stop_record the status of the old recording is no longer found, whether the
\* process has answered, hangs or was killed: a stale status never refuses the next start.
StopClearsStatus ==
  [][cpc = "poll" /\ cmd.name = "stop" /\ cpc' = "end" => listed'[Key(cmd.card)] = NoSeg]_vars

\* Every command ends, whatever the recording processes do: the polls are bounded.
CommandsEnd == (cpc # "idle") ~> (cpc = "idle")

\* "Shared memory prefix name followed by config port to read process states"
\* (globals.h): a process works with the segment of its own card.
OwnSegment == \A p \in Procs : hShmem[p] # NoSeg => made[hShmem[p]] = CardOf(p)
=============================================================================
