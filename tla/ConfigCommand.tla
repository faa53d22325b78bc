---------------------------- MODULE ConfigCommand ----------------------------
(***************************************************************************)
(* Commands to the FPGA over the configuration port.  A CLI_Control        *)
(* process runs one command: it binds the port, sends one request, takes   *)
(* the next datagram for the answer and leaves (cli_control_main.cpp,      *)
(* rf_api.cpp, commandsprotocol.cpp).  start_record checks the connection  *)
(* that way, lets go of the port and launches CLI_Record, which binds the  *)
(* data ports and the same configuration port; stop_record sends a         *)
(* datagram to whoever holds the port on this host.                        *)
(*                                                                         *)
(* Datagrams keep their order on the cable and may be lost or late; the    *)
(* FPGA is external.  The shared status is reduced to whether it says that *)
(* a record process runs (CliTools), the recording to the datagrams its    *)
(* process reads and sends (RecordSession).                                *)
(***************************************************************************)
EXTENDS Naturals, Sequences

CONSTANTS
  Procs,         \* CLI_Control processes, a bound on those that run at a time
  Recs,          \* CLI_Record processes, likewise
  Commands,      \* the commands the processes may run
  MaxRuns,       \* bound on the commands the user runs
  MaxAsync,      \* bound on the asynchronous statuses of the FPGA
  Nobody

\* What is sent for each command; start_record asks for the connection first.
Code == [query_sys_status |-> "SYSTEM_ALIVENESS", start_record |-> "SYSTEM_ALIVENESS",
         reset_fpga |-> "RESET_FPGA", reset_ar_device |-> "RESET_AR_DEV", fpga |-> "CONFIG_FPGA",
         eeprom |-> "CONFIG_EEPROM", record |-> "CONFIG_RECORD",
         fpga_version |-> "READ_FPGA_VERSION", stop_record |-> "CLI_ASYNC_RECORD_STOP"]

ASSUME CommandAssumption ==
  /\ Commands \subseteq DOMAIN Code /\ MaxAsync \in Nat /\ MaxRuns \in Nat
  /\ Procs \cap Recs = {} /\ Nobody \notin Procs \cup Recs

VARIABLES
  pc, cmd, result,      \* CLI_Control: step, command, return status
  runs,                 \* commands run so far
  rpc,                  \* CLI_Record: step
  owner,                \* who has bound each port of this host
  inbox,                \* datagrams waiting at the configuration port
  requests,             \* on the way to the FPGA
  done,                 \* what the FPGA did about the last command of each process
  asyncs,               \* asynchronous statuses it sent
  recording,            \* the shared status says that a record process runs
  foreign               \* a process may have met a datagram that is not its answer

toolVars == <<pc, cmd, result, runs>>
cableVars == <<requests, done, asyncs>>
vars == <<toolVars, rpc, owner, inbox, cableVars, recording, foreign>>

Holders == Procs \cup Recs
Ports == {"config", "data"}

Init ==
  /\ pc = [p \in Procs |-> "done"] /\ cmd = [p \in Procs |-> "none"]
  /\ result = [p \in Procs |-> "none"] /\ runs = 0
  /\ rpc = [r \in Recs |-> "closed"]
  /\ owner = [x \in Ports |-> Nobody] /\ inbox = <<>>
  /\ requests = <<>> /\ done = [h \in Holders |-> "none"] /\ asyncs = 0
  /\ recording = FALSE /\ foreign = FALSE

-----------------------------------------------------------------------------
(* Sockets.                                                                *)

Free(x) == owner[x] = Nobody
Bind(h, x) == owner' = [owner EXCEPT ![x] = h]

\* Closing the sockets of h; what waits at the configuration port goes with it.
Close(h) ==
  /\ owner' = [x \in Ports |-> IF owner[x] = h THEN Nobody ELSE owner[x]]
  /\ inbox' = IF owner["config"] = h THEN <<>> ELSE inbox

\* A datagram to a port that is not bound is dropped.
Arrive(d) == inbox' = IF Free("config") THEN inbox ELSE Append(inbox, d)
Send(h, c) == requests' = Append(requests, [from |-> h, code |-> c])

Step(p, from, to) == pc[p] = from /\ pc' = [pc EXCEPT ![p] = to]
Return(p, r) == result' = [result EXCEPT ![p] = r]
Exit(p) ==
  /\ pc' = [pc EXCEPT ![p] = "done"] /\ cmd' = [cmd EXCEPT ![p] = "none"]
  /\ Return(p, "none") /\ done' = [done EXCEPT ![p] = "none"]

-----------------------------------------------------------------------------
(* CLI_Control.                                                            *)

\* A process that has ended makes room for the next one, unless a datagram is about it.
Forgotten(h) ==
  /\ \A i \in DOMAIN requests : requests[i].from # h
  /\ \A i \in DOMAIN inbox : inbox[i].to # h

Run(p, c) ==
  /\ Step(p, "done", "check") /\ Forgotten(p)
  /\ runs < MaxRuns /\ runs' = runs + 1
  /\ cmd' = [cmd EXCEPT ![p] = c]
  /\ UNCHANGED <<result, rpc, owner, inbox, cableVars, recording, foreign>>

\* stop_record needs a running record process, every other command none.
Check(p) ==
  /\ pc[p] = "check"
  /\ IF (cmd[p] = "stop_record") = recording
     THEN Step(p, "check", "connect") /\ UNCHANGED <<cmd, result, done>>
     ELSE Exit(p)
  /\ UNCHANGED <<runs, rpc, owner, inbox, requests, asyncs, recording, foreign>>

\* ConnectRFDCCard_AsyncCommandMode: a socket that is not bound.
ConnectAsync(p) ==
  /\ cmd[p] = "stop_record"
  /\ Step(p, "connect", "connected")
  /\ UNCHANGED <<runs, cmd, result, rpc, owner, inbox, cableVars, recording, foreign>>

ConnectConfig_Shares(p) ==
  /\ cmd[p] # "stop_record"
  /\ Step(p, "connect", "connected") /\ Bind(p, "config") /\ UNCHANGED result
  /\ UNCHANGED <<runs, cmd, rpc, inbox, cableVars, recording, foreign>>

\* ConnectRFDCCard_ConfigMode.
ConnectConfig(p) ==
  /\ pc[p] = "connect" /\ cmd[p] # "stop_record"
  /\ IF Free("config")
     THEN Step(p, "connect", "connected") /\ Bind(p, "config") /\ UNCHANGED <<cmd, result, done>>
     ELSE Exit(p) /\ UNCHANGED owner
  /\ UNCHANGED <<runs, rpc, inbox, requests, asyncs, recording, foreign>>

\* SendConfigCmdRequest, whose failure is the result of the command.
SendConfigCmdRequest(p) ==
  /\ \/ Step(p, "connected", "sent") /\ Send(p, Code[cmd[p]]) /\ UNCHANGED result
     \/ Step(p, "connected", "answered") /\ Return(p, "UDP_WRITE_ERR") /\ UNCHANGED requests
  /\ UNCHANGED <<runs, cmd, rpc, owner, inbox, done, asyncs, recording, foreign>>

HandshakeRFDCCard(p) == cmd[p] \in {"query_sys_status", "start_record"} /\ SendConfigCmdRequest(p)

\* The commands that change a setting; their parameters have been checked (StartParameters).
Settings == {"reset_fpga", "reset_ar_device", "fpga", "eeprom", "record"}
ConfigureRFDCCard(p) == cmd[p] \in Settings /\ SendConfigCmdRequest(p)
ReadRFDCCard_FpgaVersion(p) == cmd[p] = "fpga_version" /\ SendConfigCmdRequest(p)

\* GetConfigCmdResponse: the status of the next datagram, whatever it answers.
Receive(p) ==
  /\ owner["config"] = p /\ inbox # <<>>
  /\ Step(p, "sent", "answered")
  /\ Return(p, Head(inbox).status) /\ inbox' = Tail(inbox)
  /\ UNCHANGED <<runs, cmd, rpc, owner, cableVars, recording, foreign>>

\* SO_RCVTIMEO expires: errno is EAGAIN and IsCmdTimeout looks for ETIMEDOUT.
TimeoutIsSet_Not == FALSE
TimeoutIsSet == TRUE
Timeout(p) ==
  /\ TimeoutIsSet /\ inbox = <<>>
  /\ Step(p, "sent", "answered") /\ Return(p, "OS_ERR")
  /\ foreign' = TRUE
  /\ UNCHANGED <<runs, cmd, rpc, owner, inbox, cableVars, recording>>

\* StopRecordAsyncCmd: to the process that holds the port, if any; sending may fail.
StopRecordAsyncCmd(p) ==
  /\ cmd[p] = "stop_record"
  /\ \/ /\ Step(p, "connected", "answered") /\ Return(p, "SENT")
        /\ Arrive([code |-> "CLI_ASYNC_RECORD_STOP", status |-> "SUCCESS", to |-> p])
        /\ foreign' = (foreign \/ owner["config"] \in Procs)
     \/ /\ Step(p, "connected", "answered") /\ Return(p, "UDP_WRITE_ERR")
        /\ UNCHANGED <<inbox, foreign>>
  /\ UNCHANGED <<runs, cmd, rpc, owner, cableVars, recording>>

GoesOn(p) == \/ cmd[p] = "stop_record" /\ result[p] = "SENT"
             \/ cmd[p] = "start_record" /\ result[p] = "SUCCESS"

Disconnect_AfterLaunch(p) ==
  /\ pc[p] = "answered"
  /\ IF GoesOn(p)
     THEN Step(p, "answered", IF cmd[p] = "stop_record" THEN "poll" ELSE "launch")
          /\ UNCHANGED <<cmd, result, done, owner, inbox>>
     ELSE Exit(p) /\ Close(p)
  /\ UNCHANGED <<runs, rpc, requests, asyncs, recording, foreign>>

\* cli_DisconnectRFDCCard; what start_record and stop_record still have to do.
Disconnect(p) ==
  /\ pc[p] = "answered" /\ Close(p)
  /\ IF GoesOn(p)
     THEN Step(p, "answered", IF cmd[p] = "stop_record" THEN "poll" ELSE "launch")
          /\ UNCHANGED <<cmd, result, done>>
     ELSE Exit(p)
  /\ UNCHANGED <<runs, rpc, requests, asyncs, recording, foreign>>

\* system() starts CLI_Record, or fails.
Launch(p) ==
  /\ pc[p] = "launch"
  /\ \/ /\ Step(p, "launch", "poll") /\ UNCHANGED <<cmd, result, done>>
        /\ \E r \in Recs : /\ rpc[r] = "closed" /\ Forgotten(r)
                           /\ rpc' = [rpc EXCEPT ![r] = "launched"]
        /\ UNCHANGED <<owner, inbox>>
     \/ Exit(p) /\ Close(p) /\ UNCHANGED rpc
  /\ UNCHANGED <<runs, requests, asyncs, recording, foreign>>

\* The polling of the shared status ends; stop_record removes the segment.
Polled(p) ==
  /\ pc[p] = "poll" /\ Exit(p) /\ Close(p)
  /\ recording' = (recording /\ cmd[p] # "stop_record")
  /\ UNCHANGED <<runs, rpc, requests, asyncs, foreign>>

Killed(p) ==
  /\ pc[p] \in {"connected", "sent", "answered", "launch", "poll"}
  /\ Exit(p) /\ Close(p)
  /\ foreign' = (foreign \/ pc[p] = "sent")
  /\ UNCHANGED <<runs, rpc, requests, asyncs, recording>>

-----------------------------------------------------------------------------
(* CLI_Record.                                                             *)

RecExit(r) ==
  /\ rpc' = [rpc EXCEPT ![r] = "closed"]
  /\ done' = [done EXCEPT ![r] = "none"] /\ Close(r)
RecStep(r, from, to) == rpc[r] = from /\ rpc' = [rpc EXCEPT ![r] = to]

\* ConnectRFDCCard_RecordMode: the data ports, then the configuration port.
OpenData(r) ==
  /\ rpc[r] = "launched"
  /\ IF Free("data") /\ ~recording
     THEN RecStep(r, "launched", "opened") /\ Bind(r, "data") /\ UNCHANGED <<done, inbox>>
     ELSE RecExit(r)
  /\ UNCHANGED <<toolVars, requests, asyncs, recording, foreign>>

OpenConfig(r) ==
  /\ IF Free("config")
     THEN RecStep(r, "opened", "connected") /\ Bind(r, "config")
     ELSE RecStep(r, "opened", "ending") /\ UNCHANGED owner
  /\ UNCHANGED <<toolVars, inbox, cableVars, recording, foreign>>

StartRecordData(r) ==
  /\ \/ RecStep(r, "connected", "recording") /\ Send(r, "RECORD_START") /\ recording' = TRUE
     \/ RecStep(r, "connected", "ending") /\ recording' = FALSE /\ UNCHANGED requests
  /\ UNCHANGED <<toolVars, owner, inbox, done, asyncs, foreign>>

\* The recording is complete, or its time is up.
StopRecordData(r) ==
  /\ RecStep(r, "recording", "stopping") /\ Send(r, "RECORD_STOP")
  /\ UNCHANGED <<toolVars, owner, inbox, done, asyncs, recording, foreign>>

\* readConfigDatagrams.
Stops(d) == d.code \in {"CLI_ASYNC_RECORD_STOP", "SYSTEM_ASYNC_STATUS"}
ReadDatagram(r) ==
  /\ owner["config"] = r /\ inbox # <<>> /\ inbox' = Tail(inbox)
  /\ LET d == Head(inbox) IN
       \/ Stops(d) /\ RecStep(r, "recording", "stopping") /\ Send(r, "RECORD_STOP")
       \/ d.code = "RECORD_STOP" /\ RecStep(r, "stopping", "stopped") /\ UNCHANGED requests
       \/ /\ d.code = "RECORD_START" /\ d.status # "SUCCESS"
          /\ RecStep(r, "recording", "stopped") /\ UNCHANGED requests
       \/ /\ \/ d.code = "RECORD_START" /\ (d.status = "SUCCESS" \/ rpc[r] # "recording")
             \/ d.code \notin {"RECORD_START", "RECORD_STOP"} /\ (~Stops(d) \/ rpc[r] # "recording")
             \/ d.code = "RECORD_STOP" /\ rpc[r] # "stopping"
          /\ UNCHANGED <<rpc, requests>>
  /\ UNCHANGED <<toolVars, owner, done, asyncs, recording, foreign>>

\* The answer to START or STOP is not waited for any longer.
GiveUp(r) ==
  /\ rpc[r] \in {"recording", "stopping"} /\ rpc' = [rpc EXCEPT ![r] = "stopped"]
  /\ foreign' = TRUE
  /\ UNCHANGED <<toolVars, owner, inbox, cableVars, recording>>

\* STOPPED or START_FAILED is published before the ports are closed.
PublishEnd(r) ==
  /\ RecStep(r, "stopped", "ending") /\ recording' = FALSE
  /\ UNCHANGED <<toolVars, owner, inbox, cableVars, foreign>>

DisconnectRecord(r) ==
  /\ rpc[r] = "ending" /\ RecExit(r)
  /\ UNCHANGED <<toolVars, requests, asyncs, recording, foreign>>

RecKilled(r) ==
  /\ rpc[r] # "closed"
  /\ RecExit(r)
  /\ foreign' = (foreign \/ rpc[r] \in {"recording", "stopping"})
  /\ UNCHANGED <<toolVars, requests, asyncs, recording>>

-----------------------------------------------------------------------------
(* The FPGA and the cable.                                                 *)

Ended(h) == IF h \in Procs THEN pc[h] = "done" ELSE rpc[h] = "closed"

\* The FPGA carries a command out or refuses it, and says so to the holder of the
\* port.  The request has taken the time both ways; it or the answer may be lost.
FpgaHandles ==
  /\ requests # <<>> /\ requests' = Tail(requests)
  /\ LET q == Head(requests) IN
       \E ok \in BOOLEAN :
         /\ done' = IF Ended(q.from) THEN done
                    ELSE [done EXCEPT ![q.from] = IF ok THEN "SUCCESS" ELSE "FAILURE"]
         /\ \/ Arrive([code |-> q.code, to |-> q.from,
                       status |-> IF ~ok THEN "FAILURE"
                                  ELSE IF q.code = "READ_FPGA_VERSION" THEN "VERSION" ELSE "SUCCESS"])
            \/ UNCHANGED inbox
  /\ UNCHANGED <<toolVars, rpc, owner, asyncs, recording, foreign>>

\* It reports on a recording it has started.
FpgaReports ==
  /\ asyncs < MaxAsync /\ asyncs' = asyncs + 1
  /\ \E r \in Recs : done[r] = "SUCCESS"
  /\ Arrive([code |-> "SYSTEM_ASYNC_STATUS", status |-> "FAILURE", to |-> Nobody])
  /\ foreign' = (foreign \/ owner["config"] \in Procs)
  /\ UNCHANGED <<toolVars, rpc, owner, requests, done, recording>>

LoseRequest ==
  /\ requests # <<>> /\ requests' = Tail(requests)
  /\ UNCHANGED <<toolVars, rpc, owner, inbox, done, asyncs, recording, foreign>>

-----------------------------------------------------------------------------
ToolStep(p) ==
  \/ Check(p) \/ ConnectAsync(p) \/ ConnectConfig(p)
  \/ HandshakeRFDCCard(p) \/ ConfigureRFDCCard(p) \/ ReadRFDCCard_FpgaVersion(p)
  \/ Receive(p) \/ Timeout(p) \/ StopRecordAsyncCmd(p) \/ Disconnect(p) \/ Launch(p) \/ Polled(p)

RecordStep(r) ==
  \/ OpenData(r) \/ OpenConfig(r) \/ StartRecordData(r) \/ StopRecordData(r) \/ ReadDatagram(r)
  \/ GiveUp(r) \/ PublishEnd(r) \/ DisconnectRecord(r)

Next ==
  \/ \E p \in Procs : (\E c \in Commands : Run(p, c)) \/ ToolStep(p) \/ Killed(p)
  \/ \E r \in Recs : RecordStep(r) \/ RecKilled(r)
  \/ FpgaHandles \/ FpgaReports \/ LoseRequest

\* A process that can go on does; the FPGA, the cable and the user need not.
Fairness == \A p \in Procs : WF_vars(ToolStep(p))

Spec == Init /\ [][Next]_vars /\ Fairness

-----------------------------------------------------------------------------
(* Properties.                                                             *)

\* What may wait at the configuration port.
Statuses == {"SUCCESS", "FAILURE", "VERSION"}
Datagrams == [code : {Code[c] : c \in DOMAIN Code} \cup {"RECORD_START", "RECORD_STOP", "SYSTEM_ASYNC_STATUS"},
              status : Statuses, to : Holders \cup {Nobody}]

\* What a command reports is what the FPGA did about that command, as long as no
\* process has left an answer behind and neither a stop_record nor a status of the
\* FPGA has met a process that waits for an answer.  The answers carry no number
\* and are not compared with the request: it all rests on the exclusive port.
AnswerIsOwn ==
  ~foreign =>
    \A p \in Procs :
      /\ result[p] = "SUCCESS" => done[p] = "SUCCESS"
      /\ result[p] = "FAILURE" => done[p] = "FAILURE"
      /\ result[p] = "VERSION" => cmd[p] = "fpga_version" /\ done[p] = "SUCCESS"

\* The process that launches CLI_Record has let go of the configuration port, so
\* that the record process can bind it: start_record polls for ten seconds more.
LauncherLetsGo == \A p \in Procs : pc[p] \in {"launch", "poll"} => owner["config"] # p

\* A command ends, whatever is lost and however long the FPGA takes.
CommandEnds == \A p \in Procs : pc[p] = "check" ~> pc[p] = "done"
==============================================================================
