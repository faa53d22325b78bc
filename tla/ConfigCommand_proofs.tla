------------------------- MODULE ConfigCommand_proofs -------------------------
(* Proofs that the answer a command reports is its own and that a process    *)
(* that launches a recording has let go of the port, for any number of       *)
(* processes, commands and asynchronous statuses.                            *)
EXTENDS ConfigCommand, SequenceTheorems, TLAPS

\* Who has bound the configuration port.
holder == owner["config"]

\* What is sent over the configuration port.
Codes == {Code[c] : c \in DOMAIN Code} \cup {"RECORD_START", "RECORD_STOP", "SYSTEM_ASYNC_STATUS"}
Requests == [from : Holders, code : Codes]

\* Types, and who holds the configuration port at which step.
TypeInv ==
  /\ pc \in [Procs -> {"check", "connect", "connected", "sent", "answered", "launch", "poll", "done"}]
  /\ cmd \in [Procs -> Commands \cup {"none"}]
  /\ result \in [Procs -> Statuses \cup {"none", "UDP_WRITE_ERR", "OS_ERR", "SENT"}]
  /\ rpc \in [Recs -> {"launched", "opened", "connected", "recording", "stopping", "stopped",
                       "ending", "closed"}]
  /\ owner \in [Ports -> Holders \cup {Nobody}]
  /\ requests \in Seq(Requests) /\ inbox \in Seq(Datagrams)
  /\ done \in [Holders -> {"none", "SUCCESS", "FAILURE"}]
  /\ foreign \in BOOLEAN

PortInv ==
  /\ \A p \in Procs : holder = p => pc[p] \in {"connected", "sent", "answered"} /\ cmd[p] # "stop_record"
  /\ \A p \in Procs : pc[p] = "sent" \/ (pc[p] = "connected" /\ cmd[p] # "stop_record") => holder = p
  /\ \A p \in Procs : pc[p] \in {"done", "check", "connect", "connected", "sent"} => result[p] = "none"
  /\ \A p \in Procs : pc[p] # "done" => cmd[p] \in Commands
  /\ \A r \in Recs : holder = r => rpc[r] \in {"connected", "recording", "stopping", "stopped", "ending"}
  /\ \A r \in Recs : rpc[r] \in {"connected", "recording", "stopping", "stopped"} => holder = r
  /\ holder = Nobody => inbox = <<>>

\* What the status of an answer to p says of the FPGA.
Matches(p, st) ==
  /\ st = "SUCCESS" => done[p] = "SUCCESS"
  /\ st = "FAILURE" => done[p] = "FAILURE"
  /\ st = "VERSION" => cmd[p] = "fpga_version" /\ done[p] = "SUCCESS"

\* Every request on the way is the holder's, who waits for the answer.
RequestInv ==
  \A i \in 1..Len(requests) :
    /\ requests[i].from = holder
    /\ \/ holder \in Procs /\ pc[holder] = "sent"
       \/ holder \in Recs /\ rpc[holder] \in {"recording", "stopping"}

\* CLI_Control: its request or its answer, nothing else.
ToolInv ==
  holder \in Procs =>
    /\ Len(requests) + Len(inbox) <= 1
    /\ pc[holder] # "sent" => Len(inbox) = 0
    /\ Len(requests) = 1 => requests[1].code = Code[cmd[holder]]
    /\ Len(inbox) = 1 => Matches(holder, inbox[1].status)

\* CLI_Record: the answer to STOP is the last one, the answer to START the only one
\* as long as STOP has not been sent.
RecordInv ==
  holder \in Recs =>
    /\ rpc[holder] = "connected" =>
         \A i \in 1..Len(inbox) : inbox[i].code \notin {"RECORD_START", "RECORD_STOP"}
    /\ rpc[holder] = "recording" =>
         /\ Len(requests) <= 1
         /\ \A i \in 1..Len(requests) : requests[i].code = "RECORD_START"
         /\ \A i \in 1..Len(inbox) :
              /\ inbox[i].code # "RECORD_STOP"
              /\ inbox[i].code = "RECORD_START" => Len(requests) = 0
    /\ rpc[holder] = "stopping" =>
         /\ \A i \in 1..Len(requests) : requests[i].code = "RECORD_STOP" => i = Len(requests)
         /\ \A i \in 1..Len(inbox) : inbox[i].code = "RECORD_STOP" => Len(requests) = 0

OwnInv ==
  /\ RequestInv /\ ToolInv /\ RecordInv
  /\ \A p \in Procs : Matches(p, result[p])

AnswerInv == TypeInv /\ PortInv /\ (~foreign => OwnInv)

-----------------------------------------------------------------------------
\* Facts about the constants.
LEMMA CodeFacts ==
  /\ "config" \in Ports /\ "data" \in Ports
  /\ Procs \subseteq Holders /\ Recs \subseteq Holders /\ Nobody \notin Holders
  /\ \A c \in Commands : Code[c] \in Codes
  /\ \A c \in Commands : Code[c] = "READ_FPGA_VERSION" => c = "fpga_version"
  /\ \A c \in Commands : Code[c] \notin {"RECORD_START", "RECORD_STOP"}
  /\ {"RECORD_START", "RECORD_STOP", "CLI_ASYNC_RECORD_STOP", "SYSTEM_ASYNC_STATUS"} \subseteq Codes
<1> USE CommandAssumption
<1>1. /\ "config" \in Ports /\ "data" \in Ports
      /\ Procs \subseteq Holders /\ Recs \subseteq Holders /\ Nobody \notin Holders
  BY DEF Ports, Holders
<1>2. \A c \in Commands : Code[c] \in Codes
  BY DEF Codes
<1>3. \A c \in DOMAIN Code : /\ Code[c] = "READ_FPGA_VERSION" => c = "fpga_version"
                             /\ Code[c] \notin {"RECORD_START", "RECORD_STOP"}
  BY DEF Code
<1>4. Code["stop_record"] = "CLI_ASYNC_RECORD_STOP" /\ "stop_record" \in DOMAIN Code
  BY DEF Code
<1>5. {"RECORD_START", "RECORD_STOP", "CLI_ASYNC_RECORD_STOP", "SYSTEM_ASYNC_STATUS"} \subseteq Codes
  BY <1>4 DEF Codes
<1> QED
  BY <1>1, <1>2, <1>3, <1>5

\* Taking the first element of a queue, and adding one.
LEMMA TailLemma ==
  ASSUME NEW S, NEW s \in Seq(S), s # <<>>
  PROVE  /\ Head(s) = s[1] /\ s[1] \in S /\ Len(s) \in Nat \ {0}
         /\ Tail(s) \in Seq(S) /\ Len(Tail(s)) = Len(s) - 1
         /\ \A i \in 1..Len(Tail(s)) : Tail(s)[i] = s[i + 1] /\ i + 1 \in 1..Len(s)
<1>1. Len(s) \in Nat \ {0}
  BY EmptySeq
<1>2. Head(s) = s[1] /\ Tail(s) \in Seq(S) /\ Len(Tail(s)) = Len(s) - 1
  OBVIOUS
<1>3. s[1] \in S
  BY <1>1, ElementOfSeq
<1>4. \A i \in 1..Len(Tail(s)) : Tail(s)[i] = s[i + 1] /\ i + 1 \in 1..Len(s)
  BY <1>1, <1>2
<1> QED
  BY <1>1, <1>2, <1>3, <1>4

LEMMA AnswerInvInit == Init => AnswerInv
<1> SUFFICES ASSUME Init PROVE AnswerInv
  OBVIOUS
<1> USE CodeFacts
<1>1. /\ requests = <<>> /\ inbox = <<>> /\ holder = Nobody /\ ~foreign
      /\ Len(requests) = 0 /\ Len(inbox) = 0
  BY EmptySeq DEF Init, holder
<1>2. TypeInv
  <2>1. requests \in Seq(Requests) /\ inbox \in Seq(Datagrams)
    BY <1>1, EmptySeq
  <2> QED
    BY <2>1 DEF Init, TypeInv
<1>3. PortInv
  BY <1>1 DEF Init, PortInv
<1>4. RequestInv
  BY <1>1 DEF RequestInv
<1>5. ToolInv /\ RecordInv
  BY <1>1 DEF ToolInv, RecordInv
<1>6. \A p \in Procs : Matches(p, result[p])
  BY DEF Init, Matches
<1> QED
  BY <1>2, <1>3, <1>4, <1>5, <1>6 DEF AnswerInv, OwnInv

-----------------------------------------------------------------------------
(* Steps that do not concern the queues.                                     *)

\* A result is kept, or replaced by one that says nothing of the FPGA.
ResultKept(p) ==
  \/ result'[p] \notin {"SUCCESS", "FAILURE", "VERSION"}
  \/ result'[p] = result[p] /\ done'[p] = done[p] /\ cmd'[p] = cmd[p]

\* Somebody else than the holder takes a step.
LEMMA OwnElsewhere ==
  ASSUME OwnInv, UNCHANGED <<requests, inbox>>, holder' = holder,
         holder \in Procs => pc'[holder] = pc[holder] /\ cmd'[holder] = cmd[holder]
                              /\ done'[holder] = done[holder],
         holder \in Recs => rpc'[holder] = rpc[holder],
         \A p \in Procs : ResultKept(p)
  PROVE  OwnInv'
<1>1. RequestInv'
  BY DEF OwnInv, RequestInv
<1>2. ToolInv'
  BY DEF OwnInv, ToolInv, Matches
<1>3. RecordInv'
  BY DEF OwnInv, RecordInv
<1>4. \A p \in Procs : Matches(p, result[p])'
  BY DEF OwnInv, Matches, ResultKept
<1> QED
  BY <1>1, <1>2, <1>3, <1>4 DEF OwnInv

\* The port is let go of, or bound, while no request is on the way and nothing waits.
LEMMA OwnIdle ==
  ASSUME OwnInv, Len(requests') = 0, Len(inbox') = 0,
         \A p \in Procs : ResultKept(p)
  PROVE  OwnInv'
<1>1. RequestInv' /\ ToolInv' /\ RecordInv'
  BY DEF RequestInv, ToolInv, RecordInv
<1>2. \A p \in Procs : Matches(p, result[p])'
  BY DEF OwnInv, Matches, ResultKept
<1> QED
  BY <1>1, <1>2 DEF OwnInv

\* Unless its holder waits for an answer nothing is on the way.
LEMMA NothingOnTheWay ==
  ASSUME TypeInv, OwnInv,
         ~ \/ holder \in Procs /\ pc[holder] = "sent"
           \/ holder \in Recs /\ rpc[holder] \in {"recording", "stopping"}
  PROVE  Len(requests) = 0 /\ requests = <<>>
<1>1. requests \in Seq(Requests) /\ Len(requests) \in Nat
  BY DEF TypeInv
<1>2. Len(requests) = 0
  BY <1>1 DEF OwnInv, RequestInv
<1> QED
  BY <1>1, <1>2, EmptySeq

\* What closing the ports of a process does.
LEMMA CloseLemma ==
  ASSUME TypeInv, NEW h \in Holders, Close(h)
  PROVE  /\ owner' \in [Ports -> Holders \cup {Nobody}] /\ inbox' \in Seq(Datagrams)
         /\ holder = h => holder' = Nobody /\ inbox' = <<>>
         /\ holder # h => holder' = holder /\ inbox' = inbox
<1> USE CodeFacts
<1>1. owner' = [x \in Ports |-> IF owner[x] = h THEN Nobody ELSE owner[x]]
  BY DEF Close
<1>2. owner' \in [Ports -> Holders \cup {Nobody}]
  BY <1>1 DEF TypeInv
<1>3. holder' = IF holder = h THEN Nobody ELSE holder
  BY <1>1 DEF holder
<1>4. inbox' = IF holder = h THEN <<>> ELSE inbox
  BY DEF Close, holder
<1>5. inbox' \in Seq(Datagrams)
  BY <1>4, EmptySeq DEF TypeInv
<1> QED
  BY <1>2, <1>3, <1>4, <1>5

\* The port is closed with nothing on the way, or by somebody who does not hold it.
LEMMA OwnClose ==
  ASSUME TypeInv, OwnInv, NEW h \in Holders, Close(h), UNCHANGED requests,
         holder = h => Len(requests) = 0,
         \A p \in Procs \ {h} : pc'[p] = pc[p] /\ cmd'[p] = cmd[p] /\ done'[p] = done[p],
         \A r \in Recs \ {h} : rpc'[r] = rpc[r],
         \A p \in Procs : ResultKept(p)
  PROVE  OwnInv'
<1>1. CASE holder = h
  <2>1. Len(inbox') = 0 /\ Len(requests') = 0
    BY <1>1, CloseLemma, EmptySeq
  <2> QED
    BY <2>1, OwnIdle
<1>2. CASE holder # h
  <2>1. holder' = holder /\ inbox' = inbox
    BY <1>2, CloseLemma
  <2> QED
    BY <1>2, <2>1, OwnElsewhere
<1> QED
  BY <1>1, <1>2

-----------------------------------------------------------------------------
(* CLI_Control.                                                              *)

LEMMA RunStep ==
  ASSUME AnswerInv, NEW p \in Procs, NEW c \in Commands, Run(p, c)
  PROVE  AnswerInv'
<1> USE CodeFacts
<1>1. TypeInv'
  BY DEF AnswerInv, TypeInv, Run, Step, cableVars
<1>2. PortInv'
  BY DEF AnswerInv, TypeInv, PortInv, Run, Step, holder
<1>3. ASSUME ~foreign' PROVE OwnInv'
  <2>1. /\ OwnInv /\ UNCHANGED <<requests, inbox, done, result, rpc>> /\ holder' = holder
        /\ holder # p /\ result[p] = "none"
        /\ pc' = [pc EXCEPT ![p] = "check"] /\ cmd' = [cmd EXCEPT ![p] = c]
    BY <1>3 DEF AnswerInv, PortInv, Run, Step, cableVars, holder
  <2>2. \A q \in Procs : ResultKept(q)
    BY <2>1 DEF ResultKept, AnswerInv, TypeInv
  <2> QED
    BY <2>1, <2>2, OwnElsewhere DEF AnswerInv, TypeInv
<1> QED
  BY <1>1, <1>2, <1>3 DEF AnswerInv

\* A process that ends, its ports closed if it had them, with nothing of it on the way.
LEMMA EndStep ==
  ASSUME AnswerInv, NEW p \in Procs, Exit(p),
         \/ Close(p)
         \/ UNCHANGED <<owner, inbox>> /\ holder # p,
         UNCHANGED <<rpc, requests>>, foreign' \in BOOLEAN,
         ~foreign' => ~foreign /\ (holder = p => pc[p] # "sent")
  PROVE  AnswerInv'
<1> USE CodeFacts
<1>0. /\ pc' = [pc EXCEPT ![p] = "done"] /\ cmd' = [cmd EXCEPT ![p] = "none"]
      /\ result' = [result EXCEPT ![p] = "none"] /\ done' = [done EXCEPT ![p] = "none"]
  BY DEF Exit, Return
<1>1. /\ owner' \in [Ports -> Holders \cup {Nobody}] /\ inbox' \in Seq(Datagrams)
      /\ holder = p => holder' = Nobody /\ inbox' = <<>>
      /\ holder # p => holder' = holder /\ inbox' = inbox
  BY CloseLemma DEF AnswerInv, TypeInv, holder
<1>2. TypeInv'
  BY <1>0, <1>1 DEF AnswerInv, TypeInv
<1>3. PortInv'
  BY <1>0, <1>1, CommandAssumption DEF AnswerInv, TypeInv, PortInv
<1>4. ASSUME ~foreign' PROVE OwnInv'
  <2>1. \A q \in Procs : ResultKept(q)
    BY <1>0 DEF ResultKept, AnswerInv, TypeInv
  <2>2. OwnInv /\ TypeInv
    BY <1>4 DEF AnswerInv
  <2>3. CASE Close(p)
    <3>1. holder = p => Len(requests) = 0
      BY <1>4, <2>2, NothingOnTheWay, CommandAssumption
    <3> QED
      BY <1>0, <2>1, <2>2, <2>3, <3>1, OwnClose DEF TypeInv
  <2>4. CASE UNCHANGED <<owner, inbox>> /\ holder # p
    BY <1>0, <1>1, <2>1, <2>2, <2>4, OwnElsewhere DEF TypeInv
  <2> QED
    BY <2>3, <2>4
<1> QED
  BY <1>2, <1>3, <1>4 DEF AnswerInv

\* A process that goes on without the port, and without having had it.
LEMMA GoStep ==
  ASSUME AnswerInv, NEW p \in Procs, holder # p,
         NEW to \in {"connect", "connected", "poll"}, Step(p, pc[p], to),
         to = "connected" => cmd[p] = "stop_record",
         pc[p] # "done" /\ (to = "poll" \/ result[p] = "none"),
         UNCHANGED <<cmd, result, done, owner, inbox, requests, foreign>>,
         rpc' \in [Recs -> {"launched", "opened", "connected", "recording", "stopping", "stopped",
                            "ending", "closed"}],
         \A r \in Recs : rpc'[r] = rpc[r] \/ (rpc[r] = "closed" /\ rpc'[r] = "launched")
  PROVE  AnswerInv'
<1> USE CodeFacts
<1>0. pc' = [pc EXCEPT ![p] = to] /\ holder' = holder
  BY DEF Step, holder
<1>1. TypeInv'
  BY <1>0 DEF AnswerInv, TypeInv
<1>2. PortInv'
  BY <1>0 DEF AnswerInv, TypeInv, PortInv
<1>3. ASSUME ~foreign' PROVE OwnInv'
  <2>1. \A q \in Procs : ResultKept(q)
    BY DEF ResultKept
  <2>2. OwnInv /\ TypeInv /\ PortInv
    BY <1>3 DEF AnswerInv
  <2>3. holder \in Recs => rpc'[holder] = rpc[holder]
    BY <2>2 DEF PortInv
  <2> QED
    BY <1>0, <2>1, <2>2, <2>3, OwnElsewhere DEF TypeInv
<1> QED
  BY <1>1, <1>2, <1>3 DEF AnswerInv

LEMMA CheckStep ==
  ASSUME AnswerInv, NEW p \in Procs, Check(p) \/ ConnectAsync(p) \/ Launch(p)
  PROVE  AnswerInv'
<1> USE CodeFacts
<1>1. CASE Check(p)
  <2>1. /\ pc[p] = "check" /\ holder # p /\ result[p] = "none"
        /\ UNCHANGED <<rpc, owner, inbox, requests, foreign>>
        /\ (Step(p, "check", "connect") /\ UNCHANGED <<cmd, result, done>>) \/ Exit(p)
    BY <1>1 DEF Check, AnswerInv, PortInv
  <2> QED
    BY <2>1, GoStep, EndStep DEF AnswerInv, TypeInv
<1>2. CASE ConnectAsync(p)
  <2>1. /\ pc[p] = "connect" /\ holder # p /\ result[p] = "none" /\ cmd[p] = "stop_record"
        /\ UNCHANGED <<cmd, result, done, rpc, owner, inbox, requests, foreign>>
        /\ Step(p, "connect", "connected")
    BY <1>2 DEF ConnectAsync, Step, cableVars, AnswerInv, PortInv
  <2> QED
    BY <2>1, GoStep DEF AnswerInv, TypeInv
<1>3. CASE Launch(p)
  <2>1. pc[p] = "launch" /\ holder # p /\ UNCHANGED <<requests, foreign>>
    BY <1>3 DEF Launch, AnswerInv, PortInv
  <2>2. CASE Exit(p) /\ Close(p) /\ UNCHANGED rpc
    BY <2>1, <2>2, EndStep DEF AnswerInv, TypeInv
  <2>3. CASE /\ Step(p, "launch", "poll") /\ UNCHANGED <<cmd, result, done>>
             /\ \E r \in Recs : /\ rpc[r] = "closed" /\ Forgotten(r)
                                /\ rpc' = [rpc EXCEPT ![r] = "launched"]
             /\ UNCHANGED <<owner, inbox>>
    BY <2>1, <2>3, GoStep DEF AnswerInv, TypeInv
  <2> QED
    BY <1>3, <2>2, <2>3 DEF Launch
<1> QED
  BY <1>1, <1>2, <1>3

LEMMA ConnectConfigStep ==
  ASSUME AnswerInv, NEW p \in Procs, ConnectConfig(p)
  PROVE  AnswerInv'
<1> USE CodeFacts
<1>1. /\ pc[p] = "connect" /\ cmd[p] # "stop_record" /\ holder # p /\ result[p] = "none"
      /\ UNCHANGED <<rpc, inbox, requests, foreign>>
  BY DEF ConnectConfig, AnswerInv, PortInv
<1>2. CASE holder = Nobody
  <2>1. /\ pc' = [pc EXCEPT ![p] = "connected"] /\ owner' = [owner EXCEPT !["config"] = p]
        /\ UNCHANGED <<cmd, result, done>>
    BY <1>2 DEF ConnectConfig, Free, Step, Bind, holder
  <2>2. holder' = p
    BY <2>1 DEF holder, AnswerInv, TypeInv
  <2>3. TypeInv'
    BY <1>1, <2>1 DEF AnswerInv, TypeInv
  <2>4. PortInv'
    BY <1>1, <1>2, <2>1, <2>2, CommandAssumption DEF AnswerInv, TypeInv, PortInv
  <2>5. ASSUME ~foreign' PROVE OwnInv'
    <3>1. OwnInv /\ TypeInv /\ inbox = <<>>
      BY <1>1, <1>2, <2>5 DEF AnswerInv, PortInv
    <3>2. Len(requests') = 0 /\ Len(inbox') = 0
      BY <1>1, <1>2, <3>1, NothingOnTheWay, EmptySeq
    <3> QED
      BY <2>1, <3>1, <3>2, OwnIdle DEF ResultKept
  <2> QED
    BY <2>3, <2>4, <2>5 DEF AnswerInv
<1>3. CASE holder # Nobody
  <2>1. Exit(p) /\ UNCHANGED owner
    BY <1>3 DEF ConnectConfig, Free, holder
  <2> QED
    BY <1>1, <2>1, EndStep DEF AnswerInv, TypeInv
<1> QED
  BY <1>2, <1>3

\* The holder comes to its answer: with the one that has arrived, or without any.
LEMMA AnswerStep ==
  ASSUME AnswerInv, NEW p \in Procs, pc[p] \in {"connected", "sent"}, Step(p, pc[p], "answered"),
         NEW st \in Statuses \cup {"UDP_WRITE_ERR", "OS_ERR", "SENT"}, Return(p, st),
         holder = p \/ cmd[p] = "stop_record",
         UNCHANGED <<cmd, rpc, owner, requests, done>>, inbox' \in Seq(Datagrams),
         holder = Nobody => inbox' = <<>>,
         foreign' \in BOOLEAN,
         ~foreign' => ~foreign /\ RequestInv' /\ ToolInv' /\ RecordInv' /\ Matches(p, st)
  PROVE  AnswerInv'
<1> USE CodeFacts
<1>1. /\ pc' = [pc EXCEPT ![p] = "answered"] /\ result' = [result EXCEPT ![p] = st]
      /\ holder' = holder
  BY DEF Step, Return, holder
<1>2. TypeInv'
  BY <1>1 DEF AnswerInv, TypeInv
<1>3. PortInv'
  BY <1>1 DEF AnswerInv, TypeInv, PortInv
<1>4. ASSUME ~foreign' PROVE OwnInv'
  <2>1. \A q \in Procs : Matches(q, result[q])
    BY <1>4 DEF AnswerInv, OwnInv
  <2>2. \A q \in Procs : Matches(q, result[q])'
    BY <1>1, <1>4, <2>1 DEF Matches, AnswerInv, TypeInv
  <2> QED
    BY <1>4, <2>2 DEF OwnInv
<1> QED
  BY <1>2, <1>3, <1>4 DEF AnswerInv

LEMMA SendStep ==
  ASSUME AnswerInv, NEW p \in Procs, cmd[p] # "stop_record", SendConfigCmdRequest(p)
  PROVE  AnswerInv'
<1> USE CodeFacts
<1>0. /\ pc[p] = "connected" /\ holder = p /\ cmd[p] \in Commands /\ result[p] = "none"
      /\ UNCHANGED <<cmd, rpc, owner, inbox, done, foreign>> /\ holder' = holder
  BY DEF SendConfigCmdRequest, Step, AnswerInv, PortInv, holder
<1>1. CASE Step(p, "connected", "sent") /\ Send(p, Code[cmd[p]]) /\ UNCHANGED result
  <2> DEFINE q == [from |-> p, code |-> Code[cmd[p]]]
  <2>1. /\ pc' = [pc EXCEPT ![p] = "sent"] /\ requests' = Append(requests, q)
        /\ q \in Requests /\ q.from = p /\ q.code = Code[cmd[p]]
    BY <1>0, <1>1 DEF Step, Send, Requests
  <2> HIDE DEF q
  <2>2. /\ requests' \in Seq(Requests) /\ Len(requests') = Len(requests) + 1
        /\ requests'[Len(requests) + 1] = q
    BY <2>1, AppendProperties DEF AnswerInv, TypeInv
  <2>3. TypeInv'
    BY <1>0, <1>1, <2>1, <2>2 DEF AnswerInv, TypeInv
  <2>4. PortInv'
    BY <1>0, <1>1, <2>1 DEF AnswerInv, TypeInv, PortInv
  <2>5. ASSUME ~foreign' PROVE OwnInv'
    <3>1. OwnInv /\ TypeInv /\ Len(inbox) = 0
      BY <1>0, <2>5 DEF AnswerInv, OwnInv, ToolInv
    <3>2. Len(requests) = 0
      BY <1>0, <3>1, NothingOnTheWay, CommandAssumption
    <3>3. Len(requests') = 1 /\ requests'[1] = q
      BY <2>2, <3>2
    <3>4. pc'[p] = "sent"
      BY <2>1, <3>1 DEF TypeInv
    <3>5. RequestInv'
      BY <1>0, <2>1, <3>3, <3>4 DEF RequestInv
    <3>6. ToolInv'
      BY <1>0, <2>1, <3>1, <3>3, <3>4 DEF ToolInv
    <3>7. RecordInv'
      BY <1>0, CommandAssumption DEF RecordInv
    <3>8. \A x \in Procs : Matches(x, result[x])'
      BY <1>0, <1>1, <3>1 DEF OwnInv, Matches
    <3> QED
      BY <3>5, <3>6, <3>7, <3>8 DEF OwnInv
  <2> QED
    BY <2>3, <2>4, <2>5 DEF AnswerInv
<1>2. CASE Step(p, "connected", "answered") /\ Return(p, "UDP_WRITE_ERR") /\ UNCHANGED requests
  <2>1. inbox' \in Seq(Datagrams) /\ foreign' \in BOOLEAN
    BY <1>0 DEF AnswerInv, TypeInv
  <2>2. ASSUME ~foreign' PROVE RequestInv' /\ ToolInv' /\ RecordInv'
    <3>1. OwnInv /\ TypeInv /\ Len(inbox) = 0
      BY <1>0, <2>2 DEF AnswerInv, OwnInv, ToolInv
    <3>2. Len(requests) = 0
      BY <1>0, <3>1, NothingOnTheWay, CommandAssumption
    <3> QED
      BY <1>0, <1>2, <3>1, <3>2 DEF RequestInv, ToolInv, RecordInv
  <2>3. Matches(p, "UDP_WRITE_ERR")
    BY DEF Matches
  <2> QED
    BY <1>0, <1>2, <2>1, <2>2, <2>3, AnswerStep
<1> QED
  BY <1>1, <1>2 DEF SendConfigCmdRequest

LEMMA ReceiveStep ==
  ASSUME AnswerInv, NEW p \in Procs, Receive(p)
  PROVE  AnswerInv'
<1> USE CodeFacts
<1>0. /\ holder = p /\ inbox # <<>> /\ pc[p] = "sent" /\ Step(p, "sent", "answered")
      /\ Return(p, Head(inbox).status) /\ inbox' = Tail(inbox)
      /\ UNCHANGED <<cmd, rpc, owner, requests, done, foreign>> /\ holder' = holder
  BY DEF Receive, Step, cableVars, holder
<1>1. /\ Head(inbox) = inbox[1] /\ inbox[1] \in Datagrams /\ inbox' \in Seq(Datagrams)
      /\ Len(inbox) \in Nat \ {0} /\ Len(inbox') = Len(inbox) - 1
  BY <1>0, TailLemma DEF AnswerInv, TypeInv
<1>2. inbox[1].status \in Statuses
  BY <1>1 DEF Datagrams
<1>3. ASSUME ~foreign' PROVE RequestInv' /\ ToolInv' /\ RecordInv' /\ Matches(p, inbox[1].status)
  <2>1. OwnInv /\ TypeInv /\ Len(requests) \in Nat
    BY <1>0, <1>3 DEF AnswerInv, TypeInv
  <2>2. Len(inbox) = 1 /\ Len(requests) = 0 /\ Matches(p, inbox[1].status)
    BY <1>0, <1>1, <2>1 DEF OwnInv, ToolInv
  <2> QED
    BY <1>0, <1>1, <2>2, CommandAssumption DEF RequestInv, ToolInv, RecordInv
<1>4. holder # Nobody /\ foreign' \in BOOLEAN
  BY <1>0 DEF AnswerInv, TypeInv
<1> QED
  BY <1>0, <1>1, <1>2, <1>3, <1>4, AnswerStep

LEMMA TimeoutStep ==
  ASSUME AnswerInv, NEW p \in Procs, Timeout(p)
  PROVE  AnswerInv'
<1>1. /\ pc[p] = "sent" /\ Step(p, "sent", "answered") /\ Return(p, "OS_ERR") /\ foreign'
      /\ UNCHANGED <<cmd, rpc, owner, inbox, requests, done>> /\ foreign' = TRUE
  BY DEF Timeout, Step, cableVars
<1>2. holder = p /\ inbox' \in Seq(Datagrams) /\ holder # Nobody
  BY <1>1, CodeFacts DEF AnswerInv, TypeInv, PortInv
<1> QED
  BY <1>1, <1>2, AnswerStep

\* A datagram comes to the port, if somebody has it.
LEMMA ArriveLemma ==
  ASSUME TypeInv, NEW d \in Datagrams, Arrive(d)
  PROVE  /\ inbox' \in Seq(Datagrams)
         /\ holder = Nobody => inbox' = inbox
         /\ holder # Nobody => /\ Len(inbox') = Len(inbox) + 1 /\ inbox'[Len(inbox) + 1] = d
                               /\ \A i \in 1..Len(inbox) : inbox'[i] = inbox[i]
<1>1. inbox' = IF holder = Nobody THEN inbox ELSE Append(inbox, d)
  BY DEF Arrive, Free, holder
<1>2. inbox \in Seq(Datagrams)
  BY DEF TypeInv
<1> QED
  BY <1>1, <1>2, AppendProperties

LEMMA StopAsyncStep ==
  ASSUME AnswerInv, NEW p \in Procs, StopRecordAsyncCmd(p)
  PROVE  AnswerInv'
<1> USE CodeFacts
<1>0. /\ pc[p] = "connected" /\ cmd[p] = "stop_record" /\ Step(p, "connected", "answered")
      /\ UNCHANGED <<cmd, rpc, owner, requests, done>> /\ holder' = holder /\ holder # p
  BY DEF StopRecordAsyncCmd, Step, cableVars, holder, AnswerInv, PortInv
<1>1. CASE Return(p, "UDP_WRITE_ERR") /\ UNCHANGED <<inbox, foreign>>
  <2>1. ASSUME ~foreign' PROVE RequestInv' /\ ToolInv' /\ RecordInv' /\ Matches(p, "UDP_WRITE_ERR")
    <3>1. pc' = [pc EXCEPT ![p] = "answered"] /\ OwnInv /\ TypeInv
      BY <1>0, <1>1, <2>1 DEF Step, AnswerInv
    <3> QED
      BY <1>0, <1>1, <3>1 DEF OwnInv, RequestInv, ToolInv, RecordInv, Matches, TypeInv
  <2> QED
    BY <1>0, <1>1, <2>1, AnswerStep DEF AnswerInv, TypeInv, PortInv
<1>2. CASE /\ Return(p, "SENT")
           /\ Arrive([code |-> "CLI_ASYNC_RECORD_STOP", status |-> "SUCCESS", to |-> p])
           /\ foreign' = (foreign \/ owner["config"] \in Procs)
  <2> DEFINE d == [code |-> "CLI_ASYNC_RECORD_STOP", status |-> "SUCCESS", to |-> p]
  <2>1. d \in Datagrams /\ d.code = "CLI_ASYNC_RECORD_STOP" /\ Arrive(d)
    BY <1>2 DEF Datagrams, Codes, Statuses
  <2> HIDE DEF d
  <2>2. /\ inbox' \in Seq(Datagrams)
        /\ holder = Nobody => inbox' = inbox
        /\ holder # Nobody => /\ Len(inbox') = Len(inbox) + 1 /\ inbox'[Len(inbox) + 1] = d
                              /\ \A i \in 1..Len(inbox) : inbox'[i] = inbox[i]
    BY <2>1, ArriveLemma DEF AnswerInv
  <2>3. ASSUME ~foreign' PROVE RequestInv' /\ ToolInv' /\ RecordInv' /\ Matches(p, "SENT")
    <3>1. /\ pc' = [pc EXCEPT ![p] = "answered"] /\ OwnInv /\ TypeInv /\ holder \notin Procs
          /\ Len(inbox) \in Nat
      <4>1. ~foreign /\ holder \notin Procs
        BY <1>2, <2>3 DEF holder
      <4>2. OwnInv /\ TypeInv
        BY <4>1 DEF AnswerInv
      <4>3. Len(inbox) \in Nat
        BY <4>2 DEF TypeInv
      <4> QED
        BY <1>0, <4>1, <4>2, <4>3 DEF Step
    <3>2. RequestInv' /\ ToolInv' /\ Matches(p, "SENT")
      BY <1>0, <3>1 DEF OwnInv, RequestInv, ToolInv, Matches, TypeInv
    <3>3. RecordInv'
      <4>1. ASSUME holder \in Recs, NEW i \in 1..Len(inbox'), inbox'[i].code # "CLI_ASYNC_RECORD_STOP"
            PROVE  i \in 1..Len(inbox) /\ inbox'[i] = inbox[i]
        BY <2>1, <2>2, <3>1, <4>1
      <4> QED
        BY <1>0, <3>1, <4>1 DEF OwnInv, RecordInv
    <3> QED
      BY <3>2, <3>3
  <2>4. foreign' \in BOOLEAN
    BY <1>2 DEF AnswerInv, TypeInv
  <2>5. holder = Nobody => inbox' = <<>>
    BY <2>2 DEF AnswerInv, PortInv
  <2>6. ~foreign' => ~foreign
    BY <1>2
  <2> QED
    BY <1>0, <1>2, <2>2, <2>3, <2>4, <2>5, <2>6, AnswerStep
<1> QED
  BY <1>0, <1>1, <1>2 DEF StopRecordAsyncCmd

LEMMA LeaveStep ==
  ASSUME AnswerInv, NEW p \in Procs, Disconnect(p) \/ Polled(p) \/ Killed(p)
  PROVE  AnswerInv'
<1> USE CodeFacts
<1>1. CASE Polled(p)
  BY <1>1, EndStep DEF Polled, AnswerInv, TypeInv
<1>2. CASE Killed(p)
  BY <1>2, EndStep DEF Killed, AnswerInv, TypeInv
<1>3. CASE Disconnect(p) /\ ~GoesOn(p)
  BY <1>3, EndStep DEF Disconnect, AnswerInv, TypeInv
<1>4. CASE Disconnect(p) /\ GoesOn(p)
  <2>1. /\ pc[p] = "answered" /\ Close(p)
        /\ \/ pc' = [pc EXCEPT ![p] = "poll"]
           \/ pc' = [pc EXCEPT ![p] = "launch"]
        /\ UNCHANGED <<cmd, result, done, rpc, requests, foreign>>
    BY <1>4 DEF Disconnect, Step
  <2>2. /\ owner' \in [Ports -> Holders \cup {Nobody}] /\ inbox' \in Seq(Datagrams)
        /\ holder = p => holder' = Nobody /\ inbox' = <<>>
        /\ holder # p => holder' = holder /\ inbox' = inbox
    BY <2>1, CloseLemma DEF AnswerInv
  <2>3. TypeInv'
    BY <2>1, <2>2 DEF AnswerInv, TypeInv
  <2>4. PortInv'
    BY <2>1, <2>2, CommandAssumption DEF AnswerInv, TypeInv, PortInv
  <2>5. ASSUME ~foreign' PROVE OwnInv'
    <3>1. OwnInv /\ TypeInv /\ p \in Holders
      BY <2>1, <2>5 DEF AnswerInv
    <3>2. holder = p => Len(requests) = 0
      BY <2>1, <3>1, NothingOnTheWay, CommandAssumption
    <3>3. \A q \in Procs \ {p} : pc'[q] = pc[q]
      BY <2>1, <3>1 DEF TypeInv
    <3>4. \A q \in Procs : ResultKept(q)
      BY <2>1 DEF ResultKept
    <3> QED
      BY <2>1, <3>1, <3>2, <3>3, <3>4, OwnClose
  <2> QED
    BY <2>3, <2>4, <2>5 DEF AnswerInv
<1> QED
  BY <1>1, <1>2, <1>3, <1>4

-----------------------------------------------------------------------------
(* CLI_Record.                                                               *)

\* A record process goes to its next step: types and the holder of the port.
LEMMA RecordTypes ==
  ASSUME AnswerInv, NEW r \in Recs,
         NEW to \in {"opened", "connected", "recording", "stopping", "stopped", "ending"},
         RecStep(r, rpc[r], to),
         UNCHANGED <<pc, cmd, result, done>>, foreign' \in BOOLEAN,
         requests' \in Seq(Requests), inbox' \in Seq(Datagrams),
         \/ /\ UNCHANGED holder /\ (holder = Nobody => inbox' = <<>>)
            /\ IF holder = r THEN to # "opened" ELSE to \in {"opened", "ending"}
         \/ holder = Nobody /\ holder' = r /\ to = "connected",
         owner' \in [Ports -> Holders \cup {Nobody}]
  PROVE  TypeInv' /\ PortInv' /\ rpc' = [rpc EXCEPT ![r] = to]
<1> USE CodeFacts
<1>1. rpc' = [rpc EXCEPT ![r] = to]
  BY DEF RecStep
<1>2. TypeInv'
  BY <1>1 DEF AnswerInv, TypeInv
<1>3. PortInv'
  BY <1>1, CommandAssumption DEF AnswerInv, TypeInv, PortInv
<1> QED
  BY <1>1, <1>2, <1>3

\* ... and its ports stay as they are or it has not the configuration port.
LEMMA RecordAside ==
  ASSUME AnswerInv, NEW r \in Recs, holder # r, NEW to \in {"opened", "ending"},
         RecStep(r, rpc[r], to), UNCHANGED <<pc, cmd, result, done, inbox, requests, foreign>>,
         holder' = holder, owner' \in [Ports -> Holders \cup {Nobody}]
  PROVE  AnswerInv'
<1>1. TypeInv' /\ PortInv' /\ rpc' = [rpc EXCEPT ![r] = to]
  BY RecordTypes DEF AnswerInv, TypeInv, PortInv
<1>2. ASSUME ~foreign' PROVE OwnInv'
  <2>1. OwnInv /\ TypeInv
    BY <1>2 DEF AnswerInv
  <2> QED
    BY <1>1, <2>1, OwnElsewhere DEF ResultKept, TypeInv
<1> QED
  BY <1>1, <1>2 DEF AnswerInv

\* The process ends; it has taken the answers it waited for, or foreign is noted.
LEMMA RecordEnds ==
  ASSUME AnswerInv, NEW r \in Recs, RecExit(r),
         UNCHANGED <<pc, cmd, result, requests>>, foreign' \in BOOLEAN,
         ~foreign' => ~foreign /\ (holder = r => rpc[r] \notin {"recording", "stopping"})
  PROVE  AnswerInv'
<1> USE CodeFacts
<1>0. /\ rpc' = [rpc EXCEPT ![r] = "closed"] /\ done' = [done EXCEPT ![r] = "none"] /\ Close(r)
      /\ r \in Holders
  BY DEF RecExit
<1>1. /\ owner' \in [Ports -> Holders \cup {Nobody}] /\ inbox' \in Seq(Datagrams)
      /\ holder = r => holder' = Nobody /\ inbox' = <<>>
      /\ holder # r => holder' = holder /\ inbox' = inbox
  BY <1>0, CloseLemma DEF AnswerInv
<1>2. TypeInv'
  BY <1>0, <1>1 DEF AnswerInv, TypeInv
<1>3. PortInv'
  BY <1>0, <1>1, CommandAssumption DEF AnswerInv, TypeInv, PortInv
<1>4. ASSUME ~foreign' PROVE OwnInv'
  <2>1. OwnInv /\ TypeInv
    BY <1>4 DEF AnswerInv
  <2>2. holder = r => Len(requests) = 0
    BY <1>4, <2>1, NothingOnTheWay, CommandAssumption
  <2>3. \A p \in Procs : done'[p] = done[p]
    BY <1>0, <2>1, CommandAssumption DEF TypeInv
  <2>4. \A q \in Recs \ {r} : rpc'[q] = rpc[q]
    BY <1>0, <2>1 DEF TypeInv
  <2> QED
    BY <1>0, <2>1, <2>2, <2>3, <2>4, OwnClose DEF ResultKept
<1> QED
  BY <1>2, <1>3, <1>4 DEF AnswerInv

\* The holder takes a step and the queues change in order.
LEMMA RecordHolder ==
  ASSUME AnswerInv, NEW r \in Recs, holder = r,
         NEW to \in {"recording", "stopping", "stopped", "ending"}, RecStep(r, rpc[r], to),
         UNCHANGED <<pc, cmd, result, done, owner>>, foreign' \in BOOLEAN,
         requests' \in Seq(Requests), inbox' \in Seq(Datagrams),
         ~foreign' => ~foreign /\ RequestInv' /\ RecordInv'
  PROVE  AnswerInv'
<1> USE CodeFacts
<1>0. holder' = holder
  BY DEF holder
<1>1. TypeInv' /\ PortInv' /\ rpc' = [rpc EXCEPT ![r] = to]
  BY <1>0, RecordTypes DEF AnswerInv, TypeInv
<1>2. ASSUME ~foreign' PROVE OwnInv'
  <2>1. ToolInv'
    BY <1>0, CommandAssumption DEF ToolInv
  <2>2. \A p \in Procs : Matches(p, result[p])'
    BY <1>2 DEF AnswerInv, OwnInv, Matches
  <2> QED
    BY <1>2, <2>1, <2>2 DEF OwnInv
<1> QED
  BY <1>1, <1>2 DEF AnswerInv

LEMMA OpenStep ==
  ASSUME AnswerInv, NEW r \in Recs, OpenData(r) \/ OpenConfig(r)
  PROVE  AnswerInv'
<1> USE CodeFacts
<1>1. CASE OpenData(r)
  <2>1. /\ rpc[r] = "launched" /\ holder # r
        /\ UNCHANGED <<pc, cmd, result, requests, foreign>>
    BY <1>1 DEF OpenData, toolVars, AnswerInv, PortInv
  <2>2. CASE RecExit(r)
    BY <2>1, <2>2, RecordEnds DEF AnswerInv, TypeInv
  <2>3. CASE RecStep(r, "launched", "opened") /\ Bind(r, "data") /\ UNCHANGED <<done, inbox>>
    <3>1. owner' = [owner EXCEPT !["data"] = r]
      BY <2>3 DEF Bind
    <3>2. holder' = holder /\ owner' \in [Ports -> Holders \cup {Nobody}]
      BY <3>1 DEF holder, AnswerInv, TypeInv
    <3> QED
      BY <2>1, <2>3, <3>2, RecordAside
  <2> QED
    BY <1>1, <2>2, <2>3 DEF OpenData
<1>2. CASE OpenConfig(r)
  <2>1. /\ rpc[r] = "opened" /\ holder # r
        /\ UNCHANGED <<pc, cmd, result, done, inbox, requests, foreign>>
    BY <1>2 DEF OpenConfig, RecStep, toolVars, cableVars, AnswerInv, PortInv
  <2>2. CASE holder # Nobody
    <3>1. RecStep(r, "opened", "ending") /\ UNCHANGED owner
      BY <1>2, <2>2 DEF OpenConfig, Free, holder
    <3> QED
      BY <2>1, <3>1, RecordAside DEF holder, AnswerInv, TypeInv
  <2>3. CASE holder = Nobody
    <3>1. RecStep(r, "opened", "connected") /\ owner' = [owner EXCEPT !["config"] = r]
      BY <1>2, <2>3 DEF OpenConfig, Free, holder, Bind
    <3>2. holder' = r /\ owner' \in [Ports -> Holders \cup {Nobody}]
      BY <3>1 DEF holder, AnswerInv, TypeInv
    <3>3. TypeInv' /\ PortInv'
      BY <2>1, <2>3, <3>1, <3>2, RecordTypes DEF AnswerInv, TypeInv
    <3>4. ASSUME ~foreign' PROVE OwnInv'
      <4>1. OwnInv /\ TypeInv /\ inbox = <<>>
        BY <2>1, <2>3, <3>4 DEF AnswerInv, PortInv
      <4>2. Len(requests') = 0 /\ Len(inbox') = 0
        BY <2>1, <2>3, <4>1, NothingOnTheWay, EmptySeq
      <4> QED
        BY <2>1, <4>1, <4>2, OwnIdle DEF ResultKept
    <3> QED
      BY <3>3, <3>4 DEF AnswerInv
  <2> QED
    BY <2>2, <2>3
<1> QED
  BY <1>1, <1>2

\* A request at the end of those on the way.
LEMMA SendLemma ==
  ASSUME TypeInv, NEW h \in Holders, NEW c \in Codes, Send(h, c)
  PROVE  /\ requests' \in Seq(Requests) /\ Len(requests') = Len(requests) + 1
         /\ requests'[Len(requests) + 1].from = h /\ requests'[Len(requests) + 1].code = c
         /\ \A i \in 1..Len(requests) : requests'[i] = requests[i]
         /\ Len(requests) \in Nat
<1> DEFINE q == [from |-> h, code |-> c]
<1>1. requests' = Append(requests, q) /\ q \in Requests /\ q.from = h /\ q.code = c
  BY DEF Send, Requests
<1> HIDE DEF q
<1>2. requests \in Seq(Requests)
  BY DEF TypeInv
<1> QED
  BY <1>1, <1>2, AppendProperties

LEMMA StartStep ==
  ASSUME AnswerInv, NEW r \in Recs, StartRecordData(r)
  PROVE  AnswerInv'
<1> USE CodeFacts
<1>1. /\ rpc[r] = "connected" /\ holder = r
      /\ UNCHANGED <<pc, cmd, result, done, owner, inbox, foreign>> /\ holder' = holder
  BY DEF StartRecordData, RecStep, toolVars, AnswerInv, PortInv, holder
<1>2. ASSUME ~foreign PROVE OwnInv /\ Len(requests) = 0
  BY <1>1, <1>2, NothingOnTheWay, CommandAssumption DEF AnswerInv
<1>3. CASE RecStep(r, "connected", "recording") /\ Send(r, "RECORD_START")
  <2>1. /\ requests' \in Seq(Requests) /\ Len(requests') = Len(requests) + 1
        /\ requests'[Len(requests) + 1].from = r
        /\ requests'[Len(requests) + 1].code = "RECORD_START"
    BY <1>3, SendLemma DEF AnswerInv
  <2>2. ASSUME ~foreign' PROVE RequestInv' /\ RecordInv'
    <3>1. /\ Len(requests') = 1 /\ requests'[1].from = r /\ requests'[1].code = "RECORD_START"
          /\ rpc'[r] = "recording" /\ OwnInv
      BY <1>1, <1>2, <1>3, <2>1, <2>2 DEF RecStep, AnswerInv, TypeInv
    <3>2. RequestInv'
      BY <1>1, <3>1 DEF RequestInv
    <3>3. \A i \in 1..Len(inbox') : inbox'[i].code \notin {"RECORD_START", "RECORD_STOP"}
      BY <1>1, <3>1 DEF OwnInv, RecordInv
    <3>4. RecordInv'
      BY <1>1, <3>1, <3>3 DEF RecordInv
    <3> QED
      BY <3>2, <3>4
  <2> QED
    BY <1>1, <1>3, <2>1, <2>2, RecordHolder DEF AnswerInv, TypeInv
<1>4. CASE RecStep(r, "connected", "ending") /\ UNCHANGED requests
  <2>1. ASSUME ~foreign' PROVE RequestInv' /\ RecordInv'
    BY <1>1, <1>2, <1>4, <2>1 DEF RecStep, RequestInv, RecordInv, AnswerInv, TypeInv
  <2> QED
    BY <1>1, <1>4, <2>1, RecordHolder DEF AnswerInv, TypeInv
<1> QED
  BY <1>3, <1>4 DEF StartRecordData

\* STOP is sent once, after START.
LEMMA StopSent ==
  ASSUME AnswerInv, NEW r \in Recs, RecStep(r, "recording", "stopping"), Send(r, "RECORD_STOP"),
         UNCHANGED <<pc, cmd, result, done, owner, foreign>>, inbox' \in Seq(Datagrams),
         \A i \in 1..Len(inbox') : \E j \in 1..Len(inbox) : inbox'[i] = inbox[j]
  PROVE  AnswerInv'
<1> USE CodeFacts
<1>1. rpc[r] = "recording" /\ holder = r /\ holder' = holder
  BY DEF RecStep, AnswerInv, PortInv, holder
<1>2. /\ requests' \in Seq(Requests) /\ Len(requests') = Len(requests) + 1
      /\ requests'[Len(requests) + 1].from = r
      /\ \A i \in 1..Len(requests) : requests'[i] = requests[i]
      /\ Len(requests) \in Nat
  BY SendLemma DEF AnswerInv
<1>3. ASSUME ~foreign' PROVE RequestInv' /\ RecordInv'
  <2>1. OwnInv /\ rpc'[r] = "stopping"
    BY <1>3 DEF AnswerInv, RecStep, TypeInv
  <2>2. RequestInv'
    BY <1>1, <1>2, <2>1 DEF OwnInv, RequestInv
  <2>3. \A i \in 1..Len(requests) : requests'[i].code = "RECORD_START"
    BY <1>1, <1>2, <2>1 DEF OwnInv, RecordInv
  <2>4. \A i \in 1..Len(requests') : requests'[i].code = "RECORD_STOP" => i = Len(requests')
    BY <1>2, <2>3
  <2>5. \A i \in 1..Len(inbox') : inbox'[i].code # "RECORD_STOP"
    BY <1>1, <2>1 DEF OwnInv, RecordInv
  <2>6. RecordInv'
    BY <1>1, <2>1, <2>4, <2>5 DEF RecordInv
  <2> QED
    BY <2>2, <2>6
<1> QED
  BY <1>1, <1>2, <1>3, RecordHolder DEF AnswerInv, TypeInv

LEMMA ReadStep ==
  ASSUME AnswerInv, NEW r \in Recs, ReadDatagram(r)
  PROVE  AnswerInv'
<1> USE CodeFacts
<1> DEFINE d == Head(inbox)
<1>1. /\ holder = r /\ inbox # <<>> /\ inbox' = Tail(inbox)
      /\ UNCHANGED <<pc, cmd, result, done, owner, foreign>> /\ holder' = holder
  BY DEF ReadDatagram, toolVars, holder
<1>2. /\ d = inbox[1] /\ Len(inbox) \in Nat \ {0} /\ 1 \in 1..Len(inbox)
      /\ inbox' \in Seq(Datagrams)
      /\ \A i \in 1..Len(inbox') : inbox'[i] = inbox[i + 1] /\ i + 1 \in 1..Len(inbox)
  BY <1>1, TailLemma DEF AnswerInv, TypeInv
<1> HIDE DEF d
<1>3. \A i \in 1..Len(inbox') : \E j \in 1..Len(inbox) : inbox'[i] = inbox[j]
  BY <1>2
<1>4. ASSUME ~foreign' PROVE OwnInv /\ RecordInv /\ RequestInv
  BY <1>1, <1>4 DEF AnswerInv, OwnInv
<1>5. CASE Stops(d) /\ RecStep(r, "recording", "stopping") /\ Send(r, "RECORD_STOP")
  BY <1>1, <1>2, <1>3, <1>5, StopSent
<1>6. ASSUME NEW from \in {"recording", "stopping"}, RecStep(r, from, "stopped"), UNCHANGED requests,
             ~foreign' => Len(requests) = 0
      PROVE  AnswerInv'
  <2>1. ASSUME ~foreign' PROVE RequestInv' /\ RecordInv'
    <3>1. rpc'[r] = "stopped"
      BY <1>6 DEF RecStep, AnswerInv, TypeInv
    <3> QED
      BY <1>1, <1>6, <2>1, <3>1 DEF RequestInv, RecordInv
  <2>2. rpc[r] = from /\ requests' \in Seq(Requests) /\ foreign' \in BOOLEAN
    BY <1>1, <1>6 DEF RecStep, AnswerInv, TypeInv
  <2> QED
    BY <1>1, <1>2, <1>6, <2>1, <2>2, RecordHolder
<1>7. CASE d.code = "RECORD_STOP" /\ RecStep(r, "stopping", "stopped") /\ UNCHANGED requests
  <2>1. ~foreign' => Len(requests) = 0
    BY <1>1, <1>2, <1>4, <1>7 DEF RecordInv, RecStep
  <2> QED
    BY <1>6, <1>7, <2>1
<1>8. CASE /\ d.code = "RECORD_START"
           /\ RecStep(r, "recording", "stopped") /\ UNCHANGED requests
  <2>1. ~foreign' => Len(requests) = 0
    BY <1>1, <1>2, <1>4, <1>8 DEF RecordInv, RecStep
  <2> QED
    BY <1>6, <1>8, <2>1
<1>9. CASE UNCHANGED <<rpc, requests>>
  <2>1. TypeInv' /\ PortInv'
    BY <1>1, <1>2, <1>9, CommandAssumption DEF AnswerInv, TypeInv, PortInv
  <2>2. ASSUME ~foreign' PROVE OwnInv'
    <3>1. RequestInv'
      BY <1>1, <1>4, <1>9, <2>2 DEF RequestInv
    <3>2. ToolInv'
      BY <1>1, CommandAssumption DEF ToolInv
    <3>3. RecordInv'
      BY <1>1, <1>3, <1>4, <1>9, <2>2 DEF RecordInv
    <3>4. \A p \in Procs : Matches(p, result[p])'
      BY <1>1, <1>4, <2>2 DEF OwnInv, Matches
    <3> QED
      BY <3>1, <3>2, <3>3, <3>4 DEF OwnInv
  <2> QED
    BY <2>1, <2>2 DEF AnswerInv
<1> QED
  BY <1>5, <1>7, <1>8, <1>9 DEF ReadDatagram, d

LEMMA RecordStepKeeps ==
  ASSUME AnswerInv, NEW r \in Recs, RecordStep(r) \/ RecKilled(r)
  PROVE  AnswerInv'
<1> USE CodeFacts
<1>1. CASE StopRecordData(r)
  <2>1. /\ RecStep(r, "recording", "stopping") /\ Send(r, "RECORD_STOP")
        /\ UNCHANGED <<pc, cmd, result, done, owner, inbox, foreign>>
    BY <1>1 DEF StopRecordData, toolVars
  <2>2. inbox' \in Seq(Datagrams)
    BY <2>1 DEF AnswerInv, TypeInv
  <2>3. \A i \in 1..Len(inbox') : \E j \in 1..Len(inbox) : inbox'[i] = inbox[j]
    BY <2>1
  <2> QED
    BY <2>1, <2>2, <2>3, StopSent
<1>2. CASE GiveUp(r)
  <2>1. /\ rpc[r] \in {"recording", "stopping"} /\ RecStep(r, rpc[r], "stopped") /\ foreign' = TRUE
        /\ UNCHANGED <<pc, cmd, result, done, owner, inbox, requests>> /\ holder = r
    BY <1>2 DEF GiveUp, RecStep, toolVars, cableVars, AnswerInv, PortInv
  <2> QED
    BY <2>1, RecordHolder DEF AnswerInv, TypeInv
<1>3. CASE PublishEnd(r)
  <2>1. /\ rpc[r] = "stopped" /\ RecStep(r, "stopped", "ending") /\ holder = r
        /\ UNCHANGED <<pc, cmd, result, done, owner, inbox, requests, foreign>> /\ holder' = holder
    BY <1>3 DEF PublishEnd, RecStep, toolVars, cableVars, AnswerInv, PortInv, holder
  <2>2. ASSUME ~foreign' PROVE RequestInv' /\ RecordInv'
    <3>1. rpc'[r] = "ending" /\ Len(requests) = 0
      BY <2>1, <2>2, NothingOnTheWay, CommandAssumption DEF RecStep, AnswerInv, TypeInv
    <3> QED
      BY <2>1, <3>1 DEF RequestInv, RecordInv
  <2> QED
    BY <2>1, <2>2, RecordHolder DEF AnswerInv, TypeInv
<1>4. CASE DisconnectRecord(r)
  BY <1>4, RecordEnds DEF DisconnectRecord, toolVars, AnswerInv, TypeInv
<1>5. CASE RecKilled(r)
  BY <1>5, RecordEnds DEF RecKilled, toolVars, AnswerInv, TypeInv
<1> QED
  BY <1>1, <1>2, <1>3, <1>4, <1>5, OpenStep, StartStep, ReadStep DEF RecordStep

LEMMA ToolStepKeeps ==
  ASSUME AnswerInv, NEW p \in Procs,
         (\E c \in Commands : Run(p, c)) \/ ToolStep(p) \/ Killed(p)
  PROVE  AnswerInv'
<1>1. CASE HandshakeRFDCCard(p) \/ ConfigureRFDCCard(p) \/ ReadRFDCCard_FpgaVersion(p)
  <2>1. SendConfigCmdRequest(p) /\ cmd[p] # "stop_record"
    BY <1>1 DEF HandshakeRFDCCard, ConfigureRFDCCard, ReadRFDCCard_FpgaVersion, Settings
  <2> QED
    BY <2>1, SendStep
<1> QED
  BY <1>1, RunStep, CheckStep, ConnectConfigStep, ReceiveStep, TimeoutStep, StopAsyncStep, LeaveStep
     DEF ToolStep

-----------------------------------------------------------------------------
(* The FPGA and the cable.                                                   *)

\* The first request is taken off the cable.
LEMMA TakenLemma ==
  ASSUME AnswerInv, requests # <<>>, requests' = Tail(requests)
  PROVE  /\ requests' \in Seq(Requests) /\ Len(requests) \in Nat \ {0} /\ 1 \in 1..Len(requests)
         /\ Len(requests') = Len(requests) - 1
         /\ Head(requests) = requests[1] /\ requests[1] \in Requests
         /\ \A i \in 1..Len(requests') : requests'[i] = requests[i + 1] /\ i + 1 \in 1..Len(requests)
<1>1. requests \in Seq(Requests)
  BY DEF AnswerInv, TypeInv
<1> QED
  BY <1>1, TailLemma

LEMMA LoseStep ==
  ASSUME AnswerInv, LoseRequest
  PROVE  AnswerInv'
<1> USE CodeFacts
<1>1. /\ requests # <<>> /\ requests' = Tail(requests)
      /\ UNCHANGED <<pc, cmd, result, rpc, owner, inbox, done, foreign>> /\ holder' = holder
  BY DEF LoseRequest, toolVars, holder
<1>2. /\ requests' \in Seq(Requests) /\ Len(requests) \in Nat \ {0}
      /\ Len(requests') = Len(requests) - 1
      /\ \A i \in 1..Len(requests') : requests'[i] = requests[i + 1] /\ i + 1 \in 1..Len(requests)
  BY <1>1, TakenLemma
<1>3. TypeInv'
  BY <1>1, <1>2 DEF AnswerInv, TypeInv
<1>4. PortInv'
  BY <1>1 DEF AnswerInv, PortInv
<1>5. ASSUME ~foreign' PROVE OwnInv'
  <2>1. OwnInv /\ Len(inbox) \in Nat
    BY <1>1, <1>5 DEF AnswerInv, TypeInv
  <2>2. RequestInv'
    BY <1>1, <1>2, <2>1 DEF OwnInv, RequestInv
  <2>3. ToolInv'
    <3> SUFFICES ASSUME holder \in Procs PROVE ToolInv'
      BY <1>1 DEF ToolInv
    <3>1. Len(requests) + Len(inbox) <= 1 /\ (pc[holder] # "sent" => Len(inbox) = 0)
      BY <2>1 DEF OwnInv, ToolInv
    <3>2. Len(requests') = 0 /\ Len(inbox') = 0
      BY <1>1, <1>2, <2>1, <3>1
    <3> QED
      BY <3>2 DEF ToolInv
  <2>4. RecordInv'
    <3> SUFFICES ASSUME holder \in Recs PROVE RecordInv'
      BY <1>1 DEF RecordInv
    <3>1. CASE rpc[holder] = "connected"
      BY <1>1, <2>1, <3>1 DEF OwnInv, RecordInv
    <3>2. CASE rpc[holder] = "recording"
      <4>1. Len(requests') = 0
        BY <1>2, <2>1, <3>2 DEF OwnInv, RecordInv
      <4> QED
        BY <1>1, <2>1, <3>2, <4>1 DEF OwnInv, RecordInv
    <3>3. CASE rpc[holder] = "stopping"
      <4>1. \A i \in 1..Len(requests') :
              requests'[i].code = "RECORD_STOP" => i + 1 = Len(requests)
        BY <1>2, <2>1, <3>3 DEF OwnInv, RecordInv
      <4>2. \A i \in 1..Len(requests') : requests'[i].code = "RECORD_STOP" => i = Len(requests')
        BY <1>2, <4>1
      <4>3. \A i \in 1..Len(inbox') : inbox'[i].code # "RECORD_STOP"
        BY <1>1, <1>2, <2>1, <3>3 DEF OwnInv, RecordInv
      <4> QED
        BY <1>1, <3>3, <4>2, <4>3 DEF RecordInv
    <3> QED
      BY <1>1, <3>1, <3>2, <3>3 DEF RecordInv
  <2>5. \A p \in Procs : Matches(p, result[p])'
    BY <1>1, <2>1 DEF OwnInv, Matches
  <2> QED
    BY <2>2, <2>3, <2>4, <2>5 DEF OwnInv
<1> QED
  BY <1>3, <1>4, <1>5 DEF AnswerInv

LEMMA ReportStep ==
  ASSUME AnswerInv, FpgaReports
  PROVE  AnswerInv'
<1> USE CodeFacts
<1> DEFINE d == [code |-> "SYSTEM_ASYNC_STATUS", status |-> "FAILURE", to |-> Nobody]
<1>1. /\ Arrive(d) /\ d \in Datagrams /\ d.code = "SYSTEM_ASYNC_STATUS"
      /\ foreign' = (foreign \/ holder \in Procs)
      /\ UNCHANGED <<pc, cmd, result, rpc, owner, requests, done>> /\ holder' = holder
  BY DEF FpgaReports, toolVars, holder, Datagrams, Codes, Statuses
<1> HIDE DEF d
<1>2. /\ inbox' \in Seq(Datagrams)
      /\ holder = Nobody => inbox' = inbox
      /\ holder # Nobody => /\ Len(inbox') = Len(inbox) + 1 /\ inbox'[Len(inbox) + 1] = d
                            /\ \A i \in 1..Len(inbox) : inbox'[i] = inbox[i]
  BY <1>1, ArriveLemma DEF AnswerInv
<1>3. TypeInv'
  BY <1>1, <1>2 DEF AnswerInv, TypeInv
<1>4. PortInv'
  BY <1>1, <1>2 DEF AnswerInv, PortInv
<1>5. ASSUME ~foreign' PROVE OwnInv'
  <2>0. ~foreign /\ holder \notin Procs
    BY <1>1, <1>5
  <2>1. OwnInv /\ Len(inbox) \in Nat
    BY <2>0 DEF AnswerInv, TypeInv
  <2>2. RequestInv' /\ ToolInv'
    BY <1>1, <2>0, <2>1 DEF OwnInv, RequestInv, ToolInv
  <2>3. RecordInv'
    <3>1. ASSUME holder \in Recs, NEW i \in 1..Len(inbox'), inbox'[i].code # "SYSTEM_ASYNC_STATUS"
          PROVE  i \in 1..Len(inbox) /\ inbox'[i] = inbox[i]
      BY <1>1, <1>2, <2>1, <3>1
    <3> QED
      BY <1>1, <2>1, <3>1 DEF OwnInv, RecordInv
  <2>4. \A p \in Procs : Matches(p, result[p])'
    BY <1>1, <2>1 DEF OwnInv, Matches
  <2> QED
    BY <2>2, <2>3, <2>4 DEF OwnInv
<1> QED
  BY <1>3, <1>4, <1>5 DEF AnswerInv

LEMMA HandleStep ==
  ASSUME AnswerInv, FpgaHandles
  PROVE  AnswerInv'
<1> USE CodeFacts
<1> DEFINE q == requests[1]
           d(ok) == [code |-> q.code, to |-> q.from,
                     status |-> IF ~ok THEN "FAILURE"
                                ELSE IF q.code = "READ_FPGA_VERSION" THEN "VERSION" ELSE "SUCCESS"]
<1>1. /\ requests' \in Seq(Requests) /\ Len(requests) \in Nat \ {0} /\ 1 \in 1..Len(requests)
      /\ Len(requests') = Len(requests) - 1 /\ Head(requests) = q /\ q \in Requests
      /\ \A i \in 1..Len(requests') : requests'[i] = requests[i + 1] /\ i + 1 \in 1..Len(requests)
  BY TakenLemma DEF FpgaHandles
<1>2. PICK ok \in BOOLEAN :
        /\ done' = IF Ended(q.from) THEN done
                   ELSE [done EXCEPT ![q.from] = IF ok THEN "SUCCESS" ELSE "FAILURE"]
        /\ Arrive(d(ok)) \/ UNCHANGED inbox
  BY <1>1 DEF FpgaHandles
<1>3. UNCHANGED <<pc, cmd, result, rpc, owner, foreign>> /\ holder' = holder
  BY DEF FpgaHandles, toolVars, holder
<1>4. q.from \in Holders /\ q.code \in Codes
  BY <1>1 DEF Requests
<1> DEFINE a == d(ok)
<1>5. /\ a \in Datagrams /\ a.code = q.code
      /\ a.status = IF ~ok THEN "FAILURE"
                    ELSE IF q.code = "READ_FPGA_VERSION" THEN "VERSION" ELSE "SUCCESS"
  BY <1>4 DEF Datagrams, Codes, Statuses
<1>6. Arrive(a) \/ inbox' = inbox
  BY <1>2
<1> HIDE DEF q, a
<1>7. /\ inbox' \in Seq(Datagrams) /\ Len(inbox) \in Nat
      /\ holder = Nobody => inbox' = inbox
      /\ \/ inbox' = inbox
         \/ /\ Len(inbox') = Len(inbox) + 1 /\ inbox'[Len(inbox) + 1] = a
            /\ \A i \in 1..Len(inbox) : inbox'[i] = inbox[i]
  <2>1. inbox \in Seq(Datagrams) /\ TypeInv
    BY DEF AnswerInv, TypeInv
  <2>2. CASE Arrive(a)
    BY <1>5, <2>1, <2>2, ArriveLemma
  <2> QED
    BY <1>6, <2>1, <2>2
<1>8. TypeInv'
  BY <1>1, <1>2, <1>3, <1>4, <1>7 DEF AnswerInv, TypeInv
<1>9. PortInv'
  BY <1>3, <1>7 DEF AnswerInv, PortInv
<1>10. ASSUME ~foreign' PROVE OwnInv'
  <2>1. OwnInv /\ TypeInv /\ PortInv
    BY <1>3, <1>10 DEF AnswerInv
  <2>2. /\ q.from = holder
        /\ \/ holder \in Procs /\ pc[holder] = "sent"
           \/ holder \in Recs /\ rpc[holder] \in {"recording", "stopping"}
    BY <1>1, <2>1 DEF OwnInv, RequestInv, q
  <2>3. ~Ended(q.from)
    BY <2>2, CommandAssumption DEF Ended
  <2>4. done' = [done EXCEPT ![holder] = IF ok THEN "SUCCESS" ELSE "FAILURE"]
    BY <1>2, <2>2, <2>3
  <2>5. RequestInv'
    BY <1>1, <1>3, <2>1 DEF OwnInv, RequestInv
  <2>6. \A p \in Procs : Matches(p, result[p])'
    <3>1. \A p \in Procs : p = holder => result[p] = "none"
      BY <2>1, <2>2, CommandAssumption DEF PortInv
    <3>2. \A p \in Procs : p # holder => done'[p] = done[p]
      BY <2>1, <2>4 DEF TypeInv
    <3> QED
      BY <1>3, <2>1, <3>1, <3>2 DEF OwnInv, Matches
  <2>7. ToolInv'
    <3> SUFFICES ASSUME holder \in Procs PROVE ToolInv'
      BY <1>3 DEF ToolInv
    <3>1. /\ pc[holder] = "sent" /\ Len(requests) + Len(inbox) <= 1 /\ cmd[holder] \in Commands
          /\ Len(requests) = 1 => requests[1].code = Code[cmd[holder]]
      BY <2>1, <2>2, CommandAssumption DEF OwnInv, ToolInv, PortInv
    <3>2. Len(requests) = 1 /\ Len(inbox) = 0 /\ Len(requests') = 0
      BY <1>1, <1>7, <3>1
    <3>3. q.code = Code[cmd[holder]]
      BY <3>1, <3>2 DEF q
    <3>4. done'[holder] = IF ok THEN "SUCCESS" ELSE "FAILURE"
      BY <2>1, <2>4 DEF TypeInv
    <3>5. /\ a.status = "SUCCESS" => done'[holder] = "SUCCESS"
          /\ a.status = "FAILURE" => done'[holder] = "FAILURE"
          /\ a.status = "VERSION" => cmd[holder] = "fpga_version" /\ done'[holder] = "SUCCESS"
      BY <1>5, <3>1, <3>3, <3>4
    <3>6. \/ inbox' = inbox /\ Len(inbox') = 0
          \/ Len(inbox') = 1 /\ inbox'[1] = a
      <4>1. CASE inbox' = inbox
        BY <3>2, <4>1
      <4>2. CASE Len(inbox') = Len(inbox) + 1 /\ inbox'[Len(inbox) + 1] = a
        BY <3>2, <4>2
      <4> QED
        BY <1>7, <4>1, <4>2
    <3>7. Len(requests') + Len(inbox') <= 1 /\ Len(requests') # 1
      <4>1. Len(inbox') = 0 \/ Len(inbox') = 1
        BY <3>6
      <4>2. Len(requests') = 0
        BY <3>2
      <4>3. CASE Len(inbox') = 0
        BY <4>2, <4>3
      <4>4. CASE Len(inbox') = 1
        BY <4>2, <4>4
      <4> QED
        BY <4>1, <4>3, <4>4
    <3>8. Len(inbox') = 1 =>
            /\ inbox'[1].status = "SUCCESS" => done'[holder'] = "SUCCESS"
            /\ inbox'[1].status = "FAILURE" => done'[holder'] = "FAILURE"
            /\ inbox'[1].status = "VERSION" => cmd'[holder'] = "fpga_version" /\ done'[holder'] = "SUCCESS"
      BY <1>3, <3>5, <3>6
    <3>9. pc'[holder'] = "sent"
      BY <1>3, <3>1
    <3> QED
      BY <3>7, <3>8, <3>9 DEF ToolInv, Matches
  <2>8. RecordInv'
    <3> SUFFICES ASSUME holder \in Recs PROVE RecordInv'
      BY <1>3 DEF RecordInv
    <3>0. rpc[holder] \in {"recording", "stopping"} /\ rpc'[holder'] = rpc[holder]
      BY <1>3, <2>2, CommandAssumption
    <3>1. ASSUME NEW i \in 1..Len(inbox')
          PROVE  inbox'[i].code = q.code \/ (i \in 1..Len(inbox) /\ inbox'[i] = inbox[i])
      BY <1>5, <1>7
    <3>2. CASE rpc[holder] = "recording"
      <4>1. Len(requests) = 1 /\ Len(requests') = 0 /\ q.code = "RECORD_START"
        BY <1>1, <2>1, <3>2 DEF OwnInv, RecordInv, q
      <4>2. \A i \in 1..Len(inbox) : inbox[i].code # "RECORD_STOP"
        BY <2>1, <3>2 DEF OwnInv, RecordInv
      <4>3. \A i \in 1..Len(inbox') : inbox'[i].code # "RECORD_STOP"
        BY <3>1, <4>1, <4>2
      <4> QED
        BY <3>0, <3>2, <4>1, <4>3 DEF RecordInv
    <3>3. CASE rpc[holder] = "stopping"
      <4>1. \A i \in 1..Len(requests) : requests[i].code = "RECORD_STOP" => i = Len(requests)
        BY <2>1, <3>3 DEF OwnInv, RecordInv
      <4>2. q.code = "RECORD_STOP" => Len(requests') = 0
        BY <1>1, <4>1 DEF q
      <4>3. \A i \in 1..Len(requests') : requests'[i].code = "RECORD_STOP" => i = Len(requests')
        BY <1>1, <4>1
      <4>4. \A i \in 1..Len(inbox) : inbox[i].code # "RECORD_STOP"
        BY <1>1, <2>1, <3>3 DEF OwnInv, RecordInv
      <4>5. \A i \in 1..Len(inbox') : inbox'[i].code = "RECORD_STOP" => Len(requests') = 0
        BY <3>1, <4>2, <4>4
      <4> QED
        BY <3>0, <3>3, <4>3, <4>5 DEF RecordInv
    <3> QED
      BY <3>0, <3>2, <3>3
  <2> QED
    BY <2>5, <2>6, <2>7, <2>8 DEF OwnInv
<1> QED
  BY <1>8, <1>9, <1>10 DEF AnswerInv

LEMMA AnswerInvNext == AnswerInv /\ [Next]_vars => AnswerInv'
<1> SUFFICES ASSUME AnswerInv, [Next]_vars PROVE AnswerInv'
  OBVIOUS
<1>1. CASE UNCHANGED vars
  BY <1>1 DEF vars, toolVars, cableVars, AnswerInv, TypeInv, PortInv, OwnInv, RequestInv, ToolInv,
              RecordInv, Matches, holder
<1> QED
  BY <1>1, ToolStepKeeps, RecordStepKeeps, HandleStep, ReportStep, LoseStep DEF Next

\* The invariant of the configuration port holds.
THEOREM AnswerInductive == Spec => []AnswerInv
  BY AnswerInvInit, AnswerInvNext, PTL DEF Spec

\* A command reports what the FPGA did about that command (GetConfigCmdResponse), although
\* answers are not matched with requests, for any number of processes and commands.
THEOREM AnswersAreOwn == Spec => []AnswerIsOwn
<1>1. AnswerInv => AnswerIsOwn
  BY DEF AnswerInv, OwnInv, Matches, AnswerIsOwn
<1> QED
  BY <1>1, AnswerInductive, PTL

\* start_record has let go of the configuration port when CLI_Record is launched.
THEOREM LauncherHasLetGo == Spec => []LauncherLetsGo
<1>1. AnswerInv => LauncherLetsGo
  BY DEF AnswerInv, PortInv, LauncherLetsGo, holder
<1> QED
  BY <1>1, AnswerInductive, PTL
=============================================================================
