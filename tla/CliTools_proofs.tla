--------------------------- MODULE CliTools_proofs ---------------------------
(***************************************************************************)
(* Theorems about CliTools, for any number of record processes and polls.  *)
(***************************************************************************)
EXTENDS CliTools, FiniteSetTheorems, TLAPS

USE ToolsAssumption, SegmentAssumption
USE DEF Key, Procs, CtlGoto, GivesUp, NoCommand, Zeroed

-----------------------------------------------------------------------------
(* The segments.                                                           *)

TheKey == "-1"

ShmOK ==
  /\ listed \in [Keys -> Segs \cup {NoSeg}]
  /\ status \in [Segs -> Statuses] /\ made \in [Segs -> Cards \cup {NoCard}]
  /\ hShmem \in [Procs -> Segs \cup {NoSeg}] /\ attached \in [Procs -> BOOLEAN]

RestOK ==
  /\ port \in [Cards -> Procs \cup {Nobody}]
  /\ cmd \in [name : Commands, card : Cards \cup {NoCard}, rec : Recs \cup {Nobody}]
  /\ cpc \in {"idle", "query", "check", "connect", "talk", "create", "default", "launch", "ask",
              "poll", "end"}
  /\ iLoop \in 0..Polls
  /\ rcard \in [Recs -> Cards \cup {NoCard}]
  /\ rpc \in [Recs -> {"none", "check", "recheck", "default", "connect", "map", "starting",
                       "recording", "exit", "done"}]
  /\ stopper \in [Recs -> {"none", "asked", "stopping", "over"}]
  /\ abandoned \subseteq {"start", "stop"} /\ fault \in BOOLEAN

LEMMA OneKey == Cards # {} => Keys = {TheKey}
  BY DEF Keys, TheKey

\* There is always a segment that no process knows, when one is needed.
LEMMA UnknownSegment ==
  ASSUME ShmOK, Cards # {}, NEW p \in Procs, Found(p) = NoSeg
  PROVE  \E x \in Segs : ~Known(x)
  <1>1. IsFiniteSet(Procs) /\ Cardinality(Procs) = Cardinality(Recs) + 1
    <2>1. Cardinality(Recs) \in Nat
      BY FS_CardinalityType
    <2> QED BY FS_AddElement
  <1>2. IsFiniteSet(Segs) /\ Cardinality(Segs) = Cardinality(Recs) + 2
    <2>1. Cardinality(Recs) \in Nat
      BY FS_CardinalityType
    <2> QED BY <2>1, FS_Interval DEF Segs
  <1> DEFINE Remembered == {hShmem[q] : q \in Procs}
  <1>3. IsFiniteSet(Remembered) /\ Cardinality(Remembered) <= Cardinality(Procs)
    <2>1. hShmem \in Surjection(Procs, Remembered)
      BY DEF ShmOK, Surjection
    <2> QED BY <1>1, <2>1, FS_Surjection
  <1>4. ASSUME NEW x \in Segs, Known(x) PROVE x \in Remembered
    <2>1. listed[TheKey] = NoSeg
      BY OneKey DEF Found, TheKey, ShmOK
    <2> QED BY <1>4, <2>1, OneKey DEF Known, Exists, ShmOK
  <1>5. SUFFICES ASSUME \A x \in Segs : Known(x) PROVE FALSE
    OBVIOUS
  <1>6. Cardinality(Segs) <= Cardinality(Remembered)
    BY <1>3, <1>4, <1>5, FS_Subset
  <1>7. Cardinality(Recs) \in Nat /\ Cardinality(Remembered) \in Nat
    BY <1>3, FS_CardinalityType
  <1> QED BY <1>1, <1>2, <1>3, <1>6, <1>7

LEMMA FoundType ==
  ASSUME ShmOK, Cards # {}, NEW p \in Procs
  PROVE  /\ Found(p) = IF hShmem[p] # NoSeg THEN hShmem[p] ELSE listed[TheKey]
         /\ Found(p) \in Segs \cup {NoSeg}
         /\ listed[TheKey] \in Segs \cup {NoSeg}
  BY OneKey DEF ShmOK, Found, TheKey

\* What the operations of osal_linux.cpp do to the shared memory.
LEMMA QueryEffect ==
  ASSUME ShmOK, Cards # {}, NEW p \in Procs, Query(p)
  PROVE  /\ ShmOK' /\ UNCHANGED <<listed, status>>
         /\ hShmem' = [hShmem EXCEPT ![p] = Found(p)]
  BY FoundType DEF ShmOK, Query

LEMMA WriteEffect ==
  ASSUME ShmOK, NEW p \in Procs, NEW st \in Statuses, Write(p, st)
  PROVE  /\ ShmOK' /\ UNCHANGED <<listed, hShmem>>
         /\ status' = [status EXCEPT ![hShmem[p]] = st]
  BY DEF ShmOK, Write

LEMMA CreateEffect ==
  ASSUME ShmOK, Cards # {}, NEW p \in Procs, CardOf(p) \in Cards \cup {NoCard}, Create(p)
  PROVE  /\ ShmOK'
         /\ \A q \in Procs \ {p} : hShmem'[q] = hShmem[q]
         /\ hShmem'[p] # NoSeg
         /\ Found(p) # NoSeg => UNCHANGED <<listed, status>> /\ hShmem'[p] = Found(p)
         /\ Found(p) = NoSeg => hShmem'[p] = listed'[TheKey]
  <1>1. CASE Found(p) # NoSeg
    BY <1>1, FoundType DEF Create, ShmOK
  <1>2. CASE Found(p) = NoSeg
    <2> DEFINE s == CHOOSE x \in Segs : ~Known(x)
    <2>1. s \in Segs
      BY <1>2, UnknownSegment
    <2>2. /\ listed' = [listed EXCEPT ![TheKey] = s]
          /\ status' = [status EXCEPT ![s] = "IN_PROG"]
          /\ made' = [made EXCEPT ![s] = CardOf(p)]
          /\ hShmem' = [hShmem EXCEPT ![p] = s] /\ attached' = attached
      BY <1>2 DEF Create, TheKey
    <2> HIDE DEF s
    <2>3. ShmOK'
      BY <2>1, <2>2 DEF ShmOK, Statuses
    <2>4. listed'[TheKey] = s /\ s # NoSeg
      BY <2>1, <2>2, OneKey DEF ShmOK
    <2> QED BY <1>2, <2>1, <2>2, <2>3, <2>4 DEF ShmOK
  <1> QED BY <1>1, <1>2

LEMMA ReclaimEffect ==
  ASSUME ShmOK, Cards # {}, listed' \in [Keys -> Segs \cup {NoSeg}], Reclaim
  PROVE  /\ status' \in [Segs -> Statuses] /\ made' \in [Segs -> Cards \cup {NoCard}]
         /\ listed'[TheKey] # NoSeg => status'[listed'[TheKey]] = status[listed'[TheKey]]
  <1>1. status' \in [Segs -> Statuses] /\ made' \in [Segs -> Cards \cup {NoCard}]
    BY DEF Reclaim, ShmOK, Statuses
  <1>2. ASSUME listed'[TheKey] # NoSeg
        PROVE  status'[listed'[TheKey]] = status[listed'[TheKey]]
    <2>1. PICK s \in Segs : s = listed'[TheKey]
      BY <1>2, OneKey
    <2>2. Known(s)'
      BY <2>1, OneKey DEF Known, Exists
    <2> QED BY <2>1, <2>2 DEF Reclaim
  <1> QED BY <1>1, <1>2

LEMMA ReleaseEffect ==
  ASSUME ShmOK, RestOK, Cards # {}, NEW p \in Procs, Release(p)
  PROVE  /\ ShmOK' /\ UNCHANGED listed
         /\ hShmem' = [hShmem EXCEPT ![p] = NoSeg]
         /\ listed[TheKey] # NoSeg => status'[listed[TheKey]] = status[listed[TheKey]]
         /\ port' = [c \in Cards |-> IF port[c] = p THEN Nobody ELSE port[c]]
         /\ port' \in [Cards -> Procs \cup {Nobody}]
  <1>1. /\ listed' = listed /\ Reclaim
        /\ hShmem' = [hShmem EXCEPT ![p] = NoSeg] /\ attached' = [attached EXCEPT ![p] = FALSE]
        /\ port' = [c \in Cards |-> IF port[c] = p THEN Nobody ELSE port[c]]
    BY DEF Release
  <1>2. port' \in [Cards -> Procs \cup {Nobody}]
    BY <1>1 DEF RestOK
  <1> QED BY <1>1, <1>2, ReclaimEffect DEF ShmOK

LEMMA DestroyEffect ==
  ASSUME ShmOK, Cards # {}, NEW p \in Procs, DestroyShm(p)
  PROVE  /\ ShmOK'
         /\ hShmem' = [hShmem EXCEPT ![p] = NoSeg]
         /\ listed'[TheKey] = IF listed[TheKey] = Found(p) THEN NoSeg ELSE listed[TheKey]
         /\ listed'[TheKey] # NoSeg => status'[listed'[TheKey]] = status[listed'[TheKey]]
  <1>1. /\ listed' = [k \in Keys |-> IF listed[k] = Found(p) THEN NoSeg ELSE listed[k]]
        /\ Reclaim
        /\ hShmem' = [hShmem EXCEPT ![p] = NoSeg] /\ attached' = attached
    BY DEF DestroyShm
  <1>2. listed' \in [Keys -> Segs \cup {NoSeg}]
    BY <1>1 DEF ShmOK
  <1>3. listed'[TheKey] = IF listed[TheKey] = Found(p) THEN NoSeg ELSE listed[TheKey]
    BY <1>1, OneKey
  <1> QED BY <1>1, <1>2, <1>3, ReclaimEffect DEF ShmOK

-----------------------------------------------------------------------------
(* Types, and what the steps of the processes have in common.              *)

Live(r) == rpc[r] \notin {"none", "done"}

\* The command of each step of CLI_Control, and the cards of the processes.
CmdInv ==
  /\ cpc # "idle" => cmd.card \in Cards
  /\ cpc \in {"create", "default", "launch"} => cmd.name = "start"
  /\ cpc \in {"ask", "end"} => cmd.name = "stop"
  /\ cpc = "poll" => cmd.name \in {"start", "stop"}
  /\ cpc = "poll" /\ cmd.name = "start" => cmd.rec \in Recs
  /\ \A r \in Recs : Live(r) => rcard[r] \in Cards

\* The segment that CLI_Control remembers is the one that is found.
LookupInv ==
  /\ cpc = "idle" => hShmem["ctl"] = NoSeg
  /\ hShmem["ctl"] # NoSeg => hShmem["ctl"] = listed[TheKey]

BaseInv == ShmOK /\ RestOK /\ CmdInv /\ LookupInv

LEMMA BaseInit == Init => BaseInv
  <1> SUFFICES ASSUME Init PROVE BaseInv
    OBVIOUS
  <1>1. ShmOK
    BY DEF Init, ShmOK, Statuses
  <1>2. RestOK
    <2>1. cmd \in [name : Commands, card : Cards \cup {NoCard}, rec : Recs \cup {Nobody}]
      BY DEF Init, Commands
    <2>2. iLoop \in 0..Polls
      BY DEF Init
    <2>4. abandoned \subseteq {"start", "stop"} /\ fault \in BOOLEAN
      BY DEF Init
    <2>3. port \in [Cards -> Procs \cup {Nobody}] /\ rcard \in [Recs -> Cards \cup {NoCard}]
      BY DEF Init
    <2> QED BY <2>1, <2>2, <2>3, <2>4 DEF Init, RestOK
  <1>3. CmdInv /\ LookupInv
    BY DEF Init, CmdInv, LookupInv, Live
  <1> QED BY <1>1, <1>2, <1>3 DEF BaseInv

LEMMA SomeCard ==
  ASSUME BaseInv, cpc # "idle" \/ \E r \in Recs : Live(r)
  PROVE  Cards # {} /\ \A p \in Procs : CardOf(p) \in Cards \cup {NoCard}
  BY DEF BaseInv, CmdInv, CardOf, RestOK

\* The end of a command, and of a record process.
LEMMA CtlEndsEffect ==
  ASSUME BaseInv, cpc # "idle", CtlEnds
  PROVE  /\ ShmOK' /\ listed' = listed
         /\ hShmem' = [hShmem EXCEPT !["ctl"] = NoSeg]
         /\ listed[TheKey] # NoSeg => status'[listed[TheKey]] = status[listed[TheKey]]
         /\ port' = [c \in Cards |-> IF port[c] = "ctl" THEN Nobody ELSE port[c]]
         /\ port' \in [Cards -> Procs \cup {Nobody}]
         /\ cmd' \in [name : Commands, card : Cards \cup {NoCard}, rec : Recs \cup {Nobody}]
         /\ cpc' = "idle" /\ iLoop' = 0 /\ LookupInv'
  <1>1. /\ ShmOK' /\ listed' = listed
        /\ hShmem' = [hShmem EXCEPT !["ctl"] = NoSeg]
        /\ listed[TheKey] # NoSeg => status'[listed[TheKey]] = status[listed[TheKey]]
        /\ port' = [c \in Cards |-> IF port[c] = "ctl" THEN Nobody ELSE port[c]]
        /\ port' \in [Cards -> Procs \cup {Nobody}]
    BY SomeCard, ReleaseEffect DEF CtlEnds, BaseInv
  <1>2. /\ cmd' \in [name : Commands, card : Cards \cup {NoCard}, rec : Recs \cup {Nobody}]
        /\ cpc' = "idle" /\ iLoop' = 0
    BY DEF CtlEnds, Commands
  <1>3. LookupInv'
    BY <1>1, <1>2 DEF LookupInv, BaseInv, ShmOK
  <1> QED BY <1>1, <1>2, <1>3

LEMMA RecEndsEffect ==
  ASSUME BaseInv, NEW r \in Recs, Live(r), RecEnds(r), UNCHANGED ctlVars
  PROVE  /\ ShmOK' /\ listed' = listed
         /\ hShmem' = [hShmem EXCEPT ![r] = NoSeg]
         /\ listed[TheKey] # NoSeg => status'[listed[TheKey]] = status[listed[TheKey]]
         /\ port' = [c \in Cards |-> IF port[c] = r THEN Nobody ELSE port[c]]
         /\ port' \in [Cards -> Procs \cup {Nobody}]
         /\ rpc' = [rpc EXCEPT ![r] = "done"] /\ stopper' = [stopper EXCEPT ![r] = "none"]
         /\ rcard' = [rcard EXCEPT ![r] = NoCard]
         /\ LookupInv'
  <1>1. /\ ShmOK' /\ listed' = listed
        /\ hShmem' = [hShmem EXCEPT ![r] = NoSeg]
        /\ listed[TheKey] # NoSeg => status'[listed[TheKey]] = status[listed[TheKey]]
        /\ port' = [c \in Cards |-> IF port[c] = r THEN Nobody ELSE port[c]]
        /\ port' \in [Cards -> Procs \cup {Nobody}]
    BY SomeCard, ReleaseEffect DEF RecEnds, BaseInv
  <1>2. LookupInv'
    BY <1>1 DEF LookupInv, BaseInv, ShmOK, ctlVars
  <1> QED BY <1>1, <1>2 DEF RecEnds

\* A query or a write leaves what CLI_Control remembers in place.
LEMMA LookupKept ==
  ASSUME BaseInv, NEW p \in Procs, p # "ctl" \/ cpc' # "idle", p # "ctl" => cpc' = cpc,
         Query(p) \/ (\E st \in Statuses : Write(p, st)) \/ Create(p),
         cpc # "idle" \/ \E r \in Recs : Live(r)
  PROVE  ShmOK' /\ LookupInv'
  <1>1. Cards # {} /\ CardOf(p) \in Cards \cup {NoCard} /\ ShmOK /\ LookupInv
    BY SomeCard DEF BaseInv
  <1>2. CASE Query(p)
    BY <1>1, <1>2, QueryEffect, FoundType DEF LookupInv, ShmOK
  <1>3. CASE \E st \in Statuses : Write(p, st)
    BY <1>1, <1>3, WriteEffect DEF LookupInv
  <1>4. CASE Create(p)
    <2>1. ShmOK'
      BY <1>1, <1>4, CreateEffect
    <2>2. LookupInv'
      <3>1. /\ \A q \in Procs \ {p} : hShmem'[q] = hShmem[q]
            /\ Found(p) # NoSeg => UNCHANGED listed /\ hShmem'[p] = Found(p)
            /\ Found(p) = NoSeg => hShmem'[p] = listed'[TheKey]
        BY <1>1, <1>4, CreateEffect
      <3>2. Found(p) = IF hShmem[p] # NoSeg THEN hShmem[p] ELSE listed[TheKey]
        BY <1>1, FoundType
      <3> QED BY <1>1, <3>1, <3>2 DEF LookupInv
    <2> QED BY <2>1, <2>2
  <1> QED BY <1>2, <1>3, <1>4

LEMMA BaseInvControl ==
  ASSUME BaseInv, Control \/ CtlKilled
  PROVE  BaseInv'
  <1> USE DEF shmVars, ctlVars, recVars
  <1>1. cpc # "idle" /\ Cards # {} /\ CardOf("ctl") \in Cards \cup {NoCard}
    <2>1. cpc # "idle"
      BY DEF Control, CtlKilled, CtlQuery, CtlCheck, CtlConnect, CtlTalk, CtlCreate, CtlDefault,
         CtlLaunch, CtlAsk, CtlPollStart, CtlPollStop, CtlEnd
    <2> QED BY <2>1, SomeCard
  <1>2. ASSUME CtlEnds, UNCHANGED recVars, abandoned' \subseteq {"start", "stop"}, UNCHANGED fault
        PROVE  BaseInv'
    BY <1>1, <1>2, CtlEndsEffect DEF BaseInv, RestOK, CmdInv, Live
  <1>3. CASE CtlQuery
    BY <1>2, <1>3 DEF CtlQuery, BaseInv, RestOK
  <1>4. CASE CtlCheck
    <2>1. CASE CtlEnds
      BY <1>2, <1>4, <2>1 DEF CtlCheck, BaseInv, RestOK
    <2>2. CASE ~CtlEnds
      <3>1. ShmOK' /\ LookupInv'
        BY <1>1, <1>4, <2>2, LookupKept DEF CtlCheck, BaseInv, ShmOK, LookupInv
      <3>2. RestOK' /\ CmdInv'
        BY <1>1, <1>4, <2>2 DEF CtlCheck, BaseInv, RestOK, CmdInv, Live
      <3> QED BY <3>1, <3>2 DEF BaseInv
    <2> QED BY <2>1, <2>2
  <1>5. CASE CtlConnect
    <2>1. CASE CtlEnds
      BY <1>2, <1>5, <2>1 DEF CtlConnect, BaseInv, RestOK
    <2>2. CASE ~CtlEnds
      <3>1. ShmOK' /\ LookupInv'
        BY <1>1, <1>5, <2>2, LookupKept DEF CtlConnect, BaseInv, ShmOK, LookupInv
      <3>2. RestOK' /\ CmdInv'
        BY <1>1, <1>5, <2>2 DEF CtlConnect, BaseInv, RestOK, CmdInv, Live
      <3> QED BY <3>1, <3>2 DEF BaseInv
    <2> QED BY <2>1, <2>2
  <1>6. CASE CtlTalk
    <2>1. CASE CtlEnds
      BY <1>2, <1>6, <2>1 DEF CtlTalk, BaseInv, RestOK
    <2>2. CASE ~CtlEnds
      <3>1. ShmOK' /\ LookupInv'
        BY <1>1, <1>6, <2>2, LookupKept DEF CtlTalk, BaseInv, ShmOK, LookupInv
      <3>2. RestOK' /\ CmdInv'
        BY <1>1, <1>6, <2>2 DEF CtlTalk, BaseInv, RestOK, CmdInv, Live
      <3> QED BY <3>1, <3>2 DEF BaseInv
    <2> QED BY <2>1, <2>2
  <1>7. CASE CtlCreate
    <2>1. ShmOK' /\ LookupInv'
      BY <1>1, <1>7, LookupKept DEF CtlCreate, BaseInv, ShmOK, LookupInv, Statuses
    <2>2. RestOK' /\ CmdInv'
      BY <1>1, <1>7 DEF CtlCreate, BaseInv, RestOK, CmdInv, Live
    <2> QED BY <2>1, <2>2 DEF BaseInv
  <1>8. CASE CtlDefault
    <2>1. ShmOK' /\ LookupInv'
      BY <1>1, <1>8, LookupKept DEF CtlDefault, BaseInv, ShmOK, LookupInv, Statuses
    <2>2. RestOK' /\ CmdInv'
      BY <1>1, <1>8 DEF CtlDefault, BaseInv, RestOK, CmdInv, Live
    <2> QED BY <2>1, <2>2 DEF BaseInv
  <1>9. CASE CtlLaunch
    <2>1. CASE CtlEnds
      <3>1. cpc' = "idle"
        BY <2>1 DEF CtlEnds
      <3>2. UNCHANGED <<recVars, abandoned, fault>>
        BY <1>9, <3>1 DEF CtlLaunch
      <3> QED BY <1>2, <2>1, <3>2 DEF BaseInv, RestOK
    <2>2. CASE ~CtlEnds
      <3>1. ShmOK' /\ LookupInv'
        BY <1>1, <1>9, <2>2, LookupKept DEF CtlLaunch, BaseInv, ShmOK, LookupInv
      <3>2. RestOK' /\ CmdInv'
        BY <1>1, <1>9, <2>2 DEF CtlLaunch, BaseInv, RestOK, CmdInv, Live
      <3> QED BY <3>1, <3>2 DEF BaseInv
    <2> QED BY <2>1, <2>2
  <1>10. CASE CtlAsk
    <2>1. CASE CtlEnds
      <3>1. cpc' = "idle"
        BY <2>1 DEF CtlEnds
      <3>2. UNCHANGED <<recVars, abandoned, fault>>
        BY <1>10, <3>1 DEF CtlAsk
      <3> QED BY <1>2, <2>1, <3>2 DEF BaseInv, RestOK
    <2>2. CASE ~CtlEnds
      <3>1. ShmOK' /\ LookupInv'
        BY <1>1, <1>10, <2>2, LookupKept DEF CtlAsk, BaseInv, ShmOK, LookupInv
      <3>2. RestOK' /\ CmdInv'
        BY <1>1, <1>10, <2>2 DEF CtlAsk, BaseInv, RestOK, CmdInv, Live
      <3> QED BY <3>1, <3>2 DEF BaseInv
    <2> QED BY <2>1, <2>2
  <1>11. CASE CtlPollStart
    <2>1. CASE CtlEnds
      BY <1>2, <1>11, <2>1 DEF CtlPollStart, BaseInv, RestOK
    <2>2. CASE ~CtlEnds
      <3>1. ShmOK' /\ LookupInv'
        BY <1>1, <1>11, <2>2, LookupKept DEF CtlPollStart, BaseInv, ShmOK, LookupInv
      <3>2. iLoop' = iLoop + 1 /\ iLoop # Polls /\ UNCHANGED <<cmd, cpc, port, abandoned, recVars, fault>>
        BY <1>11, <2>2 DEF CtlPollStart
      <3>3. iLoop' \in 0..Polls
        BY <3>2 DEF BaseInv, RestOK
      <3>4. RestOK' /\ CmdInv'
        BY <3>2, <3>3 DEF BaseInv, RestOK, CmdInv, Live
      <3> QED BY <3>1, <3>4 DEF BaseInv
    <2> QED BY <2>1, <2>2
  <1>12. CASE CtlPollStop
    <2>1. cpc = "poll" /\ cmd.name = "stop" /\ UNCHANGED <<port, recVars, fault, cmd>>
      BY <1>12 DEF CtlPollStop
    <2>2. CASE Answers("ctl", Ended) \/ iLoop = Polls
      <3>1. /\ DestroyShm("ctl") /\ cpc' = "end" /\ iLoop' = iLoop
            /\ abandoned' = abandoned \cup (IF ~Answers("ctl", Ended) THEN {"stop"} ELSE {})
        BY <1>12, <2>2 DEF CtlPollStop
      <3>2. ShmOK' /\ hShmem'["ctl"] = NoSeg
        BY <1>1, <3>1, DestroyEffect DEF BaseInv, ShmOK
      <3>3. abandoned' \subseteq {"start", "stop"}
        BY <3>1 DEF BaseInv, RestOK
      <3>4. RestOK' /\ CmdInv'
        BY <2>1, <3>1, <3>3 DEF BaseInv, RestOK, CmdInv, Live
      <3> QED BY <3>1, <3>2, <3>4 DEF BaseInv, LookupInv
    <2>3. CASE ~(Answers("ctl", Ended) \/ iLoop = Polls)
      <3>1. Query("ctl") /\ iLoop' = iLoop + 1 /\ UNCHANGED <<cpc, abandoned>>
        BY <1>12, <2>3 DEF CtlPollStop
      <3>2. ShmOK' /\ LookupInv'
        BY <1>1, <3>1, LookupKept
      <3>3. iLoop' \in 0..Polls
        BY <2>3, <3>1 DEF BaseInv, RestOK
      <3>4. RestOK' /\ CmdInv'
        BY <2>1, <3>1, <3>3 DEF BaseInv, RestOK, CmdInv, Live
      <3> QED BY <3>2, <3>4 DEF BaseInv
    <2> QED BY <2>2, <2>3
  <1>13. CASE CtlEnd
    BY <1>2, <1>13 DEF CtlEnd, BaseInv, RestOK
  <1>14. CASE CtlKilled
    BY <1>2, <1>14 DEF CtlKilled, BaseInv, RestOK
  <1> QED BY <1>3, <1>4, <1>5, <1>6, <1>7, <1>8, <1>9, <1>10, <1>11, <1>12, <1>13, <1>14 DEF Control

LEMMA BaseInvRecord ==
  ASSUME BaseInv, NEW r \in Recs, Record(r) \/ RecReason(r) \/ RecKilled(r)
  PROVE  BaseInv'
  <1> USE DEF shmVars, ctlVars, recVars, Others, RecStep
  <1>1. Live(r) /\ Cards # {} /\ CardOf(r) \in Cards \cup {NoCard} /\ r # "ctl"
    <2>1. Live(r)
      BY DEF Record, RecReason, RecKilled, RecCheck, RecRecheck, RecDefault, RecConnect, RecMap,
         RecFault, RecStarted, StopBegin, StopEnd, RecStopped, RecExit, Live, BaseInv, RestOK
    <2> QED BY <2>1, SomeCard
  <1>2. ASSUME RecEnds(r), UNCHANGED <<cmd, cpc, iLoop, abandoned>>, fault' \in BOOLEAN
        PROVE  BaseInv'
    <2>1. ShmOK' /\ LookupInv' /\ port' \in [Cards -> Procs \cup {Nobody}]
      BY <1>1, <1>2, RecEndsEffect
    <2>2. /\ rpc' = [rpc EXCEPT ![r] = "done"] /\ stopper' = [stopper EXCEPT ![r] = "none"]
          /\ rcard' = [rcard EXCEPT ![r] = NoCard]
      BY <1>2 DEF RecEnds
    <2>3. RestOK' /\ CmdInv'
      BY <1>2, <2>1, <2>2 DEF BaseInv, RestOK, CmdInv, Live
    <2> QED BY <2>1, <2>3 DEF BaseInv
  <1>3. CASE RecCheck(r)
    <2>1. CASE Answers(r, Running)
      BY <1>2, <1>3, <2>1 DEF RecCheck, BaseInv, RestOK
    <2>2. CASE ~Answers(r, Running)
      <3>1. ShmOK' /\ LookupInv'
        BY <1>1, <1>3, <2>2, LookupKept DEF RecCheck
      <3>2. RestOK' /\ CmdInv'
        BY <1>3, <2>2 DEF RecCheck, BaseInv, RestOK, CmdInv, Live
      <3> QED BY <3>1, <3>2 DEF BaseInv
    <2> QED BY <2>1, <2>2
  <1>4. CASE RecRecheck(r)
    <2>1. ShmOK' /\ LookupInv'
      BY <1>1, <1>4, LookupKept DEF RecRecheck, BaseInv, ShmOK, LookupInv, Statuses
    <2>2. RestOK' /\ CmdInv'
      BY <1>1, <1>4 DEF RecRecheck, BaseInv, RestOK, CmdInv, Live
    <2> QED BY <2>1, <2>2 DEF BaseInv
  <1>5. CASE RecDefault(r)
    <2>1. ShmOK' /\ LookupInv'
      BY <1>1, <1>5, LookupKept DEF RecDefault, BaseInv, ShmOK, LookupInv, Statuses
    <2>2. RestOK' /\ CmdInv'
      BY <1>1, <1>5 DEF RecDefault, BaseInv, RestOK, CmdInv, Live
    <2> QED BY <2>1, <2>2 DEF BaseInv
  <1>6. CASE RecConnect(r)
    <2>1. CASE RecEnds(r)
      BY <1>2, <1>6, <2>1 DEF RecConnect, BaseInv, RestOK
    <2>2. CASE ~RecEnds(r)
      <3>1. ShmOK' /\ LookupInv'
        BY <1>6, <2>2 DEF RecConnect, BaseInv, ShmOK, LookupInv
      <3>2. RestOK' /\ CmdInv'
        BY <1>6, <2>2 DEF RecConnect, BaseInv, RestOK, CmdInv, Live
      <3> QED BY <3>1, <3>2 DEF BaseInv
    <2> QED BY <2>1, <2>2
  <1>7. CASE RecMap(r)
    <2>1. ShmOK' /\ LookupInv'
      BY <1>1, <1>7, LookupKept DEF RecMap, BaseInv, ShmOK, LookupInv, Statuses
    <2>2. RestOK' /\ CmdInv'
      BY <1>1, <1>7 DEF RecMap, BaseInv, RestOK, CmdInv, Live
    <2> QED BY <2>1, <2>2 DEF BaseInv
  <1>8. CASE RecFault(r)
    BY <1>2, <1>8 DEF RecFault
  <1>9. CASE RecStarted(r)
    <2>1. ShmOK' /\ LookupInv'
      BY <1>1, <1>9, LookupKept DEF RecStarted, BaseInv, ShmOK, LookupInv, Statuses
    <2>2. RestOK' /\ CmdInv'
      BY <1>1, <1>9 DEF RecStarted, BaseInv, RestOK, CmdInv, Live
    <2> QED BY <2>1, <2>2 DEF BaseInv
  <1>10. CASE RecReason(r)
    <2>1. ShmOK' /\ LookupInv'
      BY <1>1, <1>10, LookupKept DEF RecReason, BaseInv, ShmOK, LookupInv, Statuses
    <2>2. RestOK' /\ CmdInv'
      BY <1>1, <1>10 DEF RecReason, BaseInv, RestOK, CmdInv, Live
    <2> QED BY <2>1, <2>2 DEF BaseInv
  <1>11. CASE StopBegin(r)
    <2>1. ShmOK' /\ LookupInv'
      BY <1>1, <1>11, LookupKept DEF StopBegin, BaseInv, ShmOK, LookupInv, Statuses
    <2>2. RestOK' /\ CmdInv'
      BY <1>1, <1>11 DEF StopBegin, BaseInv, RestOK, CmdInv, Live
    <2> QED BY <2>1, <2>2 DEF BaseInv
  <1>12. CASE StopEnd(r)
    <2>1. ShmOK' /\ LookupInv'
      BY <1>1, <1>12, LookupKept DEF StopEnd, BaseInv, ShmOK, LookupInv, Statuses
    <2>2. RestOK' /\ CmdInv'
      BY <1>1, <1>12 DEF StopEnd, BaseInv, RestOK, CmdInv, Live
    <2> QED BY <2>1, <2>2 DEF BaseInv
  <1>13. CASE RecStopped(r)
    <2>1. ShmOK' /\ LookupInv'
      BY <1>1, <1>13, LookupKept DEF RecStopped, BaseInv, ShmOK, LookupInv, Statuses
    <2>2. RestOK' /\ CmdInv'
      BY <1>1, <1>13 DEF RecStopped, BaseInv, RestOK, CmdInv, Live
    <2> QED BY <2>1, <2>2 DEF BaseInv
  <1>14. CASE RecExit(r)
    BY <1>2, <1>14 DEF RecExit, BaseInv, RestOK
  <1>15. CASE RecKilled(r)
    BY <1>2, <1>15 DEF RecKilled, BaseInv, RestOK
  <1> QED BY <1>3, <1>4, <1>5, <1>6, <1>7, <1>8, <1>9, <1>10, <1>11, <1>12, <1>13, <1>14, <1>15
          DEF Record

LEMMA BaseInvNext ==
  ASSUME BaseInv, [Next]_vars
  PROVE  BaseInv'
  <1> USE DEF shmVars, ctlVars, recVars
  <1>1. ASSUME NEW name \in Commands, NEW c \in Cards, CtlBegin(name, c) PROVE BaseInv'
    <2>1. ShmOK' /\ LookupInv'
      BY <1>1 DEF CtlBegin, BaseInv, ShmOK, LookupInv
    <2>2. cmd' \in [name : Commands, card : Cards \cup {NoCard}, rec : Recs \cup {Nobody}]
            /\ cmd'.card = c
      BY <1>1 DEF CtlBegin
    <2>3. RestOK' /\ CmdInv'
      BY <1>1, <2>2 DEF CtlBegin, BaseInv, RestOK, CmdInv, Live
    <2> QED BY <2>1, <2>3 DEF BaseInv
  <1>2. CASE UNCHANGED vars
    BY <1>2 DEF vars, BaseInv, ShmOK, RestOK, CmdInv, LookupInv, Live
  <1> QED BY <1>1, <1>2, BaseInvControl, BaseInvRecord DEF Next

LEMMA BaseInductive == Spec => []BaseInv
  BY BaseInit, BaseInvNext, PTL DEF Spec

\* The types, for any number of cards, processes and polls; a segment is free whenever one
\* is created, and CLI_Control polls no more often than CLI_CMD_TIMEOUT_DURATION allows.
THEOREM ToolsTypeCorrect == Spec => []TypeOK
  <1>1. BaseInv => TypeOK
    BY DEF BaseInv, ShmOK, RestOK, TypeOK
  <1> QED BY <1>1, BaseInductive, PTL

\* After stop_record the shared memory is gone, for any number of cards: the segment that
\* CLI_Control remembers since its first query is still the one that is found.
THEOREM StopRemovesStatus == Spec => StopClearsStatus
  <1> DEFINE Clears == cpc = "poll" /\ cmd.name = "stop" /\ cpc' = "end" =>
                         listed'[Key(cmd.card)] = NoSeg
  <1>1. ASSUME BaseInv, Next, cpc = "poll", cmd.name = "stop", cpc' = "end"
        PROVE  listed'[Key(cmd.card)] = NoSeg
    <2>1. DestroyShm("ctl")
      BY <1>1 DEF Next, CtlBegin, Control, CtlQuery, CtlCheck, CtlConnect, CtlTalk, CtlCreate,
         CtlDefault, CtlLaunch, CtlAsk, CtlPollStart, CtlPollStop, CtlEnd, CtlKilled, CtlEnds,
         Record, RecReason, RecKilled, RecCheck, RecRecheck, RecDefault, RecConnect, RecMap,
         RecFault, RecStarted, StopBegin, StopEnd, RecStopped, RecExit, Others, ctlVars
    <2>2. Cards # {} /\ ShmOK /\ LookupInv
      BY <1>1, SomeCard DEF BaseInv
    <2>3. Found("ctl") = IF hShmem["ctl"] # NoSeg THEN hShmem["ctl"] ELSE listed[TheKey]
      BY <2>2, FoundType
    <2>4. listed'[TheKey] = NoSeg
      BY <2>1, <2>2, <2>3, DestroyEffect DEF LookupInv
    <2> QED BY <2>4 DEF TheKey
  <1>2. BaseInv /\ [Next]_vars => [Clears]_vars
    BY <1>1
  <1> QED BY <1>2, BaseInductive, PTL DEF Spec, StopClearsStatus

-----------------------------------------------------------------------------
(* One card.  The key does not depend on the card, so that with two cards  *)
(* a recording of one is resumed, reported or stopped as one of the other: *)
(* the properties below are false there.                                   *)

OneCard == \A c, d \in Cards : c = d

Early(r) == rpc[r] \in {"check", "recheck", "default", "connect", "map"}
HoldsPort(r) == rpc[r] \in {"map", "starting", "recording", "exit"}

PortInv ==
  /\ cpc = "talk" => port[cmd.card] = "ctl"
  /\ \A r \in Recs : HoldsPort(r) => port[rcard[r]] = r

FreshInv == \A r \in Recs : ~Live(r) => hShmem[r] = NoSeg

\* As long as no start_record was abandoned, a record process is on its way only while
\* its start_record waits for it, and nobody else works with the segment meanwhile.
StartInv ==
  "start" \notin abandoned =>
    /\ cmd.name = "start" =>
         /\ cpc \in {"talk", "create", "default", "launch"} => \A r \in Recs : ~Live(r)
         /\ cpc = "poll" => \A r \in Recs : Live(r) => r = cmd.rec
         /\ cpc \in {"default", "launch", "poll"} => hShmem["ctl"] # NoSeg
         /\ cpc = "launch" => status[hShmem["ctl"]] = "STOPPED"
    /\ \A r \in Recs : Early(r) =>
         /\ cpc = "poll" /\ cmd.name = "start" /\ cmd.rec = r
         /\ status[hShmem["ctl"]] = "STOPPED"
         /\ hShmem[r] \in {NoSeg, listed[TheKey]}
         /\ rpc[r] \in {"default", "connect", "map"} => hShmem[r] # NoSeg
    /\ ~fault

\* As long as no command was abandoned, the status of a recording that nobody is stopping
\* is its own, in the segment that is found.
Unstopped(r) == rpc[r] \in {"starting", "recording"} /\ stopper[r] \in {"none", "asked"}
RunInv ==
  abandoned = {} => \A r \in Recs : Unstopped(r) =>
    /\ hShmem[r] # NoSeg /\ hShmem[r] = listed[TheKey]
    /\ status[hShmem[r]] = IF rpc[r] = "starting" THEN "START_INIT" ELSE "IN_PROG"

CardInv == PortInv /\ FreshInv /\ StartInv /\ RunInv

LEMMA CardInit == Init => CardInv
  BY DEF Init, CardInv, PortInv, FreshInv, StartInv, RunInv, Unstopped, HoldsPort, Early, Live

\* Two record processes are never alive at once.
LEMMA OneAlive ==
  ASSUME OneCard, BaseInv, CardInv, "start" \notin abandoned,
         NEW r \in Recs, NEW q \in Recs, Live(r), Live(q)
  PROVE  r = q
  <1>1. /\ rcard[r] \in Cards /\ rcard[q] \in Cards /\ rcard[r] = rcard[q]
    BY DEF OneCard, BaseInv, CmdInv
  <1>2. CASE Early(r)
    BY <1>2 DEF CardInv, StartInv
  <1>3. CASE Early(q)
    BY <1>3 DEF CardInv, StartInv
  <1>4. CASE HoldsPort(r) /\ HoldsPort(q)
    BY <1>1, <1>4 DEF CardInv, PortInv
  <1>5. Early(q) \/ HoldsPort(q)
    BY DEF BaseInv, RestOK, Live, Early, HoldsPort
  <1>6. Early(r) \/ HoldsPort(r)
    BY DEF BaseInv, RestOK, Live, Early, HoldsPort
  <1> QED BY <1>2, <1>3, <1>4, <1>5, <1>6

\* The end of a command keeps everything, unless it leaves a process on its way behind.
LEMMA CardInvCtlEnds ==
  ASSUME BaseInv, CardInv, cpc # "idle", CtlEnds, UNCHANGED <<rcard, rpc, stopper, fault>>,
         abandoned \subseteq abandoned',
         "start" \in abandoned' \/ \A r \in Recs : ~Early(r)
  PROVE  CardInv'
  <1>1. /\ listed' = listed /\ hShmem' = [hShmem EXCEPT !["ctl"] = NoSeg]
        /\ listed[TheKey] # NoSeg => status'[listed[TheKey]] = status[listed[TheKey]]
        /\ port' = [c \in Cards |-> IF port[c] = "ctl" THEN Nobody ELSE port[c]]
        /\ cpc' = "idle" /\ cmd'.name = "query"
    BY CtlEndsEffect DEF CtlEnds
  <1>2. PortInv'
    <2>1. \A r \in Recs : HoldsPort(r) => rcard[r] \in Cards /\ r # "ctl"
      BY DEF BaseInv, CmdInv, Live, HoldsPort
    <2> QED BY <1>1, <2>1 DEF CardInv, PortInv, HoldsPort
  <1>3. StartInv'
    BY <1>1 DEF CardInv, StartInv, Early
  <1>4. RunInv'
    <2>1. abandoned' = {} => abandoned = {}
      OBVIOUS
    <2>2. \A r \in Recs : hShmem'[r] = hShmem[r]
      BY <1>1 DEF BaseInv, ShmOK
    <2> QED BY <1>1, <2>1, <2>2 DEF CardInv, RunInv, Unstopped
  <1>5. FreshInv'
    BY <1>1 DEF CardInv, FreshInv, Live, BaseInv, ShmOK
  <1> QED BY <1>2, <1>3, <1>4, <1>5 DEF CardInv

\* The end of a record process keeps everything.
LEMMA CardInvRecEnds ==
  ASSUME BaseInv, CardInv, NEW r \in Recs, Live(r), RecEnds(r),
         UNCHANGED <<cmd, cpc, iLoop, abandoned>>, fault' => fault \/ "start" \in abandoned
  PROVE  CardInv'
  <1>1. /\ listed' = listed /\ hShmem' = [hShmem EXCEPT ![r] = NoSeg]
        /\ listed[TheKey] # NoSeg => status'[listed[TheKey]] = status[listed[TheKey]]
        /\ port' = [c \in Cards |-> IF port[c] = r THEN Nobody ELSE port[c]]
        /\ rpc' = [rpc EXCEPT ![r] = "done"] /\ stopper' = [stopper EXCEPT ![r] = "none"]
        /\ rcard' = [rcard EXCEPT ![r] = NoCard]
    BY RecEndsEffect DEF ctlVars
  <1>2. /\ rpc'[r] = "done" /\ \A q \in Recs \ {r} : /\ rpc'[q] = rpc[q] /\ rcard'[q] = rcard[q]
                                                     /\ stopper'[q] = stopper[q]
                                                     /\ hShmem'[q] = hShmem[q]
        /\ r # "ctl" /\ hShmem'["ctl"] = hShmem["ctl"]
    BY <1>1 DEF BaseInv, RestOK, ShmOK
  <1>3. PortInv'
    <2>1. \A q \in Recs : HoldsPort(q) => rcard[q] \in Cards
      BY DEF BaseInv, CmdInv, Live, HoldsPort
    <2>2. cpc = "talk" => cmd.card \in Cards
      BY DEF BaseInv, CmdInv
    <2> QED BY <1>1, <1>2, <2>1, <2>2 DEF CardInv, PortInv, HoldsPort
  <1>4. StartInv'
    <2>1. hShmem["ctl"] # NoSeg => status'[hShmem["ctl"]] = status[hShmem["ctl"]]
      BY <1>1 DEF BaseInv, LookupInv
    <2>2. \A q \in Recs : Early(q)' => q # r /\ Early(q)
      BY <1>2 DEF Early
    <2>3. \A q \in Recs : Live(q)' => Live(q)
      BY <1>2 DEF Live
    <2> QED BY <1>1, <1>2, <2>1, <2>2, <2>3 DEF CardInv, StartInv, BaseInv, LookupInv
  <1>5. RunInv'
    BY <1>1, <1>2 DEF CardInv, RunInv, Unstopped
  <1>6. FreshInv'
    BY <1>1, <1>2 DEF CardInv, FreshInv, Live, BaseInv, ShmOK
  <1> QED BY <1>3, <1>4, <1>5, <1>6 DEF CardInv

LEMMA CardInvControl ==
  ASSUME OneCard, BaseInv, CardInv, Control \/ CtlKilled
  PROVE  CardInv'
  <1> USE DEF shmVars, ctlVars, recVars
  <1>1. cpc # "idle" /\ Cards # {} /\ CardOf("ctl") \in Cards \cup {NoCard} /\ ShmOK
    <2>1. cpc # "idle"
      BY DEF Control, CtlKilled, CtlQuery, CtlCheck, CtlConnect, CtlTalk, CtlCreate, CtlDefault,
         CtlLaunch, CtlAsk, CtlPollStart, CtlPollStop, CtlEnd
    <2> QED BY <2>1, SomeCard DEF BaseInv
  <1>2. cpc # "poll" \/ cmd.name # "start" => "start" \in abandoned \/ \A r \in Recs : ~Early(r)
    BY DEF CardInv, StartInv
  <1>3. ASSUME CtlEnds, cpc # "poll" \/ cmd.name # "start",
               UNCHANGED <<recVars, fault>>, abandoned \subseteq abandoned'
        PROVE  CardInv'
    BY <1>1, <1>2, <1>3, CardInvCtlEnds
  <1>4. \A r \in Recs : Unstopped(r) \/ Early(r) => Live(r)
    BY DEF Unstopped, Early, Live
  <1>5. CASE CtlQuery \/ CtlEnd
    BY <1>3, <1>5 DEF CtlQuery, CtlEnd
  <1>6. CASE CtlCheck
    <2>1. CASE Answers("ctl", Running) = (cmd.name = "stop")
      <3>1. /\ cpc = "check" /\ cpc' = "connect" /\ UNCHANGED <<cmd, port, recVars, abandoned, fault>>
            /\ Query("ctl")
        BY <1>6, <2>1 DEF CtlCheck
      <3>2. /\ UNCHANGED <<listed, status>> /\ \A r \in Recs : hShmem'[r] = hShmem[r]
        BY <1>1, <3>1, QueryEffect DEF ShmOK
      <3>3. PortInv' /\ FreshInv'
        BY <3>1, <3>2 DEF CardInv, PortInv, FreshInv, HoldsPort, Live
      <3>4. StartInv'
        BY <3>1, <3>2 DEF CardInv, StartInv, Early, Live
      <3>5. RunInv'
        BY <3>1, <3>2 DEF CardInv, RunInv, Unstopped
      <3> QED BY <3>3, <3>4, <3>5 DEF CardInv
    <2>2. CASE ~(Answers("ctl", Running) = (cmd.name = "stop"))
      BY <1>3, <1>6, <2>2 DEF CtlCheck
    <2> QED BY <2>1, <2>2
  <1>7. CASE CtlConnect
    <2>1. CASE CtlEnds
      BY <1>3, <1>7, <2>1 DEF CtlConnect
    <2>2. CASE /\ cmd.name = "stop" /\ cpc' = "ask"
               /\ UNCHANGED <<cmd, shmVars, port, recVars, abandoned, fault>>
      <3>1. PortInv' /\ FreshInv'
        BY <2>2 DEF CardInv, PortInv, FreshInv, HoldsPort, Live
      <3>2. StartInv'
        BY <1>7, <2>2 DEF CtlConnect, CardInv, StartInv, Early, Live
      <3>3. RunInv'
        BY <2>2 DEF CardInv, RunInv, Unstopped
      <3> QED BY <3>1, <3>2, <3>3 DEF CardInv
    <2>3. CASE /\ port[cmd.card] = Nobody /\ port' = [port EXCEPT ![cmd.card] = "ctl"]
               /\ cpc' = "talk" /\ UNCHANGED <<cmd, shmVars, recVars, abandoned, fault>>
      <3>1. cpc = "connect" /\ cmd.card \in Cards /\ port \in [Cards -> Procs \cup {Nobody}]
        BY <1>7 DEF CtlConnect, BaseInv, CmdInv, RestOK
      <3>2. \A r \in Recs : HoldsPort(r) => FALSE
        <4>1. \A r \in Recs : HoldsPort(r) => rcard[r] = cmd.card
          BY <3>1 DEF OneCard, BaseInv, CmdInv, Live, HoldsPort
        <4> QED BY <2>3, <4>1 DEF CardInv, PortInv
      <3>3. "start" \notin abandoned => \A r \in Recs : ~Live(r)
        BY <1>2, <3>1, <3>2 DEF Live, Early, HoldsPort, BaseInv, RestOK
      <3>4. PortInv' /\ FreshInv'
        BY <2>3, <3>1, <3>2 DEF CardInv, PortInv, FreshInv, HoldsPort, Live
      <3>5. StartInv'
        BY <1>4, <2>3, <3>3 DEF CardInv, StartInv, Early, Live
      <3>6. RunInv'
        BY <2>3 DEF CardInv, RunInv, Unstopped
      <3> QED BY <3>4, <3>5, <3>6 DEF CardInv
    <2> QED BY <1>7, <2>1, <2>2, <2>3 DEF CtlConnect
  <1>8. CASE CtlTalk
    <2>1. CASE CtlEnds
      BY <1>3, <1>8, <2>1 DEF CtlTalk
    <2>2. CASE ~CtlEnds
      <3>1. /\ cpc = "talk" /\ cpc' = "create" /\ cmd.name = "start"
            /\ port' = [port EXCEPT ![cmd.card] = Nobody]
            /\ UNCHANGED <<cmd, shmVars, recVars, abandoned, fault>>
        BY <1>8, <2>2 DEF CtlTalk
      <3>2. PortInv' /\ FreshInv'
        BY <3>1 DEF CardInv, PortInv, FreshInv, HoldsPort, Live, BaseInv, RestOK, CmdInv
      <3>3. StartInv'
        BY <3>1 DEF CardInv, StartInv, Early, Live
      <3>4. RunInv'
        BY <3>1 DEF CardInv, RunInv, Unstopped
      <3> QED BY <3>2, <3>3, <3>4 DEF CardInv
    <2> QED BY <2>1, <2>2
  <1>9. CASE CtlCreate
    <2>1. /\ cpc = "create" /\ cpc' = "default" /\ Create("ctl") /\ cmd.name = "start"
          /\ UNCHANGED <<cmd, port, recVars, abandoned, fault>>
      BY <1>9 DEF CtlCreate, BaseInv, CmdInv
    <2>2. hShmem'["ctl"] # NoSeg /\ \A r \in Recs : hShmem'[r] = hShmem[r]
      BY <1>1, <2>1, CreateEffect
    <2>3. "start" \notin abandoned => \A r \in Recs : ~Live(r)
      BY <2>1 DEF CardInv, StartInv
    <2>4. PortInv' /\ FreshInv'
      BY <2>1, <2>2 DEF CardInv, PortInv, FreshInv, HoldsPort, Live
    <2>5. StartInv'
      BY <1>4, <2>1, <2>2, <2>3 DEF CardInv, StartInv, Early, Live
    <2>6. RunInv'
      BY <1>4, <2>1, <2>3 DEF RunInv, Unstopped, Live
    <2> QED BY <2>4, <2>5, <2>6 DEF CardInv
  <1>10. CASE CtlDefault
    <2>1. /\ cpc = "default" /\ cpc' = "launch" /\ Write("ctl", "STOPPED") /\ cmd.name = "start"
          /\ UNCHANGED <<cmd, port, recVars, abandoned, fault>>
      BY <1>10 DEF CtlDefault, BaseInv, CmdInv
    <2>2. UNCHANGED <<listed, hShmem>> /\ status' = [status EXCEPT ![hShmem["ctl"]] = "STOPPED"]
      BY <1>1, <2>1, WriteEffect DEF Statuses
    <2>3. "start" \notin abandoned => (\A r \in Recs : ~Live(r)) /\ hShmem["ctl"] # NoSeg
      BY <2>1 DEF CardInv, StartInv
    <2>4. PortInv' /\ FreshInv'
      BY <2>1, <2>2 DEF CardInv, PortInv, FreshInv, HoldsPort, Live
    <2>5. StartInv'
      BY <1>1, <1>4, <2>1, <2>2, <2>3 DEF CardInv, StartInv, Early, Live, ShmOK
    <2>6. RunInv'
      BY <1>4, <2>1, <2>3 DEF RunInv, Unstopped, Live
    <2> QED BY <2>4, <2>5, <2>6 DEF CardInv
  <1>11. CASE CtlLaunch
    <2>1. CASE CtlEnds
      <3>1. cpc' = "idle"
        BY <2>1 DEF CtlEnds
      <3>2. cpc = "launch" /\ UNCHANGED <<recVars, abandoned, fault>>
        BY <1>11, <3>1 DEF CtlLaunch
      <3> QED BY <1>3, <2>1, <3>2
    <2>2. CASE ~CtlEnds
      <3>1. PICK r \in Recs :
              /\ rpc[r] = "none" /\ rpc' = [rpc EXCEPT ![r] = "check"]
              /\ rcard' = [rcard EXCEPT ![r] = cmd.card] /\ stopper' = stopper
              /\ cmd' = [cmd EXCEPT !.rec = r] /\ cpc' = "poll"
        BY <1>11, <2>2 DEF CtlLaunch
      <3>2. cpc = "launch" /\ cmd.name = "start" /\ UNCHANGED <<shmVars, port, abandoned, fault>>
        BY <1>11, <2>2 DEF CtlLaunch, BaseInv, CmdInv
      <3>3. /\ cmd'.name = "start" /\ cmd'.rec = r
            /\ rpc'[r] = "check" /\ \A q \in Recs \ {r} : rpc'[q] = rpc[q] /\ rcard'[q] = rcard[q]
            /\ hShmem[r] = NoSeg
        BY <3>1, <3>2 DEF BaseInv, RestOK, CardInv, FreshInv, Live
      <3>4. PortInv' /\ FreshInv'
        BY <3>1, <3>2, <3>3 DEF CardInv, PortInv, FreshInv, HoldsPort, Live
      <3>5. StartInv'
        BY <1>4, <3>1, <3>2, <3>3 DEF CardInv, StartInv, Early, Live
      <3>6. RunInv'
        BY <3>1, <3>2, <3>3 DEF CardInv, RunInv, Unstopped
      <3> QED BY <3>4, <3>5, <3>6 DEF CardInv
    <2> QED BY <2>1, <2>2
  <1>12. CASE CtlAsk
    <2>1. cpc = "ask" /\ cmd.name = "stop" /\ UNCHANGED <<abandoned, fault>>
      BY <1>12 DEF CtlAsk, BaseInv, CmdInv
    <2>2. CASE CtlEnds
      <3>1. cpc' = "idle"
        BY <2>2 DEF CtlEnds
      <3>2. UNCHANGED recVars
        BY <1>12, <3>1 DEF CtlAsk
      <3> QED BY <1>3, <2>1, <2>2, <3>2
    <2>3. CASE ~CtlEnds
      <3>1. /\ cpc' = "poll" /\ UNCHANGED <<cmd, shmVars, port, rcard, rpc>>
            /\ \A r \in Recs : \/ stopper'[r] = stopper[r]
                             \/ (stopper[r] = "none" /\ stopper'[r] = "asked")
        BY <1>12, <2>3 DEF CtlAsk, BaseInv, RestOK
      <3>2. PortInv' /\ FreshInv'
        BY <2>1, <3>1 DEF CardInv, PortInv, FreshInv, HoldsPort, Live
      <3>3. StartInv'
        BY <2>1, <3>1 DEF CardInv, StartInv, Early, Live
      <3>4. RunInv'
        BY <2>1, <3>1 DEF CardInv, RunInv, Unstopped
      <3> QED BY <3>2, <3>3, <3>4 DEF CardInv
    <2> QED BY <2>2, <2>3
  <1>13. CASE CtlPollStart
    <2>1. cpc = "poll" /\ cmd.name = "start" /\ UNCHANGED <<recVars, fault>>
      BY <1>13 DEF CtlPollStart
    <2>2. CASE Answers("ctl", Running) \/ iLoop = Polls
      <3>1. /\ CtlEnds
            /\ abandoned' = abandoned \cup (IF ~Answers("ctl", Running) THEN {"start"} ELSE {})
        BY <1>13, <2>2 DEF CtlPollStart
      <3>2. ASSUME Answers("ctl", Running), "start" \notin abandoned, NEW r \in Recs, Early(r)
            PROVE  FALSE
        <4>1. hShmem["ctl"] # NoSeg /\ status[hShmem["ctl"]] = "STOPPED"
          BY <2>1, <3>2 DEF CardInv, StartInv
        <4> QED BY <3>2, <4>1 DEF Answers, Found, Running
      <3>3. abandoned \subseteq abandoned' /\ ("start" \in abandoned' \/ \A r \in Recs : ~Early(r))
        BY <3>1, <3>2
      <3> QED BY <1>1, <2>1, <3>1, <3>3, CardInvCtlEnds
    <2>3. CASE ~(Answers("ctl", Running) \/ iLoop = Polls)
      <3>1. Query("ctl") /\ UNCHANGED <<cmd, cpc, port, abandoned>>
        BY <1>13, <2>3 DEF CtlPollStart
      <3>2. /\ UNCHANGED <<listed, status>> /\ \A r \in Recs : hShmem'[r] = hShmem[r]
            /\ hShmem["ctl"] # NoSeg => hShmem'["ctl"] = hShmem["ctl"]
        BY <1>1, <3>1, QueryEffect, FoundType DEF ShmOK
      <3>3. PortInv' /\ FreshInv'
        BY <2>1, <3>1, <3>2 DEF CardInv, PortInv, FreshInv, HoldsPort, Live
      <3>4. StartInv'
        BY <2>1, <3>1, <3>2 DEF CardInv, StartInv, Early, Live
      <3>5. RunInv'
        BY <2>1, <3>1, <3>2 DEF CardInv, RunInv, Unstopped
      <3> QED BY <3>3, <3>4, <3>5 DEF CardInv
    <2> QED BY <2>2, <2>3
  <1>14. CASE CtlPollStop
    <2>1. cpc = "poll" /\ cmd.name = "stop" /\ UNCHANGED <<cmd, port, recVars, fault>>
      BY <1>14 DEF CtlPollStop
    <2>2. CASE Answers("ctl", Ended) \/ iLoop = Polls
      <3>1. /\ DestroyShm("ctl") /\ cpc' = "end"
            /\ abandoned' = abandoned \cup (IF ~Answers("ctl", Ended) THEN {"stop"} ELSE {})
        BY <1>14, <2>2 DEF CtlPollStop
      <3>2. \A r \in Recs : hShmem'[r] = hShmem[r]
        BY <1>1, <3>1, DestroyEffect DEF ShmOK
      <3>3. abandoned' = {} => \A r \in Recs : ~Unstopped(r)
        <4>1. SUFFICES ASSUME abandoned' = {}, NEW r \in Recs, Unstopped(r) PROVE FALSE
          OBVIOUS
        <4>2. abandoned = {} /\ Answers("ctl", Ended)
          BY <3>1, <4>1
        <4>3. listed[TheKey] # NoSeg /\ status[listed[TheKey]] \in {"START_INIT", "IN_PROG"}
          BY <4>1, <4>2 DEF CardInv, RunInv
        <4>4. Found("ctl") = listed[TheKey]
          BY <1>1, FoundType DEF BaseInv, LookupInv
        <4> QED BY <4>2, <4>3, <4>4 DEF Answers, Ended
      <3>4. PortInv' /\ FreshInv'
        BY <2>1, <3>1, <3>2 DEF CardInv, PortInv, FreshInv, HoldsPort, Live
      <3>5. StartInv'
        BY <2>1, <3>1, <3>2 DEF CardInv, StartInv, Early, Live
      <3>6. RunInv'
        BY <2>1, <3>3 DEF RunInv, Unstopped
      <3> QED BY <3>4, <3>5, <3>6 DEF CardInv
    <2>3. CASE ~(Answers("ctl", Ended) \/ iLoop = Polls)
      <3>1. Query("ctl") /\ UNCHANGED <<cpc, abandoned>>
        BY <1>14, <2>3 DEF CtlPollStop
      <3>2. /\ UNCHANGED <<listed, status>> /\ \A r \in Recs : hShmem'[r] = hShmem[r]
        BY <1>1, <3>1, QueryEffect, FoundType DEF ShmOK
      <3>3. PortInv' /\ FreshInv'
        BY <2>1, <3>1, <3>2 DEF CardInv, PortInv, FreshInv, HoldsPort, Live
      <3>4. StartInv'
        BY <2>1, <3>1, <3>2 DEF CardInv, StartInv, Early, Live
      <3>5. RunInv'
        BY <2>1, <3>1, <3>2 DEF CardInv, RunInv, Unstopped
      <3> QED BY <3>3, <3>4, <3>5 DEF CardInv
    <2> QED BY <2>2, <2>3
  <1>15. CASE CtlKilled
    <2>1. CtlEnds /\ UNCHANGED <<recVars, fault>> /\ abandoned \subseteq abandoned'
      BY <1>15 DEF CtlKilled
    <2>2. cpc = "poll" /\ cmd.name = "start" => "start" \in abandoned'
      BY <1>15 DEF CtlKilled
    <2> QED BY <1>1, <1>2, <2>1, <2>2, CardInvCtlEnds
  <1> QED BY <1>5, <1>6, <1>7, <1>8, <1>9, <1>10, <1>11, <1>12, <1>13, <1>14, <1>15 DEF Control

\* A process on its way to record finds the segment that its start_record has prepared.
LEMMA EarlyFinds ==
  ASSUME BaseInv, CardInv, "start" \notin abandoned, NEW r \in Recs, Early(r)
  PROVE  /\ Found(r) = listed[TheKey] /\ listed[TheKey] # NoSeg
         /\ hShmem["ctl"] = listed[TheKey] /\ status[listed[TheKey]] = "STOPPED"
         /\ ~AttachFails(r)
  <1>1. Live(r) /\ Cards # {}
    <2>1. Live(r)
      BY DEF Live, Early
    <2> QED BY <2>1, SomeCard
  <1>2. hShmem["ctl"] # NoSeg /\ hShmem["ctl"] = listed[TheKey]
    BY DEF CardInv, StartInv, BaseInv, LookupInv
  <1>3. hShmem[r] \in {NoSeg, listed[TheKey]} /\ status[hShmem["ctl"]] = "STOPPED"
    BY DEF CardInv, StartInv
  <1>4. Found(r) = listed[TheKey]
    BY <1>1, <1>3, FoundType DEF BaseInv
  <1>5. Exists(listed[TheKey])
    BY <1>1, OneKey DEF Exists
  <1> QED BY <1>2, <1>3, <1>4, <1>5 DEF AttachFails

\* A record process that goes on keeps everything, if it does so for its own part.
LEMMA CardInvRecGoesOn ==
  ASSUME OneCard, BaseInv, CardInv, NEW r \in Recs, Live(r), Live(r)',
         UNCHANGED <<cmd, cpc, rcard, abandoned, fault>>,
         \A q \in Recs \ {r} : rpc'[q] = rpc[q] /\ stopper'[q] = stopper[q],
         \A q \in Procs \ {r} : hShmem'[q] = hShmem[q],
         PortInv',
         "start" \notin abandoned => listed' = listed,
         "start" \notin abandoned /\ Early(r)' =>
           /\ Early(r) /\ status' = status
           /\ hShmem'[r] \in {NoSeg, listed[TheKey]}
           /\ rpc'[r] \in {"default", "connect", "map"} => hShmem'[r] # NoSeg,
         abandoned = {} /\ Unstopped(r)' =>
           /\ hShmem'[r] # NoSeg /\ hShmem'[r] = listed[TheKey]
           /\ status'[hShmem'[r]] = IF rpc'[r] = "starting" THEN "START_INIT" ELSE "IN_PROG"
  PROVE  CardInv'
  <1>1. \A q \in Recs : Live(q)' <=> Live(q)
    BY DEF Live
  <1>2. FreshInv'
    BY <1>1 DEF CardInv, FreshInv
  <1>3. ASSUME "start" \notin abandoned, NEW q \in Recs, q # r
        PROVE  ~Live(q) /\ ~Early(q)' /\ ~Unstopped(q)'
    <2>1. ~Live(q)
      BY <1>3, OneAlive
    <2> QED BY <1>3, <2>1 DEF Live, Early, Unstopped
  <1>4. StartInv'
    <2>1. SUFFICES ASSUME "start" \notin abandoned PROVE StartInv'
      BY DEF StartInv
    <2>2. hShmem'["ctl"] = hShmem["ctl"]
      OBVIOUS
    <2>3. cmd.name = "start" => /\ cpc \notin {"talk", "create", "default", "launch"}
                                /\ cpc = "poll" => \A q \in Recs : Live(q)' => q = cmd.rec
                                /\ cpc = "poll" => hShmem'["ctl"] # NoSeg
      BY <1>1, <2>1, <2>2 DEF CardInv, StartInv
    <2>4. ASSUME NEW q \in Recs, Early(q)'
          PROVE  /\ cpc = "poll" /\ cmd.name = "start" /\ cmd.rec = q
                 /\ status'[hShmem'["ctl"]] = "STOPPED"
                 /\ hShmem'[q] \in {NoSeg, listed'[TheKey]}
                 /\ rpc'[q] \in {"default", "connect", "map"} => hShmem'[q] # NoSeg
      BY <1>3, <2>1, <2>2, <2>4 DEF CardInv, StartInv
    <2>5. ~fault'
      BY <2>1 DEF CardInv, StartInv
    <2> QED BY <2>3, <2>4, <2>5 DEF StartInv
  <1>5. RunInv'
    <2>1. SUFFICES ASSUME abandoned = {}, NEW q \in Recs, Unstopped(q)'
                   PROVE  /\ hShmem'[q] # NoSeg /\ hShmem'[q] = listed'[TheKey]
                          /\ status'[hShmem'[q]] = IF rpc'[q] = "starting" THEN "START_INIT"
                                                                       ELSE "IN_PROG"
      BY DEF RunInv
    <2> QED BY <1>3, <2>1
  <1> QED BY <1>2, <1>4, <1>5 DEF CardInv

LEMMA CardInvRecord ==
  ASSUME OneCard, BaseInv, CardInv, NEW r \in Recs, Record(r) \/ RecReason(r) \/ RecKilled(r)
  PROVE  CardInv'
  <1> USE DEF shmVars, ctlVars, recVars, Others, RecStep
  <1>1. Live(r) /\ Cards # {} /\ CardOf(r) \in Cards \cup {NoCard} /\ r # "ctl" /\ ShmOK
    <2>1. Live(r)
      BY DEF Record, RecReason, RecKilled, RecCheck, RecRecheck, RecDefault, RecConnect, RecMap,
         RecFault, RecStarted, StopBegin, StopEnd, RecStopped, RecExit, Live, BaseInv, RestOK
    <2> QED BY <2>1, SomeCard DEF BaseInv
  <1>2. rpc \in [Recs -> {"none", "check", "recheck", "default", "connect", "map", "starting",
                          "recording", "exit", "done"}]
        /\ stopper \in [Recs -> {"none", "asked", "stopping", "over"}]
    BY DEF BaseInv, RestOK
  <1>3. "start" \notin abandoned /\ Early(r) =>
           /\ Found(r) = listed[TheKey] /\ listed[TheKey] # NoSeg /\ ~AttachFails(r)
           /\ hShmem[r] \in {NoSeg, listed[TheKey]}
           /\ rpc[r] \in {"default", "connect", "map"} => hShmem[r] # NoSeg
    BY EarlyFinds DEF CardInv, StartInv
  <1>4. abandoned = {} /\ Unstopped(r) =>
           /\ hShmem[r] # NoSeg /\ hShmem[r] = listed[TheKey]
           /\ status[hShmem[r]] = IF rpc[r] = "starting" THEN "START_INIT" ELSE "IN_PROG"
    BY DEF CardInv, RunInv
  <1>5. ASSUME UNCHANGED <<port, rcard, cmd, cpc>>, HoldsPort(r)' => HoldsPort(r),
               \A q \in Recs \ {r} : rpc'[q] = rpc[q]
        PROVE  PortInv'
    BY <1>5 DEF CardInv, PortInv, HoldsPort
  <1>6. ASSUME NEW st \in Statuses, Write(r, st)
        PROVE  /\ UNCHANGED <<listed, hShmem>>
               /\ hShmem[r] # NoSeg => status'[hShmem[r]] = st
    BY <1>1, <1>6, WriteEffect DEF ShmOK
  <1>7. ASSUME Query(r)
        PROVE  /\ UNCHANGED <<listed, status>>
               /\ \A q \in Procs \ {r} : hShmem'[q] = hShmem[q]
               /\ hShmem'[r] = Found(r)
    BY <1>1, <1>7, QueryEffect DEF ShmOK
  <1>8. CASE RecCheck(r)
    <2>1. CASE Answers(r, Running)
      BY <1>1, <1>8, <2>1, CardInvRecEnds DEF RecCheck
    <2>2. CASE ~Answers(r, Running)
      <3>1. /\ rpc[r] = "check" /\ rpc' = [rpc EXCEPT ![r] = "recheck"] /\ Query(r)
            /\ UNCHANGED <<cmd, cpc, rcard, abandoned, fault, stopper, port>>
        BY <1>8, <2>2 DEF RecCheck
      <3>2. Early(r) /\ rpc'[r] = "recheck" /\ Live(r)' /\ ~Unstopped(r)'
            /\ \A q \in Recs \ {r} : rpc'[q] = rpc[q]
        BY <1>2, <3>1 DEF Early, Live, Unstopped
      <3>3. PortInv'
        BY <1>5, <3>1, <3>2 DEF HoldsPort
      <3> QED BY <1>1, <1>3, <1>7, <3>1, <3>2, <3>3, CardInvRecGoesOn
    <2> QED BY <2>1, <2>2
  <1>9. CASE RecRecheck(r)
    <2>1. /\ rpc[r] = "recheck" /\ rpc'[r] \in {"default", "connect"}
          /\ \A q \in Recs \ {r} : rpc'[q] = rpc[q]
          /\ UNCHANGED <<cmd, cpc, rcard, abandoned, fault, stopper, port>>
      BY <1>2, <1>9 DEF RecRecheck
    <2>2. Early(r) /\ Live(r)' /\ ~Unstopped(r)'
      BY <2>1 DEF Early, Live, Unstopped
    <2>3. PortInv'
      BY <1>5, <2>1, <2>2 DEF HoldsPort
    <2>4. \A q \in Procs \ {r} : hShmem'[q] = hShmem[q]
      BY <1>1, <1>7, <1>9, CreateEffect DEF RecRecheck
    <2>5. Found(r) # NoSeg => UNCHANGED <<listed, status>> /\ hShmem'[r] = Found(r)
      BY <1>7, <1>9 DEF RecRecheck
    <2> QED BY <1>1, <1>3, <2>1, <2>2, <2>3, <2>4, <2>5, CardInvRecGoesOn
  <1>10. CASE RecDefault(r)
    <2>1. /\ rpc[r] = "default" /\ rpc'[r] = "connect" /\ Write(r, "STOPPED")
          /\ \A q \in Recs \ {r} : rpc'[q] = rpc[q]
          /\ UNCHANGED <<cmd, cpc, rcard, abandoned, fault, stopper, port>>
      BY <1>2, <1>10 DEF RecDefault
    <2>2. Early(r) /\ Live(r)' /\ ~Unstopped(r)'
      BY <2>1 DEF Early, Live, Unstopped
    <2>3. PortInv'
      BY <1>5, <2>1, <2>2 DEF HoldsPort
    <2>4. UNCHANGED <<listed, hShmem>>
      BY <1>6, <2>1 DEF Statuses
    <2>5. ASSUME "start" \notin abandoned PROVE status' = status
      <3>1. hShmem[r] = listed[TheKey] /\ status[listed[TheKey]] = "STOPPED"
        BY <1>3, <2>1, <2>2, <2>5, EarlyFinds
      <3>2. status' = [status EXCEPT ![hShmem[r]] = "STOPPED"]
        BY <2>1 DEF Write
      <3> QED BY <1>1, <3>1, <3>2 DEF ShmOK
    <2> QED BY <1>1, <1>3, <2>1, <2>2, <2>3, <2>4, <2>5, CardInvRecGoesOn
  <1>11. CASE RecConnect(r)
    <2>1. CASE RecEnds(r)
      BY <1>1, <1>11, <2>1, CardInvRecEnds DEF RecConnect
    <2>2. CASE ~RecEnds(r)
      <3>1. /\ rpc[r] = "connect" /\ rpc'[r] = "map"
            /\ \A q \in Recs \ {r} : rpc'[q] = rpc[q]
            /\ port[rcard[r]] = Nobody /\ port' = [port EXCEPT ![rcard[r]] = r]
            /\ UNCHANGED <<cmd, cpc, rcard, abandoned, fault, stopper, listed, status, hShmem>>
        BY <1>2, <1>11, <2>2 DEF RecConnect
      <3>2. Early(r) /\ Live(r)' /\ ~Unstopped(r)'
        BY <3>1 DEF Early, Live, Unstopped
      <3>3. PortInv'
        <4>1. rcard[r] \in Cards /\ port \in [Cards -> Procs \cup {Nobody}]
          BY <1>1 DEF BaseInv, RestOK, CmdInv
        <4>2. cpc = "talk" => cmd.card \in Cards /\ port'[cmd.card] = "ctl"
          BY <3>1, <4>1 DEF CardInv, PortInv, BaseInv, CmdInv
        <4>3. ASSUME NEW q \in Recs, HoldsPort(q)' PROVE port'[rcard[q]] = q
          <5>1. CASE q = r
            BY <3>1, <4>1, <5>1
          <5>2. CASE q # r
            <6>1. HoldsPort(q) /\ rcard[q] \in Cards
              BY <3>1, <4>3, <5>2 DEF HoldsPort, BaseInv, CmdInv, Live
            <6>2. port[rcard[q]] = q
              BY <6>1 DEF CardInv, PortInv
            <6> QED BY <3>1, <4>1, <6>1, <6>2
          <5> QED BY <5>1, <5>2
        <4> QED BY <3>1, <4>2, <4>3 DEF PortInv
      <3> QED BY <1>1, <1>3, <3>1, <3>2, <3>3, CardInvRecGoesOn
    <2> QED BY <2>1, <2>2
  <1>12. CASE RecMap(r)
    <2>1. /\ rpc[r] = "map" /\ rpc'[r] = "starting" /\ Write(r, "START_INIT")
          /\ \A q \in Recs \ {r} : rpc'[q] = rpc[q]
          /\ UNCHANGED <<cmd, cpc, rcard, abandoned, fault, stopper, port>>
      BY <1>2, <1>12 DEF RecMap
    <2>2. Early(r) /\ ~Early(r)' /\ Live(r)' /\ HoldsPort(r)
      BY <2>1 DEF Early, Live, HoldsPort
    <2>3. PortInv'
      BY <1>5, <2>1, <2>2
    <2>4. UNCHANGED <<listed, hShmem>> /\ (hShmem[r] # NoSeg => status'[hShmem[r]] = "START_INIT")
      BY <1>6, <2>1 DEF Statuses
    <2>5. abandoned = {} => hShmem[r] # NoSeg /\ hShmem[r] = listed[TheKey]
      BY <1>3, <2>1, <2>2
    <2> QED BY <1>1, <2>1, <2>2, <2>3, <2>4, <2>5, CardInvRecGoesOn
  <1>13. CASE RecFault(r)
    <2>1. Early(r) /\ AttachFails(r) /\ RecEnds(r) /\ UNCHANGED <<cmd, cpc, iLoop, abandoned>>
      BY <1>13 DEF RecFault, Early
    <2> QED BY <1>1, <1>3, <2>1, CardInvRecEnds
  <1>14. CASE RecStarted(r)
    <2>1. PICK st \in {"IN_PROG", "START_FAILED"} :
             /\ rpc[r] = "starting" /\ Write(r, st)
             /\ rpc'[r] = IF st = "IN_PROG" THEN "recording" ELSE "exit"
      BY <1>2, <1>14 DEF RecStarted
    <2>2. /\ \A q \in Recs \ {r} : rpc'[q] = rpc[q]
          /\ UNCHANGED <<cmd, cpc, rcard, abandoned, fault, stopper, port>>
      BY <1>2, <1>14 DEF RecStarted
    <2>3. ~Early(r)' /\ Live(r)' /\ HoldsPort(r)
      BY <2>1 DEF Early, Live, HoldsPort
    <2>4. PortInv'
      BY <1>5, <2>2, <2>3
    <2>5. UNCHANGED <<listed, hShmem>> /\ (hShmem[r] # NoSeg => status'[hShmem[r]] = st)
      BY <1>6, <2>1 DEF Statuses
    <2>6. Unstopped(r)' => Unstopped(r) /\ st = "IN_PROG" /\ rpc'[r] = "recording"
      BY <2>1, <2>2 DEF Unstopped
    <2> QED BY <1>1, <1>4, <2>2, <2>3, <2>4, <2>5, <2>6, CardInvRecGoesOn
  <1>15. CASE RecReason(r)
    <2>1. /\ rpc[r] \in {"starting", "recording"} /\ stopper[r] = "none"
          /\ UNCHANGED <<cmd, cpc, rcard, abandoned, fault, port, rpc, listed, status, hShmem>>
          /\ \A q \in Recs \ {r} : stopper'[q] = stopper[q]
      BY <1>2, <1>15 DEF RecReason
    <2>2. ~Early(r)' /\ Live(r)' /\ Unstopped(r)
      BY <2>1 DEF Early, Live, Unstopped
    <2>3. PortInv'
      BY <1>5, <2>1 DEF HoldsPort
    <2> QED BY <1>1, <1>4, <2>1, <2>2, <2>3, CardInvRecGoesOn
  <1>16. CASE StopBegin(r) \/ StopEnd(r)
    <2>1. PICK st \in Statuses : Write(r, st)
      BY <1>16 DEF StopBegin, StopEnd, Statuses
    <2>2. /\ rpc[r] \in {"starting", "recording"} /\ stopper'[r] \in {"stopping", "over"}
          /\ UNCHANGED <<cmd, cpc, rcard, abandoned, fault, port, rpc>>
          /\ \A q \in Recs \ {r} : stopper'[q] = stopper[q]
      BY <1>2, <1>16 DEF StopBegin, StopEnd
    <2>3. ~Early(r)' /\ Live(r)' /\ ~Unstopped(r)'
      BY <2>2 DEF Early, Live, Unstopped
    <2>4. PortInv'
      BY <1>5, <2>2 DEF HoldsPort
    <2>5. UNCHANGED <<listed, hShmem>>
      BY <1>6, <2>1
    <2> QED BY <1>1, <2>2, <2>3, <2>4, <2>5, CardInvRecGoesOn
  <1>17. CASE RecStopped(r)
    <2>1. /\ rpc[r] = "recording" /\ rpc'[r] = "exit"
          /\ UNCHANGED <<cmd, cpc, rcard, abandoned, fault, port, stopper, listed, status, hShmem>>
          /\ \A q \in Recs \ {r} : rpc'[q] = rpc[q]
      BY <1>2, <1>17 DEF RecStopped
    <2>2. ~Early(r)' /\ Live(r)' /\ ~Unstopped(r)' /\ HoldsPort(r)
      BY <2>1 DEF Early, Live, Unstopped, HoldsPort
    <2>3. PortInv'
      BY <1>5, <2>1, <2>2
    <2> QED BY <1>1, <2>1, <2>2, <2>3, CardInvRecGoesOn
  <1>18. CASE RecExit(r) \/ RecKilled(r)
    BY <1>1, <1>18, CardInvRecEnds DEF RecExit, RecKilled
  <1> QED BY <1>8, <1>9, <1>10, <1>11, <1>12, <1>13, <1>14, <1>15, <1>16, <1>17, <1>18 DEF Record

LEMMA CardInvNext ==
  ASSUME OneCard, BaseInv, CardInv, [Next]_vars
  PROVE  CardInv'
  <1> USE DEF shmVars, ctlVars, recVars
  <1>1. ASSUME NEW name \in Commands, NEW c \in Cards, CtlBegin(name, c) PROVE CardInv'
    <2>1. /\ cpc = "idle" /\ cpc' \in {"query", "check"}
          /\ UNCHANGED <<shmVars, port, recVars, abandoned, fault>>
      BY <1>1 DEF CtlBegin
    <2>2. PortInv' /\ FreshInv' /\ RunInv'
      BY <2>1 DEF CardInv, PortInv, FreshInv, RunInv, HoldsPort, Live, Unstopped
    <2>3. StartInv'
      BY <2>1 DEF CardInv, StartInv, Early, Live
    <2> QED BY <2>2, <2>3 DEF CardInv
  <1>2. CASE UNCHANGED vars
    BY <1>2 DEF vars, CardInv, PortInv, FreshInv, StartInv, RunInv, HoldsPort, Live, Early, Unstopped
  <1> QED BY <1>1, <1>2, CardInvControl, CardInvRecord DEF Next

LEMMA CardInductive ==
  ASSUME OneCard
  PROVE  Spec => [](BaseInv /\ CardInv)
  <1>1. Init => BaseInv /\ CardInv
    BY BaseInit, CardInit
  <1>2. BaseInv /\ CardInv /\ [Next]_vars => (BaseInv /\ CardInv)'
    BY BaseInvNext, CardInvNext
  <1> QED BY <1>1, <1>2, PTL DEF Spec

\* With one card, a recording that nobody has asked to stop is found under the key with its
\* own status as long as no command was abandoned, for any number of processes and polls.
THEOREM RecordingIsVisible ==
  ASSUME OneCard
  PROVE  Spec => []VisibleWhileRecording
  <1>1. BaseInv /\ CardInv => VisibleWhileRecording
    <2>1. SUFFICES ASSUME BaseInv, CardInv, abandoned = {}, NEW r \in Recs,
                          rpc[r] = "recording", stopper[r] = "none"
                   PROVE  listed[Key(rcard[r])] = hShmem[r] /\ status[hShmem[r]] = "IN_PROG"
      BY DEF VisibleWhileRecording
    <2>2. Unstopped(r)
      BY <2>1 DEF Unstopped
    <2> QED BY <2>1, <2>2 DEF CardInv, RunInv, TheKey
  <1> QED BY <1>1, CardInductive, PTL

\* With one card, start_record reports a success only of the process that it has launched,
\* as long as no start_record was abandoned.
THEOREM StartedIsReal ==
  ASSUME OneCard
  PROVE  Spec => []StartIsReal
  <1>1. BaseInv /\ CardInv => StartIsReal
    <2>1. SUFFICES ASSUME BaseInv, CardInv, cpc = "poll", cmd.name = "start",
                          Answers("ctl", Running), "start" \notin abandoned,
                          rpc[cmd.rec] \in {"check", "recheck", "default", "connect", "map"}
                   PROVE  FALSE
      BY DEF StartIsReal
    <2>2. cmd.rec \in Recs /\ Early(cmd.rec)
      BY <2>1 DEF BaseInv, CmdInv, Early
    <2>3. Found("ctl") = listed[TheKey] /\ status[listed[TheKey]] = "STOPPED"
      BY <2>1, <2>2, EarlyFinds DEF Found
    <2> QED BY <2>1, <2>3 DEF Answers, Running, Statuses
  <1> QED BY <1>1, CardInductive, PTL

\* With one card, no process uses the result of a failed shmat unless a start_record was
\* abandoned before, whatever process is killed and whenever the segment is removed.
THEOREM FaultNeedsAbandonedStart ==
  ASSUME OneCard
  PROVE  Spec => []FailedAttachNeedsTimeout
  <1>1. CardInv => FailedAttachNeedsTimeout
    BY DEF CardInv, StartInv, FailedAttachNeedsTimeout
  <1> QED BY <1>1, CardInductive, PTL
=============================================================================
