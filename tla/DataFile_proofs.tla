---------------------------- MODULE DataFile_proofs ----------------------------
(* Theorems about StartParameters and DataFile: what a recording leaves on   *)
(* disk, for every size of packets, buffers and files and every stream.      *)
EXTENDS DataFile, TLAPS

-----------------------------------------------------------------------------
(* The inductive invariant.                                                  *)

Slots == [at : Nat, size : Nat, valid : BOOLEAN]
Buffers == [from : Nat, to : Nat, entries : Seq(Slots)]
Files == Seq(Nat \X Nat)

NumberFields ==
  {"newConfigPort", "newDataPort", "delay", "fileMax", "bytes", "duration", "frames"}

\* A settings file holds numbers where it is read for numbers.
HoldsNumbers(f) ==
  /\ DOMAIN f = DOMAIN Values
  /\ \A field \in NumberFields : f[field].n \in Nat
  /\ \A i \in 1..4 : f.sysIp[i].n \in Nat /\ f.newIp[i].n \in Nat

\* What a command was given is what the file holds, which nobody changes any more.
CommandInv ==
  /\ edits \in 0..MaxEdits
  /\ phase \in {"idle", "sent", "launched", "read", "recording", "refused"}
  /\ phase = "sent" =>
       \E cmd \in Commands : CommandOk(cmd, file) /\ sent = CommandValues(cmd, file)
  /\ phase \in {"read", "recording"} => RecordOk(file) /\ conf = RecordValues(file)
  /\ phase = "recording" => used = [conf |-> conf, lanes |-> IF conf.lvds = "2" THEN 2 ELSE 4]

ParamsInv == HoldsNumbers(file) /\ CommandInv

ShapeInv ==
  /\ stage \in {"off", "receiving", "writing", "flushing", "done", "crashed"}
  /\ step \in {"", "reorder", "write", "log", "entry"}
  /\ over \in {"", "goal", "short"} /\ next \in 0..MaxPackets
  /\ pending \in Seq(Slots) /\ buf \in Buffers /\ out \in Buffers /\ disk \in Seq(Files)
  /\ buf.from <= buf.to /\ Stored(buf) <= BufSize
  /\ out.from <= out.to /\ Stored(out) <= BufSize
  /\ fp \in BOOLEAN /\ count \in Nat /\ errors \subseteq {"reorder", "file"}
  /\ lost \subseteq 0..(MaxPackets - 1)

LogInv ==
  /\ handover \in Nat /\ zeros \in [start : Nat, till : Nat]
  /\ u32Loop \in Nat /\ (step = "entry" => u32Loop <= Len(out.entries))

\* Nothing is recorded before the recording starts.
IdleInv ==
  /\ phase # "recording" => stage = "off"
  /\ stage = "off" =>
       /\ pending = <<>> /\ over = "" /\ next = 0 /\ buf = EmptyBuf(0) /\ disk = <<>>
       /\ ~fp /\ count = 0 /\ step = ""

\* The slots to store follow the buffer in use, up to the next packet; all are whole
\* packets but the last one of the stream.
SlotInv ==
  /\ Len(pending) <= next
  /\ pending # <<>> \/ over = "" => buf.to = (next - Len(pending)) * Payload
  /\ \A i \in 1..Len(pending) :
       /\ pending[i].at = (next - Len(pending) + (i - 1)) * Payload
       /\ \/ pending[i].size = Payload
          \/ i = Len(pending) /\ over = "short" /\ pending[i].size \in 1..(Payload - 1)
  /\ over = "goal" => pending = <<>>
  /\ pending # <<>> => stage \in {"receiving", "writing", "crashed"}

\* A buffer starts between two packets, and is written out for the slot that does not fit.
BufferInv ==
  /\ stage \in {"receiving", "writing"} => buf.from % Payload = 0
  /\ stage = "writing" => pending # <<>>
  /\ stage \in {"flushing", "done"} => buf.from = buf.to
  /\ buf.from < buf.to => buf.entries # <<>>

\* The buffer being written out ends where the one in use starts; what is left of it
\* starts between two packets.
OutInv ==
  stage \in {"writing", "flushing"} =>
    /\ out.to = buf.from /\ out.entries # <<>> /\ step # ""
    /\ step \in {"reorder", "write"} => out.from % Payload = 0 /\ out.from < out.to
    /\ step \in {"log", "entry"} => out.from = out.to

\* The byte goal is not passed.
GoalInv ==
  phase = "recording" =>
    /\ over = "goal" => Stop = "bytes" /\ buf.to = Goal
    /\ Stop = "bytes" /\ over # "goal" => buf.to < Goal

\* Up to where the stream is on disk, as long as the file is open.
Written == IF stage \in {"writing", "flushing"} THEN out.from ELSE buf.from

TailInv ==
  fp => /\ disk # <<>> /\ OnDisk = 0..(Written - 1)
        /\ count = 0 => /\ disk[Len(disk)] = <<>>
                        /\ Written = IF Len(disk) = 1 THEN 0 ELSE disk[Len(disk) - 1][1][2]
        /\ count # 0 => disk[Len(disk)] = <<<<Written - count, Written>>>>

DiskInv ==
  /\ TailInv /\ FilesAreStream
  /\ phase = "recording" => count <= MaxFile
  /\ "file" \notin errors /\ stage \in {"receiving", "writing", "flushing"} => fp
  /\ stage = "done" /\ over = "goal" /\ "file" \notin errors => OnDisk = 0..(Goal - 1)

DataInv ==
  /\ ShapeInv /\ LogInv /\ IdleInv /\ SlotInv /\ BufferInv /\ OutInv /\ GoalInv
  /\ DiskInv

-----------------------------------------------------------------------------
(* The settings.                                                             *)

LEMMA EditsAreNumbers ==
  /\ HoldsNumbers(Default)
  /\ \A field \in NumberFields : \A v \in Values[field] : v.n \in Nat
  /\ \A field \in {"sysIp", "newIp"} : \A v \in Values[field] : \A i \in 1..4 : v[i].n \in Nat
<1> USE WrapAssumption DEF Number, Real, Absent, Ip, MinBytes, MinDuration
<1>1. HoldsNumbers(Default)
  <2>1. DOMAIN Default = DOMAIN Values
    BY DEF Default, Values
  <2>2. \A field \in NumberFields : Default[field].n \in Nat
    BY DEF Default, NumberFields
  <2>3. \A i \in 1..4 : Default.sysIp[i].n \in Nat /\ Default.newIp[i].n \in Nat
    BY DEF Default
  <2> QED
    BY <2>1, <2>2, <2>3 DEF HoldsNumbers
<1>2. \A v \in Values.newConfigPort \cup Values.newDataPort \cup Values.delay \cup Values.fileMax :
        v.n \in Nat
  <2>1. /\ Values.newConfigPort = {Number(4100), Number(5000)}
        /\ Values.newDataPort = {Number(0), Number(4092), Number(5001)}
        /\ Values.delay = {Number(4), Number(5), Number(500), Number(501)}
        /\ Values.fileMax = {Number(0), Number(2), Number(1025)}
    BY DEF Values
  <2> QED
    BY <2>1
<1>3. \A v \in Values.bytes \cup Values.duration \cup Values.frames : v.n \in Nat
  <2>1. /\ Values.bytes = {Number(MinBytes), Number(136), Number(120),
                           Number(MinBytes + Wrap), Real(160)}
        /\ Values.duration = {Number(39), Number(Wrap + 7), Number(Wrap + 50), Real(MinDuration)}
        /\ Values.frames = {Number(0), Number(65536)}
    BY DEF Values
  <2> QED
    BY <2>1
<1>4. \A v \in Values.sysIp \cup Values.newIp : \A i \in 1..4 : v[i].n \in Nat
  <2>1. /\ Values.sysIp = {Ip(10, 0, 0, 256), Ip(10, 0, 0, 1)}
        /\ Values.newIp = {Ip(0, 0, 0, 0), Ip(10, 0, 0, 2)}
    BY DEF Values
  <2> QED
    BY <2>1
<1> QED
  BY <1>1, <1>2, <1>3, <1>4 DEF NumberFields

LEMMA EditKeepsNumbers ==
  ASSUME NEW f, HoldsNumbers(f), NEW field \in DOMAIN Values, NEW v,
         field \in NumberFields => v.n \in Nat,
         field \in {"sysIp", "newIp"} => \A i \in 1..4 : v[i].n \in Nat
  PROVE  HoldsNumbers([f EXCEPT ![field] = v])
<1>1. NumberFields \cup {"sysIp", "newIp"} \subseteq DOMAIN Values
  BY DEF Values, NumberFields
<1> DEFINE g == [f EXCEPT ![field] = v]
<1>2. /\ DOMAIN g = DOMAIN f
      /\ \A x \in DOMAIN Values : g[x] = IF x = field THEN v ELSE f[x]
  BY DEF HoldsNumbers
<1> HIDE DEF g
<1>3. HoldsNumbers(g)
  BY <1>1, <1>2 DEF HoldsNumbers
<1> QED
  BY <1>3 DEF g

LEMMA ParamsInvInit == ParamsInit => ParamsInv
<1> SUFFICES ASSUME ParamsInit PROVE ParamsInv
  OBVIOUS
<1>1. HoldsNumbers(file)
  <2>1. CASE file = Default
    BY <2>1, EditsAreNumbers
  <2>2. CASE file = [Default EXCEPT !.lvds = "2", !.bytes = Number(136)]
    <3>1. {"lvds", "bytes"} \subseteq DOMAIN Values
      BY DEF Values
    <3>2. HoldsNumbers([Default EXCEPT !.lvds = "2"])
      BY <3>1, EditsAreNumbers, EditKeepsNumbers DEF NumberFields
    <3>3. Number(136).n \in Nat
      BY DEF Number
    <3> QED
      BY <2>2, <3>1, <3>2, <3>3, EditKeepsNumbers
  <2> QED
    BY <2>1, <2>2 DEF ParamsInit
<1>2. CommandInv
  BY WrapAssumption DEF ParamsInit, CommandInv
<1> QED
  BY <1>1, <1>2 DEF ParamsInv

LEMMA ParamsInvNext ==
  ASSUME ParamsInv, ParamsNext \/ UNCHANGED params
  PROVE  ParamsInv'
<1>1. HoldsNumbers(file) /\ CommandInv
  BY DEF ParamsInv
<1>2. ASSUME NEW field \in DOMAIN Values, EditFile(field) PROVE ParamsInv'
  <2>1. PICK v \in Values[field] : file' = [file EXCEPT ![field] = v]
    BY <1>2 DEF EditFile
  <2>2. HoldsNumbers(file')
    BY <1>1, <2>1, EditsAreNumbers, EditKeepsNumbers
  <2>3. phase \in {"idle", "launched"} /\ phase' = phase /\ edits < MaxEdits /\ edits' = edits + 1
    BY <1>2 DEF EditFile
  <2>4. CommandInv'
    BY <1>1, <2>3, WrapAssumption DEF CommandInv
  <2> QED
    BY <2>2, <2>4 DEF ParamsInv
<1>3. ASSUME NEW mode \in {"duration", "bytes", "infinite"}, WriteOption(mode) PROVE ParamsInv'
  <2> DEFINE g == [file EXCEPT !.stopMode = mode]
  <2>1. {"stopMode", "duration", "bytes"} \subseteq DOMAIN Values
    BY DEF Values
  <2>2. HoldsNumbers(g)
    BY <1>1, <2>1, EditKeepsNumbers DEF NumberFields
  <2>3. \/ \E ms \in {MinDuration, 1000} : file' = [g EXCEPT !.duration = Real(ms)]
        \/ \E n \in {MinBytes, 136} : file' = [g EXCEPT !.bytes = Number(n)]
        \/ file' = g
    BY <1>3 DEF WriteOption
  <2>4. \A n \in Nat : Real(n).n \in Nat /\ Number(n).n \in Nat
    BY DEF Real, Number
  <2>5. MinDuration \in Nat /\ MinBytes \in Nat
    BY DEF MinDuration, MinBytes
  <2> HIDE DEF g
  <2>6. HoldsNumbers(file')
    <3>1. ASSUME NEW ms \in {MinDuration, 1000}, file' = [g EXCEPT !.duration = Real(ms)]
          PROVE  HoldsNumbers(file')
      BY <2>1, <2>2, <2>4, <2>5, <3>1, EditKeepsNumbers
    <3>2. ASSUME NEW n \in {MinBytes, 136}, file' = [g EXCEPT !.bytes = Number(n)]
          PROVE  HoldsNumbers(file')
      BY <2>1, <2>2, <2>4, <2>5, <3>2, EditKeepsNumbers
    <3> QED
      BY <2>2, <2>3, <3>1, <3>2
  <2>7. phase = "idle" /\ phase' = phase /\ edits < MaxEdits /\ edits' = edits + 1
    BY <1>3 DEF WriteOption
  <2>8. CommandInv'
    BY <1>1, <2>7, WrapAssumption DEF CommandInv
  <2> QED
    BY <2>6, <2>8 DEF ParamsInv
<1>4. ASSUME NEW cmd \in Commands, ControlAccepts(cmd) PROVE ParamsInv'
  <2>1. /\ CommandOk(cmd, file) /\ sent' = CommandValues(cmd, file)
        /\ phase' \in {"launched", "sent"} /\ UNCHANGED <<file, edits>>
    BY <1>4 DEF ControlAccepts
  <2>2. CommandInv'
    BY <1>1, <2>1 DEF CommandInv
  <2> QED
    BY <1>1, <2>1, <2>2 DEF ParamsInv
<1>5. ASSUME NEW cmd \in Commands, ControlRefuses(cmd) PROVE ParamsInv'
  <2>1. phase' = "refused" /\ UNCHANGED <<file, edits>>
    BY <1>5 DEF ControlRefuses
  <2>2. CommandInv'
    BY <1>1, <2>1 DEF CommandInv
  <2> QED
    BY <1>1, <2>1, <2>2 DEF ParamsInv
<1>6. CASE RecordReads
  <2>1. /\ \/ phase' = "read" /\ RecordOk(file) /\ conf' = RecordValues(file)
           \/ phase' = "refused"
        /\ UNCHANGED <<file, edits>>
    BY <1>6 DEF RecordReads
  <2>2. CommandInv'
    BY <1>1, <2>1 DEF CommandInv
  <2> QED
    BY <1>1, <2>1, <2>2 DEF ParamsInv
<1>7. CASE StartRecordData
  <2>1. /\ phase = "read" /\ UNCHANGED <<file, edits, conf>>
        /\ \/ /\ phase' = "recording"
              /\ used' = [conf |-> conf, lanes |-> IF conf.lvds = "2" THEN 2 ELSE 4]
           \/ phase' = "refused"
    BY <1>7 DEF StartRecordData
  <2>2. CommandInv'
    BY <1>1, <2>1 DEF CommandInv
  <2> QED
    BY <1>1, <2>1, <2>2 DEF ParamsInv
<1>8. CASE UNCHANGED params
  <2>1. CommandInv' /\ file' = file
    BY <1>1, <1>8 DEF CommandInv, params
  <2> QED
    BY <1>1, <2>1 DEF ParamsInv
<1> QED
  BY <1>2, <1>3, <1>4, <1>5, <1>6, <1>7, <1>8 DEF ParamsNext

LEMMA SmallRemainder ==
  ASSUME NEW w \in Nat \ {0}, NEW n \in 0..(w - 1)
  PROVE  n % w = n
  OBVIOUS

\* A number that fits the variable it is converted to.
LEMMA FitsUint32 == \A n \in Nat : n < Wrap => n % Wrap = n
<1> SUFFICES ASSUME NEW n \in Nat, n < Wrap PROVE n % Wrap = n
  OBVIOUS
<1>1. Wrap \in Nat \ {0} /\ n \in 0..(Wrap - 1)
  BY WrapAssumption
<1> QED
  BY <1>1, SmallRemainder

\* What the validators with long ranges say.
LEMMA InNamedRange ==
  /\ \A n : validatePortNumber(n) => n \in Nat /\ n <= 65535
  /\ \A n : validateFramesStopConfig(n) => n \in Nat /\ n <= 65535
  /\ \A n : validateFileMaxSize(n) => n \in Nat /\ 1 <= n /\ n <= 1024
<1>1. ASSUME NEW n, validatePortNumber(n) PROVE n \in Nat /\ n <= 65535
  BY <1>1 DEF validatePortNumber
<1>2. ASSUME NEW n, validateFramesStopConfig(n) PROVE n \in Nat /\ n <= 65535
  BY <1>2 DEF validateFramesStopConfig
<1>3. ASSUME NEW n, validateFileMaxSize(n) PROVE n \in Nat /\ 1 <= n /\ n <= 1024
  BY <1>3 DEF validateFileMaxSize
<1> QED
  BY <1>1, <1>2, <1>3

\* What is known of the values a recording works with.
LEMMA RecordingValues ==
  ASSUME ParamsInv, phase = "recording"
  PROVE  /\ MaxFile \in Nat /\ MaxFile >= Payload /\ Block \in {8, 16}
         /\ Goal \in Nat /\ (Stop = "bytes" => Goal >= MinBytes /\ Goal % Block = 0)
         /\ Goal = Asked(file).n \/ (Stop = "duration" /\ Asked(file).n >= Wrap)
<1>1. /\ RecordOk(file) /\ conf = RecordValues(file)
      /\ used = [conf |-> conf, lanes |-> IF conf.lvds = "2" THEN 2 ELSE 4]
      /\ HoldsNumbers(file)
  BY DEF ParamsInv, CommandInv
<1>2. /\ used.conf.stop = file.stopMode /\ used.conf.limit = Asked(file).n % Wrap
      /\ used.conf.fileMax = file.fileMax.n % Wrap
      /\ used.lanes = IF file.lvds = "2" THEN 2 ELSE 4
  BY <1>1 DEF RecordValues, Atoi
<1>3. /\ file.fileMax.n \in Nat /\ 1 <= file.fileMax.n /\ file.fileMax.n <= 1024
      /\ file.lvds \in {"1", "2"}
  <2>0. StorageOk(file)
    BY <1>1 DEF RecordOk
  <2>1. validateRecFileMaxsize(file.fileMax) /\ WordOk(file, "lvds")
    BY <2>0 DEF StorageOk
  <2>2. Words.lvds = {"1", "2"}
    BY DEF Words
  <2> QED
    BY <2>1, <2>2, InNamedRange DEF validateRecFileMaxsize, WordOk
<1>4. MaxFile \in Nat /\ MaxFile >= Payload
  <2>1. used.conf.fileMax = file.fileMax.n
    BY <1>2, <1>3, FitsUint32, WrapAssumption
  <2> DEFINE m == file.fileMax.n
  <2>2. m \in Nat /\ m >= 1 /\ MaxFile = m * Megabyte
    BY <1>3, <2>1 DEF MaxFile
  <2> HIDE DEF m
  <2> QED
    BY <2>2, SizeAssumption
<1>5. Block = IF file.lvds = "2" THEN 8 ELSE 16
  BY <1>2 DEF Block
<1>6. {"bytes", "duration", "frames"} \subseteq NumberFields
  BY DEF NumberFields
<1>7. CASE file.stopMode = "bytes"
  <2>1. Asked(file) = file.bytes /\ validateBytesStopConfig(file.bytes.n, file.lvds)
    BY <1>1, <1>7 DEF Asked, RecordOk, StopOk, validateBytesRecStopConfig
  <2>2. /\ file.bytes.n \in MinBytes..(Wrap - 1) /\ MinBytes \in Nat
        /\ file.lvds = "1" => file.bytes.n % 16 = 0
        /\ file.lvds = "2" => file.bytes.n % 8 = 0
    BY <2>1 DEF validateBytesStopConfig, MinBytes
  <2>3. Goal = file.bytes.n
    BY <1>2, <2>1, <2>2, FitsUint32, WrapAssumption DEF Goal
  <2> QED
    BY <1>3, <1>4, <1>5, <2>1, <2>2, <2>3
<1>8. CASE file.stopMode = "duration"
  <2>1. Asked(file) = file.duration /\ file.duration.n \in Nat
    BY <1>1, <1>6, <1>8 DEF Asked, HoldsNumbers
  <2>2. Goal \in Nat
    BY <1>2, <2>1, WrapAssumption DEF Goal
  <2>3. file.duration.n < Wrap => Goal = file.duration.n
    BY <1>2, <2>1, FitsUint32, WrapAssumption DEF Goal
  <2>4. Stop = "duration" /\ Block \in {8, 16}
    BY <1>2, <1>5, <1>8 DEF Stop
  <2>5. Goal = Asked(file).n \/ Asked(file).n >= Wrap
    BY <2>1, <2>3, WrapAssumption
  <2> QED
    BY <1>4, <2>2, <2>4, <2>5
<1>9. CASE file.stopMode = "frames"
  <2>0. Asked(file) = file.frames /\ Stop = "frames"
    BY <1>2, <1>9 DEF Asked, Stop
  <2>1. file.frames.n \in Nat /\ file.frames.n <= 65535
    <3>1. StopOk(file)
      BY <1>1 DEF RecordOk
    <3>2. validateFramesRecStopConfig(file.frames)
      BY <1>9, <3>1 DEF StopOk
    <3>3. validateFramesStopConfig(file.frames.n)
      BY <3>2 DEF validateFramesRecStopConfig
    <3> QED
      BY <3>3, InNamedRange
  <2>2. Goal = file.frames.n
    BY <1>2, <2>0, <2>1, FitsUint32, WrapAssumption DEF Goal
  <2>3. Goal \in Nat /\ Goal = Asked(file).n /\ Stop # "bytes"
    BY <2>0, <2>1, <2>2
  <2>4. Block \in {8, 16}
    BY <1>5
  <2> QED
    BY <1>4, <2>3, <2>4
<1>10. CASE file.stopMode = "infinite"
  <2>1. Asked(file).n = 0
    BY <1>10 DEF Asked, Number
  <2>2. Goal = 0
    BY <1>2, <2>1, FitsUint32, WrapAssumption DEF Goal
  <2> QED
    BY <1>2, <1>4, <1>5, <1>10, <2>1, <2>2 DEF Stop
<1> QED
  BY <1>1, <1>7, <1>8, <1>9, <1>10 DEF RecordOk, StopOk

\* What a command sends is what its file holds.
LEMMA SentIsAsked ==
  ASSUME ParamsInv, phase = "sent"
  PROVE  /\ sent.cmd = "eeprom" =>
              /\ \A i \in 1..6 : file.mac[i].form = "int" => sent.v.mac[i] = file.mac[i].n
              /\ \A i \in 1..4 : sent.v.ips[i] = <<file.sysIp[i].n, file.newIp[i].n>>
              /\ sent.v.ports = <<file.newConfigPort.n, file.newDataPort.n>>
         /\ sent.cmd = "record" => sent.v * 8 = file.delay.n * 1000
<1>1. PICK cmd \in Commands : CommandOk(cmd, file) /\ sent = CommandValues(cmd, file)
  BY DEF ParamsInv, CommandInv
<1>2. HoldsNumbers(file) /\ sent.cmd = cmd
  BY <1>1 DEF ParamsInv, CommandValues
<1>3. ASSUME cmd = "eeprom"
      PROVE  /\ \A i \in 1..6 : file.mac[i].form = "int" => sent.v.mac[i] = file.mac[i].n
             /\ \A i \in 1..4 : sent.v.ips[i] = <<file.sysIp[i].n, file.newIp[i].n>>
             /\ sent.v.ports = <<file.newConfigPort.n, file.newDataPort.n>>
  <2>1. EepromOk(file) /\ sent.v = EepromValues(file)
    BY <1>1, <1>3 DEF CommandOk, CommandValues
  <2>2. \A i \in 1..6 : file.mac[i].form = "int" => sent.v.mac[i] = file.mac[i].n
    BY <2>1 DEF EepromValues, Octet
  <2>3. \A i \in 1..4 : sent.v.ips[i] = <<file.sysIp[i].n, file.newIp[i].n>>
    <3> TAKE i \in 1..4
    <3>1. file.sysIp[i].n <= 255 /\ file.newIp[i].n <= 255
      BY <2>1 DEF EepromOk, validateIpAddress
    <3>2. /\ file.sysIp[i].n \in Nat /\ file.newIp[i].n \in Nat
          /\ file.sysIp[i].n < Wrap /\ file.newIp[i].n < Wrap
      BY <1>2, <3>1, WrapAssumption DEF HoldsNumbers
    <3>3. file.sysIp[i].n % Wrap = file.sysIp[i].n /\ file.newIp[i].n % Wrap = file.newIp[i].n
      BY <3>2, FitsUint32
    <3>4. sent.v.ips = [j \in 1..4 |-> <<Atoi(file.sysIp[j]), Atoi(file.newIp[j])>>]
      BY <2>1 DEF EepromValues
    <3>5. sent.v.ips[i] = <<file.sysIp[i].n % Wrap, file.newIp[i].n % Wrap>>
      BY <3>4 DEF Atoi
    <3> QED
      BY <3>3, <3>5
  <2>4. sent.v.ports = <<file.newConfigPort.n, file.newDataPort.n>>
    <3>1. validatePortNum(file.newConfigPort) /\ validatePortNum(file.newDataPort)
      BY <2>1 DEF EepromOk
    <3>2. /\ file.newConfigPort.n \in Nat /\ file.newConfigPort.n <= 65535
          /\ file.newDataPort.n \in Nat /\ file.newDataPort.n <= 65535
      BY <3>1, InNamedRange DEF validatePortNum
    <3>3. \A n \in Nat : n <= 65535 => (n % Wrap) % 65536 = n
      <4> SUFFICES ASSUME NEW n \in Nat, n <= 65535 PROVE (n % Wrap) % 65536 = n
        OBVIOUS
      <4>1. n % Wrap = n
        BY FitsUint32, WrapAssumption
      <4> QED
        BY <4>1
    <3>4. sent.v.ports = <<(file.newConfigPort.n % Wrap) % 65536, (file.newDataPort.n % Wrap) % 65536>>
      BY <2>1 DEF EepromValues, Atoi
    <3> QED
      BY <3>2, <3>3, <3>4
  <2> QED
    BY <2>2, <2>3, <2>4
<1>4. ASSUME cmd = "record" PROVE sent.v * 8 = file.delay.n * 1000
  <2>1. validatePacketDelay(file.delay) /\ sent.v = PacketTicks(file.delay.n % Wrap)
    BY <1>1, <1>4 DEF CommandOk, CommandValues, Atoi
  <2> DEFINE n == file.delay.n
  <2>2. n \in 5..500 /\ n % Wrap = n
    BY <2>1, FitsUint32, WrapAssumption DEF validatePacketDelay
  <2>3. sent.v = ((n * 1000) \div 8) % 65536
    BY <2>1, <2>2 DEF PacketTicks
  <2> HIDE DEF n
  <2>4. (n * 1000) \div 8 = n * 125
    BY <2>2
  <2>5. (n * 125) % 65536 = n * 125
    BY <2>2
  <2>6. sent.v * 8 = n * 1000
    BY <2>2, <2>3, <2>4, <2>5
  <2> QED
    BY <2>6 DEF n
<1> QED
  BY <1>2, <1>3, <1>4

-----------------------------------------------------------------------------
(* Multiples.                                                                *)

LEMMA Multiple ==
  ASSUME NEW w \in Nat \ {0}, NEW k \in Int
  PROVE  (k * w) % w = 0
<1> DEFINE x == k * w
<1>1. x \in Int /\ x = w * k
  OBVIOUS
<1> HIDE DEF x
<1> DEFINE q == x \div w
           r == x % w
<1>2. q \in Int /\ r \in 0..(w - 1) /\ x = w * q + r
  BY <1>1
<1> HIDE DEF q, r
<1>3. w * (k - q) = r
  BY <1>1, <1>2
<1>4. CASE k = q
  BY <1>2, <1>3, <1>4 DEF r, x
<1>5. CASE k > q
  <2>1. w * (k - q) >= w
    BY <1>2, <1>5
  <2> QED
    BY <1>2, <1>3, <2>1
<1>6. CASE k < q
  <2>1. w * (k - q) < 0
    BY <1>2, <1>6
  <2> QED
    BY <1>2, <1>3, <2>1
<1> QED
  BY <1>2, <1>4, <1>5, <1>6

LEMMA Quotient ==
  ASSUME NEW w \in Nat \ {0}, NEW a \in Int, a % w = 0
  PROVE  \E k \in Int : a = k * w
<1>1. a \div w \in Int /\ a = w * (a \div w) + (a % w)
  OBVIOUS
<1>2. a = (a \div w) * w
  BY <1>1
<1> QED
  BY <1>1, <1>2

LEMMA SumOfMultiples ==
  ASSUME NEW w \in Nat \ {0}, NEW a \in Int, NEW b \in Int, a % w = 0, b % w = 0
  PROVE  (a + b) % w = 0 /\ (a - b) % w = 0
<1>1. PICK i \in Int : a = i * w
  BY Quotient
<1>2. PICK j \in Int : b = j * w
  BY Quotient
<1>3. a + b = (i + j) * w /\ a - b = (i - j) * w
  BY <1>1, <1>2
<1>4. ((i + j) * w) % w = 0 /\ ((i - j) * w) % w = 0
  BY Multiple
<1> QED
  BY <1>3, <1>4

LEMMA MultipleOfMultiple ==
  ASSUME NEW v \in Nat \ {0}, NEW w \in Nat \ {0}, w % v = 0, NEW a \in Int, a % w = 0
  PROVE  a % v = 0
<1>1. PICK i \in Int : a = i * w
  BY Quotient
<1>2. PICK j \in Int : w = j * v
  BY Quotient
<1>3. a = (i * j) * v
  BY <1>1, <1>2
<1>4. ((i * j) * v) % v = 0
  BY Multiple
<1> QED
  BY <1>3, <1>4

\* What is assumed of the sizes, the divisibility apart.
LEMMA Sizes ==
  /\ Payload \in Nat \ {0} /\ BufSize \in Nat /\ BufSize >= Payload
  /\ MaxPackets \in Nat \ {0} /\ MaxGap \in Nat
  /\ ShortSizes \subseteq 1..(Payload - 1)
BY SizeAssumption

\* A whole number of payloads is a whole number of blocks.
LEMMA PayloadsAreBlocks ==
  ASSUME NEW a \in Int, a % Payload = 0
  PROVE  a % 8 = 0 /\ a % 16 = 0
<1>1. Payload \in Nat \ {0} /\ Payload % 16 = 0
  BY SizeAssumption
<1>2. Payload % 8 = 0
  <2>1. 16 % 8 = 0
    OBVIOUS
  <2> QED
    BY <1>1, <2>1, MultipleOfMultiple
<1>3. ASSUME NEW v \in {8, 16} PROVE a % v = 0
  <2>1. v \in Nat \ {0} /\ Payload % v = 0
    BY <1>1, <1>2
  <2> QED
    BY <1>1, <2>1, MultipleOfMultiple
<1> QED
  BY <1>3

\* The part of the room in a file that is filled.
LEMMA ChunkFits ==
  ASSUME MaxFile \in Nat, count \in Nat, count <= MaxFile
  PROVE  /\ Chunk \in Nat /\ count + Chunk <= MaxFile /\ Chunk % Payload = 0
         /\ MaxFile - count >= Payload => Chunk > 0
<1> DEFINE room == MaxFile - count
           q == room \div Payload
           r == room % Payload
<1>1. room \in Nat
  OBVIOUS
<1> HIDE DEF room
<1>2. q \in Int /\ r \in 0..(Payload - 1) /\ room = Payload * q + r
  BY <1>1, Sizes
<1>3. Chunk = q * Payload
  BY DEF Chunk, room
<1> HIDE DEF q, r
<1>4. q >= 0
  <2>1. q < 0 => Payload * q <= - Payload
    BY <1>2, Sizes
  <2> QED
    BY <1>1, <1>2, <2>1, Sizes
<1>5. q * Payload \in Nat /\ q * Payload <= room
  BY <1>2, <1>4, Sizes
<1>6. (q * Payload) % Payload = 0
  BY <1>2, Sizes, Multiple
<1>7. room >= Payload => q * Payload > 0
  BY <1>1, <1>2, <1>4, Sizes
<1> QED
  BY <1>1, <1>3, <1>5, <1>6, <1>7 DEF room

\* Places of packets.
LEMMA NextPlace ==
  ASSUME NEW k \in Int
  PROVE  (k + 1) * Payload = k * Payload + Payload /\ (k * Payload) % Payload = 0
<1>1. (k + 1) * Payload = k * Payload + Payload
  BY Sizes
<1>2. (k * Payload) % Payload = 0
  BY Sizes, Multiple
<1> QED
  BY <1>1, <1>2

-----------------------------------------------------------------------------
(* The files.                                                                *)

\* OnDisk and FilesAreStream of any files.
Bytes(d) == UNION {UNION {f[j][1]..(f[j][2] - 1) : j \in DOMAIN f} : f \in Range(d)}
Stream(d, max) ==
  /\ \A i \in DOMAIN d :
       /\ Len(d[i]) <= 1
       /\ d[i] # <<>> => d[i][1][2] - d[i][1][1] <= max
       /\ i < Len(d) => d[i] # <<>> /\ d[i][1][2] % Payload = 0
  /\ \A i \in 2..Len(d) : d[i] # <<>> => d[i][1][1] = d[i - 1][1][2]
  /\ d # <<>> /\ d[1] # <<>> => d[1][1][1] = 0

LEMMA SameFiles == OnDisk = Bytes(disk) /\ (FilesAreStream <=> Stream(disk, MaxFile))
BY DEF OnDisk, Bytes, FilesAreStream, Stream

LEMMA SameFilesNext == OnDisk' = Bytes(disk') /\ (FilesAreStream' <=> Stream(disk', MaxFile'))
BY DEF OnDisk, Bytes, FilesAreStream, Stream

\* A byte on disk is in a range of a file.
LEMMA InBytes ==
  ASSUME NEW d \in Seq(Files), NEW x
  PROVE  x \in Bytes(d) <=>
           \E i \in 1..Len(d) : \E j \in DOMAIN d[i] : x \in d[i][j][1]..(d[i][j][2] - 1)
<1> DEFINE In(f) == UNION {f[j][1]..(f[j][2] - 1) : j \in DOMAIN f}
<1>1. x \in Bytes(d) <=> \E f \in Range(d) : x \in In(f)
  BY DEF Bytes
<1>2. DOMAIN d = 1..Len(d)
  OBVIOUS
<1>3. \A f : f \in Range(d) <=> \E i \in 1..Len(d) : f = d[i]
  BY <1>2 DEF Range
<1>4. \A f : x \in In(f) <=> \E j \in DOMAIN f : x \in f[j][1]..(f[j][2] - 1)
  OBVIOUS
<1> HIDE DEF In
<1> QED
  BY <1>1, <1>3, <1>4

\* A new file, after one that ends between two payloads.
LEMMA NewFile ==
  ASSUME NEW d \in Seq(Files), NEW max, Stream(d, max),
         d # <<>> => d[Len(d)] # <<>> /\ d[Len(d)][1][2] % Payload = 0
  PROVE  /\ Append(d, <<>>) \in Seq(Files) /\ Stream(Append(d, <<>>), max)
         /\ Bytes(Append(d, <<>>)) = Bytes(d)
<1> DEFINE e == Append(d, <<>>)
           n == Len(d)
<1>1. n \in Nat /\ DOMAIN d = 1..n /\ \A i \in 1..n : d[i] \in Files
  OBVIOUS
<1>2. <<>> \in Files
  BY DEF Files
<1>3. /\ e \in Seq(Files) /\ Len(e) = n + 1 /\ DOMAIN e = 1..(n + 1) /\ e[n + 1] = <<>>
      /\ \A i \in 1..n : e[i] = d[i]
  BY <1>2
<1>4. d = <<>> <=> n = 0
  OBVIOUS
<1> HIDE DEF e, n
<1>5. Stream(e, max)
  <2>1. \A i \in 1..(n + 1) :
          /\ Len(e[i]) <= 1
          /\ e[i] # <<>> => e[i][1][2] - e[i][1][1] <= max
          /\ i < n + 1 => e[i] # <<>> /\ e[i][1][2] % Payload = 0
    <3>1. \A i \in 1..n : /\ Len(e[i]) <= 1
                          /\ e[i] # <<>> => e[i][1][2] - e[i][1][1] <= max
      BY <1>1, <1>3 DEF Stream
    <3>2. \A i \in 1..n : i < n => e[i] # <<>> /\ e[i][1][2] % Payload = 0
      BY <1>1, <1>3 DEF Stream, n
    <3>3. n > 0 => e[n] # <<>> /\ e[n][1][2] % Payload = 0
      BY <1>1, <1>3, <1>4 DEF n
    <3>4. \A i \in 1..n : e[i] # <<>> /\ e[i][1][2] % Payload = 0
      BY <1>1, <3>2, <3>3
    <3>5. Len(e[n + 1]) <= 1
      BY <1>3
    <3> QED
      BY <1>1, <1>3, <3>1, <3>4, <3>5
  <2>2. \A i \in 2..(n + 1) : e[i] # <<>> => e[i][1][1] = e[i - 1][1][2]
    <3> SUFFICES ASSUME NEW i \in 2..(n + 1), e[i] # <<>> PROVE e[i][1][1] = e[i - 1][1][2]
      OBVIOUS
    <3>1. i \in 2..n /\ i - 1 \in 1..n
      BY <1>1, <1>3
    <3>2. e[i] = d[i] /\ e[i - 1] = d[i - 1]
      BY <1>1, <1>3, <3>1
    <3> QED
      BY <3>1, <3>2 DEF Stream, n
  <2>3. e # <<>> /\ e[1] # <<>> => e[1][1][1] = 0
    <3>1. CASE n = 0
      BY <1>3, <3>1
    <3>2. CASE n > 0
      BY <1>1, <1>3, <1>4, <3>2 DEF Stream
    <3> QED
      BY <1>1, <3>1, <3>2
  <2> QED
    BY <1>3, <2>1, <2>2, <2>3 DEF Stream
<1>6. \A x : x \in Bytes(e) <=> x \in Bytes(d)
  <2> TAKE x
  <2>1. x \in Bytes(d) <=>
          \E i \in 1..n : \E j \in DOMAIN d[i] : x \in d[i][j][1]..(d[i][j][2] - 1)
    BY InBytes DEF n
  <2>2. x \in Bytes(e) <=>
          \E i \in 1..(n + 1) : \E j \in DOMAIN e[i] : x \in e[i][j][1]..(e[i][j][2] - 1)
    BY <1>3, InBytes
  <2>3. DOMAIN e[n + 1] = {}
    BY <1>3
  <2>4. \A i \in 1..(n + 1) : i # n + 1 => i \in 1..n
    BY <1>1
  <2>5. 1..n \subseteq 1..(n + 1)
    BY <1>1
  <2> QED
    BY <1>3, <2>1, <2>2, <2>3, <2>4, <2>5
<1> QED
  BY <1>3, <1>5, <1>6 DEF e

\* The last file holds what comes from a to w.
LastHolds(d, a, w) ==
  \/ /\ d[Len(d)] = <<>> /\ w = a
     /\ a = IF Len(d) = 1 THEN 0 ELSE d[Len(d) - 1][1][2]
  \/ d[Len(d)] = <<<<a, w>>>>

Grown(d, a, b) == [d EXCEPT ![Len(d)] = <<<<a, b>>>>]

\* It grows from w to b.
LEMMA LastFile ==
  ASSUME NEW d \in Seq(Files), NEW max, Stream(d, max), d # <<>>,
         NEW a \in Nat, NEW w \in Nat, NEW b \in Nat, a <= w, w <= b, b - a <= max,
         LastHolds(d, a, w)
  PROVE  /\ Grown(d, a, b) \in Seq(Files) /\ Grown(d, a, b) # <<>>
         /\ Len(Grown(d, a, b)) = Len(d) /\ Grown(d, a, b)[Len(d)] = <<<<a, b>>>>
         /\ Stream(Grown(d, a, b), max) /\ Bytes(Grown(d, a, b)) = Bytes(d) \cup w..(b - 1)
<1> DEFINE n == Len(d)
           g == <<<<a, b>>>>
           e == [d EXCEPT ![n] = g]
<1>1. n \in Nat /\ n >= 1 /\ DOMAIN d = 1..n /\ \A i \in 1..n : d[i] \in Files
  OBVIOUS
<1>2. g \in Files /\ Len(g) = 1 /\ DOMAIN g = {1} /\ g[1] = <<a, b>> /\ g # <<>>
  BY DEF Files
<1> HIDE DEF g
<1>3. /\ e \in Seq(Files) /\ Len(e) = n /\ DOMAIN e = 1..n /\ e[n] = g /\ e # <<>>
      /\ \A i \in 1..n : i # n => e[i] = d[i]
  BY <1>1, <1>2
<1>4. \/ d[n] = <<>> /\ w = a /\ a = IF n = 1 THEN 0 ELSE d[n - 1][1][2]
      \/ d[n] = <<<<a, w>>>>
  BY DEF LastHolds
<1>5. /\ \A i \in 1..n : /\ Len(d[i]) <= 1
                         /\ d[i] # <<>> => d[i][1][2] - d[i][1][1] <= max
                         /\ i < n => d[i] # <<>> /\ d[i][1][2] % Payload = 0
      /\ \A i \in 2..n : d[i] # <<>> => d[i][1][1] = d[i - 1][1][2]
      /\ d[1] # <<>> => d[1][1][1] = 0
  BY <1>1 DEF Stream
<1>6. \A x : x \in Bytes(d) <=>
        \E i \in 1..n : \E j \in DOMAIN d[i] : x \in d[i][j][1]..(d[i][j][2] - 1)
  BY InBytes
<1> HIDE DEF e, n
<1>7. g[1][1] = a /\ g[1][2] = b
  BY <1>2
<1>8. a = IF n = 1 THEN 0 ELSE d[n - 1][1][2]
  <2>1. CASE d[n] = <<>>
    BY <1>4, <2>1
  <2>2. CASE d[n] = <<<<a, w>>>>
    <3>1. d[n] # <<>> /\ d[n][1][1] = a
      BY <2>2
    <3>2. n = 1 => a = 0
      BY <1>5, <3>1
    <3>3. n # 1 => n \in 2..n
      BY <1>1
    <3> QED
      BY <1>5, <3>1, <3>2, <3>3
  <2> QED
    BY <1>4, <2>1, <2>2
<1>9. Stream(e, max)
  <2>1. \A i \in 1..n :
          /\ Len(e[i]) <= 1
          /\ e[i] # <<>> => e[i][1][2] - e[i][1][1] <= max
          /\ i < n => e[i] # <<>> /\ e[i][1][2] % Payload = 0
    <3> TAKE i \in 1..n
    <3>1. CASE i = n
      <4>1. e[i] = g /\ ~(i < n)
        BY <1>1, <1>3, <3>1
      <4>2. Len(e[i]) <= 1 /\ e[i][1][2] - e[i][1][1] <= max
        <5>1. Len(g) <= 1
          BY <1>2
        <5>2. g[1][2] - g[1][1] <= max
          BY <1>7
        <5> QED
          BY <4>1, <5>1, <5>2
      <4> QED
        BY <4>1, <4>2
    <3>2. CASE i # n
      BY <1>3, <1>5, <3>2
    <3> QED
      BY <3>1, <3>2
  <2>2. \A i \in 2..n : e[i] # <<>> => e[i][1][1] = e[i - 1][1][2]
    <3> TAKE i \in 2..n
    <3>1. i \in 1..n /\ i - 1 \in 1..n /\ i - 1 # n /\ n # 1
      BY <1>1
    <3>2. e[i - 1] = d[i - 1]
      BY <1>3, <3>1
    <3>3. CASE i = n
      BY <1>3, <1>7, <1>8, <3>1, <3>2, <3>3
    <3>4. CASE i # n
      BY <1>3, <1>5, <3>1, <3>2, <3>4
    <3> QED
      BY <3>3, <3>4
  <2>3. e[1] # <<>> => e[1][1][1] = 0
    <3>1. CASE n = 1
      BY <1>3, <1>7, <1>8, <3>1
    <3>2. CASE n # 1
      BY <1>1, <1>3, <1>5, <3>2
    <3> QED
      BY <3>1, <3>2
  <2> QED
    BY <1>3, <2>1, <2>2, <2>3 DEF Stream
<1>10. \A x : x \in Bytes(e) <=> x \in Bytes(d) \cup w..(b - 1)
  <2> TAKE x
  <2> DEFINE Old == \E i \in 1..n : i # n /\ \E j \in DOMAIN d[i] : x \in d[i][j][1]..(d[i][j][2] - 1)
  <2>1. x \in Bytes(e) <=>
          \E i \in 1..n : \E j \in DOMAIN e[i] : x \in e[i][j][1]..(e[i][j][2] - 1)
    BY <1>3, InBytes
  <2>2. x \in Bytes(e) <=> Old \/ x \in a..(b - 1)
    <3>1. (\E j \in DOMAIN e[n] : x \in e[n][j][1]..(e[n][j][2] - 1)) <=> x \in a..(b - 1)
      BY <1>2, <1>3, <1>7
    <3>2. n \in 1..n
      BY <1>1
    <3> QED
      BY <1>3, <2>1, <3>1, <3>2
  <2>3. x \in Bytes(d) <=> Old \/ x \in a..(w - 1)
    <3>1. (\E j \in DOMAIN d[n] : x \in d[n][j][1]..(d[n][j][2] - 1)) <=> x \in a..(w - 1)
      <4>1. CASE d[n] = <<>> /\ w = a
        BY <4>1
      <4>2. CASE d[n] = <<<<a, w>>>>
        <5>1. DOMAIN d[n] = {1} /\ d[n][1][1] = a /\ d[n][1][2] = w
          BY <4>2
        <5> QED
          BY <5>1
      <4> QED
        BY <1>4, <4>1, <4>2
    <3>2. n \in 1..n
      BY <1>1
    <3> QED
      BY <1>6, <3>1, <3>2
  <2> HIDE DEF Old
  <2>4. x \in a..(b - 1) <=> x \in a..(w - 1) \/ x \in w..(b - 1)
    OBVIOUS
  <2> QED
    BY <2>2, <2>3, <2>4
<1>11. Bytes(e) = Bytes(d) \cup w..(b - 1)
  BY <1>10
<1>12. Grown(d, a, b) = e
  BY DEF Grown, e, n, g
<1> QED
  BY <1>3, <1>9, <1>11, <1>12 DEF n, g

\* What the last file holds after a range was added that follows what it holds.
LEMMA RangesJoin ==
  ASSUME NEW d, NEW a, NEW w, NEW b, LastHolds(d, a, w)
  PROVE  Append1(d[Len(d)], w, b) = <<<<a, b>>>>
<1> DEFINE f == d[Len(d)]
<1>1. (f = <<>> /\ w = a) \/ f = <<<<a, w>>>>
  BY DEF LastHolds
<1> HIDE DEF f
<1>2. CASE f = <<>> /\ w = a
  <2>1. Append1(<<>>, w, b) = Append(<<>>, <<w, b>>)
    BY DEF Append1
  <2>2. Append(<<>>, <<w, b>>) = <<<<w, b>>>>
    OBVIOUS
  <2> QED
    BY <1>2, <2>1, <2>2 DEF f
<1>3. CASE f = <<<<a, w>>>>
  <2>1. f # <<>> /\ Len(f) = 1 /\ f[1] = <<a, w>> /\ f[1][1] = a /\ f[1][2] = w
    BY <1>3
  <2>2. Append1(f, w, b) = [f EXCEPT ![1] = <<a, b>>]
    BY <2>1 DEF Append1, Last
  <2>3. [<<<<a, w>>>> EXCEPT ![1] = <<a, b>>] = <<<<a, b>>>>
    OBVIOUS
  <2> QED
    BY <1>3, <2>2, <2>3 DEF f
<1> QED
  BY <1>1, <1>2, <1>3

-----------------------------------------------------------------------------
(* What the steps have in common.                                            *)

LEMMA SameParams ==
  ASSUME UNCHANGED params
  PROVE  /\ phase' = phase /\ used' = used /\ file' = file /\ Stop' = Stop /\ Goal' = Goal
         /\ MaxFile' = MaxFile /\ Block' = Block
BY DEF params, Stop, Goal, MaxFile, Block

\* RecordingValues, before and after a step.
LEMMA GoalIsSet ==
  ParamsInv /\ phase = "recording" =>
    MaxFile \in Nat /\ Goal \in Nat /\ (Stop = "bytes" => Goal > 0)
BY RecordingValues DEF MinBytes

LEMMA GoalIsSetNext ==
  (ParamsInv /\ phase = "recording" =>
     MaxFile \in Nat /\ Goal \in Nat /\ (Stop = "bytes" => Goal > 0))'
BY GoalIsSet, PTL

\* The files are as they were, or closed now.
LEMMA DiskKept ==
  ASSUME DiskInv, UNCHANGED <<params, disk, count>>, errors \subseteq errors',
         fp' => fp /\ Written' = Written,
         "file" \notin errors' /\ stage' \in {"receiving", "writing", "flushing"} => fp',
         stage' = "done" /\ over' = "goal" /\ "file" \notin errors' => OnDisk = 0..(Goal - 1)
  PROVE  DiskInv'
<1>1. OnDisk' = OnDisk /\ MaxFile' = MaxFile /\ Goal' = Goal /\ phase' = phase
  BY SameParams DEF OnDisk
<1>2. FilesAreStream'
  BY <1>1, SameFiles DEF DiskInv, FilesAreStream
<1>3. TailInv'
  BY <1>1 DEF DiskInv, TailInv
<1> QED
  BY <1>1, <1>2, <1>3 DEF DiskInv

\* What the writer of a buffer leaves alone.
LEMMA WriterKeeps ==
  ASSUME DataInv, stage \in {"writing", "flushing"},
         UNCHANGED <<params, pending, over, next, buf, lost>>,
         stage' \in {stage, "crashed", IF stage = "flushing" THEN "done" ELSE "receiving"}
  PROVE  IdleInv' /\ SlotInv' /\ BufferInv' /\ GoalInv'
<1>1. phase' = phase /\ Stop' = Stop /\ Goal' = Goal
  BY SameParams
<1>2. IdleInv'
  BY <1>1 DEF DataInv, IdleInv
<1>3. SlotInv'
  <2>1. pending # <<>> => stage = "writing"
    BY DEF DataInv, SlotInv
  <2>2. pending # <<>> => stage' \in {"receiving", "writing", "crashed"}
    BY <2>1
  <2> QED
    BY <2>2 DEF DataInv, SlotInv
<1>4. BufferInv'
  BY DEF DataInv, BufferInv
<1>5. GoalInv'
  BY <1>1 DEF DataInv, GoalInv
<1> QED
  BY <1>2, <1>3, <1>4, <1>5

LEMMA CutFits ==
  ASSUME NEW s \in Slots, s.size \in 1..Payload,
         Stop = "bytes" => Goal \in Nat /\ s.at < Goal
  PROVE  Cut(s) \in 1..Payload
<1>1. s.at \in Nat /\ s.size \in Nat /\ Payload \in Nat
  BY Sizes DEF Slots
<1>2. CASE Stop = "bytes" /\ s.at + s.size >= Goal
  <2>1. Cut(s) = Goal - s.at /\ Goal \in Nat /\ s.at < Goal /\ s.at + s.size >= Goal
    BY <1>2 DEF Cut
  <2>2. Goal - s.at \in 1..Payload
    BY <1>1, <2>1
  <2> QED
    BY <2>1, <2>2
<1>3. CASE ~(Stop = "bytes" /\ s.at + s.size >= Goal)
  BY <1>3 DEF Cut
<1> QED
  BY <1>2, <1>3

\* The first slot that waits follows the buffer in use, and some of it is stored.
LEMMA HeadSlot ==
  ASSUME ParamsInv, DataInv, stage = "receiving", pending # <<>>
  PROVE  /\ phase = "recording" /\ over # "goal" /\ Head(pending) = pending[1]
         /\ pending[1] \in Slots /\ pending[1].at = buf.to /\ buf.to % Payload = 0
         /\ buf.to = (next - Len(pending)) * Payload
         /\ pending[1].size \in 1..Payload
         /\ Cut(pending[1]) \in 1..Payload
         /\ Stop = "bytes" => Goal \in Nat /\ buf.to < Goal
<1>1. phase = "recording" /\ over # "goal"
  BY DEF DataInv, IdleInv, SlotInv
<1>2. /\ Len(pending) \in Nat /\ Len(pending) >= 1 /\ 1 \in 1..Len(pending)
      /\ Head(pending) = pending[1] /\ pending[1] \in Slots /\ next \in Nat
      /\ buf.to \in Nat
  <2>1. pending \in Seq(Slots) /\ next \in 0..MaxPackets /\ buf \in Buffers
    BY DEF DataInv, ShapeInv
  <2>2. next \in Nat /\ buf.to \in Nat
    BY <2>1, Sizes DEF Buffers
  <2>3. /\ Len(pending) \in Nat /\ Len(pending) >= 1 /\ 1 \in 1..Len(pending)
        /\ Head(pending) = pending[1] /\ pending[1] \in Slots
    BY <2>1
  <2> QED
    BY <2>2, <2>3
<1>3. /\ buf.to = (next - Len(pending)) * Payload
      /\ pending[1].at = (next - Len(pending) + (1 - 1)) * Payload
      /\ pending[1].size = Payload \/ pending[1].size \in 1..(Payload - 1)
  BY <1>2 DEF DataInv, SlotInv
<1>4. pending[1].at = buf.to
  BY <1>2, <1>3
<1>5. pending[1].size \in 1..Payload
  BY <1>3, Sizes
<1>6. buf.to % Payload = 0
  BY <1>2, <1>3, NextPlace
<1>7. Stop = "bytes" => Goal \in Nat /\ buf.to < Goal
  BY <1>1, RecordingValues DEF DataInv, GoalInv
<1>8. Cut(pending[1]) \in 1..Payload
  <2>1. /\ pending[1].size \in Nat /\ buf.to \in Nat
        /\ Stop = "bytes" => Goal \in Nat /\ pending[1].at < Goal
    BY <1>2, <1>4, <1>7 DEF Slots
  <2> QED
    BY <1>2, <1>4, <1>5, <2>1, CutFits
<1> QED
  BY <1>1, <1>2, <1>3, <1>4, <1>5, <1>6, <1>7, <1>8

LEMMA DataInvInit == ParamsInv /\ Init => DataInv
<1> SUFFICES ASSUME ParamsInv, Init PROVE DataInv
  OBVIOUS
<1>1. DataInit /\ phase = "idle"
  BY DEF Init, ParamsInit
<1>2. buf = EmptyBuf(0) /\ out = EmptyBuf(0)
  BY <1>1 DEF DataInit
<1>3. EmptyBuf(0) \in Buffers /\ Stored(EmptyBuf(0)) = 0
  BY DEF EmptyBuf, Buffers, Stored
<1>4. /\ buf \in Buffers /\ out \in Buffers /\ Stored(buf) = 0 /\ Stored(out) = 0
      /\ buf.from = 0 /\ buf.to = 0 /\ out.from = 0 /\ out.to = 0
  BY <1>2, <1>3 DEF EmptyBuf
<1>5. ShapeInv
  <2>1. /\ stage = "off" /\ step = "" /\ over = "" /\ next = 0 /\ pending = <<>>
        /\ disk = <<>> /\ ~fp /\ fp \in BOOLEAN /\ count = 0 /\ errors = {} /\ lost = {}
    BY <1>1 DEF DataInit
  <2>2. next \in 0..MaxPackets /\ Stored(buf) <= BufSize /\ Stored(out) <= BufSize
    <3>1. 0 \in 0..MaxPackets /\ 0 <= BufSize
      BY Sizes
    <3> QED
      BY <1>4, <2>1, <3>1
  <2>3. pending \in Seq(Slots) /\ disk \in Seq(Files)
    <3>1. <<>> \in Seq(Slots) /\ <<>> \in Seq(Files)
      OBVIOUS
    <3> QED
      BY <2>1, <3>1
  <2>4. buf.from <= buf.to /\ out.from <= out.to
    BY <1>4
  <2> QED
    BY <1>4, <2>1, <2>2, <2>3, <2>4 DEF ShapeInv
<1>6. LogInv
  BY <1>1 DEF DataInit, LogInv
<1>7. IdleInv
  BY <1>1 DEF DataInit, IdleInv
<1>8. SlotInv
  <2>1. Len(pending) = 0 /\ pending = <<>> /\ next = 0 /\ over = ""
    BY <1>1 DEF DataInit
  <2>2. buf.to = (next - Len(pending)) * Payload
    <3>1. 0 = (0 - 0) * Payload
      BY Sizes
    <3> QED
      BY <1>4, <2>1, <3>1
  <2>3. 1..Len(pending) = {} /\ Len(pending) <= next
    <3>1. 1..0 = {} /\ 0 <= 0
      OBVIOUS
    <3>2. Len(pending) = 0 /\ next = 0
      BY <2>1
    <3> QED
      BY <3>1, <3>2
  <2> QED
    BY <2>1, <2>2, <2>3 DEF SlotInv
<1>9. BufferInv /\ OutInv
  <2>1. stage = "off"
    BY <1>1 DEF DataInit
  <2>2. ~(buf.from < buf.to)
    BY <1>4
  <2> QED
    BY <2>1, <2>2 DEF BufferInv, OutInv
<1>10. GoalInv
  BY <1>1 DEF GoalInv
<1>11. DiskInv
  <2>1. Stream(<<>>, MaxFile)
    BY DEF Stream
  <2>2. disk = <<>> /\ stage = "off" /\ ~fp
    BY <1>1 DEF DataInit
  <2>3. FilesAreStream
    BY <2>1, <2>2, SameFiles
  <2> QED
    BY <1>1, <2>2, <2>3 DEF DiskInv, TailInv
<1> QED
  BY <1>5, <1>6, <1>7, <1>8, <1>9, <1>10, <1>11 DEF DataInv

-----------------------------------------------------------------------------
(* The steps of the receiving thread.                                        *)

LEMMA DataInvParams ==
  ASSUME ParamsInv, ParamsInv', DataInv, ParamsNext, UNCHANGED recording
  PROVE  DataInv'
<1>1. phase # "recording"
  <2>1. CASE RecordReads
    BY <2>1 DEF RecordReads
  <2>2. CASE StartRecordData
    BY <2>2 DEF StartRecordData
  <2>3. ASSUME NEW cmd \in Commands, ControlAccepts(cmd) \/ ControlRefuses(cmd)
        PROVE  phase # "recording"
    BY <2>3 DEF ControlAccepts, ControlRefuses
  <2>4. ASSUME NEW mode, WriteOption(mode) PROVE phase # "recording"
    BY <2>4 DEF WriteOption
  <2>5. ASSUME NEW field, EditFile(field) PROVE phase # "recording"
    BY <2>5 DEF EditFile
  <2> QED
    BY <2>1, <2>2, <2>3, <2>4, <2>5 DEF ParamsNext
<1>2. /\ stage' = stage /\ pending' = pending /\ over' = over /\ next' = next /\ buf' = buf
      /\ out' = out /\ step' = step /\ disk' = disk /\ fp' = fp /\ count' = count
      /\ lost' = lost /\ errors' = errors
      /\ log' = log /\ u32Loop' = u32Loop /\ zeros' = zeros /\ handover' = handover
  BY DEF recording, logging
<1>3. stage = "off" /\ over = "" /\ buf = EmptyBuf(0) /\ disk = <<>> /\ ~fp /\ count = 0
  BY <1>1 DEF DataInv, IdleInv
<1>4. ShapeInv' /\ LogInv' /\ IdleInv'
  <2>1. ShapeInv'
    BY <1>2 DEF DataInv, ShapeInv, Stored
  <2>2. LogInv'
    BY <1>2 DEF DataInv, LogInv
  <2>3. IdleInv'
    BY <1>2, <1>3 DEF DataInv, IdleInv
  <2> QED
    BY <2>1, <2>2, <2>3
<1>5. SlotInv'
  BY <1>2 DEF DataInv, SlotInv
<1>6. BufferInv' /\ OutInv'
  BY <1>2 DEF DataInv, BufferInv, OutInv
<1>7. phase' = "recording" => MaxFile' \in Nat /\ (Stop' = "bytes" => 0 < Goal')
  BY GoalIsSetNext
<1>8. GoalInv'
  <2>1. buf'.to = 0 /\ over' = ""
    BY <1>2, <1>3 DEF EmptyBuf
  <2> QED
    BY <1>7, <2>1 DEF GoalInv
<1>9. DiskInv'
  <2>1. Stream(<<>>, MaxFile')
    BY DEF Stream
  <2>2. disk' = <<>> /\ stage' = "off" /\ ~fp' /\ count' = 0
    BY <1>2, <1>3
  <2>3. FilesAreStream'
    BY <2>1, <2>2, SameFilesNext
  <2>4. phase' = "recording" => count' <= MaxFile'
    BY <1>7, <2>2
  <2> QED
    BY <2>2, <2>3, <2>4 DEF DiskInv, TailInv
<1> QED
  BY <1>4, <1>5, <1>6, <1>8, <1>9 DEF DataInv

\* Nothing happens.
LEMMA DataInvSame ==
  ASSUME DataInv, UNCHANGED params, UNCHANGED recording
  PROVE  DataInv'
<1>1. /\ stage' = stage /\ pending' = pending /\ over' = over /\ next' = next /\ buf' = buf
      /\ out' = out /\ step' = step /\ disk' = disk /\ fp' = fp /\ count' = count
      /\ lost' = lost /\ errors' = errors
      /\ log' = log /\ u32Loop' = u32Loop /\ zeros' = zeros /\ handover' = handover
  BY DEF recording, logging
<1>2. phase' = phase /\ Goal' = Goal /\ Stop' = Stop
  BY SameParams
<1>3. ShapeInv'
  BY <1>1 DEF DataInv, ShapeInv, Stored
<1>4. LogInv' /\ IdleInv' /\ SlotInv' /\ BufferInv' /\ OutInv' /\ GoalInv'
  BY <1>1, <1>2 DEF DataInv, LogInv, IdleInv, SlotInv, BufferInv, OutInv, GoalInv
<1>5. DiskInv'
  <2>1. DiskInv /\ Written' = Written
    BY <1>1 DEF DataInv, Written
  <2>2. "file" \notin errors' /\ stage' \in {"receiving", "writing", "flushing"} => fp'
    BY <1>1, <2>1 DEF DiskInv
  <2>3. stage' = "done" /\ over' = "goal" /\ "file" \notin errors' => OnDisk = 0..(Goal - 1)
    BY <1>1, <2>1 DEF DiskInv
  <2> QED
    BY <1>1, <2>1, <2>2, <2>3, DiskKept
<1> QED
  BY <1>3, <1>4, <1>5 DEF DataInv

LEMMA DataInvFirstPacket ==
  ASSUME ParamsInv, DataInv, FirstPacket
  PROVE  DataInv'
<1>1. /\ phase = "recording" /\ stage = "off" /\ UNCHANGED params
      /\ stage' = "receiving" /\ next' = 1 /\ pending' = <<Slot(0, Payload, TRUE)>>
      /\ over' = over /\ buf' = buf /\ out' = out /\ step' = step /\ count' = count
      /\ UNCHANGED logging /\ lost' = lost
      /\ \/ disk' = <<<<>>>> /\ fp' = TRUE /\ errors' = errors
         \/ errors' = errors \cup {"file"} /\ disk' = disk /\ fp' = fp
  BY DEF FirstPacket
<1>2. /\ over = "" /\ buf = EmptyBuf(0) /\ disk = <<>> /\ ~fp /\ count = 0 /\ step = ""
  BY <1>1 DEF DataInv, IdleInv
<1>3. buf.from = 0 /\ buf.to = 0
  BY <1>2 DEF EmptyBuf
<1>4. /\ pending' \in Seq(Slots) /\ Len(pending') = 1 /\ pending' # <<>>
      /\ pending'[1].at = 0 /\ pending'[1].size = Payload
  <2>1. Slot(0, Payload, TRUE) \in Slots
    BY Sizes DEF Slot, Slots
  <2> QED
    BY <1>1, <2>1 DEF Slot
<1>5. phase' = phase /\ Goal' = Goal /\ Stop' = Stop /\ MaxFile' = MaxFile
  BY <1>1, SameParams
<1>6. ShapeInv'
  <2>1. disk' \in Seq(Files) /\ fp' \in BOOLEAN /\ errors' \subseteq {"reorder", "file"}
    <3>1. <<>> \in Files /\ <<>> \in Seq(Files)
      BY DEF Files
    <3>2. <<<<>>>> \in Seq(Files)
      BY <3>1
    <3>3. errors \subseteq {"reorder", "file"} /\ fp \in BOOLEAN
      BY DEF DataInv, ShapeInv
    <3> QED
      BY <1>1, <1>2, <3>1, <3>2, <3>3
  <2>2. next' \in 0..MaxPackets
    BY <1>1, Sizes
  <2>3. /\ step \in {"", "reorder", "write", "log", "entry"} /\ over \in {"", "goal", "short"}
        /\ buf \in Buffers /\ out \in Buffers
        /\ buf.from <= buf.to /\ Stored(buf) <= BufSize
        /\ out.from <= out.to /\ Stored(out) <= BufSize
        /\ count \in Nat /\ lost \subseteq 0..(MaxPackets - 1)
    BY DEF DataInv, ShapeInv
  <2>4. Stored(buf)' = Stored(buf) /\ Stored(out)' = Stored(out)
    BY <1>1 DEF Stored
  <2> QED
    BY <1>1, <1>4, <2>1, <2>2, <2>3, <2>4 DEF ShapeInv
<1>7. LogInv' /\ IdleInv'
  BY <1>1, <1>2, <1>5 DEF DataInv, LogInv, IdleInv, logging
<1>8. SlotInv'
  <2>1. 0 = (1 - 1) * Payload /\ 0 = (1 - 1 + (1 - 1)) * Payload
    BY Sizes
  <2>2. Len(pending') = 1 /\ next' = 1 /\ buf'.to = 0 /\ stage' = "receiving" /\ over' = ""
    BY <1>1, <1>2, <1>3, <1>4
  <2>3. \A i \in 1..Len(pending') :
          /\ pending'[i].at = (next' - Len(pending') + (i - 1)) * Payload
          /\ pending'[i].size = Payload
    <3> SUFFICES ASSUME NEW i \in 1..1
                 PROVE  /\ pending'[i].at = (1 - 1 + (i - 1)) * Payload
                        /\ pending'[i].size = Payload
      BY <2>2
    <3>1. i = 1
      OBVIOUS
    <3> QED
      BY <1>4, <2>1, <3>1
  <2>4. buf'.to = (next' - Len(pending')) * Payload
    BY <2>1, <2>2
  <2>5. Len(pending') <= next'
    <3>1. 1 <= 1
      OBVIOUS
    <3> QED
      BY <2>2, <3>1
  <2> QED
    BY <2>2, <2>3, <2>4, <2>5 DEF SlotInv
<1>9. BufferInv' /\ OutInv'
  <2>1. 0 % Payload = 0
    BY Sizes
  <2> QED
    BY <1>1, <1>3, <2>1 DEF BufferInv, OutInv
<1>10. GoalInv'
  BY <1>1, <1>5 DEF DataInv, GoalInv
<1>11. DiskInv'
  <2>1. MaxFile \in Nat
    BY <1>1, RecordingValues
  <2>2. CASE disk' = <<<<>>>> /\ fp' = TRUE /\ errors' = errors
    <3>1. Stream(<<>>, MaxFile)
      BY DEF Stream
    <3>2. <<>> \in Seq(Files) /\ Append(<<>>, <<>>) = <<<<>>>> /\ Bytes(<<>>) = {}
      BY DEF Bytes, Range
    <3>3. Stream(<<<<>>>>, MaxFile) /\ Bytes(<<<<>>>>) = {}
      BY <3>1, <3>2, NewFile
    <3>4. OnDisk' = Bytes(disk') /\ (FilesAreStream' <=> Stream(disk', MaxFile'))
      BY SameFilesNext
    <3>5. FilesAreStream' /\ OnDisk' = {}
      BY <1>5, <2>2, <3>3, <3>4
    <3>6. Written' = 0
      BY <1>1, <1>3 DEF Written
    <3>7. 0..(0 - 1) = {}
      OBVIOUS
    <3>8. Len(disk') = 1 /\ disk'[1] = <<>> /\ disk' # <<>> /\ count' = 0 /\ fp'
      BY <1>1, <1>2, <2>2
    <3>9. TailInv'
      BY <3>5, <3>6, <3>7, <3>8 DEF TailInv
    <3> QED
      BY <1>1, <1>5, <2>1, <3>5, <3>8, <3>9 DEF DiskInv
  <2>3. CASE errors' = errors \cup {"file"} /\ disk' = disk /\ fp' = fp
    BY <1>1, <1>2, <2>3, DiskKept DEF DataInv
  <2> QED
    BY <1>1, <2>2, <2>3
<1> QED
  BY <1>6, <1>7, <1>8, <1>9, <1>10, <1>11 DEF DataInv

LEMMA DataInvReceive ==
  ASSUME ParamsInv, DataInv, NEW gap \in 0..MaxGap, NEW size \in {Payload} \cup ShortSizes,
         Receive(gap, size)
  PROVE  DataInv'
<1>1. /\ stage = "receiving" /\ pending = <<>> /\ over = "" /\ next + gap < MaxPackets
      /\ pending' = [i \in 1..(gap + 1) |->
                       Slot((next + i - 1) * Payload, IF i > gap THEN size ELSE Payload, i > gap)]
      /\ lost' = lost \cup next..(next + gap - 1) /\ next' = next + gap + 1
      /\ over' = IF size = Payload THEN "" ELSE "short"
      /\ UNCHANGED params /\ stage' = stage /\ buf' = buf /\ out' = out /\ step' = step
      /\ disk' = disk /\ fp' = fp /\ count' = count /\ UNCHANGED logging /\ errors' = errors
  BY DEF Receive, Listening
<1>2. /\ gap \in Nat /\ size \in 1..Payload /\ Payload \in Nat /\ MaxPackets \in Nat
      /\ size # Payload => size \in 1..(Payload - 1)
  BY Sizes
<1>3. next \in Nat /\ next + gap < MaxPackets
  <2>1. next \in 0..MaxPackets
    BY DEF DataInv, ShapeInv
  <2>2. next \in Nat
    BY <2>1
  <2> QED
    BY <1>1, <2>2
<1>4. phase' = phase /\ Goal' = Goal /\ Stop' = Stop
  BY <1>1, SameParams
<1> DEFINE slot(i) == Slot((next + i - 1) * Payload, IF i > gap THEN size ELSE Payload, i > gap)
<1>5. \A i \in 1..(gap + 1) : slot(i) \in Slots
  <2> TAKE i \in 1..(gap + 1)
  <2>1. next + i - 1 \in Nat
    BY <1>2, <1>3
  <2>2. (next + i - 1) * Payload \in Nat
    BY <1>2, <2>1
  <2>3. (IF i > gap THEN size ELSE Payload) \in Nat
    BY <1>2
  <2> QED
    BY <2>2, <2>3 DEF Slot, Slots
<1>6. pending' \in Seq(Slots) /\ Len(pending') = gap + 1 /\ pending' # <<>>
  <2>1. gap + 1 \in Nat /\ gap + 1 # 0
    BY <1>2
  <2>2. pending' = [i \in 1..(gap + 1) |-> slot(i)]
    BY <1>1
  <2> HIDE DEF slot
  <2>3. pending' \in [1..(gap + 1) -> Slots]
    BY <1>5, <2>2
  <2>4. pending' \in Seq(Slots)
    BY <2>1, <2>3
  <2>5. Len(pending') = gap + 1
    BY <2>1, <2>3
  <2> QED
    BY <2>1, <2>4, <2>5
<1>7. ShapeInv'
  <2>1. next' \in 0..MaxPackets /\ lost' \subseteq 0..(MaxPackets - 1)
    <3>1. next..(next + gap - 1) \subseteq 0..(MaxPackets - 1)
      BY <1>2, <1>3
    <3>2. lost \subseteq 0..(MaxPackets - 1)
      BY DEF DataInv, ShapeInv
    <3>3. next + gap + 1 \in 0..MaxPackets
      BY <1>2, <1>3
    <3> QED
      BY <1>1, <3>1, <3>2, <3>3
  <2>2. over' \in {"", "goal", "short"}
    BY <1>1
  <2>3. Stored(buf)' = Stored(buf) /\ Stored(out)' = Stored(out)
    BY <1>1 DEF Stored
  <2> QED
    BY <1>1, <1>6, <2>1, <2>2, <2>3 DEF DataInv, ShapeInv
<1>8. LogInv' /\ IdleInv'
  BY <1>1, <1>4 DEF DataInv, LogInv, IdleInv, logging
<1>9. SlotInv'
  <2>1. next' - Len(pending') = next /\ Len(pending') <= next'
    <3>1. (next + gap + 1) - (gap + 1) = next /\ gap + 1 <= next + gap + 1
      BY <1>2, <1>3
    <3> QED
      BY <1>1, <1>6, <3>1
  <2>2. buf'.to = (next' - Len(pending')) * Payload
    <3>1. Len(pending) = 0 /\ buf.to = (next - Len(pending)) * Payload
      BY <1>1 DEF DataInv, SlotInv
    <3>2. next - Len(pending) = next
      BY <1>3, <3>1
    <3> QED
      BY <1>1, <2>1, <3>1, <3>2
  <2>3. \A i \in 1..Len(pending') :
          /\ pending'[i].at = (next' - Len(pending') + (i - 1)) * Payload
          /\ \/ pending'[i].size = Payload
             \/ /\ i = Len(pending') /\ over' = "short"
                /\ pending'[i].size \in 1..(Payload - 1)
    <3> SUFFICES ASSUME NEW i \in 1..(gap + 1)
                 PROVE  /\ pending'[i].at = (next + (i - 1)) * Payload
                        /\ \/ pending'[i].size = Payload
                           \/ /\ i = gap + 1 /\ over' = "short"
                              /\ pending'[i].size \in 1..(Payload - 1)
      BY <1>6, <2>1
    <3>1. /\ pending'[i].at = (next + i - 1) * Payload
          /\ pending'[i].size = IF i > gap THEN size ELSE Payload
      <4>1. pending'[i] = slot(i)
        BY <1>1
      <4> QED
        BY <4>1 DEF Slot
    <3>2. next + i - 1 = next + (i - 1)
      BY <1>2, <1>3
    <3>3. CASE i > gap /\ size # Payload
      <4>1. i = gap + 1
        BY <1>2, <3>3
      <4> QED
        BY <1>1, <1>2, <3>1, <3>2, <3>3, <4>1
    <3>4. CASE ~(i > gap /\ size # Payload)
      BY <3>1, <3>2, <3>4
    <3> QED
      BY <3>3, <3>4
  <2> QED
    BY <1>1, <2>1, <2>2, <2>3 DEF SlotInv
<1>10. BufferInv' /\ OutInv'
  BY <1>1 DEF DataInv, BufferInv, OutInv
<1>11. GoalInv'
  BY <1>1, <1>4 DEF DataInv, GoalInv
<1>12. DiskInv'
  <2>1. DiskInv
    BY DEF DataInv
  <2>2. Written' = Written
    BY <1>1 DEF Written
  <2>3. "file" \notin errors' /\ stage' \in {"receiving", "writing", "flushing"} => fp'
    BY <1>1, <2>1 DEF DiskInv
  <2> QED
    BY <1>1, <2>1, <2>2, <2>3, DiskKept
<1> QED
  BY <1>7, <1>8, <1>9, <1>10, <1>11, <1>12 DEF DataInv

LEMMA DataInvReceiveLate ==
  ASSUME ParamsInv, DataInv, NEW p \in 0..(MaxPackets - 1), ReceiveLate(p)
  PROVE  DataInv'
<1>1. /\ stage = "receiving" /\ stage' = stage
      /\ buf' = [buf EXCEPT !.entries[Len(buf.entries) - (next - p) + 1] =
                              Slot(p * Payload, Payload, TRUE)]
      /\ lost' = lost \ {p}
      /\ UNCHANGED params /\ pending' = pending /\ over' = over /\ next' = next
      /\ out' = out /\ step' = step /\ disk' = disk /\ fp' = fp /\ count' = count
      /\ UNCHANGED logging /\ errors' = errors
  BY DEF ReceiveLate, Listening
<1>2. buf \in Buffers /\ Slot(p * Payload, Payload, TRUE) \in Slots
  <2>1. p * Payload \in Nat
    BY Sizes
  <2> QED
    BY <2>1, Sizes DEF DataInv, ShapeInv, Slot, Slots
<1>3. /\ buf'.from = buf.from /\ buf'.to = buf.to /\ Len(buf'.entries) = Len(buf.entries)
      /\ buf' \in Buffers
  <2> DEFINE k == Len(buf.entries) - (next - p) + 1
             s == Slot(p * Payload, Payload, TRUE)
             e == [buf.entries EXCEPT ![k] = s]
  <2>1. buf.entries \in Seq(Slots) /\ buf.from \in Nat /\ buf.to \in Nat
    BY <1>2 DEF Buffers
  <2>2. buf' = [buf EXCEPT !.entries = e]
    BY <1>1
  <2>3. s \in Slots
    BY <1>2
  <2> HIDE DEF k, s
  <2>4. e \in Seq(Slots) /\ Len(e) = Len(buf.entries)
    <3> DEFINE n == Len(buf.entries)
    <3>1. n \in Nat /\ buf.entries \in [1..n -> Slots]
      BY <2>1
    <3>2. e \in [1..n -> Slots]
      BY <2>3, <3>1
    <3> HIDE DEF e, n
    <3>3. e \in Seq(Slots) /\ Len(e) = n
      BY <3>1, <3>2
    <3> QED
      BY <3>3 DEF n
  <2> HIDE DEF e
  <2> QED
    BY <1>2, <2>1, <2>2, <2>4 DEF Buffers
<1>4. buf.entries # <<>> => buf'.entries # <<>>
  BY <1>2, <1>3 DEF Buffers
<1>5. phase' = phase /\ Goal' = Goal /\ Stop' = Stop
  BY <1>1, SameParams
<1>6. ShapeInv'
  <2>1. Stored(buf)' = Stored(buf) /\ Stored(out)' = Stored(out)
    BY <1>1, <1>3 DEF Stored
  <2> QED
    BY <1>1, <1>3, <2>1 DEF DataInv, ShapeInv
<1>7. LogInv' /\ IdleInv'
  BY <1>1, <1>5 DEF DataInv, LogInv, IdleInv, logging
<1>8. SlotInv'
  BY <1>1, <1>3 DEF DataInv, SlotInv
<1>9. BufferInv' /\ OutInv'
  BY <1>1, <1>3, <1>4 DEF DataInv, BufferInv, OutInv
<1>10. GoalInv'
  BY <1>1, <1>3, <1>5 DEF DataInv, GoalInv
<1>11. DiskInv'
  <2>1. DiskInv
    BY DEF DataInv
  <2>2. Written' = Written
    BY <1>1, <1>3 DEF Written
  <2>3. "file" \notin errors' /\ stage' \in {"receiving", "writing", "flushing"} => fp'
    BY <1>1, <2>1 DEF DiskInv
  <2> QED
    BY <1>1, <2>1, <2>2, <2>3, DiskKept
<1> QED
  BY <1>6, <1>7, <1>8, <1>9, <1>10, <1>11 DEF DataInv

LEMMA DataInvSwitch ==
  ASSUME ParamsInv, DataInv, Switch
  PROVE  DataInv'
<1>1. /\ stage = "receiving" /\ pending # <<>> /\ MustSwitch(Head(pending))
      /\ stage' = "writing" /\ step' = "reorder" /\ out' = buf /\ buf' = EmptyBuf(buf.to)
      /\ UNCHANGED params /\ pending' = pending /\ over' = over /\ next' = next
      /\ disk' = disk /\ fp' = fp /\ count' = count /\ UNCHANGED logging
      /\ lost' = lost /\ errors' = errors
  BY DEF Switch
<1>2. /\ buf \in Buffers /\ buf.from \in Nat /\ buf.to \in Nat /\ buf.from <= buf.to
      /\ Stored(buf) <= BufSize
  BY DEF DataInv, ShapeInv, Buffers
<1>3. /\ buf'.from = buf.to /\ buf'.to = buf.to /\ buf' \in Buffers /\ Stored(buf') = 0
      /\ 0 <= BufSize
  <2>1. buf'.from = buf.to /\ buf'.to = buf.to /\ buf' \in Buffers
    BY <1>1, <1>2 DEF EmptyBuf, Buffers
  <2>2. Stored(buf') = 0
    BY <1>2, <2>1 DEF Stored
  <2> QED
    BY <2>1, <2>2, Sizes
<1>4. phase' = phase /\ Goal' = Goal /\ Stop' = Stop
  BY <1>1, SameParams
<1>5. buf.to % Payload = 0 /\ Head(pending) = pending[1] /\ Cut(pending[1]) \in 1..Payload
  BY <1>1, HeadSlot
<1>6. buf.from < buf.to
  <2>1. Stored(buf) + Cut(pending[1]) > BufSize
    BY <1>1, <1>5 DEF MustSwitch
  <2>2. Stored(buf) \in Nat /\ Stored(buf) = buf.to - buf.from
    BY <1>2 DEF Stored
  <2>3. Stored(buf) > 0
    BY <1>5, <2>1, <2>2, Sizes
  <2> QED
    BY <1>2, <2>2, <2>3
<1>7. ShapeInv'
  <2>1. Stored(buf)' = 0 /\ Stored(out)' = Stored(buf)
    BY <1>1, <1>3 DEF Stored
  <2>2. buf'.from <= buf'.to
    BY <1>2, <1>3
  <2> QED
    BY <1>1, <1>2, <1>3, <2>1, <2>2 DEF DataInv, ShapeInv
<1>8. LogInv' /\ IdleInv'
  <2>1. phase = "recording"
    BY <1>1 DEF DataInv, IdleInv
  <2> QED
    BY <1>1, <1>4, <2>1 DEF DataInv, LogInv, IdleInv, logging
<1>9. SlotInv'
  BY <1>1, <1>3 DEF DataInv, SlotInv
<1>10. BufferInv'
  <2>1. ~(buf.to < buf.to)
    BY <1>2
  <2> QED
    BY <1>1, <1>3, <1>5, <2>1 DEF BufferInv
<1>11. OutInv'
  BY <1>1, <1>3, <1>6 DEF DataInv, BufferInv, OutInv
<1>12. GoalInv'
  BY <1>1, <1>3, <1>4 DEF DataInv, GoalInv
<1>13. DiskInv'
  <2>1. DiskInv
    BY DEF DataInv
  <2>2. Written' = Written
    BY <1>1 DEF Written
  <2>3. "file" \notin errors' => fp'
    BY <1>1, <2>1 DEF DiskInv
  <2> QED
    BY <1>1, <2>1, <2>2, <2>3, DiskKept
<1> QED
  BY <1>7, <1>8, <1>9, <1>10, <1>11, <1>12, <1>13 DEF DataInv

LEMMA AppendSlots ==
  ASSUME NEW S, NEW q \in Seq(S), NEW x \in S
  PROVE  Append(q, x) \in Seq(S) /\ Append(q, x) # <<>>
<1>1. Append(q, x) \in Seq(S) /\ Len(Append(q, x)) = Len(q) + 1 /\ Len(q) \in Nat
  OBVIOUS
<1>2. Len(Append(q, x)) # 0
  BY <1>1
<1> QED
  BY <1>1, <1>2

LEMMA TailSlots ==
  ASSUME NEW S, NEW q \in Seq(S), q # <<>>
  PROVE  /\ Len(q) \in Nat /\ Len(q) >= 1
         /\ Tail(q) \in Seq(S) /\ Len(Tail(q)) = Len(q) - 1
         /\ \A i \in 1..(Len(q) - 1) : Tail(q)[i] = q[i + 1]
         /\ Tail(q) # <<>> => Len(q) - 1 >= 1
<1>1. Len(q) \in Nat /\ Len(q) >= 1
  OBVIOUS
<1>2. Tail(q) \in Seq(S) /\ Len(Tail(q)) = Len(q) - 1
  OBVIOUS
<1>3. \A i \in 1..(Len(q) - 1) : Tail(q)[i] = q[i + 1]
  OBVIOUS
<1>4. Tail(q) # <<>> => Len(Tail(q)) >= 1
  BY <1>2
<1> QED
  BY <1>1, <1>2, <1>3, <1>4

LEMMA DataInvStore ==
  ASSUME ParamsInv, DataInv, Store
  PROVE  DataInv'
<1> DEFINE s == pending[1]
           atGoal == Stop = "bytes" /\ s.at + s.size >= Goal
           n == Len(pending)
<1>1. /\ stage = "receiving" /\ pending # <<>> /\ ~MustSwitch(Head(pending)) /\ stage' = stage
      /\ Head(pending) = s
      /\ buf' = [buf EXCEPT !.to = @ + Cut(s), !.entries = Append(@, s)]
      /\ pending' = IF atGoal THEN <<>> ELSE Tail(pending)
      /\ over' = IF atGoal THEN "goal" ELSE over
      /\ UNCHANGED params /\ next' = next /\ out' = out /\ step' = step
      /\ disk' = disk /\ fp' = fp /\ count' = count /\ UNCHANGED logging
      /\ lost' = lost /\ errors' = errors
  BY HeadSlot DEF Store
<1>2. /\ phase = "recording" /\ over # "goal" /\ s \in Slots /\ s.at = buf.to
      /\ buf.to = (next - n) * Payload /\ s.size \in 1..Payload /\ Cut(s) \in 1..Payload
      /\ Stop = "bytes" => Goal \in Nat /\ buf.to < Goal
  BY <1>1, HeadSlot
<1>3. /\ buf \in Buffers /\ buf.from \in Nat /\ buf.to \in Nat /\ buf.from <= buf.to
      /\ buf.entries \in Seq(Slots) /\ pending \in Seq(Slots) /\ next \in Nat
  <2>1. next \in 0..MaxPackets /\ buf \in Buffers /\ pending \in Seq(Slots) /\ buf.from <= buf.to
    BY DEF DataInv, ShapeInv
  <2>2. next \in Nat
    BY <2>1
  <2> QED
    BY <2>1, <2>2 DEF Buffers
<1>4. /\ n \in Nat /\ n >= 1 /\ 1 \in 1..n /\ next - n \in Int
      /\ n - 1 >= 1 => 1 # n
  <2>1. n \in Nat /\ n >= 1
    BY <1>1, <1>3
  <2>2. \A k \in Nat : k >= 1 => 1 \in 1..k /\ next - k \in Int /\ (k - 1 >= 1 => 1 # k)
    BY <1>3
  <2> QED
    BY <2>1, <2>2
<1>5. /\ over' \in {"", "goal", "short"}
      /\ pending' \in Seq(Slots)
  <2>1. Tail(pending) \in Seq(Slots) /\ <<>> \in Seq(Slots)
    BY <1>1, <1>3
  <2> QED
    BY <1>1, <2>1 DEF DataInv, ShapeInv
<1>6. /\ buf'.from = buf.from /\ buf'.to = buf.to + Cut(s) /\ buf'.to \in Nat
      /\ buf'.entries = Append(buf.entries, s)
      /\ buf'.entries \in Seq(Slots) /\ buf'.entries # <<>> /\ buf' \in Buffers
      /\ buf'.from <= buf'.to
  <2> HIDE DEF s, atGoal, n
  <2>1. buf.to + Cut(s) \in Nat /\ buf.from <= buf.to + Cut(s)
    BY <1>2, <1>3
  <2>2. /\ Append(buf.entries, s) \in Seq(Slots) /\ Append(buf.entries, s) # <<>>
    BY <1>2, <1>3, AppendSlots
  <2>3. /\ buf'.from = buf.from /\ buf'.to = buf.to + Cut(s)
        /\ buf'.entries = Append(buf.entries, s)
    BY <1>1, <1>3 DEF Buffers
  <2>4. buf' \in Buffers
    BY <1>1, <1>3, <2>1, <2>2 DEF Buffers
  <2> QED
    BY <2>1, <2>2, <2>3, <2>4
<1>7. phase' = phase /\ Goal' = Goal /\ Stop' = Stop
  BY <1>1, SameParams
<1>8. ShapeInv'
  <2>1. Stored(buf') = Stored(buf) + Cut(s)
    <3> HIDE DEF s
    <3> QED
      BY <1>2, <1>3, <1>6 DEF Stored
  <2>2. Stored(buf') <= BufSize
    <3>1. ~(Stored(buf) + Cut(s) > BufSize)
      BY <1>1 DEF MustSwitch
    <3>2. Stored(buf) \in Int /\ Cut(s) \in Int /\ BufSize \in Int
      BY <1>2, <1>3, Sizes DEF Stored
    <3> QED
      BY <2>1, <3>1, <3>2
  <2>3. Stored(buf)' = Stored(buf') /\ Stored(out)' = Stored(out)
    BY <1>1 DEF Stored
  <2> QED
    BY <1>1, <1>5, <1>6, <2>2, <2>3 DEF DataInv, ShapeInv
<1>9. LogInv' /\ IdleInv'
  BY <1>1, <1>2, <1>7 DEF DataInv, LogInv, IdleInv, logging
<1>10. /\ n <= next
       /\ \A i \in 1..n :
            /\ pending[i].at = (next - n + (i - 1)) * Payload
            /\ \/ pending[i].size = Payload
               \/ i = n /\ over = "short" /\ pending[i].size \in 1..(Payload - 1)
  BY DEF DataInv, SlotInv
<1>11. SlotInv'
  <2>1. CASE atGoal
    <3>1. pending' = <<>> /\ over' = "goal" /\ Len(pending') = 0
      BY <1>1, <2>1
    <3>2. 1..0 = {} /\ 0 <= next
      BY <1>3
    <3> QED
      BY <1>1, <3>1, <3>2 DEF SlotInv
  <2>2. CASE ~atGoal
    <3>1. pending' = Tail(pending) /\ over' = over
      BY <1>1, <2>2
    <3>2. /\ Len(pending') = n - 1 /\ \A i \in 1..(n - 1) : pending'[i] = pending[i + 1]
          /\ pending' # <<>> => n - 1 >= 1
      BY <1>1, <1>3, <3>1, TailSlots
    <3>3. n - 1 <= next' /\ next' - (n - 1) = next - n + 1
      BY <1>1, <1>3, <1>4, <1>10
    <3>5. pending' # <<>> \/ over' = "" => buf'.to = (next' - (n - 1)) * Payload
      <4> SUFFICES ASSUME n - 1 >= 1 \/ over = "" PROVE buf'.to = (next - n + 1) * Payload
        BY <1>1, <3>1, <3>2, <3>3
      <4>1. 1 \in 1..n /\ (1 = n => over = "")
        BY <1>4
      <4>2. s.size = Payload
        BY <1>10, <4>1
      <4>3. Cut(s) = s.size
        BY <2>2 DEF Cut
      <4>5. (next - n + 1) * Payload = (next - n) * Payload + Payload
        BY <1>4, NextPlace
      <4> QED
        BY <1>2, <1>6, <4>2, <4>3, <4>5
    <3>6. \A i \in 1..(n - 1) :
            /\ pending'[i].at = (next' - (n - 1) + (i - 1)) * Payload
            /\ \/ pending'[i].size = Payload
               \/ i = n - 1 /\ over' = "short" /\ pending'[i].size \in 1..(Payload - 1)
      <4> TAKE i \in 1..(n - 1)
      <4>1. i + 1 \in 1..n /\ pending'[i] = pending[i + 1] /\ (i + 1 = n => i = n - 1)
        BY <1>4, <3>2
      <4>2. next' - (n - 1) + (i - 1) = next - n + ((i + 1) - 1)
        BY <1>1, <1>3, <1>4
      <4> QED
        BY <1>10, <3>1, <4>1, <4>2
    <3>7. over' = "goal" => pending' = <<>>
      BY <1>2, <3>1
    <3> QED
      BY <1>1, <3>2, <3>3, <3>5, <3>6, <3>7 DEF SlotInv
  <2> QED
    BY <2>1, <2>2
<1>12. BufferInv' /\ OutInv'
  BY <1>1, <1>6 DEF DataInv, BufferInv, OutInv
<1>13. GoalInv'
  <2>1. CASE atGoal
    <3>1. Cut(s) = Goal - s.at /\ Stop = "bytes"
      BY <2>1 DEF Cut
    <3>2. buf'.to = Goal
      BY <1>2, <1>3, <1>6, <3>1
    <3> QED
      BY <1>1, <1>7, <2>1, <3>1, <3>2 DEF GoalInv
  <2>2. CASE ~atGoal
    <3>1. over' = over /\ Cut(s) = s.size
      BY <1>1, <2>2 DEF Cut
    <3>2. Stop = "bytes" => buf'.to < Goal
      <4> SUFFICES ASSUME Stop = "bytes" PROVE buf'.to < Goal
        OBVIOUS
      <4>1. ~(s.at + s.size >= Goal) /\ s.at = buf.to /\ s.size \in Nat /\ Goal \in Nat
        BY <1>2, <2>2
      <4>2. buf'.to = buf.to + s.size
        BY <1>6, <3>1
      <4> HIDE DEF s
      <4> QED
        BY <1>3, <4>1, <4>2
    <3> QED
      BY <1>2, <1>7, <3>1, <3>2 DEF GoalInv
  <2> QED
    BY <2>1, <2>2
<1>14. DiskInv'
  <2>1. DiskInv
    BY DEF DataInv
  <2>2. Written' = Written
    BY <1>1, <1>6 DEF Written
  <2>3. "file" \notin errors' => fp'
    BY <1>1, <2>1 DEF DiskInv
  <2> QED
    BY <1>1, <2>1, <2>2, <2>3, DiskKept
<1> QED
  BY <1>8, <1>9, <1>11, <1>12, <1>13, <1>14 DEF DataInv

LEMMA DataInvFlush ==
  ASSUME ParamsInv, DataInv, Flush
  PROVE  DataInv'
<1>1. /\ stage = "receiving" /\ pending = <<>>
      /\ \/ /\ Stored(buf) > 0 /\ stage' = "flushing" /\ step' = "reorder"
            /\ out' = buf /\ buf' = EmptyBuf(buf.to)
         \/ /\ ~(Stored(buf) > 0) /\ stage' = "done"
            /\ out' = out /\ buf' = buf /\ step' = step
      /\ UNCHANGED params /\ pending' = pending /\ over' = over /\ next' = next
      /\ disk' = disk /\ fp' = fp /\ count' = count /\ UNCHANGED logging
      /\ lost' = lost /\ errors' = errors
  BY DEF Flush
<1>2. /\ buf \in Buffers /\ buf.from \in Nat /\ buf.to \in Nat /\ buf.from <= buf.to
      /\ Stored(buf) <= BufSize
  BY DEF DataInv, ShapeInv, Buffers
<1>3. phase' = phase /\ Goal' = Goal /\ Stop' = Stop /\ phase = "recording"
  BY <1>1, SameParams DEF DataInv, IdleInv
<1>4. buf'.to = buf.to /\ buf'.from = buf'.to /\ buf' \in Buffers
  <2>1. CASE stage' = "flushing"
    <3>1. buf' = EmptyBuf(buf.to)
      BY <1>1, <2>1
    <3> QED
      BY <1>2, <3>1 DEF EmptyBuf, Buffers
  <2>2. CASE stage' = "done"
    <3>1. ~(Stored(buf) > 0) /\ buf' = buf
      BY <1>1, <2>2
    <3>2. ~(buf.to - buf.from > 0)
      BY <3>1 DEF Stored
    <3>3. buf.from = buf.to
      BY <1>2, <3>2
    <3> QED
      BY <1>2, <3>1, <3>3
  <2> QED
    BY <1>1, <2>1, <2>2
<1>5. ShapeInv'
  <2>1. Stored(buf)' = 0 /\ buf'.from <= buf'.to /\ 0 <= BufSize
    BY <1>2, <1>4, Sizes DEF Stored
  <2>2. out' = out \/ out' = buf
    BY <1>1
  <2>3. out' \in Buffers /\ out'.from <= out'.to /\ Stored(out)' <= BufSize
    BY <1>2, <2>2 DEF DataInv, ShapeInv, Stored
  <2>4. /\ stage' \in {"off", "receiving", "writing", "flushing", "done", "crashed"}
        /\ step' \in {"", "reorder", "write", "log", "entry"}
    BY <1>1 DEF DataInv, ShapeInv
  <2> QED
    BY <1>1, <1>4, <2>1, <2>3, <2>4 DEF DataInv, ShapeInv
<1>6. LogInv' /\ IdleInv'
  BY <1>1, <1>3 DEF DataInv, LogInv, IdleInv, logging
<1>7. SlotInv'
  <2>1. buf'.to = buf.to
    BY <1>4
  <2> QED
    BY <1>1, <2>1 DEF DataInv, SlotInv
<1>8. BufferInv'
  <2>1. ~(buf'.from < buf'.to)
    BY <1>2, <1>4
  <2> QED
    BY <1>1, <1>4, <2>1 DEF BufferInv
<1>9. OutInv'
  <2>1. stage' = "flushing" => out' = buf /\ step' = "reorder" /\ buf.from < buf.to
    <3>1. Stored(buf) > 0 => buf.from < buf.to
      BY <1>2 DEF Stored
    <3> QED
      BY <1>1, <3>1
  <2> QED
    BY <1>1, <1>4, <2>1 DEF DataInv, BufferInv, OutInv
<1>10. GoalInv'
  BY <1>1, <1>3, <1>4 DEF DataInv, GoalInv
<1>11. DiskInv'
  <2>1. DiskInv
    BY DEF DataInv
  <2>2. Written' = Written
    BY <1>1 DEF Written
  <2>3. "file" \notin errors' => fp'
    BY <1>1, <2>1 DEF DiskInv
  <2>4. stage' = "done" /\ over' = "goal" /\ "file" \notin errors' => OnDisk = 0..(Goal - 1)
    <3> SUFFICES ASSUME stage' = "done", over = "goal", "file" \notin errors
                 PROVE  OnDisk = 0..(Goal - 1)
      BY <1>1
    <3>1. fp
      BY <1>1, <2>1 DEF DiskInv
    <3>2. OnDisk = 0..(buf.from - 1)
      BY <1>1, <2>1, <3>1 DEF DiskInv, TailInv, Written
    <3>3. buf.to = Goal
      BY <1>3 DEF DataInv, GoalInv
    <3>4. buf.from = buf.to
      BY <1>1, <1>4
    <3> QED
      BY <3>2, <3>3, <3>4
  <2> QED
    BY <1>1, <2>1, <2>2, <2>3, <2>4, DiskKept
<1> QED
  BY <1>5, <1>6, <1>7, <1>8, <1>9, <1>10, <1>11 DEF DataInv

-----------------------------------------------------------------------------
(* The steps that write a buffer out.                                        *)

LEMMA WriterFacts ==
  ASSUME DataInv, NEW s, Writing(s)
  PROVE  /\ phase = "recording" /\ stage \in {"writing", "flushing"} /\ step = s
         /\ out.from \in Nat /\ out.to \in Nat /\ out.from <= out.to /\ out.to = buf.from
         /\ out.entries \in Seq(Slots) /\ out.entries # <<>> /\ Written = out.from
         /\ s \in {"reorder", "write"} => out.from % Payload = 0 /\ out.from < out.to
         /\ s \in {"log", "entry"} => out.from = out.to
         /\ stage = "writing" => buf.from % Payload = 0
         /\ stage = "flushing" => buf.from = buf.to
         /\ over = "goal" => Stop = "bytes" /\ buf.to = Goal
         /\ "file" \notin errors => fp
         /\ fp => OnDisk = 0..(out.from - 1)
<1>1. stage \in {"writing", "flushing"} /\ step = s
  BY DEF Writing
<1>2. phase = "recording"
  BY <1>1 DEF DataInv, IdleInv
<1>3. /\ out.from \in Nat /\ out.to \in Nat /\ out.from <= out.to
      /\ out.entries \in Seq(Slots)
  BY DEF DataInv, ShapeInv, Buffers
<1>4. Written = out.from
  BY <1>1 DEF Written
<1>5. /\ out.to = buf.from /\ out.entries # <<>>
      /\ s \in {"reorder", "write"} => out.from % Payload = 0 /\ out.from < out.to
      /\ s \in {"log", "entry"} => out.from = out.to
  BY <1>1 DEF DataInv, OutInv
<1>6. /\ stage = "writing" => buf.from % Payload = 0
      /\ stage = "flushing" => buf.from = buf.to
  BY DEF DataInv, BufferInv
<1>7. over = "goal" => Stop = "bytes" /\ buf.to = Goal
  BY <1>2 DEF DataInv, GoalInv
<1>8. /\ "file" \notin errors => fp
      /\ fp => OnDisk = 0..(out.from - 1)
  BY <1>1, <1>4 DEF DataInv, DiskInv, TailInv
<1> QED
  BY <1>1, <1>2, <1>3, <1>4, <1>5, <1>6, <1>7, <1>8

\* Only the rest of a stream that does not end at the byte goal may have no whole blocks.
LEMMA OnlyTheRestIsDropped ==
  ASSUME ParamsInv, DataInv, Writing("reorder"), Stored(out) % Block # 0
  PROVE  stage = "flushing" /\ over # "goal"
<1>1. /\ phase = "recording" /\ stage \in {"writing", "flushing"}
      /\ out.from \in Nat /\ out.to \in Nat /\ out.to = buf.from
      /\ out.from % Payload = 0
      /\ stage = "writing" => buf.from % Payload = 0
      /\ stage = "flushing" => buf.from = buf.to
      /\ over = "goal" => Stop = "bytes" /\ buf.to = Goal
  BY WriterFacts
<1>2. Block \in {8, 16} /\ Goal \in Nat /\ (Stop = "bytes" => Goal % Block = 0)
  BY <1>1, RecordingValues
<1>3. out.from % Block = 0 /\ Block \in Nat \ {0}
  BY <1>1, <1>2, PayloadsAreBlocks
<1> SUFFICES ASSUME stage = "writing" \/ over = "goal" PROVE FALSE
  BY <1>1
<1>4. out.to % Block = 0
  <2>1. CASE stage = "writing"
    BY <1>1, <1>2, <2>1, PayloadsAreBlocks
  <2>2. CASE stage = "flushing" /\ over = "goal"
    BY <1>1, <1>2, <2>2
  <2> QED
    BY <1>1, <2>1, <2>2
<1>5. (out.to - out.from) % Block = 0
  BY <1>1, <1>3, <1>4, SumOfMultiples
<1> QED
  BY <1>5 DEF Stored

LEMMA DataInvReorder ==
  ASSUME ParamsInv, DataInv, Reorder
  PROVE  DataInv'
<1> DEFINE Drop == used.conf.reorder /\ Stored(out) % Block # 0
<1>1. /\ Writing("reorder")
      /\ UNCHANGED params /\ pending' = pending /\ over' = over /\ next' = next
      /\ buf' = buf /\ out' = out /\ disk' = disk /\ count' = count /\ UNCHANGED logging
      /\ lost' = lost
      /\ \/ /\ Drop /\ stage' = IF stage = "flushing" THEN "done" ELSE "receiving"
            /\ fp' = (fp /\ stage = "writing") /\ step' = "" /\ errors' = errors \cup {"reorder"}
         \/ ~Drop /\ step' = "write" /\ stage' = stage /\ fp' = fp /\ errors' = errors
  BY DEF Reorder, Return
<1>2. /\ phase = "recording" /\ stage \in {"writing", "flushing"} /\ step = "reorder"
      /\ out.from \in Nat /\ out.to \in Nat /\ out.from <= out.to /\ out.to = buf.from
      /\ out.from % Payload = 0 /\ out.from < out.to /\ Written = out.from
      /\ stage = "writing" => buf.from % Payload = 0
      /\ stage = "flushing" => buf.from = buf.to
      /\ over = "goal" => Stop = "bytes" /\ buf.to = Goal
      /\ "file" \notin errors => fp
  BY <1>1, WriterFacts
<1>5. Drop => stage = "flushing" /\ over # "goal"
  BY <1>1, OnlyTheRestIsDropped
<1> HIDE DEF Drop
<1>6. IdleInv' /\ SlotInv' /\ BufferInv' /\ GoalInv'
  BY <1>1, <1>2, WriterKeeps
<1>7. ShapeInv'
  <2>1. Stored(buf)' = Stored(buf) /\ Stored(out)' = Stored(out)
    BY <1>1 DEF Stored
  <2>2. /\ stage' \in {"off", "receiving", "writing", "flushing", "done", "crashed"}
        /\ step' \in {"", "reorder", "write", "log", "entry"}
        /\ errors' \subseteq {"reorder", "file"} /\ fp' \in BOOLEAN
    BY <1>1, <1>2 DEF DataInv, ShapeInv
  <2> QED
    BY <1>1, <2>1, <2>2 DEF DataInv, ShapeInv
<1>8. LogInv' /\ OutInv'
  BY <1>1, <1>2, <1>5 DEF DataInv, LogInv, OutInv, logging
<1>9. DiskInv'
  <2>1. DiskInv
    BY DEF DataInv
  <2>2. CASE Drop
    <3>1. stage = "flushing" /\ over # "goal" /\ stage' = "done" /\ ~fp'
          /\ errors \subseteq errors'
      BY <1>1, <1>5, <2>2
    <3> QED
      BY <1>1, <2>1, <3>1, DiskKept
  <2>3. CASE ~Drop
    <3>1. stage' = stage /\ fp' = fp /\ errors' = errors
      BY <1>1, <2>3
    <3>2. Written' = Written
      BY <1>1, <3>1 DEF Written
    <3> QED
      BY <1>1, <1>2, <2>1, <3>1, <3>2, DiskKept
  <2> QED
    BY <2>2, <2>3
<1> QED
  BY <1>6, <1>7, <1>8, <1>9 DEF DataInv

\* n bytes of the buffer go to the current file.
LEMMA AppendedFile ==
  ASSUME ParamsInv, DataInv, Writing("write"), fp,
         NEW n \in Nat, n > 0, count + n <= MaxFile
  PROVE  /\ Appended(n) \in Seq(Files) /\ Appended(n) # <<>>
         /\ Len(Appended(n)) = Len(disk)
         /\ Appended(n)[Len(disk)] = <<<<out.from - count, out.from + n>>>>
         /\ Stream(Appended(n), MaxFile) /\ Bytes(Appended(n)) = 0..(out.from + n - 1)
<1>1. out.from \in Nat /\ Written = out.from /\ OnDisk = 0..(out.from - 1)
  BY WriterFacts
<1>2. TailInv /\ FilesAreStream /\ disk \in Seq(Files) /\ count \in Nat
  BY DEF DataInv, DiskInv, ShapeInv
<1>3. /\ disk # <<>> /\ Stream(disk, MaxFile) /\ Bytes(disk) = 0..(out.from - 1)
      /\ count = 0 =>
           /\ disk[Len(disk)] = <<>>
           /\ out.from = IF Len(disk) = 1 THEN 0 ELSE disk[Len(disk) - 1][1][2]
      /\ count # 0 => disk[Len(disk)] = <<<<out.from - count, out.from>>>>
  BY <1>1, <1>2, SameFiles DEF TailInv
<1>4. PICK a \in Int, w \in Nat, b \in Nat :
        w = out.from /\ a = out.from - count /\ b = out.from + n
  <2>1. out.from - count \in Int /\ out.from + n \in Nat
    BY <1>1, <1>2
  <2> QED
    BY <1>1, <2>1
<1>5. LastHolds(disk, a, w)
  <2>1. count = 0 => w = a
    BY <1>1, <1>4
  <2> QED
    BY <1>3, <1>4, <2>1 DEF LastHolds
<1>6. a \in Nat
  <2>1. disk[Len(disk)] \in Files
    BY <1>2, <1>3
  <2>2. CASE disk[Len(disk)] = <<<<a, w>>>>
    <3>1. <<<<a, w>>>> \in Seq(Nat \X Nat)
      BY <2>1, <2>2 DEF Files
    <3>2. <<<<a, w>>>>[1] \in Nat \X Nat
      BY <3>1
    <3> QED
      BY <3>2
  <2> QED
    BY <1>4, <1>5, <2>2 DEF LastHolds
<1>7. a <= w /\ w <= b /\ b - a <= MaxFile
  <2>1. b - a = count + n
    BY <1>1, <1>2, <1>4
  <2>2. out.from - count <= out.from /\ out.from <= out.from + n
    BY <1>1, <1>2
  <2> QED
    BY <1>4, <2>1, <2>2
<1>8. Appended(n) = Grown(disk, a, b)
  <2>1. Appended(n) = [disk EXCEPT ![Len(disk)] = Append1(disk[Len(disk)], w, b)]
    BY <1>4 DEF Appended
  <2>2. Append1(disk[Len(disk)], w, b) = <<<<a, b>>>>
    BY <1>5, RangesJoin
  <2> QED
    BY <2>1, <2>2 DEF Grown
<1>9. disk \in Seq(Files) /\ disk # <<>> /\ Stream(disk, MaxFile)
  BY <1>2, <1>3
<1>10. /\ Grown(disk, a, b) \in Seq(Files) /\ Grown(disk, a, b) # <<>>
       /\ Len(Grown(disk, a, b)) = Len(disk) /\ Grown(disk, a, b)[Len(disk)] = <<<<a, b>>>>
       /\ Stream(Grown(disk, a, b), MaxFile)
       /\ Bytes(Grown(disk, a, b)) = Bytes(disk) \cup w..(b - 1)
  BY <1>5, <1>6, <1>7, <1>9, LastFile
<1>11. Bytes(Grown(disk, a, b)) = 0..(b - 1)
  <2>1. (0..(w - 1)) \cup (w..(b - 1)) = 0..(b - 1)
    BY <1>7
  <2> QED
    BY <1>3, <1>4, <1>10, <2>1
<1>12. /\ Appended(n)[Len(disk)] = <<<<a, b>>>> /\ Bytes(Appended(n)) = 0..(b - 1)
       /\ Appended(n) \in Seq(Files) /\ Appended(n) # <<>> /\ Len(Appended(n)) = Len(disk)
       /\ Stream(Appended(n), MaxFile)
  BY <1>8, <1>10, <1>11
<1>13. a = out.from - count /\ b = out.from + n
  BY <1>4
<1>14. <<<<a, b>>>> = <<<<out.from - count, out.from + n>>>>
  BY <1>13
<1>15. b - 1 = out.from + n - 1
  BY <1>1, <1>13
<1> QED
  BY <1>12, <1>14, <1>15

LEMMA DataInvWriteFits ==
  ASSUME ParamsInv, DataInv, WriteFits
  PROVE  DataInv'
<1> DEFINE n == Stored(out)
<1>1. /\ Writing("write") /\ fp /\ count + n <= MaxFile
      /\ disk' = Appended(n) /\ count' = count + n
      /\ out' = [out EXCEPT !.from = out.to] /\ step' = "log"
      /\ UNCHANGED params /\ stage' = stage /\ pending' = pending /\ over' = over
      /\ next' = next /\ buf' = buf /\ fp' = fp /\ UNCHANGED logging
      /\ lost' = lost /\ errors' = errors
  BY DEF WriteFits
<1>2. /\ phase = "recording" /\ stage \in {"writing", "flushing"} /\ step = "write"
      /\ out.from \in Nat /\ out.to \in Nat /\ out.to = buf.from /\ out.from < out.to
      /\ out.entries # <<>>
  BY <1>1, WriterFacts
<1>3. out \in Buffers /\ count \in Nat
  BY DEF DataInv, ShapeInv
<1>4. /\ out'.from = out.to /\ out'.to = out.to /\ out'.entries = out.entries
      /\ out' \in Buffers
  BY <1>1, <1>2, <1>3 DEF Buffers
<1>5. n \in Nat /\ n > 0 /\ out.from + n = out.to
  BY <1>2 DEF Stored
<1> HIDE DEF n
<1>6. /\ disk' \in Seq(Files) /\ disk' # <<>> /\ Len(disk') = Len(disk)
      /\ disk'[Len(disk)] = <<<<out.from - count, out.from + n>>>>
      /\ Stream(disk', MaxFile) /\ Bytes(disk') = 0..(out.from + n - 1)
  BY <1>1, <1>5, AppendedFile
<1>7. IdleInv' /\ SlotInv' /\ BufferInv' /\ GoalInv'
  BY <1>1, <1>2, WriterKeeps
<1>8. ShapeInv'
  <2>1. Stored(buf)' = Stored(buf) /\ Stored(out)' = 0 /\ 0 <= BufSize
    BY <1>1, <1>2, <1>4, Sizes DEF Stored
  <2>2. out'.from <= out'.to /\ count' \in Nat
    BY <1>1, <1>2, <1>3, <1>4, <1>5
  <2> QED
    BY <1>1, <1>4, <1>6, <2>1, <2>2 DEF DataInv, ShapeInv
<1>9. LogInv' /\ OutInv'
  BY <1>1, <1>2, <1>4 DEF DataInv, LogInv, OutInv, logging
<1>10. DiskInv'
  <2>1. phase' = phase /\ MaxFile' = MaxFile
    BY <1>1, SameParams
  <2>2. Written' = out.to
    BY <1>1, <1>2, <1>4 DEF Written
  <2>3. FilesAreStream' /\ OnDisk' = 0..(out.to - 1)
    <3>1. Bytes(disk') = 0..(out.to - 1)
      <4>1. out.from + n - 1 = out.to - 1
        BY <1>2, <1>5
      <4> QED
        BY <1>6, <4>1
    <3>2. Stream(disk', MaxFile')
      BY <1>6, <2>1
    <3> QED
      BY <3>1, <3>2, SameFilesNext
  <2>4. count' # 0 /\ out.to - count' = out.from - count
    BY <1>1, <1>2, <1>3, <1>5
  <2>5. TailInv'
    BY <1>5, <1>6, <2>2, <2>3, <2>4 DEF TailInv
  <2>6. "file" \notin errors' => fp'
    BY <1>1
  <2> QED
    BY <1>1, <1>2, <2>1, <2>3, <2>5, <2>6 DEF DiskInv
<1> QED
  BY <1>7, <1>8, <1>9, <1>10 DEF DataInv

LEMMA DataInvRotate ==
  ASSUME ParamsInv, DataInv, Rotate
  PROVE  DataInv'
<1> DEFINE written == IF Chunk > 0 THEN Appended(Chunk) ELSE disk
           end == out.from + Chunk
<1>1. /\ Writing("write") /\ fp /\ count + Stored(out) > MaxFile
      /\ out' = [out EXCEPT !.from = end]
      /\ \/ /\ disk' = Append(written, <<>>) /\ count' = 0
            /\ stage' = stage /\ fp' = fp /\ step' = step /\ errors' = errors
         \/ /\ disk' = written /\ count' = IF Chunk > 0 THEN Chunk ELSE count
            /\ errors' = errors \cup {"file"}
            /\ stage' = IF stage = "flushing" THEN "done" ELSE "receiving"
            /\ fp' = FALSE /\ step' = ""
      /\ UNCHANGED params /\ pending' = pending /\ over' = over /\ next' = next
      /\ buf' = buf /\ UNCHANGED logging /\ lost' = lost
  BY DEF Rotate, Return
<1>2. /\ phase = "recording" /\ stage \in {"writing", "flushing"} /\ step = "write"
      /\ out.from \in Nat /\ out.to \in Nat /\ out.to = buf.from /\ out.from < out.to
      /\ out.from % Payload = 0 /\ out.entries # <<>> /\ Written = out.from
      /\ OnDisk = 0..(out.from - 1)
  BY <1>1, WriterFacts
<1>3. /\ out \in Buffers /\ count \in Nat /\ disk \in Seq(Files) /\ TailInv /\ FilesAreStream
      /\ count <= MaxFile /\ Stored(out) <= BufSize
  BY <1>2 DEF DataInv, ShapeInv, DiskInv
<1>4. MaxFile \in Nat /\ MaxFile >= Payload
  BY <1>2, RecordingValues
<1>5. /\ Chunk \in Nat /\ count + Chunk <= MaxFile /\ Chunk % Payload = 0
      /\ count = 0 => Chunk > 0
  <2>1. count = 0 => MaxFile - count >= Payload
    BY <1>4
  <2> QED
    BY <1>3, <1>4, <2>1, ChunkFits
<1>6. end \in Nat /\ end < out.to /\ end % Payload = 0 /\ out.from <= end
  <2>1. Stored(out) = out.to - out.from
    BY DEF Stored
  <2>2. end \in Nat /\ end < out.to /\ out.from <= end
    <3>1. count + (out.to - out.from) > MaxFile
      BY <1>1, <2>1
    <3>2. /\ count \in Nat /\ MaxFile \in Nat /\ Chunk \in Nat /\ count + Chunk <= MaxFile
          /\ out.from \in Nat /\ out.to \in Nat
      BY <1>2, <1>3, <1>4, <1>5
    <3> QED
      BY <3>1, <3>2
  <2>3. (out.from + Chunk) % Payload = 0
    BY <1>2, <1>5, Sizes, SumOfMultiples
  <2> QED
    BY <2>2, <2>3
<1>7. /\ out'.from = end /\ out'.to = out.to /\ out'.entries = out.entries /\ out' \in Buffers
  BY <1>1, <1>2, <1>3, <1>6 DEF Buffers
<1>8. /\ written \in Seq(Files) /\ written # <<>> /\ Stream(written, MaxFile)
      /\ Bytes(written) = 0..(end - 1)
      /\ written[Len(written)] # <<>> /\ written[Len(written)][1][2] = end
  <2>1. CASE Chunk > 0
    <3>1. /\ Appended(Chunk) \in Seq(Files) /\ Appended(Chunk) # <<>>
          /\ Len(Appended(Chunk)) = Len(disk)
          /\ Appended(Chunk)[Len(disk)] = <<<<out.from - count, end>>>>
          /\ Stream(Appended(Chunk), MaxFile) /\ Bytes(Appended(Chunk)) = 0..(end - 1)
      <4>1. PICK c \in Nat : c = Chunk
        BY <1>5
      <4>2. fp /\ Writing("write") /\ c > 0 /\ count + c <= MaxFile
        BY <1>1, <1>5, <2>1, <4>1
      <4>3. /\ Appended(c) \in Seq(Files) /\ Appended(c) # <<>>
            /\ Len(Appended(c)) = Len(disk)
            /\ Appended(c)[Len(disk)] = <<<<out.from - count, out.from + c>>>>
            /\ Stream(Appended(c), MaxFile) /\ Bytes(Appended(c)) = 0..(out.from + c - 1)
        BY <4>2, AppendedFile
      <4>4. out.from + c = end /\ out.from + c - 1 = end - 1
        BY <1>2, <1>5, <4>1
      <4>5. Appended(c) = Appended(Chunk)
        BY <4>1
      <4> QED
        BY <4>3, <4>4, <4>5
    <3>2. <<<<out.from - count, end>>>> # <<>> /\ <<<<out.from - count, end>>>>[1][2] = end
      OBVIOUS
    <3>3. written = Appended(Chunk)
      BY <2>1
    <3> QED
      BY <3>1, <3>2, <3>3
  <2>2. CASE ~(Chunk > 0)
    <3>1. written = disk /\ end = out.from /\ count # 0
      BY <1>2, <1>5, <2>2
    <3>2. disk[Len(disk)] = <<<<out.from - count, out.from>>>> /\ disk # <<>>
      BY <1>1, <1>2, <1>3, <3>1 DEF TailInv
    <3>3. disk[Len(disk)] # <<>> /\ disk[Len(disk)][1][2] = out.from
      BY <3>2
    <3>4. Stream(disk, MaxFile) /\ Bytes(disk) = 0..(out.from - 1)
      BY <1>2, <1>3, SameFiles
    <3> QED
      BY <1>3, <3>1, <3>2, <3>3, <3>4
  <2> QED
    BY <2>1, <2>2
<1> HIDE DEF written, end
<1>9. /\ Append(written, <<>>) \in Seq(Files) /\ Stream(Append(written, <<>>), MaxFile)
      /\ Bytes(Append(written, <<>>)) = 0..(end - 1)
  BY <1>6, <1>8, NewFile
<1>10. /\ disk' \in Seq(Files) /\ Stream(disk', MaxFile) /\ count' \in Nat /\ count' <= MaxFile
  <2>1. Chunk <= MaxFile
    BY <1>3, <1>4, <1>5
  <2>2. count' \in {0, Chunk, count}
    BY <1>1
  <2>3. count' \in Nat /\ count' <= MaxFile
    BY <1>3, <1>4, <1>5, <2>1, <2>2
  <2>4. disk' = written \/ disk' = Append(written, <<>>)
    BY <1>1
  <2> QED
    BY <1>8, <1>9, <2>3, <2>4
<1>11. IdleInv' /\ SlotInv' /\ BufferInv' /\ GoalInv'
  BY <1>1, <1>2, WriterKeeps
<1>12. ShapeInv'
  <2>1. Stored(buf)' = Stored(buf) /\ Stored(out)' <= BufSize
    <3>1. Stored(out)' = out.to - end
      BY <1>7 DEF Stored
    <3>2. out.to - end <= out.to - out.from
      BY <1>2, <1>6
    <3>3. out.to - out.from <= BufSize
      BY <1>3 DEF Stored
    <3>4. out.to - end <= BufSize
      BY <1>2, <1>6, <3>2, <3>3, Sizes
    <3> QED
      BY <1>1, <3>1, <3>4 DEF Stored
  <2>2. out'.from <= out'.to
    BY <1>2, <1>6, <1>7
  <2>3. /\ stage' \in {"off", "receiving", "writing", "flushing", "done", "crashed"}
        /\ step' \in {"", "reorder", "write", "log", "entry"}
        /\ errors' \subseteq {"reorder", "file"} /\ fp' \in BOOLEAN
    BY <1>1, <1>2 DEF DataInv, ShapeInv
  <2> QED
    BY <1>1, <1>7, <1>10, <2>1, <2>2, <2>3 DEF DataInv, ShapeInv
<1>13. LogInv'
  BY <1>1, <1>2, <1>7 DEF DataInv, LogInv, logging
<1>14. OutInv'
  BY <1>1, <1>2, <1>6, <1>7 DEF OutInv
<1>15. DiskInv'
  <2>1. phase' = phase /\ MaxFile' = MaxFile
    BY <1>1, SameParams
  <2>2. FilesAreStream'
    BY <1>10, <2>1, SameFilesNext
  <2>3. CASE /\ disk' = Append(written, <<>>) /\ count' = 0
             /\ stage' = stage /\ fp' = fp /\ errors' = errors
    <3>1. Written' = end
      BY <1>2, <1>7, <2>3 DEF Written
    <3>2. OnDisk' = 0..(end - 1)
      BY <1>9, <2>3, SameFilesNext
    <3>3. /\ Len(disk') = Len(written) + 1 /\ Len(written) \in Nat /\ Len(written) # 0
          /\ disk'[Len(written) + 1] = <<>> /\ disk'[Len(written)] = written[Len(written)]
          /\ disk' # <<>>
      BY <1>8, <2>3
    <3>4. Len(disk') # 1 /\ Len(disk') - 1 = Len(written)
      BY <3>3
    <3>5. TailInv'
      BY <1>8, <2>3, <3>1, <3>2, <3>3, <3>4 DEF TailInv
    <3> QED
      BY <1>1, <1>2, <1>10, <2>1, <2>2, <2>3, <3>5 DEF DiskInv
  <2>4. CASE fp' = FALSE /\ errors' = errors \cup {"file"}
    BY <1>10, <2>1, <2>2, <2>4 DEF DiskInv, TailInv
  <2> QED
    BY <1>1, <2>3, <2>4
<1> QED
  BY <1>11, <1>12, <1>13, <1>14, <1>15 DEF DataInv

LEMMA DataInvCrash ==
  ASSUME ParamsInv, DataInv, Crash
  PROVE  DataInv'
<1>1. /\ Writing("write") /\ ~fp /\ stage' = "crashed"
      /\ UNCHANGED params /\ pending' = pending /\ over' = over /\ next' = next
      /\ buf' = buf /\ out' = out /\ step' = step /\ disk' = disk /\ fp' = fp
      /\ count' = count /\ UNCHANGED logging /\ lost' = lost /\ errors' = errors
  BY DEF Crash
<1>2. stage \in {"writing", "flushing"}
  BY <1>1 DEF Writing
<1>3. IdleInv' /\ SlotInv' /\ BufferInv' /\ GoalInv'
  BY <1>1, <1>2, WriterKeeps
<1>4. ShapeInv'
  <2>1. Stored(buf)' = Stored(buf) /\ Stored(out)' = Stored(out)
    BY <1>1 DEF Stored
  <2> QED
    BY <1>1, <2>1 DEF DataInv, ShapeInv
<1>5. LogInv' /\ OutInv'
  BY <1>1 DEF DataInv, LogInv, OutInv, logging
<1>6. DiskInv'
  <2>1. DiskInv
    BY DEF DataInv
  <2> QED
    BY <1>1, <2>1, DiskKept
<1> QED
  BY <1>3, <1>4, <1>5, <1>6 DEF DataInv

\* Going through the log of a buffer.
LEMMA DataInvLogging ==
  ASSUME ParamsInv, DataInv, BeginLog \/ LogEntry
  PROVE  DataInv'
<1>1. /\ Writing("log") \/ Writing("entry")
      /\ UNCHANGED params /\ stage' = stage /\ pending' = pending /\ over' = over
      /\ next' = next /\ buf' = buf /\ out' = out /\ step' = "entry" /\ disk' = disk
      /\ fp' = fp /\ count' = count /\ lost' = lost /\ errors' = errors /\ handover' = handover
  <2>1. CASE BeginLog
    BY <2>1 DEF BeginLog
  <2>2. CASE LogEntry
    BY <2>2 DEF LogEntry, Writing
  <2> QED
    BY <2>1, <2>2
<1>2. /\ stage \in {"writing", "flushing"} /\ phase = "recording" /\ Written = out.from
      /\ out.entries \in Seq(Slots) /\ out.entries # <<>> /\ out.from = out.to
      /\ out.to = buf.from
  BY <1>1, WriterFacts
<1>3. handover \in Nat /\ zeros \in [start : Nat, till : Nat] /\ u32Loop \in Nat
  BY DEF DataInv, LogInv
<1>4. Len(out.entries) \in Nat
  BY <1>2
<1>5. u32Loop' \in Nat /\ u32Loop' <= Len(out.entries) /\ zeros' \in [start : Nat, till : Nat]
  <2>1. CASE BeginLog
    <3>1. u32Loop' = 0 /\ zeros' = Begin(out.entries)
      BY <2>1 DEF BeginLog
    <3>2. Begin(out.entries) \in [start : Nat, till : Nat]
      BY <1>3 DEF Begin
    <3>3. 0 <= Len(out.entries)
      BY <1>4
    <3> QED
      BY <3>1, <3>2, <3>3
  <2>2. CASE LogEntry
    <3> DEFINE e == out.entries[u32Loop + 1]
    <3>1. /\ u32Loop < Len(out.entries) /\ u32Loop' = u32Loop + 1
          /\ \/ zeros' = [start |-> 0, till |-> EndOf(e)]
             \/ zeros' = [zeros EXCEPT !.start = IF @ = 0 THEN zeros.till ELSE @]
      BY <2>2 DEF LogEntry
    <3>2. u32Loop + 1 \in 1..Len(out.entries)
      BY <1>3, <1>4, <3>1
    <3>3. e \in Slots
      BY <1>2, <3>2
    <3> HIDE DEF e
    <3>4. EndOf(e) \in Nat
      BY <3>3 DEF EndOf, Slots
    <3>5. zeros' \in [start : Nat, till : Nat]
      BY <1>3, <3>1, <3>4
    <3>6. u32Loop' \in Nat /\ u32Loop' <= Len(out.entries)
      BY <1>3, <1>4, <3>1
    <3> QED
      BY <3>5, <3>6
  <2> QED
    BY <2>1, <2>2
<1>6. IdleInv' /\ SlotInv' /\ BufferInv' /\ GoalInv'
  BY <1>1, <1>2, WriterKeeps
<1>7. ShapeInv'
  <2>1. Stored(buf)' = Stored(buf) /\ Stored(out)' = Stored(out)
    BY <1>1 DEF Stored
  <2> QED
    BY <1>1, <2>1 DEF DataInv, ShapeInv
<1>8. LogInv' /\ OutInv'
  BY <1>1, <1>2, <1>3, <1>5 DEF LogInv, OutInv
<1>9. DiskInv'
  <2>1. DiskInv /\ Written' = Written
    BY <1>1 DEF DataInv, Written
  <2>2. "file" \notin errors' => fp'
    BY <1>1, WriterFacts
  <2> QED
    BY <1>1, <1>2, <2>1, <2>2, DiskKept
<1> QED
  BY <1>6, <1>7, <1>8, <1>9 DEF DataInv

LEMMA DataInvWriteLog ==
  ASSUME ParamsInv, DataInv, WriteLog
  PROVE  DataInv'
<1>1. /\ Writing("entry")
      /\ handover' = IF zeros.start # 0 THEN zeros.start ELSE EndOf(Last(out.entries))
      /\ stage' = IF stage = "flushing" THEN "done" ELSE "receiving"
      /\ fp' = (fp /\ stage = "writing") /\ step' = ""
      /\ UNCHANGED params /\ pending' = pending /\ over' = over /\ next' = next
      /\ buf' = buf /\ out' = out /\ disk' = disk /\ count' = count
      /\ u32Loop' = u32Loop /\ zeros' = zeros /\ lost' = lost /\ errors' = errors
  BY DEF WriteLog, Return
<1>2. /\ stage \in {"writing", "flushing"} /\ phase = "recording" /\ Written = out.from
      /\ out.entries \in Seq(Slots) /\ out.entries # <<>> /\ out.from = out.to
      /\ out.to = buf.from
      /\ stage = "flushing" => buf.from = buf.to
      /\ over = "goal" => Stop = "bytes" /\ buf.to = Goal
      /\ "file" \notin errors => fp
      /\ fp => OnDisk = 0..(out.from - 1)
  BY <1>1, WriterFacts
<1>3. handover' \in Nat
  <2>1. Last(out.entries) \in Slots
    <3>1. Len(out.entries) \in 1..Len(out.entries)
      BY <1>2
    <3> QED
      BY <1>2, <3>1 DEF Last
  <2>2. EndOf(Last(out.entries)) \in Nat
    BY <2>1 DEF EndOf, Slots
  <2>3. zeros.start \in Nat
    BY DEF DataInv, LogInv
  <2> QED
    BY <1>1, <2>2, <2>3
<1>4. IdleInv' /\ SlotInv' /\ BufferInv' /\ GoalInv'
  BY <1>1, <1>2, WriterKeeps
<1>5. ShapeInv'
  <2>1. Stored(buf)' = Stored(buf) /\ Stored(out)' = Stored(out)
    BY <1>1 DEF Stored
  <2>2. /\ stage' \in {"off", "receiving", "writing", "flushing", "done", "crashed"}
        /\ fp' \in BOOLEAN
    BY <1>1, <1>2 DEF DataInv, ShapeInv
  <2> QED
    BY <1>1, <2>1, <2>2 DEF DataInv, ShapeInv
<1>6. LogInv' /\ OutInv'
  BY <1>1, <1>2, <1>3 DEF DataInv, LogInv, OutInv
<1>7. DiskInv'
  <2>1. DiskInv
    BY DEF DataInv
  <2>2. fp' => fp /\ Written' = Written
    <3>1. fp' => fp /\ stage' = "receiving"
      BY <1>1
    <3>2. stage' = "receiving" => Written' = buf.from
      BY <1>1 DEF Written
    <3> QED
      BY <1>2, <3>1, <3>2
  <2>3. "file" \notin errors' /\ stage' \in {"receiving", "writing", "flushing"} => fp'
    BY <1>1, <1>2
  <2>4. stage' = "done" /\ over' = "goal" /\ "file" \notin errors' => OnDisk = 0..(Goal - 1)
    BY <1>1, <1>2
  <2>5. UNCHANGED <<params, disk, count>> /\ errors \subseteq errors'
    BY <1>1
  <2> QED
    BY <2>1, <2>2, <2>3, <2>4, <2>5, DiskKept
<1> QED
  BY <1>4, <1>5, <1>6, <1>7 DEF DataInv

-----------------------------------------------------------------------------
(* The theorems.                                                             *)

RecordingInv == ParamsInv /\ DataInv

THEOREM RecordingInductive == Spec => []RecordingInv
<1>1. Init => RecordingInv
  BY ParamsInvInit, DataInvInit DEF Init, RecordingInv
<1>2. RecordingInv /\ [Next]_vars => RecordingInv'
  <2> SUFFICES ASSUME RecordingInv, [Next]_vars PROVE RecordingInv'
    OBVIOUS
  <2>1. ParamsInv /\ DataInv
    BY DEF RecordingInv
  <2>2. CASE ParamsNext /\ UNCHANGED recording
    BY <2>1, <2>2, ParamsInvNext, DataInvParams DEF RecordingInv
  <2>3. ASSUME DataNext PROVE RecordingInv'
    <3>1. UNCHANGED params
      BY <2>3 DEF DataNext, FirstPacket, Receive, ReceiveLate, Switch, Store, Flush, Reorder,
                  WriteFits, Rotate, Crash, BeginLog, LogEntry, WriteLog, Return
    <3>2. ParamsInv'
      BY <2>1, <3>1, ParamsInvNext
    <3>3. CASE FirstPacket
      BY <2>1, <3>3, DataInvFirstPacket, <3>2 DEF RecordingInv
    <3>4. ASSUME NEW gap \in 0..MaxGap, NEW size \in {Payload} \cup ShortSizes, Receive(gap, size)
          PROVE  RecordingInv'
      BY <2>1, <3>2, <3>4, DataInvReceive DEF RecordingInv
    <3>5. ASSUME NEW p \in 0..(MaxPackets - 1), ReceiveLate(p) PROVE RecordingInv'
      BY <2>1, <3>2, <3>5, DataInvReceiveLate DEF RecordingInv
    <3>6. CASE Switch
      BY <2>1, <3>2, <3>6, DataInvSwitch DEF RecordingInv
    <3>7. CASE Store
      BY <2>1, <3>2, <3>7, DataInvStore DEF RecordingInv
    <3>8. CASE Flush
      BY <2>1, <3>2, <3>8, DataInvFlush DEF RecordingInv
    <3>9. CASE Reorder
      BY <2>1, <3>2, <3>9, DataInvReorder DEF RecordingInv
    <3>10. CASE WriteFits
      BY <2>1, <3>2, <3>10, DataInvWriteFits DEF RecordingInv
    <3>11. CASE Rotate
      BY <2>1, <3>2, <3>11, DataInvRotate DEF RecordingInv
    <3>12. CASE Crash
      BY <2>1, <3>2, <3>12, DataInvCrash DEF RecordingInv
    <3>13. CASE BeginLog \/ LogEntry
      BY <2>1, <3>2, <3>13, DataInvLogging DEF RecordingInv
    <3>14. CASE WriteLog
      BY <2>1, <3>2, <3>14, DataInvWriteLog DEF RecordingInv
    <3> QED
      BY <2>3, <3>3, <3>4, <3>5, <3>6, <3>7, <3>8, <3>9, <3>10, <3>11, <3>12, <3>13, <3>14
         DEF DataNext
  <2>4. CASE UNCHANGED vars
    <3>1. UNCHANGED params /\ UNCHANGED recording
      BY <2>4 DEF vars
    <3>2. ParamsInv'
      BY <2>1, <3>1, ParamsInvNext
    <3>3. DataInv'
      BY <2>1, <3>1, DataInvSame
    <3> QED
      BY <3>2, <3>3 DEF RecordingInv
  <2> QED
    BY <2>2, <2>3, <2>4 DEF Next
<1> QED
  BY <1>1, <1>2, PTL DEF Spec

\* What the buffers, counters and files of a recording may be, for every packet, buffer and
\* file size: no buffer holds more than BufSize bytes and no file counter passes the limit.
THEOREM DataTypeCorrect == Spec => []TypeOK
<1>1. RecordingInv => TypeOK
  <2> SUFFICES ASSUME RecordingInv PROVE TypeOK
    OBVIOUS
  <2>1. CommandInv /\ ShapeInv /\ LogInv
    BY DEF RecordingInv, ParamsInv, DataInv
  <2>2. \A b \in Buffers : b.from <= b.to /\ Stored(b) <= BufSize => Stored(b) \in 0..BufSize
    BY Sizes DEF Buffers, Stored
  <2>3. Stored(buf) \in 0..BufSize /\ Stored(out) \in 0..BufSize
    BY <2>1, <2>2 DEF ShapeInv
  <2>4. phase = "recording" => count \in 0..MaxFile
    <3> SUFFICES ASSUME phase = "recording" PROVE count \in 0..MaxFile
      OBVIOUS
    <3>1. MaxFile \in Nat
      BY RecordingValues DEF RecordingInv
    <3>2. count \in Nat /\ count <= MaxFile
      BY DEF RecordingInv, DataInv, ShapeInv, DiskInv
    <3> QED
      BY <3>1, <3>2
  <2> QED
    BY <2>1, <2>3, <2>4 DEF CommandInv, ShapeInv, LogInv, TypeOK
<1> QED
  BY <1>1, RecordingInductive, PTL

\* The files are the stream from its first byte without a hole, each within the size asked
\* for and all but the last between two payloads (writeDataToFile_Inline).
THEOREM FilesFollowStream == Spec => []FilesAreStream
<1>1. RecordingInv => FilesAreStream
  BY DEF RecordingInv, DataInv, DiskInv
<1> QED
  BY <1>1, RecordingInductive, PTL

\* The numbers of the settings file are those the card gets and a recording stops at, and a
\* recording that ends at its byte goal leaves that many bytes (StartRecordData,
\* writeDataToBuffer_Inline).
THEOREM SettingsAreUsed == Spec => []AskedIsUsed
<1>1. RecordingInv => AskedIsUsed
  <2> SUFFICES ASSUME RecordingInv PROVE AskedIsUsed
    OBVIOUS
  <2>1. ParamsInv /\ DataInv
    BY DEF RecordingInv
  <2>2. phase = "recording" =>
          used.conf.limit = Asked(file).n \/ (Stop = "duration" /\ Asked(file).n >= Wrap)
    BY <2>1, RecordingValues DEF Goal
  <2>3. (stage = "done" /\ over = "goal" /\ "file" \notin errors)
          => OnDisk = 0..(Asked(file).n - 1)
    <3> SUFFICES ASSUME stage = "done", over = "goal", "file" \notin errors
                 PROVE  OnDisk = 0..(Asked(file).n - 1)
      OBVIOUS
    <3>1. phase = "recording"
      BY <2>1 DEF DataInv, IdleInv
    <3>2. Stop = "bytes"
      BY <2>1, <3>1 DEF DataInv, GoalInv
    <3>3. Goal = Asked(file).n
      BY <2>1, <3>1, <3>2, RecordingValues
    <3>4. OnDisk = 0..(Goal - 1)
      BY <2>1 DEF DataInv, DiskInv
    <3> QED
      BY <3>3, <3>4
  <2>4. phase = "sent" /\ sent.cmd = "eeprom" =>
          /\ \A i \in 1..6 : file.mac[i].form = "int" => sent.v.mac[i] = file.mac[i].n
          /\ \A i \in 1..4 : sent.v.ips[i] = <<file.sysIp[i].n, file.newIp[i].n>>
          /\ sent.v.ports = <<file.newConfigPort.n, file.newDataPort.n>>
    BY <2>1, SentIsAsked
  <2>5. phase = "sent" /\ sent.cmd = "record" => sent.v * 8 = file.delay.n * 1000
    BY <2>1, SentIsAsked
  <2> QED
    BY <2>2, <2>3, <2>4, <2>5 DEF AskedIsUsed
<1> QED
  BY <1>1, RecordingInductive, PTL

-----------------------------------------------------------------------------
(* The log of the missing data.                                              *)

\* The packet that starts at byte x.
Num(x) == x \div Payload

Active == stage \in {"receiving", "writing", "flushing"}
InLog  == stage \in {"writing", "flushing"} /\ step = "entry"

\* The entries of a buffer whose first packet is n.
EntriesFrom(n, entries) ==
  \A k \in 1..Len(entries) :
    entries[k].at = (n + (k - 1)) * Payload /\ (entries[k].valid <=> n + (k - 1) \notin lost)

\* The first packet of a recording never is lost.
LostInv ==
  IF stage = "off" THEN lost = {} /\ log = <<>> /\ ends = {} /\ handover = 0
                   ELSE next >= 1 /\ lost \subseteq 1..(next - 1)

\* The slots are marked valid but for the lost packets.
PendingMarksInv ==
  \A i \in 1..Len(pending) :
    pending[i].valid <=> next - Len(pending) + (i - 1) \notin lost

\* The buffer in use has an entry for each packet in it.
BufMarksInv ==
  stage \in {"receiving", "writing"} =>
    LET n == Num(buf.from)
    IN /\ EntriesFrom(n, buf.entries)
       /\ buf.to <= (n + Len(buf.entries)) * Payload
       /\ over # "goal" => n + Len(buf.entries) = next - Len(pending)
       /\ \A k \in 1..Len(buf.entries) :
            \/ buf.entries[k].size = Payload
            \/ k = Len(buf.entries) /\ over # "" /\ pending = <<>>

\* So has the buffer being written out.
FirstOut == Num(out.entries[1].at)

OutMarksInv ==
  stage \in {"writing", "flushing"} =>
    /\ FirstOut \in Nat /\ EntriesFrom(FirstOut, out.entries)
    /\ out.to <= (FirstOut + Len(out.entries)) * Payload
    /\ stage = "writing" => out.to = (FirstOut + Len(out.entries)) * Payload
    /\ \A k \in 1..Len(out.entries) :
         \/ out.entries[k].size = Payload
         \/ k = Len(out.entries) /\ stage = "flushing"

\* The first packet that was not logged when the log was written last, and the first one
\* that the log is not past yet.
First == IF stage \in {"writing", "flushing"} THEN FirstOut ELSE Num(buf.from)
Past == First + (IF InLog THEN u32Loop ELSE 0)

EndsInv ==
  /\ ends \subseteq Nat
  /\ Active => /\ \A e \in ends : e <= First * Payload
               /\ fp => First = 0 \/ First * Payload \in ends
  /\ stage \in {"writing", "flushing"} /\ step \in {"log", "entry"} => fp

\* The packets just before Past that the log does not have yet: from n on.
Carry == IF InLog THEN zeros.till ELSE handover

CarriedFrom(n) ==
  /\ Carry = n * Payload /\ n..(Past - 1) \subseteq lost /\ n - 1 \notin lost
  /\ Past > 0 => n > 0
  /\ InLog =>
       /\ zeros.start \in {0, Carry}
       /\ zeros.start = 0 => n = Past \/ (u32Loop = 0 /\ out.entries[1].valid)
       /\ zeros.start # 0 => n < Past \/ (u32Loop = 0 /\ ~out.entries[1].valid)

\* (The last packet of the stream may be short.)
CarryInv ==
  fp /\ Active /\ (stage = "flushing" /\ InLog => u32Loop < Len(out.entries)) =>
    \E n \in 0..Past : CarriedFrom(n)

\* The log has only runs of lost packets that it is past.
IsRun(a, b) == a..b \subseteq lost /\ a - 1 \notin lost /\ b + 1 \notin lost
RunEntry(a, b) == <<a * Payload, (b + 1 - a) * Payload>>

OnlyRunsInv ==
  /\ log \in Seq(Nat \X Nat)
  /\ \A i \in 1..Len(log) :
       \E a \in 1..MaxPackets : \E b \in a..MaxPackets :
         log[i] = RunEntry(a, b) /\ IsRun(a, b) /\ (Active => b + 1 < Past)

\* And it has every one of them, up to where a buffer written out ended or the log is now,
\* unless a buffer ended where the run ends.
Due(p) ==
  \/ \E e \in ends : p * Payload < e
  \/ fp /\ Active /\ p < Past

AllRunsInv ==
  \A a \in 1..MaxPackets : \A b \in a..MaxPackets :
    IsRun(a, b) /\ Due(b + 1) /\ (b + 1) * Payload \notin ends
      => \E i \in 1..Len(log) : log[i] = RunEntry(a, b)

LogsInv ==
  /\ LostInv /\ PendingMarksInv /\ BufMarksInv /\ OutMarksInv
  /\ EndsInv /\ CarryInv /\ OnlyRunsInv /\ AllRunsInv

LEMMA NumOf == \A k \in Int : Num(k * Payload) = k
<1> SUFFICES ASSUME NEW k \in Int PROVE Num(k * Payload) = k
  OBVIOUS
<1> DEFINE x == k * Payload
           q == x \div Payload
           r == x % Payload
<1>1. Payload \in Nat \ {0}
  BY Sizes
<1>2. x \in Int /\ q \in Int /\ r \in 0..(Payload - 1) /\ x = Payload * q + r
  BY <1>1
<1>3. r = 0
  BY <1>1, Multiple
<1> HIDE DEF q, r
<1>4. Payload * (k - q) = 0
  BY <1>1, <1>2, <1>3
<1>5. k = q
  BY <1>1, <1>2, <1>4
<1> QED
  BY <1>5 DEF Num, q

LEMMA NumBack ==
  ASSUME NEW x \in Nat, x % Payload = 0
  PROVE  Num(x) \in Nat /\ x = Num(x) * Payload
<1>1. PICK k \in Int : x = k * Payload
  BY Sizes, Quotient
<1>2. k >= 0
  <2>1. k < 0 => k * Payload < 0
    BY Sizes
  <2> QED
    BY <1>1, <2>1
<1> QED
  BY <1>1, <1>2, NumOf

LEMMA PlaceOrder ==
  ASSUME NEW i \in Int, NEW j \in Int
  PROVE  (i * Payload < j * Payload <=> i < j) /\ (i * Payload <= j * Payload <=> i <= j)
<1>1. Payload \in Nat \ {0}
  BY Sizes
<1>2. i < j => i * Payload < j * Payload
  BY <1>1
<1>3. j < i => j * Payload < i * Payload
  BY <1>1
<1> QED
  BY <1>1, <1>2, <1>3

-----------------------------------------------------------------------------
(* What keeps the log in order.                                              *)

\* The packets before p are lost or not as they were.
SameBelow(p) == \A q \in Int : q < p => (q \in lost' <=> q \in lost)

LEMMA SameRun ==
  ASSUME NEW p \in Int, SameBelow(p), NEW a \in Int, NEW b \in Int, a <= b, b + 1 < p
  PROVE  IsRun(a, b)' <=> IsRun(a, b)
<1>1. a - 1 \in Int /\ a - 1 < p /\ b + 1 \in Int /\ b + 1 < p
  OBVIOUS
<1>2. \A q \in a..b : q \in Int /\ q < p
  OBVIOUS
<1>3. a..b \subseteq lost' <=> a..b \subseteq lost
  BY <1>2 DEF SameBelow
<1>4. /\ a - 1 \in lost' <=> a - 1 \in lost
      /\ b + 1 \in lost' <=> b + 1 \in lost
  BY <1>1 DEF SameBelow
<1> QED
  BY <1>3, <1>4 DEF IsRun

\* A run that is due ends before the place the log is past.
LEMMA DueIsPast ==
  ASSUME Active, First \in Nat, Past \in Nat, First <= Past, EndsInv, NEW p \in Nat, Due(p)
  PROVE  p < Past
<1>1. CASE fp /\ Active /\ p < Past
  BY <1>1
<1>2. ASSUME NEW e \in ends, p * Payload < e PROVE p < Past
  <2>1. e \in Nat /\ e <= First * Payload
    BY DEF EndsInv
  <2>2. p * Payload \in Int /\ First * Payload \in Int
    BY Sizes
  <2>3. p * Payload < First * Payload
    BY <1>2, <2>1, <2>2
  <2>4. p < First
    BY <2>3, PlaceOrder
  <2> QED
    BY <2>4
<1> QED
  BY <1>1, <1>2 DEF Due

\* A step that writes nothing to the log.
LEMMA RunsKept ==
  ASSUME OnlyRunsInv, AllRunsInv, EndsInv, log' = log, ends' = ends,
         Active => First \in Nat /\ Past \in Nat /\ First <= Past /\ SameBelow(Past),
         ~Active => lost' = lost,
         Active' => Active /\ Past' \in Int /\ Past <= Past',
         fp' /\ Active' => fp /\ Past' = Past
  PROVE  OnlyRunsInv' /\ AllRunsInv'
<1>1. ASSUME NEW a \in 1..MaxPackets, NEW b \in a..MaxPackets, Active => b + 1 < Past
      PROVE  IsRun(a, b)' <=> IsRun(a, b)
  <2>1. a \in Int /\ b \in Int /\ a <= b
    BY Sizes
  <2>2. CASE Active
    <3>1. Past \in Int /\ SameBelow(Past) /\ b + 1 < Past
      BY <1>1, <2>2
    <3> QED
      BY <2>1, <3>1, SameRun
  <2>3. CASE ~Active
    BY <2>3 DEF IsRun
  <2> QED
    BY <2>2, <2>3
<1>2. OnlyRunsInv'
  <2>1. log' \in Seq(Nat \X Nat)
    BY DEF OnlyRunsInv
  <2>2. ASSUME NEW i \in 1..Len(log')
        PROVE  \E a \in 1..MaxPackets : \E b \in a..MaxPackets :
                 /\ log'[i] = RunEntry(a, b) /\ IsRun(a, b)' /\ (Active' => b + 1 < Past')
    <3>0. PICK a \in 1..MaxPackets : \E b \in a..MaxPackets :
            log[i] = RunEntry(a, b) /\ IsRun(a, b) /\ (Active => b + 1 < Past)
      BY <2>2 DEF OnlyRunsInv
    <3>1. PICK b \in a..MaxPackets :
            log[i] = RunEntry(a, b) /\ IsRun(a, b) /\ (Active => b + 1 < Past)
      BY <3>0
    <3>2. IsRun(a, b)'
      BY <1>1, <3>1
    <3>3. Active' => b + 1 < Past'
      <4>1. b + 1 \in Int
        BY Sizes
      <4> QED
        BY <3>1, <4>1
    <3> QED
      BY <3>1, <3>2, <3>3
  <2> QED
    BY <2>1, <2>2 DEF OnlyRunsInv, RunEntry
<1>3. AllRunsInv'
  <2>1. ASSUME NEW a \in 1..MaxPackets, NEW b \in a..MaxPackets,
               IsRun(a, b)', Due(b + 1)', (b + 1) * Payload \notin ends'
        PROVE  \E i \in 1..Len(log') : log'[i] = RunEntry(a, b)
    <3>1. b + 1 \in Nat
      BY Sizes
    <3>2. Due(b + 1)
      <4>1. CASE \E e \in ends' : (b + 1) * Payload < e
        BY <4>1 DEF Due
      <4>2. CASE fp' /\ Active' /\ b + 1 < Past'
        BY <4>2 DEF Due
      <4> QED
        BY <2>1, <4>1, <4>2 DEF Due
    <3>3. Active => b + 1 < Past
      BY <3>1, <3>2, DueIsPast
    <3>4. IsRun(a, b)
      BY <1>1, <2>1, <3>3
    <3> QED
      BY <2>1, <3>2, <3>4 DEF AllRunsInv
  <2> QED
    BY <2>1 DEF AllRunsInv, RunEntry
<1> QED
  BY <1>2, <1>3

\* A step outside of writeLogToFile_Inline.
LEMMA CarryKept ==
  ASSUME CarryInv, ~InLog, ~InLog', handover' = handover,
         fp' /\ Active' => fp /\ Active /\ Past \in Nat /\ Past' = Past /\ SameBelow(Past)
  PROVE  CarryInv'
<1> SUFFICES ASSUME fp', Active' PROVE \E n \in 0..Past' : CarriedFrom(n)'
  BY DEF CarryInv
<1>1. fp /\ Active /\ Past \in Nat /\ Past' = Past /\ SameBelow(Past)
  OBVIOUS
<1>2. PICK n \in 0..Past : CarriedFrom(n)
  BY <1>1 DEF CarryInv
<1>3. Carry' = Carry
  BY DEF Carry
<1>4. n - 1 \in Int /\ n - 1 < Past /\ \A q \in n..(Past - 1) : q \in Int /\ q < Past
  BY <1>1
<1>5. n..(Past - 1) \subseteq lost' /\ n - 1 \notin lost'
  BY <1>1, <1>2, <1>4 DEF SameBelow, CarriedFrom
<1>6. CarriedFrom(n)'
  BY <1>1, <1>2, <1>3, <1>5 DEF CarriedFrom
<1> QED
  BY <1>1, <1>6

\* Where the buffers start, and what the log may hold.
LEMMA LogPlaces ==
  ASSUME DataInv, LogsInv, Active
  PROVE  /\ First \in Nat /\ Past \in Nat /\ First <= Past /\ next \in Nat
         /\ stage = "receiving" => Past = First /\ buf.from = First * Payload
         /\ \A e \in ends : e \in Nat /\ e <= First * Payload
<1>1. u32Loop \in Nat /\ buf \in Buffers
  BY DEF DataInv, LogInv, ShapeInv
<1>2. First \in Nat /\ (stage = "receiving" => buf.from = First * Payload)
  <2>1. CASE stage \in {"writing", "flushing"}
    BY <2>1 DEF LogsInv, OutMarksInv, First
  <2>2. CASE stage = "receiving"
    <3>1. buf.from \in Nat /\ buf.from % Payload = 0
      BY <1>1, <2>2 DEF Buffers, DataInv, BufferInv
    <3>2. First = Num(buf.from)
      BY <2>2 DEF First
    <3> QED
      BY <3>1, <3>2, NumBack
  <2> QED
    BY <2>1, <2>2 DEF Active
<1>3. Past = First + (IF InLog THEN u32Loop ELSE 0)
  BY DEF Past
<1>4. Past \in Nat /\ First <= Past /\ (stage = "receiving" => Past = First)
  <2>1. stage = "receiving" => ~InLog
    BY DEF InLog
  <2> QED
    BY <1>1, <1>2, <1>3, <2>1
<1>5. next \in Nat
  <2>1. next \in 0..MaxPackets
    BY DEF DataInv, ShapeInv
  <2> QED
    BY <2>1, Sizes
<1>6. \A e \in ends : e \in Nat /\ e <= First * Payload
  BY DEF LogsInv, EndsInv
<1> QED
  BY <1>2, <1>4, <1>5, <1>6

LEMMA LogsInvInit == Init => LogsInv
<1> SUFFICES ASSUME Init PROVE LogsInv
  OBVIOUS
<1>1. /\ stage = "off" /\ lost = {} /\ log = <<>> /\ ends = {} /\ handover = 0
      /\ pending = <<>> /\ step = "" /\ fp = FALSE
  BY DEF Init, DataInit
<1>2. ~Active /\ ~InLog
  BY <1>1 DEF Active, InLog
<1>3. LostInv /\ BufMarksInv /\ OutMarksInv
  BY <1>1 DEF LostInv, BufMarksInv, OutMarksInv
<1>4. PendingMarksInv
  <2>1. Len(<<>>) = 0 /\ 1..0 = {}
    OBVIOUS
  <2>2. 1..Len(pending) = {}
    BY <1>1, <2>1
  <2> QED
    BY <2>2 DEF PendingMarksInv
<1>5. EndsInv /\ CarryInv
  BY <1>1, <1>2 DEF EndsInv, CarryInv
<1>6. OnlyRunsInv
  <2>1. <<>> \in Seq(Nat \X Nat) /\ Len(<<>>) = 0 /\ 1..0 = {}
    OBVIOUS
  <2>2. log \in Seq(Nat \X Nat) /\ 1..Len(log) = {}
    BY <1>1, <2>1
  <2> QED
    BY <2>2 DEF OnlyRunsInv
<1>7. AllRunsInv
  BY <1>1 DEF AllRunsInv, Due
<1> QED
  BY <1>3, <1>4, <1>5, <1>6, <1>7 DEF LogsInv

LEMMA LogsInvSame ==
  ASSUME LogsInv, UNCHANGED recording
  PROVE  LogsInv'
<1>1. /\ stage' = stage /\ pending' = pending /\ over' = over /\ next' = next /\ buf' = buf
      /\ out' = out /\ step' = step /\ fp' = fp /\ log' = log /\ u32Loop' = u32Loop
      /\ zeros' = zeros /\ handover' = handover /\ lost' = lost /\ ends' = ends
  BY DEF recording, logging
<1>2. LostInv' /\ PendingMarksInv'
  BY <1>1 DEF LogsInv, LostInv, PendingMarksInv
<1>3. BufMarksInv' /\ OutMarksInv'
  BY <1>1 DEF LogsInv, BufMarksInv, OutMarksInv, EntriesFrom, FirstOut
<1>4. /\ Active' = Active /\ InLog' = InLog /\ First' = First /\ Past' = Past /\ Carry' = Carry
  BY <1>1 DEF Active, InLog, First, FirstOut, Past, Carry
<1>5. EndsInv' /\ CarryInv'
  BY <1>1, <1>4 DEF LogsInv, EndsInv, CarryInv, CarriedFrom
<1>6. OnlyRunsInv' /\ AllRunsInv'
  BY <1>1, <1>4 DEF LogsInv, OnlyRunsInv, AllRunsInv, IsRun, Due
<1> QED
  BY <1>2, <1>3, <1>5, <1>6 DEF LogsInv

LEMMA LogsInvFirstPacket ==
  ASSUME DataInv, LogsInv, FirstPacket
  PROVE  LogsInv'
<1>1. /\ stage = "off" /\ stage' = "receiving" /\ next' = 1
      /\ pending' = <<Slot(0, Payload, TRUE)>>
      /\ over' = over /\ buf' = buf /\ log' = log /\ handover' = handover
      /\ lost' = lost /\ ends' = ends
  BY DEF FirstPacket, logging
<1>2. lost' = {} /\ log' = <<>> /\ ends' = {} /\ handover' = 0
  BY <1>1 DEF LogsInv, LostInv
<1>3. buf'.from = 0 /\ buf'.to = 0 /\ buf'.entries = <<>>
  <2>1. buf = EmptyBuf(0)
    BY <1>1 DEF DataInv, IdleInv
  <2> QED
    BY <1>1, <2>1 DEF EmptyBuf
<1>4. Num(0) = 0
  <2>1. Num(0 * Payload) = 0 /\ 0 * Payload = 0
    BY NumOf, Sizes
  <2> QED
    BY <2>1
<1>5. LostInv'
  BY <1>1, <1>2 DEF LostInv
<1>6. PendingMarksInv'
  <2>1. Len(pending') = 1 /\ pending'[1].valid
    BY <1>1 DEF Slot
  <2>2. \A i \in 1..Len(pending') : i = 1
    BY <2>1
  <2> QED
    BY <1>2, <2>1, <2>2 DEF PendingMarksInv
<1>7. BufMarksInv'
  <2>1. Len(buf'.entries) = 0 /\ 1..Len(buf'.entries) = {} /\ Len(pending') = 1
    BY <1>1, <1>3
  <2>2. /\ EntriesFrom(0, buf.entries)'
        /\ buf'.to <= (0 + Len(buf'.entries)) * Payload
        /\ 0 + Len(buf'.entries) = next' - Len(pending')
    <3>1. EntriesFrom(0, buf.entries)'
      BY <2>1 DEF EntriesFrom
    <3>2. 0 <= (0 + 0) * Payload
      BY Sizes
    <3> QED
      BY <1>1, <1>3, <2>1, <3>1, <3>2
  <2> QED
    BY <1>3, <1>4, <2>1, <2>2 DEF BufMarksInv
<1>8. OutMarksInv'
  BY <1>1 DEF OutMarksInv
<1>9. Active' /\ ~InLog' /\ First' = 0 /\ Past' = 0 /\ Carry' = 0
  <2>1. Active' /\ ~InLog' /\ First' = 0 /\ Carry' = 0
    BY <1>1, <1>2, <1>3, <1>4 DEF Active, InLog, First, Carry
  <2> QED
    BY <2>1 DEF Past
<1>10. EndsInv'
  BY <1>1, <1>2, <1>9 DEF EndsInv
<1>11. CarryInv'
  <2>1. 0 * Payload = 0 /\ 0..(0 - 1) = {} /\ 0 \in 0..0
    BY Sizes
  <2>2. CarriedFrom(0)'
    BY <1>2, <1>9, <2>1 DEF CarriedFrom
  <2> QED
    BY <1>9, <2>1, <2>2 DEF CarryInv
<1>12. OnlyRunsInv'
  <2>1. log' \in Seq(Nat \X Nat) /\ 1..Len(log') = {}
    BY <1>2
  <2> QED
    BY <2>1 DEF OnlyRunsInv
<1>13. AllRunsInv'
  <2>1. ASSUME NEW a \in 1..MaxPackets, NEW b \in a..MaxPackets PROVE ~Due(b + 1)'
    <3>1. ~(b + 1 < 0)
      BY Sizes
    <3> QED
      BY <1>2, <1>9, <3>1 DEF Due
  <2> QED
    BY <2>1 DEF AllRunsInv
<1> QED
  BY <1>5, <1>6, <1>7, <1>8, <1>10, <1>11, <1>12, <1>13 DEF LogsInv

\* The buffer in use, as long as more is to be stored.
LEMMA InUse ==
  ASSUME DataInv, LogsInv, stage = "receiving"
  PROVE  /\ Num(buf.from) = First /\ First \in Nat /\ Past = First /\ Active /\ ~InLog
         /\ buf.entries \in Seq(Slots) /\ Len(buf.entries) \in Nat /\ next \in Nat
         /\ pending \in Seq(Slots) /\ Len(pending) \in Nat
         /\ EntriesFrom(First, buf.entries)
         /\ buf.to <= (First + Len(buf.entries)) * Payload
         /\ over # "goal" => First + Len(buf.entries) = next - Len(pending)
         /\ \A k \in 1..Len(buf.entries) :
              \/ buf.entries[k].size = Payload
              \/ k = Len(buf.entries) /\ over # "" /\ pending = <<>>
<1>1. Active /\ ~InLog /\ Num(buf.from) = First
  BY DEF Active, InLog, First
<1>2. First \in Nat /\ Past = First /\ next \in Nat
  BY <1>1, LogPlaces
<1>3. buf.entries \in Seq(Slots) /\ pending \in Seq(Slots)
  BY DEF DataInv, ShapeInv, Buffers
<1>4. Len(buf.entries) \in Nat /\ Len(pending) \in Nat
  BY <1>3
<1> QED
  BY <1>1, <1>2, <1>3, <1>4 DEF LogsInv, BufMarksInv

LEMMA LogsInvReceive ==
  ASSUME DataInv, LogsInv, NEW gap \in 0..MaxGap, NEW size, Receive(gap, size)
  PROVE  LogsInv'
<1>1. /\ stage = "receiving" /\ stage' = stage /\ pending = <<>> /\ over = ""
      /\ next' = next + gap + 1 /\ lost' = lost \cup next..(next + gap - 1)
      /\ buf' = buf /\ out' = out /\ step' = step /\ fp' = fp
      /\ log' = log /\ u32Loop' = u32Loop /\ zeros' = zeros /\ handover' = handover
      /\ ends' = ends /\ over' \in {"", "short"}
      /\ pending' = [i \in 1..(gap + 1) |->
                       Slot((next + i - 1) * Payload,
                            IF i > gap THEN size ELSE Payload, i > gap)]
  BY DEF Receive, Listening, logging
<1>2. /\ Num(buf.from) = First /\ First \in Nat /\ Past = First /\ Active /\ ~InLog
      /\ Len(buf.entries) \in Nat /\ next \in Nat
      /\ EntriesFrom(First, buf.entries)
      /\ buf.to <= (First + Len(buf.entries)) * Payload
      /\ over # "goal" => First + Len(buf.entries) = next - Len(pending)
      /\ \A k \in 1..Len(buf.entries) :
           \/ buf.entries[k].size = Payload
           \/ k = Len(buf.entries) /\ over # "" /\ pending = <<>>
  BY <1>1, InUse
<1> DEFINE m == Len(buf.entries)
<1>n. First \in Nat /\ next \in Nat /\ m \in Nat /\ Past = First
  BY <1>2
<1>3. First + m = next /\ First <= next
  <2>1. Len(pending) = 0 /\ over # "goal"
    BY <1>1
  <2>2. First + m = next - 0
    BY <1>2, <2>1
  <2> HIDE DEF m
  <2> QED
    BY <1>n, <2>2
<1>4. gap \in Nat /\ next >= 1 /\ lost \subseteq 1..(next - 1)
  <2>1. gap \in Nat
    BY Sizes
  <2> QED
    BY <1>1, <2>1 DEF LogsInv, LostInv
<1>g. next' = next + gap + 1
  BY <1>1
<1>5. LostInv'
  <2>1. next' >= 1 /\ next..(next + gap - 1) \subseteq 1..(next' - 1)
    BY <1>g, <1>n, <1>4
  <2>2. 1..(next - 1) \subseteq 1..(next' - 1)
    BY <1>g, <1>n, <1>4
  <2> QED
    BY <1>1, <1>4, <2>1, <2>2 DEF LostInv
<1>l. Len(pending') = gap + 1
  <2> DEFINE S == {pending'[i] : i \in 1..(gap + 1)}
  <2>1. DOMAIN pending' = 1..(gap + 1) /\ pending' \in [1..(gap + 1) -> S]
    BY <1>1
  <2> QED
    BY <1>4, <2>1
<1>6. PendingMarksInv'
  <2>2. ASSUME NEW i \in 1..(gap + 1)
        PROVE  pending'[i].valid <=> next' - (gap + 1) + (i - 1) \notin lost'
    <3>1. pending'[i].valid <=> i > gap
      BY <1>1 DEF Slot
    <3>2. next' - (gap + 1) + (i - 1) = next + i - 1
      BY <1>g, <1>n, <1>4
    <3>3. next + i - 1 \notin 1..(next - 1)
      BY <1>n
    <3>4. next + i - 1 \in next..(next + gap - 1) <=> ~(i > gap)
      BY <1>n, <1>4
    <3> QED
      BY <1>1, <1>4, <3>1, <3>2, <3>3, <3>4
  <2> QED
    BY <1>l, <2>2 DEF PendingMarksInv
<1>7. SameBelow(Past)
  <2>1. ASSUME NEW q \in Int, q < Past PROVE q \notin next..(next + gap - 1)
    BY <1>n, <1>3, <2>1
  <2> QED
    BY <1>1, <2>1 DEF SameBelow
<1>8. EntriesFrom(First, buf.entries)'
  <2>1. First' = First
    BY <1>1 DEF First
  <2>2. ASSUME NEW k \in 1..Len(buf.entries)
        PROVE  First + (k - 1) \in lost' <=> First + (k - 1) \in lost
    <3>1. First + (k - 1) \notin next..(next + gap - 1)
      BY <1>n, <1>3
    <3> QED
      BY <1>1, <3>1
  <2> QED
    BY <1>1, <1>2, <2>1, <2>2 DEF EntriesFrom
<1>9. BufMarksInv'
  <2>1. Num(buf'.from) = First /\ First' = First
    BY <1>1, <1>2 DEF First
  <2>2. First + Len(buf'.entries) = next' - Len(pending')
    <3>2. First + m = next' - (gap + 1)
      BY <1>g, <1>n, <1>3, <1>4
    <3> QED
      BY <1>1, <1>l, <3>2
  <2>3. \A k \in 1..Len(buf'.entries) : buf'.entries[k].size = Payload
    BY <1>1, <1>2
  <2> QED
    BY <1>1, <1>2, <1>8, <2>1, <2>2, <2>3 DEF BufMarksInv
<1>10. OutMarksInv'
  BY <1>1 DEF OutMarksInv
<1>11. Active' /\ ~InLog' /\ First' = First /\ Past' = Past
  <2>1. Active' /\ ~InLog' /\ First' = First
    BY <1>1 DEF Active, InLog, First
  <2> QED
    BY <1>2, <2>1 DEF Past
<1>12. EndsInv'
  BY <1>1, <1>2, <1>11 DEF LogsInv, EndsInv
<1>13. CarryInv'
  <2>1. CarryInv
    BY DEF LogsInv
  <2> QED
    BY <1>1, <1>2, <1>7, <1>11, <2>1, CarryKept
<1>14. OnlyRunsInv' /\ AllRunsInv'
  <2>1. OnlyRunsInv /\ AllRunsInv /\ EndsInv
    BY DEF LogsInv
  <2>2. Past \in Nat /\ First <= Past /\ Past <= Past' /\ Past' \in Int
    BY <1>n, <1>11
  <2> QED
    BY <1>1, <1>2, <1>7, <1>11, <2>1, <2>2, RunsKept
<1> QED
  BY <1>5, <1>6, <1>9, <1>10, <1>12, <1>13, <1>14 DEF LogsInv

LEMMA LogsInvReceiveLate ==
  ASSUME DataInv, LogsInv, NEW p \in 0..(MaxPackets - 1), ReceiveLate(p)
  PROVE  LogsInv'
<1> DEFINE m == Len(buf.entries)
           i == m - (next - p) + 1
           s == Slot(p * Payload, Payload, TRUE)
<1>1. /\ stage = "receiving" /\ stage' = stage /\ pending = <<>> /\ over # "goal"
      /\ p \in lost /\ buf.from <= p * Payload /\ lost' = lost \ {p}
      /\ buf' = [buf EXCEPT !.entries[i] = s]
      /\ pending' = pending /\ over' = over /\ next' = next
      /\ out' = out /\ step' = step /\ fp' = fp
      /\ log' = log /\ u32Loop' = u32Loop /\ zeros' = zeros /\ handover' = handover
      /\ ends' = ends
  BY DEF ReceiveLate, Listening, logging
<1>2. /\ Num(buf.from) = First /\ First \in Nat /\ Past = First /\ Active /\ ~InLog
      /\ buf.entries \in Seq(Slots) /\ m \in Nat /\ next \in Nat
      /\ EntriesFrom(First, buf.entries)
      /\ buf.to <= (First + m) * Payload
      /\ over # "goal" => First + m = next - Len(pending)
      /\ \A k \in 1..m :
           \/ buf.entries[k].size = Payload
           \/ k = m /\ over # "" /\ pending = <<>>
  BY <1>1, InUse
<1>3. First \in Nat /\ next \in Nat /\ m \in Nat /\ Past = First /\ p \in Nat
  <2>1. p \in Nat
    BY Sizes
  <2> HIDE DEF m
  <2> QED
    BY <1>2, <2>1
<1>4. First + m = next
  <2>1. Len(pending) = 0
    BY <1>1
  <2>2. First + m = next - 0
    BY <1>1, <1>2, <2>1
  <2> HIDE DEF m
  <2> QED
    BY <1>3, <2>2
<1>5. First <= p /\ p < next
  <2>1. buf.from = First * Payload
    BY <1>1, <1>2, LogPlaces
  <2>2. First <= p
    BY <1>1, <1>3, <2>1, PlaceOrder
  <2>3. lost \subseteq 1..(next - 1)
    BY <1>1 DEF LogsInv, LostInv
  <2>4. p \in 1..(next - 1)
    BY <1>1, <2>3
  <2> QED
    BY <1>3, <2>2, <2>4
<1>6. i \in 1..m /\ i = p - First + 1
  BY <1>3, <1>4, <1>5
<1>7. /\ buf'.from = buf.from /\ buf'.to = buf.to /\ Len(buf'.entries) = m
      /\ \A k \in 1..m : buf'.entries[k] = IF k = i THEN s ELSE buf.entries[k]
  <2> DEFINE e == [buf.entries EXCEPT ![i] = s]
  <2>1. buf' = [buf EXCEPT !.entries = e]
    BY <1>1
  <2>2. buf \in Buffers
    BY DEF DataInv, ShapeInv
  <2> HIDE DEF i, s
  <2>3. Len(e) = m /\ \A k \in 1..m : e[k] = IF k = i THEN s ELSE buf.entries[k]
    <3>0. buf.entries \in Seq(Slots)
      BY <1>2
    <3>1. buf.entries \in [1..m -> Slots]
      BY <3>0
    <3>2. DOMAIN e = 1..m /\ \A k \in 1..m : e[k] = IF k = i THEN s ELSE buf.entries[k]
      BY <3>1
    <3>3. e \in [1..m -> Slots \cup {s}]
      BY <3>1
    <3> HIDE DEF e, m
    <3>4. Len(e) = m
      BY <1>3, <3>3
    <3> QED
      BY <3>2, <3>4
  <2> HIDE DEF e
  <2>4. buf'.from = buf.from /\ buf'.to = buf.to /\ buf'.entries = e
    BY <2>1, <2>2 DEF Buffers
  <2> QED
    BY <2>3, <2>4
<1> HIDE DEF i, m
<1>8. LostInv'
  BY <1>1 DEF LogsInv, LostInv
<1>9. PendingMarksInv'
  <2>1. Len(<<>>) = 0 /\ 1..0 = {}
    OBVIOUS
  <2>2. 1..Len(pending') = {}
    BY <1>1, <2>1
  <2> QED
    BY <2>2 DEF PendingMarksInv
<1>10. SameBelow(Past)
  <2>1. ASSUME NEW q \in Int, q < Past PROVE q # p
    BY <1>3, <1>5, <2>1
  <2> QED
    BY <1>1, <2>1 DEF SameBelow
<1>11. Num(buf'.from) = First /\ First' = First
  <2>1. First' = Num(buf'.from)
    BY <1>1 DEF First
  <2> QED
    BY <1>2, <1>7, <2>1
<1>12. EntriesFrom(First, buf.entries)'
  <2>1. ASSUME NEW k \in 1..m
        PROVE  /\ buf'.entries[k].at = (First + (k - 1)) * Payload
               /\ buf'.entries[k].valid <=> First + (k - 1) \notin lost'
    <3>1. CASE k = i
      <4>1. First + (k - 1) = p
        BY <1>3, <1>6, <3>1
      <4>2. buf'.entries[k].at = p * Payload /\ buf'.entries[k].valid
        BY <1>7, <3>1 DEF Slot
      <4> QED
        BY <1>1, <4>1, <4>2
    <3>2. CASE k # i
      <4>1. First + (k - 1) # p
        BY <1>3, <1>6, <3>2
      <4>2. buf'.entries[k] = buf.entries[k]
        BY <1>7, <3>2
      <4>3. /\ buf.entries[k].at = (First + (k - 1)) * Payload
            /\ buf.entries[k].valid <=> First + (k - 1) \notin lost
        BY <1>2 DEF EntriesFrom, m
      <4> QED
        BY <1>1, <4>1, <4>2, <4>3
    <3> QED
      BY <3>1, <3>2
  <2> QED
    BY <1>7, <1>11, <2>1 DEF EntriesFrom
<1>13. BufMarksInv'
  <2>1. ASSUME NEW k \in 1..m
        PROVE  buf'.entries[k].size = Payload \/ (k = m /\ over # "" /\ pending = <<>>)
    <3>1. s.size = Payload
      BY DEF Slot
    <3>2. buf'.entries[k] = IF k = i THEN s ELSE buf.entries[k]
      BY <1>7
    <3>3. buf.entries[k].size = Payload \/ (k = m /\ over # "" /\ pending = <<>>)
      BY <1>2
    <3> HIDE DEF s
    <3> QED
      BY <3>1, <3>2, <3>3
  <2> QED
    BY <1>1, <1>2, <1>7, <1>11, <1>12, <2>1 DEF BufMarksInv
<1>14. OutMarksInv'
  BY <1>1 DEF OutMarksInv
<1>15. Active' /\ ~InLog' /\ Past' = Past
  <2>1. Active' /\ ~InLog'
    BY <1>1 DEF Active, InLog
  <2> QED
    BY <1>3, <1>11, <2>1 DEF Past
<1>16. EndsInv'
  BY <1>1, <1>2, <1>11, <1>15 DEF LogsInv, EndsInv
<1>17. CarryInv'
  <2>1. CarryInv
    BY DEF LogsInv
  <2> QED
    BY <1>1, <1>2, <1>10, <1>15, <2>1, CarryKept
<1>18. OnlyRunsInv' /\ AllRunsInv'
  <2>1. OnlyRunsInv /\ AllRunsInv /\ EndsInv
    BY DEF LogsInv
  <2>2. Past \in Nat /\ First <= Past /\ Past <= Past' /\ Past' \in Int
    BY <1>3, <1>15
  <2> QED
    BY <1>1, <1>2, <1>10, <1>15, <2>1, <2>2, RunsKept
<1> QED
  BY <1>8, <1>9, <1>13, <1>14, <1>16, <1>17, <1>18 DEF LogsInv

\* The buffer in use as the one that is written out.
LEMMA HandedOut ==
  ASSUME DataInv, LogsInv, stage = "receiving", stage' \in {"writing", "flushing"},
         out' = buf, lost' = lost, buf.entries # <<>>
  PROVE  FirstOut' = First /\ First' = First /\ EntriesFrom(FirstOut, out.entries)'
<1>1. /\ First \in Nat /\ buf.entries \in Seq(Slots) /\ EntriesFrom(First, buf.entries)
  BY InUse
<1>2. 1 \in 1..Len(buf.entries)
  BY <1>1
<1>3. buf.entries[1].at = (First + (1 - 1)) * Payload
  BY <1>1, <1>2 DEF EntriesFrom
<1>4. First + (1 - 1) = First /\ Num(First * Payload) = First
  BY <1>1, NumOf
<1>5. FirstOut' = First
  <2>1. FirstOut' = Num(buf.entries[1].at)
    BY DEF FirstOut
  <2> QED
    BY <1>3, <1>4, <2>1
<1>6. First' = First
  <2>1. First' = FirstOut'
    BY DEF First
  <2> QED
    BY <1>5, <2>1
<1>7. EntriesFrom(FirstOut, out.entries)'
  BY <1>1, <1>5 DEF EntriesFrom
<1> QED
  BY <1>5, <1>6, <1>7

LEMMA LogsInvSwitch ==
  ASSUME ParamsInv, DataInv, LogsInv, Switch
  PROVE  LogsInv'
<1> DEFINE m == Len(buf.entries)
<1>1. /\ stage = "receiving" /\ stage' = "writing" /\ pending # <<>>
      /\ step' = "reorder" /\ out' = buf /\ buf' = EmptyBuf(buf.to)
      /\ pending' = pending /\ over' = over /\ next' = next /\ fp' = fp
      /\ log' = log /\ u32Loop' = u32Loop /\ zeros' = zeros /\ handover' = handover
      /\ lost' = lost /\ ends' = ends
  BY DEF Switch, logging
<1>2. /\ Num(buf.from) = First /\ First \in Nat /\ Past = First /\ Active /\ ~InLog
      /\ m \in Nat /\ next \in Nat /\ Len(pending) \in Nat
      /\ over # "goal" => First + m = next - Len(pending)
      /\ \A k \in 1..m :
           \/ buf.entries[k].size = Payload
           \/ k = m /\ over # "" /\ pending = <<>>
  BY <1>1, InUse
<1>n. First \in Nat /\ m \in Nat /\ Past = First
  BY <1>2
<1>3. over # "goal" /\ buf.to = (next - Len(pending)) * Payload
  BY <1>1, HeadSlot
<1>4. First + m = next - Len(pending) /\ buf.to = (First + m) * Payload
  BY <1>2, <1>3
<1>5. buf.entries # <<>>
  <2>1. DataInv'
    BY DataInvSwitch
  <2>2. out'.entries # <<>>
    BY <1>1, <2>1 DEF DataInv, OutInv
  <2> QED
    BY <1>1, <2>2
<1>6. FirstOut' = First /\ First' = First /\ EntriesFrom(FirstOut, out.entries)'
  BY <1>1, <1>5, HandedOut
<1>7. LostInv' /\ PendingMarksInv'
  BY <1>1 DEF LogsInv, LostInv, PendingMarksInv
<1>8. BufMarksInv'
  <2>1. buf'.from = buf.to /\ buf'.to = buf.to /\ buf'.entries = <<>>
    BY <1>1 DEF EmptyBuf
  <2>2. Num(buf'.from) = First + m
    <3>1. First + m \in Int
      BY <1>n
    <3> QED
      BY <1>4, <2>1, <3>1, NumOf
  <2>3. Len(buf'.entries) = 0 /\ 1..0 = {} /\ (First + m) + 0 = First + m
    <3>1. Len(<<>>) = 0 /\ 1..0 = {}
      OBVIOUS
    <3>2. (First + m) + 0 = First + m
      BY <1>n
    <3> QED
      BY <2>1, <3>1, <3>2
  <2>4. (First + m) * Payload \in Int
    BY <1>n, Sizes
  <2>5. buf'.to <= ((First + m) + Len(buf'.entries)) * Payload
    BY <1>4, <2>1, <2>3, <2>4
  <2>6. EntriesFrom(Num(buf.from), buf.entries)'
    BY <2>3 DEF EntriesFrom
  <2> QED
    BY <1>1, <1>4, <2>2, <2>3, <2>5, <2>6 DEF BufMarksInv, EntriesFrom
<1>9. OutMarksInv'
  <2>1. \A k \in 1..m : buf.entries[k].size = Payload
    BY <1>1, <1>2
  <2>2. (First + m) * Payload \in Int
    BY <1>n, Sizes
  <2>3. (First + m) * Payload <= (First + m) * Payload
    BY <2>2
  <2> QED
    BY <1>1, <1>2, <1>4, <1>6, <2>1, <2>3 DEF OutMarksInv
<1>10. Active' /\ ~InLog' /\ Past' = Past
  <2>1. Active' /\ ~InLog'
    BY <1>1 DEF Active, InLog
  <2> QED
    BY <1>2, <1>6, <2>1 DEF Past
<1>11. EndsInv'
  BY <1>1, <1>2, <1>6, <1>10 DEF LogsInv, EndsInv
<1>12. SameBelow(Past)
  BY <1>1 DEF SameBelow
<1>13. CarryInv'
  <2>1. CarryInv
    BY DEF LogsInv
  <2> QED
    BY <1>1, <1>2, <1>10, <1>12, <2>1, CarryKept
<1>14. OnlyRunsInv' /\ AllRunsInv'
  <2>1. OnlyRunsInv /\ AllRunsInv /\ EndsInv
    BY DEF LogsInv
  <2>2. Past \in Nat /\ First <= Past /\ Past <= Past' /\ Past' \in Int
    BY <1>n, <1>10
  <2> QED
    BY <1>1, <1>2, <1>10, <1>12, <2>1, <2>2, RunsKept
<1> QED
  BY <1>7, <1>8, <1>9, <1>11, <1>13, <1>14 DEF LogsInv

LEMMA LogsInvFlush ==
  ASSUME ParamsInv, DataInv, LogsInv, Flush
  PROVE  LogsInv'
<1> DEFINE m == Len(buf.entries)
<1>1. /\ stage = "receiving" /\ pending = <<>>
      /\ \/ stage' = "flushing" /\ step' = "reorder" /\ out' = buf
         \/ stage' = "done" /\ out' = out /\ step' = step
      /\ pending' = pending /\ over' = over /\ next' = next /\ fp' = fp
      /\ log' = log /\ u32Loop' = u32Loop /\ zeros' = zeros /\ handover' = handover
      /\ lost' = lost /\ ends' = ends
  BY DEF Flush, logging
<1>2. /\ Num(buf.from) = First /\ First \in Nat /\ Past = First /\ Active /\ ~InLog
      /\ m \in Nat
      /\ buf.to <= (First + m) * Payload
      /\ \A k \in 1..m :
           \/ buf.entries[k].size = Payload
           \/ k = m /\ over # "" /\ pending = <<>>
  BY <1>1, InUse
<1>n. First \in Nat /\ Past = First
  BY <1>2
<1>3. LostInv' /\ PendingMarksInv'
  BY <1>1 DEF LogsInv, LostInv, PendingMarksInv
<1>4. BufMarksInv'
  BY <1>1 DEF BufMarksInv
<1>5. SameBelow(Past) /\ ~InLog'
  BY <1>1 DEF SameBelow, InLog
<1>6. OnlyRunsInv /\ AllRunsInv /\ EndsInv /\ CarryInv
  BY DEF LogsInv
<1>7. CASE stage' = "flushing"
  <2>1. buf.entries # <<>>
    <3>1. DataInv'
      BY DataInvFlush
    <3>2. out'.entries # <<>>
      BY <1>7, <3>1 DEF DataInv, OutInv
    <3> QED
      BY <1>1, <1>7, <3>2
  <2>2. out' = buf /\ FirstOut' = First /\ First' = First /\ EntriesFrom(FirstOut, out.entries)'
    BY <1>1, <1>7, <2>1, HandedOut
  <2>3. OutMarksInv'
    BY <1>1, <1>2, <1>7, <2>2 DEF OutMarksInv
  <2>4. Active' /\ Past' = Past
    <3>1. Active'
      BY <1>7 DEF Active
    <3> QED
      BY <1>2, <1>5, <2>2, <3>1 DEF Past
  <2>5. EndsInv'
    BY <1>1, <1>2, <1>6, <1>7, <2>2, <2>4 DEF EndsInv
  <2>6. CarryInv'
    BY <1>1, <1>2, <1>5, <1>6, <2>4, CarryKept
  <2>7. OnlyRunsInv' /\ AllRunsInv'
    <3>1. Past \in Nat /\ First <= Past /\ Past <= Past' /\ Past' \in Int
      BY <1>n, <2>4
    <3> QED
      BY <1>1, <1>2, <1>5, <1>6, <2>4, <3>1, RunsKept
  <2> QED
    BY <1>3, <1>4, <2>3, <2>5, <2>6, <2>7 DEF LogsInv
<1>8. CASE stage' = "done"
  <2>1. ~Active'
    BY <1>8 DEF Active
  <2>2. OutMarksInv'
    BY <1>8 DEF OutMarksInv
  <2>3. EndsInv' /\ CarryInv'
    BY <1>1, <1>6, <1>8, <2>1 DEF EndsInv, CarryInv
  <2>4. OnlyRunsInv' /\ AllRunsInv'
    <3>1. Past \in Nat /\ First <= Past
      BY <1>n
    <3> QED
      BY <1>1, <1>2, <1>5, <1>6, <2>1, <3>1, RunsKept
  <2> QED
    BY <1>3, <1>4, <2>2, <2>3, <2>4 DEF LogsInv
<1> QED
  BY <1>1, <1>7, <1>8

LEMMA AppendEntries ==
  ASSUME NEW S, NEW q \in Seq(S), NEW x \in S
  PROVE  /\ Append(q, x) \in Seq(S) /\ Len(q) \in Nat /\ Len(Append(q, x)) = Len(q) + 1
         /\ \A k \in 1..(Len(q) + 1) : Append(q, x)[k] = IF k = Len(q) + 1 THEN x ELSE q[k]
OBVIOUS

\* What Store does to the buffer in use and to the slots in hand.
LEMMA StoreEffect ==
  ASSUME ParamsInv, DataInv, Store
  PROVE  LET s == pending[1]
             n == Len(pending)
             m == Len(buf.entries)
         IN /\ n \in Nat /\ n >= 1 /\ m \in Nat
            /\ buf'.from = buf.from /\ buf'.to = buf.to + Cut(s)
            /\ Len(buf'.entries) = m + 1
            /\ \A k \in 1..(m + 1) : buf'.entries[k] = IF k = m + 1 THEN s ELSE buf.entries[k]
            /\ \/ pending' = <<>> /\ over' = "goal"
               \/ /\ over' = over /\ Len(pending') = n - 1
                  /\ \A i \in 1..(n - 1) : pending'[i] = pending[i + 1]
                  /\ n = 1 => pending' = <<>>
            /\ s.at = buf.to /\ over # "goal"
            /\ s.size = Payload \/ (n = 1 /\ over = "short")
            /\ buf.to = (next - n) * Payload /\ Cut(s) \in 1..Payload
            /\ stage = "receiving" /\ stage' = stage /\ pending # <<>>
<1> DEFINE s == pending[1]
           atGoal == Stop = "bytes" /\ s.at + s.size >= Goal
           n == Len(pending)
           m == Len(buf.entries)
<1>1. /\ stage = "receiving" /\ pending # <<>> /\ stage' = stage
      /\ buf' = [buf EXCEPT !.to = @ + Cut(s), !.entries = Append(@, s)]
      /\ pending' = IF atGoal THEN <<>> ELSE Tail(pending)
      /\ over' = IF atGoal THEN "goal" ELSE over
  BY HeadSlot DEF Store
<1>2. /\ over # "goal" /\ s \in Slots /\ s.at = buf.to
      /\ buf.to = (next - n) * Payload /\ Cut(s) \in 1..Payload
  BY <1>1, HeadSlot
<1>3. buf \in Buffers /\ buf.entries \in Seq(Slots) /\ pending \in Seq(Slots)
  BY DEF DataInv, ShapeInv, Buffers
<1>4. /\ n \in Nat /\ n >= 1 /\ Tail(pending) \in Seq(Slots) /\ Len(Tail(pending)) = n - 1
      /\ \A i \in 1..(n - 1) : Tail(pending)[i] = pending[i + 1]
  BY <1>1, <1>3, TailSlots
<1>5. n = 1 => Tail(pending) = <<>>
  <2>1. n = 1 => Len(Tail(pending)) = 0
    BY <1>4
  <2>2. \A q \in Seq(Slots) : Len(q) = 0 => q = <<>>
    OBVIOUS
  <2> QED
    BY <1>4, <2>1, <2>2
<1>6. /\ m \in Nat /\ Len(Append(buf.entries, s)) = m + 1
      /\ \A k \in 1..(m + 1) :
           Append(buf.entries, s)[k] = IF k = m + 1 THEN s ELSE buf.entries[k]
  BY <1>2, <1>3, AppendEntries
<1>7. s.size = Payload \/ (n = 1 /\ over = "short")
  <2>1. 1 \in 1..n
    BY <1>4
  <2> QED
    BY <2>1 DEF DataInv, SlotInv
<1>8. /\ buf'.from = buf.from /\ buf'.to = buf.to + Cut(s)
      /\ buf'.entries = Append(buf.entries, s)
  <2> HIDE DEF s, atGoal
  <2> QED
    BY <1>1, <1>3 DEF Buffers
<1>9. \/ pending' = <<>> /\ over' = "goal"
      \/ /\ over' = over /\ Len(pending') = n - 1
         /\ \A i \in 1..(n - 1) : pending'[i] = pending[i + 1]
         /\ n = 1 => pending' = <<>>
  <2>1. \/ pending' = <<>> /\ over' = "goal"
        \/ pending' = Tail(pending) /\ over' = over
    BY <1>1
  <2> QED
    BY <1>4, <1>5, <2>1
<1> QED
  BY <1>1, <1>2, <1>4, <1>6, <1>7, <1>8, <1>9

LEMMA LogsInvStore ==
  ASSUME ParamsInv, DataInv, LogsInv, Store
  PROVE  LogsInv'
<1> DEFINE s == pending[1]
           n == Len(pending)
           m == Len(buf.entries)
<1>1. /\ out' = out /\ step' = step /\ next' = next /\ fp' = fp
      /\ log' = log /\ u32Loop' = u32Loop /\ zeros' = zeros /\ handover' = handover
      /\ lost' = lost /\ ends' = ends
  BY DEF Store, logging
<1>2. /\ n \in Nat /\ n >= 1 /\ m \in Nat
      /\ buf'.from = buf.from /\ buf'.to = buf.to + Cut(s)
      /\ Len(buf'.entries) = m + 1
      /\ \A k \in 1..(m + 1) : buf'.entries[k] = IF k = m + 1 THEN s ELSE buf.entries[k]
      /\ \/ pending' = <<>> /\ over' = "goal"
         \/ /\ over' = over /\ Len(pending') = n - 1
            /\ \A i \in 1..(n - 1) : pending'[i] = pending[i + 1]
            /\ n = 1 => pending' = <<>>
      /\ s.at = buf.to /\ over # "goal"
      /\ s.size = Payload \/ (n = 1 /\ over = "short")
      /\ buf.to = (next - n) * Payload /\ Cut(s) \in 1..Payload
      /\ stage = "receiving" /\ stage' = stage /\ pending # <<>>
  BY StoreEffect
<1>3. /\ Num(buf.from) = First /\ First \in Nat /\ Past = First /\ Active /\ ~InLog
      /\ next \in Nat /\ EntriesFrom(First, buf.entries)
      /\ over # "goal" => First + m = next - n
      /\ \A k \in 1..m :
           \/ buf.entries[k].size = Payload
           \/ k = m /\ over # "" /\ pending = <<>>
  BY <1>2, InUse
<1>n. First \in Nat /\ next \in Nat /\ n \in Nat /\ n >= 1 /\ m \in Nat /\ Past = First
  BY <1>2, <1>3
<1>4. First + m = next - n
  BY <1>2, <1>3
<1>5. LostInv'
  BY <1>1, <1>2 DEF LogsInv, LostInv
<1>6. \A i \in 1..n : pending[i].valid <=> next - n + (i - 1) \notin lost
  BY DEF LogsInv, PendingMarksInv
<1>7. PendingMarksInv'
  <2>1. CASE pending' = <<>>
    <3>1. Len(<<>>) = 0 /\ 1..0 = {}
      OBVIOUS
    <3> QED
      BY <2>1, <3>1 DEF PendingMarksInv
  <2>2. CASE /\ Len(pending') = n - 1
             /\ \A i \in 1..(n - 1) : pending'[i] = pending[i + 1]
    <3>1. ASSUME NEW i \in 1..(n - 1)
          PROVE  pending'[i].valid <=> next - (n - 1) + (i - 1) \notin lost
      <4>1. i + 1 \in 1..n /\ next - n + ((i + 1) - 1) = next - (n - 1) + (i - 1)
        BY <1>n
      <4> QED
        BY <1>6, <2>2, <4>1
    <3> QED
      BY <1>1, <2>2, <3>1 DEF PendingMarksInv
  <2> QED
    BY <1>2, <2>1, <2>2
<1>8. Num(buf'.from) = First /\ First' = First
  <2>1. First' = Num(buf'.from)
    BY <1>2 DEF First
  <2> QED
    BY <1>2, <1>3, <2>1
<1>9. EntriesFrom(First, buf.entries)'
  <2>1. ASSUME NEW k \in 1..(m + 1)
        PROVE  /\ buf'.entries[k].at = (First + (k - 1)) * Payload
               /\ buf'.entries[k].valid <=> First + (k - 1) \notin lost'
    <3>1. CASE k = m + 1
      <4>1. First + (k - 1) = next - n /\ 1 \in 1..n /\ next - n + (1 - 1) = next - n
        BY <1>n, <1>4, <3>1
      <4>2. s.valid <=> next - n \notin lost
        BY <1>6, <4>1
      <4>3. buf'.entries[k] = s
        BY <1>2, <3>1
      <4> QED
        BY <1>1, <1>2, <4>1, <4>2, <4>3
    <3>2. CASE k # m + 1
      <4>1. k \in 1..m
        BY <1>n, <3>2
      <4>2. /\ buf.entries[k].at = (First + (k - 1)) * Payload
            /\ buf.entries[k].valid <=> First + (k - 1) \notin lost
        BY <1>3, <4>1 DEF EntriesFrom
      <4>3. buf'.entries[k] = buf.entries[k]
        BY <1>2, <3>2
      <4> QED
        BY <1>1, <4>2, <4>3
    <3> QED
      BY <3>1, <3>2
  <2> QED
    BY <1>2, <1>8, <2>1 DEF EntriesFrom
<1>10. buf'.to <= (First + (m + 1)) * Payload
  <2>1. buf.to = (First + m) * Payload
    BY <1>2, <1>4
  <2>2. (First + (m + 1)) * Payload = (First + m) * Payload + Payload
    <3>1. \A k \in Nat : (k + 1) * Payload = k * Payload + Payload
      BY Sizes
    <3>2. First + m \in Nat /\ First + (m + 1) = (First + m) + 1
      BY <1>n
    <3> QED
      BY <3>1, <3>2
  <2>3. (First + m) * Payload \in Int
    BY <1>n, Sizes
  <2>4. Cut(s) \in Int /\ Cut(s) <= Payload /\ Payload \in Int
    BY <1>2, Sizes
  <2>5. \A x \in Int, c \in Int : c <= Payload => x + c <= x + Payload
    BY Sizes
  <2> QED
    BY <1>2, <2>1, <2>2, <2>3, <2>4, <2>5
<1>11. \A k \in 1..(m + 1) :
         \/ buf'.entries[k].size = Payload
         \/ k = m + 1 /\ over' # "" /\ pending' = <<>>
  <2>1. ASSUME NEW k \in 1..(m + 1)
        PROVE  buf'.entries[k].size = Payload \/ (k = m + 1 /\ over' # "" /\ pending' = <<>>)
    <3>1. CASE k = m + 1
      <4>1. buf'.entries[k] = s
        BY <1>2, <3>1
      <4>2. n = 1 /\ over = "short" => over' # "" /\ pending' = <<>>
        BY <1>2
      <4> QED
        BY <1>2, <3>1, <4>1, <4>2
    <3>2. CASE k # m + 1
      <4>1. k \in 1..m
        BY <1>n, <3>2
      <4>2. buf.entries[k].size = Payload /\ buf'.entries[k] = buf.entries[k]
        BY <1>2, <1>3, <3>2, <4>1
      <4> QED
        BY <4>2
    <3> QED
      BY <3>1, <3>2
  <2> QED
    BY <2>1
<1>12. over' # "goal" => First + (m + 1) = next' - Len(pending')
  <2>1. over' # "goal" => Len(pending') = n - 1
    BY <1>2
  <2>2. First + (m + 1) = next - (n - 1)
    BY <1>n, <1>4
  <2> QED
    BY <1>1, <2>1, <2>2
<1>13. BufMarksInv'
  BY <1>2, <1>8, <1>9, <1>10, <1>11, <1>12 DEF BufMarksInv
<1>14. OutMarksInv'
  BY <1>2 DEF OutMarksInv
<1>15. Active' /\ ~InLog' /\ Past' = Past
  <2>1. Active' /\ ~InLog'
    BY <1>2 DEF Active, InLog
  <2> QED
    BY <1>n, <1>8, <2>1 DEF Past
<1>16. EndsInv'
  BY <1>1, <1>2, <1>3, <1>8, <1>15 DEF LogsInv, EndsInv
<1>17. SameBelow(Past)
  BY <1>1 DEF SameBelow
<1>18. CarryInv'
  <2>1. CarryInv
    BY DEF LogsInv
  <2> QED
    BY <1>1, <1>3, <1>15, <1>17, <2>1, CarryKept
<1>19. OnlyRunsInv' /\ AllRunsInv'
  <2>1. OnlyRunsInv /\ AllRunsInv /\ EndsInv
    BY DEF LogsInv
  <2>2. Past \in Nat /\ First <= Past /\ Past <= Past' /\ Past' \in Int
    BY <1>n, <1>15
  <2> QED
    BY <1>1, <1>3, <1>15, <1>17, <2>1, <2>2, RunsKept
<1> QED
  BY <1>5, <1>7, <1>13, <1>14, <1>16, <1>18, <1>19 DEF LogsInv

\* The writer before it comes to the log: it goes on, stops, or gives up the file.
LEMMA LogsInvWriting ==
  ASSUME DataInv, LogsInv, stage \in {"writing", "flushing"}, ~InLog, ~InLog',
         UNCHANGED <<pending, over, next, buf, log, u32Loop, zeros, handover, lost, ends>>,
         out'.entries = out.entries, out'.to = out.to, fp' => fp,
         \/ stage' = stage /\ (step' \in {"log", "entry"} => fp')
         \/ stage' \in {"done", "crashed"}
         \/ stage' = "receiving" /\ stage = "writing" /\ ~fp'
  PROVE  LogsInv'
<1>1. /\ Active /\ First = FirstOut /\ FirstOut' = FirstOut
      /\ stage' = "receiving" => First' = Num(buf.from)
      /\ stage' = stage => First' = First
  BY DEF Active, First, FirstOut
<1>2. First \in Nat /\ Past = First
  <2>1. First \in Nat
    BY <1>1, LogPlaces
  <2> QED
    BY <2>1 DEF Past
<1>3. LostInv' /\ PendingMarksInv'
  BY DEF LogsInv, LostInv, PendingMarksInv
<1>4. BufMarksInv'
  BY DEF LogsInv, BufMarksInv, EntriesFrom
<1>5. OutMarksInv'
  BY <1>1 DEF LogsInv, OutMarksInv, EntriesFrom
<1>6. SameBelow(Past)
  BY DEF SameBelow
<1>7. OnlyRunsInv /\ AllRunsInv /\ EndsInv /\ CarryInv
  BY DEF LogsInv
<1>8. CASE stage' = stage
  <2>1. Active' /\ Past' = Past
    <3>1. Active'
      BY <1>1, <1>8 DEF Active
    <3>2. Past' = First' + 0 /\ First' = First
      BY <1>1, <1>8 DEF Past
    <3> QED
      BY <1>2, <3>1, <3>2
  <2>2. EndsInv'
    BY <1>1, <1>7, <1>8 DEF EndsInv
  <2>3. CarryInv'
    BY <1>1, <1>2, <1>6, <1>7, <2>1, CarryKept
  <2>4. OnlyRunsInv' /\ AllRunsInv'
    <3>1. Past \in Nat /\ First <= Past /\ Past <= Past' /\ Past' \in Int
      BY <1>2, <2>1
    <3> QED
      BY <1>1, <1>2, <1>6, <1>7, <2>1, <3>1, RunsKept
  <2> QED
    BY <1>3, <1>4, <1>5, <2>2, <2>3, <2>4 DEF LogsInv
<1>9. CASE stage' \in {"done", "crashed"}
  <2>1. ~Active'
    BY <1>9 DEF Active
  <2>2. EndsInv' /\ CarryInv'
    BY <1>7, <1>9, <2>1 DEF EndsInv, CarryInv
  <2>3. OnlyRunsInv' /\ AllRunsInv'
    <3>1. Past \in Nat /\ First <= Past
      BY <1>2
    <3> QED
      BY <1>1, <1>2, <1>6, <1>7, <2>1, <3>1, RunsKept
  <2> QED
    BY <1>3, <1>4, <1>5, <2>2, <2>3 DEF LogsInv
<1>10. CASE stage' = "receiving" /\ stage = "writing" /\ ~fp'
  <2>1. First' = Num(out.to) /\ out.to = (First + Len(out.entries)) * Payload
    <3>1. out.to = buf.from
      BY <1>10 DEF DataInv, OutInv
    <3> QED
      BY <1>1, <1>10, <3>1 DEF LogsInv, OutMarksInv
  <2>2. Len(out.entries) \in Nat
    <3>1. out.entries \in Seq(Slots)
      BY DEF DataInv, ShapeInv, Buffers
    <3> QED
      BY <3>1
  <2>3. First' = First + Len(out.entries) /\ First' \in Nat /\ First <= First'
    <3>1. First + Len(out.entries) \in Nat /\ First <= First + Len(out.entries)
      BY <1>2, <2>2
    <3> QED
      BY <2>1, <3>1, NumOf
  <2>4. Past' = First' /\ Past' \in Int /\ Past <= Past' /\ First <= Past /\ Past \in Nat
    <3>1. Past' = First' + 0
      BY DEF Past
    <3> QED
      BY <1>2, <2>3, <3>1
  <2>5. EndsInv'
    <3>1. ASSUME NEW e \in ends PROVE e <= First' * Payload
      <4>1. e \in Nat /\ e <= First * Payload
        BY <1>1, LogPlaces
      <4>2. First * Payload <= First' * Payload
        BY <1>2, <2>3, PlaceOrder
      <4>3. First * Payload \in Int /\ First' * Payload \in Int
        BY <1>2, <2>3, Sizes
      <4> QED
        BY <4>1, <4>2, <4>3
    <3> QED
      BY <1>7, <1>10, <3>1 DEF EndsInv
  <2>6. CarryInv'
    BY <1>10 DEF CarryInv
  <2>7. OnlyRunsInv' /\ AllRunsInv'
    BY <1>1, <1>2, <1>6, <1>7, <1>10, <2>4, RunsKept
  <2> QED
    BY <1>3, <1>4, <1>5, <2>5, <2>6, <2>7 DEF LogsInv
<1> QED
  BY <1>8, <1>9, <1>10

LEMMA LogsInvWriter ==
  ASSUME ParamsInv, DataInv, LogsInv, Reorder \/ WriteFits \/ Rotate \/ Crash
  PROVE  LogsInv'
<1>1. CASE Reorder
  <2> DEFINE Drop == used.conf.reorder /\ Stored(out) % Block # 0
  <2>1. /\ Writing("reorder") /\ out' = out
        /\ UNCHANGED <<pending, over, next, buf, log, u32Loop, zeros, handover, lost, ends>>
        /\ \/ /\ Drop /\ stage' = IF stage = "flushing" THEN "done" ELSE "receiving"
              /\ fp' = (fp /\ stage = "writing") /\ step' = ""
           \/ step' = "write" /\ stage' = stage /\ fp' = fp
    BY <1>1 DEF Reorder, Return, logging
  <2>2. Drop => stage = "flushing"
    BY <2>1, OnlyTheRestIsDropped
  <2> HIDE DEF Drop
  <2>3. stage \in {"writing", "flushing"} /\ ~InLog /\ ~InLog'
    BY <2>1 DEF Writing, InLog
  <2>4. \/ stage' = stage /\ ~(step' \in {"log", "entry"}) /\ (fp' => fp)
        \/ stage' = "done" /\ (fp' => fp)
    BY <2>1, <2>2
  <2>5. out'.entries = out.entries /\ out'.to = out.to
    BY <2>1
  <2> QED
    BY <2>1, <2>3, <2>4, <2>5, LogsInvWriting
<1>2. CASE WriteFits
  <2>1. /\ Writing("write") /\ fp /\ out' = [out EXCEPT !.from = out.to]
        /\ UNCHANGED <<pending, over, next, buf, log, u32Loop, zeros, handover, lost, ends>>
        /\ stage' = stage /\ step' = "log" /\ fp' = fp
    BY <1>2 DEF WriteFits, logging
  <2>2. stage \in {"writing", "flushing"} /\ ~InLog /\ ~InLog'
    BY <2>1 DEF Writing, InLog
  <2>3. out \in Buffers
    BY DEF DataInv, ShapeInv
  <2>4. out'.entries = out.entries /\ out'.to = out.to
    BY <2>1, <2>3 DEF Buffers
  <2> QED
    BY <2>1, <2>2, <2>4, LogsInvWriting
<1>3. CASE Rotate
  <2>1. /\ Writing("write") /\ fp /\ out' = [out EXCEPT !.from = @ + Chunk]
        /\ UNCHANGED <<pending, over, next, buf, log, u32Loop, zeros, handover, lost, ends>>
        /\ \/ stage' = stage /\ step' = step /\ fp' = fp
           \/ /\ stage' = IF stage = "flushing" THEN "done" ELSE "receiving"
              /\ step' = "" /\ ~fp'
    BY <1>3 DEF Rotate, Return, logging
  <2>2. stage \in {"writing", "flushing"} /\ step = "write" /\ ~InLog /\ ~InLog'
    BY <2>1 DEF Writing, InLog
  <2>3. out \in Buffers
    BY DEF DataInv, ShapeInv
  <2>4. out'.entries = out.entries /\ out'.to = out.to
    BY <2>1, <2>3 DEF Buffers
  <2> QED
    BY <2>1, <2>2, <2>4, LogsInvWriting
<1>4. CASE Crash
  <2>1. /\ Writing("write") /\ out' = out
        /\ UNCHANGED <<pending, over, next, buf, log, u32Loop, zeros, handover, lost, ends>>
        /\ stage' = "crashed" /\ fp' = fp
    BY <1>4 DEF Crash, logging
  <2>2. stage \in {"writing", "flushing"} /\ ~InLog /\ ~InLog'
    BY <2>1 DEF Writing, InLog
  <2> QED
    BY <2>1, <2>2, LogsInvWriting
<1> QED
  BY <1>1, <1>2, <1>3, <1>4

-----------------------------------------------------------------------------
(* writeLogToFile_Inline.                                                    *)

\* The buffer whose log is gone through.
LEMMA LogFacts ==
  ASSUME DataInv, LogsInv, stage \in {"writing", "flushing"}, step \in {"log", "entry"}
  PROVE  /\ fp /\ Active /\ First = FirstOut /\ First \in Nat /\ Past \in Nat
         /\ (InLog <=> step = "entry") /\ u32Loop \in Nat
         /\ Past = First + (IF step = "entry" THEN u32Loop ELSE 0)
         /\ out.entries \in Seq(Slots) /\ Len(out.entries) \in Nat /\ Len(out.entries) >= 1
         /\ EntriesFrom(First, out.entries)
         /\ First = 0 \/ First * Payload \in ends
         /\ lost \subseteq 1..(next - 1) /\ next \in 0..MaxPackets
         /\ handover \in Nat /\ zeros \in [start : Nat, till : Nat]
<1>1. /\ Active /\ First = FirstOut /\ (InLog <=> step = "entry")
  BY DEF Active, First, InLog
<1>2. First \in Nat /\ Past \in Nat
  BY <1>1, LogPlaces
<1>3. Past = First + (IF step = "entry" THEN u32Loop ELSE 0)
  BY <1>1 DEF Past
<1>4. fp /\ (First = 0 \/ First * Payload \in ends)
  BY <1>1 DEF LogsInv, EndsInv
<1>5. out.entries \in Seq(Slots) /\ out.entries # <<>>
  BY DEF DataInv, ShapeInv, Buffers, OutInv
<1>6. Len(out.entries) \in Nat /\ Len(out.entries) >= 1
  BY <1>5
<1>7. EntriesFrom(First, out.entries)
  BY <1>1 DEF LogsInv, OutMarksInv
<1>8. lost \subseteq 1..(next - 1) /\ next \in 0..MaxPackets
  BY DEF LogsInv, LostInv, DataInv, ShapeInv
<1>9. handover \in Nat /\ zeros \in [start : Nat, till : Nat] /\ u32Loop \in Nat
  BY DEF DataInv, LogInv
<1> QED
  BY <1>1, <1>2, <1>3, <1>4, <1>5, <1>6, <1>7, <1>8, <1>9

\* What the log leaves alone.
LEMMA LogKeeps ==
  ASSUME LogsInv, stage \in {"writing", "flushing"},
         UNCHANGED <<stage, pending, over, next, buf, out, fp, handover, lost, ends>>,
         step \in {"log", "entry"}, step' = "entry"
  PROVE  /\ LostInv' /\ PendingMarksInv' /\ BufMarksInv' /\ OutMarksInv' /\ EndsInv'
         /\ Active' /\ First' = First /\ InLog'
<1>1. LostInv'
  BY DEF LogsInv, LostInv
<1>2. PendingMarksInv' /\ BufMarksInv'
  BY DEF LogsInv, PendingMarksInv, BufMarksInv, EntriesFrom
<1>3. OutMarksInv'
  BY DEF LogsInv, OutMarksInv, EntriesFrom, FirstOut
<1>4. Active' /\ Active /\ First' = First /\ InLog'
  BY DEF Active, First, FirstOut, InLog
<1>5. EndsInv'
  BY <1>4 DEF LogsInv, EndsInv
<1> QED
  BY <1>1, <1>2, <1>3, <1>4, <1>5

LEMMA LogsInvBeginLog ==
  ASSUME DataInv, LogsInv, BeginLog
  PROVE  LogsInv'
<1>1. /\ stage \in {"writing", "flushing"} /\ step = "log" /\ step' = "entry"
      /\ zeros' = Begin(out.entries) /\ u32Loop' = 0
      /\ UNCHANGED <<stage, pending, over, next, buf, out, fp, handover, lost, ends>>
      /\ log' = log
  BY DEF BeginLog, Writing
<1>2. /\ fp /\ Active /\ First \in Nat /\ Past = First + 0 /\ ~InLog
      /\ Len(out.entries) \in Nat /\ Len(out.entries) >= 1 /\ EntriesFrom(First, out.entries)
      /\ lost \subseteq 1..(next - 1) /\ handover \in Nat
  BY <1>1, LogFacts
<1>3. /\ LostInv' /\ PendingMarksInv' /\ BufMarksInv' /\ OutMarksInv' /\ EndsInv'
      /\ Active' /\ First' = First /\ InLog'
  BY <1>1, LogKeeps
<1>4. Past' = Past /\ Past = First
  <2>1. Past' = First' + 0
    BY <1>1, <1>3 DEF Past
  <2> QED
    BY <1>2, <1>3, <2>1
<1>5. CarryInv'
  <2>1. PICK n \in 0..Past : CarriedFrom(n)
    BY <1>2 DEF LogsInv, CarryInv
  <2>2. /\ Carry = handover /\ Carry' = handover
        /\ zeros'.start = IF out.entries[1].valid THEN 0 ELSE handover
    BY <1>1, <1>2, <1>3 DEF Carry, Begin
  <2>3. /\ zeros'.start \in {0, Carry'}
        /\ zeros'.start = 0 => out.entries[1].valid
    <3>1. ~out.entries[1].valid => handover # 0
      <4>1. 1 \in 1..Len(out.entries) /\ First + (1 - 1) = First
        BY <1>2
      <4>2. ~out.entries[1].valid => First \in lost
        BY <1>2, <4>1 DEF EntriesFrom
      <4>3. First \in lost => Past > 0
        BY <1>2, <1>4
      <4>4. Past > 0 => n > 0
        BY <2>1 DEF CarriedFrom
      <4>5. n > 0 => n * Payload # 0
        BY Sizes
      <4>6. handover = n * Payload
        BY <2>1, <2>2 DEF CarriedFrom
      <4> QED
        BY <4>2, <4>3, <4>4, <4>5, <4>6
    <3> QED
      BY <2>2, <3>1
  <2>4. zeros'.start # 0 => ~out.entries[1].valid
    BY <2>2
  <2>5. CarriedFrom(n)'
    <3>1. /\ Carry' = n * Payload /\ n..(Past' - 1) \subseteq lost' /\ n - 1 \notin lost'
          /\ Past' > 0 => n > 0
      BY <1>1, <1>4, <2>1, <2>2 DEF CarriedFrom
    <3> QED
      BY <1>1, <2>3, <2>4, <3>1 DEF CarriedFrom
  <2> QED
    BY <1>4, <2>1, <2>5 DEF CarryInv
<1>6. SameBelow(Past)
  BY <1>1 DEF SameBelow
<1>7. OnlyRunsInv' /\ AllRunsInv'
  <2>1. OnlyRunsInv /\ AllRunsInv /\ EndsInv
    BY DEF LogsInv
  <2>2. Past \in Nat /\ First <= Past /\ Past <= Past' /\ Past' \in Int
    BY <1>2, <1>4
  <2> QED
    BY <1>1, <1>2, <1>3, <1>4, <1>6, <2>1, <2>2, RunsKept
<1> QED
  BY <1>3, <1>5, <1>7 DEF LogsInv

\* The log passes one packet: only a run that ends before it may be added, and must be.
LEMMA LogPasses ==
  ASSUME OnlyRunsInv, AllRunsInv, lost' = lost, ends' = ends, Active, Active', fp,
         Past \in Nat, Past' = Past + 1,
         \/ log' = log
         \/ \E a \in 1..MaxPackets : \E b \in a..MaxPackets :
              log' = Append(log, RunEntry(a, b)) /\ IsRun(a, b) /\ b + 1 = Past,
         \A a \in 1..MaxPackets : \A b \in a..MaxPackets :
           IsRun(a, b) /\ b + 1 = Past /\ Past * Payload \notin ends
             => log' = Append(log, RunEntry(a, b))
  PROVE  OnlyRunsInv' /\ AllRunsInv'
<1>1. ASSUME NEW a \in 1..MaxPackets, NEW b \in a..MaxPackets
      PROVE  /\ a \in Nat /\ b \in Nat /\ b + 1 \in Nat /\ RunEntry(a, b) \in Nat \X Nat
             /\ (IsRun(a, b)' <=> IsRun(a, b))
  <2>1. a \in Nat /\ b \in Nat /\ b + 1 \in Nat /\ b + 1 - a \in Nat /\ Payload \in Nat
    BY Sizes
  <2>2. a * Payload \in Nat /\ (b + 1 - a) * Payload \in Nat
    BY <2>1
  <2> QED
    BY <2>1, <2>2 DEF RunEntry, IsRun
<1>2. /\ log \in Seq(Nat \X Nat) /\ Len(log) \in Nat
      /\ \A x \in Nat \X Nat :
           /\ Append(log, x) \in Seq(Nat \X Nat) /\ Len(Append(log, x)) = Len(log) + 1
           /\ \A k \in 1..(Len(log) + 1) :
                Append(log, x)[k] = IF k = Len(log) + 1 THEN x ELSE log[k]
  <2>1. log \in Seq(Nat \X Nat)
    BY DEF OnlyRunsInv
  <2>2. Len(log) \in Nat
    BY <2>1
  <2> QED
    BY <2>1, <2>2, AppendEntries
<1>d. ASSUME NEW p \in Nat, Due(p)' PROVE Due(p) \/ p = Past
  <2>1. CASE \E e \in ends : p * Payload < e
    BY <2>1 DEF Due
  <2>2. CASE p < Past'
    <3>1. p < Past \/ p = Past
      BY <2>2
    <3> QED
      BY <3>1 DEF Due
  <2> QED
    BY <1>d, <2>1, <2>2 DEF Due
<1>3. CASE log' = log
  <2>1. OnlyRunsInv'
    <3>1. ASSUME NEW i \in 1..Len(log)
          PROVE  \E a \in 1..MaxPackets : \E b \in a..MaxPackets :
                   log[i] = RunEntry(a, b) /\ IsRun(a, b)' /\ b + 1 < Past'
      <4>1. PICK a \in 1..MaxPackets : \E b \in a..MaxPackets :
              log[i] = RunEntry(a, b) /\ IsRun(a, b) /\ b + 1 < Past
        BY <3>1 DEF OnlyRunsInv
      <4>2. PICK b \in a..MaxPackets :
              log[i] = RunEntry(a, b) /\ IsRun(a, b) /\ b + 1 < Past
        BY <4>1
      <4>3. b + 1 < Past'
        BY <1>1, <4>2
      <4> QED
        BY <1>1, <4>2, <4>3
    <3> QED
      BY <1>2, <1>3, <3>1 DEF OnlyRunsInv, RunEntry
  <2>2. AllRunsInv'
    <3>1. ASSUME NEW a \in 1..MaxPackets, NEW b \in a..MaxPackets,
                 IsRun(a, b)', Due(b + 1)', (b + 1) * Payload \notin ends'
          PROVE  \E i \in 1..Len(log) : log[i] = RunEntry(a, b)
      <4>1. IsRun(a, b) /\ b + 1 \in Nat
        BY <1>1, <3>1
      <4>2. Due(b + 1) \/ b + 1 = Past
        BY <1>d, <3>1, <4>1
      <4>3. CASE Due(b + 1)
        BY <3>1, <4>1, <4>3 DEF AllRunsInv
      <4>4. CASE b + 1 = Past
        <5>1. log = Append(log, RunEntry(a, b))
          BY <1>3, <3>1, <4>1, <4>4
        <5>2. Len(log) = Len(log) + 1
          BY <1>1, <1>2, <5>1
        <5>3. Len(log) # Len(log) + 1
          BY <1>2
        <5> QED
          BY <5>2, <5>3
      <4> QED
        BY <4>2, <4>3, <4>4
    <3> QED
      BY <1>3, <3>1 DEF AllRunsInv, RunEntry
  <2> QED
    BY <2>1, <2>2
<1>4. ASSUME NEW c \in 1..MaxPackets, NEW d \in c..MaxPackets,
             log' = Append(log, RunEntry(c, d)), IsRun(c, d), d + 1 = Past
      PROVE  OnlyRunsInv' /\ AllRunsInv'
  <2>1. /\ log' \in Seq(Nat \X Nat) /\ Len(log') = Len(log) + 1
        /\ \A k \in 1..(Len(log) + 1) :
             log'[k] = IF k = Len(log) + 1 THEN RunEntry(c, d) ELSE log[k]
    BY <1>1, <1>2, <1>4
  <2>2. OnlyRunsInv'
    <3>1. ASSUME NEW i \in 1..Len(log')
          PROVE  \E a \in 1..MaxPackets : \E b \in a..MaxPackets :
                   log'[i] = RunEntry(a, b) /\ IsRun(a, b)' /\ b + 1 < Past'
      <4>1. CASE i = Len(log) + 1
        <5>1. d + 1 < Past' /\ IsRun(c, d)'
          BY <1>1, <1>4
        <5>2. log'[i] = RunEntry(c, d)
          BY <2>1, <4>1
        <5> QED
          BY <5>1, <5>2
      <4>2. CASE i # Len(log) + 1
        <5>1. i \in 1..Len(log)
          BY <1>2, <2>1, <4>2
        <5>2. PICK a \in 1..MaxPackets : \E b \in a..MaxPackets :
                log[i] = RunEntry(a, b) /\ IsRun(a, b) /\ b + 1 < Past
          BY <5>1 DEF OnlyRunsInv
        <5>3. PICK b \in a..MaxPackets :
                log[i] = RunEntry(a, b) /\ IsRun(a, b) /\ b + 1 < Past
          BY <5>2
        <5>4. b + 1 < Past'
          BY <1>1, <5>3
        <5>5. log'[i] = log[i]
          BY <2>1, <4>2
        <5> QED
          BY <1>1, <5>3, <5>4, <5>5
      <4> QED
        BY <4>1, <4>2
    <3> QED
      BY <2>1, <3>1 DEF OnlyRunsInv, RunEntry
  <2>3. AllRunsInv'
    <3>1. ASSUME NEW a \in 1..MaxPackets, NEW b \in a..MaxPackets,
                 IsRun(a, b)', Due(b + 1)', (b + 1) * Payload \notin ends'
          PROVE  \E i \in 1..Len(log') : log'[i] = RunEntry(a, b)
      <4>1. IsRun(a, b) /\ b + 1 \in Nat
        BY <1>1, <3>1
      <4>2. Due(b + 1) \/ b + 1 = Past
        BY <1>d, <3>1, <4>1
      <4>3. CASE Due(b + 1)
        <5>1. PICK i \in 1..Len(log) : log[i] = RunEntry(a, b)
          BY <3>1, <4>1, <4>3 DEF AllRunsInv
        <5>2. i \in 1..Len(log') /\ i \in 1..(Len(log) + 1) /\ i # Len(log) + 1
          <6>1. Len(log) \in Nat /\ Len(log') = Len(log) + 1
            BY <1>2, <2>1
          <6> QED
            BY <6>1
        <5> QED
          BY <2>1, <5>1, <5>2
      <4>4. CASE b + 1 = Past
        <5>1. log' = Append(log, RunEntry(a, b))
          BY <3>1, <4>1, <4>4
        <5>2. Append(log, RunEntry(a, b))[Len(log) + 1] = RunEntry(a, b)
          <6>1. Len(log) + 1 \in 1..(Len(log) + 1)
            BY <1>2
          <6> QED
            BY <1>1, <1>2, <6>1
        <5>3. Len(log) + 1 \in 1..Len(log')
          BY <1>2, <2>1
        <5> QED
          BY <5>1, <5>2, <5>3
      <4> QED
        BY <4>2, <4>3, <4>4
    <3> QED
      BY <3>1 DEF AllRunsInv, RunEntry
  <2> QED
    BY <2>2, <2>3
<1> QED
  BY <1>3, <1>4

LEMMA LogsInvLogEntry ==
  ASSUME DataInv, LogsInv, LogEntry
  PROVE  LogsInv'
<1> DEFINE e == out.entries[u32Loop + 1]
<1>1. /\ stage \in {"writing", "flushing"} /\ step = "entry" /\ step' = "entry"
      /\ u32Loop < Len(out.entries) /\ u32Loop' = u32Loop + 1
      /\ UNCHANGED <<stage, pending, over, next, buf, out, fp, handover, lost, ends>>
      /\ \/ /\ e.valid /\ zeros' = [start |-> 0, till |-> EndOf(e)]
            /\ log' = IF zeros.start = 0 THEN log
                      ELSE Append(log, <<zeros.start, e.at - zeros.till>>)
         \/ /\ ~e.valid /\ log' = log
            /\ zeros' = [zeros EXCEPT !.start = IF @ = 0 THEN zeros.till ELSE @]
  BY DEF LogEntry, Writing
<1>2. /\ fp /\ Active /\ First \in Nat /\ Past \in Nat /\ Past = First + u32Loop /\ InLog
      /\ Len(out.entries) \in Nat /\ EntriesFrom(First, out.entries)
      /\ First = 0 \/ First * Payload \in ends
      /\ lost \subseteq 1..(next - 1) /\ next \in 0..MaxPackets
      /\ u32Loop \in Nat /\ zeros \in [start : Nat, till : Nat]
  BY <1>1, LogFacts
<1>3. /\ LostInv' /\ PendingMarksInv' /\ BufMarksInv' /\ OutMarksInv' /\ EndsInv'
      /\ Active' /\ First' = First /\ InLog'
  BY <1>1, LogKeeps
<1>n. First \in Nat /\ u32Loop \in Nat /\ Past \in Nat /\ Past = First + u32Loop
  BY <1>2
<1>4. Past' = Past + 1
  <2>1. Past' = First + (u32Loop + 1)
    BY <1>1, <1>3 DEF Past
  <2> QED
    BY <1>n, <2>1
<1>5. /\ u32Loop + 1 \in 1..Len(out.entries) /\ First + ((u32Loop + 1) - 1) = Past
      /\ e.at = Past * Payload /\ (e.valid <=> Past \notin lost)
  <2>1. u32Loop + 1 \in 1..Len(out.entries)
    <3>1. Len(out.entries) \in Nat /\ u32Loop < Len(out.entries)
      BY <1>1, <1>2
    <3> QED
      BY <1>n, <3>1
  <2>2. First + ((u32Loop + 1) - 1) = Past
    BY <1>n
  <2> QED
    BY <1>2, <2>1, <2>2 DEF EntriesFrom
<1>6. PICK n \in 0..Past : CarriedFrom(n)
  BY <1>1, <1>2 DEF LogsInv, CarryInv
<1>7. /\ zeros.till = n * Payload /\ n..(Past - 1) \subseteq lost /\ n - 1 \notin lost
      /\ Past > 0 => n > 0
      /\ zeros.start = 0 \/ zeros.start = n * Payload
      /\ zeros.start = 0 => n = Past \/ (u32Loop = 0 /\ out.entries[1].valid)
      /\ zeros.start # 0 => n < Past \/ (u32Loop = 0 /\ ~out.entries[1].valid)
  BY <1>2, <1>6 DEF CarriedFrom, Carry
<1>8. u32Loop = 0 => out.entries[1] = e
  BY <1>2
<1>9. OnlyRunsInv /\ AllRunsInv
  BY DEF LogsInv
<1>10. n \in Nat /\ n <= Past
  BY <1>n, <1>6
<1> HIDE DEF e
<1>11. /\ LostInv' /\ PendingMarksInv' /\ BufMarksInv' /\ OutMarksInv' /\ EndsInv'
       /\ lost' = lost /\ ends' = ends
  BY <1>1, <1>3
<1>12. CASE ~e.valid
  <2>1. log' = log /\ Past \in lost
    BY <1>1, <1>5, <1>12
  <2>2. Past > 0
    <3>1. Past \in 1..(next - 1)
      BY <1>2, <2>1
    <3> QED
      BY <3>1
  <2>3. n * Payload # 0 /\ n * Payload \in Nat
    BY <1>7, <1>10, <2>2, Sizes
  <2>4. zeros'.start = n * Payload /\ zeros'.till = n * Payload
    <3>1. zeros' = [zeros EXCEPT !.start = IF @ = 0 THEN zeros.till ELSE @]
      BY <1>1, <1>12
    <3> QED
      BY <1>2, <1>7, <3>1
  <2>5. n..(Past' - 1) \subseteq lost' /\ n < Past' /\ Past' > 0 /\ n > 0 /\ n \in 0..Past'
    <3>1. \A q \in n..(Past + 1 - 1) : q \in n..(Past - 1) \/ q = Past
      BY <1>n, <1>10
    <3>2. n < Past + 1 /\ Past + 1 > 0 /\ n > 0 /\ n \in 0..(Past + 1)
      BY <1>n, <1>7, <1>10, <2>2
    <3>3. n..(Past + 1 - 1) \subseteq lost
      BY <1>7, <2>1, <3>1
    <3>4. n..(Past' - 1) = n..(Past + 1 - 1)
      <4>1. Past' - 1 = Past + 1 - 1
        BY <1>n, <1>4
      <4> QED
        BY <4>1
    <3> QED
      BY <1>4, <1>11, <3>2, <3>3, <3>4
  <2>6. CarriedFrom(n)'
    <3>1. Carry' = n * Payload
      BY <1>3, <2>4 DEF Carry
    <3> QED
      BY <1>7, <1>11, <2>3, <2>4, <2>5, <3>1 DEF CarriedFrom
  <2>7. CarryInv'
    BY <2>5, <2>6 DEF CarryInv
  <2>8. OnlyRunsInv' /\ AllRunsInv'
    <3>1. ASSUME NEW a \in 1..MaxPackets, NEW b \in a..MaxPackets, IsRun(a, b), b + 1 = Past
          PROVE  FALSE
      BY <2>1, <3>1 DEF IsRun
    <3> QED
      BY <1>2, <1>3, <1>4, <1>9, <1>11, <2>1, <3>1, LogPasses
  <2> QED
    BY <1>11, <2>7, <2>8 DEF LogsInv
<1>13. CASE e.valid
  <2>1. /\ Past \notin lost /\ zeros'.start = 0 /\ zeros'.till = EndOf(e)
        /\ log' = IF zeros.start = 0 THEN log
                  ELSE Append(log, <<zeros.start, e.at - zeros.till>>)
    BY <1>1, <1>5, <1>13
  <2>2. CarryInv'
    <3> SUFFICES ASSUME stage' = "flushing" /\ InLog' => u32Loop' < Len(out'.entries)
                 PROVE  CarryInv'
      BY DEF CarryInv
    <3>1. e.size = Payload
      <4>1. stage = "flushing" => u32Loop + 1 # Len(out.entries)
        <5>1. stage = "flushing" => u32Loop + 1 < Len(out.entries)
          BY <1>1, <1>3
        <5> QED
          BY <1>n, <1>2, <5>1
      <4>2. e.size = Payload \/ (u32Loop + 1 = Len(out.entries) /\ stage = "flushing")
        BY <1>1, <1>5 DEF LogsInv, OutMarksInv, e
      <4> QED
        BY <4>1, <4>2
    <3>2. EndOf(e) = (Past + 1) * Payload
      <4>1. EndOf(e) = Past * Payload + Payload
        BY <1>5, <3>1 DEF EndOf
      <4>2. \A k \in Nat : (k + 1) * Payload = k * Payload + Payload
        BY Sizes
      <4> QED
        BY <1>n, <4>1, <4>2
    <3>3. (Past + 1)..(Past + 1 - 1) = {} /\ Past + 1 - 1 = Past /\ Past + 1 > 0
            /\ Past + 1 \in 0..(Past + 1)
      BY <1>n
    <3>4. Carry' = (Past + 1) * Payload
      BY <1>3, <2>1, <3>2 DEF Carry
    <3>5. CarriedFrom(Past)'
      <4>1. Past' - 1 = Past /\ Past'..(Past' - 1) = {}
        <5>1. Past' \in Nat /\ Past' = Past + 1
          BY <1>n, <1>4
        <5> QED
          BY <1>n, <5>1
      <4>2. Past'..(Past' - 1) \subseteq lost' /\ Past' - 1 \notin lost' /\ Past' > 0
        BY <1>4, <1>11, <2>1, <3>3, <4>1
      <4>3. Carry' = Past' * Payload
        BY <1>4, <3>4
      <4> QED
        BY <2>1, <4>2, <4>3 DEF CarriedFrom
    <3>6. Past' \in 0..Past'
      BY <1>4, <3>3
    <3> QED
      BY <3>5, <3>6 DEF CarryInv
  <2>3. CASE zeros.start = 0
    <3>1. ASSUME NEW a \in 1..MaxPackets, NEW b \in a..MaxPackets, IsRun(a, b), b + 1 = Past,
                 Past * Payload \notin ends
          PROVE  FALSE
      <4>1. a \in Nat /\ b \in Nat /\ a <= b /\ a >= 1
        BY Sizes
      <4>2. b \in lost /\ b = Past - 1
        <5>1. b \in a..b /\ b = Past - 1
          BY <1>n, <3>1, <4>1
        <5> QED
          BY <3>1, <5>1 DEF IsRun
      <4>3. n # Past
        BY <1>7, <4>2
      <4>4. u32Loop = 0
        BY <1>7, <2>3, <4>3
      <4>5. First = Past /\ Past # 0
        BY <1>n, <3>1, <4>1, <4>4
      <4> QED
        BY <1>2, <3>1, <4>5
    <3>2. log' = log
      BY <2>1, <2>3
    <3>3. OnlyRunsInv' /\ AllRunsInv'
      BY <1>2, <1>3, <1>4, <1>9, <1>11, <3>1, <3>2, LogPasses
    <3> QED
      BY <1>11, <2>2, <3>3 DEF LogsInv
  <2>4. CASE zeros.start # 0
    <3>1. n < Past
      BY <1>7, <1>8, <1>13, <2>4
    <3>2. n \in 1..MaxPackets /\ Past - 1 \in n..MaxPackets /\ (Past - 1) + 1 = Past
      <4>1. Past - 1 \in n..(Past - 1) /\ (Past - 1) + 1 = Past
        BY <1>n, <1>10, <3>1
      <4>2. Past - 1 \in lost
        BY <1>7, <4>1
      <4>3. Past - 1 \in 1..(next - 1) /\ next \in 0..MaxPackets
        BY <1>2, <4>2
      <4>4. Past > 0 /\ MaxPackets \in Nat
        BY <1>n, <1>10, <3>1, Sizes
      <4>5. n > 0
        BY <1>7, <4>4
      <4> QED
        BY <1>n, <1>10, <3>1, <4>1, <4>3, <4>4, <4>5
    <3>3. IsRun(n, Past - 1)
      BY <1>7, <2>1, <3>2 DEF IsRun
    <3>4. log' = Append(log, RunEntry(n, Past - 1))
      <4>1. zeros.start = n * Payload /\ e.at - zeros.till = Past * Payload - n * Payload
        BY <1>5, <1>7, <2>4
      <4>2. Past * Payload - n * Payload = ((Past - 1) + 1 - n) * Payload
        <5>1. (Past - 1) + 1 - n = Past - n
          BY <1>n, <1>10
        <5>2. \A x \in Int, y \in Int : x * Payload - y * Payload = (x - y) * Payload
          BY Sizes
        <5> QED
          BY <1>n, <1>10, <5>1, <5>2
      <4> QED
        BY <2>1, <2>4, <4>1, <4>2 DEF RunEntry
    <3>5. ASSUME NEW a \in 1..MaxPackets, NEW b \in a..MaxPackets, IsRun(a, b), b + 1 = Past
          PROVE  a = n /\ b = Past - 1
      <4>1. a \in Nat /\ b \in Nat /\ a <= b /\ b = Past - 1
        <5>1. a \in Nat /\ b \in Nat /\ a <= b
          BY Sizes
        <5> QED
          BY <1>n, <3>5, <5>1
      <4>2. a..b \subseteq lost /\ a - 1 \notin lost
        BY <3>5 DEF IsRun
      <4>3. ~(n < a)
        <5>1. n < a => a - 1 \in n..(Past - 1)
          BY <1>n, <1>10, <4>1
        <5> QED
          BY <1>7, <4>2, <5>1
      <4>4. ~(a < n)
        <5>1. a < n => n - 1 \in a..b
          BY <1>n, <1>10, <4>1
        <5> QED
          BY <1>7, <4>2, <5>1
      <4> QED
        BY <1>10, <4>1, <4>3, <4>4
    <3>6. OnlyRunsInv' /\ AllRunsInv'
      <4>1. \E a \in 1..MaxPackets : \E b \in a..MaxPackets :
              log' = Append(log, RunEntry(a, b)) /\ IsRun(a, b) /\ b + 1 = Past
        BY <3>2, <3>3, <3>4
      <4>2. \A a \in 1..MaxPackets : \A b \in a..MaxPackets :
              IsRun(a, b) /\ b + 1 = Past /\ Past * Payload \notin ends
                => log' = Append(log, RunEntry(a, b))
        BY <3>4, <3>5
      <4> QED
        BY <1>2, <1>3, <1>4, <1>9, <1>11, <4>1, <4>2, LogPasses
    <3> QED
      BY <1>11, <2>2, <3>6 DEF LogsInv
  <2> QED
    BY <2>3, <2>4
<1> QED
  BY <1>12, <1>13

LEMMA LogsInvWriteLog ==
  ASSUME DataInv, LogsInv, WriteLog
  PROVE  LogsInv'
<1> DEFINE m == Len(out.entries)
<1>1. /\ stage \in {"writing", "flushing"} /\ step = "entry" /\ step' = "" /\ u32Loop = m
      /\ handover' = IF zeros.start # 0 THEN zeros.start ELSE EndOf(Last(out.entries))
      /\ stage' = IF stage = "flushing" THEN "done" ELSE "receiving"
      /\ fp' = (fp /\ stage = "writing") /\ ends' = ends \cup {out.to}
      /\ UNCHANGED <<pending, over, next, buf, out, log, u32Loop, zeros, lost>>
  BY DEF WriteLog, Return, Writing
<1>2. /\ fp /\ Active /\ First = FirstOut /\ First \in Nat /\ Past \in Nat
      /\ Past = First + u32Loop /\ InLog /\ m \in Nat /\ m >= 1
      /\ EntriesFrom(First, out.entries)
  BY <1>1, LogFacts
<1>n. First \in Nat /\ m \in Nat /\ m >= 1 /\ Past \in Nat /\ Past = First + m
  BY <1>1, <1>2
<1>3. LostInv' /\ PendingMarksInv'
  BY <1>1 DEF LogsInv, LostInv, PendingMarksInv
<1>4. BufMarksInv' /\ OutMarksInv'
  <2>1. BufMarksInv'
    BY <1>1 DEF LogsInv, BufMarksInv, EntriesFrom
  <2>2. OutMarksInv'
    BY <1>1 DEF OutMarksInv
  <2> QED
    BY <2>1, <2>2
<1>5. /\ out.to \in Nat /\ out.to <= Past * Payload
      /\ stage = "writing" => out.to = Past * Payload
  <2>1. out.to \in Nat
    BY DEF DataInv, ShapeInv, Buffers
  <2> QED
    BY <1>1, <1>2, <1>n, <2>1 DEF LogsInv, OutMarksInv
<1>6. ~InLog'
  BY <1>1 DEF InLog
<1>7. stage = "writing" => First' = Past /\ Past' = Past
  <2> SUFFICES ASSUME stage = "writing" PROVE First' = Past /\ Past' = Past
    OBVIOUS
  <2>1. First' = Num(out.to)
    <3>1. out.to = buf.from
      BY DEF DataInv, OutInv
    <3> QED
      BY <1>1, <3>1 DEF First
  <2>2. Num(Past * Payload) = Past
    BY <1>n, NumOf
  <2>3. First' = Past
    BY <1>5, <2>1, <2>2
  <2>4. Past' = First' + 0
    BY <1>6 DEF Past
  <2> QED
    BY <1>n, <2>3, <2>4
<1>8. EndsInv'
  <2>1. ends' \subseteq Nat
    BY <1>1, <1>5 DEF LogsInv, EndsInv
  <2>2. CASE stage = "flushing"
    BY <1>1, <2>1, <2>2 DEF EndsInv, Active
  <2>3. CASE stage = "writing"
    <3>1. First' = Past /\ out.to = Past * Payload
      BY <1>5, <1>7, <2>3
    <3>2. ASSUME NEW e \in ends' PROVE e <= Past * Payload
      <4>1. CASE e = out.to
        BY <1>5, <4>1
      <4>2. CASE e \in ends
        <5>1. e \in Nat /\ e <= First * Payload
          BY <1>2, <4>2, LogPlaces
        <5>2. First * Payload <= Past * Payload
          <6>1. First <= Past
            BY <1>n
          <6> QED
            BY <1>n, <6>1, PlaceOrder
        <5>3. First * Payload \in Int /\ Past * Payload \in Int
          BY <1>n, Sizes
        <5> QED
          BY <5>1, <5>2, <5>3
      <4> QED
        BY <1>1, <4>1, <4>2
    <3> QED
      BY <1>1, <2>1, <2>3, <3>1, <3>2 DEF EndsInv
  <2> QED
    BY <1>1, <2>2, <2>3
<1>9. CarryInv'
  <2> SUFFICES ASSUME stage = "writing" PROVE CarryInv'
    BY <1>1 DEF CarryInv
  <2>1. PICK n \in 0..Past : CarriedFrom(n)
    BY <1>2 DEF LogsInv, CarryInv
  <2>2. /\ zeros.till = n * Payload /\ n..(Past - 1) \subseteq lost /\ n - 1 \notin lost
        /\ Past > 0 => n > 0
        /\ zeros.start = 0 \/ zeros.start = n * Payload
        /\ zeros.start = 0 => n = Past \/ u32Loop = 0
    BY <1>2, <2>1 DEF CarriedFrom, Carry
  <2>3. handover' = n * Payload
    <3>1. CASE zeros.start # 0
      BY <1>1, <2>2, <3>1
    <3>2. CASE zeros.start = 0
      <4>1. u32Loop # 0
        <5>1. u32Loop = m
          BY <1>1
        <5>2. m # 0
          BY <1>n
        <5> QED
          BY <5>1, <5>2
      <4>2. n = Past
        BY <2>2, <3>2, <4>1
      <4>3. m \in 1..m /\ First + (m - 1) = Past - 1
        BY <1>n
      <4>4. out.entries[m].at = (Past - 1) * Payload
        BY <1>2, <4>3 DEF EntriesFrom
      <4>5. out.entries[m].size = Payload
        BY <4>3 DEF LogsInv, OutMarksInv
      <4>6. EndOf(Last(out.entries)) = (Past - 1) * Payload + Payload
        BY <4>4, <4>5 DEF EndOf, Last
      <4>7. (Past - 1) * Payload + Payload = Past * Payload
        <5>1. \A k \in Int : (k - 1) * Payload + Payload = k * Payload
          BY Sizes
        <5> QED
          BY <1>n, <5>1
      <4> QED
        BY <1>1, <3>2, <4>2, <4>6, <4>7
    <3> QED
      BY <3>1, <3>2
  <2>4. CarriedFrom(n)'
    <3>1. Carry' = n * Payload
      BY <1>6, <2>3 DEF Carry
    <3> QED
      BY <1>1, <1>6, <1>7, <2>2, <3>1 DEF CarriedFrom
  <2> QED
    BY <1>7, <2>1, <2>4 DEF CarryInv
<1>10. OnlyRunsInv'
  <2>1. Active' => Past' = Past
    BY <1>1, <1>7 DEF Active
  <2> QED
    BY <1>1, <1>2, <2>1 DEF LogsInv, OnlyRunsInv, RunEntry, IsRun
<1>11. AllRunsInv'
  <2>1. ASSUME NEW p \in Nat, Due(p)' PROVE Due(p)
    <3>1. CASE fp' /\ Active' /\ p < Past'
      <4>1. Past' = Past
        BY <1>1, <1>7, <3>1
      <4> QED
        BY <1>2, <3>1, <4>1 DEF Due
    <3>2. ASSUME NEW e \in ends', p * Payload < e PROVE Due(p)
      <4>1. CASE e \in ends
        BY <3>2, <4>1 DEF Due
      <4>2. CASE e = out.to
        <5>1. p * Payload < Past * Payload
          <6>1. p * Payload \in Int /\ Past * Payload \in Int
            BY <1>n, Sizes
          <6> QED
            BY <1>5, <3>2, <4>2, <6>1
        <5>2. p < Past
          BY <1>n, <5>1, PlaceOrder
        <5> QED
          BY <1>2, <5>2 DEF Due
      <4> QED
        BY <1>1, <3>2, <4>1, <4>2
    <3> QED
      BY <2>1, <3>1, <3>2 DEF Due
  <2>2. ASSUME NEW a \in 1..MaxPackets, NEW b \in a..MaxPackets,
               IsRun(a, b)', Due(b + 1)', (b + 1) * Payload \notin ends'
        PROVE  \E i \in 1..Len(log') : log'[i] = RunEntry(a, b)
    <3>1. b + 1 \in Nat
      BY Sizes
    <3>2. Due(b + 1)
      BY <2>1, <2>2, <3>1
    <3>3. IsRun(a, b) /\ (b + 1) * Payload \notin ends
      BY <1>1, <2>2 DEF IsRun
    <3> QED
      BY <1>1, <3>2, <3>3 DEF LogsInv, AllRunsInv
  <2> QED
    BY <2>2 DEF AllRunsInv, RunEntry
<1> QED
  BY <1>3, <1>4, <1>8, <1>9, <1>10, <1>11 DEF LogsInv

-----------------------------------------------------------------------------
(* The log is exact.                                                         *)

LEMMA LogsInductive == Spec => []LogsInv
<1>1. Init => LogsInv
  BY LogsInvInit
<1>2. RecordingInv /\ LogsInv /\ [Next]_vars => LogsInv'
  <2> SUFFICES ASSUME RecordingInv, LogsInv, [Next]_vars PROVE LogsInv'
    OBVIOUS
  <2>1. ParamsInv /\ DataInv
    BY DEF RecordingInv
  <2>2. CASE UNCHANGED recording
    BY <2>2, LogsInvSame
  <2>3. CASE FirstPacket
    BY <2>1, <2>3, LogsInvFirstPacket
  <2>4. ASSUME NEW gap \in 0..MaxGap, NEW size \in {Payload} \cup ShortSizes, Receive(gap, size)
        PROVE  LogsInv'
    BY <2>1, <2>4, LogsInvReceive
  <2>5. ASSUME NEW p \in 0..(MaxPackets - 1), ReceiveLate(p) PROVE LogsInv'
    BY <2>1, <2>5, LogsInvReceiveLate
  <2>6. CASE Switch
    BY <2>1, <2>6, LogsInvSwitch
  <2>7. CASE Store
    BY <2>1, <2>7, LogsInvStore
  <2>8. CASE Flush
    BY <2>1, <2>8, LogsInvFlush
  <2>9. CASE Reorder \/ WriteFits \/ Rotate \/ Crash
    BY <2>1, <2>9, LogsInvWriter
  <2>10. CASE BeginLog
    BY <2>1, <2>10, LogsInvBeginLog
  <2>11. CASE LogEntry
    BY <2>1, <2>11, LogsInvLogEntry
  <2>12. CASE WriteLog
    BY <2>1, <2>12, LogsInvWriteLog
  <2>13. CASE UNCHANGED vars
    <3>1. UNCHANGED recording
      BY <2>13 DEF vars
    <3> QED
      BY <3>1, LogsInvSame
  <2> QED
    BY <2>2, <2>3, <2>4, <2>5, <2>6, <2>7, <2>8, <2>9, <2>10, <2>11, <2>12, <2>13
       DEF Next, DataNext
<1> QED
  BY <1>1, <1>2, RecordingInductive, PTL DEF Spec

\* An entry of the log names the packets of its run.
LEMMA EntryOfRun ==
  ASSUME NEW a \in Nat, NEW b \in Nat, a <= b
  PROVE  LET r == RunEntry(a, b)
         IN /\ r[2] > 0 /\ r[1] % Payload = 0 /\ r[2] % Payload = 0
            /\ (r[1] \div Payload)..((r[1] + r[2]) \div Payload - 1) = a..b
<1> DEFINE r == RunEntry(a, b)
<1>1. r[1] = a * Payload /\ r[2] = (b + 1 - a) * Payload /\ Payload \in Nat \ {0}
  BY Sizes DEF RunEntry
<1>2. b + 1 - a \in Nat /\ b + 1 - a > 0 /\ b + 1 \in Nat
  OBVIOUS
<1>3. r[2] > 0
  BY <1>1, <1>2
<1>4. r[1] % Payload = 0 /\ r[2] % Payload = 0
  BY <1>1, <1>2, Multiple
<1>5. r[1] + r[2] = (b + 1) * Payload
  <2>1. \A x \in Int, y \in Int : x * Payload + (y - x) * Payload = y * Payload
    BY <1>1
  <2> QED
    BY <1>1, <1>2, <2>1
<1>6. r[1] \div Payload = a /\ (r[1] + r[2]) \div Payload = b + 1
  BY <1>1, <1>2, <1>5, NumOf DEF Num
<1>7. b + 1 - 1 = b
  OBVIOUS
<1> HIDE DEF r
<1>8. (r[1] \div Payload)..((r[1] + r[2]) \div Payload - 1) = a..b
  BY <1>6, <1>7
<1> QED
  BY <1>3, <1>4, <1>8 DEF r

\* Every entry of the log is a maximal run of lost packets, and every run that ended before
\* the last buffer written out ended is in the log, unless it ended exactly there: for every
\* size of packets, buffers and files, every loss and every packet that came late.
THEOREM LogFollowsLoss == Spec => []LogIsExact
<1>1. LogsInv => LogIsExact
  <2> SUFFICES ASSUME LogsInv PROVE LogIsExact
    OBVIOUS
  <2> DEFINE Packets(r) == (r[1] \div Payload)..((r[1] + r[2]) \div Payload - 1)
             Maximal(S) == \A p \in S : \A q \in {p - 1, p + 1} : q \in lost => q \in S
  <2>1. log \in Seq(Nat \X Nat) /\ DOMAIN log = 1..Len(log)
    BY DEF LogsInv, OnlyRunsInv
  <2>2. ASSUME NEW i \in DOMAIN log
        PROVE  /\ log[i][2] > 0 /\ log[i][1] % Payload = 0 /\ log[i][2] % Payload = 0
               /\ Packets(log[i]) \subseteq lost /\ Maximal(Packets(log[i]))
    <3>1. PICK a \in 1..MaxPackets : \E b \in a..MaxPackets :
            log[i] = RunEntry(a, b) /\ IsRun(a, b)
      BY <2>1 DEF LogsInv, OnlyRunsInv
    <3>2. PICK b \in a..MaxPackets : log[i] = RunEntry(a, b) /\ IsRun(a, b)
      BY <3>1
    <3>3. a \in Nat /\ b \in Nat /\ a <= b
      BY Sizes
    <3>4. /\ log[i][2] > 0 /\ log[i][1] % Payload = 0 /\ log[i][2] % Payload = 0
          /\ Packets(log[i]) = a..b
      BY <3>2, <3>3, EntryOfRun
    <3>5. a..b \subseteq lost /\ a - 1 \notin lost /\ b + 1 \notin lost
      BY <3>2 DEF IsRun
    <3>6. ASSUME NEW p \in a..b, NEW q \in {p - 1, p + 1}, q \in lost PROVE q \in a..b
      <4>1. q \in a..b \/ q = a - 1 \/ q = b + 1
        BY <3>3
      <4> QED
        BY <3>5, <3>6, <4>1
    <3> HIDE DEF Packets
    <3> QED
      BY <3>4, <3>5, <3>6
  <2>3. ASSUME NEW a \in 1..MaxPackets, NEW b \in a..MaxPackets,
               a..b \subseteq lost, a - 1 \notin lost, b + 1 \notin lost,
               \E e \in ends : (b + 1) * Payload < e, (b + 1) * Payload \notin ends
        PROVE  \E i \in DOMAIN log : Packets(log[i]) = a..b
    <3>1. a \in Nat /\ b \in Nat /\ a <= b
      BY Sizes
    <3>2. IsRun(a, b) /\ Due(b + 1)
      BY <2>3 DEF IsRun, Due
    <3>3. PICK i \in 1..Len(log) : log[i] = RunEntry(a, b)
      BY <2>3, <3>2 DEF LogsInv, AllRunsInv
    <3>4. Packets(log[i]) = a..b
      BY <3>1, <3>3, EntryOfRun
    <3> QED
      BY <2>1, <3>4
  <2> QED
    BY <2>2, <2>3 DEF LogIsExact
<1> QED
  BY <1>1, LogsInductive, PTL
=============================================================================
