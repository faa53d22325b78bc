------------------------------ MODULE DataFile ------------------------------
(* The files a recording leaves: the buffers of cUdpDataReceiver as they are *)
(* written out (reordering, splitting into files, log of the missing data),  *)
(* for a recording started with the values of StartParameters. InlineRecorder *)
(* has the two threads and their handoff; here a buffer is written out before *)
(* the next slot is stored, which changes neither buffer nor log. Positions   *)
(* and sizes are bytes of the stream. The FPGA cuts the stream into full      *)
(* payloads and only the last packet may be short.                            *)
EXTENDS StartParameters, SequencesExt

CONSTANTS Payload,     \* PAYLOAD_BYTES_PER_PACKET
          BufSize,     \* INLINE_BUF_SIZE
          Megabyte,    \* the unit of maxRecFileSize_MB
          ShortSizes,  \* sizes of a short last packet
          MaxPackets,  \* bound on the packets of the stream
          MaxGap,      \* bound on packets lost in a row
          FileErrors   \* fopen may fail

ASSUME SizeAssumption ==
  /\ Payload \in Nat /\ Payload > 0 /\ Payload % 16 = 0
  /\ BufSize \in Nat /\ BufSize >= Payload /\ Megabyte \in Nat /\ Megabyte >= Payload
  /\ MaxPackets \in Nat \ {0} /\ MaxGap \in Nat /\ FileErrors \in BOOLEAN
  /\ \A s \in ShortSizes : s \in 1..(Payload - 1)

VARIABLES stage,     \* "off", "receiving", "writing", "flushing", "done", "crashed"
          pending,   \* slots of the packet in hand that are not stored yet
          over,      \* "" or why no more data is taken: "goal", "short"
          next,      \* u32NextPktNum
          buf,       \* the buffer in use: bytes from..to and its log entries
          out,       \* what remains of the buffer being written out
          step,      \* where its writer is: "reorder", "write", "log", "entry"
          disk,      \* the files: each a sequence of ranges of the stream
          fp,        \* pRecordDataFile is open
          count,     \* u32DataCount
          log,       \* the ranges WriteOffsetLog has written
          u32Loop,   \* entries of its log that were gone through
          zeros,     \* u64StartZeroFillOffset, u64TotalBytesTillDroppedPkt
          handover,  \* u64ZeroFilledStartHandoverOffset
          lost,      \* packets that are zero-filled
          ends,      \* where the buffers written out ended
          errors     \* callbacks: "reorder", "file"

logging == <<log, u32Loop, zeros, handover>>
recording == <<stage, pending, over, next, buf, out, step, disk, fp, count,
               logging, lost, ends, errors>>
vars == <<params, recording>>

Stop  == used.conf.stop
Goal  == used.conf.limit
Block == used.lanes * 4
MaxFile == used.conf.fileMax * Megabyte    \* u32MaxFileSizeToCapture

Slot(at, size, valid) == [at |-> at, size |-> size, valid |-> valid]
EmptyBuf(at) == [from |-> at, to |-> at, entries |-> <<>>]
Stored(b) == b.to - b.from

\* Ranges that follow each other are one
Append1(ranges, from, to) ==
  IF ranges # <<>> /\ Last(ranges)[2] = from
    THEN [ranges EXCEPT ![Len(ranges)] = <<@[1], to>>]
    ELSE Append(ranges, <<from, to>>)
OnDisk == UNION {UNION {f[j][1]..(f[j][2] - 1) : j \in DOMAIN f} : f \in Range(disk)}

DataInit ==
  /\ stage = "off" /\ pending = <<>> /\ over = "" /\ next = 0
  /\ buf = EmptyBuf(0) /\ out = EmptyBuf(0) /\ step = ""
  /\ disk = <<>> /\ fp = FALSE /\ count = 0 /\ log = <<>> /\ handover = 0
  /\ u32Loop = 0 /\ zeros = [start |-> 0, till |-> 0]
  /\ lost = {} /\ ends = {} /\ errors = {}

-----------------------------------------------------------------------------
(* Receiving                                                                 *)

\* The first packet names and opens the first file (setFileName); readData
\* goes on when that fails
FirstPacket ==
  /\ phase = "recording" /\ stage = "off"
  /\ \/ disk' = <<<<>>>> /\ fp' = TRUE /\ UNCHANGED errors
     \/ FileErrors /\ errors' = errors \cup {"file"} /\ UNCHANGED <<disk, fp>>
  /\ stage' = "receiving" /\ next' = 1
  /\ pending' = <<Slot(0, Payload, TRUE)>>
  /\ UNCHANGED <<params, over, buf, out, step, count, logging, lost, ends>>

Listening == stage = "receiving" /\ pending = <<>> /\ over # "goal"

\* A packet after gap lost ones: zeros are stored for each of those first
Receive(gap, size) ==
  /\ Listening /\ over = "" /\ next + gap < MaxPackets
  /\ pending' = [i \in 1..(gap + 1) |->
                   Slot((next + i - 1) * Payload,
                        IF i > gap THEN size ELSE Payload, i > gap)]
  /\ lost' = lost \cup next..(next + gap - 1)
  /\ next' = next + gap + 1
  \* a short packet is the last one of the stream
  /\ over' = IF size = Payload THEN "" ELSE "short"
  /\ UNCHANGED <<params, stage, buf, out, step, disk, fp, count, logging,
                 ends, errors>>

\* A late packet fills its place while that is in the buffer in use
ReceiveLate(p) ==
  /\ Listening /\ p \in lost
  /\ buf.from <= p * Payload
  /\ buf' = [buf EXCEPT !.entries[Len(buf.entries) - (next - p) + 1] =
                          Slot(p * Payload, Payload, TRUE)]
  /\ lost' = lost \ {p}
  /\ UNCHANGED <<params, stage, pending, over, next, out, step, disk, fp, count,
                 logging, ends, errors>>

\* The part of slot s that the byte goal leaves
Cut(s) == IF Stop = "bytes" /\ s.at + s.size >= Goal THEN Goal - s.at ELSE s.size
MustSwitch_WhenFull(s) == Stored(buf) >= BufSize
MustSwitch(s) == Stored(buf) + Cut(s) > BufSize

\* writeDataToBuffer_Inline: the buffer in use is written out when it is full;
\* the log entry of a packet has its whole size
Switch ==
  /\ stage = "receiving" /\ pending # <<>> /\ MustSwitch(Head(pending))
  /\ stage' = "writing" /\ step' = "reorder"
  /\ out' = buf /\ buf' = EmptyBuf(buf.to)
  /\ UNCHANGED <<params, pending, over, next, disk, fp, count, logging,
                 lost, ends, errors>>

Store ==
  /\ stage = "receiving" /\ pending # <<>> /\ ~MustSwitch(Head(pending))
  /\ LET s == Head(pending)
         atGoal == Stop = "bytes" /\ s.at + s.size >= Goal
     IN /\ buf' = [buf EXCEPT !.to = @ + Cut(s), !.entries = Append(@, s)]
        /\ pending' = IF atGoal THEN <<>> ELSE Tail(pending)
        /\ over' = IF atGoal THEN "goal" ELSE over
  /\ UNCHANGED <<params, stage, next, out, step, disk, fp, count, logging,
                 lost, ends, errors>>

\* setThreadStop between two packets writes out what is left
Flush ==
  /\ stage = "receiving" /\ pending = <<>>
  /\ IF Stored(buf) > 0
       THEN /\ stage' = "flushing" /\ step' = "reorder"
            /\ out' = buf /\ buf' = EmptyBuf(buf.to)
       ELSE stage' = "done" /\ UNCHANGED <<out, buf, step>>
  /\ UNCHANGED <<params, pending, over, next, disk, fp, count, logging,
                 lost, ends, errors>>

-----------------------------------------------------------------------------
(* writeDataToFile_Inline                                                    *)

Writing(s) == stage \in {"writing", "flushing"} /\ step = s

\* setThreadStop closes the file after the last buffer
Return(open) ==
  /\ stage' = IF stage = "flushing" THEN "done" ELSE "receiving"
  /\ fp' = (open /\ stage = "writing")
  /\ step' = ""

\* ReorderAlgorithm works in blocks of two words per lane, which hold the I
\* word of every lane before the Q word of every lane: word i (from 0) goes to
\* place Place(i), and its top bit is toggled on request
Place(i, lanes) == (i % lanes) * 2 + i \div lanes
ReorderedBlock(block, lanes, toggle) ==
  [k \in 1..(2 * lanes) |->
     LET i == CHOOSE j \in 0..(2 * lanes - 1) : Place(j, lanes) = k - 1
     IN IF toggle THEN (block[i + 1] + 32768) % 65536 ELSE block[i + 1]]

\* Afterwards the I and Q words of each lane are neighbours, in lane order
ASSUME ReorderAssumption ==
  \A lanes \in {2, 4} :
    LET block == [i \in 1..(2 * lanes) |-> i]
    IN ReorderedBlock(block, lanes, FALSE)
         = FlattenSeq([l \in 1..lanes |-> <<l, lanes + l>>])

\* A buffer that is not made of whole blocks is not written at all
Reorder ==
  /\ Writing("reorder")
  /\ IF used.conf.reorder /\ Stored(out) % Block # 0
       THEN Return(fp) /\ errors' = errors \cup {"reorder"}
       ELSE step' = "write" /\ UNCHANGED <<stage, fp, errors>>
  /\ UNCHANGED <<params, pending, over, next, buf, out, disk, count, logging,
                 lost, ends>>

Appended(n) ==
  [disk EXCEPT ![Len(disk)] = Append1(@, out.from, out.from + n)]

\* What is left of the buffer fits into the current file
WriteFits ==
  /\ Writing("write") /\ fp /\ count + Stored(out) <= MaxFile
  /\ disk' = Appended(Stored(out)) /\ count' = count + Stored(out)
  /\ out' = [out EXCEPT !.from = out.to] /\ step' = "log"
  /\ UNCHANGED <<params, stage, pending, over, next, buf, fp, logging, lost,
                 ends, errors>>

\* It does not: as many whole payloads as fit, and the rest goes to a new file
Chunk_Whole == MaxFile - count
Chunk == ((MaxFile - count) \div Payload) * Payload

Rotate ==
  /\ Writing("write") /\ fp /\ count + Stored(out) > MaxFile
  /\ out' = [out EXCEPT !.from = @ + Chunk]
  /\ LET written == IF Chunk > 0 THEN Appended(Chunk) ELSE disk
     IN \/ /\ disk' = Append(written, <<>>) /\ count' = 0
           /\ UNCHANGED <<stage, fp, step, errors>>
        \/ /\ FileErrors /\ disk' = written
           /\ count' = IF Chunk > 0 THEN Chunk ELSE count
           /\ errors' = errors \cup {"file"} /\ Return(FALSE)
  /\ UNCHANGED <<params, pending, over, next, buf, logging, lost, ends>>

\* Writing to or closing a file that could not be opened ends the process
Crash ==
  /\ Writing("write") /\ ~fp
  /\ stage' = "crashed"
  /\ UNCHANGED <<params, pending, over, next, buf, out, step, disk, fp, count,
                 logging, lost, ends, errors>>

\* writeLogToFile_Inline goes through the entries of the buffer: zeros.start is
\* where zeros began (0 for none), zeros.till where the last valid packet ended.
\* The gap handed over is forgotten when the buffer starts with a valid packet
Begin_NoReset(entries) == [start |-> handover, till |-> handover]
Begin(entries) ==
  [start |-> IF entries[1].valid THEN 0 ELSE handover, till |-> handover]

EndOf(e) == e.at + e.size

BeginLog ==
  /\ Writing("log")
  /\ zeros' = Begin(out.entries) /\ u32Loop' = 0 /\ step' = "entry"
  /\ UNCHANGED <<params, stage, pending, over, next, buf, out, disk, fp, count, log,
                 handover, lost, ends, errors>>

LogEntry ==
  /\ Writing("entry") /\ u32Loop < Len(out.entries)
  /\ LET e == out.entries[u32Loop + 1]
     IN \/ /\ e.valid
           /\ zeros' = [start |-> 0, till |-> EndOf(e)]
           /\ log' = IF zeros.start = 0 THEN log
                     ELSE Append(log, <<zeros.start, e.at - zeros.till>>)
        \/ /\ ~e.valid
           /\ zeros' = [zeros EXCEPT !.start = IF @ = 0 THEN zeros.till ELSE @]
           /\ UNCHANGED log
  /\ u32Loop' = u32Loop + 1
  /\ UNCHANGED <<params, stage, pending, over, next, buf, out, step, disk, fp, count,
                 handover, lost, ends, errors>>

\* (without a zero-filled packet the entries write nothing and start stays 0)
WriteLog ==
  /\ Writing("entry") /\ u32Loop = Len(out.entries)
  /\ handover' = IF zeros.start # 0 THEN zeros.start ELSE EndOf(Last(out.entries))
  /\ ends' = ends \cup {out.to}
  /\ Return(fp)
  /\ UNCHANGED <<params, pending, over, next, buf, out, disk, count, log, u32Loop, zeros,
                 lost, errors>>

-----------------------------------------------------------------------------
Init == ParamsInit /\ DataInit

DataNext ==
  \/ FirstPacket
  \/ \E gap \in 0..MaxGap, size \in {Payload} \cup ShortSizes : Receive(gap, size)
  \/ \E p \in 0..(MaxPackets - 1) : ReceiveLate(p)
  \/ Switch \/ Store \/ Flush
  \/ Reorder \/ WriteFits \/ Rotate \/ Crash \/ BeginLog \/ LogEntry \/ WriteLog

Next == (ParamsNext /\ UNCHANGED recording) \/ DataNext

Spec == Init /\ [][Next]_vars

-----------------------------------------------------------------------------
(* Properties                                                                *)

TypeOK ==
  /\ edits \in 0..MaxEdits
  /\ phase \in {"idle", "sent", "launched", "read", "recording", "refused"}
  /\ stage \in {"off", "receiving", "writing", "flushing", "done", "crashed"}
  /\ step \in {"", "reorder", "write", "log", "entry"}
  /\ over \in {"", "goal", "short"} /\ next \in 0..MaxPackets
  /\ Stored(buf) \in 0..BufSize /\ Stored(out) \in 0..BufSize
  /\ fp \in BOOLEAN /\ count \in Nat /\ handover \in Nat
  /\ u32Loop \in Nat /\ zeros \in [start : Nat, till : Nat]
  /\ step = "entry" => u32Loop <= Len(out.entries)
  /\ lost \subseteq 0..(MaxPackets - 1) /\ errors \subseteq {"reorder", "file"}
  /\ phase = "recording" => count \in 0..MaxFile

\* The numbers of the settings file survive three validations and two
\* conversions (validate_params.cpp, ValidateJsonFileData, StartRecordData):
\* the EEPROM gets the octets and ports of the file unless an octet has
\* hexadecimal digits, the card waits as long between packets as the file says
\* (in ticks of 8 ns, ConfigureRFDCCard_Record), a recording starts with the limit of the file unless
\* that is a duration beyond 32 bits, and a recording that ends at its byte
\* goal leaves exactly the bytes of the file on disk, reordered or not
AskedIsUsed ==
  /\ phase = "sent" /\ sent.cmd = "eeprom" =>
       /\ \A i \in 1..6 : file.mac[i].form = "int" => sent.v.mac[i] = file.mac[i].n
       /\ \A i \in 1..4 : sent.v.ips[i] = <<file.sysIp[i].n, file.newIp[i].n>>
       /\ sent.v.ports = <<file.newConfigPort.n, file.newDataPort.n>>
  /\ phase = "sent" /\ sent.cmd = "record" => sent.v * 8 = file.delay.n * 1000
  /\ phase = "recording" =>
       used.conf.limit = Asked(file).n \/ (Stop = "duration" /\ Asked(file).n >= Wrap)
  /\ (stage = "done" /\ over = "goal" /\ "file" \notin errors)
       => OnDisk = 0..(Asked(file).n - 1)

\* The files, one after the other, are the stream from its first byte without
\* a hole, none is longer than asked, and all but the last end between two
\* payloads ("to avoid i,q conflicts in multiple files", recorddatarecv.cpp
\* writeDataToFile_Inline), also when a buffer is dropped by a reordering error
\* or a file cannot be opened
FilesAreStream ==
  /\ \A i \in DOMAIN disk :
       /\ Len(disk[i]) <= 1
       /\ disk[i] # <<>> => disk[i][1][2] - disk[i][1][1] <= MaxFile
       /\ i < Len(disk) => disk[i] # <<>> /\ disk[i][1][2] % Payload = 0
  /\ \A i \in 2..Len(disk) : disk[i] # <<>> => disk[i][1][1] = disk[i - 1][1][2]
  /\ disk # <<>> /\ disk[1] # <<>> => disk[1][1][1] = 0

\* The log (writeLogToFile_Inline) lists maximal runs of zero-filled packets
\* and nothing else, and up to the last buffer written it misses none that
\* does not end exactly where a buffer ends
LogIsExact ==
  LET Whole(r) == r[2] > 0 /\ r[1] % Payload = 0 /\ r[2] % Payload = 0
      Packets(r) == (r[1] \div Payload)..((r[1] + r[2]) \div Payload - 1)
      Maximal(S) == \A p \in S : \A q \in {p - 1, p + 1} : q \in lost => q \in S
      Run(a, b) == a..b \subseteq lost /\ a - 1 \notin lost /\ b + 1 \notin lost
      Logged(p) == \E e \in ends : p * Payload < e
  IN /\ \A i \in DOMAIN log :
          Whole(log[i]) /\ Packets(log[i]) \subseteq lost
            /\ Maximal(Packets(log[i]))
     /\ \A a \in 1..MaxPackets : \A b \in a..MaxPackets :
          (Run(a, b) /\ Logged(b + 1) /\ (b + 1) * Payload \notin ends)
            => \E i \in DOMAIN log : Packets(log[i]) = a..b
=============================================================================
