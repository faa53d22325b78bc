--------------------------- MODULE StartParameters ---------------------------
(* The settings file cf.json, from the text a user or radar_recorder.py      *)
(* writes into it to the values the card is given and a recording works with. *)
(* CLI_Control reads and validates the file for its command, CLI_Record reads *)
(* and validates it again, and StartRecordData of RF_API validates the values *)
(* once more. A number is the text the JSON library hands on: digits only     *)
(* (Number), or digits with a decimal point (Real), which is how Python writes a *)
(* float. Its value has no bound; the variable it is converted to wraps at    *)
(* Wrap (2^32 in the code, smaller here; MaxLen stands for its ten digits).   *)
EXTENDS Naturals, Sequences

CONSTANTS Wrap,      \* the first value that does not fit a UINT32
          MaxEdits   \* bound on the changes made to the settings file

ASSUME WrapAssumption == Wrap \in Nat /\ Wrap > 65535 /\ MaxEdits \in Nat

VARIABLES file,     \* the settings file
          edits,    \* how often it was changed
          phase,    \* what the command under way has come to
          sent,     \* the values CLI_Control has for its command
          conf,     \* gsStartRecConfigMode of CLI_Record
          used       \* sRFDCCard_StartRecConfig and what is derived from it

params == <<file, edits, phase, sent, conf, used>>

Number(n)  == [form |-> "int", n |-> n]
Real(n) == [form |-> "real", n |-> n]
Absent  == [form |-> "absent", n |-> 0]

-----------------------------------------------------------------------------
(* The validators                                                            *)

\* How many decimal digits n has
Width(n) == CHOOSE d \in 1..9 : n < 10^d /\ (d = 1 \/ n >= 10^(d-1))
MaxLen == Width(Wrap - 1)

Digits(t, lengths) == t.form = "int" /\ Width(t.n) \in lengths
Atoi(t) == t.n % Wrap

MinBytes    == 128
MinDuration == 40

\* Four numbers of at most three digits and not all zero
validateIpAddress(a) ==
  /\ Len(a) = 4
  /\ \A i \in 1..4 : Digits(a[i], 1..3) /\ a[i].n <= 255
  /\ \E i \in 1..4 : a[i].n # 0

\* Six octets of at most two hexadecimal digits
validateMacAddress(a) ==
  /\ Len(a) = 6
  /\ \A i \in 1..6 : Digits(a[i], 1..2) \/ (a[i].form = "hex" /\ a[i].n < 256)

validatePortNumber(n) == n \in 1..65535
validatePortNum(t) == Digits(t, 1..MaxLen) /\ validatePortNumber(t.n)

\* The five data ports start at the record port
validatePortNumsForConflicts(record, config) ==
  \A i \in 0..4 : record + i # config

validatePacketDelay(t) == Digits(t, 1..3) /\ t.n \in 5..500

\* A block of samples is 16 bytes on four lanes and 8 bytes on two
validateBytesStopConfig_Loose(n, lvds) ==
  n \in MinBytes..(Wrap - 1) /\ n % 8 = 0
validateBytesStopConfig(n, lvds) ==
  /\ n \in MinBytes..(Wrap - 1)
  /\ lvds = "1" => n % 16 = 0
  /\ lvds = "2" => n % 8 = 0
validateBytesRecStopConfig(t, lvds) ==
  Digits(t, 3..MaxLen) /\ validateBytesStopConfig(t.n, lvds)

validateFramesStopConfig(n) == n \in 1..65535
validateFramesRecStopConfig(t) == Digits(t, 1..5) /\ validateFramesStopConfig(t.n)

\* The upper bound is compared after a cast to 32 bits and never fails
validateDurationStopConfig(n) == n >= MinDuration /\ n % Wrap <= Wrap - 1
validateDurationRecStopConfig(t) ==
  Digits(t, 2..MaxLen) /\ validateDurationStopConfig(t.n)

validateFileMaxSize(n) == n \in 1..1024
validateRecFileMaxsize(t) == Digits(t, 1..4) /\ validateFileMaxSize(t.n)

-----------------------------------------------------------------------------
(* What a file holds, and what the tools take from it                        *)

\* The fields with a fixed set of words ("" is a node that is missing)
Words == [logMode |-> {"raw", "multi"}, xfer |-> {"LVDSCapture", "playback"},
          capture |-> {"SDCardStorage", "ethernetStream"},
          lvds |-> {"1", "2"}, format |-> {"1", "2", "3"}, seq |-> {"0", "1"},
          toggle |-> {"", "0", "1"}, reorder |-> {"", "0", "1"}]
WordOk(f, field) == f[field] \in Words[field]

Ip(a, b, c, d) == <<Number(a), Number(b), Number(c), Number(d)>>
Mac(t) == <<Number(12), Number(90), Number(78), Number(56), Number(34), t>>

\* The file that comes with the tools, with a byte goal
Default ==
  [syntax |-> "ok", dcaIp |-> Ip(192, 168, 33, 180), configPort |-> Number(4096),
   dataPort |-> Number(4098), logMode |-> "raw", xfer |-> "LVDSCapture",
   capture |-> "ethernetStream", lvds |-> "1", format |-> "3",
   sysIp |-> Ip(192, 168, 33, 30), newIp |-> Ip(192, 168, 33, 181),
   mac |-> Mac(Number(12)), newConfigPort |-> Number(4096),
   newDataPort |-> Number(4098), delay |-> Number(25), dir |-> "exists",
   prefix |-> "adc_data", fileMax |-> Number(1), seq |-> "1",
   stopMode |-> "bytes", bytes |-> Number(160), duration |-> Number(MinDuration),
   frames |-> Number(2), toggle |-> "0", reorder |-> "1"]

\* What an edit may put into each field
Values ==
  [syntax |-> {"missing", "broken", "ok"},
   dcaIp |-> {Ip(0, 0, 0, 0), <<Number(192), Number(168)>>},
   configPort |-> {Number(0), Number(4099), Absent}, dataPort |-> {Number(65536), Number(4097)},
   logMode |-> {"multi", "both", ""}, xfer |-> {"playback", ""},
   capture |-> {"SDCardStorage", ""}, lvds |-> {"1", "2", "4"},
   format |-> {"1", "4"}, sysIp |-> {Ip(10, 0, 0, 256), Ip(10, 0, 0, 1)},
   newIp |-> {Ip(0, 0, 0, 0), Ip(10, 0, 0, 2)},
   mac |-> {Mac([form |-> "hex", n |-> 171]), <<Number(1)>>},
   newConfigPort |-> {Number(4100), Number(5000)}, newDataPort |-> {Number(0), Number(4092), Number(5001)},
   delay |-> {Number(4), Number(5), Number(500), Number(501)}, dir |-> {"gone"}, prefix |-> {""},
   fileMax |-> {Number(0), Number(2), Number(1025)}, seq |-> {"0", "2"},
   stopMode |-> {"duration", "frames", "infinite", "never"},
   bytes |-> {Number(MinBytes), Number(136), Number(120), Number(MinBytes + Wrap), Real(160)},
   duration |-> {Number(39), Number(Wrap + 7), Number(Wrap + 50), Real(MinDuration)},
   frames |-> {Number(0), Number(65536)}, toggle |-> {"", "1", "2"},
   reorder |-> {"", "0", "2"}]

\* The nodes every command needs
CommonOk(f) ==
  /\ f.syntax = "ok"
  /\ validateIpAddress(f.dcaIp)
  /\ validatePortNum(f.configPort) /\ validatePortNum(f.dataPort)
  /\ validatePortNumsForConflicts(f.dataPort.n, f.configPort.n)

FpgaOk(f) ==
  \A field \in {"logMode", "xfer", "capture", "lvds", "format"} : WordOk(f, field)

EepromOk(f) ==
  /\ validateIpAddress(f.sysIp) /\ validateIpAddress(f.newIp)
  /\ validateMacAddress(f.mac)
  /\ validatePortNum(f.newConfigPort) /\ validatePortNum(f.newDataPort)
  /\ validatePortNumsForConflicts(f.newDataPort.n, f.newConfigPort.n)

\* Only the node of the stop mode in force is read; frames need headers
StopOk(f) ==
  \/ f.stopMode = "bytes" /\ validateBytesRecStopConfig(f.bytes, f.lvds)
  \/ f.stopMode = "duration" /\ validateDurationRecStopConfig(f.duration)
  \/ /\ f.stopMode = "frames" /\ f.logMode = "multi"
     /\ validateFramesRecStopConfig(f.frames)
  \/ f.stopMode = "infinite"

StorageOk(f) ==
  /\ WordOk(f, "logMode") /\ WordOk(f, "lvds")
  /\ f.dir = "exists" /\ f.prefix # ""
  /\ validateRecFileMaxsize(f.fileMax) /\ WordOk(f, "seq")

FormatOk(f) == WordOk(f, "toggle") /\ WordOk(f, "reorder")

RecordOk(f) == StorageOk(f) /\ StopOk(f) /\ FormatOk(f)

\* The number the stop mode of the file names (0 for a run without end)
Asked(f) ==
  CASE f.stopMode = "bytes"    -> f.bytes
    [] f.stopMode = "duration" -> f.duration
    [] f.stopMode = "frames"   -> f.frames
    [] OTHER                   -> Number(0)

\* An octet of the MAC address goes through atoi: a hexadecimal one keeps the
\* decimal digits it starts with, which is modelled as none
Octet(t) == IF t.form = "int" THEN t.n ELSE 0
\* The data of the packet ConfigureRFDCCard_Eeprom sends: two bytes for a port.
\* It validates addresses and ports again with the same functions
EepromValues(f) ==
  [ips  |-> [i \in 1..4 |-> <<Atoi(f.sysIp[i]), Atoi(f.newIp[i])>>],
   mac  |-> [i \in 1..6 |-> Octet(f.mac[i])],
   ports |-> <<Atoi(f.newConfigPort) % 65536, Atoi(f.newDataPort) % 65536>>]
\* ConfigureRFDCCard_Fpga sends the modes as they are; its own checks, of the
\* form !(a # x \/ a # y), let every value through
FpgaValues(f) ==
  [field \in {"logMode", "xfer", "capture", "lvds", "format"} |-> f[field]]

\* ConfigureRFDCCard_Record: microseconds as ticks of 8 ns in 16 bits
PacketTicks(us) == ((us * 1000) \div 8) % 65536

\* gsStartRecConfigMode: toggling is off and reordering on when not mentioned
RecordValues(f) ==
  [log |-> f.logMode, lvds |-> f.lvds, fileMax |-> Atoi(f.fileMax),
   stop |-> f.stopMode, limit |-> Atoi(Asked(f)),
   toggle |-> f.toggle = "1", reorder |-> f.reorder # "0"]

Commands == {"fpga", "eeprom", "record", "start_record", "query_status"}
None == [cmd |-> "none"]

CommandOk(cmd, f) ==
  /\ CommonOk(f)
  /\ cmd = "fpga" => FpgaOk(f)
  /\ cmd = "eeprom" => EepromOk(f)
  /\ cmd = "record" => validatePacketDelay(f.delay)
  /\ cmd = "start_record" => RecordOk(f)
  /\ cmd = "query_status" => WordOk(f, "logMode")

CommandValues(cmd, f) ==
  CASE cmd = "fpga"   -> [cmd |-> cmd, v |-> FpgaValues(f)]
    [] cmd = "eeprom" -> [cmd |-> cmd, v |-> EepromValues(f)]
    [] cmd = "record" -> [cmd |-> cmd, v |-> PacketTicks(Atoi(f.delay))]
    [] OTHER          -> [cmd |-> cmd]

-----------------------------------------------------------------------------
(* The steps                                                                 *)

ParamsInit ==
  /\ file \in {Default, [Default EXCEPT !.lvds = "2", !.bytes = Number(136)]}
  /\ edits = 0 /\ phase = "idle"
  /\ sent = None /\ conf = None /\ used = None

\* Somebody edits the file, perhaps between the two times it is read
EditFile(field) ==
  /\ phase \in {"idle", "launched"} /\ edits < MaxEdits
  /\ \E v \in Values[field] \ {file[field]} : file' = [file EXCEPT ![field] = v]
  /\ edits' = edits + 1
  /\ UNCHANGED <<phase, sent, conf, used>>

\* record() of radar_recorder.py in CLI mode: -d is a float of seconds and is
\* written as a float of milliseconds, which validateDurationRecStopConfig will
\* refuse (README.md offers -d all the same), -b is converted to an int, and a
\* number of frames is refused before the file is touched
WriteOption(mode) ==
  /\ phase = "idle" /\ edits < MaxEdits
  /\ \/ /\ mode = "duration"
        /\ \E ms \in {MinDuration, 1000} :
             file' = [file EXCEPT !.stopMode = mode, !.duration = Real(ms)]
     \/ /\ mode = "bytes"
        /\ \E n \in {MinBytes, 136} :
             file' = [file EXCEPT !.stopMode = mode, !.bytes = Number(n)]
     \/ mode = "infinite" /\ file' = [file EXCEPT !.stopMode = mode]
  /\ edits' = edits + 1
  /\ UNCHANGED <<phase, sent, conf, used>>

\* ValidateJsonFileData of CLI_Control
ControlAccepts(cmd) ==
  /\ phase = "idle" /\ CommandOk(cmd, file)
  /\ sent' = CommandValues(cmd, file)
  /\ phase' = IF cmd = "start_record" THEN "launched" ELSE "sent"
  /\ UNCHANGED <<file, edits, conf, used>>

ControlRefuses(cmd) ==
  /\ phase = "idle" /\ ~CommandOk(cmd, file)
  /\ sent' = [cmd |-> cmd] /\ phase' = "refused"
  /\ UNCHANGED <<file, edits, conf, used>>

\* ValidateJsonFileData_Rec of CLI_Record, on the file as it is by now
RecordReads ==
  /\ phase = "launched"
  /\ IF CommonOk(file) /\ RecordOk(file)
       THEN phase' = "read" /\ conf' = RecordValues(file)
       ELSE phase' = "refused" /\ UNCHANGED conf
  /\ UNCHANGED <<file, edits, sent, used>>

\* The values StartRecordData accepts (a directory may be gone by now)
ApiOk(c) ==
  /\ file.dir = "exists" /\ validateFileMaxSize(c.fileMax)
  /\ c.stop = "bytes" => validateBytesStopConfig(c.limit, c.lvds)
  /\ c.stop = "frames" => validateFramesStopConfig(c.limit)
  /\ c.stop = "duration" => validateDurationStopConfig(c.limit)

StartRecordData ==
  /\ phase = "read"
  /\ IF ApiOk(conf)
       THEN /\ phase' = "recording"
            /\ used' = [conf |-> conf, lanes |-> IF conf.lvds = "2" THEN 2 ELSE 4]
       ELSE phase' = "refused" /\ UNCHANGED used
  /\ UNCHANGED <<file, edits, sent, conf>>

ParamsNext ==
  \/ \E field \in DOMAIN Values : EditFile(field)
  \/ \E mode \in {"duration", "bytes", "infinite"} : WriteOption(mode)
  \/ \E cmd \in Commands : ControlAccepts(cmd) \/ ControlRefuses(cmd)
  \/ RecordReads
  \/ StartRecordData

ParamsSpec == ParamsInit /\ [][ParamsNext]_params

=============================================================================
