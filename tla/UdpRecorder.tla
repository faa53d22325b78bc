----------------------------- MODULE UdpRecorder -----------------------------
(* The SOCKET mode of radar_recorder.py: DCA1000Udp (udp_cmd.py) receives the *)
(* raw packets itself. With a hardware trigger, a second thread               *)
(* (hardware_trigger.py) turns an event into a pulse for the sensor, which    *)
(* answers with the packets of one frame; with a software trigger the sensor  *)
(* sends its frames by itself. Packets may be lost or overtake each other.    *)
(* Time is abstract: a receive may time out whenever no packet is there, the  *)
(* wait for an event whenever it is not set, and the duration ends some time. *)
EXTENDS Naturals, Sequences, FiniteSets

CONSTANTS FramePackets,  \* packets the sensor sends for a frame
          FrameGoal,     \* stop_mode_param in the mode "frames"
          ByteGoal,      \* stop_mode_param in the mode "bytes", in packets
          MaxFrames,     \* bound on frames begun
          MaxErrors      \* bound on failing receives

VARIABLES trigger,   \* "HW" or "SW"
          stopMode,  \* "frames", "bytes" or "duration" (which "infinite" is too)
          main,      \* where recordDataSocket is
          event,     \* trigger_event is set
          pulser,    \* the trigger thread: "none", "wait", "pulse", "dead"
          pulses,    \* trigger_cnt
          owed,      \* packets the sensor has yet to send
          sent,      \* packets sent so far
          net,       \* sequence numbers that can still be received
          file,      \* payloads of _raw_udp_packets.bin: a number, or 0 for zeros
          last,      \* last_seq_num
          bytes,     \* data_bytes_cnt, in packets
          frames,    \* data_frames_cnt
          timeUp,    \* the duration is over
          errors,    \* receives that failed
          late      \* whether a packet older than last_seq_num was stored

sensor == <<owed, sent, net>>
vars == <<trigger, stopMode, main, event, pulser, pulses, sensor, file, last, bytes,
          frames, timeUp, errors, late>>
settings == <<trigger, stopMode>>

Init ==
  /\ trigger \in {"HW", "SW"} /\ stopMode \in {"frames", "bytes", "duration"}
  \* record() refuses frames with a software trigger
  /\ ~(trigger = "SW" /\ stopMode = "frames")
  /\ main = "start" /\ event = FALSE /\ pulser = "none" /\ pulses = 0
  /\ owed = 0 /\ sent = 0 /\ net = {}
  /\ file = <<>> /\ last = 0 /\ bytes = 0 /\ frames = 0
  /\ timeUp = FALSE /\ errors = 0 /\ late = FALSE

-----------------------------------------------------------------------------
(* The sensor, the capture card and the network                              *)

\* (after stopRecord and sensorStop nothing is sent any more)
SensorSends ==
  /\ main # "done" /\ owed > 0 /\ owed' = owed - 1 /\ sent' = sent + 1
  /\ \/ net' = net \cup {sent + 1}
     \/ net' = net                       \* lost
  /\ UNCHANGED <<settings, main, event, pulser, pulses, file, last, bytes, frames,
                 timeUp, errors, late>>

\* A sensor in software trigger mode starts its next frame
SensorFrame ==
  /\ trigger = "SW" /\ main = "packets" /\ owed = 0
  /\ sent < MaxFrames * FramePackets
  /\ owed' = FramePackets
  /\ UNCHANGED <<settings, main, event, pulser, pulses, sent, net, file, last,
                 bytes, frames, timeUp, errors, late>>

DurationEnds ==
  /\ stopMode = "duration" /\ main \notin {"start", "done"}
  /\ ~timeUp /\ timeUp' = TRUE
  /\ UNCHANGED <<settings, main, event, pulser, pulses, sensor, file, last, bytes,
                 frames, errors, late>>

-----------------------------------------------------------------------------
(* The trigger thread                                                        *)

\* event.wait returns and the output goes high: the sensor takes a frame
PulseBegin ==
  /\ pulser = "wait" /\ event
  /\ pulser' = "pulse" /\ owed' = owed + FramePackets
  /\ UNCHANGED <<settings, main, event, pulses, sent, net, file, last, bytes, frames,
                 timeUp, errors, late>>

\* The event is cleared after the callback, with whatever was set meanwhile
PulseEnd ==
  /\ pulser = "pulse"
  /\ pulser' = "wait" /\ pulses' = pulses + 1 /\ event' = FALSE
  /\ UNCHANGED <<settings, main, sensor, file, last, bytes, frames, timeUp, errors,
                 late>>

\* Two intervals without an event end the thread for good
PulserDies ==
  /\ pulser = "wait" /\ ~event
  /\ pulser' = "dead"
  /\ UNCHANGED <<settings, main, event, pulses, sensor, file, last, bytes, frames,
                 timeUp, errors, late>>

-----------------------------------------------------------------------------
(* DCA1000Udp                                                                *)

isToBreak ==
  \/ stopMode = "bytes" /\ bytes >= ByteGoal
  \/ stopMode = "frames" /\ frames >= FrameGoal
  \/ stopMode = "duration" /\ timeUp

\* A negative length pads nothing
paddingLostPackets_OneMore(from, to) ==
  IF to > from THEN [i \in 1..(to - from) |-> 0] ELSE <<>>
paddingLostPackets(from, to) ==
  IF to > from + 1 THEN [i \in 1..(to - from - 1) |-> 0] ELSE <<>>

\* Zeros for what was lost, then the packet, wherever it belongs
Save(p) ==
  /\ file' = file \o paddingLostPackets(last, p) \o <<p>>
  /\ late' = (late \/ p <= last)

\* rcvOnePacket: the packet before this one tells the bytes sent so far
Take(p) ==
  /\ p \in net /\ net' = net \ {p} /\ bytes' = p - 1

\* One packet in handleOneFramePackets or handlePackets
ReceivePacket ==
  /\ main = "frame" \/ (main = "packets" /\ ~isToBreak)
  /\ \E p \in net : Take(p) /\ Save(p) /\ last' = p
  /\ UNCHANGED <<settings, main, event, pulser, pulses, owed, sent, frames, timeUp,
                 errors>>

\* A receive that fails without a timeout leaves the loop as well
ReceiveFails ==
  /\ main = "frame" \/ (main = "packets" /\ ~isToBreak)
  /\ errors < MaxErrors /\ errors' = errors + 1
  /\ main' = IF main = "frame" THEN "loop" ELSE "last"
  /\ UNCHANGED <<settings, event, pulser, pulses, sensor, file, last, bytes, frames,
                 timeUp, late>>

\* handleOneFramePackets: the pause after a frame ends it, data or not
FrameEnds_Uncounted ==
  /\ main = "frame" /\ net = {} /\ main' = "loop" /\ frames' = frames
  /\ UNCHANGED <<settings, event, pulser, pulses, sensor, file, last, bytes, timeUp,
                 errors, late>>
FrameEnds ==
  /\ main = "frame" /\ net = {}
  /\ frames' = frames + 1 /\ main' = "loop"
  /\ UNCHANGED <<settings, event, pulser, pulses, sensor, file, last, bytes, timeUp,
                 errors, late>>

\* handlePackets ends with the goal or with the first timeout
PacketsEnd ==
  /\ main = "packets" /\ (isToBreak \/ net = {})
  /\ main' = "last"
  /\ UNCHANGED <<settings, event, pulser, pulses, sensor, file, last, bytes, frames,
                 timeUp, errors, late>>

-----------------------------------------------------------------------------
(* recordDataSocket of radar_recorder.py                                     *)

Start ==
  /\ main = "start"
  /\ main' = IF trigger = "HW" THEN "loop" ELSE "packets"
  /\ pulser' = IF trigger = "HW" THEN "wait" ELSE "none"
  /\ UNCHANGED <<settings, event, pulses, sensor, file, last, bytes, frames, timeUp,
                 errors, late>>

\* A frame is due: set the event and collect what comes
TriggerFrame ==
  /\ main = "loop" /\ ~isToBreak /\ frames < MaxFrames
  /\ event' = TRUE /\ main' = "frame"
  /\ UNCHANGED <<settings, pulser, pulses, sensor, file, last, bytes, frames, timeUp,
                 errors, late>>

LoopEnds ==
  /\ main = "loop" /\ isToBreak
  /\ main' = "last"
  /\ UNCHANGED <<settings, event, pulser, pulses, sensor, file, last, bytes, frames,
                 timeUp, errors, late>>

\* handleLastPacket waits once more and leaves last_seq_num as it is
LastPacket ==
  /\ main = "last" /\ main' = "done"
  /\ \/ (\E p \in net : Take(p) /\ Save(p)) /\ UNCHANGED errors
     \/ net = {} /\ UNCHANGED <<net, bytes, file, late, errors>>
     \/ /\ errors < MaxErrors /\ errors' = errors + 1   \* any other exception
        /\ UNCHANGED <<net, bytes, file, late>>
  /\ UNCHANGED <<settings, event, pulser, pulses, owed, sent, last, frames, timeUp>>

MainStep ==
  \/ Start \/ TriggerFrame \/ LoopEnds \/ LastPacket
  \/ ReceivePacket \/ FrameEnds \/ PacketsEnd

Next ==
  \/ MainStep \/ ReceiveFails
  \/ PulseBegin \/ PulseEnd \/ PulserDies
  \/ SensorSends \/ SensorFrame \/ DurationEnds

\* The main thread goes on and time passes; the trigger thread, the sensor and
\* the network may do nothing
Spec == Init /\ [][Next]_vars /\ WF_vars(MainStep) /\ WF_vars(DurationEnds)

-----------------------------------------------------------------------------
(* Properties                                                                *)

\* The places of the file are those of the stream (_paddingLostPackets,
\* handleOneFramePackets, handlePackets, handleLastPacket): as long as no late
\* packet came, place i has packet i or zeros and the file ends with the last
\* packet; a late packet is appended and pushes what follows back, so that
\* even then no packet lies before its own place
FileFollowsSequence ==
  /\ \A i \in DOMAIN file : file[i] <= i
  /\ ~late => /\ \A i \in DOMAIN file : file[i] \in {0, i}
              /\ main # "done" => Len(file) = last

\* A recording ends (recordDataSocket), although events set during a pulse are
\* forgotten, the trigger thread may be dead and frames may come without data:
\* such frames count. Only a byte goal with a hardware trigger needs data to end
RecordingEnds ==
  (main # "start" /\ ~(trigger = "HW" /\ stopMode = "bytes")) ~> (main = "done")
=============================================================================
