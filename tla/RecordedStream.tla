--------------------------- MODULE RecordedStream ---------------------------
(***************************************************************************)
(* What the recorder promises of the file it produces.  The recording is   *)
(* one stream that starts with the first packet received: the slot at      *)
(* position i holds packet first + i - 1, or Zero when that packet was     *)
(* missing.  A zero may be replaced by the late packet as long as its slot *)
(* is not stored; what is stored never changes, it is stored in order and  *)
(* without gaps, and the recording ends with everything stored.            *)
(***************************************************************************)
EXTENDS Naturals, Sequences

CONSTANTS Packets,   \* the packet numbers the FPGA uses
          Zero       \* contents of a zero-filled slot

VARIABLES first,     \* the first packet received, Zero before
          stream,    \* every slot accepted so far, stored or not
          stored,    \* how many of them are in the file
          closed     \* the file is complete and closed

streamVars == <<first, stream, stored, closed>>

PacketAt(i) == first + i - 1

Init == first = Zero /\ stream = <<>> /\ stored = 0 /\ closed = FALSE

Begin(p) ==
  /\ ~closed /\ first = Zero
  /\ first' = p
  /\ UNCHANGED <<stream, stored, closed>>

Extend ==
  /\ ~closed /\ first # Zero
  /\ \E slot \in {Zero, PacketAt(Len(stream) + 1)} : stream' = Append(stream, slot)
  /\ UNCHANGED <<first, stored, closed>>

FillLate(i) ==
  /\ ~closed /\ i > stored
  /\ stream' = [stream EXCEPT ![i] = PacketAt(i)]
  /\ UNCHANGED <<first, stored, closed>>

Store ==
  /\ ~closed
  /\ \E k \in stored..Len(stream) : stored' = k
  /\ UNCHANGED <<first, stream, closed>>

Close ==
  /\ stored = Len(stream)
  /\ closed' = TRUE
  /\ UNCHANGED <<first, stream, stored>>

Next ==
  \/ \E p \in Packets : Begin(p)
  \/ Extend
  \/ \E i \in DOMAIN stream : FillLate(i)
  \/ Store
  \/ Close

Spec == Init /\ [][Next]_streamVars
=============================================================================
