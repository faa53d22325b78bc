------------------------- MODULE UdpRecorder_proofs -------------------------
(* Proof that the file of the SOCKET mode follows the sequence numbers, for  *)
(* every number of frames and packets and every loss and reordering. The     *)
(* invariant adds that the file is never shorter than last_seq_num, which is *)
(* what a negative padding, written as nothing, could have broken.           *)
EXTENDS UdpRecorder, SequenceTheorems, TLAPS

\* What the packets and the file are
FileInv ==
  /\ sent \in Nat /\ net \subseteq Nat \ {0}
  /\ file \in Seq(Nat) /\ last \in Nat /\ late \in BOOLEAN
  /\ Len(file) >= last
  /\ ~late /\ main # "done" => Len(file) = last
  /\ \A i \in DOMAIN file : file[i] <= i
  /\ ~late => \A i \in DOMAIN file : file[i] \in {0, i}

-----------------------------------------------------------------------------
\* Padding writes the zeros between two numbers, and nothing backwards
LEMMA PaddingLemma ==
  ASSUME NEW from \in Nat, NEW to \in Nat
  PROVE  /\ paddingLostPackets(from, to) \in Seq(Nat)
         /\ Len(paddingLostPackets(from, to)) = IF to > from THEN to - from - 1 ELSE 0
         /\ \A i \in 1..Len(paddingLostPackets(from, to)) :
              paddingLostPackets(from, to)[i] = 0
<1>1. CASE to > from + 1
  <2>1. paddingLostPackets(from, to) = [i \in 1..(to - from - 1) |-> 0]
    BY <1>1 DEF paddingLostPackets
  <2>2. to - from - 1 \in Nat
    BY <1>1
  <2> QED
    BY <1>1, <2>1, <2>2
<1>2. CASE ~(to > from + 1)
  BY <1>2 DEF paddingLostPackets
<1> QED
  BY <1>1, <1>2

\* The file after Save: what was there, zeros, and the packet at its end
Saved(f, l, p) == f \o paddingLostPackets(l, p) \o <<p>>
SavedLen(f, l, p) == Len(f) + IF p > l THEN p - l ELSE 1

LEMMA SavedFile ==
  ASSUME NEW f \in Seq(Nat), NEW l \in Nat, NEW p \in Nat \ {0}
  PROVE  /\ Saved(f, l, p) \in Seq(Nat)
         /\ Len(Saved(f, l, p)) = SavedLen(f, l, p)
         /\ \A i \in 1..Len(f) : Saved(f, l, p)[i] = f[i]
         /\ \A i \in (Len(f) + 1)..(SavedLen(f, l, p) - 1) : Saved(f, l, p)[i] = 0
         /\ Saved(f, l, p)[SavedLen(f, l, p)] = p
<1> DEFINE z == paddingLostPackets(l, p)
           h == f \o z
           g == Saved(f, l, p)
           n == SavedLen(f, l, p)
<1>1. /\ z \in Seq(Nat) /\ Len(z) = IF p > l THEN p - l - 1 ELSE 0
      /\ \A i \in 1..Len(z) : z[i] = 0
  BY PaddingLemma
<1>0. g = h \o <<p>> /\ n = Len(f) + IF p > l THEN p - l ELSE 1
  BY DEF Saved, SavedLen
<1> HIDE DEF g, n
<1> HIDE DEF z
<1>2. Len(z) \in Nat /\ Len(f) \in Nat
  BY <1>1
<1>3. /\ h \in Seq(Nat) /\ Len(h) = Len(f) + Len(z)
      /\ \A i \in 1..Len(f) : h[i] = f[i]
      /\ \A i \in (Len(f) + 1)..Len(h) : h[i] = z[i - Len(f)]
  <2>1. /\ h \in Seq(Nat) /\ Len(h) = Len(f) + Len(z)
        /\ \A i \in 1..(Len(f) + Len(z)) :
             h[i] = IF i <= Len(f) THEN f[i] ELSE z[i - Len(f)]
    BY <1>1, ConcatProperties
  <2> HIDE DEF h
  <2>2. ASSUME NEW i \in 1..Len(f) PROVE h[i] = f[i]
    <3>1. i \in 1..(Len(f) + Len(z)) /\ i <= Len(f)
      BY <1>2
    <3> QED
      BY <2>1, <3>1
  <2>3. ASSUME NEW i \in (Len(f) + 1)..Len(h) PROVE h[i] = z[i - Len(f)]
    <3>1. i \in 1..(Len(f) + Len(z)) /\ ~(i <= Len(f))
      BY <2>1, <1>2
    <3> QED
      BY <2>1, <3>1
  <2> QED
    BY <2>1, <2>2, <2>3
<1> HIDE DEF h
<1>4. /\ g \in Seq(Nat) /\ Len(g) = Len(h) + 1 /\ g[Len(h) + 1] = p
      /\ \A i \in 1..Len(h) : g[i] = h[i]
  <2>1. g = Append(h, p) /\ p \in Nat
    BY <1>0, <1>3, AppendIsConcat
  <2>2. /\ Append(h, p) \in Seq(Nat) /\ Len(Append(h, p)) = Len(h) + 1
        /\ Append(h, p)[Len(h) + 1] = p
        /\ \A i \in 1..Len(h) : Append(h, p)[i] = h[i]
    <3>1. h \in Seq(Nat) /\ p \in Nat
      BY <2>1, <1>3
    <3> QED
      BY ONLY <3>1, AppendProperties
  <2> QED
    BY ONLY <2>1, <2>2
<1>5. Len(g) = n /\ n = Len(h) + 1
  BY <1>0, <1>1, <1>2, <1>3, <1>4
<1>6. \A i \in (Len(f) + 1)..(n - 1) : g[i] = 0
  <2> SUFFICES ASSUME NEW i \in (Len(f) + 1)..(n - 1) PROVE g[i] = 0
    OBVIOUS
  <2>1. i \in 1..Len(h) /\ i \in (Len(f) + 1)..Len(h) /\ i - Len(f) \in 1..Len(z)
    BY <1>2, <1>3, <1>5
  <2> QED
    BY <2>1, <1>1, <1>3, <1>4
<1>7. \A i \in 1..Len(f) : g[i] = f[i]
  BY <1>2, <1>3, <1>4
<1>8. g[n] = p
  BY <1>4, <1>5
<1> QED
  BY <1>4, <1>5, <1>6, <1>7, <1>8 DEF g, n

-----------------------------------------------------------------------------
LEMMA FileInvInit == Init => FileInv
<1> SUFFICES ASSUME Init PROVE FileInv
  OBVIOUS
<1>1. file = <<>> /\ last = 0 /\ sent = 0 /\ net = {} /\ late = FALSE
  BY DEF Init
<1>2. file \in Seq(Nat) /\ Len(file) = 0
  BY <1>1, EmptySeq
<1>3. \A i \in DOMAIN file : FALSE
  BY <1>2, LenProperties
<1> QED
  <2>1. sent \in Nat /\ net \subseteq Nat \ {0} /\ last \in Nat /\ late \in BOOLEAN
    BY <1>1
  <2>2. Len(file) >= last /\ Len(file) = last
    BY <1>1, <1>2
  <2> QED
    BY <1>2, <1>3, <2>1, <2>2 DEF FileInv

\* A packet that is stored keeps the file in order and long enough
LEMMA SaveKeepsFile ==
  ASSUME FileInv, main # "done", NEW p \in net, Take(p), Save(p)
  PROVE  /\ file' \in Seq(Nat) /\ late' \in BOOLEAN
         /\ net' \subseteq Nat \ {0}
         /\ Len(file') >= p /\ Len(file') >= last
         /\ ~late' => Len(file') = p
         /\ \A i \in DOMAIN file' : file'[i] <= i
         /\ ~late' => \A i \in DOMAIN file' : file'[i] \in {0, i}
<1>1. /\ file \in Seq(Nat) /\ last \in Nat /\ p \in Nat \ {0} /\ Len(file) \in Nat
      /\ Len(file) >= last /\ late \in BOOLEAN
  BY DEF FileInv
<1> DEFINE n == SavedLen(file, last, p)
<1>2. /\ file' \in Seq(Nat) /\ Len(file') = n /\ DOMAIN file' = 1..n
      /\ \A i \in 1..Len(file) : file'[i] = file[i]
      /\ \A i \in (Len(file) + 1)..(n - 1) : file'[i] = 0
      /\ file'[n] = p
  <2>1. file' = Saved(file, last, p)
    BY DEF Save, Saved
  <2> DEFINE g == Saved(file, last, p)
  <2>2. /\ g \in Seq(Nat) /\ Len(g) = n /\ DOMAIN g = 1..n
        /\ \A i \in 1..Len(file) : g[i] = file[i]
        /\ \A i \in (Len(file) + 1)..(n - 1) : g[i] = 0
        /\ g[n] = p
    <3>1. file \in Seq(Nat) /\ last \in Nat /\ p \in Nat \ {0}
      BY <1>1
    <3>2. g \in Seq(Nat) /\ Len(g) = n
      BY ONLY <3>1, SavedFile
    <3>3. \A i \in 1..Len(file) : g[i] = file[i]
      BY ONLY <3>1, SavedFile
    <3>4. \A i \in (Len(file) + 1)..(n - 1) : g[i] = 0
      BY ONLY <3>1, SavedFile
    <3>5. g[n] = p
      BY ONLY <3>1, SavedFile
    <3> QED
      BY ONLY <3>2, <3>3, <3>4, <3>5, LenProperties
  <2> HIDE DEF g, n
  <2>3. file' = g
    BY <2>1 DEF g
  <2> QED
    BY ONLY <2>2, <2>3
<1>0. n = Len(file) + IF p > last THEN p - last ELSE 1
  BY DEF SavedLen
<1> HIDE DEF n
<1>3. n \in Nat /\ n >= p /\ n >= last /\ n > Len(file)
  BY <1>0, <1>1
<1>4. late' = (late \/ p <= last)
  BY DEF Save
<1>5. ~late' => ~late /\ p > last /\ Len(file) = last /\ n = p
  <2> SUFFICES ASSUME ~late' PROVE ~late /\ p > last /\ Len(file) = last /\ n = p
    OBVIOUS
  <2>1. ~late /\ ~(p <= last)
    BY <1>4
  <2>2. Len(file) = last
    BY <2>1 DEF FileInv
  <2> QED
    BY <1>0, <1>1, <2>1, <2>2
<1>6. ASSUME NEW i \in DOMAIN file'
      PROVE  file'[i] <= i /\ (~late' => file'[i] \in {0, i})
  <2>1. i \in 1..n
    BY <1>2
  <2>2. CASE i \in 1..Len(file)
    <3>1. file'[i] = file[i] /\ file[i] \in Nat /\ i \in DOMAIN file
      BY <2>2, <1>1, <1>2
    <3> QED
      BY <3>1, <1>5 DEF FileInv
  <2>3. CASE i \in (Len(file) + 1)..(n - 1)
    <3>1. file'[i] = 0
      BY <2>3, <1>2
    <3> QED
      BY <3>1, <2>1, <1>3
  <2>4. CASE i = n
    BY <2>4, <1>2, <1>3, <1>5
  <2> QED
    BY <2>1, <2>2, <2>3, <2>4, <1>1, <1>3
<1> QED
  BY <1>1, <1>2, <1>3, <1>4, <1>5, <1>6 DEF Take, FileInv

LEMMA FileInvNext == FileInv /\ [Next]_vars => FileInv'
<1> SUFFICES ASSUME FileInv, [Next]_vars PROVE FileInv'
  OBVIOUS
<1>1. CASE ReceivePacket
  <2>1. PICK p \in net : Take(p) /\ Save(p) /\ last' = p
    BY <1>1 DEF ReceivePacket
  <2>2. main # "done" /\ main' = main /\ sent' = sent /\ p \in Nat
    BY <1>1 DEF ReceivePacket, FileInv
  <2> QED
    BY <2>1, <2>2, SaveKeepsFile DEF FileInv
<1>2. CASE LastPacket
  <2>1. main # "done" /\ main' = "done" /\ sent' = sent /\ last' = last
    BY <1>2 DEF LastPacket
  <2>2. CASE \E p \in net : Take(p) /\ Save(p)
    BY <2>1, <2>2, SaveKeepsFile DEF FileInv
  <2>3. CASE UNCHANGED <<net, bytes, file, late>>
    BY <2>1, <2>3 DEF FileInv
  <2> QED
    BY <1>2, <2>2, <2>3 DEF LastPacket
<1>3. CASE SensorSends
  <2>1. sent \in Nat /\ sent' = sent + 1 /\ net \subseteq Nat \ {0} /\ net' \subseteq net \cup {sent + 1}
    BY <1>3 DEF SensorSends, FileInv
  <2>2. sent' \in Nat /\ net' \subseteq Nat \ {0}
    BY <2>1
  <2> QED
    BY <1>3, <2>2 DEF SensorSends, FileInv
<1>4. CASE SensorFrame
  BY <1>4 DEF SensorFrame, FileInv
<1>5. CASE DurationEnds
  BY <1>5 DEF DurationEnds, sensor, FileInv
<1>6. CASE PulseBegin \/ PulseEnd \/ PulserDies
  BY <1>6 DEF PulseBegin, PulseEnd, PulserDies, sensor, FileInv
<1>7. CASE Start \/ TriggerFrame \/ LoopEnds
  BY <1>7 DEF Start, TriggerFrame, LoopEnds, sensor, FileInv
<1>8. CASE FrameEnds \/ PacketsEnd \/ ReceiveFails
  BY <1>8 DEF FrameEnds, PacketsEnd, ReceiveFails, sensor, FileInv
<1>9. CASE UNCHANGED vars
  BY <1>9 DEF vars, sensor, FileInv
<1> QED
  BY <1>1, <1>2, <1>3, <1>4, <1>5, <1>6, <1>7, <1>8, <1>9 DEF Next, MainStep

\* The places of the file are those of the stream: without a late packet place i
\* has packet i or zeros, and no packet ever lies before its own place
\* (handleOneFramePackets, handlePackets, handleLastPacket)
THEOREM FileIsInSequence == Spec => []FileFollowsSequence
<1>1. FileInv => FileFollowsSequence
  BY DEF FileInv, FileFollowsSequence
<1> QED
  BY <1>1, FileInvInit, FileInvNext, PTL DEF Spec
=============================================================================
