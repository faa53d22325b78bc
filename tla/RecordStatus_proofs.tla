-------------------------- MODULE RecordStatus_proofs --------------------------
(* Proofs about what a recording reports: the status word that several       *)
(* threads update without a lock, and the counters of the receiver.          *)
EXTENDS RecordStatus, FiniteSetTheorems, TLAPS

-----------------------------------------------------------------------------
(* The status word.                                                          *)

\* What the callbacks hold while they update the word.
CallInv ==
  /\ cpc \in [Reporters -> {"none", "load", "store", "act"}]
  /\ told \in [Reporters -> Statuses \cup {"none"}]
  /\ local \in [Writers -> SUBSET Bits] /\ inside \subseteq Writers
  /\ async \subseteq Bits /\ overlap \in BOOLEAN /\ reported \subseteq Statuses
  /\ \A t \in Reporters : cpc[t] # "none" => told[t] \in Statuses
  /\ \A t \in Reporters : cpc[t] \in {"load", "store"} => HasBit(told[t])
  /\ \A t \in Reporters : t \in inside <=> cpc[t] = "store"
  /\ "update" \in inside <=> upc = "store"

\* As long as never two threads were inside |=, the one inside has the word as
\* it is, and what was written before is in it.
WordInv ==
  ~overlap =>
    /\ \A s, t \in inside : s = t
    /\ \A t \in inside : local[t] = async
    /\ \A st \in reported : HasBit(st) => st \in async
    /\ \A t \in Reporters : cpc[t] = "act" /\ HasBit(told[t]) => told[t] \in async

CauseInv ==
  cause \notin {"none", "REC_COMPLETED"} =>
    Stops(cause) /\ (~overlap => cause \in async)

StatusInv == CallInv /\ WordInv /\ CauseInv

LEMMA WritersLemma ==
  /\ Reporters \subseteq Writers /\ "update" \in Writers /\ "update" \notin Reporters
BY DEF Reporters, Writers

LEMMA StatusInvInit == Init => StatusInv
<1> SUFFICES ASSUME Init PROVE StatusInv
  OBVIOUS
<1> USE WritersLemma
<1>1. CallInv
  BY DEF Init, CallInv
<1>2. WordInv
  BY DEF Init, WordInv
<1>3. CauseInv
  BY DEF Init, CauseInv
<1> QED
  BY <1>1, <1>2, <1>3 DEF StatusInv

\* Steps that leave the word and the callbacks alone and ask for no stop but completion.
LEMMA StatusInvElsewhere ==
  ASSUME StatusInv, UNCHANGED <<wordVars, callVars>>,
         upc' = "store" <=> upc = "store",
         cause' = cause \/ cause' = "REC_COMPLETED"
  PROVE  StatusInv'
<1>1. CallInv'
  BY DEF StatusInv, CallInv, wordVars, callVars
<1>2. WordInv'
  BY DEF StatusInv, WordInv, wordVars, callVars
<1>3. CauseInv'
  BY DEF StatusInv, CauseInv, wordVars
<1> QED
  BY <1>1, <1>2, <1>3 DEF StatusInv

\* A thread that enters |= meets nobody there, or overlap is noted.
LEMMA StatusInvLoad ==
  ASSUME StatusInv, NEW w \in Writers, w \notin inside, LoadWord(w),
         UNCHANGED <<told, reported, cause>>,
         \/ w = "update" /\ upc' = "store" /\ cpc' = cpc
         \/ /\ w \in Reporters /\ cpc[w] = "load"
            /\ cpc' = [cpc EXCEPT ![w] = "store"] /\ (upc' = "store" <=> upc = "store")
  PROVE  StatusInv'
<1> USE WritersLemma
<1>1. CallInv'
  <2>1. /\ inside' = inside \cup {w} /\ local' = [local EXCEPT ![w] = async]
        /\ async' = async /\ overlap' \in BOOLEAN
    BY DEF LoadWord, StatusInv, CallInv
  <2> QED
    BY <2>1 DEF StatusInv, CallInv
<1>2. WordInv'
  <2> SUFFICES ASSUME ~overlap' PROVE WordInv'
    BY DEF WordInv
  <2>1. ~overlap /\ inside = {} /\ inside' = {w} /\ local'[w] = async' /\ async' = async
    BY DEF LoadWord, StatusInv, CallInv
  <2>2. \A t \in Reporters : cpc'[t] = "act" => cpc[t] = "act"
    BY DEF StatusInv, CallInv
  <2> QED
    BY <2>1, <2>2 DEF StatusInv, WordInv
<1>3. CauseInv'
  <2>1. async' = async /\ (~overlap' => ~overlap)
    BY DEF LoadWord
  <2> QED
    BY <2>1 DEF StatusInv, CauseInv
<1> QED
  BY <1>1, <1>2, <1>3 DEF StatusInv

\* A store only adds to the word, unless it overlapped with another one.
LEMMA StatusInvStore ==
  ASSUME StatusInv, NEW w \in Writers, w \in inside, NEW bit \in Bits, StoreWord(w, bit),
         UNCHANGED <<told, reported, cause>>,
         \/ w = "update" /\ upc' # "store" /\ cpc' = cpc
         \/ /\ w \in Reporters /\ bit = told[w]
            /\ cpc' = [cpc EXCEPT ![w] = "act"] /\ (upc' = "store" <=> upc = "store")
  PROVE  StatusInv'
<1> USE WritersLemma
<1>0. /\ inside' = inside \ {w} /\ local' = [local EXCEPT ![w] = {}]
      /\ async' = local[w] \cup {bit} /\ overlap' = overlap
  BY DEF StoreWord
<1>1. CallInv'
  BY <1>0 DEF StatusInv, CallInv
<1>2. ~overlap => async \subseteq async' /\ bit \in async' /\ inside' = {}
  BY <1>0 DEF StatusInv, WordInv
<1>3. WordInv'
  <2> SUFFICES ASSUME ~overlap PROVE WordInv'
    BY <1>0 DEF WordInv
  <2>1. \A t \in Reporters : cpc'[t] = "act" => cpc[t] = "act" \/ told[t] = bit
    BY DEF StatusInv, CallInv
  <2> QED
    BY <1>2, <2>1 DEF StatusInv, WordInv
<1>4. CauseInv'
  BY <1>0, <1>2 DEF StatusInv, CauseInv
<1> QED
  BY <1>1, <1>3, <1>4 DEF StatusInv

LEMMA StatusInvCallback ==
  ASSUME StatusInv, NEW t \in Reporters
  PROVE  /\ (\E st \in Statuses : Notify(t, st)) => StatusInv'
         /\ Callback(t) => StatusInv'
<1> USE WritersLemma
<1>1. ASSUME NEW st \in Statuses, Notify(t, st) PROVE StatusInv'
  <2>1. /\ cpc' = [cpc EXCEPT ![t] = IF HasBit(st) THEN "load" ELSE "act"] /\ cpc[t] = "none"
        /\ told' = [told EXCEPT ![t] = st]
        /\ UNCHANGED <<reported, upc, wordVars, cause>>
    BY <1>1 DEF Notify, updateVars
  <2>2. CallInv'
    BY <2>1 DEF StatusInv, CallInv, wordVars
  <2>3. WordInv'
    <3>1. \A u \in Reporters :
            cpc'[u] = "act" /\ HasBit(told'[u]) => cpc[u] = "act" /\ told'[u] = told[u]
      BY <2>1 DEF StatusInv, CallInv
    <3> QED
      BY <2>1, <3>1 DEF StatusInv, WordInv, wordVars
  <2>4. CauseInv'
    BY <2>1 DEF StatusInv, CauseInv, wordVars
  <2> QED
    BY <2>2, <2>3, <2>4 DEF StatusInv
<1>2. ASSUME NotifyLoad(t) PROVE StatusInv'
  <2>1. t \notin inside
    BY <1>2 DEF NotifyLoad, StatusInv, CallInv
  <2> QED
    BY <1>2, <2>1, StatusInvLoad DEF NotifyLoad, updateVars
<1>3. ASSUME NotifyStore(t) PROVE StatusInv'
  <2>1. t \in inside /\ told[t] \in Bits
    BY <1>3 DEF NotifyStore, StatusInv, CallInv, Bits
  <2> QED
    BY <1>3, <2>1, StatusInvStore DEF NotifyStore, updateVars
<1>4. ASSUME NotifyAct(t) PROVE StatusInv'
  <2>1. /\ cpc[t] = "act" /\ cpc' = [cpc EXCEPT ![t] = "none"]
        /\ reported' = reported \cup {told[t]}
        /\ told' = [told EXCEPT ![t] = "none"]
        /\ UNCHANGED <<upc, wordVars>> /\ told[t] \in Statuses
    BY <1>4 DEF NotifyAct, updateVars, StatusInv, CallInv
  <2>2. CallInv'
    BY <2>1 DEF StatusInv, CallInv, wordVars
  <2>3. WordInv'
    <3>1. \A u \in Reporters : cpc'[u] = "act" => cpc[u] = "act" /\ told'[u] = told[u]
      BY <2>1 DEF StatusInv, CallInv
    <3> QED
      BY <2>1, <3>1 DEF StatusInv, WordInv, wordVars
  <2>4. cause' = cause \/ (cause' = told[t] /\ Stops(told[t]))
    BY <1>4 DEF NotifyAct, AskStop
  <2>5. CauseInv'
    BY <2>1, <2>4 DEF StatusInv, WordInv, CauseInv, wordVars, HasBit
  <2> QED
    BY <2>2, <2>3, <2>5 DEF StatusInv
<1> QED
  BY <1>1, <1>2, <1>3, <1>4 DEF Callback

LEMMA StatusInvNext == StatusInv /\ [Next]_vars => StatusInv'
<1> SUFFICES ASSUME StatusInv, [Next]_vars PROVE StatusInv'
  OBVIOUS
<1> USE WritersLemma
<1>1. CASE Receive
  BY <1>1, StatusInvElsewhere
     DEF Receive, ReceiveNext, ReceiveLate, ReceiveAhead, Packet, updateVars
<1>2. CASE Tell \/ Copy
  BY <1>2, StatusInvElsewhere DEF Tell, Copy, updateVars
<1>3. CASE Complete
  BY <1>3, StatusInvElsewhere DEF Complete, AskStop, updateVars
<1>4. CASE UpdateWake \/ UpdateWrite \/ UpdateReady
  BY <1>4, StatusInvElsewhere DEF UpdateWake, UpdateWrite, UpdateReady
<1>5. CASE UpdateLoad
  <2>1. "update" \notin inside
    BY <1>5 DEF UpdateLoad, StatusInv, CallInv
  <2> QED
    BY <1>5, <2>1, StatusInvLoad DEF UpdateLoad, callVars
<1>6. CASE UpdateStore
  <2>1. "update" \in inside /\ "REC_PKT_OUT_OF_SEQ" \in Bits
    BY <1>6 DEF UpdateStore, StatusInv, CallInv, Bits
  <2> QED
    BY <1>6, <2>1, StatusInvStore DEF UpdateStore, callVars
<1>7. CASE MainEnds \/ Ended \/ UNCHANGED vars
  BY <1>7, StatusInvElsewhere DEF MainEnds, Ended, vars, updateVars
<1>8. CASE \E t \in Reporters : Callback(t) \/ \E st \in Statuses : Notify(t, st)
  BY <1>8, StatusInvCallback
<1> QED
  BY <1>1, <1>2, <1>3, <1>4, <1>5, <1>6, <1>7, <1>8 DEF Next, Receiver, Updater

\* The invariant of the status word holds.
THEOREM StatusInductive == Spec => []StatusInv
  BY StatusInvInit, StatusInvNext, PTL DEF Spec

\* A status whose callback has returned stays in shared memory (WriteRecAsyncStatus),
\* whatever is reported before and after, unless two threads met inside |=.
THEOREM StatusIsKept == Spec => []ReportedIsKept
<1>1. StatusInv => ReportedIsKept
  BY DEF StatusInv, WordInv, ReportedIsKept
<1> QED
  BY <1>1, StatusInductive, PTL

\* The reason of a stop that is no completion is in what the status query displays
\* (cmdRecvCallback writes the status before it asks for the stop).
THEOREM StopCanBeExplained == Spec => []StopIsExplained
<1>1. StatusInv => StopIsExplained
  BY DEF StatusInv, CauseInv, StopIsExplained, Displayed, Stops
<1> QED
  BY <1>1, StatusInductive, PTL

-----------------------------------------------------------------------------
(* The counters.  They wrap at Width; remainders are added with ModPlus.     *)

\* Quotient and remainder.
LEMMA DivMod ==
  ASSUME NEW w \in Nat \ {0}, NEW a \in Int
  PROVE  /\ a \div w \in Int /\ a % w \in 0..(w - 1)
         /\ a = w * (a \div w) + (a % w)
<1>1. a \div w \in Int
  OBVIOUS
<1>2. a % w \in 0..(w - 1)
  OBVIOUS
<1>3. a = w * (a \div w) + (a % w)
  OBVIOUS
<1> QED
  BY <1>1, <1>2, <1>3

\* They are unique.
LEMMA UniqueRemainder ==
  ASSUME NEW w \in Nat \ {0}, NEW q \in Int, NEW r \in 0..(w - 1),
         NEW q2 \in Int, NEW r2 \in 0..(w - 1), w * q + r = w * q2 + r2
  PROVE  r = r2
<1>1. CASE q = q2
  BY <1>1
<1>2. CASE q > q2
  <2>1. q - q2 >= 1 /\ w * (q - q2) = r2 - r
    BY <1>2
  <2>2. w * (q - q2) >= w
    BY <2>1, <1>2
  <2> QED
    BY <2>1, <2>2
<1>3. CASE q < q2
  <2>1. q2 - q >= 1 /\ w * (q2 - q) = r - r2
    BY <1>3
  <2>2. w * (q2 - q) >= w
    BY <2>1, <1>3
  <2> QED
    BY <2>1, <2>2
<1> QED
  BY <1>1, <1>2, <1>3

\* A multiple of w does not matter.
LEMMA Shift ==
  ASSUME NEW w \in Nat \ {0}, NEW q \in Int, NEW x \in Int
  PROVE  (x + w * q) % w = x % w
<1> DEFINE y == x + w * q
<1>1. y \in Int /\ y = x + w * q
  OBVIOUS
<1> HIDE DEF y
<1>2. /\ x \div w \in Int /\ x % w \in 0..(w - 1) /\ x = w * (x \div w) + (x % w)
      /\ y \div w \in Int /\ y % w \in 0..(w - 1) /\ y = w * (y \div w) + (y % w)
  BY <1>1, DivMod
<1> DEFINE d == x \div w
           e == y \div w
           r == x % w
           s == y % w
<1>3. /\ d \in Int /\ e \in Int /\ r \in 0..(w - 1) /\ s \in 0..(w - 1)
      /\ x = w * d + r /\ y = w * e + s
  BY <1>2
<1> HIDE DEF d, e, r, s
<1>4. w * (d + q) = w * d + w * q /\ d + q \in Int
  BY <1>3
<1>5. w * e + s = w * (d + q) + r
  BY <1>1, <1>3, <1>4
<1>6. s = r
  BY <1>3, <1>4, <1>5, UniqueRemainder
<1> QED
  BY <1>6 DEF s, r, y

\* Adding to a remainder is adding to the number.
LEMMA ModPlus ==
  ASSUME NEW w \in Nat \ {0}, NEW a \in Int, NEW b \in Int
  PROVE  ((a % w) + b) % w = (a + b) % w
<1>1. a + b = ((a % w) + b) + w * (a \div w)
  BY DivMod
<1>2. (a % w) + b \in Int /\ a \div w \in Int
  BY DivMod
<1> QED
  BY <1>1, <1>2, Shift

\* The counters of a step add up to what the step adds, wrapped or not.
LEMMA PlusSum ==
  ASSUME NEW a \in Count, NEW b \in Count, NEW c \in Int, NEW d \in Int, NEW e \in Int,
         Plus(a, b) = e % Width
  PROVE  Plus(Plus(a, c), Plus(b, d)) = (e + c + d) % Width
<1> USE StatusAssumption
<1>1. a \in Int /\ b \in Int /\ a + c \in Int /\ b + d \in Int /\ a + b \in Int
      /\ c + d \in Int /\ Width \in Nat \ {0}
  BY DEF Count
<1> DEFINE p == (a + c) % Width
           q == (b + d) % Width
<1>2. p \in Int /\ q \in Int
  BY <1>1, DivMod
<1>3. (p + q) % Width = ((a + c) + q) % Width
  BY <1>1, <1>2, ModPlus
<1>4. (q + (a + c)) % Width = ((b + d) + (a + c)) % Width
  BY <1>1, ModPlus
<1>5. (((a + b) % Width) + (c + d)) % Width = ((a + b) + (c + d)) % Width
  BY <1>1, ModPlus
<1>6. ((e % Width) + (c + d)) % Width = (e + (c + d)) % Width
  BY <1>1, ModPlus
<1>7. (a + b) % Width = e % Width
  BY DEF Plus
<1>8. (p + q) % Width = (e + (c + d)) % Width
  <2>1. (a + c) + q = q + (a + c) /\ (b + d) + (a + c) = (a + b) + (c + d)
    BY <1>1, <1>2
  <2> QED
    BY <2>1, <1>3, <1>4, <1>5, <1>6, <1>7
<1>9. e + (c + d) = e + c + d
  OBVIOUS
<1> QED
  BY <1>8, <1>9 DEF Plus

\* The packets passed over and not stored since.
Missing == (first..(next - 1)) \ stored

\* While the receiver records, the counters are about the packets first..(next - 1).
CountInv ==
  /\ bThreadState \in BOOLEAN /\ first \in Nat /\ next \in Nat /\ stats \in Counters
  /\ bThreadState /\ first = 0 => stats = Zeros /\ stored = {} /\ ~twice
  /\ bThreadState /\ first # 0 =>
       /\ first < next /\ stored \subseteq first..(next - 1)
       /\ Plus(stats.received, stats.zeroFilled) = (next - first) % Width
       /\ ~twice => stats.zeroFilled = Cardinality(Missing) % Width

LEMMA CountInvInit == Init => CountInv
  BY StatusAssumption DEF Init, CountInv, Counters, Zeros, Count

LEMMA MissingIsFinite ==
  ASSUME CountInv
  PROVE  IsFiniteSet(Missing) /\ Cardinality(Missing) \in Nat
<1>1. first \in Int /\ next - 1 \in Int
  BY DEF CountInv
<1>2. IsFiniteSet(first..(next - 1))
  BY <1>1, FS_Interval
<1>3. Missing \subseteq first..(next - 1)
  BY DEF Missing
<1> QED
  BY <1>2, <1>3, FS_Subset, FS_CardinalityType

\* ModPlus for the width of the counters.
LEMMA WidthPlus ==
  ASSUME NEW c \in Nat, NEW d \in Int
  PROVE  ((c % Width) + d) % Width = (c + d) % Width
<1>1. c \in Int /\ Width \in Nat \ {0}
  BY StatusAssumption
<1> QED
  BY <1>1, ModPlus

\* What every packet does to the counters.
LEMMA CountedPlus ==
  ASSUME CountInv, NEW r \in Int, NEW z \in Int, NEW o \in Int, Counted(r, z, o)
  PROVE  /\ stats' \in Counters /\ stats.received \in Count /\ stats.zeroFilled \in Count
         /\ stats'.received = Plus(stats.received, r)
         /\ stats'.zeroFilled = Plus(stats.zeroFilled, z)
<1>1. \A a \in Count, b \in Int : Plus(a, b) \in Count
  BY StatusAssumption, DivMod DEF Plus, Count
<1> QED
  BY <1>1 DEF Counted, CountInv, Counters

\* A packet that is due, or that comes after a gap: both leave the next one due.
LEMMA CountInvAhead ==
  ASSUME CountInv, bThreadState, NEW n \in Nat \ {0}, NEW z \in Nat, NEW o \in Int,
         Counted(1, z, o), bThreadState' \in BOOLEAN, next' \in Nat,
         bThreadState' => next' = n + 1 /\ Store(n),
         first' = IF first = 0 THEN n ELSE first,
         IF first = 0 THEN z = 0 ELSE n >= next /\ z = n - next
  PROVE  CountInv'
<1>1. first' \in Nat \ {0}
  BY DEF CountInv
<1>2. CASE ~bThreadState'
  BY <1>1, <1>2, CountedPlus DEF CountInv
<1>3. CASE bThreadState' /\ first = 0
  <2>1. /\ stored' = {n} /\ next' = n + 1 /\ first' = n /\ stats = Zeros
    BY <1>3 DEF CountInv, Store
  <2>2. stats.received = 0 /\ stats.zeroFilled = 0 /\ z = 0
    BY <2>1, <1>3 DEF Zeros
  <2>3. Plus(0, 0) = 0 % Width
    BY DEF Plus
  <2>4. Plus(stats'.received, stats'.zeroFilled) = (0 + 1 + 0) % Width
    BY <2>2, <2>3, CountedPlus, PlusSum
  <2>5. stats'.zeroFilled = 0 % Width
    BY <2>2, CountedPlus DEF Plus
  <2>6. Missing' = {}
    BY <2>1 DEF Missing
  <2>7. Cardinality(Missing') = 0
    BY <2>6, FS_EmptySet
  <2> QED
    BY <1>1, <2>1, <2>4, <2>5, <2>7, CountedPlus DEF CountInv
<1>4. CASE bThreadState' /\ first # 0
  <2>1. /\ first < next /\ stored \subseteq first..(next - 1) /\ next \in Nat /\ first \in Nat
        /\ Plus(stats.received, stats.zeroFilled) = (next - first) % Width
        /\ ~twice => stats.zeroFilled = Cardinality(Missing) % Width
    BY <1>4 DEF CountInv
  <2>2. n >= next /\ z = n - next /\ next' = n + 1 /\ first' = first
        /\ stored' = stored \cup {n} /\ twice' = (twice \/ n \in stored)
    BY <1>4 DEF Store
  <2>3. Plus(stats'.received, stats'.zeroFilled) = (next' - first') % Width
    <3>1. Plus(stats'.received, stats'.zeroFilled) = (next - first + 1 + z) % Width
      BY <2>1, CountedPlus, PlusSum
    <3>2. next - first + 1 + z = next' - first'
      BY <2>1, <2>2
    <3> QED
      BY <3>1, <3>2
  <2>4. stored' \subseteq first'..(next' - 1) /\ first' < next'
    BY <2>1, <2>2
  <2>5. Missing' = Missing \cup next..(n - 1) /\ Missing \cap next..(n - 1) = {}
    BY <2>1, <2>2 DEF Missing
  <2>6. Cardinality(Missing') = Cardinality(Missing) + z /\ Cardinality(Missing) \in Nat
    <3>1. IsFiniteSet(Missing) /\ Cardinality(Missing) \in Nat
      BY MissingIsFinite
    <3>2. IsFiniteSet(next..(n - 1)) /\ Cardinality(next..(n - 1)) = z
      <4>1. Cardinality(next..(n - 1)) = IF next > n - 1 THEN 0 ELSE (n - 1) - next + 1
        BY <2>1, FS_Interval
      <4> QED
        BY <4>1, <2>1, <2>2, FS_Interval
    <3>3. Cardinality({}) = 0
      BY FS_EmptySet
    <3> DEFINE gap == next..(n - 1)
    <3>4. IsFiniteSet(gap) /\ Cardinality(gap) = z /\ Missing' = Missing \cup gap
          /\ Missing \cap gap = {}
      BY <2>5, <3>2
    <3> HIDE DEF gap
    <3>5. Cardinality(Missing \cup gap) =
            Cardinality(Missing) + Cardinality(gap) - Cardinality(Missing \cap gap)
      BY <3>1, <3>4, FS_Union
    <3>6. Cardinality(Missing \cap gap) = 0
      BY <3>3, <3>4
    <3>7. Cardinality(Missing') = Cardinality(Missing \cup gap)
      BY <3>4
    <3>8. Cardinality(gap) = z
      BY <3>4
    <3> QED
      BY ONLY z \in Nat, <3>1, <3>5, <3>6, <3>7, <3>8
  <2>7. ~twice' => stats'.zeroFilled = Cardinality(Missing') % Width
    <3> SUFFICES ASSUME ~twice' PROVE stats'.zeroFilled = Cardinality(Missing') % Width
      OBVIOUS
    <3>1. stats.zeroFilled = Cardinality(Missing) % Width
      BY <2>1, <2>2
    <3>2. stats'.zeroFilled = ((Cardinality(Missing) % Width) + z) % Width
      BY <3>1, CountedPlus DEF Plus
    <3> QED
      BY <3>2, <2>6, WidthPlus
  <2> QED
    BY <1>1, <1>4, <2>2, <2>3, <2>4, <2>7, CountedPlus DEF CountInv
<1> QED
  BY <1>2, <1>3, <1>4

\* A late packet passes nothing; it fills its place, or comes too late for that.
LEMMA CountInvLate ==
  ASSUME CountInv, NEW n \in Nat \ {0}, ReceiveLate(n)
  PROVE  CountInv'
<1>1. /\ first # 0 /\ n < next /\ first' = first /\ next' = next
      /\ bThreadState' = bThreadState /\ bThreadState /\ next \in Nat /\ first \in Nat
  BY DEF ReceiveLate, Packet, CountInv
<1>2. /\ first < next /\ stored \subseteq first..(next - 1)
      /\ Plus(stats.received, stats.zeroFilled) = (next - first) % Width
      /\ ~twice => stats.zeroFilled = Cardinality(Missing) % Width
  BY <1>1 DEF CountInv
<1>3. CASE n >= first /\ Counted(1, -1, Late(n)) /\ Store(n)
  <2>0. Late(n) \in Int
    BY DEF Late
  <2>1. Plus(stats'.received, stats'.zeroFilled) = (next - first + 1 + (-1)) % Width
    BY <1>1, <1>2, <1>3, <2>0, CountedPlus, PlusSum
  <2>2. next - first + 1 + (-1) = next' - first'
    BY <1>1
  <2>3. stored' = stored \cup {n} /\ twice' = (twice \/ n \in stored)
    BY <1>3 DEF Store
  <2>4. ~twice' => stats'.zeroFilled = Cardinality(Missing') % Width
    <3> SUFFICES ASSUME ~twice' PROVE stats'.zeroFilled = Cardinality(Missing') % Width
      OBVIOUS
    <3>1. n \notin stored /\ ~twice
      BY <2>3
    <3>2. Missing' = Missing \ {n} /\ n \in Missing
      BY <1>1, <1>3, <2>3, <3>1 DEF Missing
    <3>3. IsFiniteSet(Missing) /\ Cardinality(Missing) \in Nat
      BY MissingIsFinite
    <3>4. Cardinality(Missing') = Cardinality(Missing) - 1
      BY <3>2, <3>3, FS_RemoveElement
    <3>5. stats'.zeroFilled = ((Cardinality(Missing) % Width) + (-1)) % Width
      BY <1>2, <1>3, <2>0, <3>1, CountedPlus DEF Plus
    <3>6. ((Cardinality(Missing) % Width) + (-1)) % Width = (Cardinality(Missing) + (-1)) % Width
      BY <3>3, WidthPlus
    <3> QED
      BY <3>3, <3>4, <3>5, <3>6
  <2>5. stored' \subseteq first'..(next' - 1)
    BY <1>1, <1>2, <1>3, <2>3
  <2>6. stats' \in Counters
    BY <1>3, <2>0, CountedPlus
  <2> QED
    BY <1>1, <1>2, <2>1, <2>2, <2>4, <2>5, <2>6 DEF CountInv
<1>4. CASE Counted(0, 0, Late(n)) /\ UNCHANGED <<stored, twice>>
  <2>0. Late(n) \in Int
    BY DEF Late
  <2>1. Plus(stats'.received, stats'.zeroFilled) = (next - first + 0 + 0) % Width
    BY <1>1, <1>2, <1>4, <2>0, CountedPlus, PlusSum
  <2>2. next - first + 0 + 0 = next' - first'
    BY <1>1
  <2>3. stats' \in Counters /\ stats'.zeroFilled = Plus(stats.zeroFilled, 0)
        /\ stats.zeroFilled \in Count
    BY <1>4, <2>0, CountedPlus
  <2>4. ~twice' => stats'.zeroFilled = Cardinality(Missing') % Width
    <3> SUFFICES ASSUME ~twice' PROVE stats'.zeroFilled = Cardinality(Missing') % Width
      OBVIOUS
    <3>1. Missing' = Missing /\ Cardinality(Missing) \in Nat
      <4>1. Missing' = Missing
        BY <1>1, <1>4 DEF Missing
      <4> QED
        BY <4>1, MissingIsFinite
    <3>2. stats.zeroFilled = Cardinality(Missing) % Width
      BY <1>2, <1>4
    <3>3. ((Cardinality(Missing) % Width) + 0) % Width = (Cardinality(Missing) + 0) % Width
      BY <3>1, WidthPlus
    <3> QED
      BY <2>3, <3>1, <3>2, <3>3 DEF Plus
  <2> QED
    BY <1>1, <1>2, <1>4, <2>1, <2>2, <2>3, <2>4 DEF CountInv
<1> QED
  BY <1>3, <1>4 DEF ReceiveLate

LEMMA CountInvNext == CountInv /\ [Next]_vars => CountInv'
<1> SUFFICES ASSUME CountInv, [Next]_vars PROVE CountInv'
  OBVIOUS
<1>1. ASSUME NEW n \in 1..MaxPkt, ReceiveNext(n) PROVE CountInv'
  <2>1. n \in Nat \ {0} /\ Late(n) \in Int /\ bThreadState /\ next \in Nat
        /\ bThreadState \in BOOLEAN
    BY <1>1, StatusAssumption DEF Late, ReceiveNext, Packet, CountInv
  <2>2. /\ Counted(1, 0, Late(n)) /\ first' = (IF first = 0 THEN n ELSE first)
        /\ first = 0 \/ n = next
        /\ bThreadState' \in BOOLEAN /\ next' \in Nat
        /\ bThreadState' => next' = n + 1 /\ Store(n)
    <3>1. /\ Counted(1, 0, Late(n)) /\ Store(n)
          /\ first = 0 \/ n = next
      BY <1>1 DEF ReceiveNext
    <3>2. first' = (IF first = 0 THEN n ELSE first)
      BY <1>1 DEF ReceiveNext, Packet
    <3>3. \/ next' = n + 1 /\ bThreadState' = bThreadState
          \/ next' = next /\ bThreadState' = FALSE
      BY <1>1 DEF ReceiveNext
    <3>4. bThreadState' \in BOOLEAN /\ next' \in Nat
      <4>1. n + 1 \in Nat
        BY <2>1
      <4>2. next' = n + 1 \/ next' = next
        BY <3>3
      <4>3. next' \in Nat
        BY <2>1, <4>1, <4>2
      <4>4. bThreadState' = bThreadState \/ bThreadState' = FALSE
        BY <3>3
      <4>5. bThreadState' \in BOOLEAN
        BY <2>1, <4>4
      <4> QED
        BY <4>3, <4>5
    <3>5. bThreadState' => next' = n + 1
      BY <3>3
    <3> QED
      BY <2>1, <3>1, <3>2, <3>3, <3>4, <3>5
  <2> QED
    BY <2>1, <2>2, CountInvAhead
<1>2. ASSUME NEW n \in 1..MaxPkt, ReceiveLate(n) PROVE CountInv'
  BY <1>2, CountInvLate
<1>3. ASSUME NEW n \in 1..MaxPkt, ReceiveAhead(n) PROVE CountInv'
  <2>1. n \in Nat \ {0} /\ Late(n) \in Int /\ bThreadState /\ next \in Nat
        /\ bThreadState \in BOOLEAN /\ first # 0 /\ n > next
    BY <1>3, StatusAssumption DEF Late, ReceiveAhead, Packet, CountInv
  <2>2. /\ Counted(1, n - next, Late(n)) /\ n - next \in Nat
        /\ first' = (IF first = 0 THEN n ELSE first)
        /\ bThreadState' \in BOOLEAN /\ next' \in Nat
        /\ bThreadState' => next' = n + 1 /\ Store(n)
    <3>1. Counted(1, n - next, Late(n)) /\ n - next \in Nat
      BY <1>3, <2>1 DEF ReceiveAhead
    <3>2. first' = (IF first = 0 THEN n ELSE first)
      BY <1>3 DEF ReceiveAhead, Packet
    <3>3. \/ next' = n + 1 /\ bThreadState' = bThreadState /\ Store(n)
          \/ next' = next /\ bThreadState' = FALSE
      BY <1>3 DEF ReceiveAhead
    <3>4. bThreadState' \in BOOLEAN /\ next' \in Nat
      <4>1. n + 1 \in Nat
        BY <2>1
      <4>2. next' = n + 1 \/ next' = next
        BY <3>3
      <4>3. next' \in Nat
        BY <2>1, <4>1, <4>2
      <4>4. bThreadState' = bThreadState \/ bThreadState' = FALSE
        BY <3>3
      <4>5. bThreadState' \in BOOLEAN
        BY <2>1, <4>4
      <4> QED
        BY <4>3, <4>5
    <3>5. bThreadState' => next' = n + 1
      BY <3>3
    <3> QED
      BY <2>1, <3>1, <3>2, <3>3, <3>4, <3>5
  <2> QED
    BY <2>1, <2>2, CountInvAhead
<1>4. CASE UNCHANGED <<bThreadState, first, next, stats, stored, twice>>
  BY <1>4 DEF CountInv, Missing
<1>5. ~Receive => UNCHANGED <<bThreadState, first, next, stats, stored, twice>>
  BY DEF Next, Receiver, Updater, Callback, Tell, Copy, Complete, UpdateWake, UpdateLoad,
         UpdateStore, UpdateWrite, UpdateReady, MainEnds, Ended, Notify, NotifyLoad,
         NotifyStore, NotifyAct, streamVars, vars
<1> QED
  BY <1>1, <1>2, <1>3, <1>4, <1>5 DEF Receive

\* The invariant of the counters holds.
THEOREM CountInductive == Spec => []CountInv
  BY CountInvInit, CountInvNext, PTL DEF Spec

\* The packets received and the packets filled with zeros (readData) add up to the packets
\* passed, for every width of the counters and every order of arrival.
THEOREM CountersAddUp == Spec => []ReceivedAndFilled
<1>1. CountInv => ReceivedAndFilled
  BY DEF CountInv, ReceivedAndFilled
<1> QED
  BY <1>1, CountInductive, PTL

\* u64NumOfZeroFilledPackets is the number of packets missing, and never wraps below zero,
\* unless a packet comes twice.
THEOREM ZeroFilledCountsMissing == Spec => []ZeroFilledIsExact
<1>1. CountInv => ZeroFilledIsExact
  BY DEF CountInv, ZeroFilledIsExact, Missing
<1> QED
  BY <1>1, CountInductive, PTL

-----------------------------------------------------------------------------
(* The types of the other variables.                                         *)

ReceiverOK ==
  /\ first \in 0..MaxPkt /\ next \in 0..(MaxPkt + 1) /\ prev \in 0..MaxPkt
  /\ stored \subseteq 1..MaxPkt /\ twice \in BOOLEAN /\ arrivals \in 0..MaxArrivals
  /\ dpc \in {"recv", "report", "copy", "completed", "done"}
  /\ report \in [count : Count, flag : BOOLEAN]

HandoverOK ==
  /\ gInlineStats \in Count /\ gbOutOfSeqSetFlag \in BOOLEAN
  /\ bReady \in BOOLEAN /\ sgnInlineSts \in BOOLEAN /\ bRecProgress \in BOOLEAN
  /\ upc \in {"wait", "load", "store", "write", "ready", "ended"} /\ uflag \in BOOLEAN
  /\ shown \in Count /\ cause \in Statuses \cup {"none", "REC_COMPLETED"}

TypesInv == CountInv /\ StatusInv /\ ReceiverOK /\ HandoverOK

LEMMA TypesInvInit == Init => TypesInv
<1> SUFFICES ASSUME Init PROVE TypesInv
  OBVIOUS
<1>1. CountInv /\ StatusInv
  BY CountInvInit, StatusInvInit
<1>2. /\ first \in 0..MaxPkt /\ next \in 0..(MaxPkt + 1) /\ prev \in 0..MaxPkt
      /\ arrivals \in 0..MaxArrivals /\ 0 \in Count
  BY StatusAssumption DEF Init, Count
<1>3. ReceiverOK /\ HandoverOK
  BY <1>2 DEF Init, ReceiverOK, HandoverOK
<1> QED
  BY <1>1, <1>3 DEF TypesInv

\* The variables of the receiver after a packet.
LEMMA ReceiverPacket ==
  ASSUME CountInv, CountInv', ReceiverOK, NEW n \in 1..MaxPkt,
         ReceiveNext(n) \/ ReceiveLate(n) \/ ReceiveAhead(n)
  PROVE  ReceiverOK'
<1> USE StatusAssumption
<1>1. /\ first' = (IF first = 0 THEN n ELSE first) /\ prev' = n
      /\ arrivals < MaxArrivals /\ arrivals' = arrivals + 1
  BY DEF ReceiveNext, ReceiveLate, ReceiveAhead, Packet
<1>2. next' = n + 1 \/ next' = next
  BY DEF ReceiveNext, ReceiveLate, ReceiveAhead
<1>3. \/ stored' = stored \cup {n} /\ twice' = (twice \/ n \in stored)
      \/ UNCHANGED <<stored, twice>>
  BY DEF ReceiveNext, ReceiveLate, ReceiveAhead, Store
<1>4. PICK flag \in BOOLEAN : Announce(flag)
  BY DEF ReceiveNext, ReceiveLate, ReceiveAhead
<1>5. /\ first' \in 0..MaxPkt /\ next' \in 0..(MaxPkt + 1) /\ prev' \in 0..MaxPkt
      /\ arrivals' \in 0..MaxArrivals
  BY <1>1, <1>2 DEF ReceiverOK
<1>6. stored' \subseteq 1..MaxPkt /\ twice' \in BOOLEAN
  BY <1>3 DEF ReceiverOK
<1>7. dpc' = "report" /\ report' \in [count : Count, flag : BOOLEAN]
  <2>1. stats'.outOfSeq \in Count
    BY DEF CountInv, Counters
  <2> QED
    BY <1>4, <2>1 DEF Announce
<1> QED
  BY <1>5, <1>6, <1>7 DEF ReceiverOK

LEMMA TypesInvNext == TypesInv /\ [Next]_vars => TypesInv'
<1> SUFFICES ASSUME TypesInv, [Next]_vars PROVE TypesInv'
  OBVIOUS
<1> USE DEF streamVars, handoverVars, updateVars, wordVars, callVars
<1>1. CountInv' /\ StatusInv'
  BY CountInvNext, StatusInvNext DEF TypesInv
<1>2. CASE Receive
  <2>1. ReceiverOK'
    BY <1>1, <1>2, ReceiverPacket DEF Receive, TypesInv
  <2>2. UNCHANGED <<handoverVars, bRecProgress, updateVars, cause>>
    BY <1>2 DEF Receive, ReceiveNext, ReceiveLate, ReceiveAhead, Packet
  <2> QED
    BY <1>1, <2>1, <2>2 DEF TypesInv, HandoverOK
<1>3. CASE Receiver
  <2>1. /\ UNCHANGED <<first, next, prev, stored, twice, arrivals, report>>
        /\ dpc' \in {"copy", "recv", "completed", "done"}
    BY <1>3 DEF Receiver, Tell, Copy, Complete
  <2>2. ReceiverOK'
    BY <2>1 DEF TypesInv, ReceiverOK
  <2>3. /\ gInlineStats' \in {gInlineStats, report.count}
        /\ gbOutOfSeqSetFlag' \in {gbOutOfSeqSetFlag, report.flag}
        /\ sgnInlineSts' \in {sgnInlineSts, TRUE} /\ cause' \in {cause, "REC_COMPLETED"}
        /\ UNCHANGED <<bReady, bRecProgress, upc, uflag, shown>>
    BY <1>3 DEF Receiver, Tell, Copy, Complete, AskStop
  <2>4. report.count \in Count /\ report.flag \in BOOLEAN
    BY DEF TypesInv, ReceiverOK
  <2>5. HandoverOK'
    BY <2>3, <2>4 DEF TypesInv, HandoverOK
  <2> QED
    BY <1>1, <2>2, <2>5 DEF TypesInv
<1>4. CASE Updater
  <2>1. /\ UNCHANGED <<first, next, prev, stored, twice, arrivals, report, dpc>>
        /\ UNCHANGED <<gInlineStats, gbOutOfSeqSetFlag, bRecProgress, cause>>
    BY <1>4 DEF Updater, UpdateWake, UpdateLoad, UpdateStore, UpdateWrite, UpdateReady
  <2>2. /\ bReady' \in {bReady, TRUE, FALSE} /\ sgnInlineSts' \in {sgnInlineSts, FALSE}
        /\ uflag' \in {uflag, gbOutOfSeqSetFlag} /\ shown' \in {shown, gInlineStats}
        /\ upc' \in {"wait", "load", "store", "write", "ready", "ended"}
    BY <1>4 DEF Updater, UpdateWake, UpdateLoad, UpdateStore, UpdateWrite, UpdateReady
  <2>3. ReceiverOK'
    BY <2>1 DEF TypesInv, ReceiverOK
  <2>4. HandoverOK'
    BY <2>1, <2>2 DEF TypesInv, HandoverOK
  <2> QED
    BY <1>1, <2>3, <2>4 DEF TypesInv
<1>5. CASE MainEnds
  <2>1. ReceiverOK' /\ HandoverOK'
    BY <1>5 DEF MainEnds, TypesInv, ReceiverOK, HandoverOK
  <2> QED
    BY <1>1, <2>1 DEF TypesInv
<1>6. CASE Ended \/ UNCHANGED vars
  <2>1. UNCHANGED vars
    BY <1>6 DEF Ended
  <2>2. UNCHANGED <<streamVars, handoverVars, bRecProgress, updateVars, cause>>
    BY <2>1 DEF vars
  <2>3. ReceiverOK' /\ HandoverOK'
    BY <2>2 DEF TypesInv, ReceiverOK, HandoverOK
  <2> QED
    BY <1>1, <2>3 DEF TypesInv
<1>7. ASSUME NEW t \in Reporters, Callback(t) \/ \E st \in Statuses : Notify(t, st)
      PROVE  TypesInv'
  <2>1. /\ UNCHANGED <<streamVars, handoverVars, bRecProgress, updateVars>>
        /\ cause' \in {cause, told[t]}
    <3>1. CASE \E st \in Statuses : Notify(t, st)
      BY <3>1 DEF Notify
    <3>2. CASE NotifyLoad(t) \/ NotifyStore(t)
      BY <3>2 DEF NotifyLoad, NotifyStore
    <3>3. CASE NotifyAct(t)
      BY <3>3 DEF NotifyAct, AskStop
    <3> QED
      BY <1>7, <3>1, <3>2, <3>3 DEF Callback
  <2>2. told[t] \in Statuses \cup {"none"}
    BY DEF TypesInv, StatusInv, CallInv
  <2>3. ReceiverOK' /\ HandoverOK'
    BY <2>1, <2>2 DEF TypesInv, ReceiverOK, HandoverOK
  <2> QED
    BY <1>1, <2>3 DEF TypesInv
<1> QED
  BY <1>2, <1>3, <1>4, <1>5, <1>6, <1>7 DEF Next

\* The types, for every number of packets, every width of the counters and every set of
\* statuses: what a query is shown is a counter, and the word holds only known bits.
THEOREM StatusTypeCorrect == Spec => []TypeOK
<1>1. TypesInv => TypeOK
  BY DEF TypesInv, CountInv, StatusInv, CallInv, ReceiverOK, HandoverOK, TypeOK
<1> QED
  BY <1>1, TypesInvInit, TypesInvNext, PTL DEF Spec
=============================================================================
