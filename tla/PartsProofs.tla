----------------------------- MODULE PartsProofs -----------------------------
(* The theorems of StatsWindow, ResponseDiff, LatencyRing, Exports, Cards and *)
(* StatusLine, for every width of the window and of the terminal, every       *)
(* clock, any routes, deliveries, bodies, samples, runs, commands, limits and *)
(* texts.                                                                     *)
EXTENDS SessionParts, Drawing, Sequences, FiniteSetsExt, FiniteSetTheorems, TLAPS

----------------------------------------------------------------------------
(* Numbers.                                                                   *)

\* Induction over the numbers, for a set of them.
LEMMA SetInduction ==
    ASSUME NEW S \in SUBSET Nat, 0 \in S, \A n \in S : n + 1 \in S
    PROVE  S = Nat
<1> SUFFICES ASSUME NEW n \in Nat, n \notin S PROVE FALSE
    OBVIOUS
<1> DEFINE T == {0..k : k \in Nat \ S}
           R == StrictSubsetOrdering(Nat)
<1>1. T \subseteq FiniteSubsetsOf(Nat) /\ T # {}
    <2>1. \A k \in Nat : IsFiniteSet(0..k) /\ 0..k \subseteq Nat
        BY FS_Interval
    <2>2. QED
        BY <2>1 DEF FiniteSubsetsOf
<1>2. PICK s \in T : \A t \in T : <<t, s>> \notin R
    <2>1. IsWellFoundedOn(R, FiniteSubsetsOf(Nat))
        BY FS_StrictSubsetOrderingWellFounded
    <2> HIDE DEF T, R
    <2>2. QED
        BY <1>1, <2>1, WFMin
<1>3. PICK k \in Nat \ S : s = 0..k
    OBVIOUS
<1>4. k # 0 /\ k - 1 \in Nat \ S
    OBVIOUS
<1>5. 0..(k - 1) \in T
    BY <1>4
<1>6. /\ 0..(k - 1) \in SUBSET Nat /\ 0..k \in SUBSET Nat
      /\ 0..(k - 1) \subseteq 0..k /\ k \in 0..k /\ k \notin 0..(k - 1)
    BY <1>4
<1>7. <<0..(k - 1), 0..k>> \in R
    BY <1>6 DEF StrictSubsetOrdering
<1>8. QED
    BY <1>2, <1>3, <1>5, <1>7

----------------------------------------------------------------------------
(* StatsWindow.  A window fits a history when each slot is the history's      *)
(* count of its minute and the history has nothing after the window's last    *)
(* minute; moving a window on keeps the fit, and counting a delivery in both  *)
(* keeps it too.                                                              *)

WindowType == [minutes : [Slots -> Nat], minute : Minutes \cup {Never}]

At(f, minute) == IF minute \in Minutes THEN f[minute] ELSE 0

Fits(s, f) ==
    /\ \A i \in Slots : s.minutes[i] = At(f, s.minute - (StatsMinutes - 1) + i)
    /\ \A m \in Minutes : m > s.minute => f[m] = 0

\* What every step keeps.
Inv == TypeOK /\ \A k \in Kinds : Fits(stats[k], received[k])

----------------------------------------------------------------------------
(* Lemmas about the window.                                                 *)

\* Numbers, whatever the constants.
LEMMA MinutesAreNumbers ==
    /\ StatsMinutes \in Nat /\ StatsMinutes >= 1
    /\ FirstMinute \in Nat /\ FirstMinute >= StatsMinutes
    /\ Slots = {i \in Int : 0 <= i /\ i <= StatsMinutes - 1}
    /\ Minutes = {m \in Int : FirstMinute <= m /\ m <= MaxMinute}
    /\ Never = 0
BY WindowAssumption DEF Slots, Minutes, Never

\* Moving a window on keeps its type and its history, and ends it at the later
\* of the two minutes.
LEMMA ShiftFits ==
    ASSUME NEW s \in WindowType, NEW f \in [Minutes -> Nat], Fits(s, f), NEW minute \in Minutes
    PROVE  /\ Shift(s, minute) \in WindowType
           /\ Shift(s, minute).minute = Later(s.minute, minute)
           /\ Fits(Shift(s, minute), f)
<1> DEFINE gone == minute - s.minute
           w == [i \in Slots |-> IF i + gone \in Slots THEN s.minutes[i + gone] ELSE 0]
<1>1. s.minute \in Int /\ minute \in Int
  BY MinutesAreNumbers DEF WindowType
<1>2. CASE gone <= 0
  BY <1>1, <1>2 DEF Shift, Later
<1>3. CASE gone > 0
  <2>1. Shift(s, minute) = [minute |-> minute, minutes |-> w]
    BY <1>1, <1>3 DEF Shift
  <2>2. w \in [Slots -> Nat]
    BY DEF WindowType
  <2>3. ASSUME NEW i \in Slots
        PROVE  w[i] = At(f, minute - (StatsMinutes - 1) + i)
    <3>1. CASE i + gone \in Slots
      <4>1. w[i] = At(f, s.minute - (StatsMinutes - 1) + (i + gone))
        BY <3>1 DEF Fits
      <4>2. s.minute - (StatsMinutes - 1) + (i + gone) = minute - (StatsMinutes - 1) + i
        BY <1>1, MinutesAreNumbers
      <4> QED
        BY <4>1, <4>2
    <3>2. CASE i + gone \notin Slots
      <4>1. w[i] = 0
        BY <3>2
      <4>2. minute - (StatsMinutes - 1) + i > s.minute
        BY <3>2, <1>1, <1>3, MinutesAreNumbers
      <4> QED
        BY <4>1, <4>2 DEF Fits, At
    <3> QED
      BY <3>1, <3>2
  <2>4. ASSUME NEW m \in Minutes, m > minute
        PROVE  f[m] = 0
    <3>1. m > s.minute
      BY <2>4, <1>1, <1>3, MinutesAreNumbers
    <3> QED
      BY <3>1 DEF Fits
  <2> HIDE DEF w
  <2>5. Later(s.minute, minute) = minute
    BY <1>1, <1>3 DEF Later
  <2> QED
    BY <2>1, <2>2, <2>3, <2>4, <2>5 DEF WindowType, Fits
<1> QED
  BY <1>1, <1>2, <1>3

\* A delivery counted in a window and in its history keeps the two together, the
\* one that came in before the window began included.
LEMMA CountFits ==
    ASSUME NEW s \in WindowType, NEW f \in [Minutes -> Nat], Fits(s, f), NEW minute \in Minutes
    PROVE  /\ CountIn(s, minute) \in WindowType
           /\ Fits(CountIn(s, minute), [f EXCEPT ![minute] = @ + 1])
<1> DEFINE w == Shift(s, minute)
           g == [f EXCEPT ![minute] = @ + 1]
           slot == StatsMinutes - 1 - (w.minute - minute)
<1>1. w \in WindowType /\ Fits(w, f) /\ w.minute = Later(s.minute, minute)
  BY ShiftFits
<1>2. s.minute \in Int /\ minute \in Int /\ w.minute \in Int /\ w.minute >= minute
  BY <1>1, MinutesAreNumbers DEF WindowType, Later
<1>3. CountIn(s, minute) = IF w.minute - minute < StatsMinutes
                           THEN [w EXCEPT !.minutes[slot] = @ + 1] ELSE w
  BY DEF CountIn
<1> HIDE DEF w
<1>4. g \in [Minutes -> Nat] /\ g[minute] = f[minute] + 1
  BY DEF g
<1>5. \A m \in Minutes : m # minute => g[m] = f[m]
  BY DEF g
<1> HIDE DEF g
<1>6. \A m \in Minutes : m > w.minute => g[m] = 0
  <2> SUFFICES ASSUME NEW m \in Minutes, m > w.minute PROVE g[m] = 0
    OBVIOUS
  <2>1. m # minute
    BY <1>2, MinutesAreNumbers
  <2> QED
    BY <2>1, <1>1, <1>5 DEF Fits
<1>7. CASE w.minute - minute < StatsMinutes
  <2> DEFINE x == [w EXCEPT !.minutes[slot] = @ + 1]
  <2>1. slot \in Slots
    BY <1>2, <1>7, MinutesAreNumbers
  <2>2. x.minute = w.minute /\ x.minutes = [w.minutes EXCEPT ![slot] = @ + 1]
    BY <1>1 DEF WindowType
  <2>3. x \in WindowType
    BY <1>1, <2>1 DEF WindowType
  <2>4. ASSUME NEW i \in Slots
        PROVE  x.minutes[i] = At(g, x.minute - (StatsMinutes - 1) + i)
    <3>1. w.minutes[i] = At(f, w.minute - (StatsMinutes - 1) + i)
      BY <1>1 DEF Fits
    <3>2. i = slot <=> w.minute - (StatsMinutes - 1) + i = minute
      BY <1>2, MinutesAreNumbers
    <3>3. CASE i = slot
      <4>1. w.minute - (StatsMinutes - 1) + i = minute
        BY <3>2, <3>3
      <4>2. x.minutes[i] = w.minutes[i] + 1
        BY <2>1, <2>2, <3>3, <1>1 DEF WindowType
      <4> QED
        BY <3>1, <4>1, <4>2, <2>2, <1>4 DEF At
    <3>4. CASE i # slot
      <4>1. w.minute - (StatsMinutes - 1) + i # minute
        BY <3>2, <3>4
      <4>2. x.minutes[i] = w.minutes[i]
        BY <2>1, <2>2, <3>4, <1>1 DEF WindowType
      <4> HIDE DEF x
      <4> QED
        BY <3>1, <4>1, <4>2, <2>2, <1>5 DEF At
    <3> QED
      BY <3>3, <3>4
  <2> HIDE DEF x
  <2>5. Fits(x, g)
    BY <2>4, <1>6, <2>2 DEF Fits
  <2> QED
    BY <1>3, <1>7, <2>3, <2>5 DEF x, g
<1>8. CASE ~ (w.minute - minute < StatsMinutes)
  <2>1. ASSUME NEW i \in Slots
        PROVE  w.minutes[i] = At(g, w.minute - (StatsMinutes - 1) + i)
    <3>1. w.minute - (StatsMinutes - 1) + i # minute
      BY <1>2, <1>8, MinutesAreNumbers
    <3> QED
      BY <3>1, <1>1, <1>5 DEF Fits, At
  <2>2. Fits(w, g)
    BY <2>1, <1>6 DEF Fits
  <2> QED
    BY <1>1, <1>3, <1>8, <2>2 DEF g
<1> QED
  BY <1>7, <1>8

----------------------------------------------------------------------------
(* The invariant.                                                           *)

LEMMA InitInv == Init => Inv
<1> SUFFICES ASSUME Init PROVE Inv
  OBVIOUS
<1>1. TypeOK
  <2>1. Cardinality({}) = 0
    BY FS_EmptySet
  <2> QED
    BY <2>1, WindowAssumption DEF Init, TypeOK, Empty, Slots, Never
<1>2. ASSUME NEW k \in Kinds
      PROVE  Fits(stats[k], received[k])
  BY DEF Init, Fits, At, Empty
<1> QED
  BY <1>1, <1>2 DEF Inv

LEMMA NextInv == Inv /\ [Next]_vars => Inv'
<1> SUFFICES ASSUME Inv, [Next]_vars PROVE Inv'
  OBVIOUS
<1> USE DEF Inv
<1>1. \A k \in Kinds : stats[k] \in WindowType /\ received[k] \in [Minutes -> Nat]
  BY DEF TypeOK, WindowType
<1>2. CASE SetClock
  BY <1>2 DEF SetClock, TypeOK, Fits, At
<1>3. CASE Receive
  <2>1. handling' \subseteq Delivery /\ Cardinality(handling') <= 1
    <3> PICK route \in Routes \cup {Unrouted} : handling' = {[received |-> clock, route |-> route]}
      BY <1>3 DEF Receive
    <3>1. Cardinality(handling') = 1
      BY FS_Singleton
    <3> QED
      BY <3>1 DEF Delivery, TypeOK
  <2>2. requests' \in 0..MaxRequests
    BY <1>3, WindowAssumption DEF Receive, TypeOK
  <2> QED
    BY <1>3, <2>1, <2>2 DEF Receive, TypeOK, Fits, At
<1>4. ASSUME NEW d \in handling, Record(d)
      PROVE  Inv'
  <2>1. d.received \in Minutes /\ clock \in Minutes
    BY DEF TypeOK, Delivery
  <2>2. ASSUME NEW k \in Kinds
        PROVE  /\ stats'[k] \in WindowType
               /\ received'[k] \in [Minutes -> Nat]
               /\ Fits(stats'[k], received'[k])
    <3>1. CASE k \in CountedIn(d.route)
      <4> DEFINE f == [received[k] EXCEPT ![d.received] = @ + 1]
                 s == CountIn(stats[k], d.received)
      <4>1. stats'[k] = Shift(s, clock) /\ received'[k] = f
        BY <1>4, <3>1 DEF Record
      <4>2. s \in WindowType /\ Fits(s, f)
        BY <1>1, <2>1, CountFits
      <4>3. f \in [Minutes -> Nat]
        BY <1>1, <2>1
      <4> HIDE DEF f, s
      <4> QED
        BY <4>1, <4>2, <4>3, <2>1, ShiftFits
    <3>2. CASE k \notin CountedIn(d.route)
      BY <1>1, <1>4, <3>2 DEF Record
    <3> QED
      BY <3>1, <3>2
  <2>3. stats' \in [Kinds -> WindowType] /\ received' \in [Kinds -> [Minutes -> Nat]]
    BY <1>4, <2>2 DEF Record
  <2>4. handling' = {} /\ Cardinality(handling') = 0
    BY <1>4, FS_EmptySet DEF Record
  <2> QED
    BY <1>4, <2>2, <2>3, <2>4 DEF Record, TypeOK, WindowType
<1>5. CASE RecordReplay
  <2>1. ASSUME NEW k \in Kinds
        PROVE  stats'[k] \in WindowType /\ Fits(stats'[k], received[k])
    <3>1. stats'[k] = stats[k] \/ stats'[k] = Shift(stats[k], clock)
      BY <1>5 DEF RecordReplay
    <3>2. clock \in Minutes
      BY DEF TypeOK
    <3> QED
      BY <1>1, <3>1, <3>2, ShiftFits
  <2>2. stats' \in [Kinds -> WindowType]
    BY <1>5, <2>1 DEF RecordReplay
  <2> QED
    BY <1>5, <2>1, <2>2 DEF RecordReplay, TypeOK, WindowType
<1>6. CASE UNCHANGED vars
  BY <1>6 DEF vars, TypeOK, Fits, At
<1> QED
  BY <1>2, <1>3, <1>4, <1>5, <1>6 DEF Next

THEOREM Invariance == Spec => []Inv
BY InitInv, NextInv, PTL DEF Spec

----------------------------------------------------------------------------
(* The theorems.                                                            *)

\* Every variable keeps its type: no counter is written outside its window.
THEOREM TypeCorrect == Spec => []TypeOK
<1>1. Inv => TypeOK
  BY DEF Inv
<1> QED
  BY <1>1, Invariance, PTL

LEMMA FitsIsWindow ==
    ASSUME NEW k \in Kinds, NEW s \in WindowType, Fits(s, received[k])
    PROVE  s.minutes = Window(k, s.minute)
BY DEF Fits, At, Window, Received, WindowType

\* Each slot of each window is the number of deliveries that came in in its minute.
THEOREM WindowCorrect == Spec => []WindowCountsEachMinute
<1>1. Inv => WindowCountsEachMinute
  BY FitsIsWindow DEF Inv, TypeOK, WindowType, WindowCountsEachMinute
<1> QED
  BY <1>1, Invariance, PTL

\* And so it is when a snapshot is moved on and drawn later.
THEOREM SparklineCorrect == Spec => []SparklineIsTrue
<1>1. Inv => SparklineIsTrue
  <2> SUFFICES ASSUME Inv, NEW k \in Kinds
               PROVE  PerMinuteAt(stats[k], clock) = Window(k, Later(stats[k].minute, clock))
    BY DEF SparklineIsTrue
  <2>1. stats[k] \in WindowType /\ received[k] \in [Minutes -> Nat] /\ clock \in Minutes
    BY DEF Inv, TypeOK, WindowType
  <2>2. /\ Shift(stats[k], clock) \in WindowType
        /\ Shift(stats[k], clock).minute = Later(stats[k].minute, clock)
        /\ Fits(Shift(stats[k], clock), received[k])
    BY <2>1, ShiftFits DEF Inv
  <2> QED
    BY <2>2, FitsIsWindow DEF PerMinuteAt
<1> QED
  BY <1>1, Invariance, PTL

\* Whatever the clock does, the statistics and the sparkline are true.
THEOREM StatisticsCorrect == Spec => []StatisticsAreTrue
BY WindowCorrect, SparklineCorrect, PTL DEF StatisticsAreTrue

----------------------------------------------------------------------------
(* ResponseDiff: a comparison leaves out only what both sides share, none of  *)
(* it twice, and shares its room fairly.                                      *)

\* Stripping strengthens DiffTypeOK: what is kept is nothing until the end, and what
\* it is then fills the room or is all there is.
Fair ==
    /\ phase # "end" => keepRemoved = 0 /\ keepAdded = 0
    /\ phase \in {"front", "back", "keep"} => Compared
    /\ BothSidesShow

\* The front was stripped as far as it goes before the back is.
FrontIsStripped ==
    phase \in {"back", "keep", "end"} /\ Compared /\ BothLeft => before[front + 1] # after[front + 1]

DiffInv == DiffTypeOK /\ OnlySharedLinesAreLeftOut /\ FrontIsStripped /\ FirstLinesDiffer /\ Fair

\* The bodies compared are sequences of lines.
LEMMA BodiesAreSequences == \A body \in Bodies : body \in Seq(TextLine) /\ Len(body) \in Nat
  <1>1. SUFFICES ASSUME NEW n \in 0..MaxLines, NEW body \in [1..n -> TextLine]
                 PROVE  body \in Seq(TextLine) /\ Len(body) \in Nat
    BY DEF Bodies
  <1>2. n \in Nat
    BY DiffAssumption
  <1> QED
    BY <1>2

\* The invariant holds of any two bodies before Compare begins.
LEMMA DiffInvInit == DiffInit => DiffInv
  <1> SUFFICES ASSUME DiffInit PROVE DiffInv
    OBVIOUS
  <1>1. before \in Seq(TextLine) /\ Len(before) \in Nat /\ after \in Seq(TextLine) /\ Len(after) \in Nat
    BY BodiesAreSequences DEF DiffInit
  <1>2. DiffTypeOK
    <2>1. Removed = Len(before) /\ Added = Len(after)
      BY <1>1 DEF DiffInit, Removed, Added
    <2>2. failed \in BOOLEAN /\ texts \in BOOLEAN /\ equal \in BOOLEAN /\ binary \in BOOLEAN
      BY Zenon DEF DiffInit
    <2>3. /\ phase = "begin" /\ front = 0 /\ back = 0 /\ keepRemoved = 0 /\ keepAdded = 0
      BY DEF DiffInit
    <2> QED
      BY <1>1, <2>1, <2>2, <2>3 DEF DiffTypeOK
  <1>3. OnlySharedLinesAreLeftOut
    BY <1>1 DEF DiffInit, OnlySharedLinesAreLeftOut
  <1>4. Fair /\ FrontIsStripped /\ FirstLinesDiffer
    BY DEF DiffInit, Fair, BothSidesShow, FrontIsStripped, FirstLinesDiffer
  <1> QED
    BY <1>2, <1>3, <1>4 DEF DiffInv

\* The lengths of bodies are numbers.
LEMMA Lengths ==
    ASSUME DiffTypeOK
    PROVE  /\ Len(before) \in Nat /\ Len(after) \in Nat
           /\ Removed \in Nat /\ Added \in Nat
  BY DEF DiffTypeOK, Removed, Added

\* Deciding what to compare keeps it.
LEMMA BeginInv == DiffInv /\ Begin => DiffInv'
  <1> SUFFICES ASSUME DiffInv, Begin PROVE DiffInv'
    OBVIOUS
  <1>1. DiffTypeOK'
    BY Lengths DEF DiffInv, DiffTypeOK, Begin, Removed, Added, Compared
  <1>2. OnlySharedLinesAreLeftOut'
    BY DEF DiffInv, OnlySharedLinesAreLeftOut, Begin
  <1>3. Fair'
    BY DEF DiffInv, Fair, Begin, BothSidesShow, Compared
  <1>4. FrontIsStripped' /\ FirstLinesDiffer'
    BY DEF Begin, FrontIsStripped, FirstLinesDiffer, Compared
  <1> QED
    BY <1>1, <1>2, <1>3, <1>4 DEF DiffInv

\* A line stripped from the front is one both sides share.
LEMMA StripFrontInv == DiffInv /\ StripFront => DiffInv'
  <1> SUFFICES ASSUME DiffInv, StripFront PROVE DiffInv'
    OBVIOUS
  <1>0. Len(before) \in Nat /\ Len(after) \in Nat /\ front \in Nat /\ back \in Nat
    BY Lengths DEF DiffInv, DiffTypeOK
  <1>1. DiffTypeOK'
    BY <1>0, SMTT(30) DEF DiffInv, Fair, DiffTypeOK, StripFront, Removed, Added
  <1>2. OnlySharedLinesAreLeftOut'
    <2>0. front' + back' <= Len(before') /\ front' + back' <= Len(after')
      BY <1>0 DEF DiffInv, OnlySharedLinesAreLeftOut, StripFront, Removed, Added
    <2>1. CASE front' = front
      BY <2>0, <2>1 DEF DiffInv, OnlySharedLinesAreLeftOut, StripFront
    <2>2. CASE front' = front + 1 /\ before[front + 1] = after[front + 1]
      <3>1. \A i \in 1..front + 1 : i \in 1..front \/ i = front + 1
        BY <1>0
      <3> QED
        BY <2>0, <2>2, <3>1 DEF DiffInv, OnlySharedLinesAreLeftOut, StripFront
    <2> QED
      BY <2>1, <2>2 DEF StripFront
  <1>3. Fair'
    BY DEF DiffInv, Fair, StripFront, BothSidesShow, Compared
  <1>4. FrontIsStripped' /\ FirstLinesDiffer'
    BY DEF StripFront, FrontIsStripped, FirstLinesDiffer, BothLeft, Removed, Added
  <1> QED
    BY <1>1, <1>2, <1>3, <1>4 DEF DiffInv

\* So is one stripped from the back, of what the front left.
LEMMA StripBackInv == DiffInv /\ StripBack => DiffInv'
  <1> SUFFICES ASSUME DiffInv, StripBack PROVE DiffInv'
    OBVIOUS
  <1>0. Len(before) \in Nat /\ Len(after) \in Nat /\ front \in Nat /\ back \in Nat
    BY Lengths DEF DiffInv, DiffTypeOK
  <1>1. DiffTypeOK'
    BY <1>0 DEF DiffInv, Fair, DiffTypeOK, StripBack, BothLeft, Removed, Added
  <1>2. OnlySharedLinesAreLeftOut'
    <2>0. front' + back' <= Len(before') /\ front' + back' <= Len(after')
      BY <1>0 DEF DiffInv, OnlySharedLinesAreLeftOut, StripBack, BothLeft, Removed, Added
    <2>1. CASE back' = back
      BY <2>0, <2>1 DEF DiffInv, OnlySharedLinesAreLeftOut, StripBack
    <2>2. CASE back' = back + 1 /\ LastIsShared
      <3>1. \A i \in 1..back + 1 : i \in 1..back \/ i = back + 1
        BY <1>0
      <3>2. before[Len(before) - (back + 1) + 1] = after[Len(after) - (back + 1) + 1]
        <4>1. /\ Len(before) - (back + 1) + 1 = Len(before) - back
              /\ Len(after) - (back + 1) + 1 = Len(after) - back
          BY <1>0
        <4> QED
          BY <2>2, <4>1 DEF LastIsShared
      <3> QED
        BY <2>0, <2>2, <3>1, <3>2 DEF DiffInv, OnlySharedLinesAreLeftOut, StripBack
    <2> QED
      BY <2>1, <2>2 DEF StripBack
  <1>3. Fair'
    BY DEF DiffInv, Fair, StripBack, BothSidesShow, Compared
  <1>4. FrontIsStripped'
    BY <1>0 DEF DiffInv, StripBack, FrontIsStripped, BothLeft, Removed, Added, Compared
  <1>5. FirstLinesDiffer'
    BY <1>0, <1>4 DEF DiffInv, StripBack, FrontIsStripped, FirstLinesDiffer, LastIsShared, BothLeft, Removed, Added, Compared
  <1> QED
    BY <1>1, <1>2, <1>3, <1>4, <1>5 DEF DiffInv

\* How the room is shared between removed and added lines.
Shared(removed, added, most, kr, ka) ==
    /\ kr \in 0..removed /\ ka \in 0..added
    /\ kr + ka <= most
    /\ removed + added - kr - ka > 0 => kr + ka = most
    /\ kr >= MinOf(removed, most \div 2)
    /\ ka >= MinOf(added, most \div 2)

\* For any counts of them and any limit.
LEMMA RoomIsShared ==
    ASSUME NEW r \in Nat, NEW a \in Nat, NEW most \in Nat
    PROVE  LET kr == MinOf(r, MaxOf(most \div 2, most - a))
               ka == MinOf(a, most - kr)
           IN  Shared(r, a, most, kr, ka)
  <1> DEFINE half == most \div 2
  <1>1. half \in Nat /\ 2 * half <= most
    BY SMT
  <1> HIDE DEF half
  <1>2. \A kr, ka : kr = MinOf(r, MaxOf(half, most - a)) /\ ka = MinOf(a, most - kr)
          => /\ kr \in 0..r /\ ka \in 0..a
             /\ kr + ka <= most
             /\ r + a - kr - ka > 0 => kr + ka = most
             /\ kr >= MinOf(r, half) /\ ka >= MinOf(a, half)
    BY <1>1, SMTT(30) DEF MinOf, MaxOf
  <1> QED
    BY <1>2 DEF half, Shared

\* What is kept fills the room or is all there is.
LEMMA KeepInv == DiffInv /\ Keep => DiffInv'
  <1> SUFFICES ASSUME DiffInv, Keep PROVE DiffInv'
    OBVIOUS
  <1>0. /\ Removed \in Nat /\ Added \in Nat /\ MaxDiffLines \in Nat
        /\ Removed' = Removed /\ Added' = Added /\ Compared' = Compared
    BY Lengths, DiffAssumption DEF DiffInv, Keep, Removed, Added, Compared
  <1>1. /\ keepRemoved' \in 0..Removed /\ keepAdded' \in 0..Added
        /\ keepRemoved' + keepAdded' <= MaxDiffLines
        /\ Removed + Added - keepRemoved' - keepAdded' > 0
             => keepRemoved' + keepAdded' = MaxDiffLines
        /\ keepRemoved' >= MinOf(Removed, MaxDiffLines \div 2)
        /\ keepAdded' >= MinOf(Added, MaxDiffLines \div 2)
    <2>1. /\ keepRemoved' = MinOf(Removed, MaxOf(MaxDiffLines \div 2, MaxDiffLines - Added))
          /\ keepAdded' = MinOf(Added, MaxDiffLines - keepRemoved')
      BY DEF Keep, RoomForRemoved
    <2>2. \A r, a, most \in Nat :
            LET kr == MinOf(r, MaxOf(most \div 2, most - a))
                ka == MinOf(a, most - kr)
            IN  Shared(r, a, most, kr, ka)
      BY RoomIsShared DEF Shared
    <2>3. Shared(Removed, Added, MaxDiffLines, keepRemoved', keepAdded')
      BY <1>0, <2>1, <2>2, Zenon
    <2> QED
      BY <2>3 DEF Shared
  <1>2. DiffTypeOK'
    BY <1>0, <1>1 DEF DiffInv, DiffTypeOK, Keep
  <1>3. OnlySharedLinesAreLeftOut'
    BY DEF DiffInv, OnlySharedLinesAreLeftOut, Keep
  <1>4. BothSidesShow'
    BY <1>0, <1>1 DEF BothSidesShow, More
  <1>5. Fair'
    BY <1>4 DEF Fair, Keep
  <1>6. FrontIsStripped' /\ FirstLinesDiffer'
    BY DEF DiffInv, Keep, FrontIsStripped, FirstLinesDiffer, LastIsShared, BothLeft, Removed, Added, Compared
  <1> QED
    BY <1>2, <1>3, <1>5, <1>6 DEF DiffInv

\* A step that changes nothing keeps it.
LEMMA DiffInvStutter == DiffInv /\ UNCHANGED diffVars => DiffInv'
  BY DEF DiffInv, Fair, DiffTypeOK, OnlySharedLinesAreLeftOut, BothSidesShow, Removed, Added, More, Compared, diffVars,
         FrontIsStripped, FirstLinesDiffer, LastIsShared, BothLeft

\* Compare's invariant.
THEOREM DiffInvariance == DiffSpec => []DiffInv
  <1>1. DiffInv /\ [DiffNext]_diffVars => DiffInv'
    BY BeginInv, StripFrontInv, StripBackInv, KeepInv, DiffInvStutter DEF DiffNext
  <1> QED
    BY DiffInvInit, <1>1, PTL DEF DiffSpec

\* Types, and no more lines are kept than are left.
THEOREM DiffTypeCorrect == DiffSpec => []DiffTypeOK
  BY DiffInvariance, PTL DEF DiffInv

\* Whatever the bodies, only lines both sides share are left out, none twice.
THEOREM DiffIsTrue == DiffSpec => []OnlySharedLinesAreLeftOut
  BY DiffInvariance, PTL DEF DiffInv

\* Whatever the bodies, the lines shown begin and end with ones that differ.
THEOREM ShownLinesDiffer == DiffSpec => []FirstLinesDiffer
  BY DiffInvariance, PTL DEF DiffInv

\* Whatever the bodies and the limit, both sides show as much as they may.
THEOREM RoomIsFair == DiffSpec => []BothSidesShow
  <1>1. DiffInv => BothSidesShow
    BY DEF DiffInv, Fair
  <1> QED
    BY DiffInvariance, <1>1, PTL

\* Whatever the bodies and the limit, a comparison leaves out only shared lines,
\* each once, shows the first that differ, and is fair to both sides.
THEOREM ComparisonCorrect == DiffSpec => []ComparisonIsTrue
  BY DiffIsTrue, ShownLinesDiffer, RoomIsFair, PTL DEF ComparisonIsTrue

----------------------------------------------------------------------------
(* LatencyRing.                                                               *)

\* percentile never indexes outside the samples, and its rank is the least that
\* covers p percent of them.
THEOREM RankIsNearest ==
    ASSUME NEW n \in Nat \ {0}, NEW p \in 1..100
    PROVE  /\ Ring!Rank(n, p) \in 1..n
           /\ 100 * Ring!Rank(n, p) >= n * p
           /\ \A r \in Nat : 100 * r >= n * p => r >= Ring!Rank(n, p)
<1> DEFINE k == n * p
<1>1. k \in Nat /\ 1 <= k /\ k <= 100 * n
  <2>1. n * p >= n * 1
    BY SMT
  <2>2. n * p <= n * 100
    BY SMT
  <2> QED
    BY <2>1, <2>2
<1> HIDE DEF k
<1>2. (k + 99) \div 100 \in 1..n
  BY <1>1
<1>3. 100 * ((k + 99) \div 100) >= k
  BY <1>1
<1>4. \A r \in Nat : 100 * r >= k => r >= (k + 99) \div 100
  BY <1>1
<1> QED
  BY <1>2, <1>3, <1>4 DEF Ring!Rank, k

----------------------------------------------------------------------------
(* The samples: those before next came last, in order, and those from it on    *)
(* before them, as long as they are in the ring.                              *)

RingInv ==
    /\ latencies \in Seq(Latencies) /\ timed \in Seq(Latencies)
    /\ next \in 0..MaxLatencySamples - 1
    /\ Len(latencies) = IF Len(timed) < MaxLatencySamples THEN Len(timed) ELSE MaxLatencySamples
    /\ Len(timed) < MaxLatencySamples => next = Len(timed)
    /\ \A j \in 1..next : latencies[j] = timed[Len(timed) - next + j]
    /\ \A j \in next + 1..Len(latencies) :
          latencies[j] = timed[Len(timed) - MaxLatencySamples - next + j]

LEMMA RingInit ==
    ASSUME Ring!RingAssumption, Ring!Init
    PROVE  RingInv
<1>1. <<>> \in Seq(Latencies) /\ Len(<<>>) = 0
    OBVIOUS
<1>2. latencies = <<>> /\ timed = <<>> /\ next = 0 /\ Len(latencies) = 0 /\ Len(timed) = 0
    BY DEF Ring!Init
<1>3. MaxLatencySamples \in Nat /\ MaxLatencySamples > 0
    BY DEF Ring!RingAssumption
<1>4. QED
    BY <1>1, <1>2, <1>3 DEF RingInv

\* The slot after the last is the first.
LEMMA RingGoesRound ==
    ASSUME NEW m \in Nat \ {0}, NEW at \in 0..m - 1
    PROVE  (at + 1) % m = IF at + 1 = m THEN 0 ELSE at + 1
<1>1. CASE at + 1 = m
    BY <1>1
<1>2. CASE at + 1 < m
    BY <1>2
<1>3. QED
    BY <1>1, <1>2

\* Until it goes round, the ring is the samples.
LEMMA RingFills ==
    ASSUME Ring!RingAssumption, RingInv, Len(timed) < MaxLatencySamples
    PROVE  /\ next = Len(timed) /\ Len(latencies) = Len(timed)
           /\ \A i \in 1..Len(timed) : latencies[i] = timed[i]
<1>1. Len(timed) \in Nat
    BY DEF RingInv
<1>2. next = Len(timed) /\ Len(latencies) = Len(timed)
    BY DEF RingInv
<1>3. ASSUME NEW i \in 1..Len(timed)
      PROVE  latencies[i] = timed[i]
    <2>1. i \in 1..next /\ Len(timed) - next + i = i
        BY <1>1, <1>2
    <2>2. latencies[i] = timed[Len(timed) - next + i]
        BY <2>1 DEF RingInv
    <2>3. QED
        BY <2>1, <2>2
<1>4. QED
    BY <1>2, <1>3

LEMMA RingAdds ==
    ASSUME Ring!RingAssumption, RingInv, NEW latency \in Latencies, Ring!AddTimed(latency)
    PROVE  RingInv'
<1> DEFINE m == MaxLatencySamples
           n == Len(timed)
<1>1. m \in Nat /\ m > 0 /\ n \in Nat /\ next \in 0..m - 1 /\ Len(latencies) \in Nat
    BY DEF RingInv, Ring!RingAssumption
<1>2. next' = IF next + 1 = m THEN 0 ELSE next + 1
    <2>1. m \in Nat \ {0} /\ next \in 0..m - 1
        BY <1>1
    <2>2. (next + 1) % m = IF next + 1 = m THEN 0 ELSE next + 1
        <3> HIDE DEF m
        <3>1. QED
            BY <2>1, RingGoesRound
    <2>3. QED
        BY <2>2 DEF Ring!AddTimed, Ring!Advance
<1>3. /\ timed' \in Seq(Latencies) /\ Len(timed') = n + 1 /\ timed'[n + 1] = latency
      /\ \A i \in 1..n : timed'[i] = timed[i]
    BY DEF RingInv, Ring!AddTimed
<1>4. CASE n < m
    <2>1. next = n /\ Len(latencies) = n /\ latencies' = Append(latencies, latency)
        BY <1>4, RingFills DEF Ring!AddTimed, Ring!Place
    <2>2. /\ latencies' \in Seq(Latencies) /\ Len(latencies') = n + 1 /\ latencies'[n + 1] = latency
          /\ \A i \in 1..n : latencies'[i] = latencies[i]
        BY <2>1 DEF RingInv
    <2>3. \A i \in 1..n : latencies[i] = timed[i]
        BY <1>4, RingFills
    <2>4. \A i \in 1..n + 1 : latencies'[i] = timed'[i]
        BY <1>1, <1>3, <2>2, <2>3
    <2>5. n + 1 < m => next' = n + 1
        BY <1>1, <1>2, <2>1
    <2>6. n + 1 >= m => n + 1 = m /\ next' = 0
        BY <1>1, <1>2, <1>4, <2>1
    <2>7. QED
        BY <1>1, <1>3, <2>2, <2>4, <2>5, <2>6 DEF RingInv
<1>5. CASE n >= m
    <2>1. Len(latencies) = m /\ latencies' = [latencies EXCEPT ![next + 1] = latency]
        BY <1>1, <1>5 DEF RingInv, Ring!AddTimed, Ring!Place
    <2>2. /\ latencies' \in Seq(Latencies) /\ Len(latencies') = m /\ latencies'[next + 1] = latency
          /\ \A i \in 1..m : i # next + 1 => latencies'[i] = latencies[i]
        BY <1>1, <2>1 DEF RingInv
    <2>3. /\ \A j \in 1..next : latencies[j] = timed[n - next + j]
          /\ \A j \in next + 1..m : latencies[j] = timed[n - m - next + j]
        BY <2>1 DEF RingInv
    <2> HIDE DEF m, n
    <2>4. ASSUME NEW j \in 1..next'
          PROVE  latencies'[j] = timed'[n + 1 - next' + j]
        <3>1. next' = next + 1
            BY <1>1, <1>2
        <3>2. CASE j = next + 1
            BY <1>1, <1>3, <2>2, <3>1, <3>2
        <3>3. CASE j \in 1..next
            <4>1. n - next + j \in 1..n /\ j \in 1..m /\ j # next + 1
                BY <1>1, <1>5, <3>3
            <4>2. n + 1 - next' + j = n - next + j
                BY <1>1, <3>1
            <4>3. QED
                BY <1>3, <2>2, <2>3, <3>3, <4>1, <4>2
        <3>4. QED
            BY <1>1, <3>1, <3>2, <3>3
    <2>5. ASSUME NEW j \in next' + 1..m
          PROVE  latencies'[j] = timed'[n + 1 - m - next' + j]
        <3>1. CASE next + 1 = m /\ j = m
            <4>1. next' = 0 /\ n + 1 - m - next' + j = n + 1
                BY <1>1, <1>2, <3>1
            <4>2. QED
                BY <1>3, <2>2, <3>1, <4>1
        <3>2. CASE next + 1 = m /\ j # m
            <4>1. next' = 0 /\ j \in 1..next /\ j # next + 1 /\ j \in 1..m
                BY <1>1, <1>2, <3>2
            <4>2. n + 1 - m - next' + j = n - next + j /\ n - next + j \in 1..n
                BY <1>1, <1>5, <3>2, <4>1
            <4>3. QED
                BY <1>3, <2>2, <2>3, <4>1, <4>2
        <3>3. CASE next + 1 # m
            <4>1. next' = next + 1 /\ j \in next + 1..m /\ j # next + 1 /\ j \in 1..m
                BY <1>1, <1>2, <3>3
            <4>2. n + 1 - m - next' + j = n - m - next + j /\ n - m - next + j \in 1..n
                BY <1>1, <1>5, <3>3, <4>1
            <4>3. QED
                BY <1>3, <2>2, <2>3, <4>1, <4>2, SMTT(30)
        <3>4. QED
            BY <3>1, <3>2, <3>3
    <2>6. next' \in 0..m - 1 /\ ~ n + 1 < m
        BY <1>1, <1>2, <1>5
    <2>7. ASSUME NEW j \in 1..next'
          PROVE  latencies'[j] = timed'[Len(timed') - next' + j]
        <3>1. Len(timed') = n + 1
            BY <1>3
        <3>2. Len(timed') - next' + j = n + 1 - next' + j
            BY <1>1, <2>6, <3>1
        <3>3. QED
            BY <2>4, <3>2
    <2>8. ASSUME NEW j \in next' + 1..Len(latencies')
          PROVE  latencies'[j] = timed'[Len(timed') - m - next' + j]
        <3>1. Len(timed') = n + 1 /\ Len(latencies') = m
            BY <1>3, <2>2
        <3>2. j \in next' + 1..m
            BY <3>1, Zenon
        <3>3. Len(timed') - m - next' + j = n + 1 - m - next' + j
            BY <1>1, <2>6, <3>1, <3>2
        <3>4. QED
            BY <2>5, <3>2, <3>3
    <2>9. ~ Len(timed') < m
        BY <1>3, <2>6
    <2>10. /\ Len(latencies') = IF Len(timed') < m THEN Len(timed') ELSE m
           /\ Len(timed') < m => next' = Len(timed')
        BY <2>2, <2>9, Zenon
    <2>11. /\ latencies' \in Seq(Latencies) /\ timed' \in Seq(Latencies)
           /\ next' \in 0..m - 1
        BY <1>3, <2>2, <2>6
    <2>12. QED
        BY <2>7, <2>8, <2>10, <2>11, Zenon DEF RingInv, m
<1>6. QED
    BY <1>1, <1>4, <1>5

LEMMA JoinedInOrder ==
    ASSUME NEW S, NEW a \in Seq(S), NEW b \in Seq(S)
    PROVE  /\ a \o b \in Seq(S) /\ Len(a \o b) = Len(a) + Len(b)
           /\ \A i \in 1..Len(a) : (a \o b)[i] = a[i]
           /\ \A i \in 1..Len(b) : (a \o b)[Len(a) + i] = b[i]
OBVIOUS

\* Read from next on and round, the ring is the newest samples.
LEMMA RingIsNewest ==
    ASSUME Ring!RingAssumption, RingInv
    PROVE  Ring!RingHoldsTheNewest
<1> DEFINE m == MaxLatencySamples
           n == Len(timed)
           Turned == SubSeq(latencies, next + 1, Len(latencies)) \o SubSeq(latencies, 1, next)
<1>1. m \in Nat /\ m > 0 /\ n \in Nat /\ next \in 0..m - 1 /\ Len(latencies) \in Nat
    BY DEF RingInv, Ring!RingAssumption
<1>2. latencies \in Seq(Latencies) /\ timed \in Seq(Latencies)
    BY DEF RingInv
<1>3. CASE n < m
    <2>1. Len(latencies) = n /\ \A i \in 1..n : latencies[i] = timed[i]
        BY <1>3, RingFills
    <2>2. Ring!Newest = SubSeq(timed, 1, n)
        BY <1>1, <2>1 DEF Ring!Newest
    <2>3. SubSeq(timed, 1, n) = timed /\ latencies = timed
        BY <1>2, <2>1
    <2>4. QED
        BY <1>1, <1>3, <2>1, <2>2, <2>3 DEF Ring!RingHoldsTheNewest
<1>4. CASE n >= m
    <2>1. Len(latencies) = m
        BY <1>1, <1>4 DEF RingInv
    <2>2. Ring!Newest = SubSeq(timed, n - m + 1, n)
        BY <2>1 DEF Ring!Newest
    <2>3. /\ SubSeq(timed, n - m + 1, n) \in Seq(Latencies)
          /\ Len(SubSeq(timed, n - m + 1, n)) = m
          /\ \A i \in 1..m : SubSeq(timed, n - m + 1, n)[i] = timed[n - m + i]
        BY <1>1, <1>2, <1>4
    <2>4. /\ SubSeq(latencies, next + 1, m) \in Seq(Latencies) /\ Len(SubSeq(latencies, next + 1, m)) = m - next
          /\ \A i \in 1..m - next : SubSeq(latencies, next + 1, m)[i] = latencies[next + i]
        BY <1>1, <1>2, <2>1
    <2>5. /\ SubSeq(latencies, 1, next) \in Seq(Latencies) /\ Len(SubSeq(latencies, 1, next)) = next
          /\ \A i \in 1..next : SubSeq(latencies, 1, next)[i] = latencies[i]
        BY <1>1, <1>2, <2>1
    <2>6. /\ Turned \in Seq(Latencies) /\ Len(Turned) = m
          /\ \A i \in 1..m - next : Turned[i] = latencies[next + i]
          /\ \A i \in 1..next : Turned[m - next + i] = latencies[i]
        <3> DEFINE a == SubSeq(latencies, next + 1, m)
                   b == SubSeq(latencies, 1, next)
        <3>1. Turned = a \o b
            BY <2>1
        <3> HIDE DEF a, b, Turned
        <3>2. /\ a \in Seq(Latencies) /\ Len(a) = m - next
              /\ \A i \in 1..m - next : a[i] = latencies[next + i]
            BY <2>4 DEF a
        <3>3. /\ b \in Seq(Latencies) /\ Len(b) = next
              /\ \A i \in 1..next : b[i] = latencies[i]
            BY <2>5 DEF b
        <3>4. /\ Turned \in Seq(Latencies) /\ Len(Turned) = m - next + next
              /\ \A i \in 1..m - next : Turned[i] = a[i]
              /\ \A i \in 1..next : Turned[m - next + i] = b[i]
            <4>1. a \in Seq(Latencies) /\ b \in Seq(Latencies)
                BY <3>2, <3>3
            <4>2. /\ a \o b \in Seq(Latencies) /\ Len(a \o b) = Len(a) + Len(b)
                  /\ \A i \in 1..Len(a) : (a \o b)[i] = a[i]
                  /\ \A i \in 1..Len(b) : (a \o b)[Len(a) + i] = b[i]
                BY <4>1, JoinedInOrder
            <4>3. Len(a) = m - next /\ Len(b) = next
                BY <3>2, <3>3
            <4>4. QED
                BY <3>1, <4>2, <4>3, Zenon
        <3>5. m - next + next = m
            BY <1>1
        <3>6. QED
            BY <3>2, <3>3, <3>4, <3>5
    <2>7. /\ \A j \in 1..next : latencies[j] = timed[n - next + j]
          /\ \A j \in next + 1..m : latencies[j] = timed[n - m - next + j]
        BY <2>1 DEF RingInv
    <2> HIDE DEF m, n, Turned
    <2>8. ASSUME NEW i \in 1..m
          PROVE  Turned[i] = timed[n - m + i]
        <3>1. CASE i <= m - next
            <4>1. next + i \in next + 1..m /\ i \in 1..m - next /\ n - m - next + (next + i) = n - m + i
                BY <1>1, <3>1
            <4>2. QED
                BY <2>6, <2>7, <4>1
        <3>2. CASE i > m - next
            <4>1. PICK k \in 1..next : i = m - next + k
                BY <1>1, <3>2
            <4>2. n - next + k = n - m + i
                BY <1>1, <4>1
            <4>3. QED
                BY <2>6, <2>7, <4>1, <4>2
        <3>3. QED
            BY <1>1, <3>1, <3>2
    <2>9. SubSeq(timed, n - m + 1, n) = Turned
        BY <1>1, <2>3, <2>6, <2>8
    <2>10. /\ ~ Len(timed) < MaxLatencySamples /\ Len(latencies) = MaxLatencySamples
           /\ ~ Len(latencies) < MaxLatencySamples
        BY <1>1, <1>4, <2>1 DEF m, n
    <2>11. Ring!Newest = SubSeq(latencies, next + 1, Len(latencies)) \o SubSeq(latencies, 1, next)
        BY <2>2, <2>9, Zenon DEF Turned
    <2>12. QED
        BY <2>10, <2>11, Zenon DEF Ring!RingHoldsTheNewest
<1>5. QED
    BY <1>1, <1>3, <1>4

----------------------------------------------------------------------------
(* The percentiles.  Sorting is possible: the greatest goes last, and what    *)
(* stands in its place is sorted among the rest.  Sorting and going round     *)
(* only rearrange the samples, so what is at most a value stays as many.      *)

IsOrder(p, s, n) ==
    /\ p \in [1..n -> 1..n] /\ \A i, j \in 1..n : p[i] = p[j] => i = j
    /\ \A i, j \in 1..n : i < j => s[p[i]] <= s[p[j]]

\* One more can be sorted.
LEMMA OrderOfOneMore ==
    ASSUME NEW n \in Nat, \A s \in [1..n -> Nat] : \E p : IsOrder(p, s, n),
           NEW s \in [1..(n + 1) -> Nat]
    PROVE  \E p : IsOrder(p, s, n + 1)
<1>1. PICK m \in 1..(n + 1) : \A i \in 1..(n + 1) : s[i] <= s[m]
    <2> DEFINE Places == {k \in 1..(n + 1) : \A i \in 1..k : \E j \in 1..k : s[i] <= s[j]}
               Best == {k \in Nat : k <= n => \E j \in 1..(k + 1) : \A i \in 1..(k + 1) : s[i] <= s[j]}
    <2>1. 0 \in Best
        <3>1. 1 \in 1..(n + 1) /\ s[1] \in Nat
            OBVIOUS
        <3>2. \A i \in 1..(0 + 1) : s[i] <= s[1]
            BY <3>1
        <3>3. QED
            BY <3>2
    <2>2. ASSUME NEW k \in Best PROVE k + 1 \in Best
        <3> SUFFICES ASSUME k + 1 <= n
                     PROVE  \E j \in 1..(k + 1 + 1) : \A i \in 1..(k + 1 + 1) : s[i] <= s[j]
            OBVIOUS
        <3>1. PICK j \in 1..(k + 1) : \A i \in 1..(k + 1) : s[i] <= s[j]
            BY <2>2
        <3>2. k + 2 \in 1..(n + 1) /\ j \in 1..(n + 1) /\ s[k + 2] \in Nat /\ s[j] \in Nat
            OBVIOUS
        <3>3. \A i \in 1..(k + 1 + 1) : (i \in 1..(k + 1) \/ i = k + 2) /\ s[i] \in Nat
            BY <3>2
        <3>4. CASE s[k + 2] <= s[j]
            <4>1. \A i \in 1..(k + 1 + 1) : s[i] <= s[j]
                BY <3>1, <3>2, <3>3, <3>4
            <4>2. j \in 1..(k + 1 + 1)
                OBVIOUS
            <4>3. QED
                BY <4>1, <4>2
        <3>5. CASE s[j] <= s[k + 2]
            <4>1. \A i \in 1..(k + 1 + 1) : s[i] <= s[k + 2]
                BY <3>1, <3>2, <3>3, <3>5, SMTT(30)
            <4>2. k + 2 \in 1..(k + 1 + 1)
                OBVIOUS
            <4>3. QED
                BY <4>1, <4>2
        <3>6. QED
            BY <3>2, <3>4, <3>5
    <2>3. Best = Nat
        <3>1. Best \in SUBSET Nat
            OBVIOUS
        <3> HIDE DEF Best
        <3>2. QED
            BY <2>1, <2>2, <3>1, SetInduction
    <2>4. n \in Best
        <3> HIDE DEF Best
        <3>1. QED
            BY <2>3
    <2>5. QED
        BY <2>4
<1> DEFINE t == [i \in 1..n |-> IF i = m THEN s[n + 1] ELSE s[i]]
<1>2. t \in [1..n -> Nat]
    OBVIOUS
<1>3. PICK q : IsOrder(q, t, n)
    BY <1>2
<1> DEFINE undo(i) == IF i = m THEN n + 1 ELSE i
           p == [i \in 1..(n + 1) |-> IF i = n + 1 THEN m ELSE undo(q[i])]
<1>4. \A i \in 1..n : q[i] \in 1..n /\ t[q[i]] = s[undo(q[i])]
    BY <1>3 DEF IsOrder
<1>5. ASSUME NEW i \in 1..n PROVE undo(q[i]) \in 1..(n + 1) /\ undo(q[i]) # m
    <2>1. q[i] \in 1..n
        BY <1>4
    <2>2. QED
        BY <1>1, <2>1
<1>6. p \in [1..(n + 1) -> 1..(n + 1)] /\ \A a, b \in 1..n : undo(a) = undo(b) => a = b
    <2>1. p \in [1..(n + 1) -> 1..(n + 1)]
        BY <1>1, <1>5
    <2>2. \A a, b \in 1..n : undo(a) = undo(b) => a = b
        OBVIOUS
    <2>3. QED
        BY <2>1, <2>2
<1>7. p[n + 1] = m /\ \A i \in 1..n : p[i] = undo(q[i])
    OBVIOUS
<1>8. \A i \in 1..(n + 1) : i \in 1..n \/ i = n + 1
    OBVIOUS
<1> HIDE DEF p, t
<1>9. \A i, j \in 1..(n + 1) : p[i] = p[j] => i = j
    <2>1. ASSUME NEW i \in 1..n, NEW j \in 1..n, p[i] = p[j] PROVE i = j
        <3>1. q[i] = q[j]
            <4>1. q[i] \in 1..n /\ q[j] \in 1..n /\ undo(q[i]) = undo(q[j])
                BY <1>4, <1>7, <2>1
            <4> HIDE DEF undo
            <4>2. QED
                BY <1>6, <4>1
        <3>2. QED
            BY <1>3, <3>1 DEF IsOrder
    <2>2. \A i \in 1..n : p[i] # p[n + 1]
        BY <1>5, <1>7
    <2>3. QED
        BY <1>8, <2>1, <2>2
<1>10. \A i, j \in 1..(n + 1) : i < j => s[p[i]] <= s[p[j]]
    <2>1. ASSUME NEW i \in 1..n, NEW j \in 1..n, i < j PROVE s[p[i]] <= s[p[j]]
        <3>1. t[q[i]] <= t[q[j]]
            BY <1>3, <2>1 DEF IsOrder
        <3>2. QED
            BY <1>4, <1>7, <3>1
    <2>2. ASSUME NEW i \in 1..n PROVE s[p[i]] <= s[p[n + 1]]
        <3>1. p[i] \in 1..(n + 1)
            BY <1>6, SMTT(30)
        <3>2. s[p[i]] <= s[m]
            BY <1>1, <3>1
        <3>3. QED
            BY <1>7, <3>2
    <2>3. QED
        BY <1>8, <2>1, <2>2, SMTT(30)
<1>11. QED
    BY <1>6, <1>9, <1>10 DEF IsOrder

LEMMA OrderExists ==
    ASSUME NEW n \in Nat, NEW s \in [1..n -> Nat]
    PROVE  \E p : IsOrder(p, s, n)
<1> DEFINE S == {k \in Nat : \A f \in [1..k -> Nat] : \E p : IsOrder(p, f, k)}
<1>1. 0 \in S
    <2>1. ASSUME NEW f \in [1..0 -> Nat] PROVE IsOrder(f, f, 0)
        BY DEF IsOrder
    <2>2. QED
        BY <2>1
<1>2. ASSUME NEW k \in S PROVE k + 1 \in S
    <2>1. k \in Nat /\ \A f \in [1..k -> Nat] : \E p : IsOrder(p, f, k)
        OBVIOUS
    <2>2. \A f \in [1..(k + 1) -> Nat] : \E p : IsOrder(p, f, k + 1)
        BY <2>1, OrderOfOneMore
    <2>3. k + 1 \in Nat
        BY <2>1
    <2>4. QED
        BY <2>2, <2>3
<1>3. S \in SUBSET Nat
    OBVIOUS
<1>4. S = Nat
    <2> HIDE DEF S
    <2>1. QED
        BY <1>1, <1>2, <1>3, SetInduction
<1>5. n \in S
    <2> HIDE DEF S
    <2>1. QED
        BY <1>4
<1>6. QED
    BY <1>5

Injective(p, n) == p \in [1..n -> 1..n] /\ \A i, j \in 1..n : p[i] = p[j] => i = j

GoesTo(A, B, p, n) == A \subseteq 1..n /\ B \subseteq 1..n /\ \A i \in 1..n : i \in A <=> p[i] \in B

\* As many places go to a set of places as it has.
LEMMA InjectiveCount ==
    ASSUME NEW n \in Nat, NEW p, Injective(p, n), NEW A, NEW B, GoesTo(A, B, p, n)
    PROVE  /\ Cardinality(A) = Cardinality(B)
           /\ \A b \in 1..n : \E i \in 1..n : p[i] = b
<1> DEFINE g == [i \in A |-> p[i]]
<1>1. IsFiniteSet(1..n)
    BY FS_Interval
<1>2. p \in Injection(1..n, 1..n)
    BY DEF Injective, Injection, IsInjective
<1>3. p \in Surjection(1..n, 1..n)
    BY <1>1, <1>2, FS_Injection
<1>4. \A b \in 1..n : \E i \in 1..n : p[i] = b
    BY <1>3 DEF Surjection
<1>5. g \in Injection(A, B)
    BY DEF Injective, GoesTo, Injection, IsInjective
<1>6. g \in Surjection(A, B)
    BY <1>4 DEF Injective, GoesTo, Surjection
<1>7. ExistsBijection(A, B)
    BY <1>5, <1>6 DEF ExistsBijection, Bijection
<1>8. IsFiniteSet(A)
    BY <1>1, FS_Subset DEF GoesTo
<1>9. Cardinality(B) = Cardinality(A)
    BY <1>7, <1>8, FS_Bijection
<1>10. QED
    BY <1>4, <1>9

AreAtMost(A, s, v, n) ==
    A \subseteq 1..n /\ DOMAIN s = 1..n /\ \A i \in 1..n : i \in A <=> s[i] <= v

LEMMA CountAtMost ==
    ASSUME NEW n, NEW s, NEW v, NEW A, AreAtMost(A, s, v, n)
    PROVE  Ring!AtMost(s, v) = Cardinality(A)
<1>1. {i \in DOMAIN s : s[i] <= v} = A
    BY DEF AreAtMost
<1>2. \A S : Ring!Cardinality(S) = Cardinality(S)
    BY Zenon DEF Ring!Cardinality, Cardinality
<1>3. QED
    BY <1>1, <1>2 DEF Ring!AtMost

\* s is f rearranged.
Rearranges(s, f, n) ==
    /\ s \in [1..n -> Nat] /\ f \in [1..n -> Nat]
    /\ \E p : Injective(p, n) /\ \A i \in 1..n : s[i] = f[p[i]]

\* Of what is rearranged as many are at most a value.
LEMMA RearrangedCount ==
    ASSUME NEW n \in Nat, NEW s, NEW f, Rearranges(s, f, n)
    PROVE  /\ \A v : Ring!AtMost(s, v) = Ring!AtMost(f, v)
           /\ Ring!Range(s) = Ring!Range(f)
<1>1. s \in [1..n -> Nat] /\ f \in [1..n -> Nat]
    BY DEF Rearranges
<1>2. PICK p : Injective(p, n) /\ \A i \in 1..n : s[i] = f[p[i]]
    BY DEF Rearranges
<1>3. ASSUME NEW v PROVE Ring!AtMost(s, v) = Ring!AtMost(f, v)
    <2> DEFINE inS == {i \in 1..n : s[i] <= v}
               inF == {i \in 1..n : f[i] <= v}
    <2>1. GoesTo(inS, inF, p, n)
        BY <1>2 DEF Injective, GoesTo
    <2>2. AreAtMost(inS, s, v, n) /\ AreAtMost(inF, f, v, n)
        BY <1>1 DEF AreAtMost
    <2> HIDE DEF inS, inF
    <2>4. Cardinality(inS) = Cardinality(inF)
        BY <1>2, <2>1, InjectiveCount
    <2>5. Ring!AtMost(s, v) = Cardinality(inS) /\ Ring!AtMost(f, v) = Cardinality(inF)
        BY <2>2, CountAtMost
    <2>6. QED
        BY <2>4, <2>5
<1>4. \A b \in 1..n : \E i \in 1..n : p[i] = b
    <2>1. GoesTo({}, {}, p, n)
        BY DEF GoesTo
    <2>2. QED
        BY <1>2, <2>1, InjectiveCount
<1>5. Ring!Range(s) = Ring!Range(f)
    <2>1. Ring!Range(s) = {s[i] : i \in 1..n} /\ Ring!Range(f) = {f[i] : i \in 1..n}
        BY <1>1 DEF Ring!Range
    <2>2. \A i \in 1..n : \E j \in 1..n : s[i] = f[j]
        BY <1>2 DEF Injective
    <2>3. \A j \in 1..n : \E i \in 1..n : s[i] = f[j]
        BY <1>2, <1>4
    <2>4. QED
        BY <2>1, <2>2, <2>3
<1>6. QED
    BY <1>3, <1>5

\* The samples sorted are the samples.
LEMMA SortedIsSorted ==
    ASSUME NEW n \in Nat, Len(latencies) = n, latencies \in [1..n -> Nat]
    PROVE  /\ Ring!Sorted \in [1..n -> Nat]
           /\ \A i, j \in 1..n : i < j => Ring!Sorted[i] <= Ring!Sorted[j]
           /\ \A v : Ring!AtMost(Ring!Sorted, v) = Ring!AtMost(latencies, v)
           /\ Ring!Range(Ring!Sorted) = Ring!Range(latencies)
<1>1. PICK q : IsOrder(q, latencies, n)
    BY OrderExists
<1>2. DOMAIN latencies = 1..n
    OBVIOUS
<1>3. \E p \in [DOMAIN latencies -> DOMAIN latencies] :
          /\ Ring!IsInjective(p)
          /\ \A i, j \in DOMAIN latencies : i < j => latencies[p[i]] <= latencies[p[j]]
    BY <1>1, <1>2 DEF IsOrder, Ring!IsInjective
<1>4. /\ Ring!Order \in [DOMAIN latencies -> DOMAIN latencies] /\ Ring!IsInjective(Ring!Order)
      /\ \A i, j \in DOMAIN latencies : i < j => latencies[Ring!Order[i]] <= latencies[Ring!Order[j]]
    BY <1>3 DEF Ring!Order
<1>5. /\ Ring!Order \in [1..n -> 1..n] /\ \A i, j \in 1..n : Ring!Order[i] = Ring!Order[j] => i = j
      /\ \A i, j \in 1..n : i < j => latencies[Ring!Order[i]] <= latencies[Ring!Order[j]]
    BY <1>2, <1>4 DEF Ring!IsInjective
<1>6. Ring!Sorted = [i \in 1..n |-> latencies[Ring!Order[i]]]
    BY <1>2 DEF Ring!Sorted
<1>7. Ring!Sorted \in [1..n -> Nat] /\ \A i \in 1..n : Ring!Sorted[i] = latencies[Ring!Order[i]]
    BY <1>5, <1>6
<1>8. /\ \A v : Ring!AtMost(Ring!Sorted, v) = Ring!AtMost(latencies, v)
      /\ Ring!Range(Ring!Sorted) = Ring!Range(latencies)
    <2>1. Rearranges(Ring!Sorted, latencies, n)
        BY <1>5, <1>7 DEF Injective, Rearranges
    <2>2. QED
        BY <2>1, RearrangedCount
<1>9. \A i, j \in 1..n : i < j => Ring!Sorted[i] <= Ring!Sorted[j]
    BY <1>5, <1>7
<1>10. QED
    BY <1>7, <1>8, <1>9

\* The newest samples are the ring's, turned.
LEMMA NewestIsTurned ==
    ASSUME Ring!RingAssumption, RingInv, NEW n \in Nat, Len(latencies) = n
    PROVE  /\ latencies \in [1..n -> Nat] /\ Ring!Newest \in [1..n -> Nat] /\ Len(Ring!Newest) = n
           /\ \A v : Ring!AtMost(Ring!Newest, v) = Ring!AtMost(latencies, v)
           /\ Ring!Range(Ring!Newest) = Ring!Range(latencies)
<1> DEFINE New == Ring!Newest
<1>1. Ring!RingHoldsTheNewest
    BY RingIsNewest
<1>2. latencies \in Seq(Nat) /\ latencies \in [1..n -> Nat]
    <2>1. latencies \in [1..n -> Latencies] /\ Latencies \subseteq Nat
        BY DEF RingInv, Ring!RingAssumption
    <2>2. latencies \in [1..n -> Nat]
        BY <2>1
    <2>3. latencies \in Seq(Nat)
        BY <2>2
    <2>4. QED
        BY <2>2, <2>3
<1>3. MaxLatencySamples \in Nat \ {0} /\ next \in 0..MaxLatencySamples - 1
    BY DEF RingInv, Ring!RingAssumption
<1>4. CASE n < MaxLatencySamples
    <2>1. New = latencies
        BY <1>1, <1>4 DEF Ring!RingHoldsTheNewest
    <2>2. QED
        BY <1>2, <2>1
<1>5. CASE ~ n < MaxLatencySamples
    <2>1. n = MaxLatencySamples
        BY <1>1, <1>3, <1>5 DEF Ring!RingHoldsTheNewest
    <2>2. New = SubSeq(latencies, next + 1, n) \o SubSeq(latencies, 1, next)
        BY <1>1, <1>5 DEF Ring!RingHoldsTheNewest
    <2> DEFINE turn == [i \in 1..n |-> IF i <= n - next THEN next + i ELSE i - (n - next)]
    <2>3. turn \in [1..n -> 1..n] /\ \A i, j \in 1..n : turn[i] = turn[j] => i = j
        BY <1>3, <2>1
    <2> HIDE DEF New
    <2>4. /\ New \in Seq(Nat) /\ Len(New) = n
          /\ \A i \in 1..n : New[i] = IF i <= n - next THEN latencies[next + i] ELSE latencies[i - (n - next)]
        BY <1>2, <1>3, <2>1, <2>2
    <2>5. New \in [1..n -> Nat] /\ \A i \in 1..n : New[i] = latencies[turn[i]]
        BY <2>4
    <2> HIDE DEF turn
    <2>6. \A v : Ring!AtMost(New, v) = Ring!AtMost(latencies, v) /\ Ring!Range(New) = Ring!Range(latencies)
        <3>1. Rearranges(New, latencies, n)
            BY <1>2, <2>3, <2>5 DEF Injective, Rearranges
        <3>2. QED
            BY <3>1, RearrangedCount
    <2>7. QED
        BY <1>2, <2>4, <2>5, <2>6 DEF New
<1>6. QED
    BY <1>4, <1>5

\* Of what is sorted, as many as its place says are at most the one at a place, and
\* fewer at most a lesser one.
LEMMA SortedCounts ==
    ASSUME NEW n \in Nat, NEW s \in [1..n -> Nat], \A i, j \in 1..n : i < j => s[i] <= s[j],
           NEW r \in 1..n
    PROVE  /\ Ring!AtMost(s, s[r]) \in Nat /\ Ring!AtMost(s, s[r]) >= r
           /\ \A x \in Ring!Range(s) : x < s[r] => Ring!AtMost(s, x) \in Nat /\ Ring!AtMost(s, x) <= r - 1
<1> DEFINE Below(v) == {i \in 1..n : s[i] <= v}
<1>1. \A v : Ring!AtMost(s, v) = Cardinality(Below(v))
    <2> SUFFICES ASSUME NEW v PROVE Ring!AtMost(s, v) = Cardinality(Below(v))
        OBVIOUS
    <2>1. AreAtMost(Below(v), s, v, n)
        BY DEF AreAtMost
    <2> HIDE DEF Below
    <2>2. QED
        BY <2>1, CountAtMost
<1>2. \A v : IsFiniteSet(Below(v)) /\ Cardinality(Below(v)) \in Nat
    <2>1. IsFiniteSet(1..n)
        BY FS_Interval
    <2>2. QED
        BY <2>1, FS_Subset, FS_CardinalityType
<1>3. Cardinality(Below(s[r])) >= r
    <2>1. 1..r \in SUBSET Below(s[r])
        OBVIOUS
    <2>2. Cardinality(1..r) = r
        BY FS_Interval
    <2> HIDE DEF Below
    <2>3. QED
        BY <1>2, <2>1, <2>2, FS_Subset
<1>4. ASSUME NEW x \in Ring!Range(s), x < s[r] PROVE Cardinality(Below(x)) <= r - 1
    <2>1. x \in Nat
        BY DEF Ring!Range
    <2>2. Below(x) \in SUBSET (1..(r - 1))
        BY <1>4, <2>1
    <2>3. IsFiniteSet(1..(r - 1)) /\ Cardinality(1..(r - 1)) = r - 1
        BY FS_Interval
    <2> HIDE DEF Below
    <2>4. QED
        BY <2>2, <2>3, FS_Subset
<1>5. QED
    BY <1>1, <1>2, <1>3, <1>4

\* What is at the rank of p percent of the sorted samples is the newest's nearest
\* rank.
LEMMA RankOfSorted ==
    ASSUME Ring!RingAssumption, RingInv, latencies # <<>>, NEW p \in 1..100
    PROVE  Ring!IsNearestRank(Ring!Sorted[Ring!Rank(Len(latencies), p)], Ring!Newest, p)
<1> DEFINE n == Len(latencies)
           r == Ring!Rank(n, p)
           s == Ring!Sorted
           New == Ring!Newest
<1>1. n \in Nat \ {0}
    BY DEF RingInv
<1>2. latencies \in [1..n -> Nat] /\ Len(New) = n
    BY <1>1, NewestIsTurned, SMTT(30)
<1>3. /\ \A v : Ring!AtMost(New, v) = Ring!AtMost(s, v)
      /\ Ring!Range(New) = Ring!Range(s)
    BY <1>1, <1>2, NewestIsTurned, SortedIsSorted, ZenonT(40)
<1>4. s \in [1..n -> Nat] /\ \A i, j \in 1..n : i < j => s[i] <= s[j]
    BY <1>1, <1>2, SortedIsSorted, Zenon
<1>5. /\ r \in 1..n /\ 100 * r >= n * p /\ \A k \in Nat : 100 * k >= n * p => k >= r
    BY <1>1, RankIsNearest
<1> HIDE DEF n, r, s, New
<1>6. /\ Ring!AtMost(s, s[r]) \in Nat /\ Ring!AtMost(s, s[r]) >= r
      /\ \A x \in Ring!Range(s) : x < s[r] => Ring!AtMost(s, x) \in Nat /\ Ring!AtMost(s, x) <= r - 1
    BY <1>1, <1>4, <1>5, SortedCounts
<1>7. n * p = p * n /\ n * p \in Nat
    BY <1>1
<1>8. s[r] \in Ring!Range(New)
    BY <1>3, <1>4, <1>5 DEF Ring!Range
<1>9. 100 * Ring!AtMost(New, s[r]) >= p * Len(New)
    BY <1>2, <1>3, <1>5, <1>6, <1>7
<1>10. ASSUME NEW x \in Ring!Range(New), x < s[r] PROVE 100 * Ring!AtMost(New, x) < p * Len(New)
    <2>1. Ring!AtMost(s, x) \in Nat /\ Ring!AtMost(s, x) <= r - 1
        BY <1>3, <1>6, <1>10
    <2>2. ~ 100 * Ring!AtMost(s, x) >= n * p
        BY <1>5, <2>1
    <2>3. QED
        BY <1>2, <1>3, <1>7, <2>1, <2>2
<1>11. Ring!IsNearestRank(s[r], New, p)
    BY <1>8, <1>9, <1>10 DEF Ring!IsNearestRank
<1>12. QED
    BY <1>11 DEF n, r, s, New

\* However many samples were taken and however large the ring, the percentiles are
\* the nearest-rank ones of the newest samples.
LEMMA PercentilesAreTheNewest ==
    Ring!RingAssumption /\ RingInv => Ring!PercentilesCoverTheNewest
<1> SUFFICES ASSUME Ring!RingAssumption, RingInv, latencies # <<>>
             PROVE  /\ Ring!IsNearestRank(Ring!Percentile(50), Ring!Newest, 50)
                    /\ Ring!IsNearestRank(Ring!Percentile(95), Ring!Newest, 95)
                    /\ Ring!IsNearestRank(Ring!Sorted[Len(Ring!Sorted)], Ring!Newest, 100)
    BY DEF Ring!PercentilesCoverTheNewest
<1>1. /\ Ring!IsNearestRank(Ring!Percentile(50), Ring!Newest, 50)
      /\ Ring!IsNearestRank(Ring!Percentile(95), Ring!Newest, 95)
    BY RankOfSorted DEF Ring!Percentile
<1>2. Ring!Rank(Len(latencies), 100) = Len(Ring!Sorted)
    <2> DEFINE n == Len(latencies)
               s == Ring!Sorted
    <2>1. n \in Nat
        BY DEF RingInv
    <2>2. s \in [1..n -> Nat]
        BY <2>1, NewestIsTurned, SortedIsSorted
    <2>3. (n * 100 + 99) \div 100 = n
        <3> HIDE DEF n
        <3>1. QED
            BY <2>1
    <2> HIDE DEF n, s
    <2>4. Len(s) = n
        BY <2>1, <2>2
    <2>5. QED
        BY <2>3, <2>4 DEF Ring!Rank, n, s
<1>3. Ring!IsNearestRank(Ring!Sorted[Ring!Rank(Len(latencies), 100)], Ring!Newest, 100)
    BY RankOfSorted
<1>4. QED
    BY <1>1, <1>2, <1>3

\* However many samples were taken and however large the ring, it holds the newest,
\* each once, and the percentiles are the nearest-rank ones of those.
THEOREM RingCorrect ==
    ASSUME Ring!RingAssumption
    PROVE  Ring!Spec => []PercentilesCoverTheNewest
<1>1. Ring!Init => RingInv
    BY RingInit
<1>2. RingInv /\ [Ring!Next]_Ring!vars => RingInv'
    <2>1. RingInv /\ Ring!Next => RingInv'
        BY RingAdds DEF Ring!Next
    <2>2. RingInv /\ UNCHANGED Ring!vars => RingInv'
        BY DEF Ring!vars, RingInv
    <2>3. QED
        BY <2>1, <2>2
<1>3. RingInv => Ring!TypeOK
    <2> SUFFICES ASSUME RingInv PROVE Ring!TypeOK
        OBVIOUS
    <2>1. MaxLatencySamples \in Nat /\ Len(timed) \in Nat
        BY DEF RingInv, Ring!RingAssumption
    <2>2. QED
        BY <2>1 DEF RingInv, Ring!TypeOK
<1>4. RingInv => Ring!RingHoldsTheNewest
    BY RingIsNewest
<1>5. RingInv => Ring!PercentilesCoverTheNewest
    BY PercentilesAreTheNewest
<1>6. RingInv => PercentilesCoverTheNewest
    BY <1>3, <1>4, <1>5 DEF PercentilesCoverTheNewest
<1>7. QED
    BY <1>1, <1>2, <1>6, PTL DEF Ring!Spec

----------------------------------------------------------------------------
(* Exports.  The bytes in a file are those of commands on it, and two commands *)
(* have one file only for one delivery, or for unnamed requests of one number. *)

Extensions == {"json", "body", "headers"}

Recorded == UNION {DOMAIN History[run] : run \in Exports!Runs}

CommandType ==
    [at : Exports!States, run : Exports!Runs \cup {Exports!Idle.run},
     number : Recorded \cup {1}, kind : {"x", "c"}, left : Seq(Extensions), open : BOOLEAN]

\* What a command has left is the end of its files.
CommandOK(c) ==
    /\ c.at # "idle" =>
          /\ c.run \in Exports!Runs /\ c.number \in DOMAIN History[c.run]
          /\ \E k \in 0..Len(Exports!FilesOf(c)) :
                c.left = SubSeq(Exports!FilesOf(c), k + 1, Len(Exports!FilesOf(c)))
    /\ c.open => c.at = "busy" /\ c.left # <<>>
    /\ c.at = "done" => c.left = <<>>

ExportsTypes ==
    /\ Exports!ExportsAssumption
    /\ runs \subseteq Exports!Runs
    /\ disk \in [Exports!Files -> [of : SUBSET Exports!Deliveries, whole : BOOLEAN]]
    /\ \A file \in Exports!Files : disk[file].whole => \E d \in Exports!Deliveries : disk[file].of = {d}
    /\ commands \in [Exports!Ids -> CommandType]
    /\ \A id \in Exports!Ids : CommandOK(commands[id])

UsesFile(c, file) ==
    c.at # "idle" /\ \E i \in DOMAIN Exports!FilesOf(c) : file = Exports!File(c, Exports!FilesOf(c)[i])

\* No file holds bytes but those of a command on it.
BytesOK ==
    \A file \in Exports!Files : \A d \in disk[file].of :
        \E id \in Exports!Ids : UsesFile(commands[id], file) /\ Exports!Of(commands[id]) = d

\* A command has this file open, did not finish, or is another run's.
Spoils(other, c, file) ==
    /\ UsesFile(other, file)
    /\ \/ other.open /\ file = Exports!File(other, Head(other.left))
       \/ other.at \in {"failed", "abandoned"}
       \/ ~ Exports!Plain(Exports!Of(c)) /\ other.run # c.run

WroteFile(c, file) ==
    /\ c.at \in {"busy", "done"}
    /\ \E i \in DOMAIN Exports!FilesOf(c) :
          /\ file = Exports!File(c, Exports!FilesOf(c)[i])
          /\ \A j \in DOMAIN c.left : c.left[j] # Exports!FilesOf(c)[i]

\* What a command has written so far is there in full, unless another spoils it.
WrittenOK ==
    \A id \in Exports!Ids, file \in Exports!Files :
        /\ WroteFile(commands[id], file)
        /\ \A other \in Exports!Ids \ {id} : ~ Spoils(commands[other], commands[id], file)
        => disk[file] = Exports!Full(Exports!Of(commands[id]))

ExportsInv == ExportsTypes /\ BytesOK /\ WrittenOK

\* A command's files have extensions, and c's are at most two.
LEMMA FilesAreExtensions ==
    ASSUME NEW c \in CommandType
    PROVE  Exports!FilesOf(c) \in Seq(Extensions)
<1> DEFINE d == Exports!Of(c)
           h == IF d \in Unprintable THEN <<"headers">> ELSE <<>>
           b == IF d \in Large THEN <<"body">> ELSE <<>>
<1>1. h \in Seq(Extensions) /\ b \in Seq(Extensions)
    <2>1. <<"headers">> \in Seq(Extensions) /\ <<"body">> \in Seq(Extensions) /\ <<>> \in Seq(Extensions)
        BY DEF Extensions
    <2>2. QED
        BY <2>1
<1>2. h \o b \in Seq(Extensions)
    <2> HIDE DEF h, b
    <2>1. QED
        BY <1>1
<1>3. Exports!CurlFiles(d) = h \o b
    BY DEF Exports!CurlFiles
<1>4. Exports!FixtureFiles \in Seq(Extensions)
    BY DEF Exports!FixtureFiles, Extensions
<1> HIDE DEF h, b, d
<1>5. Exports!FilesOf(c) = IF c.kind = "x" THEN Exports!FixtureFiles ELSE Exports!CurlFiles(d)
    BY DEF Exports!FilesOf, d
<1>6. QED
    BY <1>2, <1>3, <1>4, <1>5

\* What a command presses on is a delivery of its run, and its files are there.
LEMMA CommandFiles ==
    ASSUME NEW c \in CommandType, CommandOK(c), c.at # "idle"
    PROVE  /\ Exports!Of(c) \in Exports!Deliveries
           /\ \A e \in Extensions : Exports!File(c, e) \in Exports!Files
           /\ \A file : UsesFile(c, file) => file \in Exports!Files
<1>1. c.run \in Exports!Runs /\ c.number \in DOMAIN History[c.run]
    BY DEF CommandOK
<1>2. Exports!Of(c) = History[c.run][c.number]
    BY DEF Exports!Of
<1>3. Exports!Of(c) \in Exports!Deliveries
    BY <1>1, <1>2 DEF Exports!Deliveries, Exports!Range
<1>4. ASSUME NEW e \in Extensions PROVE Exports!File(c, e) \in Exports!Files
    <2>1. Exports!File(c, e) = <<Exports!FixtureName(History[c.run][c.number], c.number), e>>
        BY <1>2 DEF Exports!File
    <2>2. QED
        BY <1>1, <2>1 DEF Exports!Files, Extensions
<1>5. ASSUME NEW file, UsesFile(c, file) PROVE file \in Exports!Files
    <2>1. PICK i \in DOMAIN Exports!FilesOf(c) : file = Exports!File(c, Exports!FilesOf(c)[i])
        BY <1>5 DEF UsesFile
    <2>2. Exports!FilesOf(c)[i] \in Extensions
        BY <2>1, FilesAreExtensions
    <2>3. QED
        BY <1>4, <2>1, <2>2
<1>6. QED
    BY <1>3, <1>4, <1>5

\* Two commands on one file have one delivery, if it has a name; else they have
\* requests of one number.
LEMMA OneFileOneDelivery ==
    ASSUME Exports!ExportsAssumption,
           NEW c \in CommandType, CommandOK(c), NEW d \in CommandType, CommandOK(d),
           NEW file, UsesFile(c, file), UsesFile(d, file)
    PROVE  /\ Exports!Plain(Exports!Of(c)) => Exports!Of(d) = Exports!Of(c)
           /\ ~ Exports!Plain(Exports!Of(c)) /\ d.run = c.run => Exports!Of(d) = Exports!Of(c)
<1>1. Exports!FixtureName(Exports!Of(c), c.number) = Exports!FixtureName(Exports!Of(d), d.number)
    BY DEF UsesFile, Exports!File
<1>2. Exports!Of(c) \in Exports!Deliveries /\ Exports!Of(d) \in Exports!Deliveries
    BY CommandFiles DEF UsesFile
<1>3. Exports!Of(c).request # "entry" /\ Exports!Of(d).request # "entry"
    BY <1>2 DEF Exports!ExportsAssumption
<1>4. CASE Exports!Plain(Exports!Of(c))
    <2>1. Exports!Plain(Exports!Of(d))
        BY <1>1, <1>3, <1>4 DEF Exports!FixtureName
    <2>2. <<Exports!Of(c).request, Exports!Of(c).route>> = <<Exports!Of(d).request, Exports!Of(d).route>>
        BY <1>1, <1>4, <2>1 DEF Exports!FixtureName
    <2>3. QED
        BY <1>2, <1>4, <2>2 DEF Exports!ExportsAssumption
<1>5. CASE ~ Exports!Plain(Exports!Of(c))
    <2>1. ~ Exports!Plain(Exports!Of(d))
        BY <1>1, <1>3, <1>5 DEF Exports!FixtureName
    <2>2. c.number = d.number
        BY <1>1, <1>5, <2>1 DEF Exports!FixtureName
    <2>3. QED
        BY <1>5, <2>2 DEF Exports!Of
<1>6. QED
    BY <1>4, <1>5

\* What a step keeps of a command that was pressed.
SameRequest(c, d) == d.run = c.run /\ d.number = c.number /\ d.kind = c.kind

Kept(c, d) == c.at # "idle" => d.at # "idle" /\ SameRequest(c, d)

LEMMA SameFiles ==
    ASSUME NEW c, NEW d, SameRequest(c, d)
    PROVE  /\ Exports!Of(d) = Exports!Of(c) /\ Exports!FilesOf(d) = Exports!FilesOf(c)
           /\ \A e : Exports!File(d, e) = Exports!File(c, e)
<1>1. Exports!Of(d) = Exports!Of(c)
    BY DEF SameRequest, Exports!Of
<1>2. QED
    BY <1>1 DEF SameRequest, Exports!FilesOf, Exports!File

LEMMA UsesKept ==
    ASSUME NEW c, NEW d, Kept(c, d), NEW file, UsesFile(c, file)
    PROVE  UsesFile(d, file) /\ Exports!Of(d) = Exports!Of(c)
<1>1. SameRequest(c, d) /\ d.at # "idle"
    BY DEF UsesFile, Kept
<1>2. QED
    BY <1>1, SameFiles DEF UsesFile

\* A command that did not finish spoils its files from then on; one that has a file
\* open does as long as it has.
LEMMA SpoilsKept ==
    ASSUME NEW other, NEW later, Kept(other, later), NEW c, NEW d, SameRequest(c, d), NEW file,
           other.at \in {"failed", "abandoned"} => later.at \in {"failed", "abandoned"},
           other.open /\ file = Exports!File(other, Head(other.left)) =>
               \/ later.open /\ later.left = other.left
               \/ later.at \in {"failed", "abandoned"},
           Spoils(other, c, file)
    PROVE  Spoils(later, d, file)
<1>1. UsesFile(other, file) /\ UsesFile(later, file)
    BY UsesKept DEF Spoils
<1>2. SameRequest(other, later)
    BY <1>1 DEF UsesFile, Kept
<1>3. Exports!Of(d) = Exports!Of(c) /\ \A e : Exports!File(later, e) = Exports!File(other, e)
    BY <1>2, SameFiles
<1>4. d.run = c.run /\ later.run = other.run
    BY <1>2 DEF SameRequest
<1>5. QED
    BY <1>1, <1>3, <1>4 DEF Spoils

\* Bytes that a command on the file adds are the command's.
LEMMA BytesKept ==
    ASSUME BytesOK, \A id \in Exports!Ids : Kept(commands[id], commands'[id]),
           \A file \in Exports!Files : \A d \in disk'[file].of :
               \/ d \in disk[file].of
               \/ \E id \in Exports!Ids : UsesFile(commands[id], file) /\ Exports!Of(commands[id]) = d
    PROVE  BytesOK'
<1> SUFFICES ASSUME NEW file \in Exports!Files, NEW d \in disk'[file].of
             PROVE  \E id \in Exports!Ids : UsesFile(commands'[id], file) /\ Exports!Of(commands'[id]) = d
    BY DEF BytesOK, Exports!Files
<1>1. PICK id \in Exports!Ids : UsesFile(commands[id], file) /\ Exports!Of(commands[id]) = d
    BY DEF BytesOK
<1>2. QED
    BY <1>1, UsesKept

\* What was written stays where the disk does, if nothing stops spoiling it.
LEMMA WrittenKept ==
    ASSUME WrittenOK, NEW id \in Exports!Ids, NEW file \in Exports!Files,
           disk'[file] = disk[file], WroteFile(commands[id], file),
           SameRequest(commands[id], commands'[id]),
           \A other \in Exports!Ids \ {id} :
               Spoils(commands[other], commands[id], file) => Spoils(commands'[other], commands'[id], file),
           \A other \in Exports!Ids \ {id} : ~ Spoils(commands'[other], commands'[id], file)
    PROVE  disk'[file] = Exports!Full(Exports!Of(commands'[id]))
<1>1. disk[file] = Exports!Full(Exports!Of(commands[id]))
    BY DEF WrittenOK
<1>2. QED
    BY <1>1, SameFiles

\* A command writes to a file that nothing spoils for another, or for itself: its
\* bytes are the other's, and there are no others.
LEMMA WriteIsFull ==
    ASSUME ExportsTypes, BytesOK, NEW writer \in Exports!Ids, NEW id \in Exports!Ids,
           NEW file, UsesFile(commands[writer], file), UsesFile(commands[id], file),
           \A other \in Exports!Ids \ {id} :
               UsesFile(commands[other], file) =>
                   Exports!Plain(Exports!Of(commands[id])) \/ commands[other].run = commands[id].run,
           NEW bytes \in Exports!Written(disk[file], Exports!Of(commands[writer]))
    PROVE  bytes = Exports!Full(Exports!Of(commands[id]))
<1> DEFINE d == Exports!Of(commands[id])
<1>1. \A i \in Exports!Ids : commands[i] \in CommandType /\ CommandOK(commands[i])
    BY DEF ExportsTypes
<1>2. Exports!ExportsAssumption
    BY DEF ExportsTypes
<1>3. \A i \in Exports!Ids : UsesFile(commands[i], file) => Exports!Of(commands[i]) = d
    BY <1>1, <1>2, OneFileOneDelivery
<1>4. file \in Exports!Files
    BY <1>1, CommandFiles DEF UsesFile
<1>5. disk[file].of \subseteq {d}
    BY <1>3, <1>4 DEF BytesOK
<1>6. Exports!Of(commands[writer]) = d
    BY <1>3
<1>7. disk[file].of \cup {d} = {d}
    BY <1>5
<1> HIDE DEF d
<1>8. bytes = Exports!Full(d) \/ bytes = [of |-> {d}, whole |-> TRUE]
    BY <1>5, <1>6, <1>7 DEF Exports!Written
<1>9. QED
    BY <1>8 DEF Exports!Full, d

\* A command nobody pressed is one.
LEMMA IdleIsACommand == Exports!Idle \in CommandType
<1> DEFINE run == CHOOSE run \in Exports!Runs : TRUE
<1>1. Exports!Idle = [at |-> "idle", run |-> run, number |-> 1, kind |-> "x", left |-> <<>>, open |-> FALSE]
    BY DEF Exports!Idle
<1>2. Exports!Idle.run = run
    BY <1>1
<1>3. "idle" \in Exports!States /\ <<>> \in Seq(Extensions)
    BY DEF Exports!States
<1> HIDE DEF run
<1>5. QED
    BY <1>1, <1>2, <1>3 DEF CommandType

\* At first every command is idle and every file empty.
LEMMA ExportsInit == Exports!ExportsAssumption /\ Exports!Init => ExportsInv
<1> SUFFICES ASSUME Exports!ExportsAssumption, Exports!Init PROVE ExportsInv
    OBVIOUS
<1>1. /\ Exports!Idle.at = "idle" /\ Exports!Idle.number = 1 /\ Exports!Idle.kind = "x"
      /\ Exports!Idle.left = <<>> /\ Exports!Idle.open = FALSE
    BY DEF Exports!Idle
<1>2. Exports!Idle \in CommandType
    BY IdleIsACommand
<1>3. CommandOK(Exports!Idle)
    BY <1>1 DEF CommandOK
<1>4. \A id \in Exports!Ids : commands[id] = Exports!Idle
    BY DEF Exports!Init
<1>5. disk = [file \in Exports!Files |-> Exports!NoBytes]
    BY DEF Exports!Init
<1>6. Exports!NoBytes.of = {} /\ Exports!NoBytes.whole = FALSE
    BY DEF Exports!NoBytes
<1>7. disk \in [Exports!Files -> [of : SUBSET Exports!Deliveries, whole : BOOLEAN]]
    <2>1. Exports!NoBytes \in [of : SUBSET Exports!Deliveries, whole : BOOLEAN]
        BY DEF Exports!NoBytes
    <2>2. QED
        BY <1>5, <2>1
<1>8. ExportsTypes
    BY <1>2, <1>3, <1>4, <1>5, <1>6, <1>7 DEF ExportsTypes, Exports!Init
<1>9. BytesOK
    BY <1>5, <1>6 DEF BytesOK
<1>10. WrittenOK
    BY <1>1, <1>4 DEF WrittenOK, WroteFile
<1>11. QED
    BY <1>8, <1>9, <1>10 DEF ExportsInv

\* A step changes one command, to one that still presses on what it did.
LEMMA OneCommand ==
    ASSUME ExportsTypes, NEW id \in Exports!Ids, NEW d \in CommandType, CommandOK(d),
           commands' = [commands EXCEPT ![id] = d],
           runs' \in SUBSET Exports!Runs,
           disk' \in [Exports!Files -> [of : SUBSET Exports!Deliveries, whole : BOOLEAN]],
           \A file \in Exports!Files :
               disk'[file].whole => \E e \in Exports!Deliveries : disk'[file].of = {e}
    PROVE  ExportsTypes' /\ commands'[id] = d
           /\ \A other \in Exports!Ids \ {id} : commands'[other] = commands[other]
<1>1. commands \in [Exports!Ids -> CommandType]
    BY DEF ExportsTypes
<1>2. commands' \in [Exports!Ids -> CommandType]
    BY <1>1
<1>3. commands'[id] = d /\ \A other \in Exports!Ids \ {id} : commands'[other] = commands[other]
    BY <1>1
<1>4. \A i \in Exports!Ids : CommandOK(commands'[i])
    BY <1>3 DEF ExportsTypes
<1>5. ExportsTypes'
    <2>1. Exports!ExportsAssumption
        BY DEF ExportsTypes
    <2>2. \A i \in Exports!Ids : CommandOK(commands[i])'
        BY <1>4 DEF CommandOK
    <2>3. ExportsTypes' = (/\ Exports!ExportsAssumption
                           /\ runs' \subseteq Exports!Runs
                           /\ disk' \in [Exports!Files -> [of : SUBSET Exports!Deliveries, whole : BOOLEAN]]
                           /\ \A file \in Exports!Files :
                                 disk'[file].whole => \E e \in Exports!Deliveries : disk'[file].of = {e}
                           /\ commands' \in [Exports!Ids -> CommandType]
                           /\ \A i \in Exports!Ids : CommandOK(commands[i])')
        BY DEF ExportsTypes
    <2>4. QED
        BY <1>2, <2>1, <2>2, <2>3
<1>6. QED
    BY <1>3, <1>5

\* A command that is pressed waits on its files.
LEMMA ExportsPress ==
    ASSUME ExportsInv, NEW id \in Exports!Ids, Exports!Press(id)
    PROVE  ExportsInv'
<1>1. PICK run \in Exports!Runs, kind \in {"x", "c"} : \E number \in DOMAIN History[run] :
          LET c == [Exports!Idle EXCEPT !.at = "busy", !.run = run, !.number = number, !.kind = kind]
          IN  commands' = [commands EXCEPT ![id] = [c EXCEPT !.left = Exports!FilesOf(c)]]
    BY DEF Exports!Press
<1>2. PICK number \in DOMAIN History[run] :
          LET c == [Exports!Idle EXCEPT !.at = "busy", !.run = run, !.number = number, !.kind = kind]
          IN  commands' = [commands EXCEPT ![id] = [c EXCEPT !.left = Exports!FilesOf(c)]]
    BY <1>1
<1> DEFINE c == [Exports!Idle EXCEPT !.at = "busy", !.run = run, !.number = number, !.kind = kind]
           d == [c EXCEPT !.left = Exports!FilesOf(c)]
<1>4. commands' = [commands EXCEPT ![id] = d]
    BY <1>2
<1>5. c \in CommandType /\ d \in CommandType
    <2>1. number \in Recorded /\ "busy" \in Exports!States
        BY DEF Exports!States, Recorded
    <2>2. Exports!Idle \in CommandType
        BY IdleIsACommand
    <2>3. c \in CommandType
        BY <2>1, <2>2 DEF CommandType
    <2>4. Exports!FilesOf(c) \in Seq(Extensions)
        BY <2>3, FilesAreExtensions
    <2> HIDE DEF c
    <2>5. QED
        BY <2>3, <2>4 DEF CommandType
<1>6. Exports!FilesOf(d) = Exports!FilesOf(c)
    <2>1. SameRequest(c, d)
        <3> HIDE DEF c
        <3>1. QED
            BY <1>5 DEF CommandType, SameRequest
    <2>2. QED
        BY <2>1, SameFiles
<1>7. c.at = "busy" /\ c.open = FALSE /\ c.run = run /\ c.number = number
    BY IdleIsACommand DEF Exports!Idle, CommandType
<1> HIDE DEF c
<1>8. /\ d.at = "busy" /\ d.open = FALSE /\ d.left = Exports!FilesOf(d)
      /\ d.run = run /\ d.number = number
    BY <1>5, <1>6, <1>7 DEF CommandType
<1> HIDE DEF d
<1>9. CommandOK(d)
    <2>1. Exports!FilesOf(d) \in Seq(Extensions)
        BY <1>5, FilesAreExtensions
    <2>2. d.left = SubSeq(Exports!FilesOf(d), 0 + 1, Len(Exports!FilesOf(d)))
        BY <1>8, <2>1
    <2>3. 0 \in 0..Len(Exports!FilesOf(d))
        BY <2>1
    <2>4. QED
        BY <1>8, <2>2, <2>3 DEF CommandOK
<1>10. commands[id].at = "idle"
    <2>1. id \notin {i \in Exports!Ids : commands[i].at # "idle"}
        BY DEF Exports!Press, Exports!Ids, ExportsInv, ExportsTypes, Exports!ExportsAssumption
    <2>2. QED
        BY <2>1
<1>11. UNCHANGED <<runs, disk>> /\ ExportsTypes
    BY DEF Exports!Press, ExportsInv
<1>12. /\ ExportsTypes' /\ commands'[id] = d
       /\ \A other \in Exports!Ids \ {id} : commands'[other] = commands[other]
    BY <1>4, <1>5, <1>9, <1>11, OneCommand DEF ExportsTypes
<1>13. \A i \in Exports!Ids : Kept(commands[i], commands'[i])
    BY <1>10, <1>12 DEF Kept, SameRequest
<1>14. BytesOK'
    BY <1>11, <1>13, BytesKept DEF ExportsInv
<1>15. WrittenOK'
    <2> SUFFICES ASSUME NEW i \in Exports!Ids, NEW file \in Exports!Files, WroteFile(commands'[i], file),
                        \A other \in Exports!Ids \ {i} : ~ Spoils(commands'[other], commands'[i], file)
                 PROVE  disk'[file] = Exports!Full(Exports!Of(commands'[i]))
        BY DEF WrittenOK, Exports!Files
    <2>1. CASE i = id
        <3>1. FALSE
            <4>1. WroteFile(d, file)
                BY <1>12, <2>1
            <4>2. PICK k \in DOMAIN Exports!FilesOf(d) :
                      \A j \in DOMAIN d.left : d.left[j] # Exports!FilesOf(d)[k]
                BY <4>1 DEF WroteFile
            <4>3. QED
                BY <1>8, <4>2
        <3>2. QED
            BY <3>1
    <2>2. CASE i # id
        <3>1. commands'[i] = commands[i]
            BY <1>12, <2>2
        <3>2. ASSUME NEW other \in Exports!Ids \ {i} PROVE ~ Spoils(commands[other], commands[i], file)
            <4>1. CASE other = id
                BY <1>10, <4>1 DEF Spoils, UsesFile
            <4>2. CASE other # id
                BY <1>12, <3>1, <4>2
            <4>3. QED
                BY <4>1, <4>2
        <3>3. disk[file] = Exports!Full(Exports!Of(commands[i]))
            BY <3>1, <3>2 DEF ExportsInv, WrittenOK
        <3>4. QED
            BY <1>11, <3>1, <3>3
    <2>3. QED
        BY <2>1, <2>2
<1>16. QED
    BY <1>12, <1>14, <1>15 DEF ExportsInv

\* What a command that works has left are its files' extensions, and its file is
\* one of its files.
LEMMA NextFile ==
    ASSUME NEW c \in CommandType, CommandOK(c), c.at = "busy", c.left # <<>>
    PROVE  /\ c.left \in Seq(Extensions) /\ Head(c.left) = c.left[1] /\ 1 \in DOMAIN c.left
           /\ UsesFile(c, Exports!File(c, Head(c.left)))
           /\ Exports!File(c, Head(c.left)) \in Exports!Files
<1>1. PICK k \in 0..Len(Exports!FilesOf(c)) :
          c.left = SubSeq(Exports!FilesOf(c), k + 1, Len(Exports!FilesOf(c)))
    BY DEF CommandOK
<1>2. Exports!FilesOf(c) \in Seq(Extensions)
    BY FilesAreExtensions
<1>3. c.left \in Seq(Extensions)
    BY DEF CommandType
<1>4. Head(c.left) = c.left[1] /\ 1 \in DOMAIN c.left
    BY <1>3
<1>5. k + 1 \in DOMAIN Exports!FilesOf(c) /\ Head(c.left) = Exports!FilesOf(c)[k + 1]
    BY <1>1, <1>2, <1>3, <1>4
<1>6. UsesFile(c, Exports!File(c, Head(c.left)))
    BY <1>5 DEF UsesFile
<1>7. QED
    BY <1>3, <1>4, <1>6, CommandFiles

\* A file of a command's is one by one extension.
LEMMA OneExtension ==
    ASSUME NEW c, NEW e, NEW g, Exports!File(c, e) = Exports!File(c, g)
    PROVE  e = g
BY DEF Exports!File

\* Opening a file empties it, for everyone who wrote it.
LEMMA ExportsOpen ==
    ASSUME ExportsInv, NEW id \in Exports!Ids, Exports!Open(id)
    PROVE  ExportsInv'
<1> DEFINE c == commands[id]
           d == [c EXCEPT !.open = TRUE]
           f == Exports!File(c, Head(c.left))
<1>1. c \in CommandType /\ CommandOK(c) /\ ExportsTypes
    BY DEF ExportsInv, ExportsTypes
<1>2. c.at = "busy" /\ c.left # <<>>
    BY DEF Exports!Open, Exports!Busy
<1>3. d \in CommandType /\ d.open = TRUE /\ d.at = "busy" /\ d.left = c.left /\ SameRequest(c, d)
    BY <1>1, <1>2 DEF CommandType, SameRequest
<1>4. commands' = [commands EXCEPT ![id] = d]
    BY <1>1 DEF Exports!Open, ExportsTypes
<1>5. disk' = [disk EXCEPT ![f] = Exports!NoBytes] /\ UNCHANGED runs
    BY DEF Exports!Open
<1> HIDE DEF c, d, f
<1>6. UsesFile(c, f) /\ f \in Exports!Files /\ 1 \in DOMAIN c.left /\ Head(c.left) = c.left[1]
    BY <1>1, <1>2, NextFile DEF f
<1>7. CommandOK(d)
    BY <1>1, <1>2, <1>3, SameFiles DEF CommandOK, SameRequest
<1>8. /\ disk' \in [Exports!Files -> [of : SUBSET Exports!Deliveries, whole : BOOLEAN]]
      /\ disk'[f] = Exports!NoBytes /\ \A file \in Exports!Files \ {f} : disk'[file] = disk[file]
    <2>1. Exports!NoBytes \in [of : SUBSET Exports!Deliveries, whole : BOOLEAN]
        BY DEF Exports!NoBytes
    <2>2. QED
        BY <1>1, <1>5, <1>6, <2>1 DEF ExportsTypes
<1>9. Exports!NoBytes.whole = FALSE /\ Exports!NoBytes.of = {}
    BY DEF Exports!NoBytes
<1>10. /\ ExportsTypes' /\ commands'[id] = d
       /\ \A other \in Exports!Ids \ {id} : commands'[other] = commands[other]
    BY <1>1, <1>3, <1>4, <1>5, <1>7, <1>8, <1>9, OneCommand DEF ExportsTypes
<1>11. commands[id] = c
    BY DEF c
<1>12. \A i \in Exports!Ids : Kept(commands[i], commands'[i]) /\ SameRequest(commands[i], commands'[i])
    BY <1>3, <1>10, <1>11 DEF Kept, SameRequest
<1>13. BytesOK'
    BY <1>8, <1>9, <1>12, BytesKept DEF ExportsInv
<1>14. WrittenOK'
    <2> SUFFICES ASSUME NEW i \in Exports!Ids, NEW file \in Exports!Files, WroteFile(commands'[i], file),
                        \A other \in Exports!Ids \ {i} : ~ Spoils(commands'[other], commands'[i], file)
                 PROVE  disk'[file] = Exports!Full(Exports!Of(commands'[i]))
        BY DEF WrittenOK, Exports!Files
    <2>1. WroteFile(commands[i], file)
        <3>1. CASE i = id
            <4>1. WroteFile(d, file)
                BY <1>10, <3>1
            <4>2. WroteFile(c, file)
                BY <1>2, <1>3, <4>1, SameFiles DEF WroteFile
            <4>3. QED
                BY <1>11, <3>1, <4>2
        <3>2. CASE i # id
            BY <1>10, <3>2
        <3>3. QED
            BY <3>1, <3>2
    <2>2. file # f
        <3>1. CASE i = id
            BY <1>6, <1>11, <2>1, <3>1, OneExtension DEF WroteFile, f
        <3>2. CASE i # id
            <4>1. UsesFile(d, f) /\ f = Exports!File(d, Head(d.left))
                BY <1>3, <1>6, SameFiles DEF UsesFile, f
            <4>2. Spoils(d, commands'[i], f)
                BY <1>3, <4>1 DEF Spoils
            <4>3. QED
                BY <1>10, <3>2, <4>2
        <3>3. QED
            BY <3>1, <3>2
    <2>3. ASSUME NEW other \in Exports!Ids \ {i}, Spoils(commands[other], commands[i], file)
          PROVE  Spoils(commands'[other], commands'[i], file)
        BY <1>2, <1>3, <1>10, <1>11, <1>12, <2>3, SpoilsKept
    <2>4. QED
        BY <1>8, <1>12, <2>1, <2>2, <2>3, WrittenKept DEF ExportsInv
<1>15. QED
    BY <1>10, <1>13, <1>14 DEF ExportsInv

\* Writing a file makes it the command's in full, and everyone's who wrote it
\* before, if nothing spoils it for them.
LEMMA ExportsWrite ==
    ASSUME ExportsInv, NEW id \in Exports!Ids, Exports!Write(id)
    PROVE  ExportsInv'
<1> DEFINE c == commands[id]
           d == [c EXCEPT !.open = FALSE, !.left = Tail(c.left)]
           f == Exports!File(c, Head(c.left))
<1>1. c \in CommandType /\ CommandOK(c) /\ ExportsTypes
    BY DEF ExportsInv, ExportsTypes
<1>2. c.at = "busy" /\ c.open /\ c.left # <<>>
    BY <1>1 DEF Exports!Write, Exports!Busy, CommandOK
<1>3. commands' = [commands EXCEPT ![id] = d]
    BY <1>1 DEF Exports!Write, ExportsTypes
<1>4. PICK bytes \in Exports!Written(disk[f], Exports!Of(c)) : disk' = [disk EXCEPT ![f] = bytes]
    BY DEF Exports!Write
<1>5. UNCHANGED runs
    BY DEF Exports!Write
<1>6. /\ c.left \in Seq(Extensions) /\ 1 \in DOMAIN c.left /\ Head(c.left) = c.left[1]
      /\ UsesFile(c, f) /\ f \in Exports!Files
    BY <1>1, <1>2, NextFile
<1>7. /\ d \in CommandType /\ d.open = FALSE /\ d.at = "busy" /\ d.left = Tail(c.left)
      /\ SameRequest(c, d)
    <2>1. Tail(c.left) \in Seq(Extensions)
        BY <1>2, <1>6
    <2>2. QED
        BY <1>1, <1>2, <2>1 DEF CommandType, SameRequest
<1>8. commands[id] = c
    OBVIOUS
<1>9. f = Exports!File(c, Head(c.left))
    OBVIOUS
<1> HIDE DEF c, d, f
<1>10. CommandOK(d)
    <2>1. PICK k \in 0..Len(Exports!FilesOf(c)) :
              c.left = SubSeq(Exports!FilesOf(c), k + 1, Len(Exports!FilesOf(c)))
        BY <1>1, <1>2 DEF CommandOK
    <2>2. Exports!FilesOf(c) \in Seq(Extensions) /\ Exports!FilesOf(d) = Exports!FilesOf(c)
        BY <1>1, <1>7, FilesAreExtensions, SameFiles
    <2>3. k + 1 \in 0..Len(Exports!FilesOf(c))
        BY <1>2, <2>1, <2>2
    <2>4. Tail(c.left) = SubSeq(Exports!FilesOf(c), (k + 1) + 1, Len(Exports!FilesOf(c)))
        BY <1>2, <2>1, <2>2, <2>3
    <2>5. QED
        BY <1>1, <1>2, <1>7, <2>2, <2>3, <2>4 DEF CommandOK, SameRequest
<1>11. Exports!Of(c) \in Exports!Deliveries
    BY <1>1, <1>2, CommandFiles
<1>12. /\ bytes \in [of : SUBSET Exports!Deliveries, whole : BOOLEAN]
       /\ bytes.of = {Exports!Of(c)} \/ bytes.of = disk[f].of \cup {Exports!Of(c)}
       /\ bytes.whole => bytes.of = {Exports!Of(c)}
    <2> DEFINE e == Exports!Of(c)
               mixed == [of |-> disk[f].of \cup {e}, whole |-> disk[f].of \subseteq {e}]
    <2>1. disk[f] \in [of : SUBSET Exports!Deliveries, whole : BOOLEAN]
        BY <1>1, <1>6 DEF ExportsTypes
    <2>2. bytes = Exports!Full(e) \/ bytes = mixed
        BY <1>4 DEF Exports!Written
    <2> HIDE DEF e
    <2>3. CASE bytes = Exports!Full(e)
        BY <1>11, <2>3 DEF Exports!Full, e
    <2>4. CASE bytes = mixed
        <3>1. (disk[f].of \subseteq {e}) \in BOOLEAN
            BY Zenon
        <3>2. bytes.of = disk[f].of \cup {e} /\ bytes.whole = (disk[f].of \subseteq {e})
            BY <2>4
        <3>3. disk[f].of \cup {e} \in SUBSET Exports!Deliveries
            BY <1>11, <2>1 DEF e
        <3>4. bytes \in [of : SUBSET Exports!Deliveries, whole : BOOLEAN]
            BY <2>4, <3>1, <3>3
        <3>5. bytes.whole => bytes.of = {e}
            BY <3>2
        <3>6. QED
            BY <3>2, <3>4, <3>5 DEF e
    <2>5. QED
        BY <2>2, <2>3, <2>4
<1>13. /\ disk' \in [Exports!Files -> [of : SUBSET Exports!Deliveries, whole : BOOLEAN]]
       /\ disk'[f] = bytes /\ \A file \in Exports!Files \ {f} : disk'[file] = disk[file]
    BY <1>1, <1>4, <1>6, <1>12 DEF ExportsTypes
<1>14. \A file \in Exports!Files : disk'[file].whole => \E e \in Exports!Deliveries : disk'[file].of = {e}
    BY <1>1, <1>11, <1>12, <1>13 DEF ExportsTypes
<1>15. /\ ExportsTypes' /\ commands'[id] = d
       /\ \A other \in Exports!Ids \ {id} : commands'[other] = commands[other]
    BY <1>1, <1>3, <1>5, <1>7, <1>10, <1>13, <1>14, OneCommand DEF ExportsTypes
<1>16. \A i \in Exports!Ids : Kept(commands[i], commands'[i]) /\ SameRequest(commands[i], commands'[i])
    BY <1>7, <1>8, <1>15 DEF Kept, SameRequest
<1>17. BytesOK'
    BY <1>6, <1>8, <1>12, <1>13, <1>16, BytesKept DEF ExportsInv
<1>18. WrittenOK'
    <2> SUFFICES ASSUME NEW i \in Exports!Ids, NEW file \in Exports!Files, WroteFile(commands'[i], file),
                        \A other \in Exports!Ids \ {i} : ~ Spoils(commands'[other], commands'[i], file)
                 PROVE  disk'[file] = Exports!Full(Exports!Of(commands'[i]))
        BY DEF WrittenOK, Exports!Files
    <2>1. UsesFile(commands[i], file)
        <3>1. UsesFile(commands'[i], file)
            BY DEF WroteFile, UsesFile
        <3>2. commands'[i].at # "idle" => commands[i].at # "idle"
            BY <1>2, <1>7, <1>8, <1>15
        <3>3. QED
            BY <1>16, <3>1, <3>2, SameFiles DEF UsesFile
    <2>2. CASE file = f
        <3>1. ASSUME NEW other \in Exports!Ids \ {i}, UsesFile(commands[other], f)
              PROVE  Exports!Plain(Exports!Of(commands[i])) \/ commands[other].run = commands[i].run
            <4>1. UsesFile(commands'[other], f)
                BY <1>16, <3>1, UsesKept
            <4>2. Exports!Plain(Exports!Of(commands'[i])) \/ commands'[other].run = commands'[i].run
                BY <2>2, <4>1 DEF Spoils
            <4>3. QED
                BY <1>16, <4>2, SameFiles DEF SameRequest
        <3>2. bytes = Exports!Full(Exports!Of(commands[i]))
            BY <1>1, <1>4, <1>6, <1>8, <2>1, <2>2, <3>1, WriteIsFull DEF ExportsInv
        <3>3. QED
            BY <1>13, <1>16, <2>2, <3>2, SameFiles
    <2>3. CASE file # f
        <3>1. WroteFile(commands[i], file)
            <4>1. CASE i = id
                <5>1. WroteFile(d, file)
                    BY <1>15, <4>1
                <5>2. PICK k \in DOMAIN Exports!FilesOf(c) :
                          /\ file = Exports!File(c, Exports!FilesOf(c)[k])
                          /\ \A j \in DOMAIN Tail(c.left) : Tail(c.left)[j] # Exports!FilesOf(c)[k]
                    BY <1>7, <5>1, SameFiles DEF WroteFile
                <5>3. ASSUME NEW j \in DOMAIN c.left PROVE c.left[j] # Exports!FilesOf(c)[k]
                    <6>1. CASE j = 1
                        BY <1>6, <1>9, <2>3, <5>2, <6>1
                    <6>2. CASE j # 1
                        <7>1. j - 1 \in DOMAIN Tail(c.left) /\ Tail(c.left)[j - 1] = c.left[j]
                            BY <1>2, <1>6, <6>2
                        <7>2. QED
                            BY <5>2, <7>1
                    <6>3. QED
                        BY <6>1, <6>2
                <5>4. QED
                    BY <1>2, <1>8, <4>1, <5>2, <5>3 DEF WroteFile
            <4>2. CASE i # id
                BY <1>15, <4>2
            <4>3. QED
                BY <4>1, <4>2
        <3>2. ASSUME NEW other \in Exports!Ids \ {i}, Spoils(commands[other], commands[i], file)
              PROVE  Spoils(commands'[other], commands'[i], file)
            BY <1>2, <1>8, <1>9, <1>15, <1>16, <2>3, <3>2, SpoilsKept
        <3>3. QED
            BY <1>13, <1>16, <2>3, <3>1, <3>2, WrittenKept DEF ExportsInv
    <2>4. QED
        BY <2>2, <2>3
<1>19. QED
    BY <1>15, <1>17, <1>18 DEF ExportsInv

\* A command that fails says so of all its files, the one it has open too.
LEMMA ExportsFail ==
    ASSUME ExportsInv, NEW id \in Exports!Ids, Exports!Fail(id)
    PROVE  ExportsInv'
<1> DEFINE c == commands[id]
           d == [c EXCEPT !.at = "failed", !.open = FALSE]
           f == Exports!File(c, Head(c.left))
<1>1. c \in CommandType /\ CommandOK(c) /\ ExportsTypes
    BY DEF ExportsInv, ExportsTypes
<1>2. c.at = "busy" /\ c.left # <<>>
    BY DEF Exports!Fail, Exports!Busy
<1>3. commands' = [commands EXCEPT ![id] = d]
    BY DEF Exports!Fail, Exports!GiveUp
<1>4. UNCHANGED runs
    BY DEF Exports!Fail
<1>5. UsesFile(c, f) /\ f \in Exports!Files
    BY <1>1, <1>2, NextFile
<1>6. /\ d \in CommandType /\ d.open = FALSE /\ d.at = "failed" /\ d.left = c.left
      /\ SameRequest(c, d)
    BY <1>1 DEF CommandType, SameRequest, Exports!States
<1>7. disk' = disk \/ \E bytes \in Exports!PartWritten(disk[f], Exports!Of(c)) : disk' = [disk EXCEPT ![f] = bytes]
    BY DEF Exports!Fail
<1>8. commands[id] = c
    OBVIOUS
<1> HIDE DEF c, d, f
<1>9. CommandOK(d)
    BY <1>1, <1>2, <1>6, SameFiles DEF CommandOK, SameRequest
<1>10. Exports!Of(c) \in Exports!Deliveries
    BY <1>1, <1>2, CommandFiles
<1>11. /\ disk' \in [Exports!Files -> [of : SUBSET Exports!Deliveries, whole : BOOLEAN]]
       /\ disk'[f].of = disk[f].of \/ disk'[f].of = disk[f].of \cup {Exports!Of(c)}
       /\ disk'[f].whole => \E e \in Exports!Deliveries : disk'[f].of = {e}
       /\ \A file \in Exports!Files \ {f} : disk'[file] = disk[file]
    <2>1. CASE disk' = disk
        BY <1>1, <1>5, <2>1 DEF ExportsTypes
    <2>2. CASE disk' # disk
        <3>1. PICK bytes \in Exports!PartWritten(disk[f], Exports!Of(c)) : disk' = [disk EXCEPT ![f] = bytes]
            BY <1>7, <2>2
        <3> DEFINE e == Exports!Of(c)
                   part == [of |-> disk[f].of \cup {e}, whole |-> disk[f].whole /\ disk[f].of = {e}]
        <3>2. disk[f] \in [of : SUBSET Exports!Deliveries, whole : BOOLEAN]
            BY <1>1, <1>5 DEF ExportsTypes
        <3>3. bytes = disk[f] \/ bytes = part
            BY <3>1 DEF Exports!PartWritten
        <3>4. disk'[f] = bytes /\ \A file \in Exports!Files \ {f} : disk'[file] = disk[file]
            BY <1>1, <1>5, <3>1 DEF ExportsTypes
        <3>5. CASE bytes = disk[f]
            BY <1>1, <1>5, <3>1, <3>2, <3>4, <3>5 DEF ExportsTypes
        <3>6. CASE bytes = part
            <4>1. (disk[f].whole /\ disk[f].of = {e}) \in BOOLEAN
                BY Zenon
            <4>2. bytes.of = disk[f].of \cup {e} /\ bytes.whole = (disk[f].whole /\ disk[f].of = {e})
                BY <3>6
            <4>3. disk[f].of \cup {e} \in SUBSET Exports!Deliveries
                BY <1>10, <3>2
            <4> HIDE DEF e
            <4>4. part \in [of : SUBSET Exports!Deliveries, whole : BOOLEAN]
                BY <4>1, <4>3
            <4>5. disk' \in [Exports!Files -> [of : SUBSET Exports!Deliveries, whole : BOOLEAN]]
                <5> HIDE DEF part
                <5>1. QED
                    BY <1>1, <3>1, <3>6, <4>4 DEF ExportsTypes
            <4>6. bytes.whole => bytes.of = {e}
                BY <4>2
            <4>7. QED
                BY <1>10, <3>4, <4>2, <4>5, <4>6 DEF e
        <3>7. QED
            BY <3>3, <3>5, <3>6
    <2>3. QED
        BY <2>1, <2>2
<1>12. \A file \in Exports!Files : disk'[file].whole => \E e \in Exports!Deliveries : disk'[file].of = {e}
    BY <1>1, <1>11 DEF ExportsTypes
<1>13. /\ ExportsTypes' /\ commands'[id] = d
       /\ \A other \in Exports!Ids \ {id} : commands'[other] = commands[other]
    BY <1>1, <1>3, <1>4, <1>6, <1>9, <1>11, <1>12, OneCommand DEF ExportsTypes
<1>14. \A i \in Exports!Ids : Kept(commands[i], commands'[i]) /\ SameRequest(commands[i], commands'[i])
    BY <1>6, <1>8, <1>13 DEF Kept, SameRequest
<1>15. BytesOK'
    BY <1>5, <1>8, <1>11, <1>14, BytesKept DEF ExportsInv
<1>16. WrittenOK'
    <2> SUFFICES ASSUME NEW i \in Exports!Ids, NEW file \in Exports!Files, WroteFile(commands'[i], file),
                        \A other \in Exports!Ids \ {i} : ~ Spoils(commands'[other], commands'[i], file)
                 PROVE  disk'[file] = Exports!Full(Exports!Of(commands'[i]))
        BY DEF WrittenOK, Exports!Files
    <2>1. i # id
        BY <1>6, <1>13 DEF WroteFile
    <2>2. commands'[i] = commands[i]
        BY <1>13, <2>1
    <2>3. file # f
        <3>1. UsesFile(d, f)
            BY <1>5, <1>6, SameFiles DEF UsesFile
        <3>2. QED
            BY <1>6, <1>13, <2>1, <3>1 DEF Spoils
    <2>4. ASSUME NEW other \in Exports!Ids \ {i}, Spoils(commands[other], commands[i], file)
          PROVE  Spoils(commands'[other], commands'[i], file)
        BY <1>2, <1>6, <1>8, <1>13, <1>14, <2>4, SpoilsKept
    <2>5. QED
        BY <1>11, <1>14, <2>2, <2>3, <2>4, WrittenKept DEF ExportsInv
<1>17. QED
    BY <1>13, <1>15, <1>16 DEF ExportsInv

\* A command that returns has written all its files.
LEMMA ExportsReturn ==
    ASSUME ExportsInv, NEW id \in Exports!Ids, Exports!Return(id)
    PROVE  ExportsInv'
<1> DEFINE c == commands[id]
           d == [c EXCEPT !.at = "done"]
<1>1. c \in CommandType /\ CommandOK(c) /\ ExportsTypes
    BY DEF ExportsInv, ExportsTypes
<1>2. c.at = "busy" /\ c.left = <<>>
    BY DEF Exports!Return, Exports!Busy
<1>3. commands' = [commands EXCEPT ![id] = d] /\ UNCHANGED <<runs, disk>>
    BY DEF Exports!Return
<1>4. d \in CommandType /\ d.open = c.open /\ d.at = "done" /\ d.left = c.left /\ SameRequest(c, d)
    BY <1>1 DEF CommandType, SameRequest, Exports!States
<1>5. commands[id] = c
    OBVIOUS
<1> HIDE DEF c, d
<1>6. CommandOK(d)
    BY <1>1, <1>2, <1>4, SameFiles DEF CommandOK, SameRequest
<1>7. /\ ExportsTypes' /\ commands'[id] = d
      /\ \A other \in Exports!Ids \ {id} : commands'[other] = commands[other]
    BY <1>1, <1>3, <1>4, <1>6, OneCommand DEF ExportsTypes
<1>8. \A i \in Exports!Ids : Kept(commands[i], commands'[i]) /\ SameRequest(commands[i], commands'[i])
    BY <1>4, <1>5, <1>7 DEF Kept, SameRequest
<1>9. BytesOK'
    BY <1>3, <1>8, BytesKept DEF ExportsInv
<1>10. WrittenOK'
    <2> SUFFICES ASSUME NEW i \in Exports!Ids, NEW file \in Exports!Files, WroteFile(commands'[i], file),
                        \A other \in Exports!Ids \ {i} : ~ Spoils(commands'[other], commands'[i], file)
                 PROVE  disk'[file] = Exports!Full(Exports!Of(commands'[i]))
        BY DEF WrittenOK, Exports!Files
    <2>1. WroteFile(commands[i], file)
        <3>1. CASE i = id
            <4>1. WroteFile(d, file)
                BY <1>7, <3>1
            <4>2. WroteFile(c, file)
                BY <1>2, <1>4, <4>1, SameFiles DEF WroteFile
            <4>3. QED
                BY <1>5, <3>1, <4>2
        <3>2. CASE i # id
            BY <1>7, <3>2
        <3>3. QED
            BY <3>1, <3>2
    <2>2. ASSUME NEW other \in Exports!Ids \ {i}, Spoils(commands[other], commands[i], file)
          PROVE  Spoils(commands'[other], commands'[i], file)
        BY <1>2, <1>4, <1>5, <1>7, <1>8, <2>2, SpoilsKept
    <2>3. QED
        BY <1>3, <1>8, <2>1, <2>2, WrittenKept DEF ExportsInv
<1>11. QED
    BY <1>7, <1>9, <1>10 DEF ExportsInv

\* A run that ends leaves the files of the commands it abandons as they are.
LEMMA ExportsEndRun ==
    ASSUME ExportsInv, NEW run \in runs, Exports!EndRun(run)
    PROVE  ExportsInv'
<1> DEFINE Left(c) == [c EXCEPT !.at = "abandoned", !.open = FALSE]
           Ends(id) == Exports!Busy(id) /\ commands[id].run = run
<1>1. ExportsTypes
    BY DEF ExportsInv
<1>2. commands' = [id \in Exports!Ids |-> IF Ends(id) THEN Left(commands[id]) ELSE commands[id]]
    BY DEF Exports!EndRun
<1>3. runs' \subseteq Exports!Runs /\ disk' = disk
    BY <1>1 DEF Exports!EndRun, ExportsTypes
<1>4. ASSUME NEW c \in CommandType
      PROVE  /\ Left(c) \in CommandType /\ Left(c).at = "abandoned" /\ Left(c).open = FALSE
             /\ Left(c).left = c.left /\ SameRequest(c, Left(c))
    BY DEF CommandType, SameRequest, Exports!States
<1>5. ASSUME NEW c \in CommandType, CommandOK(c), c.at = "busy" PROVE CommandOK(Left(c))
    <2> DEFINE d == Left(c)
    <2>1. /\ d.at = "abandoned" /\ d.open = FALSE /\ d.left = c.left /\ SameRequest(c, d)
        BY <1>4
    <2> HIDE DEF d
    <2>2. CommandOK(d)
        BY <1>5, <2>1, SameFiles DEF CommandOK, SameRequest
    <2>3. QED
        BY <2>2 DEF d
<1>6. ASSUME NEW id \in Exports!Ids
      PROVE  /\ commands[id] \in CommandType /\ CommandOK(commands[id])
             /\ Ends(id) => commands'[id] = Left(commands[id]) /\ commands[id].at = "busy"
             /\ ~ Ends(id) => commands'[id] = commands[id]
    BY <1>1, <1>2 DEF ExportsTypes, Exports!Busy
<1> HIDE DEF Left, Ends
<1>7. commands' \in [Exports!Ids -> CommandType]
    BY <1>2, <1>4, <1>6
<1>8. \A id \in Exports!Ids : CommandOK(commands'[id])
    BY <1>5, <1>6
<1>9. ExportsTypes'
    <2>1. \A id \in Exports!Ids : CommandOK(commands[id])'
        BY <1>8 DEF CommandOK
    <2>2. QED
        BY <1>1, <1>3, <1>7, <2>1 DEF ExportsTypes
<1>10. \A id \in Exports!Ids : Kept(commands[id], commands'[id]) /\ SameRequest(commands[id], commands'[id])
    <2> SUFFICES ASSUME NEW id \in Exports!Ids
                 PROVE  Kept(commands[id], commands'[id]) /\ SameRequest(commands[id], commands'[id])
        OBVIOUS
    <2>1. CASE Ends(id)
        BY <1>4, <1>6, <2>1 DEF Kept
    <2>2. CASE ~ Ends(id)
        BY <1>6, <2>2 DEF Kept, SameRequest
    <2>3. QED
        BY <2>1, <2>2
<1>11. BytesOK'
    BY <1>3, <1>10, BytesKept DEF ExportsInv
<1>12. WrittenOK'
    <2> SUFFICES ASSUME NEW i \in Exports!Ids, NEW file \in Exports!Files, WroteFile(commands'[i], file),
                        \A other \in Exports!Ids \ {i} : ~ Spoils(commands'[other], commands'[i], file)
                 PROVE  disk'[file] = Exports!Full(Exports!Of(commands'[i]))
        BY DEF WrittenOK, Exports!Files
    <2>1. commands'[i] = commands[i]
        BY <1>4, <1>6 DEF WroteFile
    <2>2. ASSUME NEW other \in Exports!Ids \ {i}, Spoils(commands[other], commands[i], file)
          PROVE  Spoils(commands'[other], commands'[i], file)
        BY <1>4, <1>6, <1>10, <2>2, SpoilsKept
    <2>3. QED
        BY <1>3, <1>10, <2>1, <2>2, WrittenKept DEF ExportsInv
<1>13. QED
    BY <1>9, <1>11, <1>12 DEF ExportsInv

\* Every step keeps the invariant.
LEMMA ExportsStep == ExportsInv /\ [Exports!Next]_(Exports!vars) => ExportsInv'
<1> SUFFICES ASSUME ExportsInv, [Exports!Next]_(Exports!vars) PROVE ExportsInv'
    OBVIOUS
<1>1. ASSUME NEW id \in Exports!Ids, Exports!Press(id) PROVE ExportsInv'
    BY <1>1, ExportsPress
<1>2. ASSUME NEW id \in Exports!Ids, Exports!Works(id) PROVE ExportsInv'
    BY <1>2, ExportsOpen, ExportsWrite, ExportsFail, ExportsReturn DEF Exports!Works
<1>3. ASSUME NEW run \in runs, Exports!EndRun(run) PROVE ExportsInv'
    BY <1>3, ExportsEndRun, SMTT(30)
<1>4. CASE UNCHANGED Exports!vars
    BY <1>4 DEF Exports!vars, ExportsInv, ExportsTypes, BytesOK, WrittenOK, WroteFile, Spoils, UsesFile, CommandOK,
                Exports!FilesOf, Exports!File, Exports!Of
<1>5. QED
    BY <1>1, <1>2, <1>3, <1>4 DEF Exports!Next

\* The end of a sequence is a suffix of it.
LEMMA EndIsSuffix ==
    ASSUME NEW S, NEW s \in Seq(S), NEW k \in 0..Len(s)
    PROVE  Exports!IsSuffix(SubSeq(s, k + 1, Len(s)), s)
<1> DEFINE end == SubSeq(s, k + 1, Len(s))
           r == Exports!Reverse(end)
           t == Exports!Reverse(s)
<1>1. end \in Seq(S) /\ Len(end) = Len(s) - k /\ \A i \in 1..Len(end) : end[i] = s[k + i]
    OBVIOUS
<1> HIDE DEF end
<1>2. /\ r \in Seq(S) /\ Len(r) = Len(end)
      /\ \A i \in 1..Len(end) : r[i] = end[(Len(end) - i) + 1]
    BY <1>1 DEF Exports!Reverse
<1>3. /\ t \in Seq(S) /\ Len(t) = Len(s)
      /\ \A i \in 1..Len(s) : t[i] = s[(Len(s) - i) + 1]
    BY DEF Exports!Reverse
<1> HIDE DEF r, t
<1>4. ASSUME NEW i \in 1..Len(end) PROVE r[i] = t[i]
    <2>1. Len(end) \in Nat /\ Len(s) \in Nat
        BY <1>1
    <2>2. (Len(end) - i) + 1 \in 1..Len(end) /\ i \in 1..Len(s)
        BY <1>1, <2>1
    <2>3. r[i] = s[k + ((Len(end) - i) + 1)]
        BY <1>1, <1>2, <2>2
    <2>4. k + ((Len(end) - i) + 1) = (Len(s) - i) + 1
        BY <1>1, <2>1
    <2>5. QED
        BY <1>3, <2>2, <2>3, <2>4
<1>5. SubSeq(r, 1, Len(r)) = SubSeq(t, 1, Len(r))
    <2> DEFINE a == SubSeq(r, 1, Len(r))
               b == SubSeq(t, 1, Len(r))
    <2>1. Len(r) \in Nat /\ Len(r) <= Len(t)
        BY <1>1, <1>2, <1>3
    <2>2. a \in Seq(S) /\ Len(a) = Len(r) /\ \A i \in 1..Len(r) : a[i] = r[i]
        BY <1>2, <2>1
    <2>3. b \in Seq(S) /\ Len(b) = Len(r) /\ \A i \in 1..Len(r) : b[i] = t[i]
        BY <1>3, <2>1
    <2>4. \A i \in 1..Len(r) : r[i] = t[i]
        BY <1>2, <1>4
    <2> HIDE DEF a, b
    <2>5. a = b
        BY <2>1, <2>2, <2>3, <2>4
    <2>6. QED
        BY <2>5 DEF a, b
<1>6. Exports!IsPrefix(r, t)
    BY <1>1, <1>2, <1>3, <1>5 DEF Exports!IsPrefix
<1>7. QED
    BY <1>6 DEF Exports!IsSuffix, r, t, end

\* A command uses the files of its extensions.
LEMMA UsesIsUses ==
    ASSUME NEW id \in Exports!Ids, NEW file
    PROVE  Exports!Uses(id, file) <=> UsesFile(commands[id], file)
BY DEF Exports!Uses, UsesFile, Exports!Range

\* The invariant has what the model promises of the files.
LEMMA ExportsInvIsEnough ==
    ASSUME ExportsInv
    PROVE  /\ Exports!TypeOK /\ Exports!FilesKeepTheirDelivery
           /\ Exports!ReturnedFilesAreWhole /\ Exports!HalfFilesAreKnown
<1>1. \A id \in Exports!Ids : commands[id] \in CommandType /\ CommandOK(commands[id])
    BY DEF ExportsInv, ExportsTypes
<1>2. Exports!TypeOK
    <2>1. ASSUME NEW id \in Exports!Ids, commands[id].at # "idle"
          PROVE  Exports!IsSuffix(commands[id].left, Exports!FilesOf(commands[id]))
        <3>1. Exports!FilesOf(commands[id]) \in Seq(Extensions)
            BY <1>1, FilesAreExtensions
        <3>2. QED
            BY <1>1, <2>1, <3>1, EndIsSuffix DEF CommandOK
    <2>2. \A id \in Exports!Ids : commands[id].at \in Exports!States /\ commands[id].open \in BOOLEAN
        BY <1>1 DEF CommandType
    <2>3. \A id \in Exports!Ids : commands[id].open => Exports!Busy(id) /\ commands[id].left # <<>>
        BY <1>1 DEF CommandOK, Exports!Busy
    <2>4. QED
        BY <2>1, <2>2, <2>3 DEF Exports!TypeOK, ExportsInv, ExportsTypes
<1>3. ASSUME NEW id \in Exports!Ids, commands[id].at # "idle", NEW e \in Exports!Range(Exports!FilesOf(commands[id]))
      PROVE  /\ UsesFile(commands[id], Exports!File(commands[id], e))
             /\ Exports!File(commands[id], e) \in Exports!Files
    <2>1. UsesFile(commands[id], Exports!File(commands[id], e))
        BY <1>3 DEF UsesFile, Exports!Range
    <2>2. QED
        BY <1>1, <1>3, <2>1, CommandFiles
<1>4. Exports!FilesKeepTheirDelivery
    <2> SUFFICES ASSUME NEW id \in Exports!Ids, NEW e \in Exports!Range(Exports!FilesOf(commands[id])),
                        commands[id].at # "idle", Exports!Plain(Exports!Of(commands[id])),
                        NEW d \in disk[Exports!File(commands[id], e)].of
                 PROVE  d = Exports!Of(commands[id])
        BY DEF Exports!FilesKeepTheirDelivery
    <2> DEFINE file == Exports!File(commands[id], e)
    <2>1. UsesFile(commands[id], file) /\ file \in Exports!Files
        BY <1>3
    <2>2. PICK i \in Exports!Ids : UsesFile(commands[i], file) /\ Exports!Of(commands[i]) = d
        BY <2>1 DEF ExportsInv, BytesOK
    <2>3. QED
        BY <1>1, <2>1, <2>2, OneFileOneDelivery DEF ExportsInv, ExportsTypes
<1>5. Exports!ReturnedFilesAreWhole
    <2> SUFFICES ASSUME NEW id \in Exports!Ids, commands[id].at = "done",
                        NEW e \in Exports!Range(Exports!FilesOf(commands[id])),
                        \A other \in Exports!Ids \ {id} :
                            ~ Exports!Disturbs(other, id, Exports!File(commands[id], e))
                 PROVE  disk[Exports!File(commands[id], e)] = Exports!Full(Exports!Of(commands[id]))
        BY DEF Exports!ReturnedFilesAreWhole
    <2> DEFINE file == Exports!File(commands[id], e)
    <2>1. UsesFile(commands[id], file) /\ file \in Exports!Files
        BY <1>3
    <2>2. WroteFile(commands[id], file)
        BY <1>1, <2>1 DEF CommandOK, WroteFile, UsesFile
    <2>3. \A other \in Exports!Ids \ {id} : ~ Spoils(commands[other], commands[id], file)
        BY UsesIsUses DEF Exports!Disturbs, Spoils
    <2>4. QED
        BY <2>1, <2>2, <2>3 DEF ExportsInv, WrittenOK
<1>6. Exports!HalfFilesAreKnown
    <2> SUFFICES ASSUME NEW file \in Exports!Files, disk[file].of # {}, ~ disk[file].whole,
                        \A id \in Exports!Ids : Exports!Uses(id, file) =>
                            commands[id].at \notin {"busy", "failed", "abandoned"}
                 PROVE  \E i, j \in Exports!Ids :
                            Exports!Uses(i, file) /\ Exports!Uses(j, file) /\ commands[i].run # commands[j].run
        BY DEF Exports!HalfFilesAreKnown
    <2>1. PICK d \in disk[file].of : TRUE
        OBVIOUS
    <2>2. PICK i \in Exports!Ids : UsesFile(commands[i], file) /\ Exports!Of(commands[i]) = d
        BY DEF ExportsInv, BytesOK
    <2>3. \A id \in Exports!Ids : UsesFile(commands[id], file) => commands[id].at = "done"
        BY <1>1, UsesIsUses DEF CommandType, Exports!States, UsesFile
    <2>4. WroteFile(commands[i], file)
        <3>1. commands[i].at = "done"
            BY <2>2, <2>3
        <3>2. commands[i].left = <<>>
            BY <1>1, <3>1 DEF CommandOK
        <3>3. QED
            BY <2>2, <3>1, <3>2 DEF WroteFile, UsesFile
    <2>5. disk[file] # Exports!Full(Exports!Of(commands[i]))
        BY DEF Exports!Full
    <2>6. PICK j \in Exports!Ids \ {i} : Spoils(commands[j], commands[i], file)
        BY <2>4, <2>5 DEF ExportsInv, WrittenOK
    <2>7. UsesFile(commands[j], file) /\ commands[j].at = "done"
        BY <2>3, <2>6 DEF Spoils
    <2>8. ~ commands[j].open
        BY <1>1, <2>7 DEF CommandOK
    <2>9. commands[j].run # commands[i].run
        BY <2>6, <2>7, <2>8 DEF Spoils
    <2>10. QED
        BY <2>2, <2>7, <2>9, UsesIsUses
<1>7. QED
    BY <1>2, <1>4, <1>5, <1>6

\* A file named after a request and route holds that delivery's bytes alone; what a
\* command that returned wrote is there in full unless another command on the file
\* has it open, did not finish or is another run's; and a half-written file has
\* such a command: whatever exports, copies, replays, failures and quits overlap.
THEOREM FilesCorrect ==
    ASSUME Exports!ExportsAssumption
    PROVE  Exports!Spec => []FilesKeepTheirDelivery
<1>1. Exports!Init => ExportsInv
    BY ExportsInit
<1>2. ExportsInv => FilesKeepTheirDelivery
    BY ExportsInvIsEnough DEF FilesKeepTheirDelivery
<1>3. QED
    BY <1>1, <1>2, ExportsStep, PTL DEF Exports!Spec

----------------------------------------------------------------------------
(* Drawing: numbers, and definitions by recursion over a sequence's indices.  *)

\* The greatest of some numbers that have a bound.
LEMMA MaxIsGreatest ==
    ASSUME NEW S \in SUBSET Nat, S # {}, NEW n \in Nat, \A s \in S : s <= n
    PROVE  Max(S) \in S /\ \A s \in S : s <= Max(S)
<1>1. \E x \in S : \A y \in S : x >= y
    <2> SUFFICES ASSUME \A x \in S : \E y \in S : y > x PROVE FALSE
        OBVIOUS
    <2> DEFINE U == {k \in Nat : \A s \in S : s <= n - k}
    <2>1. 0 \in U
        OBVIOUS
    <2>2. ASSUME NEW k \in U PROVE k + 1 \in U
        <3>1. ASSUME NEW s \in S PROVE s <= n - (k + 1)
            <4>1. PICK y \in S : y > s
                OBVIOUS
            <4>2. QED
                BY <4>1
        <3>2. QED
            BY <3>1
    <2>3. U = Nat
        <3>1. U \in SUBSET Nat
            OBVIOUS
        <3> HIDE DEF U
        <3>2. QED
            BY <2>1, <2>2, <3>1, SetInduction
    <2>4. n + 1 \in U
        <3> HIDE DEF U
        <3>1. QED
            BY <2>3
    <2>5. \A s \in S : s <= n - (n + 1) /\ s \in Nat
        BY <2>4
    <2>6. PICK s \in S : TRUE
        OBVIOUS
    <2>7. s <= n - (n + 1) /\ s \in Nat
        BY <2>5
    <2>8. QED
        BY <2>7
<1>2. QED
    BY <1>1 DEF Max

\* A function defined from one index to the next: there is one.
GoesBy(f, n, base, step) == f[0] = base /\ \A i \in 1..n : f[i] = step[<<i, f[i - 1]>>]

LEMMA PrefixRecursion ==
    ASSUME NEW n \in Nat, NEW V, NEW base \in V, NEW step \in [(1..n) \X V -> V]
    PROVE  \E f \in [0..n -> V] : GoesBy(f, n, base, step)
<1> DEFINE Upto(m, f) == f[0] = base /\ \A i \in 1..m : f[i] = step[<<i, f[i - 1]>>]
           S == {m \in Nat : m <= n => \E f \in [0..m -> V] : Upto(m, f)}
<1>1. 0 \in S
    <2> DEFINE g == [i \in 0..0 |-> base]
    <2>1. g \in [0..0 -> V] /\ Upto(0, g)
        OBVIOUS
    <2>2. QED
        BY <2>1
<1>2. ASSUME NEW m \in S PROVE m + 1 \in S
    <2> SUFFICES ASSUME m + 1 <= n PROVE \E f \in [0..(m + 1) -> V] : Upto(m + 1, f)
        OBVIOUS
    <2>1. PICK f \in [0..m -> V] : Upto(m, f)
        OBVIOUS
    <2> DEFINE g == [i \in 0..(m + 1) |-> IF i = m + 1 THEN step[<<m + 1, f[m]>>] ELSE f[i]]
    <2>2. f[m] \in V /\ step[<<m + 1, f[m]>>] \in V
        OBVIOUS
    <2>3. g \in [0..(m + 1) -> V]
        BY <2>2
    <2>4. g[0] = base
        BY <2>1
    <2>5. ASSUME NEW i \in 1..(m + 1) PROVE g[i] = step[<<i, g[i - 1]>>]
        <3>1. CASE i = m + 1
            <4>1. i - 1 = m /\ m \in 0..(m + 1) /\ m # m + 1 /\ i \in 0..(m + 1)
                BY <3>1
            <4>2. g[i] = step[<<m + 1, f[m]>>] /\ g[m] = f[m]
                BY <3>1, <4>1
            <4>3. QED
                BY <3>1, <4>1, <4>2
        <3>2. CASE i # m + 1
            <4>1. i \in 1..m /\ i - 1 # m + 1 /\ i - 1 \in 0..(m + 1)
                BY <3>2
            <4>2. g[i] = f[i] /\ g[i - 1] = f[i - 1]
                BY <4>1, <3>2
            <4>3. QED
                BY <4>1, <4>2, <2>1
        <3>3. QED
            BY <3>1, <3>2
    <2>6. QED
        BY <2>3, <2>4, <2>5
<1>3. S = Nat
    <2>1. S \in SUBSET Nat
        OBVIOUS
    <2> HIDE DEF S
    <2>2. QED
        BY <1>1, <1>2, <2>1, SetInduction
<1>4. n \in S
    <2> HIDE DEF S
    <2>1. QED
        BY <1>3
<1>5. QED
    BY <1>4 DEF GoesBy

\* What is joined, one part after another.
LEMMA FlattenJoins ==
    ASSUME NEW R, NEW seqs \in Seq(Seq(R))
    PROVE  \E f \in [0..Len(seqs) -> Seq(R)] :
              /\ f[0] = <<>>
              /\ \A i \in 1..Len(seqs) : f[i] = f[i - 1] \o seqs[i]
              /\ Cards!FlattenSeq(seqs) = f[Len(seqs)]
<1> DEFINE n == Len(seqs)
           V == Seq(R)
           step == [x \in (1..n) \X V |-> x[2] \o seqs[x[1]]]
           Flatten(h) == h = [i \in 1..n |-> IF i = 1 THEN seqs[i] ELSE h[i - 1] \o seqs[i]]
           flatten == CHOOSE h : Flatten(h)
<1>1. n \in Nat /\ <<>> \in V /\ \A i \in 1..n : seqs[i] \in V
    OBVIOUS
<1>2. step \in [(1..n) \X V -> V]
    BY <1>1
<1>3. PICK f \in [0..n -> V] : f[0] = <<>> /\ \A i \in 1..n : f[i] = f[i - 1] \o seqs[i]
    <2>1. PICK f \in [0..n -> V] : GoesBy(f, n, <<>>, step)
        <3> HIDE DEF V, n, step
        <3>1. QED
            BY <1>1, <1>2, PrefixRecursion
    <2>2. ASSUME NEW i \in 1..n PROVE f[i] = f[i - 1] \o seqs[i]
        <3>1. i - 1 \in 0..n
            BY <1>1
        <3>2. f[i] = step[<<i, f[i - 1]>>]
            BY <2>1 DEF GoesBy
        <3>3. f[i - 1] \in V
            BY <3>1, <2>1
        <3> HIDE DEF V
        <3>4. QED
            BY <3>2, <3>3
    <2>3. QED
        BY <2>1, <2>2 DEF GoesBy
<1>4. CASE n = 0
    <2>1. seqs = <<>>
        BY <1>4
    <2>2. Cards!FlattenSeq(seqs) = f[0]
        BY <1>3, <1>4, <2>1 DEF Cards!FlattenSeq
    <2>3. QED
        BY <1>3, <1>4, <2>2
<1>5. CASE n # 0
    <2> DEFINE h == [i \in 1..n |-> f[i]]
    <2>1. Flatten(h)
        <3>1. ASSUME NEW i \in 1..n
              PROVE  f[i] = IF i = 1 THEN seqs[i] ELSE h[i - 1] \o seqs[i]
            <4>1. CASE i = 1
                <5>1. f[1] = f[1 - 1] \o seqs[1] /\ seqs[1] \in V
                    BY <1>1, <1>3, <4>1
                <5>2. 1 - 1 = 0
                    OBVIOUS
                <5>3. f[1] = <<>> \o seqs[1]
                    BY <5>1, <5>2, <1>3
                <5>4. QED
                    BY <4>1, <5>1, <5>3
            <4>2. CASE i # 1
                <5>1. i - 1 \in 1..n
                    BY <1>1, <4>2
                <5>2. QED
                    BY <1>3, <4>2, <5>1
            <4>3. QED
                BY <4>1, <4>2
        <3>2. QED
            BY <3>1
    <2>2. Flatten(flatten)
        <3> HIDE DEF Flatten
        <3>1. QED
            BY <2>1
    <2> HIDE DEF flatten
    <2>3. /\ flatten = [i \in 1..n |-> flatten[i]]
          /\ \A i \in 1..n : flatten[i] = IF i = 1 THEN seqs[i] ELSE flatten[i - 1] \o seqs[i]
        <3> HIDE DEF n
        <3>1. QED
            BY <2>2
    <2> DEFINE S == {m \in Nat : m + 1 <= n => flatten[m + 1] = f[m + 1]}
    <2>4. 0 \in S
        <3>1. 1 \in 1..n
            BY <1>1, <1>5
        <3>2. f[1] = seqs[1]
            BY <2>1, <3>1
        <3>3. flatten[1] = seqs[1]
            <4> HIDE DEF n
            <4>1. QED
                BY <2>3, <3>1
        <3>4. QED
            BY <3>2, <3>3
    <2>5. ASSUME NEW m \in S PROVE m + 1 \in S
        <3> SUFFICES ASSUME m + 2 <= n PROVE flatten[m + 2] = f[m + 2]
            BY <1>1
        <3>1. m + 2 \in 1..n /\ m + 2 # 1 /\ (m + 2) - 1 = m + 1 /\ m + 1 <= n
            BY <1>1
        <3>2. flatten[m + 1] = f[m + 1]
            BY <3>1
        <3>3. flatten[m + 2] = flatten[m + 1] \o seqs[m + 2]
            <4> HIDE DEF S, n
            <4>1. QED
                BY <2>3, <3>1
        <3>4. f[m + 2] = f[m + 1] \o seqs[m + 2]
            BY <1>3, <3>1
        <3>5. QED
            BY <3>2, <3>3, <3>4
    <2>6. S = Nat
        <3>1. S \in SUBSET Nat
            OBVIOUS
        <3> HIDE DEF S
        <3>2. QED
            BY <2>4, <2>5, <3>1, SetInduction
    <2>7. n - 1 \in S
        <3> HIDE DEF S
        <3>1. QED
            BY <1>1, <1>5, <2>6
    <2>8. flatten[n] = f[n]
        BY <1>1, <2>7
    <2>9. Cards!FlattenSeq(seqs) = flatten[n]
        BY <1>5 DEF Cards!FlattenSeq, flatten
    <2>10. QED
        BY <1>3, <2>8, <2>9
<1>6. QED
    BY <1>4, <1>5

\* The sum of a sequence of numbers.
Total(s) ==
    LET sum[i \in 0..Len(s)] == IF i = 0 THEN 0 ELSE sum[i - 1] + s[i]
    IN  sum[Len(s)]

\* A total is what goes by one part after another, and nothing else does.
LEMMA TotalStepwise ==
    ASSUME NEW s \in Seq(Nat)
    PROVE  \E f \in [0..Len(s) -> Nat] :
              /\ f[0] = 0 /\ \A i \in 1..Len(s) : f[i] = f[i - 1] + s[i]
              /\ Total(s) = f[Len(s)]
              /\ \A h : h = [i \in 0..Len(s) |-> IF i = 0 THEN 0 ELSE h[i - 1] + s[i]] => h = f
<1> DEFINE n == Len(s)
           step == [x \in (1..n) \X Nat |-> x[2] + s[x[1]]]
           Sum(h) == h = [i \in 0..n |-> IF i = 0 THEN 0 ELSE h[i - 1] + s[i]]
           sum == CHOOSE h : Sum(h)
<1>1. n \in Nat /\ \A i \in 1..n : s[i] \in Nat
    OBVIOUS
<1>2. step \in [(1..n) \X Nat -> Nat]
    BY <1>1
<1>3. PICK f \in [0..n -> Nat] : f[0] = 0 /\ \A i \in 1..n : f[i] = f[i - 1] + s[i]
    <2>1. PICK f \in [0..n -> Nat] : GoesBy(f, n, 0, step)
        <3>1. 0 \in Nat
            OBVIOUS
        <3> HIDE DEF n, step
        <3>2. QED
            BY <1>1, <1>2, <3>1, PrefixRecursion
    <2>2. ASSUME NEW i \in 1..n PROVE f[i] = f[i - 1] + s[i]
        <3>1. i - 1 \in 0..n
            BY <1>1
        <3>2. f[i] = step[<<i, f[i - 1]>>]
            BY <2>1 DEF GoesBy
        <3>3. f[i - 1] \in Nat
            BY <3>1, <2>1
        <3>4. QED
            BY <3>2, <3>3
    <2>3. QED
        BY <2>1, <2>2 DEF GoesBy
<1>4. Sum(f)
    <2>1. \A i \in 0..n : i # 0 => i \in 1..n
        BY <1>1
    <2>2. \A i \in 0..n : f[i] = IF i = 0 THEN 0 ELSE f[i - 1] + s[i]
        <3> HIDE DEF n
        <3>1. QED
            BY <1>3, <2>1
    <2> HIDE DEF n
    <2>3. QED
        BY <1>3, <2>2
<1>5. ASSUME NEW h, Sum(h) PROVE h = f
    <2>1. /\ h = [i \in 0..n |-> h[i]] /\ h[0] = 0
          /\ \A i \in 1..n : h[i] = h[i - 1] + s[i]
        <3>1. \A i \in 1..n : i \in 0..n /\ i # 0
            BY <1>1
        <3>2. 0 \in 0..n
            BY <1>1
        <3> HIDE DEF n
        <3>3. QED
            BY <1>5, <3>1, <3>2
    <2> DEFINE S == {m \in Nat : m <= n => h[m] = f[m]}
    <2>2. 0 \in S
        BY <1>3, <2>1
    <2>3. ASSUME NEW m \in S PROVE m + 1 \in S
        <3> SUFFICES ASSUME m + 1 <= n PROVE h[m + 1] = f[m + 1]
            OBVIOUS
        <3>1. m + 1 \in 1..n /\ (m + 1) - 1 = m /\ m <= n
            BY <1>1
        <3>2. h[m] = f[m]
            BY <3>1
        <3>3. f[m + 1] = f[(m + 1) - 1] + s[m + 1]
            <4> HIDE DEF S, n
            <4>1. QED
                BY <1>3, <3>1
        <3>4. h[m + 1] = h[(m + 1) - 1] + s[m + 1]
            <4> HIDE DEF S, n
            <4>1. QED
                BY <2>1, <3>1
        <3> HIDE DEF S, n
        <3>5. QED
            BY <3>1, <3>2, <3>3, <3>4
    <2>4. S = Nat
        <3>1. S \in SUBSET Nat
            OBVIOUS
        <3> HIDE DEF S
        <3>2. QED
            BY <2>2, <2>3, <3>1, SetInduction
    <2>5. \A i \in 0..n : h[i] = f[i]
        <3>1. \A i \in 0..n : i \in S
            <4> HIDE DEF S
            <4>1. QED
                BY <2>4, <1>1
        <3>2. QED
            BY <3>1, <1>1
    <2> HIDE DEF n, S, Sum
    <2>6. QED
        BY <1>3, <2>1, <2>5
<1>6. sum = f
    <2>1. Sum(sum)
        <3> HIDE DEF Sum
        <3>1. QED
            BY <1>4
    <2> HIDE DEF Sum, sum
    <2>2. QED
        BY <1>5, <2>1
<1>7. Total(s) = sum[n]
    BY DEF Total
<1>8. Total(s) = f[n]
    <2> HIDE DEF sum
    <2>1. QED
        BY <1>6, <1>7
<1>9. QED
    <2> HIDE DEF sum
    <2>1. QED
        BY <1>3, <1>5, <1>8

\* A part more adds its own columns.
LEMMA TotalAppend ==
    ASSUME NEW s \in Seq(Nat), NEW x \in Nat
    PROVE  /\ Total(s) \in Nat
           /\ Total(Append(s, x)) = Total(s) + x
<1> DEFINE t == Append(s, x)
           n == Len(s)
<1>1. /\ n \in Nat /\ t \in Seq(Nat) /\ Len(t) = n + 1 /\ t[n + 1] = x
      /\ \A i \in 1..n : t[i] = s[i]
    OBVIOUS
<1>2. PICK f \in [0..n -> Nat] :
          f[0] = 0 /\ (\A i \in 1..n : f[i] = f[i - 1] + s[i]) /\ Total(s) = f[n]
    BY TotalStepwise
<1> HIDE DEF t, n
<1>3. PICK g \in [0..n + 1 -> Nat] :
          /\ g[0] = 0 /\ \A i \in 1..n + 1 : g[i] = g[i - 1] + t[i]
          /\ Total(t) = g[n + 1]
    BY <1>1, TotalStepwise
<1> DEFINE S == {m \in Nat : m <= n => g[m] = f[m]}
<1>4. 0 \in S
    BY <1>2, <1>3
<1>5. ASSUME NEW m \in S PROVE m + 1 \in S
    <2> SUFFICES ASSUME m + 1 <= n PROVE g[m + 1] = f[m + 1]
        OBVIOUS
    <2>1. m + 1 \in 1..n /\ m + 1 \in 1..n + 1 /\ (m + 1) - 1 = m /\ g[m] = f[m]
        BY <1>1
    <2> HIDE DEF S
    <2>2. g[m + 1] = g[(m + 1) - 1] + t[m + 1]
        BY <1>3, <2>1
    <2>3. f[m + 1] = f[(m + 1) - 1] + s[m + 1]
        BY <1>2, <2>1
    <2>4. t[m + 1] = s[m + 1]
        BY <1>1, <2>1
    <2>5. QED
        BY <2>1, <2>2, <2>3, <2>4
<1>6. S = Nat
    <2>1. S \in SUBSET Nat
        OBVIOUS
    <2> HIDE DEF S
    <2>2. QED
        BY <1>4, <1>5, <2>1, SetInduction
<1>7. g[n] = f[n]
    <2>1. n \in S
        <3> HIDE DEF S
        <3>1. QED
            BY <1>1, <1>6
    <2>2. QED
        BY <1>1, <2>1
<1>8. g[n + 1] = g[n] + x
    <2>1. n + 1 \in 1..n + 1 /\ (n + 1) - 1 = n
        BY <1>1
    <2> HIDE DEF S
    <2>2. g[n + 1] = g[(n + 1) - 1] + t[n + 1]
        BY <1>3, <2>1
    <2>3. QED
        BY <1>1, <2>1, <2>2
<1>9. f[n] \in Nat
    BY <1>1, <1>2
<1> HIDE DEF S
<1>10. QED
    BY <1>2, <1>3, <1>7, <1>8, <1>9 DEF t

----------------------------------------------------------------------------
(* The status line.                                                           *)

\* What each part adds to the line: its own columns, and a separator's after the
\* first.
Spaced(parts) ==
    [i \in 1..Len(parts) |-> IF i = 1 THEN parts[i] ELSE Status!Separator + parts[i]]

\* They are columns, as many as the parts.
LEMMA SpacedType ==
    ASSUME NEW parts \in Seq(Nat)
    PROVE  Spaced(parts) \in Seq(Nat) /\ Len(Spaced(parts)) = Len(parts)
<1>1. \A i \in 1..Len(parts) : parts[i] \in Nat /\ Status!Separator + parts[i] \in Nat
    BY DEF Status!Separator
<1>2. Spaced(parts) \in [1..Len(parts) -> Nat] /\ Len(parts) \in Nat
    BY <1>1 DEF Spaced
<1>3. QED
    BY <1>2

\* A joined line is as long as they are in all.
LEMMA JoinedIsTotal ==
    ASSUME NEW parts \in Seq(Nat)
    PROVE  Status!Joined(parts) = Total(Spaced(parts))
<1> DEFINE n == Len(parts)
           s == Spaced(parts)
           Join(h) == h = [i \in 0..n |->
                         IF i = 0 THEN 0
                         ELSE h[i - 1] + (IF i = 1 THEN parts[i] ELSE Status!Separator + parts[i])]
           join == CHOOSE h : Join(h)
           Sum(h) == h = [i \in 0..n |-> IF i = 0 THEN 0 ELSE h[i - 1] + s[i]]
<1>1. s \in Seq(Nat) /\ Len(s) = n /\ n \in Nat
    BY SpacedType
<1>2. \A i \in 0..n : i # 0 => s[i] = IF i = 1 THEN parts[i] ELSE Status!Separator + parts[i]
    BY DEF Spaced
<1>3. \A h : Join(h) <=> Sum(h)
    <2> SUFFICES ASSUME NEW h
                 PROVE  [i \in 0..n |->
                            IF i = 0 THEN 0
                            ELSE h[i - 1] + (IF i = 1 THEN parts[i] ELSE Status!Separator + parts[i])]
                          = [i \in 0..n |-> IF i = 0 THEN 0 ELSE h[i - 1] + s[i]]
        OBVIOUS
    <2> HIDE DEF n, s
    <2>1. QED
        BY <1>2
<1> HIDE DEF s
<1>4. PICK f \in [0..n -> Nat] :
          /\ f[0] = 0 /\ \A i \in 1..n : f[i] = f[i - 1] + s[i]
          /\ Total(s) = f[n]
          /\ \A h : Sum(h) => h = f
    BY <1>1, TotalStepwise, SMTT(30)
<1>5. Sum(f)
    <2>1. \A i \in 0..n : i # 0 => i \in 1..n
        BY <1>1
    <2> HIDE DEF n
    <2>2. \A i \in 0..n : f[i] = IF i = 0 THEN 0 ELSE f[i - 1] + s[i]
        BY <1>4, <2>1
    <2>3. QED
        BY <1>4, <2>2
<1>6. join = f
    <2> HIDE DEF Join, Sum
    <2>1. Join(join)
        BY <1>3, <1>5
    <2>2. QED
        BY <1>3, <1>4, <2>1
<1>7. Status!Joined(parts) = join[n]
    BY DEF Status!Joined
<1> HIDE DEF join
<1>8. QED
    BY <1>4, <1>6, <1>7 DEF s

\* A line of one part more is longer by the part and a separator.
LEMMA JoinedAppend ==
    ASSUME NEW parts \in Seq(Nat), NEW x \in Nat
    PROVE  /\ Status!Joined(parts) \in Nat
           /\ Status!Joined(Append(parts, x)) =
                 Status!Joined(parts) + (IF Len(parts) = 0 THEN x ELSE Status!Separator + x)
<1> DEFINE y == IF Len(parts) = 0 THEN x ELSE Status!Separator + x
           t == Append(parts, x)
<1>1. Spaced(parts) \in Seq(Nat) /\ t \in Seq(Nat) /\ y \in Nat
    BY SpacedType DEF Status!Separator
<1>2. Spaced(t) = Append(Spaced(parts), y)
    <2>1. Len(parts) \in Nat /\ Len(t) = Len(parts) + 1
        OBVIOUS
    <2>2. /\ Spaced(t) = [i \in 1..Len(parts) + 1 |-> Spaced(t)[i]]
          /\ Append(Spaced(parts), y) = [i \in 1..Len(parts) + 1 |-> Append(Spaced(parts), y)[i]]
        BY <1>1, <2>1, SpacedType DEF Spaced
    <2>3. ASSUME NEW i \in 1..Len(parts) + 1 PROVE Spaced(t)[i] = Append(Spaced(parts), y)[i]
        <3>1. CASE i \in 1..Len(parts)
            BY <2>1, <3>1 DEF Spaced
        <3>2. CASE i = Len(parts) + 1
            <4>1. t[i] = x /\ (i = 1 <=> Len(parts) = 0)
                BY <3>2
            <4>2. Spaced(t)[i] = y
                BY <2>1, <4>1 DEF Spaced
            <4>3. Append(Spaced(parts), y)[i] = y
                BY <1>1, <3>2, SpacedType
            <4>4. QED
                BY <4>2, <4>3
        <3>3. i \in 1..Len(parts) \/ i = Len(parts) + 1
            BY <2>1
        <3> HIDE DEF t, y
        <3>4. QED
            BY <3>1, <3>2, <3>3
    <2> HIDE DEF t, y
    <2>4. QED
        BY <2>2, <2>3
<1>3. QED
    <2> HIDE DEF y
    <2>1. /\ Total(Spaced(parts)) \in Nat
          /\ Total(Append(Spaced(parts), y)) = Total(Spaced(parts)) + y
        BY <1>1, TotalAppend
    <2>2. Status!Joined(t) = Total(Spaced(t)) /\ Status!Joined(parts) = Total(Spaced(parts))
        BY <1>1, JoinedIsTotal
    <2>3. QED
        BY <1>2, <2>1, <2>2 DEF y

\* What the status line's lemmas know of its constants and variables.
StatusTypes ==
    /\ Status!StatusAssumption /\ Status!TypeOK

\* A number has some columns.
LEMMA DigitsType ==
    ASSUME NEW n \in Nat
    PROVE  Status!Digits(n) \in Nat
<1> DEFINE more == {d \in 1..n : 10^d <= n}
<1>1. IsFiniteSet(1..n) /\ more \subseteq 1..n
    BY FS_Interval
<1> HIDE DEF more
<1>2. Cardinality(more) \in Nat
    BY <1>1, FS_Subset, FS_CardinalityType
<1>3. Status!Cardinality(more) = Cardinality(more)
    BY Zenon DEF Status!Cardinality, Cardinality
<1>4. QED
    BY <1>2, <1>3 DEF Status!Digits, more

\* The parts shown first: their columns, and with a reason after them.
LEMMA PartsJoin ==
    ASSUME StatusTypes
    PROVE  /\ Status!Parts \in Seq(Nat) /\ Len(Status!Parts) \in 3..5
           /\ \A k \in 0..Len(Status!Parts) : Status!FirstParts(k) \in Nat
           /\ \A k, m \in 0..Len(Status!Parts) :
                 k <= m => Status!FirstParts(k) <= Status!FirstParts(m)
           /\ \A k \in 2..Len(Status!Parts), reason \in Nat :
                 Status!Joined(SubSeq(Status!Parts, 1, k) \o (IF reason > 0 THEN <<reason>> ELSE <<>>))
                   = Status!FirstParts(k) + (IF reason > 0 THEN Status!Separator + reason ELSE 0)
<1> DEFINE p == Status!Parts
           F(k) == Status!FirstParts(k)
<1>1. p \in Seq(Nat) /\ Len(p) \in 3..5
    <2>1. Project \in Nat /\ Status!StateWidth \in Nat
        BY DEF StatusTypes, Status!StatusAssumption, Status!StateWidth
    <2>2. counted \in Nat /\ worked \in Nat /\ unworked \in Nat /\ median \in Nat
        BY DEF StatusTypes, Status!StatusAssumption, Status!TypeOK
    <2> DEFINE first == Status!Digits(counted) + (IF counted = 1 THEN 8 ELSE 9)
               outcomes == Status!Digits(worked) + Status!Digits(unworked) + 13
               fast == median + 4
    <2>3. first \in Nat /\ outcomes \in Nat /\ fast \in Nat
        <3>1. /\ Status!Digits(counted) \in Nat /\ Status!Digits(worked) \in Nat
              /\ Status!Digits(unworked) \in Nat
            BY <2>2, DigitsType
        <3>2. QED
            BY <2>2, <3>1
    <2>4. p = <<Status!StateWidth, Project, first>>
                \o (IF worked + unworked > 0 THEN <<outcomes>> ELSE <<>>)
                \o (IF median > 0 THEN <<fast>> ELSE <<>>)
        BY DEF Status!Parts
    <2> HIDE DEF p, first, outcomes, fast
    <2>5. <<Status!StateWidth, Project, first>> \in Seq(Nat)
        BY <2>1, <2>3
    <2>6. /\ <<outcomes>> \in Seq(Nat) /\ <<fast>> \in Seq(Nat) /\ <<>> \in Seq(Nat)
          /\ Len(<<outcomes>>) = 1 /\ Len(<<fast>>) = 1 /\ Len(<<>>) = 0
        BY <2>3
    <2>7. QED
        BY <2>4, <2>5, <2>6
<1> HIDE DEF p
<1>2. ASSUME NEW k \in 0..Len(p)
      PROVE  /\ SubSeq(p, 1, k) \in Seq(Nat) /\ Len(SubSeq(p, 1, k)) = k
             /\ F(k) = Status!Joined(SubSeq(p, 1, k)) /\ F(k) \in Nat
    <2>1. SubSeq(p, 1, k) \in Seq(Nat) /\ Len(SubSeq(p, 1, k)) = k
        BY <1>1
    <2>2. Status!Joined(SubSeq(p, 1, k)) \in Nat
        BY <2>1, JoinedAppend
    <2>3. QED
        BY <2>1, <2>2 DEF Status!FirstParts, p
<1>3. ASSUME NEW k \in 0..Len(p) - 1 PROVE F(k) <= F(k + 1)
    <2>1. k \in 0..Len(p) /\ k + 1 \in 0..Len(p) /\ p[k + 1] \in Nat
        BY <1>1
    <2>2. SubSeq(p, 1, k + 1) = Append(SubSeq(p, 1, k), p[k + 1])
        BY <1>1, <2>1
    <2>3. /\ SubSeq(p, 1, k) \in Seq(Nat) /\ Len(SubSeq(p, 1, k)) = k
          /\ F(k) = Status!Joined(SubSeq(p, 1, k)) /\ F(k) \in Nat
          /\ F(k + 1) = Status!Joined(SubSeq(p, 1, k + 1))
        BY <1>2, <2>1
    <2> DEFINE q == SubSeq(p, 1, k)
    <2>4. Status!Joined(Append(q, p[k + 1]))
             = Status!Joined(q) + (IF Len(q) = 0 THEN p[k + 1] ELSE Status!Separator + p[k + 1])
        <3> HIDE DEF q
        <3>1. q \in Seq(Nat)
            BY <2>3 DEF q
        <3>2. QED
            BY <2>1, <3>1, JoinedAppend
    <2> HIDE DEF F
    <2>5. F(k + 1) = F(k) + (IF k = 0 THEN p[k + 1] ELSE Status!Separator + p[k + 1])
        BY <2>2, <2>3, <2>4
    <2>6. QED
        BY <2>1, <2>3, <2>5 DEF Status!Separator
<1>4. ASSUME NEW k \in 0..Len(p), NEW m \in 0..Len(p), k <= m PROVE F(k) <= F(m)
    <2> DEFINE S == {j \in Nat : k + j <= Len(p) => F(k) <= F(k + j)}
    <2>0. F(k) \in Nat /\ k \in Nat /\ m \in Nat /\ Len(p) \in Nat /\ m <= Len(p)
        BY <1>1, <1>2
    <2> HIDE DEF F
    <2>1. 0 \in S
        <3>1. k + 0 = k
            BY <2>0
        <3>2. QED
            BY <2>0, <3>1
    <2>2. ASSUME NEW j \in S PROVE j + 1 \in S
        <3> SUFFICES ASSUME k + (j + 1) <= Len(p) PROVE F(k) <= F(k + (j + 1))
            OBVIOUS
        <3>1. /\ k + j \in 0..Len(p) - 1 /\ k + j \in 0..Len(p) /\ k + (j + 1) \in 0..Len(p)
              /\ k + (j + 1) = (k + j) + 1
            BY <2>0
        <3>2. F(k) <= F(k + j)
            BY <2>0, <3>1
        <3>3. F(k + j) <= F((k + j) + 1) /\ F(k + j) \in Nat /\ F(k + (j + 1)) \in Nat
            BY <1>2, <1>3, <3>1
        <3>4. QED
            BY <2>0, <3>1, <3>2, <3>3
    <2>3. S = Nat
        <3>1. S \in SUBSET Nat
            OBVIOUS
        <3> HIDE DEF S
        <3>2. QED
            BY <2>1, <2>2, <3>1, SetInduction
    <2>4. m - k \in S
        <3>1. m - k \in Nat
            BY <1>4, <2>0
        <3> HIDE DEF S
        <3>2. QED
            BY <2>3, <3>1
    <2>5. k + (m - k) = m
        BY <2>0
    <2>6. QED
        BY <2>0, <2>4, <2>5
<1>5. ASSUME NEW k \in 2..Len(p), NEW reason \in Nat
      PROVE  Status!Joined(SubSeq(p, 1, k) \o (IF reason > 0 THEN <<reason>> ELSE <<>>))
               = F(k) + (IF reason > 0 THEN Status!Separator + reason ELSE 0)
    <2>1. k \in 0..Len(p) /\ k # 0
        BY <1>1
    <2>2. /\ SubSeq(p, 1, k) \in Seq(Nat) /\ Len(SubSeq(p, 1, k)) = k
          /\ F(k) = Status!Joined(SubSeq(p, 1, k)) /\ F(k) \in Nat
        BY <1>2, <2>1
    <2> DEFINE q == SubSeq(p, 1, k)
    <2>3. CASE reason > 0
        <3>1. q \o <<reason>> = Append(q, reason)
            <4> HIDE DEF q
            <4>1. q \in Seq(Nat)
                BY <2>2 DEF q
            <4>2. QED
                BY <4>1
        <3>2. Status!Joined(Append(q, reason)) = Status!Joined(q) + (Status!Separator + reason)
            BY <2>1, <2>2, JoinedAppend
        <3>3. QED
            BY <2>2, <2>3, <3>1, <3>2
    <2>4. CASE ~ reason > 0
        <3>1. q \o <<>> = q
            <4> HIDE DEF q
            <4>1. q \in Seq(Nat)
                BY <2>2 DEF q
            <4>2. QED
                BY <4>1
        <3>2. QED
            BY <2>2, <2>4, <3>1
    <2>5. QED
        BY <2>3, <2>4
<1>6. QED
    BY <1>1, <1>2, <1>4, <1>5 DEF p

\* The forms an alert has: a notice is cut, the others have a short form no wider.
LEMMA AlertForms ==
    ASSUME StatusTypes
    PROVE  /\ Status!Alert.whole \in Nat /\ Status!Alert.short \in Nat
           /\ Status!Alert.cut \in BOOLEAN
           /\ Status!Alert.cut => Status!Alert.short = 0 /\ Status!Alert.whole > 0
           /\ ~ Status!Alert.cut => Status!Alert.short <= Status!Alert.whole
           /\ Status!Alert = Status!NoAlert <=> ~ Status!Alert.cut /\ Status!Alert.short = 0
           /\ Status!Hints \in {0, 11}
<1> DEFINE Good(a) == /\ a.whole \in Nat /\ a.short \in Nat /\ a.cut \in BOOLEAN
                      /\ a.cut => a.short = 0 /\ a.whole > 0
                      /\ ~ a.cut => a.short <= a.whole
                      /\ a = Status!NoAlert <=> ~ a.cut /\ a.short = 0
<1>1. Good(Status!NoAlert)
    BY DEF Status!NoAlert
<1>2. ASSUME NEW text \in Nat PROVE Good(Status!NoticeAlert(text))
    BY DEF Status!NoAlert, Status!NoticeAlert
<1>3. ASSUME NEW hint \in Nat, hint > 0 PROVE Good(Status!HintAlert(hint))
    BY <1>3 DEF Status!NoAlert, Status!HintAlert
<1>4. Good(Status!UpdateAlert)
    BY DEF StatusTypes, Status!StatusAssumption, Status!UpdateShort, Status!NoAlert, Status!UpdateAlert
<1>5. Good(notice)
    <2>1. notice \in {Status!NoticeAlert(text) : text \in Notices \cup {0}} /\ Notices \cup {0} \subseteq Nat
        BY DEF StatusTypes, Status!TypeOK, Status!StatusAssumption
    <2> HIDE DEF Good
    <2>2. QED
        BY <1>2, <2>1
<1>6. Good(update)
    <2> HIDE DEF Good
    <2>1. QED
        BY <1>1, <1>4 DEF StatusTypes, Status!TypeOK
<1>7. Good(Status!HintAlert(IF prompt THEN 17 ELSE 11))
    <2> HIDE DEF Good
    <2>1. QED
        BY <1>3
<1>8. Good(Status!Alert)
    <2> HIDE DEF Good
    <2>1. QED
        BY <1>1, <1>5, <1>6, <1>7 DEF Status!Alert
<1>9. QED
    BY <1>8 DEF Status!Hints

\* What a line of so many parts and a reason shows.
LEMMA LineIs ==
    ASSUME StatusTypes, NEW kept \in 2..Len(Status!Parts), NEW reason \in Nat,
           NEW end \in Nat, NEW columns \in Nat
    PROVE  LET line == Status!Line(kept, reason, end, columns)
           IN  /\ line.kept = kept /\ line.reason = reason
               /\ line.line = Status!FirstParts(kept)
                                + (IF reason > 0 THEN Status!Separator + reason ELSE 0)
               /\ line.line \in Nat
               /\ line.end = IF end > 0 /\ columns - line.line - end >= Status!EndGap THEN end ELSE 0
<1> DEFINE l == Status!Joined(SubSeq(Status!Parts, 1, kept) \o (IF reason > 0 THEN <<reason>> ELSE <<>>))
<1>1. l = Status!FirstParts(kept) + (IF reason > 0 THEN Status!Separator + reason ELSE 0)
    BY PartsJoin
<1>2. Status!FirstParts(kept) \in Nat
    BY PartsJoin
<1>3. Status!Line(kept, reason, end, columns) =
         [kept |-> kept, line |-> l, reason |-> reason,
          end |-> IF end > 0 /\ columns - l - end >= Status!EndGap THEN end ELSE 0]
    BY DEF Status!Line
<1> HIDE DEF l
<1>4. QED
    BY <1>1, <1>2, <1>3 DEF Status!Separator

\* The same without a reason.
LEMMA LineAlone ==
    ASSUME StatusTypes, NEW kept \in 2..Len(Status!Parts), NEW end \in Nat, NEW columns \in Nat
    PROVE  LET line == Status!Line(kept, 0, end, columns)
           IN  /\ line.kept = kept /\ line.reason = 0 /\ line.line = Status!FirstParts(kept)
               /\ line.end = IF end > 0 /\ columns - Status!FirstParts(kept) - end >= Status!EndGap
                             THEN end ELSE 0
<1> DEFINE line == Status!Line(kept, 0, end, columns)
           f == Status!FirstParts(kept)
<1>1. f \in Nat
    BY PartsJoin
<1>2. 0 \in Nat
    OBVIOUS
<1>3. /\ line.kept = kept /\ line.reason = 0
      /\ line.line = f + (IF 0 > 0 THEN Status!Separator + 0 ELSE 0)
      /\ line.end = IF end > 0 /\ columns - line.line - end >= Status!EndGap THEN end ELSE 0
    BY <1>2, LineIs
<1> HIDE DEF line, f
<1>4. line.line = f
    BY <1>1, <1>3
<1>5. QED
    BY <1>3, <1>4 DEF line, f

\* As many details come back as fit beside the alert.
LEMMA BackIs ==
    ASSUME StatusTypes, NEW kept \in 2..Len(Status!Parts), NEW alert \in Nat, NEW columns \in Nat
    PROVE  LET k == Status!Back(kept, alert, columns)
           IN  /\ k \in kept..Len(Status!Parts)
               /\ k = kept \/ Status!FirstParts(k) + Status!EndGap + alert <= columns
               /\ \A j \in kept..Len(Status!Parts) :
                     Status!FirstParts(j) + Status!EndGap + alert <= columns => j <= k
<1> DEFINE S == {k \in kept..Len(Status!Parts) :
                    k = kept \/ Status!FirstParts(k) + Status!EndGap + alert <= columns}
<1>1. Len(Status!Parts) \in Nat /\ kept \in Nat
    BY PartsJoin
<1>2. S \in SUBSET Nat /\ kept \in S /\ \A s \in S : s <= Len(Status!Parts)
    BY <1>1
<1>3. Max(S) \in S /\ \A s \in S : s <= Max(S)
    <2> HIDE DEF S
    <2>1. QED
        BY <1>1, <1>2, MaxIsGreatest
<1>4. Status!Back(kept, alert, columns) = Max(S)
    BY DEF Status!Back, Status!Max, Max
<1>5. QED
    BY <1>3, <1>4

\* While not offline: an alert beside the count, else one in its place, else none.
Beside(columns) ==
    Status!Fit(Status!Alert, columns - Status!FirstParts(3) - Status!EndGap)
Instead(columns) ==
    Status!Shrunk(Status!Alert, columns - Status!FirstParts(2) - Status!EndGap)

\* An alert fits the room it was given, in a form it has.
LEMMA AlertsFit ==
    ASSUME StatusTypes, NEW room \in Int
    PROVE  /\ Status!Fit(Status!Alert, room) \in Nat
           /\ Status!Fit(Status!Alert, room) > 0 => Status!Fit(Status!Alert, room) <= room
           /\ Status!Shrunk(Status!Alert, room) \in Nat
           /\ Status!Shrunk(Status!Alert, room) > 0 => Status!Shrunk(Status!Alert, room) <= room
           /\ Status!Fit(Status!Alert, room) \in {0, Status!Alert.whole, Status!Alert.short}
           /\ \/ Status!Shrunk(Status!Alert, room) \in {0, Status!Alert.whole, Status!Alert.short}
              \/ Status!Alert.cut /\ Status!Shrunk(Status!Alert, room) >= Status!MinCut
<1> DEFINE a == Status!Alert
<1>1. a.whole \in Nat /\ a.short \in Nat /\ a.cut \in BOOLEAN
    BY AlertForms
<1> HIDE DEF a
<1>2. Status!Fit(a, room) = IF a.whole <= room THEN a.whole ELSE IF a.short <= room THEN a.short ELSE 0
    BY DEF Status!Fit
<1>3. Status!Shrunk(a, room) =
         IF a.cut /\ room >= 20 THEN (IF a.whole < room THEN a.whole ELSE room)
         ELSE IF a.short > room THEN 0 ELSE a.short
    BY DEF Status!Shrunk, Status!Least, Status!MinCut
<1>4. QED
    BY <1>1, <1>2, <1>3 DEF Status!MinCut, a

\* What shows: the alert beside the count, in its place, or none and the hints.
LEMMA RenderLineIs ==
    ASSUME StatusTypes, NEW columns \in Nat
    PROVE  LET line == Status!RenderLine(columns)
               all == Len(Status!Parts)
           IN  /\ line.kept \in 2..all /\ line.reason = 0 /\ line.line = Status!FirstParts(line.kept)
               /\ Beside(columns) > 0 => line.end = Beside(columns) /\ line.kept = Status!Back(3, Beside(columns), columns)
               /\ Beside(columns) = 0 /\ Instead(columns) > 0 =>
                     line.end = Instead(columns) /\ line.kept = Status!Back(2, Instead(columns), columns)
               /\ Beside(columns) = 0 /\ Instead(columns) = 0 =>
                     /\ line.kept = all
                     /\ line.end = IF Status!Hints > 0 /\ columns - Status!FirstParts(all) - Status!Hints >= Status!EndGap
                                   THEN Status!Hints ELSE 0
<1> DEFINE all == Len(Status!Parts)
           line == Status!RenderLine(columns)
           F(k) == Status!FirstParts(k)
           b == Beside(columns)
           i == Instead(columns)
<1>1. all \in 3..5 /\ 2 \in 2..all /\ 3 \in 2..all /\ all \in 2..all /\ 0 \in Nat
    <2>1. Len(Status!Parts) \in 3..5
        BY PartsJoin
    <2>2. QED
        BY <2>1
<1>2. \A k \in 2..all : F(k) \in Nat
    BY PartsJoin
<1>3. /\ columns - F(3) - Status!EndGap \in Int /\ columns - F(2) - Status!EndGap \in Int
    BY <1>1, <1>2 DEF Status!EndGap
<1>4. b \in Nat /\ i \in Nat /\ (b > 0 => b <= columns - F(3) - Status!EndGap)
      /\ (i > 0 => i <= columns - F(2) - Status!EndGap)
    BY <1>3, AlertsFit DEF Beside, Instead
<1>5. Status!Hints \in Nat
    BY AlertForms
<1>lines. ASSUME NEW j \in 2..all, NEW e \in Nat
      PROVE  /\ Status!Line(j, 0, e, columns).kept = j /\ Status!Line(j, 0, e, columns).reason = 0
             /\ Status!Line(j, 0, e, columns).line = F(j)
             /\ Status!Line(j, 0, e, columns).end =
                   IF e > 0 /\ columns - F(j) - e >= Status!EndGap THEN e ELSE 0
    BY LineAlone
<1>6. line = IF b > 0 THEN Status!Line(Status!Back(3, b, columns), 0, b, columns)
             ELSE IF i > 0 THEN Status!Line(Status!Back(2, i, columns), 0, i, columns)
             ELSE Status!Line(all, 0, Status!Hints, columns)
    BY DEF Status!RenderLine, Beside, Instead
<1> HIDE DEF b, i, F, all, line
<1>7. CASE b > 0
    <2> DEFINE k == Status!Back(3, b, columns)
    <2>1. k \in 3..all /\ (k = 3 \/ F(k) + Status!EndGap + b <= columns)
        BY <1>1, <1>4, BackIs DEF F, all
    <2> HIDE DEF k
    <2>2. k \in 2..all /\ F(k) \in Nat
        BY <1>1, <1>2, <2>1
    <2>3. /\ Status!Line(k, 0, b, columns).kept = k /\ Status!Line(k, 0, b, columns).reason = 0
          /\ Status!Line(k, 0, b, columns).line = F(k)
          /\ Status!Line(k, 0, b, columns).end =
                IF b > 0 /\ columns - F(k) - b >= Status!EndGap THEN b ELSE 0
        BY <1>lines, <1>4, <2>2, Zenon
    <2>4. columns - F(k) - b >= Status!EndGap
        BY <1>1, <1>2, <1>4, <1>7, <2>1, <2>2 DEF Status!EndGap
    <2>5. line = Status!Line(k, 0, b, columns)
        BY <1>6, <1>7 DEF k
    <2>6. QED
        BY <1>4, <1>7, <2>2, <2>3, <2>4, <2>5 DEF k, b, i, F, all, line
<1>8. CASE b = 0 /\ i > 0
    <2> DEFINE k == Status!Back(2, i, columns)
    <2>1. k \in 2..all /\ (k = 2 \/ F(k) + Status!EndGap + i <= columns)
        BY <1>1, <1>4, BackIs DEF F, all
    <2> HIDE DEF k
    <2>2. F(k) \in Nat
        BY <1>2, <2>1
    <2>3. /\ Status!Line(k, 0, i, columns).kept = k /\ Status!Line(k, 0, i, columns).reason = 0
          /\ Status!Line(k, 0, i, columns).line = F(k)
          /\ Status!Line(k, 0, i, columns).end =
                IF i > 0 /\ columns - F(k) - i >= Status!EndGap THEN i ELSE 0
        BY <1>lines, <1>4, <2>1, Zenon
    <2>4. columns - F(k) - i >= Status!EndGap
        BY <1>1, <1>2, <1>4, <1>8, <2>1, <2>2 DEF Status!EndGap
    <2>5. line = Status!Line(k, 0, i, columns)
        BY <1>6, <1>8 DEF k
    <2>6. QED
        BY <1>4, <1>8, <2>1, <2>2, <2>3, <2>4, <2>5 DEF k, b, i, F, all, line
<1>9. CASE b = 0 /\ i = 0
    <2> DEFINE h == Status!Hints
    <2>1. /\ Status!Line(all, 0, h, columns).kept = all /\ Status!Line(all, 0, h, columns).reason = 0
          /\ Status!Line(all, 0, h, columns).line = F(all)
          /\ Status!Line(all, 0, h, columns).end =
                IF h > 0 /\ columns - F(all) - h >= Status!EndGap THEN h ELSE 0
        <3>1. F(all) \in Nat
            BY <1>1, <1>2
        <3>2. QED
            BY <1>lines, <1>1, <1>5, Zenon
    <2>2. line = Status!Line(all, 0, h, columns)
        BY <1>6, <1>9
    <2>3. QED
        BY <1>1, <1>9, <2>1, <2>2 DEF b, i, F, all, line
<1>10. QED
    BY <1>4, <1>7, <1>8, <1>9

\* Offline: an alert shows only beside every part, and the totals give way to a
\* reason that fits, or to one that is cut beside the state and project alone.
LEMMA OfflineIs ==
    ASSUME StatusTypes, NEW columns \in Nat
    PROVE  LET line == Status!Offline(columns)
           IN  /\ line.end > 0 => line.line + Status!EndGap + line.end <= columns
               /\ \/ line.end \in {0, Status!Hints, Status!Alert.whole, Status!Alert.short}
                  \/ Status!Alert.cut /\ line.end >= Status!MinCut
               /\ line.kept < Len(Status!Parts) =>
                     /\ ~ Status!TooNarrow(columns) /\ lost > 0
                     /\ line.kept \in 2..Len(Status!Parts) /\ line.reason = lost
                     /\ line.line = Status!FirstParts(line.kept) + Status!Separator + lost
                     /\ line.kept = 2 \/ line.line <= columns
<1> DEFINE all == Len(Status!Parts)
           L(k, e) == Status!Line(k, lost, e, columns)
           W(k) == Status!FirstParts(k) + (IF lost > 0 THEN Status!Separator + lost ELSE 0)
           whole == L(all, 0).line
           room == columns - whole - Status!EndGap
           fit == Status!Fit(Status!Alert, room)
           claim == Status!Claim(Status!Alert, columns, whole).alert
           S == {2} \cup {k \in 2..all : L(k, 0).line <= columns}
           offline == Status!Offline(columns)
<1>1. all \in 3..5 /\ 2 \in 2..all /\ all \in 2..all
    <2>1. Len(Status!Parts) \in 3..5
        BY PartsJoin
    <2>2. QED
        BY <2>1
<1>2. lost \in Nat
    BY DEF StatusTypes, Status!StatusAssumption, Status!TypeOK
<1>3. ASSUME NEW k \in 2..all, NEW e \in Nat
      PROVE  /\ L(k, e).kept = k /\ L(k, e).reason = lost /\ L(k, e).line = W(k) /\ W(k) \in Nat
             /\ L(k, e).end = IF e > 0 /\ columns - W(k) - e >= Status!EndGap THEN e ELSE 0
    <2>1. /\ L(k, e).kept = k /\ L(k, e).reason = lost
          /\ L(k, e).line = Status!FirstParts(k) + (IF lost > 0 THEN Status!Separator + lost ELSE 0)
          /\ L(k, e).line \in Nat
          /\ L(k, e).end = IF e > 0 /\ columns - L(k, e).line - e >= Status!EndGap THEN e ELSE 0
        BY <1>2, LineIs
    <2> HIDE DEF L
    <2>2. QED
        BY <2>1
<1>4. ASSUME NEW k \in 2..all, NEW e \in Nat, L(k, e).end > 0
      PROVE  L(k, e).end = e /\ L(k, e).line + Status!EndGap + L(k, e).end <= columns
    <2>1. /\ L(k, e).line = W(k) /\ W(k) \in Nat
          /\ L(k, e).end = IF e > 0 /\ columns - W(k) - e >= Status!EndGap THEN e ELSE 0
        BY <1>3
    <2> HIDE DEF L, W
    <2>2. QED
        BY <1>4, <2>1 DEF Status!EndGap
<1>5. whole = W(all) /\ whole \in Nat /\ room \in Int
    <2>1. L(all, 0).line = W(all) /\ W(all) \in Nat
        BY <1>1, <1>3
    <2> HIDE DEF L, W
    <2>2. QED
        BY <2>1 DEF Status!EndGap
<1>6. claim = IF fit > 0 THEN fit ELSE Status!Shrunk(Status!Alert, room)
    BY DEF Status!Claim
<1> HIDE DEF room, fit
<1>7. /\ claim \in Nat
      /\ \/ claim \in {0, Status!Alert.whole, Status!Alert.short}
         \/ Status!Alert.cut /\ claim >= Status!MinCut
    <2>1. /\ fit \in Nat /\ fit \in {0, Status!Alert.whole, Status!Alert.short}
          /\ Status!Shrunk(Status!Alert, room) \in Nat
          /\ \/ Status!Shrunk(Status!Alert, room) \in {0, Status!Alert.whole, Status!Alert.short}
             \/ Status!Alert.cut /\ Status!Shrunk(Status!Alert, room) >= Status!MinCut
        BY <1>5, AlertsFit DEF fit
    <2> HIDE DEF claim
    <2>2. QED
        BY <1>6, <2>1
<1>8. offline =
         IF claim > 0 THEN L(all, claim)
         ELSE IF lost = 0 \/ whole <= columns THEN L(all, Status!Hints)
         ELSE IF Status!TooNarrow(columns) THEN L(all, 0)
         ELSE L(Max(S), 0)
    BY DEF Status!Offline, Status!Max, Max
<1>9. Max(S) \in S
    <2>1. S \in SUBSET Nat /\ 2 \in S /\ all \in Nat /\ \A s \in S : s <= all
        BY <1>1
    <2> HIDE DEF S
    <2>2. QED
        BY <2>1, MaxIsGreatest
<1>10. Status!Hints \in Nat
    BY AlertForms
<1> DEFINE Shows(l) ==
              /\ l.end > 0 => l.line + Status!EndGap + l.end <= columns
              /\ \/ l.end \in {0, Status!Hints, Status!Alert.whole, Status!Alert.short}
                 \/ Status!Alert.cut /\ l.end >= Status!MinCut
           Gives(l) ==
              l.kept < all =>
                     /\ ~ Status!TooNarrow(columns) /\ lost > 0
                     /\ l.kept \in 2..all /\ l.reason = lost
                     /\ l.line = Status!FirstParts(l.kept) + Status!Separator + lost
                     /\ l.kept = 2 \/ l.line <= columns
<1>11. ASSUME NEW e \in Nat,
              \/ e \in {0, Status!Hints, Status!Alert.whole, Status!Alert.short}
              \/ Status!Alert.cut /\ e >= Status!MinCut
       PROVE  Shows(L(all, e)) /\ Gives(L(all, e))
    <2>1. L(all, e).kept = all /\ (L(all, e).end = 0 \/ L(all, e).end = e) /\ L(all, e).end \in Nat
        BY <1>1, <1>3
    <2>2. L(all, e).end > 0 => L(all, e).line + Status!EndGap + L(all, e).end <= columns
        BY <1>1, <1>4
    <2> HIDE DEF L
    <2>3. Shows(L(all, e))
        BY <1>11, <2>1, <2>2
    <2>4. Gives(L(all, e))
        BY <1>1, <2>1
    <2>5. QED
        BY <2>3, <2>4
<1>12. ASSUME lost # 0, ~ Status!TooNarrow(columns)
       PROVE  Shows(L(Max(S), 0)) /\ Gives(L(Max(S), 0))
    <2> DEFINE k == Max(S)
    <2>1. k \in 2..all /\ (k = 2 \/ L(k, 0).line <= columns)
        BY <1>1, <1>9
    <2> HIDE DEF k, S
    <2>2. /\ L(k, 0).kept = k /\ L(k, 0).reason = lost /\ L(k, 0).line = W(k) /\ W(k) \in Nat
          /\ L(k, 0).end = 0
        BY <1>3, <2>1
    <2>3. W(k) = Status!FirstParts(k) + Status!Separator + lost
        <3>1. Status!FirstParts(k) \in Nat
            BY <1>1, <2>1, PartsJoin
        <3>2. QED
            BY <1>2, <1>12, <3>1 DEF Status!Separator
    <2> HIDE DEF L, W
    <2>4. Shows(L(k, 0))
        BY <2>2
    <2>5. Gives(L(k, 0))
        BY <1>2, <1>12, <2>1, <2>2, <2>3
    <2>6. QED
        BY <2>4, <2>5 DEF k
<1> HIDE DEF L, claim, S, Shows, Gives
<1>13. Shows(offline) /\ Gives(offline)
    <2>1. CASE claim > 0
        BY <1>7, <1>8, <1>11, <2>1
    <2>2. CASE ~ claim > 0 /\ (lost = 0 \/ whole <= columns)
        BY <1>8, <1>10, <1>11, <2>2
    <2>3. CASE ~ claim > 0 /\ ~ (lost = 0 \/ whole <= columns) /\ Status!TooNarrow(columns)
        BY <1>8, <1>11, <2>3
    <2>4. CASE ~ claim > 0 /\ ~ (lost = 0 \/ whole <= columns) /\ ~ Status!TooNarrow(columns)
        <3>1. lost # 0
            BY <2>4
        <3>2. offline = L(Max(S), 0)
            BY <1>8, <2>4
        <3>3. QED
            BY <1>12, <2>4, <3>1, <3>2
    <2>5. QED
        BY <2>1, <2>2, <2>3, <2>4
<1>14. QED
    BY <1>13 DEF Shows, Gives

\* What shows beside the count, and what instead of it, grows with the room.
LEMMA AlertsGrow ==
    ASSUME StatusTypes, NEW room \in Int, NEW more \in Int, room <= more
    PROVE  LET a == Status!Alert
           IN  /\ Status!Fit(a, room) <= Status!Fit(a, more)
               /\ Status!Shrunk(a, room) <= Status!Shrunk(a, more)
               /\ Status!Fit(a, more) > 0 => Status!Shrunk(a, room) <= Status!Fit(a, more)
               /\ a.short \in 1..room \/ (a.cut /\ Status!MinCut <= room) => Status!Shrunk(a, room) > 0
               /\ a # Status!NoAlert /\ Status!Fit(a, room) = 0 /\ room >= 11 =>
                     /\ Status!Fit(a, more) = 0 \/ Status!Fit(a, more) > 11
                     /\ Status!Shrunk(a, more) = 0 \/ Status!Shrunk(a, more) > 11
<1> DEFINE a == Status!Alert
<1>1. /\ a.whole \in Nat /\ a.short \in Nat /\ a.cut \in BOOLEAN
      /\ a.cut => a.short = 0 /\ a.whole > 0
      /\ ~ a.cut => a.short <= a.whole
      /\ a = Status!NoAlert <=> ~ a.cut /\ a.short = 0
    BY AlertForms
<1> HIDE DEF a
<1>2. ASSUME NEW r \in Int
      PROVE  /\ Status!Fit(a, r) =
                   IF a.whole <= r THEN a.whole ELSE IF a.short <= r THEN a.short ELSE 0
             /\ Status!Shrunk(a, r) =
                   IF a.cut /\ r >= 20 THEN (IF a.whole < r THEN a.whole ELSE r)
                   ELSE IF a.short > r THEN 0 ELSE a.short
    BY DEF Status!Fit, Status!Shrunk, Status!Least, Status!MinCut
<1>3. Status!Fit(a, room) <= Status!Fit(a, more)
    BY <1>1, <1>2
<1>4. Status!Shrunk(a, room) <= Status!Shrunk(a, more)
    BY <1>1, <1>2
<1>5. Status!Fit(a, more) > 0 => Status!Shrunk(a, room) <= Status!Fit(a, more)
    BY <1>1, <1>2
<1>6. a.short \in 1..room \/ (a.cut /\ Status!MinCut <= room) => Status!Shrunk(a, room) > 0
    BY <1>1, <1>2 DEF Status!MinCut
<1>7. ASSUME a # Status!NoAlert, Status!Fit(a, room) = 0, room >= 11
      PROVE  /\ Status!Fit(a, more) = 0 \/ Status!Fit(a, more) > 11
             /\ Status!Shrunk(a, more) = 0 \/ Status!Shrunk(a, more) > 11
    <2>1. a.cut \/ a.short > 0
        BY <1>1, <1>7
    <2>2. a.whole > 0
        BY <1>1, <2>1
    <2>3. a.whole > room /\ (a.short = 0 \/ a.short > room)
        BY <1>1, <1>2, <1>7, <2>2
    <2>4. QED
        BY <1>1, <1>2, <1>7, <2>1, <2>3
<1>8. QED
    BY <1>3, <1>4, <1>5, <1>6, <1>7 DEF a

\* Where the line is not offline, its alert stands in the columns left of it.
LEMMA RenderLineFits ==
    ASSUME StatusTypes, NEW columns \in Nat
    PROVE  LET line == Status!RenderLine(columns)
           IN  /\ line.kept \in 2..Len(Status!Parts) /\ line.end \in Nat
               /\ line.end > 0 => line.line + Status!EndGap + line.end <= columns
               /\ \/ line.end \in {0, Status!Hints, Status!Alert.whole, Status!Alert.short}
                  \/ Status!Alert.cut /\ line.end >= Status!MinCut
<1> DEFINE all == Len(Status!Parts)
           line == Status!RenderLine(columns)
           F(k) == Status!FirstParts(k)
           b == Beside(columns)
           i == Instead(columns)
           h == Status!Hints
           Form(e) == \/ e \in {0, h, Status!Alert.whole, Status!Alert.short}
                      \/ Status!Alert.cut /\ e >= Status!MinCut
<1>1. all \in 3..5 /\ 2 \in 2..all /\ 3 \in 2..all /\ all \in 2..all
    <2>1. Len(Status!Parts) \in 3..5
        BY PartsJoin
    <2>2. QED
        BY <2>1
<1>2. \A k \in 2..all : F(k) \in Nat
    BY PartsJoin
<1>3. /\ columns - F(3) - Status!EndGap \in Int /\ columns - F(2) - Status!EndGap \in Int
    BY <1>1, <1>2 DEF Status!EndGap
<1>4. /\ b \in Nat /\ i \in Nat /\ (b > 0 => b <= columns - F(3) - Status!EndGap)
      /\ (i > 0 => i <= columns - F(2) - Status!EndGap)
      /\ b \in {0, Status!Alert.whole, Status!Alert.short}
      /\ \/ i \in {0, Status!Alert.whole, Status!Alert.short}
         \/ Status!Alert.cut /\ i >= Status!MinCut
    BY <1>3, AlertsFit DEF Beside, Instead
<1>5. h \in Nat
    BY AlertForms
<1>6. /\ line.kept \in 2..all /\ line.line = F(line.kept)
      /\ b > 0 => line.end = b /\ line.kept = Status!Back(3, b, columns)
      /\ b = 0 /\ i > 0 => line.end = i /\ line.kept = Status!Back(2, i, columns)
      /\ b = 0 /\ i = 0 =>
            /\ line.kept = all
            /\ line.end = IF h > 0 /\ columns - F(all) - h >= Status!EndGap THEN h ELSE 0
    BY RenderLineIs
<1>7. b > 0 => LET k == Status!Back(3, b, columns) IN k = 3 \/ F(k) + Status!EndGap + b <= columns
    BY <1>1, <1>4, BackIs
<1>8. i > 0 => LET k == Status!Back(2, i, columns) IN k = 2 \/ F(k) + Status!EndGap + i <= columns
    BY <1>1, <1>4, BackIs
<1> HIDE DEF all, line, F, b, i, h
<1>9. F(2) \in Nat /\ F(3) \in Nat /\ F(all) \in Nat
    BY <1>1, <1>2
<1>10. CASE b > 0
    <2>1. line.line + Status!EndGap + line.end <= columns
        BY <1>4, <1>6, <1>7, <1>9, <1>10 DEF Status!EndGap
    <2>2. QED
        BY <1>4, <1>6, <1>10, <2>1 DEF all, line, h
<1>11. CASE b = 0 /\ i > 0
    <2>1. line.line + Status!EndGap + line.end <= columns
        BY <1>4, <1>6, <1>8, <1>9, <1>11 DEF Status!EndGap
    <2>2. QED
        BY <1>4, <1>6, <1>11, <2>1 DEF all, line, h
<1>12. CASE b = 0 /\ i = 0
    <2>1. line.end \in {0, h} /\ line.end \in Nat
        BY <1>5, <1>6, <1>12
    <2>2. line.end > 0 => line.line + Status!EndGap + line.end <= columns
        BY <1>5, <1>6, <1>9, <1>12 DEF Status!EndGap
    <2>3. QED
        BY <1>6, <2>1, <2>2 DEF all, line, h
<1>13. QED
    BY <1>4, <1>10, <1>11, <1>12

\* Widths are numbers.
LEMMA StatusWidths ==
    ASSUME StatusTypes
    PROVE  lineWidth \in Nat /\ lineWidth + 1 \in Nat
BY DEF StatusTypes, Status!StatusAssumption, Status!TypeOK

\* An alert that shows can be read, and pushes nothing out.
LEMMA AlertsAreRead ==
    ASSUME StatusTypes
    PROVE  Status!AlertsAreReadable
<1> DEFINE line == Status!Render(lineWidth)
<1>1. /\ line.end > 0 => line.line + Status!EndGap + line.end <= lineWidth
      /\ \/ line.end \in {0, Status!Hints, Status!Alert.whole, Status!Alert.short}
         \/ Status!Alert.cut /\ line.end >= Status!MinCut
    <2>1. CASE connection = "offline"
        BY <2>1, StatusWidths, OfflineIs DEF Status!Render
    <2>2. CASE connection # "offline"
        BY <2>2, StatusWidths, RenderLineFits DEF Status!Render
    <2>3. QED
        BY <2>1, <2>2
<1> HIDE DEF line
<1>2. line.end > 0 => line.end # 0
    OBVIOUS
<1>3. QED
    BY <1>1, <1>2 DEF Status!AlertsAreReadable, line

\* An alert that has a form for the room shows.
LEMMA AlertsAreShown ==
    ASSUME StatusTypes
    PROVE  Status!AlertsShowWhereTheyCan
<1> DEFINE w == lineWidth
           line == Status!RenderLine(w)
           a == Status!Alert
           room == w - Status!FirstParts(2) - Status!EndGap
<1>1. w \in Nat /\ room \in Int /\ room <= room /\ w - Status!FirstParts(3) - Status!EndGap \in Int
    <2>1. Len(Status!Parts) \in 3..5
        BY PartsJoin
    <2>2. 2 \in 0..Len(Status!Parts) /\ 3 \in 0..Len(Status!Parts)
        BY <2>1
    <2>3. Status!FirstParts(2) \in Nat /\ Status!FirstParts(3) \in Nat
        BY <2>2, PartsJoin
    <2>4. QED
        BY <2>3, StatusWidths DEF Status!EndGap
<1>2. SUFFICES ASSUME connection # "offline",
                      a.short \in 1..room \/ (a.cut /\ Status!MinCut <= room)
               PROVE  Status!Render(w).end > 0
    BY DEF Status!AlertsShowWhereTheyCan
<1>3. Instead(w) > 0 /\ Instead(w) \in Nat /\ Beside(w) \in Nat
    BY <1>1, <1>2, AlertsGrow, AlertsFit DEF Instead, Beside
<1>4. /\ Beside(w) > 0 => line.end = Beside(w)
      /\ Beside(w) = 0 /\ Instead(w) > 0 => line.end = Instead(w)
    BY <1>1, RenderLineIs
<1>5. Status!Render(w) = line
    BY <1>2 DEF Status!Render
<1> HIDE DEF line, w
<1>6. QED
    BY <1>3, <1>4, <1>5

\* Offline: the totals give way to a reason that can be read.
LEMMA ReasonsAreRead ==
    ASSUME StatusTypes
    PROVE  Status!ReasonsAreReadable
<1> DEFINE w == lineWidth
           line == Status!Offline(w)
<1>1. w \in Nat /\ lost \in Nat
    BY StatusWidths DEF StatusTypes, Status!StatusAssumption, Status!TypeOK
<1>2. SUFFICES ASSUME connection = "offline", line.kept < Len(Status!Parts)
               PROVE  /\ Status!ReasonShown(line, w) >= Status!Least(Status!MinCut, lost)
                      /\ Status!ReasonShown(line, w) < lost => line.kept = 2
    BY DEF Status!ReasonsAreReadable, Status!Render
<1>3. /\ ~ Status!TooNarrow(w) /\ lost > 0
      /\ line.kept \in 2..Len(Status!Parts) /\ line.reason = lost
      /\ line.line = Status!FirstParts(line.kept) + Status!Separator + lost
      /\ line.kept = 2 \/ line.line <= w
    BY <1>1, <1>2, OfflineIs
<1>4. Status!FirstParts(line.kept) \in Nat /\ Status!FirstParts(2) \in Nat
    <2>1. Len(Status!Parts) \in 3..5
        BY PartsJoin
    <2> HIDE DEF line
    <2>2. 2 \in 0..Len(Status!Parts) /\ line.kept \in 0..Len(Status!Parts)
        BY <1>3, <2>1
    <2>3. QED
        BY <2>2, PartsJoin
<1>5. ~ (w - Status!FirstParts(2) - 3 < Status!Least(20, lost))
    BY <1>3 DEF Status!TooNarrow, Status!Separator, Status!MinCut
<1> HIDE DEF line, w
<1> DEFINE rest == w - (line.line - lost)
<1>6. rest \in Int /\ rest = w - Status!FirstParts(line.kept) - 3
    <2>1. line.line = Status!FirstParts(line.kept) + 3 + lost
        BY <1>3 DEF Status!Separator
    <2>2. QED
        BY <1>1, <1>4, <2>1
<1>7. rest >= lost \/ (line.kept = 2 /\ rest >= Status!Least(20, lost))
    <2>1. CASE line.kept = 2
        BY <1>1, <1>4, <1>5, <1>6, <2>1 DEF Status!Least
    <2>2. CASE line.line <= w
        BY <1>1, <1>3, <1>4, <1>6, <2>2 DEF Status!Separator
    <2>3. QED
        BY <1>3, <2>1, <2>2
<1>8. Status!ReasonShown(line, w) = Status!Most(0, Status!Least(lost, rest))
    BY <1>1, <1>3 DEF Status!ReasonShown
<1> HIDE DEF rest
<1>9. QED
    BY <1>1, <1>6, <1>7, <1>8 DEF Status!Most, Status!Least, Status!MinCut, line, w

\* More details come back in a wider terminal.
LEMMA BackGrows ==
    ASSUME StatusTypes, NEW k \in 2..Len(Status!Parts), NEW m \in 2..Len(Status!Parts), k <= m,
           NEW alert \in Nat, NEW columns \in Nat
    PROVE  Status!Back(k, alert, columns) <= Status!Back(m, alert, columns + 1)
<1> DEFINE all == Len(Status!Parts)
           F(j) == Status!FirstParts(j)
           one == Status!Back(k, alert, columns)
           other == Status!Back(m, alert, columns + 1)
<1>1. all \in Nat /\ columns + 1 \in Nat
    BY PartsJoin
<1>2. /\ one \in k..all
      /\ one = k \/ F(one) + Status!EndGap + alert <= columns
    BY BackIs
<1>3. /\ other \in m..all
      /\ \A j \in m..all : F(j) + Status!EndGap + alert <= columns + 1 => j <= other
    BY <1>1, BackIs
<1>4. F(one) \in Nat
    <2>1. one \in 0..all
        BY <1>1, <1>2
    <2>2. QED
        BY <2>1, PartsJoin
<1> HIDE DEF all, F, one, other
<1>5. CASE one <= m
    BY <1>1, <1>2, <1>3, <1>5 DEF all, one, other
<1>6. CASE one > m
    <2>1. one \in m..all /\ one # k
        BY <1>1, <1>2, <1>6 DEF all
    <2>2. F(one) + Status!EndGap + alert <= columns + 1
        BY <1>2, <1>4, <2>1 DEF Status!EndGap
    <2>3. QED
        BY <1>3, <2>1, <2>2 DEF one, other
<1>7. QED
    BY <1>1, <1>2, <1>5, <1>6 DEF all

\* A column more takes nothing away.
LEMMA WiderIsNoWorse ==
    ASSUME StatusTypes
    PROVE  Status!WiderShowsNoLess
<1> DEFINE w == lineWidth
           v == lineWidth + 1
           all == Len(Status!Parts)
           F(k) == Status!FirstParts(k)
           h == Status!Hints
           Wide(c) == c - F(3) - Status!EndGap
           Narrow(c) == c - F(2) - Status!EndGap
           L(c) == Status!RenderLine(c)
<1>1. all \in 3..5 /\ 2 \in 2..all /\ 3 \in 2..all /\ all \in 2..all
    <2>1. all \in 3..5
        BY PartsJoin
    <2> HIDE DEF all
    <2>2. QED
        BY <2>1
<1>2. F(2) \in Nat /\ F(3) \in Nat /\ F(all) \in Nat /\ F(3) <= F(all)
    <2>1. 2 \in 0..all /\ 3 \in 0..all /\ all \in 0..all /\ 3 <= all
        BY <1>1
    <2> HIDE DEF all
    <2>2. QED
        BY <2>1, PartsJoin DEF all
<1>3. w \in Nat /\ v \in Nat /\ v = w + 1
    BY StatusWidths
<1>4. SUFFICES ASSUME connection # "offline", Status!Alert # Status!NoAlert
               PROVE  /\ L(w).end > 0 => L(v).end >= L(w).end
                      /\ L(w).end = L(v).end => L(v).kept >= L(w).kept
    BY DEF Status!WiderShowsNoLess, Status!Render
<1>5. h \in {0, 11}
    BY AlertForms
<1>6. ASSUME NEW c \in Nat
      PROVE  /\ L(c).kept \in 2..all
             /\ Beside(c) > 0 => L(c).end = Beside(c) /\ L(c).kept = Status!Back(3, Beside(c), c)
             /\ Beside(c) = 0 /\ Instead(c) > 0 =>
                   L(c).end = Instead(c) /\ L(c).kept = Status!Back(2, Instead(c), c)
             /\ Beside(c) = 0 /\ Instead(c) = 0 =>
                   /\ L(c).kept = all
                   /\ L(c).end = IF h > 0 /\ c - F(all) - h >= Status!EndGap THEN h ELSE 0
    BY RenderLineIs
<1>7. /\ Wide(w) \in Int /\ Wide(v) \in Int /\ Wide(w) <= Wide(v)
      /\ Narrow(w) \in Int /\ Narrow(v) \in Int /\ Narrow(w) <= Narrow(v)
    <2> HIDE DEF F, w, v
    <2>1. Wide(w) = w - F(3) - 2 /\ Wide(v) = v - F(3) - 2
        BY DEF Status!EndGap
    <2>2. Narrow(w) = w - F(2) - 2 /\ Narrow(v) = v - F(2) - 2
        BY DEF Status!EndGap
    <2> HIDE DEF Wide, Narrow
    <2>3. Wide(w) \in Int /\ Wide(v) \in Int /\ Wide(w) <= Wide(v)
        BY <1>2, <1>3, <2>1
    <2>4. Narrow(w) \in Int /\ Narrow(v) \in Int /\ Narrow(w) <= Narrow(v)
        BY <1>2, <1>3, <2>2
    <2>5. QED
        BY <2>3, <2>4
<1>8. /\ Beside(w) \in Nat /\ Beside(v) \in Nat /\ Instead(w) \in Nat /\ Instead(v) \in Nat
    BY <1>7, AlertsFit DEF Beside, Instead
<1>9. Beside(w) <= Beside(v) /\ Instead(w) <= Instead(v)
    BY <1>7, AlertsGrow DEF Beside, Instead
<1>10. Beside(v) > 0 => Instead(w) <= Beside(v)
    <2>1. /\ Status!Alert.whole \in Nat /\ Status!Alert.short \in Nat /\ Status!Alert.cut \in BOOLEAN
          /\ Status!Alert.cut => Status!Alert.short = 0 /\ Status!Alert.whole > 0
          /\ ~ Status!Alert.cut => Status!Alert.short <= Status!Alert.whole
        BY AlertForms
    <2> DEFINE a == Status!Alert
    <2> HIDE DEF a, Wide, Narrow
    <2>2. Beside(v) = IF a.whole <= Wide(v) THEN a.whole ELSE IF a.short <= Wide(v) THEN a.short ELSE 0
        BY DEF Beside, Status!Fit, Wide, a
    <2>3. Instead(w) =
             IF a.cut /\ Narrow(w) >= 20 THEN (IF a.whole < Narrow(w) THEN a.whole ELSE Narrow(w))
             ELSE IF a.short > Narrow(w) THEN 0 ELSE a.short
        BY DEF Instead, Status!Shrunk, Status!Least, Status!MinCut, Narrow, a
    <2>4. QED
        BY <1>7, <2>1, <2>2, <2>3 DEF a
<1>11. ASSUME Beside(w) = 0, Wide(w) >= 11
       PROVE  Beside(v) = 0 \/ Beside(v) > 11
    BY <1>4, <1>7, <1>11, AlertsGrow DEF Beside
<1>12. ASSUME Beside(w) = 0, Wide(w) >= 11
       PROVE  Instead(v) = 0 \/ Instead(v) > 11
    <2>1. Wide(w) <= Narrow(v)
        <3>1. F(2) <= F(3)
            <4>1. 2 \in 0..all /\ 3 \in 0..all /\ 2 <= 3
                BY <1>1
            <4>2. QED
                BY <4>1, PartsJoin
        <3>2. QED
            BY <1>2, <1>3, <3>1 DEF Status!EndGap
    <2>2. QED
        BY <1>4, <1>7, <1>12, <2>1, AlertsGrow DEF Beside, Instead
<1>13. ASSUME NEW e \in Nat, NEW k \in {2, 3}, NEW m \in {2, 3}, k <= m
       PROVE  Status!Back(k, e, w) <= Status!Back(m, e, v) /\ Status!Back(k, e, w) \in Nat
    <2>1. k \in 2..Len(Status!Parts) /\ m \in 2..Len(Status!Parts) /\ Len(Status!Parts) \in Nat
        BY <1>1
    <2>2. Status!Back(k, e, w) \in k..all
        BY <1>3, <2>1, BackIs
    <2>3. QED
        BY <1>3, <1>13, <2>1, <2>2, BackGrows
<1> HIDE DEF w, v, all, F, h, L
<1>14. CASE Beside(w) > 0
    <2>1. Beside(v) > 0 /\ L(w).end = Beside(w) /\ L(v).end = Beside(v)
        BY <1>3, <1>6, <1>8, <1>9, <1>14
    <2>2. L(w).kept = Status!Back(3, Beside(w), w) /\ L(v).kept = Status!Back(3, Beside(v), v)
        BY <1>3, <1>6, <1>14, <2>1
    <2>3. L(w).end = L(v).end => L(v).kept >= L(w).kept
        <3> SUFFICES ASSUME L(w).end = L(v).end PROVE L(v).kept >= L(w).kept
            OBVIOUS
        <3>1. Beside(w) = Beside(v)
            BY <2>1
        <3>2. Status!Back(3, Beside(w), w) <= Status!Back(3, Beside(w), v)
            BY <1>8, <1>13
        <3>3. L(v).kept = Status!Back(3, Beside(w), v)
            BY <2>2, <3>1
        <3>4. L(v).kept \in Int /\ L(w).kept \in Int
            BY <1>1, <1>3, <1>6
        <3>5. L(w).kept <= L(v).kept
            BY <2>2, <3>2, <3>3, Zenon
        <3>6. QED
            BY <3>4, <3>5
    <2>4. QED
        BY <1>8, <1>9, <2>1, <2>3
<1>15. CASE Beside(w) = 0 /\ Instead(w) > 0
    <2>1. L(w).end = Instead(w) /\ L(w).kept = Status!Back(2, Instead(w), w)
        BY <1>3, <1>6, <1>15
    <2>2. L(v).kept \in Int /\ L(w).kept \in Int
        BY <1>1, <1>3, <1>6
    <2>3. CASE Beside(v) > 0
        <3>1. L(v).end = Beside(v) /\ L(v).kept = Status!Back(3, Beside(v), v)
            BY <1>3, <1>6, <2>3
        <3>2. Status!Back(2, Instead(w), w) <= Status!Back(3, Instead(w), v)
            BY <1>8, <1>13
        <3>3. Instead(w) = Beside(v) => L(w).kept <= L(v).kept
            BY <2>1, <3>1, <3>2, Zenon
        <3>4. QED
            BY <1>8, <1>10, <2>1, <2>2, <2>3, <3>1, <3>3
    <2>4. CASE Beside(v) = 0
        <3>1. Instead(v) > 0
            BY <1>8, <1>9, <1>15
        <3>2. L(v).end = Instead(v) /\ L(v).kept = Status!Back(2, Instead(v), v)
            BY <1>3, <1>6, <2>4, <3>1
        <3>3. Status!Back(2, Instead(w), w) <= Status!Back(2, Instead(w), v)
            BY <1>8, <1>13
        <3>4. Instead(w) = Instead(v) => L(w).kept <= L(v).kept
            BY <2>1, <3>2, <3>3, Zenon
        <3>5. QED
            BY <1>8, <1>9, <2>1, <2>2, <3>2, <3>4
    <2>5. QED
        BY <1>8, <2>3, <2>4
<1>16. CASE Beside(w) = 0 /\ Instead(w) = 0
    <2>1. /\ L(w).kept = all
          /\ L(w).end = IF h > 0 /\ w - F(all) - h >= Status!EndGap THEN h ELSE 0
        BY <1>3, <1>6, <1>16
    <2>2. CASE L(w).end = 0
        <3>1. L(v).end = 0 => Beside(v) = 0 /\ Instead(v) = 0
            BY <1>3, <1>6, <1>8
        <3>2. Beside(v) = 0 /\ Instead(v) = 0 => L(v).kept = all
            BY <1>3, <1>6
        <3>3. QED
            BY <1>1, <2>1, <2>2, <3>1, <3>2
    <2>3. CASE L(w).end # 0
        <3>1. h = 11 /\ L(w).end = 11 /\ w - F(all) - 11 >= 2
            BY <1>5, <2>1, <2>3 DEF Status!EndGap
        <3>2. Wide(w) >= 11
            BY <1>2, <1>3, <3>1 DEF Status!EndGap
        <3>3. (Beside(v) = 0 \/ Beside(v) > 11) /\ (Instead(v) = 0 \/ Instead(v) > 11)
            BY <1>11, <1>12, <1>16, <3>2
        <3>4. CASE Beside(v) = 0 /\ Instead(v) = 0
            <4>1. v - F(all) - 11 >= 2
                BY <1>2, <1>3, <3>1
            <4>2. L(v).kept = all /\ L(v).end = 11
                BY <1>3, <1>6, <3>1, <3>4, <4>1 DEF Status!EndGap
            <4>3. QED
                BY <1>1, <2>1, <3>1, <4>2
        <3>5. CASE Beside(v) > 11
            <4>1. L(v).end = Beside(v)
                BY <1>3, <1>6, <1>8, <3>5
            <4>2. QED
                BY <1>8, <3>1, <3>5, <4>1
        <3>6. CASE Beside(v) = 0 /\ Instead(v) > 11
            <4>1. L(v).end = Instead(v)
                BY <1>3, <1>6, <1>8, <3>6
            <4>2. QED
                BY <1>8, <3>1, <3>6, <4>1
        <3>7. QED
            BY <3>3, <3>4, <3>5, <3>6
    <2>4. QED
        BY <2>2, <2>3
<1>17. QED
    BY <1>8, <1>14, <1>15, <1>16

\* The status line's variables keep their types.
LEMMA StatusTyped ==
    ASSUME Status!StatusAssumption
    PROVE  Status!Spec => []Status!TypeOK
<1>1. Status!Init => Status!TypeOK
    <2> SUFFICES ASSUME Status!Init PROVE Status!TypeOK
        OBVIOUS
    <2>1. Status!NoticeAlert(0) = Status!NoAlert
        BY DEF Status!NoticeAlert
    <2>2. notice \in {Status!NoticeAlert(text) : text \in Notices \cup {0}}
        BY <2>1 DEF Status!Init
    <2>3. /\ counted \in 0..MaxCounted /\ worked \in Nat /\ unworked \in Nat
          /\ worked + unworked <= counted /\ median \in Medians \cup {0} /\ ~ (median > 0)
        BY DEF Status!Init, Status!StatusAssumption
    <2>4. QED
        BY <2>2, <2>3 DEF Status!Init, Status!TypeOK
<1>2. Status!TypeOK /\ [Status!Next]_(Status!vars) => Status!TypeOK'
    <2> SUFFICES ASSUME Status!TypeOK, [Status!Next]_(Status!vars) PROVE Status!TypeOK'
        OBVIOUS
    <2>1. CASE Status!Joins \/ Status!Drops
        BY <2>1 DEF Status!Joins, Status!Drops, Status!Follow, Status!TypeOK
    <2>2. CASE Status!Record
        <3>1. /\ counted \in 0..MaxCounted /\ worked \in Nat /\ unworked \in Nat
              /\ worked + unworked <= counted /\ MaxCounted \in Nat
              /\ median \in Medians \cup {0} /\ (median > 0 => worked + unworked > 0)
            BY DEF Status!TypeOK, Status!StatusAssumption
        <3>2. counted' = counted + 1 /\ counted' \in 0..MaxCounted
            BY <2>2, <3>1 DEF Status!Record
        <3>3. /\ worked' \in Nat /\ unworked' \in Nat /\ worked' + unworked' <= counted'
              /\ median' \in Medians \cup {0} /\ (median' > 0 => worked' + unworked' > 0)
            <4>1. CASE UNCHANGED <<worked, unworked, median>>
                BY <3>1, <3>2, <4>1
            <4>2. CASE /\ \/ worked' = worked + 1 /\ UNCHANGED unworked
                          \/ unworked' = unworked + 1 /\ UNCHANGED worked
                       /\ median' \in {median} \cup Medians
                BY <3>1, <3>2, <4>2
            <4>3. QED
                BY <2>2, <4>1, <4>2 DEF Status!Record
        <3>4. UNCHANGED <<lineWidth, prompt, connection, lost, notice, update>>
            BY <2>2 DEF Status!Record
        <3>5. QED
            BY <3>2, <3>3, <3>4 DEF Status!TypeOK
    <2>3. CASE Status!UpdateAvailable
        BY <2>3 DEF Status!UpdateAvailable, Status!TypeOK
    <2>4. CASE Status!Notice
        BY <2>4 DEF Status!Notice, Status!TypeOK
    <2>5. CASE Status!Stop
        BY <2>5 DEF Status!Stop, Status!TypeOK
    <2>6. CASE Status!Resize
        BY <2>6 DEF Status!Resize, Status!TypeOK
    <2>7. CASE UNCHANGED Status!vars
        BY <2>7 DEF Status!vars, Status!TypeOK
    <2>8. QED
        BY <2>1, <2>2, <2>3, <2>4, <2>5, <2>6, <2>7 DEF Status!Next
<1>3. QED
    BY <1>1, <1>2, PTL DEF Status!Spec

\* What gives way on the status line does so for an alert or a reason that can
\* be read.
StatusPromises ==
    /\ Status!TypeOK /\ Status!AlertsAreReadable /\ Status!AlertsShowWhereTheyCan
    /\ Status!ReasonsAreReadable /\ Status!WiderShowsNoLess

\* They hold of every line drawn.
LEMMA StatusKept ==
    ASSUME Status!StatusAssumption
    PROVE  Status!Spec => []StatusPromises
<1>1. Status!TypeOK => StatusPromises
    <2> SUFFICES ASSUME Status!TypeOK PROVE StatusPromises
        OBVIOUS
    <2>1. StatusTypes
        BY DEF StatusTypes
    <2>2. QED
        BY <2>1, AlertsAreRead, AlertsAreShown, ReasonsAreRead, WiderIsNoWorse DEF StatusPromises
<1>2. QED
    BY <1>1, StatusTyped, PTL

----------------------------------------------------------------------------
(* Cards: text.                                                               *)

\* A function on the first numbers is a sequence.
LEMMA SequenceOf ==
    ASSUME NEW T, NEW n \in Nat, NEW f \in [1..n -> T]
    PROVE  f \in Seq(T) /\ Len(f) = n
OBVIOUS

\* Two sequences joined are as long as both.
LEMMA LengthsAdd ==
    ASSUME NEW R, NEW s \in Seq(R), NEW t \in Seq(R)
    PROVE  Len(s \o t) = Len(s) + Len(t) /\ Len(s) \in Nat /\ Len(t) \in Nat
OBVIOUS

\* What is joined is of the parts' runes.
LEMMA FlattenType ==
    ASSUME NEW R, NEW seqs \in Seq(Seq(R))
    PROVE  Cards!FlattenSeq(seqs) \in Seq(R)
<1>1. PICK f \in [0..Len(seqs) -> Seq(R)] : Cards!FlattenSeq(seqs) = f[Len(seqs)]
    BY FlattenJoins
<1>2. Len(seqs) \in 0..Len(seqs)
    OBVIOUS
<1>3. QED
    BY <1>1, <1>2

\* The first of some texts joined start what they all are, and are at least as
\* many characters, where none is empty.
LEMMA FlattenPrefix ==
    ASSUME NEW R, NEW seqs \in Seq(Seq(R)), \A i \in 1..Len(seqs) : Len(seqs[i]) > 0,
           NEW n \in 0..Len(seqs)
    PROVE  LET whole == Cards!FlattenSeq(seqs)
               part == Cards!FlattenSeq(SubSeq(seqs, 1, n))
           IN  /\ whole \in Seq(R) /\ part \in Seq(R)
               /\ n <= Len(part) /\ Len(part) <= Len(whole)
               /\ \A j \in 1..Len(part) : part[j] = whole[j]
<1> DEFINE all == Len(seqs)
           sub == SubSeq(seqs, 1, n)
<1>1. all \in Nat /\ n \in Nat /\ n <= all /\ \A i \in 1..all : seqs[i] \in Seq(R)
    OBVIOUS
<1>2. sub \in Seq(Seq(R)) /\ Len(sub) = n /\ \A i \in 1..n : sub[i] = seqs[i]
    OBVIOUS
<1>3. PICK f \in [0..all -> Seq(R)] :
          f[0] = <<>> /\ (\A i \in 1..all : f[i] = f[i - 1] \o seqs[i]) /\ Cards!FlattenSeq(seqs) = f[all]
    BY FlattenJoins
<1>4. PICK g \in [0..n -> Seq(R)] :
          g[0] = <<>> /\ (\A i \in 1..n : g[i] = g[i - 1] \o sub[i]) /\ Cards!FlattenSeq(sub) = g[n]
    <2> HIDE DEF sub
    <2>1. QED
        BY <1>2, FlattenJoins
<1> HIDE DEF all, sub
<1>5. g[n] = f[n] /\ n <= Len(f[n])
    <2> DEFINE S == {m \in Nat : m <= n => g[m] = f[m] /\ m <= Len(f[m])}
    <2>1. 0 \in S
        BY <1>3, <1>4
    <2>2. ASSUME NEW m \in S PROVE m + 1 \in S
        <3> SUFFICES ASSUME m + 1 <= n PROVE g[m + 1] = f[m + 1] /\ m + 1 <= Len(f[m + 1])
            OBVIOUS
        <3>1. /\ m + 1 \in 1..n /\ m + 1 \in 1..all /\ (m + 1) - 1 = m /\ m <= n /\ m \in 0..all
            BY <1>1
        <3>2. g[m] = f[m] /\ m <= Len(f[m]) /\ f[m] \in Seq(R)
            BY <1>3, <3>1
        <3>3. g[m + 1] = g[m] \o seqs[m + 1] /\ f[m + 1] = f[m] \o seqs[m + 1]
            BY <1>2, <1>3, <1>4, <3>1
        <3>4. Len(f[m] \o seqs[m + 1]) = Len(f[m]) + Len(seqs[m + 1]) /\ Len(seqs[m + 1]) \in Nat
              /\ Len(f[m]) \in Nat /\ Len(seqs[m + 1]) > 0
            <4>1. seqs[m + 1] \in Seq(R) /\ Len(seqs[m + 1]) > 0
                BY <1>1, <3>1 DEF all
            <4>2. f[m] \in Seq(R)
                BY <3>2
            <4>3. QED
                BY <4>1, <4>2, LengthsAdd, Zenon
        <3>5. g[m + 1] = f[m + 1]
            BY <3>2, <3>3
        <3>6. Len(f[m + 1]) = Len(f[m]) + Len(seqs[m + 1])
            BY <3>3, <3>4
        <3>7. m + 1 <= Len(f[m + 1])
            <4>1. m \in Nat /\ Len(f[m]) \in Nat /\ Len(seqs[m + 1]) \in Nat
                  /\ m <= Len(f[m]) /\ Len(seqs[m + 1]) > 0
                BY <3>2, <3>4
            <4>2. \A x, y \in Nat : m <= x /\ y > 0 => m + 1 <= x + y
                BY <4>1
            <4>3. QED
                BY <3>6, <4>1, <4>2, Zenon
        <3>8. QED
            BY <3>5, <3>7
    <2>3. S = Nat
        <3>1. S \in SUBSET Nat
            OBVIOUS
        <3> HIDE DEF S
        <3>2. QED
            BY <2>1, <2>2, <3>1, SetInduction
    <2>4. n \in S
        <3> HIDE DEF S
        <3>1. QED
            BY <1>1, <2>3
    <2>5. QED
        BY <1>1, <2>4
<1> DEFINE Starts(m) == Len(f[n]) <= Len(f[m]) /\ \A j \in 1..Len(f[n]) : f[n][j] = f[m][j]
<1>6. Starts(all)
    <2> DEFINE S == {d \in Nat : n + d <= all => Starts(n + d)}
    <2>0. n \in 0..all /\ f[n] \in Seq(R) /\ Len(f[n]) \in Nat
        BY <1>1, <1>3
    <2>1. 0 \in S
        <3>1. n + 0 = n
            BY <1>1
        <3>2. QED
            BY <2>0, <3>1
    <2>2. ASSUME NEW d \in S PROVE d + 1 \in S
        <3> SUFFICES ASSUME n + (d + 1) <= all PROVE Starts(n + (d + 1))
            OBVIOUS
        <3> DEFINE m == n + d
        <3>1. /\ m + 1 \in 1..all /\ (m + 1) - 1 = m /\ m \in 0..all /\ m + 1 = n + (d + 1) /\ m <= all
            BY <1>1
        <3>2. Starts(m) /\ f[m] \in Seq(R)
            BY <1>3, <3>1
        <3> HIDE DEF m
        <3>3. f[m + 1] = f[m] \o seqs[m + 1] /\ seqs[m + 1] \in Seq(R)
            BY <1>1, <1>3, <3>1
        <3>4. Starts(m + 1)
            <4>1. /\ Len(f[n]) <= Len(f[m] \o seqs[m + 1])
                  /\ \A j \in 1..Len(f[n]) : f[n][j] = (f[m] \o seqs[m + 1])[j]
                <5>1. /\ Len(f[n]) <= Len(f[m])
                      /\ \A j \in 1..Len(f[n]) : f[n][j] = f[m][j]
                    BY <3>2
                <5>2. f[n] \in Seq(R) /\ f[m] \in Seq(R) /\ seqs[m + 1] \in Seq(R)
                    BY <2>0, <3>2, <3>3
                <5> DEFINE a == f[n]
                           b == f[m]
                           c == seqs[m + 1]
                <5> HIDE DEF a, b, c, Starts, S
                <5>3. /\ Len(a) <= Len(b \o c)
                      /\ \A j \in 1..Len(a) : a[j] = (b \o c)[j]
                    <6>1. a \in Seq(R) /\ b \in Seq(R) /\ c \in Seq(R)
                        BY <5>2 DEF a, b, c
                    <6>2. Len(a) <= Len(b) /\ \A j \in 1..Len(a) : a[j] = b[j]
                        BY <5>1 DEF a, b
                    <6>3. /\ Len(a) \in Nat /\ Len(b) \in Nat /\ Len(c) \in Nat
                          /\ Len(b \o c) = Len(b) + Len(c)
                          /\ \A j \in 1..Len(b) : (b \o c)[j] = b[j]
                        BY <6>1
                    <6>4. \A j \in 1..Len(a) : j \in 1..Len(b)
                        BY <6>2, <6>3
                    <6>5. QED
                        BY <6>2, <6>3, <6>4
                <5>4. QED
                    BY <5>3 DEF a, b, c
            <4>2. QED
                BY <3>3, <4>1
        <3>5. QED
            BY <3>1, <3>4
    <2>3. S = Nat
        <3>1. S \in SUBSET Nat
            OBVIOUS
        <3> HIDE DEF S
        <3>2. QED
            BY <2>1, <2>2, <3>1, SetInduction
    <2>4. all - n \in S /\ n + (all - n) = all
        <3> HIDE DEF S
        <3>1. QED
            BY <1>1, <2>3
    <2>5. QED
        BY <1>1, <2>4
<1>7. f[all] \in Seq(R) /\ f[n] \in Seq(R)
    BY <1>1, <1>3
<1>8. QED
    BY <1>3, <1>4, <1>5, <1>6, <1>7 DEF sub

\* The runes there are, with those escapes and cuts put in, and those of them that
\* drive nothing; a tab is left in text of several lines.
Runes ==
    STRING \cup {"tab", "cr", "escape", "invalid", "backslash", "t", "r", "x", "1", "b",
                 "replacement", "dots", " ", "hidden"}
Inert == Runes \ Cards!Controls
InertOrTab == Inert \cup {"tab"}

\* What an escape is made of drives nothing.
LEMMA InertRunes ==
    /\ {"backslash", "t", "r", "x", "1", "b", "replacement", "dots", " ", "hidden"} \subseteq Inert
    /\ Inert \subseteq InertOrTab /\ "tab" \in InertOrTab
    /\ \A rune \in STRING : rune \notin {"tab", "cr", "escape"} => rune \in Inert
BY DEF Runes, Inert, InertOrTab, Cards!Controls

\* A sequence of one rune, once or as wide as a tab.
LEMMA OneRune ==
    ASSUME NEW T, NEW rune \in T
    PROVE  /\ <<rune>> \in Seq(T) /\ Len(<<rune>>) > 0
           /\ <<rune, rune, rune, rune>> \in Seq(T)
OBVIOUS

\* An escape is one inert rune at least.
LEMMA EscapeType ==
    ASSUME NEW rune \in STRING, NEW line \in BOOLEAN
    PROVE  /\ Cards!Escape(rune, line) \in Seq(InertOrTab)
           /\ line => Cards!Escape(rune, line) \in Seq(Inert)
           /\ Len(Cards!Escape(rune, line)) > 0
<1> DEFINE Goal(text, T) == text \in Seq(T) /\ Len(text) > 0
<1>1. "tab" # "cr" /\ "tab" # "escape" /\ "tab" # "invalid" /\ "cr" # "escape" /\ "cr" # "invalid"
      /\ "escape" # "invalid"
    OBVIOUS
<1>2. \A text : Goal(text, Inert) => Goal(text, InertOrTab)
    <2> SUFFICES ASSUME NEW text \in Seq(Inert) PROVE text \in Seq(InertOrTab)
        OBVIOUS
    <2>1. \A i \in 1..Len(text) : text[i] \in InertOrTab
        <3>1. \A i \in 1..Len(text) : text[i] \in Inert
            OBVIOUS
        <3>2. QED
            BY <3>1, InertRunes
    <2>2. text \in [1..Len(text) -> InertOrTab] /\ Len(text) \in Nat
        BY <2>1
    <2>3. QED
        BY <2>2
<1>3. ASSUME rune = "tab", ~ line PROVE Goal(Cards!Escape(rune, line), InertOrTab)
    <2>1. Cards!Escape(rune, line) = <<rune>>
        BY <1>1, <1>3 DEF Cards!Escape
    <2>2. rune \in InertOrTab
        BY <1>3, InertRunes
    <2>3. QED
        BY <2>1, <2>2, OneRune
<1>4. ASSUME rune # "tab" \/ line PROVE Goal(Cards!Escape(rune, line), Inert)
    <2>1. CASE rune = "tab"
        <3>1. Cards!Escape(rune, line) = <<"backslash", "t">>
            BY <1>4, <2>1 DEF Cards!Escape
        <3>2. {"backslash", "t"} \subseteq Inert
            BY InertRunes
        <3>3. <<"backslash", "t">> \in Seq(Inert) /\ Len(<<"backslash", "t">>) > 0
            BY <3>2
        <3>4. QED
            BY <3>1, <3>3
    <2>2. CASE rune = "cr"
        <3>1. Cards!Escape(rune, line) = <<"backslash", "r">>
            BY <1>1, <2>2 DEF Cards!Escape
        <3>2. {"backslash", "r"} \subseteq Inert
            BY InertRunes
        <3>3. <<"backslash", "r">> \in Seq(Inert) /\ Len(<<"backslash", "r">>) > 0
            BY <3>2
        <3>4. QED
            BY <3>1, <3>3
    <2>3. CASE rune = "escape"
        <3>1. Cards!Escape(rune, line) = <<"backslash", "x", "1", "b">>
            BY <1>1, <2>3 DEF Cards!Escape
        <3>2. {"backslash", "x", "1", "b"} \subseteq Inert
            BY InertRunes
        <3>3. <<"backslash", "x", "1", "b">> \in Seq(Inert) /\ Len(<<"backslash", "x", "1", "b">>) > 0
            BY <3>2
        <3>4. QED
            BY <3>1, <3>3
    <2>4. CASE rune = "invalid"
        <3>1. Cards!Escape(rune, line) = <<"replacement">>
            BY <1>1, <2>4 DEF Cards!Escape
        <3>2. {"replacement"} \subseteq Inert
            BY InertRunes
        <3>3. <<"replacement">> \in Seq(Inert) /\ Len(<<"replacement">>) > 0
            BY <3>2
        <3>4. QED
            BY <3>1, <3>3
    <2>5. CASE rune \notin {"tab", "cr", "escape", "invalid"}
        <3>1. Cards!Escape(rune, line) = <<rune>>
            BY <2>5 DEF Cards!Escape
        <3>2. rune \in Inert
            BY <2>5, InertRunes
        <3>3. QED
            BY <3>1, <3>2, OneRune
    <2>6. QED
        BY <2>1, <2>2, <2>3, <2>4, <2>5
<1>5. QED
    BY <1>2, <1>3, <1>4

\* Text sanitized is inert but for its tabs, and as a line is inert.
LEMMA SanitizeType ==
    ASSUME NEW text \in Seq(STRING)
    PROVE  /\ Cards!Sanitize(text) \in Seq(InertOrTab) /\ Cards!Line(text) \in Seq(Inert)
           /\ [i \in DOMAIN text |-> Cards!Escape(text[i], FALSE)] \in Seq(Seq(InertOrTab))
<1> DEFINE s(line) == [i \in DOMAIN text |-> Cards!Escape(text[i], line)]
<1>1. DOMAIN text = 1..Len(text) /\ Len(text) \in Nat /\ \A i \in DOMAIN text : text[i] \in STRING
    OBVIOUS
<1>2. s(TRUE) \in Seq(Seq(Inert))
    <2>1. \A i \in DOMAIN text : Cards!Escape(text[i], TRUE) \in Seq(Inert)
        BY <1>1, EscapeType
    <2> DEFINE T == Seq(Inert)
    <2> HIDE DEF T
    <2>2. s(TRUE) \in [1..Len(text) -> T]
        BY <1>1, <2>1 DEF T
    <2> HIDE DEF s
    <2>3. s(TRUE) \in Seq(T)
        BY <1>1, <2>2, SequenceOf
    <2>4. QED
        BY <2>3 DEF T
<1>3. s(FALSE) \in Seq(Seq(InertOrTab))
    <2>1. \A i \in DOMAIN text : Cards!Escape(text[i], FALSE) \in Seq(InertOrTab)
        BY <1>1, EscapeType
    <2> DEFINE T == Seq(InertOrTab)
    <2> HIDE DEF T
    <2>2. s(FALSE) \in [1..Len(text) -> T]
        BY <1>1, <2>1 DEF T
    <2> HIDE DEF s
    <2>3. s(FALSE) \in Seq(T)
        BY <1>1, <2>2, SequenceOf
    <2>4. QED
        BY <2>3 DEF T
<1>4. Cards!Sanitize(text) \in Seq(InertOrTab)
    BY <1>3, FlattenType DEF Cards!Sanitize
<1>5. Cards!Line(text) \in Seq(Inert)
    BY <1>2, FlattenType DEF Cards!Line
<1>6. QED
    BY <1>3, <1>4, <1>5

\* A value cut adds the dots only.
LEMMA ValueType ==
    ASSUME NEW T, "dots" \in T, NEW text \in Seq(T), limits.chars \in Nat
    PROVE  Cards!Value(text) \in Seq(T)
<1>1. Len(text) \in Nat
    OBVIOUS
<1>2. CASE ~ (limits.chars = 0 \/ Len(text) <= limits.chars)
    <2>1. SubSeq(text, 1, limits.chars) \in Seq(T)
        BY <1>1, <1>2
    <2>2. Cards!Prefix(text, limits.chars) = SubSeq(text, 1, limits.chars)
        BY <1>1, <1>2 DEF Cards!Prefix
    <2>3. QED
        BY <1>2, <2>1, <2>2 DEF Cards!Value
<1>3. QED
    BY <1>2 DEF Cards!Value

\* Text whose tabs are expanded is inert.
LEMMA ExpandTabsType ==
    ASSUME NEW text \in Seq(InertOrTab)
    PROVE  Cards!ExpandTabs(text) \in Seq(Inert)
<1> DEFINE s == [i \in DOMAIN text |->
                    IF text[i] = "tab" THEN <<" ", " ", " ", " ">> ELSE <<text[i]>>]
<1>1. DOMAIN text = 1..Len(text) /\ Len(text) \in Nat /\ \A i \in DOMAIN text : text[i] \in InertOrTab
    OBVIOUS
<1>2. <<" ", " ", " ", " ">> \in Seq(Inert)
    <2>1. " " \in Inert
        BY InertRunes
    <2>2. QED
        BY <2>1, OneRune
<1>3. ASSUME NEW i \in DOMAIN text PROVE s[i] \in Seq(Inert)
    <2>1. CASE text[i] = "tab"
        BY <1>2, <2>1
    <2>2. CASE text[i] # "tab"
        <3>1. text[i] \in Inert
            BY <1>1, <2>2 DEF InertOrTab
        <3>2. QED
            BY <2>2, <3>1
    <2>3. QED
        BY <2>1, <2>2
<1>4. s \in Seq(Seq(Inert))
    <2> DEFINE T == Seq(Inert)
    <2> HIDE DEF T
    <2>1. s \in [1..Len(text) -> T]
        BY <1>1, <1>3 DEF T
    <2> HIDE DEF s
    <2>2. s \in Seq(T)
        BY <1>1, <2>1, SequenceOf
    <2>3. QED
        BY <2>2 DEF T
<1>5. QED
    BY <1>4, FlattenType DEF Cards!ExpandTabs

\* A line cut a rune past the limit shows what the whole line would.
LEMMA EarlyCut ==
    ASSUME NEW line \in Seq(STRING), limits.chars \in Nat
    PROVE  LET whole == Cards!Sanitize(line)
           IN  /\ Cards!BodyLine(line) =
                     Cards!ExpandTabs(IF limits.chars = 0 \/ Len(whole) <= limits.chars THEN whole
                                      ELSE Append(SubSeq(whole, 1, limits.chars), "dots"))
               /\ Cards!BodyLine(line) \in Seq(Inert)
<1> DEFINE c == limits.chars
           whole == Cards!Sanitize(line)
           cut == IF c = 0 THEN line ELSE Cards!Prefix(line, c + 1)
           part == Cards!Sanitize(cut)
           shown == IF c = 0 \/ Len(whole) <= c THEN whole ELSE Append(SubSeq(whole, 1, c), "dots")
<1>0. whole \in Seq(InertOrTab)
    BY SanitizeType
<1>1. whole \in Seq(InertOrTab) /\ Len(whole) \in Nat /\ c \in Nat /\ Len(line) \in Nat
    <2> HIDE DEF whole
    <2>1. QED
        BY <1>0
<1>2. Cards!Value(whole) = shown
    <2> HIDE DEF whole
    <2>1. QED
        BY <1>1 DEF Cards!Value, Cards!Prefix
<1>3. ASSUME c = 0 \/ Len(line) <= c + 1
      PROVE  Cards!BodyLine(line) = Cards!ExpandTabs(shown)
    <2>1. cut = line
        BY <1>1, <1>3 DEF Cards!Prefix
    <2>2. QED
        BY <1>2, <2>1 DEF Cards!BodyLine
<1>4. ASSUME c # 0, Len(line) > c + 1
      PROVE  Cards!BodyLine(line) = Cards!ExpandTabs(shown)
    <2> DEFINE n == c + 1
               s == [i \in DOMAIN line |-> Cards!Escape(line[i], FALSE)]
    <2>1. n \in 0..Len(line) /\ cut = SubSeq(line, 1, n) /\ n > c
        BY <1>1, <1>4 DEF Cards!Prefix
    <2>2. /\ s \in Seq(Seq(InertOrTab)) /\ Len(s) = Len(line)
          /\ \A i \in 1..Len(s) : Len(s[i]) > 0
        <3>1. s \in Seq(Seq(InertOrTab))
            BY SanitizeType
        <3>2. Len(s) = Len(line) /\ DOMAIN line = 1..Len(line)
            OBVIOUS
        <3>3. \A i \in 1..Len(line) : line[i] \in STRING
            OBVIOUS
        <3>4. \A i \in 1..Len(line) : Len(Cards!Escape(line[i], FALSE)) > 0
            BY <3>3, EscapeType
        <3> HIDE DEF whole
        <3>5. QED
            BY <3>1, <3>2, <3>4
    <2>3. [i \in DOMAIN cut |-> Cards!Escape(cut[i], FALSE)] = SubSeq(s, 1, n)
        <3> HIDE DEF s, cut, n, c
        <3>1. DOMAIN cut = 1..n /\ \A i \in 1..n : cut[i] = line[i] /\ i \in DOMAIN line
            BY <1>1, <2>1
        <3>2. SubSeq(s, 1, n) = [i \in 1..n |-> s[i]]
            BY <1>1, <2>1, <2>2
        <3>3. \A i \in 1..n : s[i] = Cards!Escape(line[i], FALSE)
            BY <3>1 DEF s
        <3>4. QED
            BY <3>1, <3>2, <3>3
    <2>4. part = Cards!FlattenSeq(SubSeq(s, 1, n)) /\ whole = Cards!FlattenSeq(s)
        BY <2>3 DEF Cards!Sanitize
    <2> HIDE DEF s, n, part, whole, cut
    <2>5. /\ part \in Seq(InertOrTab) /\ n <= Len(part) /\ Len(part) <= Len(whole)
          /\ \A j \in 1..Len(part) : part[j] = whole[j]
        BY <2>1, <2>2, <2>4, FlattenPrefix
    <2>6. Len(part) > c /\ Len(whole) > c /\ Len(part) \in Nat
        BY <1>1, <2>1, <2>5
    <2>7. SubSeq(part, 1, c) = SubSeq(whole, 1, c)
        <3>1. /\ SubSeq(part, 1, c) = [j \in 1..c |-> part[j]]
              /\ SubSeq(whole, 1, c) = [j \in 1..c |-> whole[j]]
            BY <1>1, <2>5, <2>6
        <3>2. \A j \in 1..c : j \in 1..Len(part)
            BY <1>1, <2>6
        <3>3. QED
            BY <2>5, <3>1, <3>2
    <2>8. Cards!Value(part) = Append(SubSeq(whole, 1, c), "dots")
        <3>1. ~ (limits.chars = 0 \/ Len(part) <= limits.chars)
            BY <1>1, <1>4, <2>6
        <3>2. Cards!Prefix(part, limits.chars) = SubSeq(part, 1, c)
            BY <1>1, <2>6 DEF Cards!Prefix
        <3>3. QED
            BY <2>7, <3>1, <3>2 DEF Cards!Value
    <2>9. shown = Append(SubSeq(whole, 1, c), "dots")
        BY <1>1, <1>4, <2>6
    <2>10. Cards!BodyLine(line) = Cards!ExpandTabs(Cards!Value(part))
        BY DEF Cards!BodyLine, part, cut
    <2>11. QED
        BY <2>8, <2>9, <2>10
<1>5. Cards!BodyLine(line) = Cards!ExpandTabs(shown)
    BY <1>1, <1>3, <1>4
<1>6. shown \in Seq(InertOrTab)
    <2>1. "dots" \in InertOrTab
        BY InertRunes
    <2>2. QED
        BY <1>1, <1>2, <2>1, ValueType
<1> HIDE DEF shown
<1>7. Cards!BodyLine(line) \in Seq(Inert)
    BY <1>5, <1>6, ExpandTabsType
<1>8. QED
    BY <1>5, <1>7 DEF shown

----------------------------------------------------------------------------
(* Cards: headers.  Names are ordered by rank, and each has a place.          *)

\* A name of a greater rank has more before it, and none has all.
LEMMA RankedNames ==
    ASSUME Cards!CardsAssumption, NEW names \in SUBSET HeaderNames
    PROVE  /\ IsFiniteSet(names) /\ Cardinality(names) \in Nat
           /\ \A h, other \in names : h.rank \in Nat /\ (h.rank = other.rank => h = other)
           /\ \A h \in names :
                 /\ Cards!Before(names, h) \in 0..Cardinality(names) - 1
                 /\ \A other \in names :
                       other.rank < h.rank => Cards!Before(names, other) < Cards!Before(names, h)
<1>1. IsFiniteSet(HeaderNames)
    BY Zenon DEF Cards!CardsAssumption, Cards!IsFiniteSet, IsFiniteSet
<1>2. \A h, other \in names : h.rank \in Nat /\ (h.rank = other.rank => h = other)
    BY DEF Cards!CardsAssumption
<1>3. IsFiniteSet(names) /\ Cardinality(names) \in Nat
    BY <1>1, FS_Subset, FS_CardinalityType
<1> DEFINE Below(h) == {other \in names : other.rank < h.rank}
<1>4. ASSUME NEW h \in names
      PROVE  /\ Cards!Before(names, h) = Cardinality(Below(h))
             /\ Below(h) \in SUBSET names /\ h \notin Below(h)
             /\ IsFiniteSet(Below(h)) /\ Cardinality(Below(h)) \in Nat
             /\ Cardinality(Below(h)) < Cardinality(names)
    <2>1. \A T : Cards!Cardinality(T) = Cardinality(T)
        BY Zenon DEF Cards!Cardinality, Cardinality
    <2>2. Cards!Before(names, h) = Cardinality(Below(h))
        BY <2>1 DEF Cards!Before
    <2>3. Below(h) \in SUBSET names /\ h \notin Below(h)
        BY <1>2
    <2> HIDE DEF Below
    <2>4. /\ IsFiniteSet(Below(h)) /\ Cardinality(Below(h)) <= Cardinality(names)
          /\ Cardinality(names) # Cardinality(Below(h))
        BY <1>3, <2>3, FS_Subset
    <2>5. Cardinality(Below(h)) \in Nat
        BY <2>4, FS_CardinalityType
    <2>6. QED
        BY <1>3, <2>2, <2>3, <2>4, <2>5
<1>5. ASSUME NEW h \in names, NEW other \in names, other.rank < h.rank
      PROVE  Cardinality(Below(other)) < Cardinality(Below(h))
    <2>1. Below(other) \cup {other} \in SUBSET Below(h)
        <3>1. \A k \in names : k.rank < other.rank => k.rank < h.rank
            BY <1>2, <1>5
        <3>2. QED
            BY <1>5, <3>1
    <2> HIDE DEF Below
    <2>2. Cardinality(Below(other) \cup {other}) = Cardinality(Below(other)) + 1
        BY <1>4, FS_AddElement
    <2>3. Cardinality(Below(other) \cup {other}) <= Cardinality(Below(h))
        BY <1>4, <2>1, FS_Subset
    <2>4. QED
        BY <1>4, <2>2, <2>3
<1> HIDE DEF Below
<1>6. ASSUME NEW h \in names
      PROVE  /\ Cards!Before(names, h) \in 0..Cardinality(names) - 1
             /\ \A other \in names :
                   other.rank < h.rank => Cards!Before(names, other) < Cards!Before(names, h)
    BY <1>3, <1>4, <1>5
<1>7. QED
    BY <1>2, <1>3, <1>6

\* Each place holds one name.
LEMMA NamesInPlace ==
    ASSUME Cards!CardsAssumption, NEW names \in SUBSET HeaderNames
    PROVE  /\ \A i \in 1..Cardinality(names) :
                 /\ Cards!InPlace(names, i) \in names
                 /\ Cards!Before(names, Cards!InPlace(names, i)) = i - 1
           /\ \A h \in names :
                 /\ Cards!Before(names, h) + 1 \in 1..Cardinality(names)
                 /\ Cards!InPlace(names, Cards!Before(names, h) + 1) = h
           /\ \A h, other \in names :
                 Cards!Before(names, h) < Cards!Before(names, other) => h.rank < other.rank
<1> DEFINE n == Cardinality(names)
           T == 0..n - 1
           f == [h \in names |-> Cards!Before(names, h)]
<1>1. /\ IsFiniteSet(names) /\ n \in Nat
      /\ \A h, other \in names : h.rank \in Nat /\ (h.rank = other.rank => h = other)
      /\ \A h \in names :
            /\ Cards!Before(names, h) \in T
            /\ \A other \in names :
                  other.rank < h.rank => Cards!Before(names, other) < Cards!Before(names, h)
    BY RankedNames
<1> HIDE DEF n
<1>2. \A k \in T : k \in Nat /\ k < n
    BY <1>1
<1>3. ASSUME NEW h \in names, NEW other \in names, Cards!Before(names, h) <= Cards!Before(names, other)
      PROVE  h.rank < other.rank \/ h = other
    <2>1. /\ h.rank \in Nat /\ other.rank \in Nat
          /\ Cards!Before(names, h) \in Nat /\ Cards!Before(names, other) \in Nat
        BY <1>1, <1>2
    <2>2. other.rank < h.rank => Cards!Before(names, other) < Cards!Before(names, h)
        BY <1>1
    <2>3. h.rank = other.rank => h = other
        BY <1>1
    <2>4. QED
        BY <1>3, <2>1, <2>2, <2>3
<1>4. ASSUME NEW h \in names, NEW other \in names, Cards!Before(names, h) = Cards!Before(names, other)
      PROVE  h = other
    <2>1. /\ Cards!Before(names, h) \in Nat /\ Cards!Before(names, other) \in Nat
          /\ h.rank \in Nat /\ other.rank \in Nat
        BY <1>1, <1>2
    <2>2. (h.rank < other.rank \/ h = other) /\ (other.rank < h.rank \/ h = other)
        BY <1>3, <1>4, <2>1
    <2>3. QED
        BY <2>1, <2>2
<1>5. ASSUME NEW k \in T PROVE \E h \in names : Cards!Before(names, h) = k
    <2>1. f \in Injection(names, T)
        BY <1>1, <1>4 DEF Injection, IsInjective
    <2>2. IsFiniteSet(T) /\ Cardinality(T) = Cardinality(names)
        BY <1>1, FS_Interval DEF n
    <2> HIDE DEF T, f
    <2>3. f \in Surjection(names, T)
        BY <2>1, <2>2, FS_Injection
    <2>4. PICK h \in names : f[h] = k
        BY <2>3 DEF Surjection
    <2>5. QED
        BY <2>4 DEF f
<1>6. ASSUME NEW i \in 1..n
      PROVE  /\ Cards!InPlace(names, i) \in names
             /\ Cards!Before(names, Cards!InPlace(names, i)) = i - 1
    <2>1. i - 1 \in T
        BY <1>1
    <2>2. \E h \in names : Cards!Before(names, h) = i - 1
        BY <1>5, <2>1
    <2>3. QED
        BY <2>2 DEF Cards!InPlace
<1>7. ASSUME NEW h \in names
      PROVE  /\ Cards!Before(names, h) + 1 \in 1..n
             /\ Cards!InPlace(names, Cards!Before(names, h) + 1) = h
    <2> DEFINE i == Cards!Before(names, h) + 1
    <2>1. i \in 1..n /\ i - 1 = Cards!Before(names, h)
        BY <1>1, <1>2
    <2> HIDE DEF i
    <2>2. Cards!InPlace(names, i) \in names /\ Cards!Before(names, Cards!InPlace(names, i)) = i - 1
        BY <1>6, <2>1
    <2>3. Cards!InPlace(names, i) = h
        BY <1>4, <2>1, <2>2
    <2>4. QED
        BY <2>1, <2>3 DEF i
<1>8. ASSUME NEW h \in names, NEW other \in names,
             Cards!Before(names, h) < Cards!Before(names, other)
      PROVE  h.rank < other.rank
    <2>1. Cards!Before(names, h) \in Nat /\ Cards!Before(names, other) \in Nat
        BY <1>1, <1>2
    <2>2. h.rank < other.rank \/ h = other
        BY <1>3, <1>8, <2>1
    <2>3. h # other
        BY <1>8, <2>1
    <2>4. QED
        BY <2>2, <2>3
<1>9. QED
    BY <1>6, <1>7, <1>8 DEF n

\* What the headers drawn are: the first names by rank, and the others counted.
LEMMA HeadersShown ==
    ASSUME Cards!CardsAssumption, NEW names \in SUBSET HeaderNames, NEW value \in CardLines,
           limits \in CardLimits, reveal \in BOOLEAN
    PROVE  LET headers == [h \in names |-> value]
               as == Cards!Headers(headers)
               m == Cards!Limit(Cardinality(names), limits.headers)
           IN  /\ m \in 0..Cardinality(names) /\ (limits.headers > 0 => m <= limits.headers)
               /\ DOMAIN as.shown = 1..m /\ Len(as.shown) = m
               /\ as.omitted = Cardinality(names) - m
               /\ \A i \in 1..m :
                     /\ as.shown[i][1] = Cards!InPlace(names, i)
                     /\ as.shown[i][2] = IF as.shown[i][1].sensitive /\ ~reveal THEN Cards!Hidden
                                         ELSE Cards!Value(Cards!Line(value))
<1> DEFINE headers == [h \in names |-> value]
           n == Cardinality(names)
           m == Cards!Limit(n, limits.headers)
           keys == [i \in 1..n |-> Cards!InPlace(names, i)]
           shown == SubSeq(keys, 1, m)
           pair(i) == <<shown[i], IF shown[i].sensitive /\ ~reveal THEN Cards!Hidden
                                  ELSE Cards!Value(Cards!Line(headers[shown[i]]))>>
           as == Cards!Headers(headers)
<1>1. n \in Nat /\ limits.headers \in Nat
    BY RankedNames DEF Cards!CardsAssumption
<1>2. m \in 0..n /\ m \in Nat /\ (limits.headers > 0 => m <= limits.headers)
    <2> HIDE DEF n
    <2>1. QED
        BY <1>1 DEF Cards!Limit
<1>3. \A i \in 1..n : Cards!InPlace(names, i) \in names
    BY NamesInPlace
<1> HIDE DEF n
<1>4. keys \in Seq(names) /\ Len(keys) = n
    <2>1. keys \in [1..n -> names]
        BY <1>3
    <2> HIDE DEF keys
    <2>2. QED
        BY <1>1, <2>1, SequenceOf
<1>5. /\ shown \in Seq(names) /\ Len(shown) = m /\ DOMAIN shown = 1..m
      /\ \A i \in 1..m : shown[i] = keys[i] /\ shown[i] \in names
    <2> HIDE DEF keys, m
    <2>1. QED
        BY <1>1, <1>2, <1>4
<1>6. \A i \in 1..m : shown[i] = Cards!InPlace(names, i) /\ shown[i] \in names
    <2>1. \A i \in 1..m : i \in 1..n
        <3> HIDE DEF m
        <3>1. QED
            BY <1>1, <1>2
    <2>2. \A i \in 1..n : keys[i] = Cards!InPlace(names, i)
        OBVIOUS
    <2> HIDE DEF keys, m, shown
    <2>3. QED
        BY <1>5, <2>1, <2>2
<1>7. as = [shown |-> [i \in DOMAIN shown |-> pair(i)], omitted |-> Len(keys) - Len(shown)]
    <2>1. DOMAIN headers = names
        OBVIOUS
    <2>2. Cards!Cardinality(names) = n
        BY Zenon DEF Cards!Cardinality, Cardinality, n
    <2> HIDE DEF headers
    <2>3. [i \in 1..Cards!Cardinality(DOMAIN headers) |-> Cards!InPlace(DOMAIN headers, i)] = keys
        BY <2>1, <2>2
    <2> HIDE DEF keys
    <2>4. as = LET first == SubSeq(keys, 1, Cards!Limit(Len(keys), limits.headers))
               IN  [shown |-> [i \in DOMAIN first |->
                        <<first[i], IF first[i].sensitive /\ ~reveal THEN Cards!Hidden
                                    ELSE Cards!Value(Cards!Line(headers[first[i]]))>>],
                    omitted |-> Len(keys) - Len(first)]
        BY <2>3, Zenon DEF Cards!Headers
    <2>5. QED
        BY <1>4, <2>4
<1>8. \A i \in 1..m : headers[shown[i]] = value
    <2> HIDE DEF m, shown
    <2>1. QED
        BY <1>6
<1> HIDE DEF keys, shown, headers, m, as
<1> DEFINE seq == [i \in DOMAIN shown |-> pair(i)]
<1>9. as.shown = seq /\ as.omitted = n - m
    BY <1>4, <1>5, <1>7
<1>10. DOMAIN seq = 1..m /\ Len(seq) = m
    BY <1>2, <1>5
<1>11. ASSUME NEW i \in 1..m
       PROVE  /\ seq[i][1] = Cards!InPlace(names, i)
              /\ seq[i][2] = IF seq[i][1].sensitive /\ ~reveal THEN Cards!Hidden
                             ELSE Cards!Value(Cards!Line(value))
    <2>1. seq[i] = pair(i)
        BY <1>5
    <2> HIDE DEF seq
    <2>2. seq[i][1] = shown[i]
          /\ seq[i][2] = IF shown[i].sensitive /\ ~reveal THEN Cards!Hidden
                         ELSE Cards!Value(Cards!Line(headers[shown[i]]))
        BY <2>1
    <2>3. QED
        BY <1>6, <1>8, <2>2
<1> HIDE DEF seq
<1>12. QED
    BY <1>2, <1>9, <1>10, <1>11 DEF as, m, n, headers

----------------------------------------------------------------------------
(* Cards: rows, boxes, and what a card drawn is.                              *)

\* A set is as many as the places of its members, when each has one.
LEMMA CardinalityOfDistinct ==
    ASSUME NEW n \in Nat, NEW S, NEW f \in [1..n -> S],
           \A i, j \in 1..n : f[i] = f[j] => i = j, \A k \in S : \E i \in 1..n : f[i] = k
    PROVE  IsFiniteSet(S) /\ Cardinality(S) = n
<1>1. IsFiniteSet(1..n) /\ Cardinality(1..n) = n
    BY FS_Interval
<1>2. f \in Bijection(1..n, S)
    BY DEF Bijection, Injection, Surjection, IsInjective
<1>3. ExistsBijection(1..n, S)
    BY <1>2 DEF ExistsBijection
<1>4. QED
    BY <1>1, <1>3, FS_Bijection

\* What was drawn: a card of one of the four kinds, as the code draws it.
CardIsRow(card) ==
    \E row \in CardRows, width \in CardWidths :
        card = [kind |-> "row", of |-> row, width |-> width, as |-> Cards!Row(row, width)]
CardIsBox(card) ==
    \E box \in CardBoxes, width \in CardWidths :
        card = [kind |-> "box", of |-> box, width |-> width, as |-> Cards!Frame(box, width)]
CardIsBody(card) ==
    \E lines \in Cards!Bodies :
        card = [kind |-> "body", of |-> lines, width |-> 0, as |-> Cards!Body(lines)]
CardIsHeaders(card) ==
    \E headers \in Cards!HeaderSets :
        card = [kind |-> "headers", of |-> headers, width |-> 0, as |-> Cards!Headers(headers)]

\* What every step keeps.
CardsInv ==
    /\ limits \in CardLimits /\ reveal \in BOOLEAN
    /\ \/ cardDrawn = Cards!Nothing
       \/ CardIsBody(cardDrawn) \/ CardIsHeaders(cardDrawn)
       \/ CardIsRow(cardDrawn) \/ CardIsBox(cardDrawn)

\* Nothing but a card's kinds is ever drawn.
LEMMA CardsInvHolds ==
    Cards!Spec => []CardsInv
<1>1. Cards!Init => CardsInv
    BY DEF Cards!Init, CardsInv
<1>2. CardsInv /\ [Cards!Next]_(Cards!vars) => CardsInv'
    <2> SUFFICES ASSUME CardsInv, [Cards!Next]_(Cards!vars) PROVE CardsInv'
        OBVIOUS
    <2>1. CASE UNCHANGED Cards!vars
        <3>1. limits' = limits /\ reveal' = reveal /\ cardDrawn' = cardDrawn
            BY <2>1 DEF Cards!vars
        <3>2. CardIsBody(cardDrawn)' <=> CardIsBody(cardDrawn)
            BY <3>1 DEF CardIsBody, Cards!Body, Cards!BodyLine, Cards!Value
        <3>3. CardIsHeaders(cardDrawn)' <=> CardIsHeaders(cardDrawn)
            BY <3>1 DEF CardIsHeaders, Cards!Headers, Cards!Value
        <3>4. QED
            BY <3>1, <3>2, <3>3 DEF CardsInv, CardIsRow, CardIsBox
    <2>2. ASSUME NEW lines \in Cards!Bodies, Cards!ShowBody(lines) PROVE CardsInv'
        <3>1. /\ cardDrawn' = [kind |-> "body", of |-> lines, width |-> 0, as |-> Cards!Body(lines)]
              /\ limits' = limits /\ reveal' = reveal
            BY <2>2 DEF Cards!ShowBody, Cards!Draw
        <3>2. Cards!Body(lines)' = Cards!Body(lines)
            BY <3>1 DEF Cards!Body, Cards!BodyLine, Cards!Value
        <3>3. CardIsBody(cardDrawn)'
            BY <3>1, <3>2 DEF CardIsBody
        <3>4. QED
            BY <3>1, <3>3 DEF CardsInv
    <2>3. ASSUME NEW headers \in Cards!HeaderSets, Cards!ShowHeaders(headers) PROVE CardsInv'
        <3>1. /\ cardDrawn' = [kind |-> "headers", of |-> headers, width |-> 0,
                               as |-> Cards!Headers(headers)]
              /\ limits' = limits /\ reveal' = reveal
            BY <2>3 DEF Cards!ShowHeaders, Cards!Draw
        <3>2. Cards!Headers(headers)' = Cards!Headers(headers)
            BY <3>1 DEF Cards!Headers, Cards!Value
        <3>3. CardIsHeaders(cardDrawn)'
            BY <3>1, <3>2 DEF CardIsHeaders
        <3>4. QED
            BY <3>1, <3>3 DEF CardsInv
    <2>4. ASSUME NEW row \in CardRows, NEW width \in CardWidths, Cards!DrawRow(row, width)
          PROVE  CardsInv'
        BY <2>4 DEF Cards!DrawRow, Cards!Draw, CardsInv, CardIsRow
    <2>5. ASSUME NEW box \in CardBoxes, NEW width \in CardWidths, Cards!DrawBox(box, width)
          PROVE  CardsInv'
        BY <2>5 DEF Cards!DrawBox, Cards!Draw, CardsInv, CardIsBox
    <2>6. QED
        BY <2>1, <2>2, <2>3, <2>4, <2>5 DEF Cards!Next
<1>3. QED
    BY <1>1, <1>2, PTL DEF Cards!Spec

\* What a card drawn promises, of each kind.
CardPromises ==
    /\ Cards!TypeOK /\ Cards!EarlyCutsAreExact /\ Cards!FirstHeadersAreShown
    /\ Cards!RowsFit /\ Cards!BoxesAreStraight

\* Rows: SMT settles the columns, part by part.
LEMMA RowsAreFit ==
    ASSUME Cards!CardsAssumption, limits \in CardLimits, reveal \in BOOLEAN, CardIsRow(cardDrawn)
    PROVE  CardPromises
<1>1. PICK row \in CardRows, width \in CardWidths :
          cardDrawn = [kind |-> "row", of |-> row, width |-> width, as |-> Cards!Row(row, width)]
    BY DEF CardIsRow
<1>2. /\ row.left \in Nat /\ row.right \in Nat /\ row.source \in Nat /\ row.path \in Nat
      /\ row.summary \in Nat /\ width \in Nat /\ SourceWidth \in Nat
    BY DEF Cards!CardsAssumption
<1> DEFINE as == Cards!Row(row, width)
           least == row.left + Cards!Least(SourceWidth, Cards!UnknownSource) + Cards!MinPath + row.right + 4
           column == Cards!SourceColumn(row, width)
           left == row.left + column + 2
           room == Cards!Most(Cards!MinPath, width - left - row.right - 2)
           summaryRoom == room - row.path - 2
           both == row.summary <= summaryRoom \/ summaryRoom >= Cards!MinSummary
           path == IF both THEN row.path ELSE Cards!Truncate(row.path, room)
           summary == IF both THEN Cards!Truncate(row.summary, summaryRoom) ELSE 0
           used == left + path + (IF both THEN 2 + summary ELSE 0)
<1>3. /\ as.path = path /\ as.summary = summary
      /\ as.columns = used + Cards!Most(2, width - used - row.right) + row.right
    BY DEF Cards!Row
<1> HIDE DEF as
<1>4. /\ column \in Nat
      /\ width >= least => column <= width - row.left - row.right - 16
    BY <1>2 DEF Cards!SourceColumn, Cards!Least, Cards!Most, Cards!UnknownSource, Cards!MinPath
<1> HIDE DEF column, least
<1>5. /\ room \in Nat /\ room >= 12
      /\ width >= least => room = width - left - row.right - 2
    BY <1>2, <1>4 DEF Cards!Most, Cards!MinPath
<1>6. left \in Nat
    BY <1>2, <1>4
<1> HIDE DEF left, room
<1>7. /\ used \in Int /\ path >= Cards!Least(row.path, Cards!MinPath)
      /\ used <= left + room /\ (summary > 0 => path = row.path)
    <2>1. CASE both
        <3>1. path = row.path /\ used = left + row.path + (2 + summary)
            BY <2>1
        <3>2. summary \in Int /\ summary <= summaryRoom
            <4>1. summary = Cards!Truncate(row.summary, summaryRoom) /\ summaryRoom \in Int
                BY <1>2, <1>5, <2>1
            <4>2. row.summary <= summaryRoom \/ summaryRoom >= 8
                BY <2>1 DEF Cards!MinSummary
            <4> HIDE DEF summaryRoom, summary, both
            <4>3. QED
                BY <1>2, <4>1, <4>2 DEF Cards!Truncate, Cards!Most
        <3> HIDE DEF summary, both, path, used
        <3>3. QED
            BY <1>2, <1>5, <1>6, <3>1, <3>2 DEF Cards!Least, Cards!MinPath
    <2>2. CASE ~ both
        <3>1. path = Cards!Truncate(row.path, room) /\ summary = 0 /\ used = left + path + 0
            BY <2>2
        <3> HIDE DEF summary, both, path, used
        <3>2. QED
            BY <1>2, <1>5, <1>6, <3>1 DEF Cards!Truncate, Cards!Most, Cards!Least, Cards!MinPath
    <2>3. QED
        BY <2>1, <2>2
<1> HIDE DEF used, path, summary
<1>8. width >= least => as.columns = width
    BY <1>2, <1>3, <1>5, <1>6, <1>7 DEF Cards!Most
<1>9. Cards!RowsFit
    <2>1. cardDrawn.of = row /\ cardDrawn.width = width /\ cardDrawn.as = as
        BY <1>1 DEF as
    <2>2. QED
        BY <1>3, <1>7, <1>8, <2>1 DEF Cards!RowsFit, least
<1>10. cardDrawn.kind = "row"
    BY <1>1
<1>11. QED
    BY <1>9, <1>10 DEF CardPromises, Cards!TypeOK, Cards!EarlyCutsAreExact,
        Cards!FirstHeadersAreShown, Cards!BoxesAreStraight

\* Boxes: the same.
LEMMA BoxesAreFit ==
    ASSUME Cards!CardsAssumption, limits \in CardLimits, reveal \in BOOLEAN, CardIsBox(cardDrawn)
    PROVE  CardPromises
<1>1. PICK box \in CardBoxes, width \in CardWidths :
          cardDrawn = [kind |-> "box", of |-> box, width |-> width, as |-> Cards!Frame(box, width)]
    BY DEF CardIsBox
<1>2. /\ box.title \in Nat /\ box.label \in Nat /\ box.line \in Nat /\ width \in Nat /\ width > 0
    BY DEF Cards!CardsAssumption
<1> DEFINE as == Cards!Frame(box, width)
           need == box.title + 3 + (IF box.label = 0 THEN 0 ELSE box.label + 2)
           end == IF box.label = 0 THEN 2 ELSE box.label + 4
           inner == Cards!Inner(box, width)
           room == inner - end - 1
           title == Cards!Truncate(box.title, room)
<1>3. as = [title |-> title, top |-> 3 + title + 1 + Cards!Most(0, inner - title - end) + end,
            side |-> 2 + inner + 2, bottom |-> 1 + inner + 2 + 1]
    BY DEF Cards!Frame, Cards!TitleRoom
<1>4. need \in Nat /\ end \in Nat /\ need = box.title + 1 + end
    BY <1>2
<1>5. /\ inner \in Nat /\ inner <= Cards!Most(1, width - 4)
      /\ inner >= Cards!Least(need, Cards!Most(1, width - 4))
    <2> HIDE DEF need
    <2>1. inner = Cards!Least(Cards!Most(Cards!Most(need, box.line), 1), Cards!Most(1, width - 4))
        BY DEF Cards!Inner, Cards!InnerWidth, need
    <2> HIDE DEF inner
    <2>2. QED
        BY <1>2, <1>4, <2>1 DEF Cards!Least, Cards!Most
<1> HIDE DEF need, end, inner
<1>6. title \in Nat
    BY <1>2, <1>4, <1>5 DEF Cards!Truncate, Cards!Most
<1>7. width - 4 >= need => title = box.title
    BY <1>2, <1>4, <1>5 DEF Cards!Truncate, Cards!Most, Cards!Least
<1>8. width >= Cards!Most(5, end + 4) => title + end <= inner /\ 2 + inner + 2 <= width
    BY <1>2, <1>4, <1>5 DEF Cards!Truncate, Cards!Most, Cards!Least
<1> HIDE DEF title, as
<1>9. Cards!BoxesAreStraight
    <2>1. cardDrawn.of = box /\ cardDrawn.width = width /\ cardDrawn.as = as
        BY <1>1 DEF as
    <2>2. /\ as.title = title /\ as.top = 3 + title + 1 + Cards!Most(0, inner - title - end) + end
          /\ as.side = 2 + inner + 2 /\ as.bottom = 1 + inner + 2 + 1
        BY <1>3
    <2>3. width >= Cards!Most(5, end + 4) =>
             as.top = as.side /\ as.bottom = as.side /\ as.side <= width
        BY <1>4, <1>5, <1>6, <1>8, <2>2 DEF Cards!Most
    <2>4. width - 4 >= need => as.title = box.title
        BY <1>7, <2>2
    <2>5. QED
        BY <2>1, <2>3, <2>4 DEF Cards!BoxesAreStraight, need, end
<1>10. cardDrawn.kind = "box"
    BY <1>1
<1>11. QED
    BY <1>9, <1>10 DEF CardPromises, Cards!TypeOK, Cards!EarlyCutsAreExact,
        Cards!FirstHeadersAreShown, Cards!RowsFit

\* Inert text drives nothing.
LEMMA NothingDrives ==
    ASSUME NEW text \in Seq(Inert)
    PROVE  Cards!Range(text) \cap Cards!Controls = {}
<1>1. \A i \in DOMAIN text : text[i] \in Inert
    OBVIOUS
<1>2. QED
    BY <1>1 DEF Cards!Range, Inert

\* Bodies: each line is cut exactly.
LEMMA BodiesAreShown ==
    ASSUME Cards!CardsAssumption, limits \in CardLimits, reveal \in BOOLEAN, CardIsBody(cardDrawn)
    PROVE  CardPromises
<1>1. PICK lines \in Cards!Bodies :
          cardDrawn = [kind |-> "body", of |-> lines, width |-> 0, as |-> Cards!Body(lines)]
    BY DEF CardIsBody
<1>2. PICK n \in 1..MaxCardLines : lines \in [1..n -> CardLines]
    BY DEF Cards!Bodies
<1>3. n \in Nat /\ limits.lines \in Nat /\ limits.chars \in Nat /\ CardLines \subseteq Seq(STRING)
    BY DEF Cards!CardsAssumption
<1>4. lines \in Seq(CardLines) /\ Len(lines) = n
    BY <1>2, <1>3, SequenceOf
<1> DEFINE m == Cards!Limit(Len(lines), limits.lines)
           shown == [i \in 1..m |-> Cards!BodyLine(lines[i])]
<1>5. m \in 0..n
    BY <1>3, <1>4 DEF Cards!Limit
<1>6. cardDrawn.kind = "body" /\ cardDrawn.of = lines /\ cardDrawn.as.shown = shown
    BY <1>1 DEF Cards!Body
<1> HIDE DEF m
<1>7. ASSUME NEW i \in 1..m
      PROVE  /\ lines[i] \in Seq(STRING) /\ shown[i] = Cards!BodyLine(lines[i])
             /\ shown[i] \in Seq(Inert)
    <2>1. lines[i] \in Seq(STRING)
        BY <1>2, <1>3, <1>5
    <2>2. Cards!BodyLine(lines[i]) \in Seq(Inert)
        BY <1>3, <2>1, EarlyCut
    <2>3. QED
        BY <2>1, <2>2
<1>8. DOMAIN shown = 1..m
    OBVIOUS
<1> HIDE DEF shown
<1>9. Cards!TypeOK
    <2>1. \A i \in DOMAIN shown : Cards!Range(shown[i]) \cap Cards!Controls = {}
        BY <1>7, <1>8, NothingDrives
    <2>2. QED
        BY <1>6, <2>1 DEF Cards!TypeOK
<1>10. Cards!EarlyCutsAreExact
    <2>1. ASSUME NEW i \in DOMAIN shown
          PROVE  LET whole == Cards!Sanitize(lines[i])
                 IN  shown[i] =
                       Cards!ExpandTabs(IF limits.chars = 0 \/ Len(whole) <= limits.chars THEN whole
                                        ELSE Append(SubSeq(whole, 1, limits.chars), "dots"))
        BY <1>3, <1>7, <1>8, EarlyCut
    <2>2. QED
        BY <1>6, <2>1 DEF Cards!EarlyCutsAreExact
<1>11. QED
    BY <1>6, <1>9, <1>10 DEF CardPromises, Cards!FirstHeadersAreShown, Cards!RowsFit,
        Cards!BoxesAreStraight

\* Headers: the places shown are the first, and the names in them distinct.
LEMMA HeadersAreShown ==
    ASSUME Cards!CardsAssumption, limits \in CardLimits, reveal \in BOOLEAN, CardIsHeaders(cardDrawn)
    PROVE  CardPromises
<1>1. PICK headers \in Cards!HeaderSets :
          cardDrawn = [kind |-> "headers", of |-> headers, width |-> 0, as |-> Cards!Headers(headers)]
    BY DEF CardIsHeaders
<1>2. PICK names \in SUBSET HeaderNames, value \in CardLines : headers = [h \in names |-> value]
    BY DEF Cards!HeaderSets
<1> DEFINE as == Cards!Headers(headers)
           n == Cardinality(names)
           m == Cards!Limit(n, limits.headers)
           key(i) == Cards!InPlace(names, i)
<1>3. /\ m \in 0..n /\ (limits.headers > 0 => m <= limits.headers)
      /\ DOMAIN as.shown = 1..m /\ Len(as.shown) = m /\ as.omitted = n - m
      /\ \A i \in 1..m :
            /\ as.shown[i][1] = key(i)
            /\ as.shown[i][2] = IF as.shown[i][1].sensitive /\ ~reveal THEN Cards!Hidden
                                ELSE Cards!Value(Cards!Line(value))
    BY <1>2, HeadersShown
<1>4. /\ \A i \in 1..n : key(i) \in names /\ Cards!Before(names, key(i)) = i - 1
      /\ \A h \in names :
            Cards!Before(names, h) + 1 \in 1..n /\ key(Cards!Before(names, h) + 1) = h
      /\ \A h, other \in names :
            Cards!Before(names, h) < Cards!Before(names, other) => h.rank < other.rank
    BY NamesInPlace
<1>5. IsFiniteSet(names) /\ n \in Nat
    BY RankedNames
<1>6. cardDrawn.kind = "headers" /\ cardDrawn.of = headers /\ cardDrawn.as = as
    BY <1>1
<1>7. DOMAIN headers = names
    BY <1>2
<1> HIDE DEF as, n, m, key
<1>8. m \in Nat /\ (\A i \in 1..m : i \in 1..n) /\ m <= n
    BY <1>3, <1>5
<1> DEFINE shown == {as.shown[i][1] : i \in DOMAIN as.shown}
           Rest == names \ shown
<1>9. shown = {key(i) : i \in 1..m}
    BY <1>3
<1>10. IsFiniteSet(shown) /\ Cardinality(shown) = m
    <2>1. \A i, j \in 1..m : key(i) = key(j) => i = j
        <3>1. ASSUME NEW i \in 1..m, NEW j \in 1..m, key(i) = key(j) PROVE i = j
            <4>1. i - 1 = j - 1
                BY <1>4, <1>8, <3>1
            <4>2. QED
                BY <1>8, <4>1
        <3>2. QED
            BY <3>1
    <2> HIDE DEF shown
    <2> DEFINE f == [i \in 1..m |-> key(i)]
    <2>2. f \in [1..m -> shown] /\ \A i \in 1..m : f[i] = key(i)
        BY <1>9
    <2>3. \A k \in shown : \E i \in 1..m : f[i] = k
        BY <1>9, <2>2
    <2> HIDE DEF f
    <2>4. \A i, j \in 1..m : f[i] = f[j] => i = j
        BY <2>1, <2>2
    <2>5. QED
        BY <1>8, <2>2, <2>3, <2>4, CardinalityOfDistinct
<1>11. shown \in SUBSET names
    BY <1>4, <1>8, <1>9
<1> HIDE DEF shown
<1>12. Cardinality(Rest) = n - m
    <2>1. Rest \cup shown = names /\ Rest \cap shown = {} /\ IsFiniteSet(Rest)
        BY <1>5, <1>11, FS_Subset
    <2> HIDE DEF Rest
    <2>2. Cardinality(Rest \cup shown) =
             Cardinality(Rest) + Cardinality(shown) - Cardinality(Rest \cap shown)
        BY <1>10, <2>1, FS_Union
    <2>3. Cardinality(Rest \cap shown) = 0 /\ Cardinality(Rest) \in Nat
        BY <2>1, FS_EmptySet, FS_CardinalityType
    <2>4. QED
        BY <1>5, <1>8, <1>10, <2>1, <2>2, <2>3 DEF n
<1>13. ASSUME NEW h \in shown, NEW other \in Rest PROVE h.rank < other.rank
    <2>1. PICK i \in 1..m : h = key(i)
        BY <1>9
    <2> DEFINE j == Cards!Before(names, other) + 1
    <2>2. j \in 1..n /\ key(j) = other /\ other \in names /\ Cards!Before(names, other) = j - 1
        <3>1. other \in names
            OBVIOUS
        <3>2. j \in 1..n /\ key(j) = other
            BY <1>4, <3>1
        <3>3. Cards!Before(names, key(j)) = j - 1
            BY <1>4, <3>2
        <3> HIDE DEF j
        <3>4. QED
            BY <3>1, <3>2, <3>3
    <2> HIDE DEF j
    <2>3. ~ j \in 1..m
        BY <1>9, <2>2
    <2>4. h \in names /\ Cards!Before(names, h) = i - 1
        BY <1>4, <1>8, <2>1
    <2>5. i - 1 < j - 1
        BY <1>5, <1>8, <2>2, <2>3
    <2>6. QED
        BY <1>4, <2>2, <2>4, <2>5
<1>14. Cards!FirstHeadersAreShown
    <2>1. \A T : Cards!Cardinality(T) = Cardinality(T)
        BY Zenon DEF Cards!Cardinality, Cardinality
    <2>2. /\ Cards!Cardinality(shown) = Len(as.shown) /\ as.omitted = Cards!Cardinality(Rest)
          /\ limits.headers > 0 => Cards!Cardinality(shown) <= limits.headers
        BY <1>3, <1>10, <1>12, <2>1
    <2>3. ~ reveal => \A i \in DOMAIN as.shown :
              as.shown[i][1].sensitive => as.shown[i][2] = Cards!Hidden
        BY <1>3
    <2>4. QED
        BY <1>6, <1>7, <1>13, <2>2, <2>3 DEF Cards!FirstHeadersAreShown, shown, Rest
<1>15. Cards!TypeOK
    <2>1. Cards!Value(Cards!Line(value)) \in Seq(Inert)
        <3>1. value \in Seq(STRING) /\ limits.chars \in Nat
            BY DEF Cards!CardsAssumption
        <3>2. Cards!Line(value) \in Seq(Inert)
            BY <3>1, SanitizeType
        <3>3. "dots" \in Inert
            BY InertRunes
        <3>4. QED
            BY <3>1, <3>2, <3>3, ValueType
    <2>2. Cards!Hidden \in Seq(Inert)
        <3>1. "hidden" \in Inert
            BY InertRunes
        <3>2. QED
            BY <3>1 DEF Cards!Hidden
    <2>3. \A i \in DOMAIN as.shown : as.shown[i][2] \in Seq(Inert)
        BY <1>3, <2>1, <2>2
    <2>4. \A i \in DOMAIN as.shown : Cards!Range(as.shown[i][2]) \cap Cards!Controls = {}
        BY <2>3, NothingDrives
    <2>5. QED
        BY <1>6, <2>4 DEF Cards!TypeOK
<1>16. QED
    BY <1>6, <1>14, <1>15 DEF CardPromises, Cards!EarlyCutsAreExact, Cards!RowsFit,
        Cards!BoxesAreStraight

\* They hold of every card drawn.
LEMMA CardsKept ==
    ASSUME Cards!CardsAssumption
    PROVE  Cards!Spec => []CardPromises
<1>1. CardsInv => CardPromises
    <2> SUFFICES ASSUME CardsInv PROVE CardPromises
        OBVIOUS
    <2>1. CASE cardDrawn = Cards!Nothing
        <3>1. cardDrawn.kind = "nothing"
            BY <2>1 DEF Cards!Nothing
        <3>2. QED
            BY <3>1 DEF CardsInv, CardPromises, Cards!TypeOK, Cards!EarlyCutsAreExact,
                Cards!FirstHeadersAreShown, Cards!RowsFit, Cards!BoxesAreStraight
    <2>2. QED
        BY <2>1, RowsAreFit, BoxesAreFit, BodiesAreShown, HeadersAreShown DEF CardsInv
<1>2. QED
    BY <1>1, CardsInvHolds, PTL

\* Cards and the status line, whatever their lines, limits, names and widths:
\* what is cut is cut to what can be read, and what is counted is counted right.
THEOREM LinesCorrect ==
    ASSUME Cards!CardsAssumption, Status!StatusAssumption
    PROVE  Cards!Spec /\ Status!Spec => []LinesFit
<1>1. CardPromises /\ StatusPromises => LinesFit
    BY DEF CardPromises, StatusPromises, LinesFit
<1>2. QED
    BY <1>1, CardsKept, StatusKept, PTL
=============================================================================
