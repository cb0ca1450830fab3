---------------------------- MODULE AccountProofs ----------------------------
(* For any accounts, projects, sources, arguments and variables: the picker   *)
(* shows its choice, listen joins what was named, and what a command said     *)
(* still holds when the next one starts.                                      *)
EXTENDS Account, FiniteSetTheorems, TLAPS

----------------------------------------------------------------------------
(* The picker.                                                              *)

\* The inductive invariant: SelectionIsShown needs the first row's bound, and
\* that a picker without a size has not scrolled.
PickerInv(P) ==
    /\ candidates \in Seq(P) /\ Len(candidates) > 0
    /\ selected \in 0..(Len(candidates) - 1)
    /\ height \in Nat /\ offset \in Nat
    /\ offset + Rows(height) <= Len(candidates)
    /\ height > 0 => offset <= selected /\ selected < offset + Rows(height)

----------------------------------------------------------------------------

\* Rows is at least one and never more than the list has.
LEMMA RowsFit ==
    ASSUME NEW P, candidates \in Seq(P), Len(candidates) > 0, NEW h \in Nat
    PROVE  Rows(h) \in 1..Len(candidates)
BY DEF Rows, MinOf, MaxOf

\* Before the size is known there is one row.
LEMMA OneRowWithoutSize ==
    ASSUME NEW P, candidates \in Seq(P), Len(candidates) > 0
    PROVE  Rows(0) = 1
<1>1. Len(candidates) \in Nat /\ Len(candidates) > 0  OBVIOUS
<1>2. MaxOf(1, 0 - 4) = 1  BY DEF MaxOf
<1>3. \A n \in Nat : n > 0 => MinOf(n, 1) = 1  BY DEF MinOf
<1>4. QED  BY <1>1, <1>2, <1>3 DEF Rows

\* Scrolling to a row of the list, from any first row in it, shows the row and
\* draws rows of the list only.
LEMMA ScrolledShows ==
    ASSUME NEW P, candidates \in Seq(P), Len(candidates) > 0,
           offset \in Nat, NEW s \in 0..(Len(candidates) - 1), NEW h \in Nat, h > 0
    PROVE  /\ Scrolled(s, h) \in Nat
           /\ Scrolled(s, h) + Rows(h) <= Len(candidates)
           /\ Scrolled(s, h) <= s /\ s < Scrolled(s, h) + Rows(h)
<1>1. Rows(h) \in 1..Len(candidates)  BY RowsFit
<1>2. Len(candidates) \in Nat  OBVIOUS
<1>3. DEFINE R == Rows(h)
             L == Len(candidates)
<1>4. Scrolled(s, h) = MinOf(MinOf(MaxOf(offset, s - R + 1), s), L - R)  BY DEF Scrolled
<1>5. R \in 1..L /\ L \in Nat /\ s \in 0..(L - 1)  BY <1>1, <1>2
<1>6. HIDE DEF R, L
<1>7. QED  BY <1>4, <1>5 DEF MinOf, MaxOf, R, L

\* The keys and the sizes keep the invariant.
LEMMA PickerInvStep ==
    ASSUME NEW P, PickerInv(P), [PickerNext]_pickerVars
    PROVE  PickerInv(P)'
<1>1. ASSUME NEW row \in 0..(Len(candidates) - 1), MoveTo(row)  PROVE PickerInv(P)'
  <2>1. CASE height = 0
    <3>1. offset' = offset /\ selected' = row /\ height' = 0 /\ candidates' = candidates
      BY <1>1, <2>1 DEF MoveTo, Scrolled
    <3>2. Rows(height)' = Rows(height)  BY <3>1, <2>1 DEF Rows
    <3>3. QED  BY <3>1, <3>2, <2>1 DEF PickerInv
  <2>2. CASE height > 0
    <3>1. offset' = Scrolled(row, height) /\ selected' = row /\ UNCHANGED <<candidates, height>>
      BY <1>1 DEF MoveTo
    <3>2. Rows(height)' = Rows(height)  BY <3>1 DEF Rows
    <3>3. /\ Scrolled(row, height) \in Nat
          /\ Scrolled(row, height) + Rows(height) <= Len(candidates)
          /\ Scrolled(row, height) <= row /\ row < Scrolled(row, height) + Rows(height)
      BY <2>2, ScrolledShows DEF PickerInv
    <3>4. QED  BY <3>1, <3>2, <3>3, <2>2 DEF PickerInv
  <2>3. QED  BY <2>1, <2>2 DEF PickerInv
<1>2. CASE Up
  <2>1. (selected - 1 + Len(candidates)) % Len(candidates) \in 0..(Len(candidates) - 1)
    BY DEF PickerInv
  <2>2. QED  BY <1>1, <1>2, <2>1 DEF Up
<1>3. CASE Down
  <2>1. (selected + 1) % Len(candidates) \in 0..(Len(candidates) - 1)  BY DEF PickerInv
  <2>2. QED  BY <1>1, <1>3, <2>1 DEF Down
<1>4. ASSUME NEW h \in Heights, Resize(h)  PROVE PickerInv(P)'
  <2>1. h \in Nat  BY HeightsAssumption
  <2>2. height' = h /\ UNCHANGED <<candidates, selected>> /\ offset' = Scrolled(selected, h)
    BY <1>4 DEF Resize
  <2>3. Rows(height)' = Rows(h)  BY <2>2 DEF Rows
  <2>4. CASE h = 0
    <3>1. offset' = offset  BY <2>2, <2>4 DEF Scrolled
    <3>2. Rows(0) = 1  BY OneRowWithoutSize DEF PickerInv
    <3>3. Rows(height) >= 1  BY RowsFit DEF PickerInv
    <3>4. Rows(height) \in Nat  BY RowsFit DEF PickerInv
    <3>5. QED  BY <2>2, <2>3, <2>4, <3>1, <3>2, <3>3, <3>4 DEF PickerInv
  <2>5. CASE h > 0
    <3>1. /\ Scrolled(selected, h) \in Nat
          /\ Scrolled(selected, h) + Rows(h) <= Len(candidates)
          /\ Scrolled(selected, h) <= selected /\ selected < Scrolled(selected, h) + Rows(h)
      BY <2>1, <2>5, ScrolledShows DEF PickerInv
    <3>2. QED  BY <2>1, <2>2, <2>3, <2>5, <3>1 DEF PickerInv
  <2>6. QED  BY <2>1, <2>4, <2>5
<1>5. CASE UNCHANGED pickerVars
  BY <1>5 DEF pickerVars, PickerInv, Rows
<1>6. QED  BY <1>2, <1>3, <1>4, <1>5 DEF PickerNext

----------------------------------------------------------------------------
(* Sequences.                                                               *)

\* A set of numbers that holds 0 and each one's successor holds them all.
LEMMA SetInduction ==
    ASSUME NEW S \in SUBSET Nat, 0 \in S, \A n \in S : n + 1 \in S
    PROVE  S = Nat
<1> SUFFICES ASSUME NEW n \in Nat, n \notin S PROVE FALSE
    OBVIOUS
<1> DEFINE T == {0..k : k \in Nat \ S}
           R == StrictSubsetOrdering(Nat)
<1>1. T \subseteq FiniteSubsetsOf(Nat) /\ T # {}
    <2>1. \A k \in Nat : IsFiniteSet(0..k) /\ 0..k \subseteq Nat
        BY FS_Interval
    <2>2. QED
        BY <2>1 DEF FiniteSubsetsOf
<1>2. PICK s \in T : \A t \in T : <<t, s>> \notin R
    <2>1. IsWellFoundedOn(R, FiniteSubsetsOf(Nat))
        BY FS_StrictSubsetOrderingWellFounded
    <2> HIDE DEF T, R
    <2>2. QED
        BY <1>1, <2>1, WFMin
<1>3. PICK k \in Nat \ S : s = 0..k
    OBVIOUS
<1>4. k # 0 /\ k - 1 \in Nat \ S
    OBVIOUS
<1>5. 0..(k - 1) \in T
    BY <1>4
<1>6. /\ 0..(k - 1) \in SUBSET Nat /\ 0..k \in SUBSET Nat
      /\ 0..(k - 1) \subseteq 0..k /\ k \in 0..k /\ k \notin 0..(k - 1)
    BY <1>4
<1>7. <<0..(k - 1), 0..k>> \in R
    BY <1>6 DEF StrictSubsetOrdering
<1>8. QED
    BY <1>2, <1>3, <1>5, <1>7

\* A set of numbers has its least.
LEMMA MinIsLeast ==
    ASSUME NEW I \in SUBSET Nat, I # {}
    PROVE  Min(I) \in I
<1> DEFINE Founded == {n \in Nat : (\E j \in I : j <= n) => \E x \in I : \A y \in I : x <= y}
<1>1. 0 \in Founded
    OBVIOUS
<1>2. ASSUME NEW n \in Founded PROVE n + 1 \in Founded
    <2>1. CASE \E j \in I : j <= n
        BY <2>1
    <2>2. CASE \A j \in I : j > n
        BY <2>2
    <2>3. QED
        BY <2>1, <2>2
<1>3. Founded \in SUBSET Nat
    OBVIOUS
<1> HIDE DEF Founded
<1>4. Founded = Nat
    BY <1>1, <1>2, <1>3, SetInduction
<1>5. PICK j \in I : TRUE
    OBVIOUS
<1>6. j \in Founded /\ j <= j
    BY <1>4, <1>5
<1>7. \E x \in I : \A y \in I : x <= y
    BY <1>5, <1>6 DEF Founded
<1>8. QED
    BY <1>7 DEF Min

LEMMA AppendAdds ==
    ASSUME NEW S, NEW s \in Seq(S), NEW e \in S
    PROVE  Append(s, e) \in Seq(S) /\ Range(Append(s, e)) = Range(s) \cup {e}
<1> DEFINE t == Append(s, e)
<1>1. t \in Seq(S) /\ Len(t) = Len(s) + 1 /\ t[Len(s) + 1] = e /\ \A i \in 1..Len(s) : t[i] = s[i]
    OBVIOUS
<1>2. DOMAIN s = 1..Len(s) /\ DOMAIN t = 1..Len(t)
    BY <1>1
<1>3. Range(t) \subseteq Range(s) \cup {e}
    BY <1>1, <1>2 DEF Range
<1>4. e \in Range(t)
    <2>1. Len(s) + 1 \in DOMAIN t
        BY <1>1, <1>2
    <2>2. QED
        BY <1>1, <2>1 DEF Range
<1>5. ASSUME NEW i \in DOMAIN s PROVE s[i] \in Range(t)
    BY <1>1, <1>2, <1>5 DEF Range
<1>6. QED
    BY <1>1, <1>3, <1>4, <1>5 DEF Range

\* What is kept is what was there and is to be kept.
LEMMA KeptKeeps ==
    ASSUME NEW S, NEW s \in Seq(S), NEW keep
    PROVE  Kept(s, keep) \in Seq(S) /\ Range(Kept(s, keep)) = Range(s) \cap keep
<1> DEFINE Next1(q, n) == IF s[n] \in keep THEN Append(q, s[n]) ELSE q
           Solves(g, N) == g = [n \in 0..N |-> IF n = 0 THEN <<>> ELSE Next1(g[n - 1], n)]
           Solved == {N \in Nat : \E g : Solves(g, N)}
<1>1. 0 \in Solved
    <2>1. Solves([n \in 0..0 |-> <<>>], 0)
        OBVIOUS
    <2>2. QED
        BY <2>1
<1>2. ASSUME NEW N \in Solved PROVE N + 1 \in Solved
    <2>1. PICK g : Solves(g, N)
        OBVIOUS
    <2> DEFINE h == [n \in 0..(N + 1) |-> IF n # N + 1 THEN g[n] ELSE Next1(g[N], N + 1)]
    <2> HIDE DEF Next1
    <2>2. ASSUME NEW n \in 0..(N + 1)
          PROVE  h[n] = IF n = 0 THEN <<>> ELSE Next1(h[n - 1], n)
        <3>1. CASE n = N + 1
            BY <3>1
        <3>2. CASE n \in 0..N
            BY <2>1, <3>2
        <3>3. QED
            BY <3>1, <3>2
    <2>3. Solves(h, N + 1)
        BY <2>2
    <2> HIDE DEF Solves, h
    <2>4. QED
        BY <2>3
<1>3. Solved \in SUBSET Nat
    OBVIOUS
<1>4. \E g : Solves(g, Len(s))
    <2> HIDE DEF Solves
    <2>1. 0 \in Solved /\ \A N \in Solved : N + 1 \in Solved
        BY <1>1, <1>2
    <2>2. Solved = Nat
        <3> HIDE DEF Solved
        <3>1. QED
            BY <1>3, <2>1, SetInduction
    <2>3. Len(s) \in Nat
        OBVIOUS
    <2>4. QED
        BY <2>2, <2>3
<1>5. PICK h : Solves(h, Len(s)) /\ Kept(s, keep) = h[Len(s)]
    BY <1>4 DEF Kept
<1> DEFINE Upto(n) == {s[i] : i \in 1..n} \cap keep
           Sound == {n \in Nat : n <= Len(s) => h[n] \in Seq(S) /\ Range(h[n]) = Upto(n)}
<1>6. 0 \in Sound
    <2>1. h[0] = <<>>
        BY <1>5
    <2>2. <<>> \in Seq(S) /\ Range(<<>>) = {} /\ Upto(0) = {}
        BY DEF Range
    <2>3. QED
        BY <2>1, <2>2
<1>7. ASSUME NEW n \in Sound PROVE n + 1 \in Sound
    <2>1. SUFFICES ASSUME n + 1 <= Len(s)
                   PROVE  h[n + 1] \in Seq(S) /\ Range(h[n + 1]) = Upto(n + 1)
        OBVIOUS
    <2>2. n \in Nat /\ n + 1 \in 1..Len(s) /\ s[n + 1] \in S
        BY <2>1
    <2>3. h[n] \in Seq(S) /\ Range(h[n]) = Upto(n)
        BY <2>2
    <2>4. h[n + 1] = Next1(h[n], n + 1)
        <3>1. n + 1 \in 0..Len(s) /\ n + 1 # 0 /\ (n + 1) - 1 = n
            BY <2>2
        <3> HIDE DEF Next1
        <3>2. QED
            BY <1>5, <3>1
    <2>5. {s[i] : i \in 1..(n + 1)} = {s[i] : i \in 1..n} \cup {s[n + 1]}
        <3>1. 1..(n + 1) = 1..n \cup {n + 1}
            BY <2>2
        <3>2. QED
            BY <3>1
    <2>6. CASE s[n + 1] \in keep
        <3>1. h[n + 1] = Append(h[n], s[n + 1])
            BY <2>4, <2>6
        <3>2. h[n + 1] \in Seq(S) /\ Range(h[n + 1]) = Range(h[n]) \cup {s[n + 1]}
            BY <2>2, <2>3, <3>1, AppendAdds
        <3>3. Upto(n + 1) = Upto(n) \cup {s[n + 1]}
            BY <2>5, <2>6
        <3>4. QED
            BY <2>3, <3>2, <3>3
    <2>7. CASE s[n + 1] \notin keep
        <3>1. h[n + 1] = h[n]
            BY <2>4, <2>7
        <3>2. Upto(n + 1) = Upto(n)
            BY <2>5, <2>7
        <3>3. QED
            BY <2>3, <3>1, <3>2
    <2>8. QED
        BY <2>6, <2>7
<1>8. Sound \in SUBSET Nat
    OBVIOUS
<1> HIDE DEF Sound
<1>9. Len(s) \in Sound
    <2>1. Sound = Nat
        BY <1>6, <1>7, <1>8, SetInduction
    <2>2. Len(s) \in Nat
        OBVIOUS
    <2>3. QED
        BY <2>1, <2>2
<1>10. Range(s) = {s[i] : i \in 1..Len(s)}
    BY DEF Range
<1>11. h[Len(s)] \in Seq(S) /\ Range(h[Len(s)]) = Upto(Len(s))
    BY <1>9 DEF Sound
<1>12. QED
    BY <1>5, <1>10, <1>11

----------------------------------------------------------------------------
(* listen's sources.                                                        *)

LEMMA NamedAreFound ==
    ASSUME NEW available, IsSequence(available), NEW names, IsSequence(names),
           Known(available, names)
    PROVE  /\ Named(available, names) \in Seq(Range(available))
           /\ Len(Named(available, names)) = Len(names)
           /\ \A i \in 1..Len(names) : Named(available, names)[i].name = names[i]
<1>1. names \in Seq(Range(names)) /\ available \in Seq(Range(available))
    BY DEF IsSequence
<1>2. ASSUME NEW i \in 1..Len(names)
      PROVE  LET k == SelectInSeq(available, LAMBDA s : s.name = names[i])
             IN  k \in 1..Len(available) /\ available[k].name = names[i]
    <2> DEFINE I == {j \in 1..Len(available) : available[j].name = names[i]}
    <2>1. I \in SUBSET Nat
        OBVIOUS
    <2>2. I # {}
        BY <1>1 DEF Known
    <2>3. SelectInSeq(available, LAMBDA s : s.name = names[i]) = Min(I)
        BY <2>2 DEF SelectInSeq
    <2>4. Min(I) \in I
        <3> HIDE DEF I
        <3>1. QED
            BY <2>1, <2>2, MinIsLeast
    <2>5. QED
        BY <2>3, <2>4
<1>3. \A k \in 1..Len(available) : available[k] \in Range(available)
    BY <1>1 DEF Range
<1>4. Named(available, names) \in [1..Len(names) -> Range(available)]
    BY <1>2, <1>3 DEF Named
<1>5. \A i \in 1..Len(names) : Named(available, names)[i].name = names[i]
    BY <1>2 DEF Named
<1>6. QED
    BY <1>1, <1>4, <1>5

LEMMA SelectedKeeps ==
    ASSUME NEW available, IsSequence(available), NEW names, IsSequence(names),
           Known(available, names)
    PROVE  LET chosen == IF names = <<>> THEN available ELSE Named(available, names)
           IN  /\ Selected(available, names) \in Seq(Range(available))
               /\ Range(Selected(available, names)) = {s \in Range(chosen) : HasRoutes(s)}
               /\ Range(chosen) \subseteq Range(available)
<1> DEFINE chosen == IF names = <<>> THEN available ELSE Named(available, names)
<1>1. chosen \in Seq(Range(available))
    BY NamedAreFound DEF IsSequence
<1>2. Range(chosen) \subseteq Range(available)
    BY <1>1 DEF Range
<1>3. Selected(available, names) = Kept(chosen, {s \in Range(chosen) : HasRoutes(s)})
    BY DEF Selected
<1> HIDE DEF chosen
<1>4. /\ Kept(chosen, {s \in Range(chosen) : HasRoutes(s)}) \in Seq(Range(available))
      /\ Range(Kept(chosen, {s \in Range(chosen) : HasRoutes(s)}))
            = Range(chosen) \cap {s \in Range(chosen) : HasRoutes(s)}
    BY <1>1, KeptKeeps
<1>5. QED
    BY <1>2, <1>3, <1>4 DEF chosen

\* The joined are the shown, whether or not sources were named.
LEMMA JoinsTheShown ==
    ASSUME NEW uid \in Projects, NEW names \in NameLists, Resolves(Sources[uid], names)
    PROVE  LET sources == Selected(Sources[uid], names)
               uids == UIDs(Sources[uid], names)
               Joins(s) == uids = <<>> \/ s.uid \in Range(uids)
           IN  /\ {s \in Range(Sources[uid]) : Joins(s) /\ HasRoutes(s)} = Range(sources)
               /\ Range(sources) # {}
               /\ names # <<>> =>
                     Range(names) = {s.name : s \in Range(sources)} \cup Skipped(Sources[uid], names)
<1> DEFINE available == Sources[uid]
           sources == Selected(available, names)
           uids == UIDs(available, names)
<1>1. IsSequence(available) /\ IsSequence(names) /\ Known(available, names)
    BY AccountAssumption, InputAssumption DEF Resolves
<1>2. /\ sources \in Seq(Range(available)) /\ sources # <<>>
      /\ names = <<>> => Range(sources) = {s \in Range(available) : HasRoutes(s)}
      /\ names # <<>> => Range(sources) = {s \in Range(Named(available, names)) : HasRoutes(s)}
    BY <1>1, SelectedKeeps DEF Resolves
<1>3. Range(sources) # {}
    <2>1. sources[1] \in Range(sources)
        BY <1>2 DEF Range
    <2>2. QED
        BY <2>1
<1>4. CASE names = <<>>
    BY <1>2, <1>3, <1>4 DEF UIDs
<1>5. CASE names # <<>>
    <2> DEFINE named == Named(available, names)
    <2>1. /\ named \in Seq(Range(available)) /\ Len(named) = Len(names)
          /\ \A i \in 1..Len(names) : named[i].name = names[i]
        BY <1>1, NamedAreFound
    <2>2. names \in Seq(Range(names)) /\ DOMAIN names = 1..Len(names) /\ DOMAIN named = 1..Len(names)
        BY <1>1, <2>1 DEF IsSequence
    <2>3. Range(sources) \subseteq Range(available) /\ \A s \in Range(sources) : HasRoutes(s)
        <3>1. Range(sources) \subseteq Range(available)
            BY <1>2 DEF Range
        <3>2. QED
            BY <1>2, <1>5, <3>1
    <2>4. uids = [i \in DOMAIN sources |-> sources[i].uid]
        BY <1>5 DEF UIDs
    <2>5. Range(uids) = {s.uid : s \in Range(sources)}
        <3> HIDE DEF sources
        <3>1. DOMAIN uids = DOMAIN sources
            BY <2>4
        <3>2. QED
            BY <2>4, <3>1 DEF Range
    <2>6. uids # <<>>
        <3>1. 1 \in DOMAIN uids
            BY <1>2, <2>4
        <3>2. QED
            BY <3>1
    <2>7. ASSUME NEW s \in Range(available), NEW t \in Range(available), s.uid = t.uid
          PROVE  s = t
        <3>1. PICK i \in DOMAIN available : s = available[i]
            BY DEF Range
        <3>2. PICK j \in DOMAIN available : t = available[j]
            BY DEF Range
        <3>3. QED
            BY <2>7, <3>1, <3>2, AccountAssumption
    <2>8. {s \in Range(available) : s.uid \in Range(uids) /\ HasRoutes(s)} = Range(sources)
        <3>1. ASSUME NEW s \in Range(available), s.uid \in Range(uids) PROVE s \in Range(sources)
            <4>1. PICK t \in Range(sources) : t.uid = s.uid
                BY <2>5, <3>1
            <4>2. QED
                BY <2>3, <2>7, <4>1
        <3>2. ASSUME NEW s \in Range(sources)
              PROVE  s \in Range(available) /\ s.uid \in Range(uids) /\ HasRoutes(s)
            BY <2>3, <2>5
        <3>3. QED
            BY <3>1, <3>2
    <2>9. Range(names) = {s.name : s \in Range(sources)} \cup Skipped(available, names)
        <3>1. Skipped(available, names)
                = {names[i] : i \in {j \in 1..Len(names) : ~ HasRoutes(named[j])}}
            BY <2>2 DEF Skipped
        <3>2. ASSUME NEW i \in 1..Len(names)
              PROVE  names[i] \in {s.name : s \in Range(sources)} \cup Skipped(available, names)
            <4>1. CASE HasRoutes(named[i])
                <5>1. named[i] \in Range(named)
                    BY <2>2 DEF Range
                <5>2. named[i] \in Range(sources)
                    BY <1>2, <1>5, <4>1, <5>1
                <5>3. QED
                    BY <2>1, <5>2
            <4>2. CASE ~ HasRoutes(named[i])
                BY <3>1, <4>2
            <4>3. QED
                BY <4>1, <4>2
        <3>3. ASSUME NEW s \in Range(sources) PROVE s.name \in Range(names)
            <4>1. s \in Range(named)
                BY <1>2, <1>5
            <4>2. PICK i \in 1..Len(names) : s = named[i]
                BY <2>2, <4>1 DEF Range
            <4>3. QED
                BY <2>1, <2>2, <4>2 DEF Range
        <3>4. Skipped(available, names) \subseteq Range(names)
            BY <2>2, <3>1 DEF Range
        <3>5. ASSUME NEW n \in Range(names)
              PROVE  n \in {s.name : s \in Range(sources)} \cup Skipped(available, names)
            <4>1. PICK i \in 1..Len(names) : n = names[i]
                BY <2>2 DEF Range
            <4>2. QED
                BY <3>2, <4>1
        <3> HIDE DEF sources, named, available
        <3>6. QED
            BY <3>3, <3>4, <3>5
    <2>10. QED
        BY <1>3, <1>5, <2>6, <2>8, <2>9
<1>6. QED
    BY <1>4, <1>5

----------------------------------------------------------------------------
(* project use's candidates.                                                *)

ListedProjects == UNION {Range(Listed[u]) : u \in Users}

LEMMA CandidatesMatch ==
    ASSUME NEW user \in Users, NEW args
    PROVE  /\ Candidates(Listed[user], args) \in Seq(ListedProjects)
           /\ Range(Candidates(Listed[user], args)) =
                 {p \in Range(Listed[user]) : /\ Len(args) >= 1 => p.org = args[1]
                                              /\ Len(args) = 2 => p.name = args[2]}
<1> DEFINE keep == {p \in Range(Listed[user]) : /\ Len(args) >= 1 => p.org = args[1]
                                                /\ Len(args) = 2 => p.name = args[2]}
<1>1. Listed[user] \in Seq(Range(Listed[user]))
    BY AccountAssumption DEF IsSequence
<1>2. Range(Listed[user]) \subseteq ListedProjects
    BY DEF ListedProjects
<1>3. Listed[user] \in Seq(ListedProjects)
    BY <1>1, <1>2
<1>4. Candidates(Listed[user], args) = Kept(Listed[user], keep)
    BY DEF Candidates
<1>5. keep \subseteq Range(Listed[user])
    OBVIOUS
<1> HIDE DEF keep
<1>6. /\ Kept(Listed[user], keep) \in Seq(ListedProjects)
      /\ Range(Kept(Listed[user], keep)) = Range(Listed[user]) \cap keep
    BY <1>3, KeptKeeps
<1>7. QED
    BY <1>4, <1>5, <1>6 DEF keep

\* The saved project's place in a list, or -1.
LEMMA CurrentIsListed ==
    ASSUME NEW found \in Seq(ListedProjects)
    PROVE  SelectInSeq(found, LAMBDA p : p.uid = record.project) - 1 \in -1..(Len(found) - 1)
<1> DEFINE I == {i \in 1..Len(found) : found[i].uid = record.project}
<1>1. I \in SUBSET Nat
    OBVIOUS
<1>2. SelectInSeq(found, LAMBDA p : p.uid = record.project) = IF I # {} THEN Min(I) ELSE 0
    BY DEF SelectInSeq
<1>3. I # {} => Min(I) \in I
    <2> HIDE DEF I
    <2>1. QED
        BY <1>1, MinIsLeast
<1>4. QED
    BY <1>2, <1>3

LEMMA TwoAreSome ==
    ASSUME NEW args, Len(args) = 2
    PROVE  args # <<>> /\ Len(args) # 1
<1>1. Len(<<>>) = 0
    OBVIOUS
<1>2. Len(args) # 1
    OBVIOUS
<1>3. args # <<>>
    BY <1>1
<1>4. QED
    BY <1>2, <1>3

\* A candidate is eligible: with one argument that is no UID of the user's, by its
\* organization's name; with two, alone if it is the only candidate.
LEMMA CandidatesAreEligible ==
    ASSUME NEW user \in Users, NEW args \in Arguments, ~ ByUID(user, args),
           NEW p \in Range(Candidates(Listed[user], args))
    PROVE  p \in Eligible(user, args)
<1> DEFINE Is(field, i) == {q \in Range(Listed[user]) : q[field] = args[i]}
<1>1. args \in Seq(Range(args)) /\ Len(args) <= 2
    BY InputAssumption DEF IsSequence
<1>2. /\ p \in Range(Listed[user])
      /\ Len(args) >= 1 => p.org = args[1]
      /\ Len(args) = 2 => p.name = args[2]
    BY CandidatesMatch
<1>3. CASE args = <<>>
    BY <1>2, <1>3 DEF Eligible
<1>4. CASE Len(args) = 1
    <2>1. Is("uid", 1) = {}
        <3>1. SUFFICES ASSUME NEW q \in Range(Listed[user]), q.uid = args[1] PROVE FALSE
            OBVIOUS
        <3>2. q.uid \in Access[user] /\ Access[user] \subseteq Segments
            BY AccountAssumption DEF Range
        <3>3. QED
            BY <1>4, <3>1, <3>2 DEF ByUID
    <2>2. args # <<>>
        BY <1>4
    <2>3. Eligible(user, args) = Is("org", 1)
        BY <1>4, <2>1, <2>2 DEF Eligible
    <2>4. QED
        BY <1>2, <1>4, <2>3
<1>5. CASE Len(args) = 2
    <2>1. args # <<>> /\ Len(args) # 1
        BY <1>5, TwoAreSome
    <2>2. Eligible(user, args) = Is("org", 1) \cap Is("name", 2)
        BY <1>5, <2>1 DEF Eligible
    <2>3. QED
        BY <1>2, <1>5, <2>2
<1>6. Len(args) \in 0..2 /\ (Len(args) = 0 => args = <<>>)
    <2>1. PICK S : args \in Seq(S)
        BY <1>1
    <2>2. Len(args) \in Nat /\ (Len(args) = 0 => args = <<>>)
        BY <2>1
    <2>3. \A n \in Nat : n <= 2 => n \in 0..2
        OBVIOUS
    <2>4. QED
        BY <1>1, <2>2, <2>3
<1>7. QED
    BY <1>3, <1>4, <1>5, <1>6

LEMMA TheOnlyCandidate ==
    ASSUME NEW user \in Users, NEW args \in Arguments, Len(args) = 2,
           Len(Candidates(Listed[user], args)) = 1
    PROVE  Cardinality(Eligible(user, args)) = 1
<1> DEFINE found == Candidates(Listed[user], args)
<1>1. Range(found) = {found[1]}
    <2>1. DOMAIN found = {1}
        BY CandidatesMatch
    <2>2. QED
        BY <2>1 DEF Range
<1>2. Eligible(user, args) = Range(found)
    <2>1. args # <<>> /\ Len(args) # 1
        BY TwoAreSome
    <2>2. Eligible(user, args) = {p \in Range(Listed[user]) : p.org = args[1]}
                                    \cap {p \in Range(Listed[user]) : p.name = args[2]}
        BY <2>1 DEF Eligible
    <2>3. ASSUME NEW p PROVE p \in Range(found) <=> p \in Eligible(user, args)
        <3>1. p \in Range(found) <=> /\ p \in Range(Listed[user])
                                     /\ Len(args) >= 1 => p.org = args[1]
                                     /\ Len(args) = 2 => p.name = args[2]
            BY CandidatesMatch
        <3> HIDE DEF found
        <3>2. QED
            BY <2>2, <3>1
    <2>4. QED
        BY <2>3
<1>3. QED
    BY <1>1, <1>2, FS_Singleton

----------------------------------------------------------------------------
(* The inductive invariant.                                                 *)

Places == {"idle", "prompting", "reading", "validating", "starting", "polling", "asking",
           "picking", "listening"}

RecordOK ==
    /\ record \in [key : Keys \ {Bad}, project : Projects \cup {NoProject}]
    /\ env \in Environments

\* MessagesAreTrue without the types.
SaidOK ==
    /\ said.key \in Keys /\ said.project \in Projects \cup {NoProject}
    /\ said.kind = "in" => record.key = said.key /\ said.project \in {record.project, NoProject}
    /\ said.kind = "out" => KeyOf(NoFlags) = NoKey
    /\ said.kind = "still signed in" => KeyOf(NoFlags) # NoKey
    /\ said.kind = "project" =>
          /\ record.project = said.project
          /\ \E p \in Eligible(said.key, said.args) : p.uid = said.project
          /\ Len(said.args) = 2 => Cardinality(Eligible(said.key, said.args)) = 1

\* An approved attempt is a user's.
LoginOK ==
    /\ at \in Places
    /\ cancelled \in BOOLEAN /\ asked \in Keys
    /\ echo \in BOOLEAN /\ (~ echo => at = "reading")
    /\ attempt \in [state : {"none", "pending", "approved", "gone"}, user : Keys,
                    project : Projects \cup {NoProject}]
    /\ attempt.state = "approved" => attempt.user \in Users
    /\ left \in 0..MaxTTL /\ tick \in BOOLEAN

\* The picker holds the candidates of the command that opened it, which found no
\* project by its UID.
PickingOK ==
    /\ at # "picking" => candidates = <<>>
    /\ at = "picking" =>
          /\ PickerInv(ListedProjects)
          /\ wanted \in Arguments /\ Len(wanted) < 2
          /\ asked \in Users /\ ~ ByUID(asked, wanted)
          /\ candidates = Candidates(Listed[asked], wanted)

ListeningOK ==
    /\ listening # NotListening => at = "listening"
    /\ JoinsWhatWasNamed

AccountInv == RecordOK /\ SaidOK /\ LoginOK /\ PickingOK /\ ListeningOK

----------------------------------------------------------------------------
(* What ends a command.                                                     *)

\* Notes that claim nothing.
Plain == {"none", "failed", "cancelled", "expired", "login required", "no active project"}

LEMMA ConstantsApart ==
    /\ NoKey \in Keys /\ Bad \in Keys /\ Users \subseteq Keys
    /\ Bad \notin Users /\ NoKey \notin Users /\ NoKey # Bad
    /\ DefaultTTL \in Nat /\ MaxTTL \in Nat /\ Half \in Nat
    /\ DefaultTTL <= MaxTTL /\ MaxTTL < Half
BY LoginAssumption DEF Keys

LEMMA FinishLogs ==
    ASSUME NEW what, Finish(what)
    PROVE  LoginOK' /\ at' = "idle" /\ said' = what
<1>1. /\ at' = "idle" /\ said' = what /\ cancelled' = FALSE /\ asked' = NoKey /\ echo' = TRUE
      /\ attempt' = NoAttempt /\ left' = 0 /\ tick' = FALSE
    BY DEF Finish
<1>2. NoAttempt \in [state : {"none", "pending", "approved", "gone"}, user : Keys,
                     project : Projects \cup {NoProject}]
    BY ConstantsApart DEF NoAttempt
<1>3. NoAttempt.state # "approved"
    BY DEF NoAttempt
<1>4. 0 \in 0..MaxTTL
    BY ConstantsApart
<1>5. QED
    BY <1>1, <1>2, <1>3, <1>4, ConstantsApart DEF LoginOK, Places

LEMMA PlainSays ==
    ASSUME NEW kind \in Plain, said' = Note(kind)
    PROVE  SaidOK'
<1>1. said'.kind = kind /\ said'.key = NoKey /\ said'.project = NoProject
    BY DEF Note
<1>2. kind \notin {"in", "out", "still signed in", "project"}
    BY DEF Plain
<1>3. QED
    BY <1>1, <1>2, ConstantsApart DEF SaidOK

LEMMA SaidStays ==
    ASSUME SaidOK, UNCHANGED <<record, env, said>>
    PROVE  SaidOK'
<1>1. KeyOf(NoFlags)' = KeyOf(NoFlags)
    BY DEF KeyOf
<1>2. QED
    BY <1>1 DEF SaidOK

\* A save and its words: what a failure says claims nothing.
LEMMA SavesAndSays ==
    ASSUME NEW r \in [key : Keys \ {Bad}, project : Projects \cup {NoProject}], NEW what,
           SaveAndSay(r, what), RecordOK, env' = env,
           record' = r /\ said' = what => SaidOK'
    PROVE  RecordOK' /\ SaidOK' /\ LoginOK' /\ at' = "idle"
<1>1. CASE Finish(Note("failed")) /\ UNCHANGED record
    <2>1. SaidOK'
        BY <1>1, FinishLogs, PlainSays DEF Plain
    <2>2. RecordOK'
        BY <1>1 DEF RecordOK
    <2>3. QED
        BY <1>1, <2>1, <2>2, FinishLogs
<1>2. CASE record' = r /\ (Finish(what) \/ Finish(Note("failed")))
    <2>1. RecordOK'
        BY <1>2 DEF RecordOK
    <2>2. SaidOK'
        <3>1. CASE Finish(what)
            BY <1>2, <3>1, FinishLogs
        <3>2. CASE Finish(Note("failed"))
            BY <3>2, FinishLogs, PlainSays DEF Plain
        <3>3. QED
            BY <1>2, <3>1, <3>2
    <2>3. QED
        BY <1>2, <2>1, <2>2, FinishLogs
<1>3. QED
    BY <1>1, <1>2 DEF SaveAndSay

\* A command that ends without a save.
LEMMA EndsPlainly ==
    ASSUME RecordOK, NEW kind \in Plain, Finish(Note(kind)), UNCHANGED <<record, env>>
    PROVE  RecordOK' /\ SaidOK' /\ LoginOK' /\ at' = "idle"
<1>1. RecordOK'
    BY DEF RecordOK
<1>2. QED
    BY <1>1, FinishLogs, PlainSays

LEMMA FailedIsPlain ==
    \E kind \in Plain : Failed = Note(kind)
BY DEF Failed, Plain

\* The picker and listen keep what they hold as long as their command runs.
LEMMA ShellRests ==
    ASSUME PickingOK, ListeningOK, at \notin {"picking", "listening"},
           at' \notin {"picking", "listening"}, UNCHANGED <<pickerVars, listening>>
    PROVE  PickingOK' /\ ListeningOK'
<1>1. PickingOK'
    BY DEF PickingOK, pickerVars
<1>2. listening' = NotListening
    BY DEF ListeningOK
<1>3. NotListening' = NotListening
    BY DEF NotListening
<1>4. QED
    BY <1>1, <1>2, <1>3 DEF ListeningOK, JoinsWhatWasNamed

LEMMA KeysAreTyped ==
    ASSUME RecordOK, NEW flags \in Flags
    PROVE  KeyOf(flags) \in Keys
<1>1. flags.key \in Keys \cup {Unset} /\ env.key \in Keys \cup {Unset} /\ record.key \in Keys
    BY InputAssumption DEF RecordOK
<1>2. QED
    BY <1>1 DEF KeyOf

----------------------------------------------------------------------------
(* login and logout.                                                        *)

LEMMA Validates ==
    ASSUME RecordOK, SaidOK, LoginOK, UNCHANGED env, ValidateKey
    PROVE  RecordOK' /\ SaidOK' /\ LoginOK' /\ at' = "idle"
<1>1. CASE Finish(Failed) /\ UNCHANGED record
    BY <1>1, FailedIsPlain, EndsPlainly
<1>2. ASSUME asked \in Users,
             SaveAndSay([record EXCEPT !.key = asked], [Note("in") EXCEPT !.key = asked])
      PROVE  RecordOK' /\ SaidOK' /\ LoginOK' /\ at' = "idle"
    <2> DEFINE r == [record EXCEPT !.key = asked]
               what == [Note("in") EXCEPT !.key = asked]
    <2>1. r \in [key : Keys \ {Bad}, project : Projects \cup {NoProject}] /\ r.key = asked
        BY <1>2, ConstantsApart DEF RecordOK
    <2>2. what.kind = "in" /\ what.key = asked /\ what.project = NoProject
        BY DEF Note
    <2>3. record' = r /\ said' = what => SaidOK'
        <3> HIDE DEF r, what
        <3>1. QED
            BY <1>2, <2>1, <2>2, ConstantsApart DEF SaidOK
    <2>4. QED
        BY <1>2, <2>1, <2>3, SavesAndSays
<1>3. QED
    BY <1>1, <1>2 DEF ValidateKey

LEMMA Approves ==
    ASSUME RecordOK, SaidOK, LoginOK, UNCHANGED env, Approved
    PROVE  RecordOK' /\ SaidOK' /\ LoginOK' /\ at' = "idle"
<1> DEFINE r == LoginRecord(attempt.user, attempt.project)
           what == [Note("in") EXCEPT !.key = attempt.user, !.project = attempt.project]
<1>1. attempt.user \in Users /\ attempt.project \in Projects \cup {NoProject}
    BY DEF Approved, LoginOK
<1>2. /\ r \in [key : Keys \ {Bad}, project : Projects \cup {NoProject}]
      /\ r.key = attempt.user /\ attempt.project \in {r.project, NoProject}
    BY <1>1, ConstantsApart DEF LoginRecord, RecordOK
<1>3. what.kind = "in" /\ what.key = attempt.user /\ what.project = attempt.project
    BY DEF Note
<1>4. SaveAndSay(r, what)
    BY DEF Approved
<1> HIDE DEF r, what
<1>5. record' = r /\ said' = what => SaidOK'
    BY <1>1, <1>2, <1>3, ConstantsApart DEF SaidOK
<1>6. QED
    BY <1>2, <1>4, <1>5, SavesAndSays

\* A lifetime ends by the cap, even one that wrapped.
LEMMA LifetimeIsCapped ==
    ASSUME NEW expiresIn \in Lifetimes
    PROVE  (IF TTL(expiresIn) < 0 THEN 0 ELSE TTL(expiresIn)) \in 0..MaxTTL
<1>1. expiresIn \in Int /\ MaxTTL \in Nat /\ DefaultTTL \in Nat /\ DefaultTTL <= MaxTTL
      /\ Half \in Nat /\ Half > 0
    BY LoginAssumption
<1>2. Wrapped(expiresIn) \in Int
    BY <1>1 DEF Wrapped
<1>3. TTL(expiresIn) \in Int /\ TTL(expiresIn) <= MaxTTL
    BY <1>1, <1>2 DEF TTL
<1>4. QED
    BY <1>1, <1>3

\* The steps of a login that goes on.
LEMMA LoginGoesOn ==
    ASSUME LoginOK,
           \/ Prompt /\ at' # "idle"
           \/ (\E key \in Keys : ReadKey(key)) /\ at' # "idle"
           \/ StartLogin /\ at' # "idle"
           \/ Tick \/ Poll \/ Pending
           \/ PollFails /\ at' # "idle"
           \/ (\E user \in Users : Approve(user)) \/ Drop
    PROVE  LoginOK' /\ at' \notin {"picking", "listening"} /\ UNCHANGED <<record, said>>
<1> USE DEF LoginOK, Places
<1>1. CASE Prompt /\ at' # "idle"
    <2>1. at' = "reading" /\ echo' \in BOOLEAN
          /\ UNCHANGED <<said, cancelled, record, asked, attempt, left, tick>>
        <3>1. ~ Finish(Failed)
            BY <1>1 DEF Finish
        <3>2. QED
            BY <1>1, <3>1 DEF Prompt, Goto
    <2>2. QED
        BY <2>1
<1>2. CASE (\E key \in Keys : ReadKey(key)) /\ at' # "idle"
    <2>1. PICK key \in Keys : ReadKey(key)
        BY <1>2
    <2>2. at' = "validating" /\ echo' = TRUE /\ asked' = key
          /\ UNCHANGED <<said, cancelled, record, attempt, left, tick>>
        <3>1. ~ Finish(Failed)
            BY <1>2 DEF Finish
        <3>2. QED
            BY <2>1, <3>1 DEF ReadKey, Goto
    <2>3. QED
        BY <2>2
<1>3. CASE StartLogin /\ at' # "idle"
    <2>1. ~ Finish(Failed)
        BY <1>3 DEF Finish
    <2>2. /\ at = "starting" /\ at' = "polling" /\ tick' = FALSE
          /\ attempt' = [NoAttempt EXCEPT !.state = "pending"]
          /\ UNCHANGED <<said, cancelled, record, asked, echo>>
        BY <1>3, <2>1 DEF StartLogin, Goto
    <2>3. left' \in 0..MaxTTL
        BY <1>3, <2>1, LifetimeIsCapped DEF StartLogin
    <2>4. /\ attempt' \in [state : {"none", "pending", "approved", "gone"}, user : Keys,
                           project : Projects \cup {NoProject}]
          /\ attempt'.state = "pending"
        BY <2>2, ConstantsApart DEF NoAttempt
    <2>5. QED
        BY <2>2, <2>3, <2>4
<1>4. CASE Tick
    <2>1. left' \in 0..MaxTTL
        BY <1>4, ConstantsApart DEF Tick
    <2>2. /\ at \in {"polling", "asking"} /\ tick' = TRUE
          /\ UNCHANGED <<record, at, said, cancelled, asked, echo, attempt>>
        BY <1>4 DEF Tick, InBrowserLogin
    <2>3. QED
        BY <2>1, <2>2
<1>5. CASE Poll
    <2>1. at = "polling" /\ at' = "asking" /\ tick' = FALSE
          /\ UNCHANGED <<said, cancelled, record, asked, echo, attempt, left>>
        BY <1>5 DEF Poll, Goto
    <2>2. QED
        BY <2>1
<1>6. ASSUME Goto("polling"), at = "asking", UNCHANGED <<record, loginVars>>
      PROVE  LoginOK' /\ at' \notin {"picking", "listening"} /\ UNCHANGED <<record, said>>
    <2>1. at = "asking" /\ at' = "polling"
          /\ UNCHANGED <<said, cancelled, record, asked, echo, attempt, left, tick>>
        BY <1>6 DEF Goto, loginVars
    <2>2. QED
        BY <2>1
<1>7. CASE Pending
    BY <1>6, <1>7 DEF Pending
<1>8. CASE PollFails /\ at' # "idle"
    <2>1. \A what : ~ Finish(what)
        BY <1>8 DEF Finish
    <2>2. QED
        BY <1>6, <1>8, <2>1 DEF PollFails
<1>9. CASE \E user \in Users : Approve(user)
    <2>1. PICK user \in Users : Approve(user)
        BY <1>9
    <2>2. /\ at \in {"polling", "asking"}
          /\ UNCHANGED <<record, at, said, cancelled, asked, echo, left, tick>>
        BY <2>1 DEF Approve, InBrowserLogin
    <2>3. PICK uid \in Access[user] \cup {NoProject} :
               attempt' = [state |-> "approved", user |-> user, project |-> uid]
        BY <2>1 DEF Approve
    <2>4. uid \in Projects \cup {NoProject}
        BY LoginAssumption
    <2>5. attempt' \in [state : {"none", "pending", "approved", "gone"}, user : Keys,
                        project : Projects \cup {NoProject}]
          /\ attempt'.user \in Users
        BY <2>3, <2>4, ConstantsApart
    <2>6. QED
        BY <2>2, <2>5
<1>10. CASE Drop
    <2>1. /\ at \in {"polling", "asking"} /\ attempt' = [NoAttempt EXCEPT !.state = "gone"]
          /\ UNCHANGED <<record, at, said, cancelled, asked, echo, left, tick>>
        BY <1>10 DEF Drop, InBrowserLogin
    <2>2. attempt' \in [state : {"none", "pending", "approved", "gone"}, user : Keys,
                        project : Projects \cup {NoProject}]
          /\ attempt'.state = "gone"
        BY <2>1, ConstantsApart DEF NoAttempt
    <2>3. QED
        BY <2>1, <2>2
<1>11. QED
    BY <1>1, <1>2, <1>3, <1>4, <1>5, <1>7, <1>8, <1>9, <1>10

LEMMA LoginStops ==
    ASSUME at' = "idle",
           \/ Prompt \/ (\E key \in Keys : ReadKey(key)) \/ StartLogin
           \/ Deadline \/ PollCancelled \/ PollFails
    PROVE  (\E kind \in Plain : Finish(Note(kind))) /\ UNCHANGED record
<1>1. \A place : place # "idle" => ~ Goto(place)
    BY DEF Goto
<1>2. Finish(Failed) => \E kind \in Plain : Finish(Note(kind))
    BY FailedIsPlain
<1>3. {"expired", "cancelled", "failed"} \subseteq Plain
    BY DEF Plain
<1>4. CASE Prompt
    BY <1>1, <1>2, <1>4 DEF Prompt
<1>5. CASE \E key \in Keys : ReadKey(key)
    BY <1>1, <1>2, <1>5 DEF ReadKey
<1>6. CASE StartLogin
    BY <1>1, <1>2, <1>6 DEF StartLogin
<1>7. CASE Deadline \/ PollCancelled
    BY <1>3, <1>7 DEF Deadline, PollCancelled
<1>8. CASE PollFails
    BY <1>1, <1>3, <1>8 DEF PollFails
<1>9. QED
    BY <1>4, <1>5, <1>6, <1>7, <1>8

LEMMA LoginKeeps ==
    ASSUME AccountInv, LoginNext, UNCHANGED shell
    PROVE  AccountInv'
<1>1. at \notin {"picking", "listening"}
    BY DEF LoginNext, Prompt, ReadKey, ValidateKey, StartLogin, Tick, Deadline, PollCancelled, Poll,
           PollFails, Pending, Approved, Approve, Drop, InBrowserLogin
<1>2. UNCHANGED env /\ UNCHANGED <<pickerVars, listening>>
    BY DEF shell
<1>3. RecordOK /\ SaidOK /\ LoginOK /\ PickingOK /\ ListeningOK
    BY DEF AccountInv
<1>4. RecordOK' /\ SaidOK' /\ LoginOK' /\ at' \notin {"picking", "listening"}
    <2>1. CASE ValidateKey
        BY <1>2, <1>3, <2>1, Validates
    <2>2. CASE Approved
        BY <1>2, <1>3, <2>2, Approves
    <2>3. CASE /\ at' = "idle"
               /\ \/ Prompt \/ (\E key \in Keys : ReadKey(key)) \/ StartLogin
                  \/ Deadline \/ PollCancelled \/ PollFails
        BY <1>2, <1>3, <2>3, LoginStops, EndsPlainly
    <2>4. CASE \/ Prompt /\ at' # "idle"
               \/ (\E key \in Keys : ReadKey(key)) /\ at' # "idle"
               \/ StartLogin /\ at' # "idle"
               \/ Tick \/ Poll \/ Pending
               \/ PollFails /\ at' # "idle"
               \/ (\E user \in Users : Approve(user)) \/ Drop
        <3>1. LoginOK' /\ at' \notin {"picking", "listening"} /\ UNCHANGED <<record, said>>
            BY <1>3, <2>4, LoginGoesOn
        <3>2. RecordOK'
            BY <1>2, <1>3, <3>1 DEF RecordOK
        <3>3. SaidOK'
            BY <1>2, <1>3, <3>1, SaidStays
        <3>4. QED
            BY <3>1, <3>2, <3>3
    <2>5. Deadline \/ PollCancelled => at' = "idle"
        BY DEF Deadline, PollCancelled, Finish
    <2>6. QED
        BY <2>1, <2>2, <2>3, <2>4, <2>5 DEF LoginNext
<1>5. QED
    BY <1>1, <1>2, <1>3, <1>4, ShellRests DEF AccountInv

LEMMA LoginCommandKeeps ==
    ASSUME AccountInv, NEW flags \in Flags, NEW interactive \in BOOLEAN,
           LoginCommand(flags, interactive)
    PROVE  AccountInv'
<1>1. at = "idle" /\ UNCHANGED env /\ UNCHANGED <<pickerVars, listening>>
    BY DEF LoginCommand, shell
<1>2. RecordOK /\ SaidOK /\ LoginOK /\ PickingOK /\ ListeningOK
    BY DEF AccountInv
<1>3. CASE Finish(Note("failed")) /\ UNCHANGED record
    <2>1. RecordOK' /\ SaidOK' /\ LoginOK' /\ at' = "idle"
        BY <1>1, <1>2, <1>3, EndsPlainly DEF Plain
    <2>2. QED
        BY <1>1, <1>2, <2>1, ShellRests DEF AccountInv
<1>4. ASSUME at' \in {"starting", "prompting", "validating"}, said' = Note("none"), asked' \in Keys,
             UNCHANGED <<record, cancelled, echo, attempt, left, tick>>
      PROVE  AccountInv'
    <2>1. RecordOK'
        BY <1>1, <1>2, <1>4 DEF RecordOK
    <2>2. SaidOK'
        BY <1>4, PlainSays DEF Plain
    <2>3. LoginOK'
        BY <1>1, <1>2, <1>4 DEF LoginOK, Places
    <2>4. at' \notin {"picking", "listening"}
        BY <1>4
    <2>5. QED
        BY <1>1, <1>2, <2>1, <2>2, <2>3, <2>4, ShellRests DEF AccountInv
<1>5. KeyOf(flags) \in Keys /\ NoKey \in Keys
    BY <1>2, KeysAreTyped, ConstantsApart
<1>6. QED
    BY <1>3, <1>4, <1>5 DEF LoginCommand

LEMMA LogoutKeeps ==
    ASSUME AccountInv, Logout
    PROVE  AccountInv'
<1> DEFINE r == [record EXCEPT !.key = NoKey]
           kind == IF EnvironmentCLIKeyActive THEN "still signed in" ELSE "out"
<1>1. at = "idle" /\ UNCHANGED env /\ UNCHANGED <<pickerVars, listening>>
    BY DEF Logout, shell
<1>2. RecordOK /\ SaidOK /\ LoginOK /\ PickingOK /\ ListeningOK
    BY DEF AccountInv
<1>3. r \in [key : Keys \ {Bad}, project : Projects \cup {NoProject}] /\ r.key = NoKey
    BY <1>2, ConstantsApart DEF RecordOK
<1>4. SaveAndSay(r, Note(kind))
    BY DEF Logout
<1>5. record' = r /\ said' = Note(kind) => SaidOK'
    <2>1. SUFFICES ASSUME record' = r, said' = Note(kind) PROVE SaidOK'
        OBVIOUS
    <2>2. KeyOf(NoFlags)' = IF env.key # Unset THEN env.key ELSE NoKey
        BY <1>1, <1>3, <2>1 DEF KeyOf, NoFlags
    <2>3. said'.kind = kind /\ said'.key = NoKey /\ said'.project = NoProject
        BY <2>1 DEF Note
    <2>4. CASE EnvironmentCLIKeyActive
        BY <2>2, <2>3, <2>4, ConstantsApart DEF SaidOK, EnvironmentCLIKeyActive
    <2>5. CASE ~ EnvironmentCLIKeyActive
        BY <2>2, <2>3, <2>5, ConstantsApart DEF SaidOK, EnvironmentCLIKeyActive
    <2>6. QED
        BY <2>4, <2>5
<1> HIDE DEF r, kind
<1>6. RecordOK' /\ SaidOK' /\ LoginOK' /\ at' = "idle"
    BY <1>1, <1>2, <1>3, <1>4, <1>5, SavesAndSays
<1>7. QED
    BY <1>1, <1>2, <1>6, ShellRests DEF AccountInv

----------------------------------------------------------------------------
(* project use.                                                             *)

LEMMA ListedAreProjects ==
    ASSUME NEW user \in Users, NEW p \in Range(Listed[user])
    PROVE  p.uid \in Access[user] /\ p.uid \in Projects
<1>1. p.uid \in Access[user]
    BY AccountAssumption DEF Range
<1>2. Access[user] \subseteq Projects
    BY LoginAssumption
<1>3. QED
    BY <1>1, <1>2

\* What is saved and said is a choice the arguments leave.
LEMMA PersistsEligible ==
    ASSUME RecordOK, UNCHANGED env, NEW user \in Users, NEW args, NEW uid \in Projects,
           \E p \in Eligible(user, args) : p.uid = uid,
           Len(args) = 2 => Cardinality(Eligible(user, args)) = 1,
           Persist(uid, user, args)
    PROVE  RecordOK' /\ SaidOK' /\ LoginOK' /\ at' = "idle"
<1> DEFINE r == [record EXCEPT !.project = uid]
           what == [kind |-> "project", key |-> user, project |-> uid, args |-> args]
<1>1. CASE Finish(Failed) /\ UNCHANGED record
    BY <1>1, FailedIsPlain, EndsPlainly
<1>2. CASE SaveAndSay(r, what)
    <2>1. r \in [key : Keys \ {Bad}, project : Projects \cup {NoProject}] /\ r.project = uid
        BY DEF RecordOK
    <2>2. /\ what.kind = "project" /\ what.key = user /\ what.project = uid /\ what.args = args
        OBVIOUS
    <2> HIDE DEF r, what
    <2>3. record' = r /\ said' = what => SaidOK'
        BY <2>1, <2>2, ConstantsApart DEF SaidOK
    <2>4. QED
        BY <1>2, <2>1, <2>3, SavesAndSays
<1>3. QED
    BY <1>1, <1>2 DEF Persist

LEMMA PickerOpens ==
    ASSUME NEW found \in Seq(ListedProjects), Len(found) > 0, NEW current \in -1..(Len(found) - 1),
           OpenPicker(found, current)
    PROVE  PickerInv(ListedProjects)'
<1>1. candidates' = found /\ selected' = MaxOf(0, current) /\ offset' = 0 /\ height' = 0
    BY DEF OpenPicker
<1>2. Len(found) \in Nat
    OBVIOUS
<1>3. Rows(height)' = 1
    <2>1. Rows(height)' = MinOf(Len(found), MaxOf(1, 0 - 4))
        BY <1>1 DEF Rows
    <2>2. MaxOf(1, 0 - 4) = 1
        BY DEF MaxOf
    <2>3. \A n \in Nat : n > 0 => MinOf(n, 1) = 1
        BY DEF MinOf
    <2>4. QED
        BY <1>2, <2>1, <2>2, <2>3
<1>4. MaxOf(0, current) \in 0..(Len(found) - 1)
    BY <1>2 DEF MaxOf
<1>5. QED
    BY <1>1, <1>2, <1>3, <1>4 DEF PickerInv

LEMMA UseProjectKeeps ==
    ASSUME AccountInv, NEW flags \in Flags, NEW args \in Arguments, UseProject(flags, args)
    PROVE  AccountInv'
<1>1. at = "idle" /\ UNCHANGED <<env, listening>>
    BY DEF UseProject
<1>2. RecordOK /\ SaidOK /\ LoginOK /\ PickingOK /\ ListeningOK
    BY DEF AccountInv
<1>3. PICK user : user = KeyOf(flags)
    OBVIOUS
<1>4. PICK found : found = Candidates(Listed[user], args)
    OBVIOUS
<1>5. ASSUME RecordOK' /\ SaidOK' /\ LoginOK' /\ at' = "idle", UNCHANGED pickerVars
      PROVE  AccountInv'
    BY <1>1, <1>2, <1>5, ShellRests DEF AccountInv
<1>6. CASE /\ Finish(Note("failed")) \/ Finish(Note("login required"))
           /\ UNCHANGED <<record, pickerVars, wanted>>
    <2>1. RecordOK' /\ SaidOK' /\ LoginOK' /\ at' = "idle"
        BY <1>1, <1>2, <1>6, EndsPlainly DEF Plain
    <2>2. QED
        BY <1>5, <1>6, <2>1
<1>7. CASE /\ user \in Users /\ ByUID(user, args)
           /\ Persist(args[1], user, args)
           /\ UNCHANGED <<pickerVars, wanted>>
    <2>1. Len(args) = 1 /\ args[1] \in Access[user] /\ args # <<>> /\ Len(args) # 2
        <3>1. Len(<<>>) = 0
            OBVIOUS
        <3>2. QED
            BY <1>7, <3>1 DEF ByUID
    <2>2. PICK p \in Range(Listed[user]) : p.uid = args[1]
        BY <1>7, <2>1, AccountAssumption DEF Range
    <2>3. p.uid \in Projects
        BY <1>7, ListedAreProjects
    <2>4. p \in Eligible(user, args)
        BY <2>1, <2>2 DEF Eligible
    <2>5. RecordOK' /\ SaidOK' /\ LoginOK' /\ at' = "idle"
        BY <1>1, <1>2, <1>7, <2>1, <2>2, <2>3, <2>4, PersistsEligible
    <2>6. QED
        BY <1>5, <1>7, <2>5
<1>8. CASE /\ user \in Users /\ ~ ByUID(user, args) /\ Len(found) = 1
           /\ Persist(found[1].uid, user, args)
           /\ UNCHANGED <<pickerVars, wanted>>
    <2>1. found[1] \in Range(found)
        BY <1>4, <1>8, CandidatesMatch DEF Range
    <2>2. found[1] \in Eligible(user, args)
        BY <1>4, <1>8, <2>1, CandidatesAreEligible
    <2>3. found[1] \in Range(Listed[user])
        BY <1>4, <1>8, <2>1, CandidatesMatch
    <2>4. found[1].uid \in Projects
        BY <1>8, <2>3, ListedAreProjects
    <2>5. Len(args) = 2 => Cardinality(Eligible(user, args)) = 1
        BY <1>4, <1>8, TheOnlyCandidate
    <2>6. RecordOK' /\ SaidOK' /\ LoginOK' /\ at' = "idle"
        BY <1>1, <1>2, <1>8, <2>2, <2>4, <2>5, PersistsEligible
    <2>7. QED
        BY <1>5, <1>8, <2>6
<1>9. CASE /\ user \in Users /\ ~ ByUID(user, args) /\ Len(found) > 1 /\ Len(args) < 2
           /\ OpenPicker(found, SelectInSeq(found, LAMBDA p : p.uid = record.project) - 1)
           /\ wanted' = args /\ Goto("picking") /\ asked' = user
           /\ UNCHANGED <<record, echo, attempt, left, tick>>
    <2>1. at' = "picking" /\ UNCHANGED <<said, cancelled>>
        BY <1>9 DEF Goto
    <2>2. RecordOK'
        BY <1>1, <1>2, <1>9 DEF RecordOK
    <2>3. SaidOK'
        BY <1>1, <1>2, <1>9, <2>1, SaidStays
    <2>4. LoginOK'
        BY <1>1, <1>2, <1>9, <2>1, ConstantsApart DEF LoginOK, Places
    <2>5. found \in Seq(ListedProjects)
        BY <1>4, <1>9, CandidatesMatch
    <2>6. PickerInv(ListedProjects)'
        <3>1. SelectInSeq(found, LAMBDA p : p.uid = record.project) - 1 \in -1..(Len(found) - 1)
            BY <2>5, CurrentIsListed
        <3>2. PICK current \in -1..(Len(found) - 1) :
                   current = SelectInSeq(found, LAMBDA p : p.uid = record.project) - 1
            BY <3>1
        <3>3. Len(found) > 0
            BY <1>9, <2>5
        <3>4. OpenPicker(found, current)
            BY <1>9, <3>2
        <3>5. QED
            BY <2>5, <3>2, <3>3, <3>4, PickerOpens
    <2>7. candidates' = found
        BY <1>9 DEF OpenPicker
    <2>8. PickingOK'
        BY <1>4, <1>9, <2>1, <2>6, <2>7 DEF PickingOK, ByUID
    <2>9. ListeningOK'
        BY <1>1, <1>2, <2>1 DEF ListeningOK, JoinsWhatWasNamed, NotListening
    <2>10. QED
        BY <2>2, <2>3, <2>4, <2>8, <2>9 DEF AccountInv
<1>10. QED
    BY <1>3, <1>4, <1>6, <1>7, <1>8, <1>9 DEF UseProject

\* The picker closes with its command.
LEMMA PickerCloses ==
    ASSUME ClosePicker, at' = "idle", listening' = NotListening
    PROVE  PickingOK' /\ ListeningOK'
<1>1. NotListening' = NotListening
    BY DEF NotListening
<1>2. QED
    BY <1>1 DEF ClosePicker, PickingOK, ListeningOK, JoinsWhatWasNamed

LEMMA PickKeeps ==
    ASSUME AccountInv, Pick \/ PickNothing
    PROVE  AccountInv'
<1>1. at = "picking" /\ ClosePicker /\ UNCHANGED <<env, listening>>
    BY DEF Pick, PickNothing
<1>2. RecordOK /\ SaidOK /\ LoginOK /\ PickingOK /\ ListeningOK
    BY DEF AccountInv
<1>3. listening' = NotListening
    BY <1>1, <1>2 DEF ListeningOK
<1>4. CASE Pick
    <2>1. PICK chosen : chosen = candidates[selected + 1]
        OBVIOUS
    <2>2. PICK user \in Users : user = asked
        BY <1>1, <1>2 DEF PickingOK
    <2>3. PICK args \in Arguments : args = wanted
        BY <1>1, <1>2 DEF PickingOK
    <2>4. chosen \in Range(candidates)
        BY <1>1, <1>2, <2>1 DEF PickingOK, PickerInv, Range
    <2>5. candidates = Candidates(Listed[user], args) /\ ~ ByUID(user, args) /\ Len(args) < 2
        BY <1>1, <1>2, <2>2, <2>3 DEF PickingOK
    <2>6. chosen \in Range(Listed[user])
        BY <2>4, <2>5, CandidatesMatch
    <2>7. chosen \in Eligible(user, args)
        BY <2>4, <2>5, CandidatesAreEligible
    <2>8. chosen.uid \in Projects /\ Len(args) # 2
        BY <2>5, <2>6, ListedAreProjects
    <2>9. Persist(chosen.uid, user, args)
        BY <1>4, <2>1, <2>2, <2>3 DEF Pick
    <2>10. RecordOK' /\ SaidOK' /\ LoginOK' /\ at' = "idle"
        BY <1>1, <1>2, <2>7, <2>8, <2>9, PersistsEligible
    <2>11. QED
        BY <1>1, <1>3, <2>10, PickerCloses DEF AccountInv
<1>5. CASE PickNothing
    <2>1. Finish(Note("cancelled")) /\ UNCHANGED <<record, env>>
        BY <1>5 DEF PickNothing
    <2>2. RecordOK' /\ SaidOK' /\ LoginOK' /\ at' = "idle"
        BY <1>2, <2>1, EndsPlainly DEF Plain
    <2>3. QED
        BY <1>1, <1>3, <2>2, PickerCloses DEF AccountInv
<1>6. QED
    BY <1>4, <1>5

\* The keys and the sizes leave the candidates alone.
LEMMA PickerKeeps ==
    ASSUME AccountInv, at = "picking", PickerNext,
           UNCHANGED <<record, at, said, cancelled, loginVars, env, wanted, listening>>
    PROVE  AccountInv'
<1>1. RecordOK /\ SaidOK /\ LoginOK /\ PickingOK /\ ListeningOK
    BY DEF AccountInv
<1>2. UNCHANGED <<record, env>> /\ UNCHANGED said /\ UNCHANGED <<at, cancelled, wanted, listening>>
      /\ UNCHANGED <<asked, echo, attempt, left, tick>>
    BY DEF loginVars
<1>3. candidates' = candidates
    BY DEF PickerNext, Up, Down, Resize, MoveTo
<1>4. PickerInv(ListedProjects)
    BY <1>1 DEF PickingOK
<1>5. PickerInv(ListedProjects)'
    BY <1>4, PickerInvStep
<1>6. PickingOK'
    BY <1>1, <1>2, <1>3, <1>5 DEF PickingOK, ByUID
<1>7. RecordOK'
    BY <1>1, <1>2 DEF RecordOK
<1>8. SaidOK'
    BY <1>1, <1>2, SaidStays
<1>9. LoginOK'
    BY <1>1, <1>2 DEF LoginOK, Places
<1>10. ListeningOK'
    BY <1>1, <1>2 DEF ListeningOK, JoinsWhatWasNamed, NotListening
<1>11. QED
    BY <1>6, <1>7, <1>8, <1>9, <1>10 DEF AccountInv

----------------------------------------------------------------------------
(* listen and the rest.                                                     *)

LEMMA ListenKeeps ==
    ASSUME AccountInv, NEW flags \in Flags, NEW names \in NameLists, Listen(flags, names)
    PROVE  AccountInv'
<1>1. at = "idle" /\ UNCHANGED <<record, env>> /\ UNCHANGED pickerVars
    BY DEF Listen
<1>2. RecordOK /\ SaidOK /\ LoginOK /\ PickingOK /\ ListeningOK
    BY DEF AccountInv
<1>3. PICK uid : uid = ProjectOf(flags)
    OBVIOUS
<1>4. PICK key : key = KeyOf(flags)
    OBVIOUS
<1>5. CASE /\ Finish(Note("failed")) \/ Finish(Note("login required"))
              \/ Finish(Note("no active project"))
           /\ UNCHANGED listening
    <2>1. RecordOK' /\ SaidOK' /\ LoginOK' /\ at' = "idle"
        BY <1>1, <1>2, <1>5, EndsPlainly DEF Plain
    <2>2. QED
        BY <1>1, <1>2, <1>5, <2>1, ShellRests DEF AccountInv
<1>6. CASE /\ uid \in Projects /\ Resolves(Sources[uid], names)
           /\ Goto("listening")
           /\ listening' = [key |-> key, project |-> uid, names |-> names,
                            sources |-> Selected(Sources[uid], names),
                            uids |-> UIDs(Sources[uid], names),
                            skipped |-> Skipped(Sources[uid], names)]
           /\ UNCHANGED loginVars
    <2>1. at' = "listening" /\ UNCHANGED <<said, cancelled>>
          /\ UNCHANGED <<asked, echo, attempt, left, tick>>
        BY <1>6 DEF Goto, loginVars
    <2>2. RecordOK'
        BY <1>1, <1>2 DEF RecordOK
    <2>3. SaidOK'
        BY <1>1, <1>2, <2>1, SaidStays
    <2>4. LoginOK'
        BY <1>1, <1>2, <2>1 DEF LoginOK, Places
    <2>5. PickingOK'
        BY <1>1, <1>2, <2>1 DEF PickingOK, pickerVars
    <2>6. /\ listening'.project = uid /\ listening'.names = names
          /\ listening'.sources = Selected(Sources[uid], names)
          /\ listening'.uids = UIDs(Sources[uid], names)
          /\ listening'.skipped = Skipped(Sources[uid], names)
        BY <1>6
    <2>7. ListeningOK'
        BY <1>6, <2>1, <2>6, JoinsTheShown DEF ListeningOK, JoinsWhatWasNamed
    <2>8. QED
        BY <2>2, <2>3, <2>4, <2>5, <2>7 DEF AccountInv
<1>7. QED
    BY <1>3, <1>4, <1>5, <1>6 DEF Listen

LEMMA HangupKeeps ==
    ASSUME AccountInv, Hangup
    PROVE  AccountInv'
<1>1. RecordOK /\ PickingOK
    BY DEF AccountInv
<1>2. at = "listening" /\ Finish(Note("none")) /\ listening' = NotListening
      /\ UNCHANGED <<record, env>> /\ UNCHANGED pickerVars
    BY DEF Hangup
<1>3. RecordOK' /\ SaidOK' /\ LoginOK' /\ at' = "idle"
    BY <1>1, <1>2, EndsPlainly DEF Plain
<1>4. PickingOK'
    BY <1>1, <1>2, <1>3 DEF PickingOK, pickerVars
<1>5. ListeningOK'
    BY <1>2, <1>3 DEF ListeningOK, JoinsWhatWasNamed, NotListening
<1>6. QED
    BY <1>3, <1>4, <1>5 DEF AccountInv

LEMMA CancelKeeps ==
    ASSUME AccountInv, Cancel
    PROVE  AccountInv'
<1>1. RecordOK /\ SaidOK /\ LoginOK /\ PickingOK /\ ListeningOK
    BY DEF AccountInv
<1>2. cancelled' = TRUE /\ UNCHANGED <<record, env>> /\ UNCHANGED said
      /\ UNCHANGED <<at, wanted, listening>> /\ UNCHANGED <<asked, echo, attempt, left, tick>>
      /\ UNCHANGED <<candidates, selected, offset, height>>
    BY DEF Cancel, loginVars, shell, pickerVars
<1>3. RecordOK'
    BY <1>1, <1>2 DEF RecordOK
<1>4. SaidOK'
    BY <1>1, <1>2, SaidStays
<1>5. LoginOK'
    BY <1>1, <1>2 DEF LoginOK, Places
<1>6. PickingOK'
    BY <1>1, <1>2 DEF PickingOK, PickerInv, Rows, ByUID
<1>7. ListeningOK'
    BY <1>1, <1>2 DEF ListeningOK, JoinsWhatWasNamed, NotListening
<1>8. QED
    BY <1>3, <1>4, <1>5, <1>6, <1>7 DEF AccountInv

LEMMA ExportKeeps ==
    ASSUME AccountInv, Export
    PROVE  AccountInv'
<1>1. RecordOK /\ SaidOK /\ LoginOK /\ PickingOK /\ ListeningOK
    BY DEF AccountInv
<1>2. at = "idle" /\ env' \in Environments /\ said' = Note("none")
      /\ UNCHANGED <<record, at, cancelled>> /\ UNCHANGED <<pickerVars, listening>>
      /\ UNCHANGED <<asked, echo, attempt, left, tick>>
    BY DEF Export, loginVars
<1>3. RecordOK'
    BY <1>1, <1>2 DEF RecordOK
<1>4. SaidOK'
    BY <1>2, PlainSays DEF Plain
<1>5. LoginOK'
    BY <1>1, <1>2 DEF LoginOK, Places
<1>6. PickingOK' /\ ListeningOK'
    BY <1>1, <1>2, ShellRests
<1>7. QED
    BY <1>3, <1>4, <1>5, <1>6 DEF AccountInv

LEMMA AccountInit ==
    ASSUME Init
    PROVE  AccountInv
<1>1. record.key = NoKey /\ record \in [key : Keys \ {Bad}, project : Projects \cup {NoProject}]
      /\ env \in Environments
    BY ConstantsApart DEF Init
<1>2. said.kind = "none" /\ said.key = NoKey /\ said.project = NoProject
    BY DEF Init, Note
<1>3. SaidOK
    BY <1>2, ConstantsApart DEF SaidOK
<1>4. NoAttempt \in [state : {"none", "pending", "approved", "gone"}, user : Keys,
                     project : Projects \cup {NoProject}]
      /\ NoAttempt.state # "approved"
    BY ConstantsApart DEF NoAttempt
<1>5. LoginOK
    <2>1. /\ at = "idle" /\ cancelled = FALSE /\ asked = NoKey /\ echo = TRUE
          /\ attempt = NoAttempt /\ left = 0 /\ tick = FALSE
        BY DEF Init
    <2>2. 0 \in 0..MaxTTL
        BY ConstantsApart
    <2>3. QED
        BY <1>4, <2>1, <2>2, ConstantsApart DEF LoginOK, Places
<1>6. PickingOK /\ ListeningOK
    BY DEF Init, Closed, PickingOK, ListeningOK, JoinsWhatWasNamed
<1>7. QED
    BY <1>1, <1>3, <1>5, <1>6 DEF AccountInv, RecordOK

LEMMA AccountStep ==
    ASSUME AccountInv, [Next]_vars
    PROVE  AccountInv'
<1>1. CASE UNCHANGED vars
    <2>1. RecordOK /\ SaidOK /\ LoginOK /\ PickingOK /\ ListeningOK
        BY DEF AccountInv
    <2>2. UNCHANGED <<record, env>> /\ UNCHANGED said /\ UNCHANGED <<at, cancelled, wanted, listening>>
          /\ UNCHANGED <<asked, echo, attempt, left, tick>>
          /\ UNCHANGED <<candidates, selected, offset, height>>
        BY <1>1 DEF vars, loginVars, pickerVars
    <2>3. RecordOK'
        BY <2>1, <2>2 DEF RecordOK
    <2>4. SaidOK'
        BY <2>1, <2>2, SaidStays
    <2>5. LoginOK'
        BY <2>1, <2>2 DEF LoginOK, Places
    <2>6. PickingOK'
        BY <2>1, <2>2 DEF PickingOK, PickerInv, Rows, ByUID
    <2>7. ListeningOK'
        BY <2>1, <2>2 DEF ListeningOK, JoinsWhatWasNamed, NotListening
    <2>8. QED
        BY <2>3, <2>4, <2>5, <2>6, <2>7 DEF AccountInv
<1>2. QED
    BY <1>1, LoginCommandKeeps, LogoutKeeps, UseProjectKeeps, ListenKeeps, LoginKeeps, PickerKeeps,
       PickKeeps, HangupKeeps, CancelKeeps, ExportKeeps DEF Next

LEMMA AccountInvariance == Spec => []AccountInv
<1>1. Init => AccountInv
    BY AccountInit
<1>2. AccountInv /\ [Next]_vars => AccountInv'
    BY AccountStep
<1>3. QED
    BY <1>1, <1>2, PTL DEF Spec

----------------------------------------------------------------------------

\* What the last command said still holds when the next one starts: the account
\* and the project are the saved ones, a logout left no key or said why one
\* remains, the project set is a choice the arguments leave, and a key Hookspot
\* refused is never saved.
THEOREM MessagesCorrect == Spec => []MessagesAreTrue
<1>1. AccountInv => MessagesAreTrue
    <2>1. SUFFICES ASSUME AccountInv PROVE MessagesAreTrue
        OBVIOUS
    <2>2. RecordOK /\ SaidOK /\ LoginOK /\ PickingOK /\ ListeningOK
        BY <2>1 DEF AccountInv
    <2>3. record.key # Bad /\ record \in [key : Keys, project : Projects \cup {NoProject}]
        BY <2>2 DEF RecordOK
    <2>4. candidates # <<>> <=> at = "picking"
        BY <2>2 DEF PickingOK, PickerInv
    <2>5. TypeOK
        BY <2>2, <2>3, <2>4 DEF TypeOK, RecordOK, SaidOK, LoginOK, ListeningOK, Places
    <2>6. QED
        BY <2>2, <2>3, <2>5 DEF MessagesAreTrue, SaidOK
<1>2. QED
    BY <1>1, AccountInvariance, PTL

\* listen joins exactly the sources it shows, every source only when none was
\* named, and a named one is joined or reported as skipped.
THEOREM JoinsCorrect == Spec => []JoinsWhatWasNamed
<1>1. AccountInv => JoinsWhatWasNamed
    BY DEF AccountInv, ListeningOK
<1>2. QED
    BY <1>1, AccountInvariance, PTL

\* What enter would choose is drawn: for any projects and any terminal, the rows
\* View draws are rows of the list, and hold the selection.
THEOREM SelectionCorrect == Spec => []SelectionIsShown
<1>1. AccountInv => SelectionIsShown
    <2>1. SUFFICES ASSUME AccountInv, candidates # <<>> PROVE SelectionIsShown
        BY DEF SelectionIsShown
    <2>2. PickerInv(ListedProjects)
        BY <2>1 DEF AccountInv, PickingOK
    <2>3. Rows(height) \in 1..Len(candidates)
        BY <2>2, RowsFit DEF PickerInv
    <2>4. QED
        BY <2>2, <2>3 DEF PickerInv, SelectionIsShown, Window
<1>2. QED
    BY <1>1, AccountInvariance, PTL

=============================================================================
