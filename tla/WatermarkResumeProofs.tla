------------------------ MODULE WatermarkResumeProofs ------------------------
(***************************************************************************)
(* Proofs about WatermarkResume for every number of sessions, rows and     *)
(* bars: what the watermark is worth, with crashes and without.            *)
(***************************************************************************)
EXTENDS WatermarkResume, TLAPS, WellFoundedInduction

(* Counting once more.                                                     *)
LEMMA MoreType ==
    ASSUME NEW S, NEW f \in [S -> Often], NEW x \in S
    PROVE  /\ More(f, x) \in [S -> Often] /\ More(f, x)[x] >= 1
           /\ f[x] = 0 => More(f, x)[x] = 1
           /\ \A y \in S : y # x => More(f, x)[y] = f[y]
BY DEF More, Often

(* Bars are typed keys; counting a bar keeps the type.                     *)
LEMMA SeenStep ==
    ASSUME MarksWorked, Next PROVE seen' \in [Bars -> Often]
<1>1. [b \in Bars |-> 0] \in [Bars -> Often]
  BY DEF Often
<1>2. CASE Crash \/ Exit
  BY <1>1, <1>2 DEF Crash, Exit, GoesDown
<1>3. ASSUME NEW r \in csv, CloseBoundary(r) PROVE seen' \in [Bars -> Often]
  <2>1. CASE seen' = seen
    BY <2>1 DEF MarksWorked
  <2>2. CASE seen' # seen
    <3>1. seen' = More(seen, Max(Complete(closing)))
      BY <1>3, <2>2 DEF CloseBoundary
    <3>2. seen \in [Bars -> Often]
      BY DEF MarksWorked
    <3>3. CASE Max(Complete(closing)) \in Bars
      BY <3>1, <3>2, <3>3, MoreType
    <3>4. CASE Max(Complete(closing)) \notin Bars
      BY <3>1, <3>2, <3>4 DEF More
    <3> QED BY <3>3, <3>4
  <2> QED BY <2>1, <2>2
<1>4. CASE Start
  BY <1>4 DEF Start, MarksWorked
<1> QED BY <1>2, <1>3, <1>4
        DEF Next, CsvGrows, ReadOld, EndSession, Trade, SaveMark, Finalize, memory, MarksWorked

(* The step that works on a row.                                           *)
LEMMA TradeStep ==
    ASSUME MarksWorked, NEW r \in csv, Trade(r)
    PROVE  /\ IsNext(r) /\ r \in Rows /\ UNCHANGED <<csv, watermark, disk, seen>>
           /\ cursor' = r /\ wmTs' = r /\ stage' = "row"
           /\ traded' \in [Rows -> Often] /\ traded'[r] >= 1
           /\ traded[r] = 0 => traded'[r] = 1
           /\ \A t \in Rows : t # r => traded'[t] = traded[t]
<1>1. r \in Rows /\ traded' = More(traded, r) /\ traded \in [Rows -> Often]
  BY DEF MarksWorked, Trade
<1> QED BY <1>1, MoreType DEF Trade, Arrives, InHand

LEMMA MarksWorkedStep ==
    ASSUME MarksWorked, Next PROVE MarksWorked'
<1> USE RowsAssumption
<1>0. seen' \in [Bars -> Often]
  BY SeenStep
<1>1. ASSUME UNCHANGED <<csv, traded>>,
             disk' \in [mark : {None} \cup Rows, seen : [Bars -> Often]],
             Worked(disk'.mark), Worked(watermark'), Worked(wmTs'), Worked(cursor')
      PROVE  MarksWorked'
  BY <1>0, <1>1 DEF MarksWorked, Worked
<1>2. ASSUME NEW t \in Rows, CsvGrows(t) PROVE MarksWorked'
  <2>1. /\ csv' = csv \cup {t} /\ \A u \in csv : u < t
        /\ UNCHANGED <<memory, disk, traded>>
    BY <1>2 DEF CsvGrows
  <2>2. csv \subseteq Int /\ t \in Int
    BY DEF MarksWorked, Rows
  <2>3. ASSUME NEW m, Worked(m) PROVE m # None => m \in csv' /\ \A u \in csv' : u <= m => traded[u] >= 1
    <3> SUFFICES ASSUME m # None
                 PROVE  m \in csv' /\ \A u \in csv' : u <= m => traded[u] >= 1
      OBVIOUS
    <3>1. m \in csv /\ \A u \in csv : u <= m => traded[u] >= 1
      BY <2>3 DEF Worked
    <3>2. m < t /\ m \in Int
      BY <2>1, <2>2, <3>1
    <3>3. ~(t <= m)
      BY <2>2, <3>2
    <3> QED BY <2>1, <3>1, <3>3
  <2> QED BY <1>0, <2>1, <2>3 DEF MarksWorked, Worked, memory
<1>3. CASE Start
  BY <1>1, <1>3 DEF Start, MarksWorked
<1>4. CASE Crash
  BY <1>1, <1>4 DEF Crash, GoesDown, MarksWorked, Worked
<1>5. CASE Exit
  <2>1. disk' = [disk EXCEPT !.mark = wmTs] /\ wmTs \in {None} \cup Rows
    BY <1>5 DEF Exit, MarksWorked, Worked
  <2>2. disk' \in [mark : {None} \cup Rows, seen : [Bars -> Often]] /\ disk'.mark = wmTs
    BY <2>1 DEF MarksWorked
  <2> QED BY <1>1, <1>5, <2>2 DEF Exit, GoesDown, MarksWorked, Worked
<1>6. CASE SaveMark
  <2>1. disk' = [disk EXCEPT !.mark = wmTs] /\ wmTs \in {None} \cup Rows
    BY <1>6 DEF SaveMark, MarksWorked, Worked
  <2>2. disk' \in [mark : {None} \cup Rows, seen : [Bars -> Often]] /\ disk'.mark = wmTs
    BY <2>1 DEF MarksWorked
  <2> QED BY <1>1, <1>6, <2>2 DEF SaveMark, memory, MarksWorked
<1>7. ASSUME disk' = [disk EXCEPT !.seen = seen], UNCHANGED <<csv, memory, traded>>
      PROVE  MarksWorked'
  <2>1. disk' \in [mark : {None} \cup Rows, seen : [Bars -> Often]] /\ disk'.mark = disk.mark
    BY <1>7 DEF MarksWorked
  <2> QED BY <1>1, <1>7, <2>1 DEF memory, MarksWorked
<1>8. CASE Finalize \/ \E r \in csv : EndSession(r)
  BY <1>7, <1>8 DEF Finalize, EndSession
<1>9. ASSUME NEW r \in csv, CloseBoundary(r) PROVE MarksWorked'
  BY <1>1, <1>9 DEF CloseBoundary, MarksWorked
<1>10. ASSUME NEW r \in csv, ReadOld(r) PROVE MarksWorked'
  <2>1. Worked(r)
    <3>1. watermark # None /\ r <= watermark /\ watermark \in csv /\ csv \subseteq Int
      BY <1>10 DEF ReadOld, IsOld, MarksWorked, Worked, Rows
    <3> QED BY <3>1 DEF MarksWorked, Worked
  <2> QED BY <1>1, <1>10, <2>1 DEF ReadOld, MarksWorked
<1>11. ASSUME NEW r \in csv, Trade(r) PROVE MarksWorked'
  <2>1. /\ IsNext(r) /\ r \in Rows /\ UNCHANGED <<csv, watermark, disk>>
        /\ cursor' = r /\ wmTs' = r /\ traded' \in [Rows -> Often] /\ traded'[r] >= 1
        /\ \A t \in Rows : t # r => traded'[t] = traded[t]
    BY <1>11, TradeStep
  <2>2. csv \subseteq Rows /\ csv \subseteq Int
    BY DEF MarksWorked, Rows
  <2>3. ASSUME NEW t \in csv, traded[t] >= 1 \/ t <= r PROVE traded'[t] >= 1
    <3>1. CASE t = r
      BY <2>1, <3>1
    <3>2. CASE t # r /\ t <= r
      <4>1. t \notin Ahead
        BY <2>1, <2>2, <3>2 DEF IsNext
      <4>2. cursor # None /\ t <= cursor
        <5>1. cursor # None => cursor \in Int
          BY <2>2 DEF MarksWorked, Worked
        <5> QED BY <2>2, <4>1, <5>1 DEF Ahead
      <4> QED BY <2>1, <2>2, <3>2, <4>2 DEF MarksWorked, Worked
    <3>3. CASE t # r /\ traded[t] >= 1
      BY <2>1, <2>2, <3>3
    <3> QED BY <2>3, <3>1, <3>2, <3>3
  <2>4. ASSUME NEW m, Worked(m) PROVE m # None => m \in csv /\ \A u \in csv : u <= m => traded'[u] >= 1
    BY <2>3, <2>4 DEF Worked
  <2> QED BY <1>0, <2>1, <2>3, <2>4 DEF MarksWorked, Worked
<1> QED BY <1>2, <1>3, <1>4, <1>5, <1>6, <1>8, <1>9, <1>10, <1>11 DEF Next

-----------------------------------------------------------------------------
(* Without crashes.                                                        *)

LEMMA NothingAheadStep ==
    ASSUME MarksWorked, ~crashed => NothingAhead, RowsTradedOnce, Next
    PROVE  (~crashed' => NothingAhead') /\ RowsTradedOnce'
<1> USE RowsAssumption
<1> SUFFICES ASSUME ~crashed' PROVE NothingAhead' /\ RowsTradedOnce'
  BY DEF RowsTradedOnce
<1>c. ~crashed /\ ~Crash /\ NothingAhead
  BY DEF Next, CsvGrows, Start, Crash, ReadOld, CloseBoundary, EndSession, Trade, SaveMark,
         Finalize, Exit
<1> USE <1>c
<1>a. csv \subseteq Rows
  BY DEF MarksWorked
<1>b. Rows \subseteq Int
  BY DEF Rows
<1>0. /\ csv \subseteq Rows /\ Rows \subseteq Int
      /\ wmTs # None => wmTs \in Int
      /\ watermark # None => watermark \in Int
      /\ disk.mark # None => disk.mark \in Int
      /\ cursor # None => cursor \in Int
  BY <1>a, <1>b DEF MarksWorked, Worked
<1>1. CASE \E t \in Rows : CsvGrows(t)
  BY <1>1 DEF CsvGrows, memory, NothingAhead, RowsTradedOnce
<1>2. CASE Start
  BY <1>2 DEF Start, NothingAhead, RowsTradedOnce
<1>3. CASE Exit
  <2>1. disk'.mark = wmTs
    BY <1>3 DEF Exit, MarksWorked
  <2> QED BY <1>3, <2>1 DEF Exit, GoesDown, NothingAhead, RowsTradedOnce
<1>4. ASSUME NEW r \in csv, ReadOld(r) PROVE NothingAhead' /\ RowsTradedOnce'
  <2>1. /\ stage = "row" /\ r <= watermark /\ watermark # None /\ IsNext(r) /\ cursor' = r
        /\ UNCHANGED <<csv, stage, watermark, wmTs, disk, traded>>
    BY <1>4 DEF ReadOld, InHand, IsOld
  <2>2. wmTs # None => wmTs = watermark
    <3> SUFFICES ASSUME wmTs # None, wmTs # watermark PROVE FALSE
      OBVIOUS
    <3>1. cursor # None /\ cursor > watermark
      BY <2>1 DEF NothingAhead
    <3>2. r > cursor
      BY <2>1, <3>1 DEF IsNext, Ahead
    <3> QED BY <1>0, <2>1, <3>1, <3>2
  <2> QED BY <2>1, <2>2 DEF NothingAhead, RowsTradedOnce
<1>5. ASSUME NEW r \in csv, CloseBoundary(r) PROVE NothingAhead' /\ RowsTradedOnce'
  BY <1>5 DEF CloseBoundary, InHand, NothingAhead, RowsTradedOnce
<1>6. ASSUME NEW r \in csv, EndSession(r) PROVE NothingAhead' /\ RowsTradedOnce'
  <2>1. /\ stage = "row" /\ IsNext(r) /\ ~IsOld(r) /\ stage' = "mark"
        /\ UNCHANGED <<csv, memory, traded>>
    BY <1>6 DEF EndSession, Arrives, InHand
  <2>2. watermark # None => \A t \in Ahead : t > watermark
    BY <1>0, <2>1 DEF IsNext, IsOld, Ahead
  <2> QED BY <2>1, <2>2 DEF memory, NothingAhead, RowsTradedOnce, Ahead
<1>7. CASE SaveMark
  BY <1>7 DEF SaveMark, memory, NothingAhead, RowsTradedOnce, Ahead
<1>8. CASE Finalize
  BY <1>8 DEF Finalize, memory, NothingAhead, RowsTradedOnce
<1>9. ASSUME NEW r \in csv, Trade(r) PROVE NothingAhead' /\ RowsTradedOnce'
  <2>1. /\ IsNext(r) /\ r \in Rows /\ UNCHANGED <<csv, watermark, disk>>
        /\ cursor' = r /\ wmTs' = r /\ stage' = "row"
        /\ traded[r] = 0 => traded'[r] = 1
        /\ \A t \in Rows : t # r => traded'[t] = traded[t]
    BY <1>9, TradeStep
  <2>2. watermark # None => r > watermark
    BY <1>0, <1>9, <2>1 DEF Trade, Arrives, IsOld, IsNext, NothingAhead
  <2>3. cursor # None => r > cursor
    BY <2>1 DEF IsNext, Ahead
  <2>4. stage # "down"
    BY <1>9 DEF Trade, Arrives, InHand
  <2>5. ASSUME NEW t \in Rows, traded[t] >= 1 PROVE t < r
    <3>1. wmTs # None /\ t <= wmTs
      BY <2>4, <2>5 DEF NothingAhead
    <3>2. wmTs < r
      BY <1>0, <2>2, <2>3, <2>4, <3>1 DEF NothingAhead
    <3> QED BY <1>0, <2>1, <3>1, <3>2
  <2>6. traded[r] = 0
    BY <1>0, <2>1, <2>5 DEF MarksWorked, Often
  <2>7. RowsTradedOnce'
    BY <2>1, <2>6 DEF RowsTradedOnce
  <2>8. ASSUME NEW t \in Rows, traded'[t] >= 1 PROVE t <= r
    BY <1>0, <2>1, <2>5, <2>8
  <2>9. NothingAhead'
    <3>1. r # None
      BY <1>0, <2>1
    <3> QED BY <2>1, <2>2, <2>8, <3>1 DEF NothingAhead
  <2> QED BY <2>7, <2>9
<1> QED BY <1>1, <1>2, <1>3, <1>4, <1>5, <1>6, <1>7, <1>8, <1>9, <1>c DEF Next

-----------------------------------------------------------------------------
LEMMA InitInvariant == Init => WInv
<1> SUFFICES ASSUME Init PROVE WInv
  OBVIOUS
<1>1. seen \in [Bars -> Often] /\ traded \in [Rows -> Often]
  BY DEF Init, Often
<1>2. MarksWorked
  BY <1>1 DEF Init, MarksWorked, Worked
<1> QED BY <1>2 DEF Init, WInv, NothingAhead, RowsTradedOnce

LEMMA StutterInvariant == WInv /\ UNCHANGED vars => WInv'
BY DEF WInv, vars, memory, MarksWorked, Worked, NothingAhead, RowsTradedOnce, Ahead

(* WInv, the inductive invariant, holds in every state.                    *)
THEOREM Invariant == Spec => []WInv
<1>1. WInv /\ [Next]_vars => WInv'
  BY MarksWorkedStep, NothingAheadStep, StutterInvariant DEF WInv
<1> QED BY <1>1, InitInvariant, PTL DEF Spec

(* However runs end, the watermark never lies beyond an undone row.        *)
THEOREM RowsNotLostThm == Spec => []RowsNotLost
<1>1. WInv => RowsNotLost
  BY DEF WInv, MarksWorked, Worked, RowsNotLost
<1> QED BY <1>1, Invariant, PTL

(* When every run is finalized no row is traded twice, whatever the gaps.  *)
THEOREM RowsTradedOnceThm == Spec => []RowsTradedOnce
<1>1. WInv => RowsTradedOnce
  BY DEF WInv
<1> QED BY <1>1, Invariant, PTL

-----------------------------------------------------------------------------
(* Bars: no finalized run closes a boundary again, and no run, however it  *)
(* ends, loses a bar of the levels.                                        *)

(* The inductive invariant, on top of WInv.                                *)

(* The next boundary is a whole bar, after the bar of the last row.        *)
Clocks ==
    /\ closing \in Nat /\ Bucket(closing) = closing
    /\ cursor # None => closing >= Bucket(cursor) + BarMinutes
    /\ stage = "down" => cursor = None /\ lastC5 = None
    /\ closed \in [Boundaries -> Often]

(* A closed boundary lies behind the row worked on last, or before the     *)
(* one in hand.                                                            *)
NotPast(b, m) == m # None /\ b <= Bucket(m)
JustClosed(b) ==
    /\ stage \in {"row", "mark", "trade"} /\ b < closing
    /\ \E r \in csv : IsNext(r) /\ ~IsOld(r) /\ b <= Bucket(r)
ClosedBehind ==
    \A b \in Boundaries : closed[b] >= 1 =>
        IF stage = "down" THEN NotPast(b, disk.mark) ELSE NotPast(b, wmTs) \/ JustClosed(b)

(* Whatever lies behind a mark of this run was seen by its levels; what    *)
(* lies behind the mark to be saved, by those that were saved.             *)
SeenBehind(m, s) == m # None => \A b \in BarsBehind(m) : s[b] >= 1
MarksSeen ==
    /\ SeenBehind(disk.mark, disk.seen)
    /\ stage # "down" => \A m \in {disk.mark, watermark, wmTs, cursor} : SeenBehind(m, seen)
    /\ stage \in {"mark", "exit"} => SeenBehind(wmTs, disk.seen)

(* The bar of the last row is seen when its boundary is closed, and at a   *)
(* session's end no boundary is left to close.                             *)
Whole(b) == b \in Bars /\ \A u \in b .. b + BarMinutes - 1 : u \in csv
LastBarSeen ==
    /\ lastC5 \in Bars => seen[lastC5] >= 1
    /\ cursor # None /\ closing > Bucket(cursor) + BarMinutes /\ Whole(Bucket(cursor)) =>
         seen[Bucket(cursor)] >= 1
    /\ stage \in {"mark", "trade"} => \A r \in csv : IsNext(r) => ~BoundaryDue(r)

BInv ==
    /\ WInv
    /\ Clocks
    /\ ~crashed => ClosedBehind
    /\ MarksSeen
    /\ LastBarSeen

-----------------------------------------------------------------------------
(* Whole bars.                                                             *)

LEMMA Division ==
    ASSUME NEW t \in Nat, NEW n \in Nat \ {0}
    PROVE  t \div n \in Nat /\ (t \div n) * n <= t /\ t < (t \div n) * n + n
BY SMTT(20)

LEMMA MultipleIsWhole ==
    ASSUME NEW k \in Nat PROVE k * BarMinutes \in Nat /\ Bucket(k * BarMinutes) = k * BarMinutes
<1>1. BarMinutes \in Nat \ {0}
  BY RowsAssumption
<1>2. (k * BarMinutes) \div BarMinutes = k
  BY <1>1, SMTT(20)
<1> QED BY <1>1, <1>2 DEF Bucket

LEMMA BucketFacts ==
    ASSUME NEW t \in Nat
    PROVE  /\ Bucket(t) \in Nat /\ Bucket(t) <= t /\ t < Bucket(t) + BarMinutes
           /\ Bucket(Bucket(t)) = Bucket(t)
           /\ \E k \in Nat : Bucket(t) = k * BarMinutes
<1>1. BarMinutes \in Nat \ {0}
  BY RowsAssumption
<1>2. /\ t \div BarMinutes \in Nat /\ (t \div BarMinutes) * BarMinutes <= t
      /\ t < (t \div BarMinutes) * BarMinutes + BarMinutes
  BY <1>1, Division
<1>3. Bucket(t) = (t \div BarMinutes) * BarMinutes
  BY DEF Bucket
<1>4. Bucket(t) \in Nat /\ Bucket(Bucket(t)) = Bucket(t)
  BY <1>2, <1>3, MultipleIsWhole
<1> QED BY <1>2, <1>3, <1>4

(* Between whole bars lies at least one bar.                               *)
LEMMA WholeBarsApart ==
    ASSUME NEW a \in Nat, NEW b \in Nat, Bucket(a) = a, Bucket(b) = b
    PROVE  (a < b => a + BarMinutes <= b) /\ Bucket(a + BarMinutes) = a + BarMinutes
<1>0. BarMinutes \in Nat /\ BarMinutes > 0
  BY RowsAssumption
<1>1. PICK j \in Nat : a = j * BarMinutes
  BY BucketFacts
<1>2. PICK k \in Nat : b = k * BarMinutes
  BY BucketFacts
<1>3. a + BarMinutes = (j + 1) * BarMinutes /\ j + 1 \in Nat
  BY <1>0, <1>1
<1>4. Bucket(a + BarMinutes) = a + BarMinutes
  BY <1>3, MultipleIsWhole
<1>5. ASSUME a < b PROVE a + BarMinutes <= b
  <2>1. j < k
    BY <1>0, <1>1, <1>2, <1>5
  <2>2. j + 1 <= k
    BY <2>1
  <2>3. (j + 1) * BarMinutes <= k * BarMinutes
    BY <1>0, <2>2
  <2> QED BY <1>2, <1>3, <2>3
<1> QED BY <1>4, <1>5

LEMMA BucketOrder ==
    ASSUME NEW t \in Nat, NEW u \in Nat, t <= u
    PROVE  Bucket(t) <= Bucket(u) /\ (Bucket(t) = t => t <= Bucket(u))
<1>1. /\ Bucket(t) \in Nat /\ Bucket(t) <= t /\ Bucket(Bucket(t)) = Bucket(t)
      /\ Bucket(u) \in Nat /\ u < Bucket(u) + BarMinutes /\ Bucket(Bucket(u)) = Bucket(u)
  BY BucketFacts
<1>2. Bucket(t) <= Bucket(u)
  <2>1. Bucket(u) < Bucket(t) => Bucket(u) + BarMinutes <= Bucket(t)
    BY <1>1, WholeBarsApart
  <2> QED BY <1>1, <2>1, RowsAssumption
<1> QED BY <1>2

(* A session, too, ends with a whole bar.                                  *)
LEMMA SessionIsWhole ==
    ASSUME NEW t \in Rows
    PROVE  /\ DateOf(t) \in Nat
           /\ (DateOf(t) + 1) * SessionMinutes \in Nat
           /\ Bucket(t) + BarMinutes <= (DateOf(t) + 1) * SessionMinutes
           /\ Bucket(t) + BarMinutes <= Dates * SessionMinutes
<1>0. BarMinutes \in Nat \ {0} /\ SessionMinutes \in Nat \ {0} /\ Dates \in Nat \ {0}
  BY RowsAssumption
<1>1. t \in Nat /\ t < Dates * SessionMinutes
  BY <1>0 DEF Rows
<1>2. DateOf(t) \in Nat /\ t < DateOf(t) * SessionMinutes + SessionMinutes
  BY <1>0, <1>1, Division DEF DateOf
<1>3. DateOf(t) * SessionMinutes + SessionMinutes = (DateOf(t) + 1) * SessionMinutes
  BY <1>0, <1>2
<1>4. PICK k \in Nat : SessionMinutes = k * BarMinutes
  <2>1. SessionMinutes % BarMinutes = 0
    BY RowsAssumption
  <2>2. SessionMinutes = (SessionMinutes \div BarMinutes) * BarMinutes
    BY <1>0, <2>1, SMTT(20)
  <2> QED BY <1>0, <2>2, Division
<1>5. ASSUME NEW d \in Nat, t < d * SessionMinutes
      PROVE  d * SessionMinutes \in Nat /\ Bucket(t) + BarMinutes <= d * SessionMinutes
  <2>1. d * SessionMinutes = (d * k) * BarMinutes /\ d * k \in Nat
    <3>1. d * (k * BarMinutes) = (d * k) * BarMinutes
      BY <1>0
    <3>2. d * k \in Nat
      OBVIOUS
    <3> QED BY <1>4, <3>1, <3>2
  <2>2. d * SessionMinutes \in Nat /\ Bucket(d * SessionMinutes) = d * SessionMinutes
    BY <2>1, MultipleIsWhole
  <2>3. Bucket(t) \in Nat /\ Bucket(t) <= t /\ Bucket(Bucket(t)) = Bucket(t)
    BY <1>1, BucketFacts
  <2> QED BY <1>1, <1>5, <2>2, <2>3, WholeBarsApart
<1>6. DateOf(t) + 1 \in Nat /\ t < (DateOf(t) + 1) * SessionMinutes
  BY <1>2, <1>3
<1> QED BY <1>0, <1>1, <1>2, <1>5, <1>6

-----------------------------------------------------------------------------
(* What the steps have in common.                                          *)

LEMMA RowTypes ==
    ASSUME MarksWorked
    PROVE  /\ csv \subseteq Rows /\ Rows \subseteq Nat /\ None \notin Rows
           /\ \A m \in {disk.mark, watermark, wmTs, cursor} : m # None => m \in csv /\ m \in Rows
<1>1. csv \subseteq Rows /\ Rows \subseteq Nat /\ None \notin Rows
  BY RowsAssumption DEF MarksWorked, Rows
<1> QED BY <1>1 DEF MarksWorked, Worked

(* A bar behind a row is over before the row's own bar.                    *)
LEMMA BehindFacts ==
    ASSUME MarksWorked, NEW m \in Rows, NEW b \in BarsBehind(m)
    PROVE  /\ b \in Bars /\ b \in Nat /\ Bucket(b) = b /\ Whole(b)
           /\ b + BarMinutes <= Bucket(m) /\ b + BarMinutes <= m
<1>1. b \in Bars /\ b \in Nat /\ Bucket(b) = b /\ Whole(b) /\ Bucket(m) > b /\ m \in Nat
  BY RowTypes DEF BarsBehind, Bars, Whole
<1>2. Bucket(m) \in Nat /\ Bucket(Bucket(m)) = Bucket(m) /\ Bucket(m) <= m
  BY <1>1, BucketFacts
<1> QED BY <1>1, <1>2, WholeBarsApart, RowsAssumption

LEMMA BehindGrows ==
    ASSUME MarksWorked, NEW m \in Rows, NEW n \in Rows, m <= n, NEW s, SeenBehind(n, s)
    PROVE  SeenBehind(m, s)
<1>1. m \in Nat /\ n \in Nat /\ n # None
  BY RowTypes
<1>2. Bucket(m) <= Bucket(n) /\ Bucket(m) \in Nat /\ Bucket(n) \in Nat
  BY <1>1, BucketOrder, BucketFacts
<1>3. \A b \in BarsBehind(m) : b \in BarsBehind(n)
  BY <1>2, RowTypes DEF BarsBehind, Bars
<1> QED BY <1>1, <1>3 DEF SeenBehind

(* The next row is the first that is not read, and no other row is next.   *)
LEMMA NextRow ==
    ASSUME MarksWorked, NEW r \in csv, IsNext(r)
    PROVE  /\ r \in Rows /\ r \in Nat
           /\ cursor # None => cursor < r /\ \A t \in csv : t < r => t <= cursor
           /\ cursor = None => \A t \in csv : r <= t
           /\ \A t \in csv : IsNext(t) => t = r
<1>1. csv \subseteq Nat /\ r \in Rows /\ (cursor # None => cursor \in Nat)
  BY RowTypes
<1>2. r \in Ahead /\ \A t \in Ahead : r <= t
  BY DEF IsNext
<1>3. \A t \in csv : IsNext(t) => t = r
  BY <1>1, <1>2 DEF IsNext, Ahead
<1> QED BY <1>1, <1>2, <1>3 DEF Ahead

LEMMA CountedAt ==
    ASSUME NEW S, NEW f \in [S -> Often], NEW x
    PROVE  /\ More(f, x) \in [S -> Often]
           /\ \A y \in S : y # x => More(f, x)[y] = f[y]
           /\ \A y \in S : y = x \/ f[y] >= 1 => More(f, x)[y] >= 1
<1>1. CASE x \in S
  BY <1>1, MoreType
<1>2. CASE x \notin S
  <2>1. More(f, x) = f
    BY <1>2 DEF More
  <2> QED BY <1>2, <2>1
<1> QED BY <1>1, <1>2

(* The step that closes a boundary.                                        *)
LEMMA CloseStep ==
    ASSUME MarksWorked, Clocks, NEW r \in csv, CloseBoundary(r)
    PROVE  /\ stage = "row" /\ IsNext(r) /\ ~IsOld(r) /\ r \in Nat
           /\ cursor # None /\ cursor \in Rows /\ cursor \in Nat
           /\ closing \in Nat /\ Bucket(closing) = closing /\ closing <= Bucket(r)
           /\ Bucket(cursor) + BarMinutes <= closing
           /\ closing' = closing + BarMinutes /\ Bucket(closing') = closing'
           /\ UNCHANGED <<csv, stage, watermark, wmTs, cursor, disk, traded, crashed>>
           /\ \A b \in Bars : seen[b] >= 1 => seen'[b] >= 1
           /\ closed' \in [Boundaries -> Often]
           /\ \A b \in Boundaries : b # closing => closed'[b] = closed[b]
<1>1. /\ stage = "row" /\ IsNext(r) /\ ~IsOld(r) /\ cursor # None /\ closing <= Bucket(r)
      /\ closing' = closing + BarMinutes
      /\ UNCHANGED <<csv, stage, watermark, wmTs, cursor, disk, traded, crashed>>
  BY DEF CloseBoundary, InHand, BoundaryDue
<1>2. /\ r \in Nat /\ cursor \in Rows /\ cursor \in Nat
      /\ closing \in Nat /\ Bucket(closing) = closing /\ Bucket(cursor) + BarMinutes <= closing
  BY <1>1, RowTypes DEF Clocks
<1>3. Bucket(closing') = closing'
  BY <1>1, <1>2, WholeBarsApart
<1>4. \A b \in Bars : seen[b] >= 1 => seen'[b] >= 1
  <2>1. seen' = seen \/ seen' = More(seen, Max(Complete(closing)))
    BY DEF CloseBoundary
  <2> QED BY <2>1, CountedAt DEF MarksWorked
<1>5. closed' \in [Boundaries -> Often] /\ \A b \in Boundaries : b # closing => closed'[b] = closed[b]
  <2>1. closed' = closed \/ closed' = More(closed, closing)
    BY DEF CloseBoundary
  <2> QED BY <2>1, CountedAt DEF Clocks
<1> QED BY <1>1, <1>2, <1>3, <1>4, <1>5

-----------------------------------------------------------------------------
(* Each part is kept.                                                      *)

LEMMA ClocksStep ==
    ASSUME MarksWorked, Clocks, Next PROVE Clocks'
<1>1. CASE \E t \in Rows : CsvGrows(t)
  BY <1>1 DEF CsvGrows, memory, Clocks, Bucket
<1>2. CASE Start
  BY <1>2 DEF Start, Clocks, Bucket
<1>3. CASE Crash \/ Exit
  <2>1. 0 \in Nat /\ Bucket(0) = 0
    <3>1. 0 * BarMinutes = 0
      BY RowsAssumption
    <3> QED BY <3>1, MultipleIsWhole
  <2>2. closing' = 0 /\ cursor' = None /\ lastC5' = None /\ closed' = closed
    BY <1>3 DEF Crash, Exit, GoesDown
  <2> QED BY <2>1, <2>2 DEF Clocks, Bucket
<1>4. ASSUME NEW r \in csv, closing' = Bucket(r) + BarMinutes, cursor' = r, closed' = closed,
             stage' # "down"
      PROVE  Clocks'
  <2>1. r \in Nat
    BY RowTypes
  <2>2. Bucket(r) \in Nat /\ Bucket(Bucket(r)) = Bucket(r)
    BY <2>1, BucketFacts
  <2>3. Bucket(r) + BarMinutes \in Nat /\ Bucket(Bucket(r) + BarMinutes) = Bucket(r) + BarMinutes
    BY <2>2, WholeBarsApart, RowsAssumption
  <2> QED BY <1>4, <2>3, <2>2 DEF Clocks, Bucket
<1>5. ASSUME NEW r \in csv, ReadOld(r) \/ Trade(r) PROVE Clocks'
  BY <1>4, <1>5 DEF ReadOld, Trade, InHand
<1>6. ASSUME NEW r \in csv, CloseBoundary(r) PROVE Clocks'
  <2>1. /\ stage' = "row" /\ cursor' = cursor /\ cursor \in Nat /\ closing' = closing + BarMinutes
        /\ Bucket(closing') = closing' /\ closed' \in [Boundaries -> Often]
        /\ closing \in Nat /\ Bucket(cursor) + BarMinutes <= closing
    BY <1>6, CloseStep
  <2>2. Bucket(cursor) \in Nat /\ BarMinutes \in Nat
    BY <2>1, BucketFacts, RowsAssumption
  <2> QED BY <2>1, <2>2 DEF Clocks, Bucket
<1>7. ASSUME NEW r \in csv, EndSession(r) PROVE Clocks'
  BY <1>7 DEF EndSession, memory, Clocks, Bucket
<1>8. CASE SaveMark \/ Finalize
  BY <1>8 DEF SaveMark, Finalize, memory, Clocks, Bucket
<1> QED BY <1>1, <1>2, <1>3, <1>5, <1>6, <1>7, <1>8 DEF Next

(* The boundary being closed lies past the row worked on last.             *)
LEMMA PastTheMark ==
    ASSUME MarksWorked, NothingAhead, Clocks, NEW r \in csv, CloseBoundary(r)
    PROVE  ~NotPast(closing, wmTs)
<1> SUFFICES ASSUME wmTs # None, closing <= Bucket(wmTs) PROVE FALSE
  BY DEF NotPast
<1>1. /\ stage = "row" /\ IsNext(r) /\ ~IsOld(r) /\ r \in Nat /\ cursor # None /\ cursor \in Nat
      /\ closing \in Nat /\ Bucket(cursor) + BarMinutes <= closing
  BY CloseStep
<1>2. wmTs \in csv /\ wmTs \in Nat
  BY RowTypes
<1>3. wmTs <= cursor
  <2>1. CASE wmTs # watermark
    BY <1>1, <1>2, <2>1 DEF NothingAhead
  <2>2. CASE wmTs = watermark
    <3>1. wmTs < r
      BY <1>1, <1>2, <2>2 DEF IsOld
    <3> QED BY <1>1, <1>2, <3>1, NextRow
  <2> QED BY <2>1, <2>2
<1>4. Bucket(wmTs) <= Bucket(cursor) /\ Bucket(wmTs) \in Nat /\ Bucket(cursor) \in Nat
  BY <1>1, <1>2, <1>3, BucketOrder, BucketFacts
<1> QED BY <1>1, <1>4, RowsAssumption

LEMMA ClosedBehindStep ==
    ASSUME WInv, Clocks, ~crashed => ClosedBehind, Next PROVE ~crashed' => ClosedBehind'
<1> SUFFICES ASSUME ~crashed' PROVE ClosedBehind'
  OBVIOUS
<1>0. ~crashed /\ ~Crash /\ ClosedBehind /\ MarksWorked /\ NothingAhead
  BY DEF Next, CsvGrows, Start, Crash, ReadOld, CloseBoundary, EndSession, Trade, SaveMark,
         Finalize, Exit, WInv
<1> USE <1>0
<1>1. CASE \E t \in Rows : CsvGrows(t)
  BY <1>1 DEF CsvGrows, ClosedBehind, NotPast, Bucket
<1>2. CASE Start
  BY <1>2 DEF Start, ClosedBehind, NotPast, Bucket
<1>3. CASE Exit
  <2>1. disk'.mark = wmTs /\ stage = "exit" /\ stage' = "down" /\ closed' = closed
    BY <1>3 DEF Exit, GoesDown, MarksWorked
  <2> QED BY <2>1 DEF ClosedBehind, NotPast, JustClosed, Bucket
<1>4. CASE Finalize
  <2>1. stage = "row" /\ stage' = "exit" /\ Ahead = {} /\ UNCHANGED <<wmTs, closed>>
    BY <1>4 DEF Finalize, memory
  <2>2. \A b \in Boundaries : ~JustClosed(b)
    BY <2>1 DEF JustClosed, IsNext
  <2> QED BY <2>1, <2>2 DEF ClosedBehind, NotPast, Bucket
<1>5. CASE SaveMark \/ \E r \in csv : EndSession(r)
  <2>1. UNCHANGED <<csv, watermark, wmTs, cursor, closing, closed>>
    BY <1>5 DEF SaveMark, EndSession, memory
  <2>2. stage \in {"row", "mark"} /\ stage' \in {"mark", "trade"}
    BY <1>5 DEF SaveMark, EndSession, Arrives, InHand
  <2> QED BY <2>1, <2>2 DEF ClosedBehind, NotPast, JustClosed, Bucket, IsNext, IsOld, Ahead
<1>6. ASSUME NEW r \in csv, ReadOld(r) PROVE ClosedBehind'
  <2>1. /\ IsNext(r) /\ IsOld(r) /\ stage = "row" /\ stage' = "row"
        /\ UNCHANGED <<wmTs, closed>>
    BY <1>6 DEF ReadOld, InHand
  <2>2. \A b \in Boundaries : ~JustClosed(b)
    BY <2>1, NextRow DEF JustClosed
  <2> QED BY <2>1, <2>2 DEF ClosedBehind, NotPast, Bucket
<1>7. ASSUME NEW r \in csv, Trade(r) PROVE ClosedBehind'
  <2>1. /\ IsNext(r) /\ wmTs' = r /\ stage' = "row" /\ closed' = closed
        /\ stage \in {"row", "trade"}
    BY <1>7 DEF Trade, Arrives, InHand
  <2>2. r \in Nat /\ r # None
    BY RowTypes
  <2>3. ASSUME NEW b \in Boundaries, closed[b] >= 1 PROVE b <= Bucket(r)
    <3>1. NotPast(b, wmTs) \/ JustClosed(b)
      BY <2>1, <2>3 DEF ClosedBehind
    <3>2. CASE JustClosed(b)
      BY <2>1, <3>2, NextRow DEF JustClosed
    <3>3. CASE NotPast(b, wmTs)
      <4>1. wmTs # None /\ wmTs \in csv /\ wmTs \in Nat /\ b <= Bucket(wmTs)
        BY <3>3, RowTypes DEF NotPast
      <4>2. wmTs <= r
        <5>1. CASE wmTs = watermark
          <6>1. CASE IsOld(r)
            <7>1. stage = "trade"
              BY <1>7, <2>1, <6>1 DEF Trade, Arrives
            <7> QED BY <2>1, <4>1, <5>1, <7>1, <2>2 DEF NothingAhead, IsNext
          <6>2. CASE ~IsOld(r)
            BY <2>2, <4>1, <5>1, <6>2 DEF IsOld
          <6> QED BY <6>1, <6>2
        <5>2. CASE wmTs # watermark
          <6>1. wmTs = cursor
            BY <2>1, <4>1, <5>2 DEF NothingAhead
          <6> QED BY <2>1, <2>2, <4>1, <6>1, NextRow
        <5> QED BY <5>1, <5>2
      <4>3. Bucket(wmTs) <= Bucket(r) /\ Bucket(wmTs) \in Nat /\ Bucket(r) \in Nat
        BY <2>2, <4>1, <4>2, BucketOrder, BucketFacts
      <4>4. b \in Nat
        BY RowTypes, RowsAssumption DEF Boundaries, Bars
      <4> QED BY <4>1, <4>3, <4>4
    <3> QED BY <3>1, <3>2, <3>3
  <2> QED BY <2>1, <2>2, <2>3 DEF ClosedBehind, NotPast, Bucket
<1>8. ASSUME NEW r \in csv, CloseBoundary(r) PROVE ClosedBehind'
  <2>1. /\ stage = "row" /\ IsNext(r) /\ ~IsOld(r) /\ r \in Nat
        /\ cursor # None /\ cursor \in Nat
        /\ closing \in Nat /\ closing <= Bucket(r) /\ Bucket(cursor) + BarMinutes <= closing
        /\ closing' = closing + BarMinutes
        /\ UNCHANGED <<csv, stage, watermark, wmTs, cursor>>
        /\ \A b \in Boundaries : b # closing => closed'[b] = closed[b]
    BY <1>8, CloseStep
  <2>2. BarMinutes \in Nat /\ BarMinutes > 0 /\ Bucket(cursor) \in Nat
    BY <2>1, BucketFacts, RowsAssumption
  <2>3. ~NotPast(closing, wmTs) /\ closing < closing'
    BY <1>8, <2>1, <2>2, PastTheMark
  <2>4. ASSUME NEW b \in Boundaries, closed'[b] >= 1 PROVE NotPast(b, wmTs) \/ JustClosed(b)'
    <3>1. CASE b = closing
      <4>1. IsNext(r)' /\ ~IsOld(r)' /\ b <= Bucket(r) /\ b < closing'
        BY <2>1, <2>3, <3>1 DEF IsNext, IsOld, Ahead
      <4> QED BY <2>1, <4>1 DEF JustClosed, Bucket
    <3>2. CASE b # closing
      <4>1. NotPast(b, wmTs) \/ JustClosed(b)
        BY <2>1, <2>4, <3>2 DEF ClosedBehind
      <4>2. JustClosed(b) => JustClosed(b)'
        <5>1. b \in Nat
          BY RowTypes, RowsAssumption DEF Boundaries, Bars
        <5> QED BY <2>1, <2>3, <5>1 DEF JustClosed, IsNext, IsOld, Ahead, Bucket
      <4> QED BY <4>1, <4>2
    <3> QED BY <3>1, <3>2
  <2> QED BY <2>1, <2>4 DEF ClosedBehind, NotPast, Bucket
<1> QED BY <1>1, <1>2, <1>3, <1>4, <1>5, <1>6, <1>7, <1>8 DEF Next

(* No boundary is closed twice while runs are finalized.                   *)
LEMMA BoundariesStep ==
    ASSUME WInv, Clocks, ~crashed => ClosedBehind, BoundariesClosedOnce, Next
    PROVE  BoundariesClosedOnce'
<1> SUFFICES ASSUME ~crashed' PROVE \A b \in Boundaries : closed'[b] <= 1
  BY DEF BoundariesClosedOnce
<1>0. /\ ~crashed /\ ClosedBehind /\ MarksWorked /\ NothingAhead
      /\ \A b \in Boundaries : closed[b] <= 1
  BY DEF Next, CsvGrows, Start, Crash, ReadOld, CloseBoundary, EndSession, Trade, SaveMark,
         Finalize, Exit, WInv, BoundariesClosedOnce
<1>1. ASSUME NEW r \in csv, CloseBoundary(r) PROVE \A b \in Boundaries : closed'[b] <= 1
  <2>1. /\ stage = "row" /\ IsNext(r) /\ ~IsOld(r) /\ r \in Nat
        /\ closing \in Nat
        /\ \A b \in Boundaries : b # closing => closed'[b] = closed[b]
    BY <1>0, <1>1, CloseStep
  <2>2. closing \in Boundaries => closed[closing] = 0
    <3> SUFFICES ASSUME closing \in Boundaries, closed[closing] >= 1 PROVE FALSE
      BY DEF Clocks, Often
    <3>1. NotPast(closing, wmTs)
      BY <1>0, <2>1 DEF ClosedBehind, JustClosed
    <3> QED BY <1>0, <1>1, <3>1, PastTheMark
  <2>3. closing \in Boundaries => closed'[closing] <= 1
    <3>1. closed' = closed \/ closed' = More(closed, closing)
      BY <1>1 DEF CloseBoundary
    <3>2. closed \in [Boundaries -> Often]
      BY DEF Clocks
    <3>3. closing \in Boundaries => More(closed, closing)[closing] = 1
      BY <2>2, <3>2, MoreType
    <3> QED BY <2>2, <3>1, <3>3
  <2> QED BY <1>0, <2>1, <2>3
<1>2. CASE ~ \E r \in csv : CloseBoundary(r)
  <2>1. closed' = closed
    BY <1>2 DEF Next, CsvGrows, Start, Crash, ReadOld, EndSession, Trade, SaveMark, Finalize, Exit
  <2> QED BY <1>0, <2>1
<1> QED BY <1>1, <1>2

(* When no boundary is left to close, every bar before the next row is     *)
(* seen: the last row's bar was whole, so its boundary was due, or partial. *)
LEMMA NextRowSeen ==
    ASSUME MarksWorked, Clocks, MarksSeen, LastBarSeen, stage # "down",
           NEW r \in csv, IsNext(r), ~BoundaryDue(r)
    PROVE  SeenBehind(r, seen)
<1> SUFFICES ASSUME NEW b \in BarsBehind(r) PROVE seen[b] >= 1
  BY DEF SeenBehind
<1> DEFINE last == b + BarMinutes - 1
<1>0. BarMinutes \in Nat /\ BarMinutes > 0 /\ r \in Rows /\ r \in Nat
  BY RowTypes, RowsAssumption
<1>1. /\ b \in Nat /\ Bucket(b) = b /\ Whole(b) /\ b \in Bars
      /\ b + BarMinutes <= Bucket(r) /\ b + BarMinutes <= r
  BY <1>0, BehindFacts
<1>2. last \in csv /\ last < r /\ b <= last /\ last \in Nat
  BY <1>0, <1>1 DEF Whole
<1>3. cursor # None /\ last <= cursor
  BY <1>0, <1>2, NextRow
<1>4. cursor \in Rows /\ cursor \in Nat
  BY <1>3, RowTypes
<1>5. Bucket(cursor) \in Nat /\ b <= Bucket(cursor)
  BY <1>1, <1>2, <1>3, <1>4, BucketFacts, BucketOrder
<1>6. CASE b < Bucket(cursor)
  <2>1. b \in BarsBehind(cursor)
    BY <1>1, <1>6 DEF BarsBehind, Whole
  <2> QED BY <1>3, <2>1 DEF MarksSeen, SeenBehind
<1>7. CASE b = Bucket(cursor)
  <2>1. /\ DateOf(cursor) \in Nat
        /\ Bucket(cursor) + BarMinutes <= (DateOf(cursor) + 1) * SessionMinutes
    BY <1>4, SessionIsWhole
  <2>2. closing \in Nat /\ Bucket(r) \in Nat /\ (DateOf(cursor) + 1) * SessionMinutes \in Nat
    BY <1>0, <1>4, SessionIsWhole, BucketFacts DEF Clocks
  <2>3. closing > Bucket(cursor) + BarMinutes
    <3>1. closing > Bucket(r) \/ closing > (DateOf(cursor) + 1) * SessionMinutes
      BY <1>3, <2>2 DEF BoundaryDue
    <3> QED BY <1>0, <1>1, <1>5, <1>7, <2>1, <2>2, <3>1
  <2> QED BY <1>1, <1>3, <1>7, <2>3 DEF LastBarSeen
<1> QED BY <1>1, <1>5, <1>6, <1>7

(* What the steps do to bars, marks and levels is local.                   *)
LEMMA MarksSeenStep ==
    ASSUME MarksWorked, Clocks, MarksSeen, LastBarSeen, Next PROVE MarksSeen'
<1>1. ASSUME NEW t \in Rows, CsvGrows(t) PROVE MarksSeen'
  <2>1. /\ stage = "down" /\ stage' = "down" /\ disk' = disk /\ csv' = csv \cup {t}
        /\ \A u \in csv : u < t
    BY <1>1 DEF CsvGrows
  <2>2. t \in Nat /\ csv \subseteq Nat /\ (disk.mark # None => disk.mark \in csv /\ disk.mark \in Rows)
    BY RowTypes
  <2>3. ASSUME disk.mark # None, NEW b \in BarsBehind(disk.mark)' PROVE b \in BarsBehind(disk.mark)
    <3> DEFINE m == disk.mark
    <3>1. m \in Nat /\ m < t /\ b \in Bars /\ b \in Nat /\ Bucket(b) = b /\ Bucket(m) > b
      BY <2>1, <2>2, <2>3, RowTypes DEF BarsBehind, Bars, Bucket
    <3>2. Bucket(m) \in Nat /\ Bucket(Bucket(m)) = Bucket(m) /\ Bucket(m) <= m
      BY <3>1, BucketFacts
    <3> HIDE DEF m
    <3>3. b + BarMinutes <= m
      BY <3>1, <3>2, WholeBarsApart, RowsAssumption
    <3>4. \A u \in b .. b + BarMinutes - 1 : u \in csv
      <4> TAKE u \in b .. b + BarMinutes - 1
      <4>1. u \in csv \cup {t}
        BY <2>1 DEF BarsBehind
      <4>2. u < t
        BY <2>2, <3>1, <3>3, RowsAssumption
      <4> QED BY <2>2, <4>1, <4>2
    <3> QED BY <3>1, <3>4 DEF BarsBehind, m
  <2> QED BY <2>1, <2>3 DEF MarksSeen, SeenBehind
<1>2. CASE Start
  BY <1>2 DEF Start, MarksSeen, SeenBehind, BarsBehind, Bucket, Clocks
<1>3. CASE Crash
  BY <1>3 DEF Crash, GoesDown, MarksSeen, SeenBehind, BarsBehind, Bucket
<1>4. CASE Exit
  <2>1. /\ stage = "exit" /\ stage' = "down" /\ csv' = csv
        /\ disk'.mark = wmTs /\ disk'.seen = disk.seen
    BY <1>4 DEF Exit, GoesDown, MarksWorked
  <2> QED BY <2>1 DEF MarksSeen, SeenBehind, BarsBehind, Bucket
<1>5. CASE SaveMark
  <2>1. /\ stage = "mark" /\ stage' = "trade" /\ UNCHANGED <<csv, watermark, wmTs, cursor, seen>>
        /\ disk'.mark = wmTs /\ disk'.seen = disk.seen
    BY <1>5 DEF SaveMark, memory, MarksWorked
  <2> QED BY <2>1 DEF MarksSeen, SeenBehind, BarsBehind, Bucket
<1>6. CASE Finalize \/ \E r \in csv : EndSession(r)
  <2>1. /\ stage = "row" /\ stage' \in {"mark", "exit"}
        /\ UNCHANGED <<csv, watermark, wmTs, cursor, seen>>
        /\ disk'.mark = disk.mark /\ disk'.seen = seen
    BY <1>6 DEF Finalize, EndSession, Arrives, InHand, memory, MarksWorked
  <2> QED BY <2>1 DEF MarksSeen, SeenBehind, BarsBehind, Bucket
<1>7. ASSUME NEW r \in csv, CloseBoundary(r) PROVE MarksSeen'
  <2>1. /\ stage = "row" /\ stage' = "row" /\ UNCHANGED <<csv, watermark, wmTs, cursor, disk>>
        /\ \A b \in Bars : seen[b] >= 1 => seen'[b] >= 1
    BY <1>7, CloseStep
  <2> QED BY <2>1 DEF MarksSeen, SeenBehind, BarsBehind, Bucket
<1>8. ASSUME NEW r \in csv, ReadOld(r) PROVE MarksSeen'
  <2>1. /\ stage = "row" /\ stage' = "row" /\ UNCHANGED <<csv, watermark, wmTs, disk, seen>>
        /\ cursor' = r /\ watermark # None /\ r <= watermark
    BY <1>8 DEF ReadOld, InHand, IsOld
  <2>2. SeenBehind(r, seen)
    <3>1. r \in Rows /\ watermark \in Rows
      BY <2>1, RowTypes
    <3>2. SeenBehind(watermark, seen)
      BY <2>1 DEF MarksSeen
    <3> QED BY <2>1, <3>1, <3>2, BehindGrows
  <2> QED BY <2>1, <2>2 DEF MarksSeen, SeenBehind, BarsBehind, Bucket
<1>9. ASSUME NEW r \in csv, Trade(r) PROVE MarksSeen'
  <2>1. /\ stage \in {"row", "trade"} /\ stage' = "row" /\ IsNext(r)
        /\ UNCHANGED <<csv, watermark, disk, seen>> /\ cursor' = r /\ wmTs' = r
    BY <1>9 DEF Trade, Arrives, InHand
  <2>2. ~BoundaryDue(r)
    BY <1>9, <2>1 DEF Trade, Arrives, LastBarSeen
  <2>3. SeenBehind(r, seen)
    BY <2>1, <2>2, NextRowSeen
  <2> QED BY <2>1, <2>3 DEF MarksSeen, SeenBehind, BarsBehind, Bucket
<1> QED BY <1>1, <1>2, <1>3, <1>4, <1>5, <1>6, <1>7, <1>8, <1>9 DEF Next

LEMMA LastBarSeenStep ==
    ASSUME MarksWorked, Clocks, LastBarSeen, Next PROVE LastBarSeen'
<1>0. None \notin Bars
  BY RowTypes DEF Bars
<1>1. CASE \E t \in Rows : CsvGrows(t)
  BY <1>0, <1>1 DEF CsvGrows, memory, Clocks, LastBarSeen
<1>2. CASE Start
  BY <1>0, <1>2 DEF Start, Clocks, LastBarSeen
<1>3. CASE Crash \/ Exit
  BY <1>0, <1>3 DEF Crash, Exit, GoesDown, LastBarSeen
<1>4. ASSUME NEW r \in csv, closing' = Bucket(r) + BarMinutes, cursor' = r, stage' = "row",
             UNCHANGED <<csv, lastC5, seen>>
      PROVE  LastBarSeen'
  <2>1. Bucket(r) \in Nat /\ BarMinutes \in Nat
    BY RowTypes, BucketFacts, RowsAssumption
  <2>2. ~(closing' > Bucket(cursor') + BarMinutes)
    BY <1>4, <2>1
  <2> QED BY <1>4, <2>2 DEF LastBarSeen, Bucket
<1>5. ASSUME NEW r \in csv, ReadOld(r) \/ Trade(r) PROVE LastBarSeen'
  BY <1>4, <1>5 DEF ReadOld, Trade, InHand
<1>6. ASSUME NEW r \in csv, EndSession(r) PROVE LastBarSeen'
  <2>1. /\ IsNext(r) /\ ~BoundaryDue(r) /\ stage' = "mark" /\ UNCHANGED <<csv, memory>>
    BY <1>6 DEF EndSession, Arrives, InHand
  <2>2. \A t \in csv : IsNext(t) => ~BoundaryDue(t)
    BY <2>1, NextRow
  <2> QED BY <2>1, <2>2
          DEF memory, LastBarSeen, Whole, Bucket, IsNext, Ahead, BoundaryDue, DateOf
<1>7. CASE SaveMark \/ Finalize
  <2>1. /\ UNCHANGED <<csv, memory>>
        /\ (stage = "mark" /\ stage' = "trade") \/ stage' = "exit"
    BY <1>7 DEF SaveMark, Finalize
  <2> QED BY <2>1 DEF memory, LastBarSeen, Whole, Bucket, IsNext, Ahead, BoundaryDue, DateOf
<1>8. ASSUME NEW r \in csv, CloseBoundary(r) PROVE LastBarSeen'
  <2> DEFINE c5 == Max(Complete(closing))
             b == Bucket(cursor)
  <2>1. /\ stage' = "row" /\ IsNext(r) /\ r \in Nat /\ cursor # None /\ cursor \in Nat
        /\ closing \in Nat /\ closing <= Bucket(r) /\ b + BarMinutes <= closing
        /\ UNCHANGED <<csv, cursor>>
        /\ \A x \in Bars : seen[x] >= 1 => seen'[x] >= 1
    BY <1>8, CloseStep
  <2>2. BarMinutes \in Nat /\ BarMinutes > 0 /\ b \in Nat /\ closing < r + 1
    BY <2>1, BucketFacts, RowsAssumption
  <2>3. ASSUME Complete(closing) # {} PROVE lastC5' = c5 /\ (c5 \in Bars => seen'[c5] >= 1)
    <3>1. lastC5' = c5 /\ seen' = IF c5 = lastC5 THEN seen ELSE More(seen, c5)
      BY <1>8, <2>3 DEF CloseBoundary
    <3>2. seen \in [Bars -> Often]
      BY DEF MarksWorked
    <3> HIDE DEF c5
    <3>3. CASE c5 = lastC5
      BY <3>1, <3>3 DEF LastBarSeen
    <3>4. CASE c5 # lastC5
      BY <3>1, <3>2, <3>4, CountedAt
    <3> QED BY <3>1, <3>3, <3>4
  <2>4. lastC5' \in Bars => seen'[lastC5'] >= 1
    <3>1. CASE Complete(closing) = {}
      <4>1. lastC5' = lastC5 /\ seen' = seen
        BY <1>8, <3>1 DEF CloseBoundary
      <4> QED BY <4>1 DEF LastBarSeen
    <3> HIDE DEF c5
    <3> QED BY <2>3, <3>1
  <2>5. Whole(b) => seen'[b] >= 1
    <3> SUFFICES ASSUME Whole(b) PROVE seen'[b] >= 1
      OBVIOUS
    <3>1. b \in Bars
      BY DEF Whole
    <3>2. CASE closing > b + BarMinutes
      <4>1. seen[b] >= 1
        BY <2>1, <3>2 DEF LastBarSeen
      <4> QED BY <2>1, <3>1, <4>1
    <3>3. CASE closing = b + BarMinutes
      <4>1. b \in Complete(closing)
        <5>1. \A u \in b .. b + BarMinutes - 1 : u \in csv /\ u <= cursor
          <6> TAKE u \in b .. b + BarMinutes - 1
          <6>1. u \in csv
            BY DEF Whole
          <6>2. u < r
            <7>1. Bucket(r) <= r /\ Bucket(r) \in Nat
              BY <2>1, BucketFacts
            <7> QED BY <2>1, <2>2, <3>3, <7>1
          <6> QED BY <2>1, <6>1, <6>2, NextRow
        <5> QED BY <2>2, <3>1, <3>3, <5>1 DEF Complete
      <4>2. \A x \in Complete(closing) : b >= x /\ x \in Nat
        <5>1. \A x \in Bars : x \in Nat
          BY RowTypes DEF Bars
        <5> QED BY <2>2, <3>3, <5>1 DEF Complete
      <4>3. c5 = b
        <5> HIDE DEF b
        <5>1. ASSUME NEW x \in Complete(closing), \A y \in Complete(closing) : x >= y PROVE x = b
          BY <2>2, <4>1, <4>2, <5>1
        <5> QED BY <4>1, <4>2, <5>1 DEF Max
      <4> HIDE DEF c5
      <4> QED BY <2>3, <3>1, <4>1, <4>3
    <3> QED BY <2>1, <2>2, <3>2, <3>3
  <2> QED BY <2>1, <2>4, <2>5 DEF LastBarSeen, Whole, Bucket
<1> QED BY <1>1, <1>2, <1>3, <1>5, <1>6, <1>7, <1>8 DEF Next

-----------------------------------------------------------------------------
(* The types.                                                              *)

(* A set of numbers below a bound has a greatest one: the library's least  *)
(* element of a well-founded relation, counted down from the bound.        *)
LEMMA GreatestExists ==
    ASSUME NEW N \in Nat, NEW S, S \subseteq 0 .. N, S # {} PROVE Max(S) \in S
<1> DEFINE R == OpToRel(<, Nat)
           T == {N - x : x \in S}
<1>1. IsWellFoundedOn(R, Nat)
  BY NatLessThanWellFounded
<1>2. \A x, y \in Nat : y < x => <<y, x>> \in R
  BY DEF OpToRel
<1>3. T \subseteq Nat /\ T # {}
  <2>1. \A x \in S : N - x \in Nat /\ N - x \in T
    OBVIOUS
  <2> QED BY <2>1
<1> HIDE DEF R
<1>4. PICK m \in T : \A y \in T : ~ (<<y, m>> \in R)
  <2> HIDE DEF T
  <2> QED BY <1>1, <1>3, WFMin
<1>5. PICK g \in S : m = N - g
  OBVIOUS
<1>6. ASSUME NEW y \in S PROVE g >= y
  <2>1. ~ (N - y < m)
    BY <1>2, <1>3, <1>4
  <2> QED BY <1>5, <2>1
<1> QED BY <1>6 DEF Max

Types ==
    /\ stage \in {"down", "row", "mark", "trade", "exit"}
    /\ closing <= Dates * SessionMinutes
    /\ lastC5 \in {None} \cup Bars /\ day \in {None} \cup 0 .. Dates - 1
    /\ crashed \in BOOLEAN

LEMMA TypesStep ==
    ASSUME MarksWorked, Clocks, Types, Next PROVE Types'
<1>0. Dates * SessionMinutes \in Nat /\ 0 <= Dates * SessionMinutes
  BY RowsAssumption
<1>1. ASSUME NEW r \in csv, closing' = Bucket(r) + BarMinutes, stage' = "row",
             UNCHANGED <<lastC5, day, crashed>>
      PROVE  Types'
  BY <1>1, RowTypes, SessionIsWhole DEF Types
<1>2. ASSUME NEW r \in csv, ReadOld(r) \/ Trade(r) PROVE Types'
  BY <1>1, <1>2 DEF ReadOld, Trade, InHand
<1>3. ASSUME NEW r \in csv, CloseBoundary(r) PROVE Types'
  <2>1. /\ stage' = "row" /\ r \in Nat /\ closing \in Nat /\ closing <= Bucket(r)
        /\ closing' = closing + BarMinutes /\ crashed' = crashed
    BY <1>3, CloseStep DEF Types
  <2>2. closing' <= Dates * SessionMinutes
    <3>1. Bucket(r) + BarMinutes <= Dates * SessionMinutes /\ Bucket(r) \in Nat
      BY <2>1, RowTypes, SessionIsWhole, BucketFacts
    <3> QED BY <1>0, <2>1, <3>1, RowsAssumption
  <2> DEFINE c5 == Max(Complete(closing))
  <2>3. ASSUME Complete(closing) # {} PROVE c5 \in Bars
    <3>1. Complete(closing) \subseteq Bars
      BY DEF Complete
    <3>2. Complete(closing) \subseteq 0 .. Dates * SessionMinutes
      BY <1>0, <3>1 DEF Bars, Rows
    <3>3. c5 \in Complete(closing)
      BY <1>0, <2>3, <3>2, GreatestExists
    <3> QED BY <3>1, <3>3
  <2> HIDE DEF c5
  <2>4. c5 \in Bars => DateOf(c5) \in 0 .. Dates - 1
    <3> SUFFICES ASSUME c5 \in Bars PROVE DateOf(c5) \in 0 .. Dates - 1
      OBVIOUS
    <3>1. c5 \in Nat /\ c5 < Dates * SessionMinutes
      BY RowTypes, <1>0 DEF Bars, Rows
    <3>2. DateOf(c5) \in Nat /\ DateOf(c5) * SessionMinutes <= c5
      BY <3>1, Division, RowsAssumption DEF DateOf
    <3>3. DateOf(c5) < Dates
      <4>1. ASSUME DateOf(c5) >= Dates PROVE FALSE
        <5>1. DateOf(c5) * SessionMinutes >= Dates * SessionMinutes
          BY <3>2, <4>1, RowsAssumption
        <5>2. DateOf(c5) * SessionMinutes \in Int
          BY <3>2, RowsAssumption
        <5> QED BY <1>0, <3>1, <3>2, <5>1, <5>2
      <4> QED BY <3>2, <4>1, RowsAssumption
    <3> QED BY <3>2, <3>3, RowsAssumption
  <2>5. \/ lastC5' = lastC5 /\ day' = day
        \/ Complete(closing) # {} /\ lastC5' = c5 /\ day' = DateOf(c5)
    BY <1>3 DEF CloseBoundary, c5
  <2> QED BY <2>1, <2>2, <2>3, <2>4, <2>5 DEF Types
<1>4. CASE Crash \/ Exit
  BY <1>0, <1>4 DEF Crash, Exit, GoesDown, Types
<1>5. CASE Start \/ SaveMark \/ Finalize \/ \E t \in Rows : CsvGrows(t)
  BY <1>5 DEF Start, SaveMark, Finalize, CsvGrows, memory, Types
<1>6. ASSUME NEW r \in csv, EndSession(r) PROVE Types'
  BY <1>6 DEF EndSession, memory, Types
<1> QED BY <1>2, <1>3, <1>4, <1>5, <1>6 DEF Next

LEMMA TypesFollow ==
    ASSUME MarksWorked, Clocks, Types PROVE TypeOK
<1>1. /\ Dates * SessionMinutes \in Nat
      /\ (Dates + 1) * SessionMinutes = Dates * SessionMinutes + SessionMinutes
  BY RowsAssumption
<1>2. closing \in 0 .. (Dates + 1) * SessionMinutes
  BY <1>1, RowsAssumption DEF Clocks, Types
<1>3. closing % BarMinutes = 0
  <2>1. PICK k \in Nat : closing = k * BarMinutes
    BY BucketFacts DEF Clocks
  <2>2. BarMinutes \in Nat \ {0}
    BY RowsAssumption
  <2>3. (k * BarMinutes) % BarMinutes = 0
    BY <2>2, SMTT(20)
  <2> QED BY <2>1, <2>3
<1> QED BY <1>2, <1>3, RowTypes DEF TypeOK, MarksWorked, Clocks, Types

-----------------------------------------------------------------------------
(* The invariant, and what follows.                                        *)

BarsInv ==
    /\ BInv
    /\ BoundariesClosedOnce
    /\ Types

LEMMA InitBars == Init => BarsInv
<1> SUFFICES ASSUME Init PROVE BarsInv
  OBVIOUS
<1>1. WInv /\ None \notin Bars
  BY InitInvariant, RowTypes DEF WInv, Bars
<1>2. 0 \in Nat /\ Bucket(0) = 0 /\ Dates * SessionMinutes \in Nat
  <2>1. 0 * BarMinutes = 0
    BY RowsAssumption
  <2> QED BY <2>1, MultipleIsWhole, RowsAssumption
<1>3. closed \in [Boundaries -> Often] /\ \A b \in Boundaries : closed[b] = 0
  BY DEF Init, Often
<1>4. Clocks /\ Types
  <2>1. closing = 0 /\ cursor = None /\ lastC5 = None /\ day = None /\ stage = "down" /\ crashed = FALSE
    BY DEF Init
  <2>2. Clocks
    BY <1>2, <1>3, <2>1 DEF Clocks
  <2>3. Types
    <3>1. closing <= Dates * SessionMinutes
      BY <1>2, <2>1
    <3> QED BY <2>1, <3>1 DEF Types
  <2> QED BY <2>2, <2>3
<1>5. MarksSeen /\ LastBarSeen
  BY <1>1 DEF Init, MarksSeen, SeenBehind, LastBarSeen
<1> QED BY <1>1, <1>3, <1>4, <1>5 DEF BarsInv, BInv, ClosedBehind, BoundariesClosedOnce

LEMMA NextBars == BarsInv /\ Next => BarsInv'
<1> SUFFICES ASSUME BarsInv, Next PROVE BarsInv'
  OBVIOUS
<1>1. WInv' /\ MarksWorked
  BY MarksWorkedStep, NothingAheadStep DEF BarsInv, BInv, WInv
<1>2. Clocks' /\ Types' /\ MarksSeen' /\ LastBarSeen'
  BY <1>1, ClocksStep, TypesStep, MarksSeenStep, LastBarSeenStep DEF BarsInv, BInv
<1>3. (~crashed' => ClosedBehind') /\ BoundariesClosedOnce'
  BY ClosedBehindStep, BoundariesStep DEF BarsInv, BInv
<1> QED BY <1>1, <1>2, <1>3 DEF BarsInv, BInv

LEMMA StutterBars == BarsInv /\ UNCHANGED vars => BarsInv'
<1> SUFFICES ASSUME BarsInv, UNCHANGED vars PROVE BarsInv'
  OBVIOUS
<1>1. WInv'
  BY StutterInvariant DEF BarsInv, BInv
<1>2. Clocks' /\ Types' /\ BoundariesClosedOnce'
  BY DEF BarsInv, BInv, vars, memory, Clocks, Types, BoundariesClosedOnce, Bucket
<1>3. ~crashed' => ClosedBehind'
  BY DEF BarsInv, BInv, vars, memory, ClosedBehind, NotPast, JustClosed, IsNext, IsOld, Ahead, Bucket
<1>4. MarksSeen'
  BY DEF BarsInv, BInv, vars, memory, MarksSeen, SeenBehind, BarsBehind, Bucket
<1>5. LastBarSeen'
  BY DEF BarsInv, BInv, vars, memory, LastBarSeen, Whole, Bucket, IsNext, Ahead, BoundaryDue, DateOf
<1> QED BY <1>1, <1>2, <1>3, <1>4, <1>5 DEF BarsInv, BInv

(* What boundaries and marks say of bars: closed ones lie behind the row   *)
(* last worked on, and every whole bar behind a mark has been seen.        *)
THEOREM BarsInvariant == Spec => []BarsInv
<1>1. BarsInv /\ [Next]_vars => BarsInv'
  BY NextBars, StutterBars
<1> QED BY <1>1, InitBars, PTL DEF Spec

(* The types, for every number of sessions, rows and bars.                 *)
THEOREM TypeCorrect == Spec => []TypeOK
<1>1. BarsInv => TypeOK
  BY TypesFollow DEF BarsInv, BInv, WInv
<1> QED BY <1>1, BarsInvariant, PTL

(* No boundary is closed, and journaled as current, in two finalized runs. *)
THEOREM BoundariesClosedOnceThm == Spec => []BoundariesClosedOnce
<1>1. BarsInv => BoundariesClosedOnce
  BY DEF BarsInv
<1> QED BY <1>1, BarsInvariant, PTL

(* A run that dies anywhere, also between the two files, loses no bar of   *)
(* the levels.                                                             *)
THEOREM BarsNotLostThm == Spec => []BarsNotLost
<1>1. BarsInv => BarsNotLost
  BY DEF BarsInv, BInv, MarksSeen, SeenBehind, BarsNotLost
<1> QED BY <1>1, BarsInvariant, PTL
=============================================================================
