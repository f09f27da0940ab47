-------------------------- MODULE CandleStoreProofs --------------------------
(***************************************************************************)
(* Proof that a run that reads its rows again sees the past as the file    *)
(* has it, whatever cache it started from, for all timeframes, sessions    *)
(* and prices.                                                             *)
(***************************************************************************)
EXTENDS CandleStore, FiniteOrder

(* A bucket depends on nothing but the series' rows in its span.           *)
LEMMA SamePart ==
    ASSUME NEW m, NEW n, NEW k, \A t \in Span(k) : m[t] = n[t]
    PROVE  /\ Rebuilt(m, k) = Rebuilt(n, k)
           /\ Short(m, k) <=> Short(n, k)
<1>1. Part(m, k) = Part(n, k)
  BY DEF Part
<1> QED BY <1>1 DEF Rebuilt, Short

(* A bucket without rows has no bar.                                       *)
LEMMA EmptyBucket ==
    ASSUME NEW m, NEW k, \A t \in Span(k) : m[t] = None
    PROVE  Rebuilt(m, k) = None
<1>1. Members(Part(m, k)) = {}
  BY DEF Members, Part
<1> QED BY <1>1 DEF Rebuilt, Aggregate

LEMMA BarHasRow ==
    ASSUME NEW m, NEW k, Rebuilt(m, k) # None
    PROVE  \E t \in Span(k) : m[t] # None
BY EmptyBucket

LEMMA SpanIsRows == \A k : Span(k) \subseteq Rows
BY DEF Span

LEMMA RowsAreInts == Rows \subseteq Int
BY FramesAssumption DEF Rows

(* A dead process remembers nothing, and the last files are as they were.  *)
LEMMA InitStep == Init => CInv
<1> SUFFICES ASSUME Init PROVE CInv
  OBVIOUS
<1>1. Shapes
  BY DEF Init, Shapes, NoRows, NoBars
<1>2. NothingInvented /\ ReadExact
  BY DEF Init, NothingInvented, ReadExact, NoRows, NoBars
<1> QED BY <1>1, <1>2 DEF CInv

(* The file only gains: a changed row is still there.                      *)
LEMMA FileChangesStep == ASSUME CInv, FileChanges PROVE CInv'
<1>1. PICK t \in Rows : \E p \in Quotes[t] : csv' = [csv EXCEPT ![t] = p]
  BY DEF FileChanges
<1>2. PICK p \in Quotes[t] : csv' = [csv EXCEPT ![t] = p]
  BY <1>1
<1>3. p \in Int /\ p # None
  BY <1>2, QuotesAssumption
<1>4. UNCHANGED <<stage, cursor, m1, bars, incomplete, disk>> /\ stage = "down"
  BY DEF FileChanges, store
<1>5. Shapes'
  BY <1>2, <1>4, <1>3 DEF CInv, Shapes
<1>6. \A u \in Rows : csv[u] # None => csv'[u] # None
  BY <1>2, <1>3 DEF CInv, Shapes
<1>7. NothingInvented'
  BY <1>4, <1>6, SpanIsRows DEF CInv, NothingInvented
<1>8. ReadExact'
  BY <1>4 DEF ReadExact
<1> QED BY <1>5, <1>7, <1>8 DEF CInv

(* What load brings back of a bucket the file says nothing of is nothing.  *)
LEMMA LoadStep == ASSUME CInv, Load PROVE CInv'
<1>1. m1' = disk.m1 /\ csv' = csv /\ disk' = disk /\ cursor' = -1 /\ stage' = "read"
  BY DEF Load
<1>2. incomplete' \subseteq Buckets
  BY DEF Load
<1>3. bars' = [k \in Buckets |-> IF k[1] \in disk.files THEN disk.bars[k] ELSE Rebuilt(disk.m1, k)]
  BY DEF Load
<1>4. Shapes'
  BY <1>1, <1>2, <1>3 DEF CInv, Shapes
<1>5. ASSUME NEW k \in Buckets, bars'[k] # None PROVE \E t \in Span(k) : csv[t] # None
  <2>1. CASE k[1] \in disk.files
    BY <1>3, <1>5, <2>1 DEF CInv, NothingInvented
  <2>2. CASE k[1] \notin disk.files
    <3>1. Rebuilt(disk.m1, k) # None
      BY <1>3, <1>5, <2>2
    <3> QED BY <3>1, BarHasRow, SpanIsRows DEF CInv, NothingInvented
  <2> QED BY <2>1, <2>2
<1>6. NothingInvented'
  BY <1>1, <1>5 DEF CInv, NothingInvented
<1>7. ASSUME NEW t \in Rows PROVE ~(t <= -1) /\ (~Unread(t)' => csv[t] = None)
  <2>1. t \in Int /\ 0 <= t
    BY DEF Rows
  <2> QED BY <1>1, <2>1 DEF Unread
<1>8. ASSUME NEW k \in Buckets, \A t \in Span(k) : ~Unread(t)'
      PROVE  bars'[k] = None /\ Rebuilt(csv, k) = None
  <2>1. \A t \in Span(k) : csv[t] = None
    BY <1>7, <1>8, SpanIsRows
  <2> QED BY <1>5, <2>1, EmptyBucket
<1>9. ReadExact'
  BY <1>1, <1>7, <1>8 DEF ReadExact
<1> QED BY <1>4, <1>6, <1>9 DEF CInv

(* The row that completes what is known of a bucket rebuilds it.           *)
LEMMA AddStep == ASSUME CInv, NEW t \in Rows, Add(t) PROVE CInv'
<1>1. /\ stage = "read" /\ stage' = "read" /\ cursor' = t /\ csv' = csv /\ disk' = disk
      /\ csv[t] # None /\ cursor < t /\ \A u \in Rows : Unread(u) => t <= u
  BY DEF Add, ReadsNext, Unread
<1>2. m1' = [m1 EXCEPT ![t] = csv[t]]
  BY DEF Add
<1>3. bars' = [k \in Buckets |-> IF t \in Span(k) THEN Rebuilt(m1', k) ELSE bars[k]]
  BY DEF Add
<1>4. incomplete' = {k \in Buckets : IF t \in Span(k) THEN Short(m1', k) ELSE k \in incomplete}
  BY DEF Add
<1>5. Shapes'
  BY <1>1, <1>2, <1>3, <1>4, RowsAreInts DEF CInv, Shapes
<1>6. \A u \in Rows : m1'[u] = IF u = t THEN csv[t] ELSE m1[u]
  BY <1>2 DEF CInv, Shapes
<1>7. \A u \in Rows : m1'[u] # None => csv[u] # None
  BY <1>1, <1>6 DEF CInv, NothingInvented
<1>8. \A k \in Buckets : bars'[k] # None => \E u \in Span(k) : csv[u] # None
  <2> SUFFICES ASSUME NEW k \in Buckets, bars'[k] # None
               PROVE  \E u \in Span(k) : csv[u] # None
    OBVIOUS
  <2>1. CASE t \in Span(k)
    BY <1>1, <2>1
  <2>2. CASE t \notin Span(k)
    BY <1>3, <2>2 DEF CInv, NothingInvented
  <2> QED BY <2>1, <2>2
<1>9. NothingInvented'
  BY <1>1, <1>7, <1>8 DEF CInv, NothingInvented
<1>10. ASSUME NEW u \in Rows, u <= t, u # t PROVE m1'[u] = csv[u] /\ ~Unread(u)
  <2>1. u \in Int /\ t \in Int /\ cursor \in Int
    BY RowsAreInts DEF CInv, Shapes
  <2>2. ~Unread(u)
    BY <1>1, <1>10, <2>1
  <2>3. CASE u <= cursor
    BY <1>1, <1>6, <1>10, <2>2, <2>3 DEF CInv, ReadExact
  <2>4. CASE cursor < u
    BY <1>6, <1>10, <2>2, <2>4 DEF CInv, NothingInvented, Unread
  <2> QED BY <2>1, <2>2, <2>3, <2>4
<1>11. \A u \in Rows : u <= t => m1'[u] = csv[u]
  BY <1>6, <1>10
<1>12. ASSUME NEW k \in Buckets, \A u \in Span(k) : ~Unread(u)'
       PROVE  /\ bars'[k] = Rebuilt(csv, k)
              /\ bars'[k] # None => (k \in incomplete' <=> Short(csv, k))
  <2>1. ASSUME NEW u \in Span(k), csv[u] # None PROVE u <= t
    <3>1. u \in Rows /\ u \in Int /\ t \in Int
      BY SpanIsRows, RowsAreInts
    <3>2. ~Unread(u)'
      BY <1>12
    <3>3. ~(t < u)
      BY <1>1, <2>1, <3>1, <3>2 DEF Unread
    <3> QED BY <3>1, <3>3
  <2>2. CASE t \in Span(k)
    <3>1. \A u \in Span(k) : m1'[u] = csv[u]
      BY <1>7, <1>11, <2>1, SpanIsRows
    <3>2. Rebuilt(m1', k) = Rebuilt(csv, k) /\ (Short(m1', k) <=> Short(csv, k))
      BY <3>1, SamePart
    <3> QED BY <1>3, <1>4, <2>2, <3>2
  <2>3. CASE t \notin Span(k)
    <3>1. \A u \in Span(k) : ~Unread(u)
      BY <1>10, <2>1, <2>3, SpanIsRows DEF Unread
    <3>2. /\ bars[k] = Rebuilt(csv, k)
          /\ bars[k] # None => (k \in incomplete <=> Short(csv, k))
      BY <1>1, <3>1 DEF CInv, ReadExact
    <3>3. bars'[k] = bars[k] /\ (k \in incomplete' <=> k \in incomplete)
      BY <1>3, <1>4, <2>3
    <3> QED BY <3>2, <3>3
  <2> QED BY <2>2, <2>3
<1>13. ReadExact'
  BY <1>1, <1>11, <1>12 DEF ReadExact
<1> QED BY <1>5, <1>9, <1>13 DEF CInv

LEMMA FeedEndsStep == ASSUME CInv, FeedEnds PROVE CInv'
<1>1. UNCHANGED <<csv, cursor, m1, bars, incomplete, disk>> /\ stage = "read"
  BY DEF FeedEnds, store
<1>2. \A t : Unread(t)' <=> Unread(t)
  BY <1>1 DEF Unread
<1> QED BY <1>1, <1>2 DEF CInv, Shapes, NothingInvented, ReadExact

(* save changes the files only, to what memory holds.                      *)
LEMMA SaveFileStep == ASSUME CInv, NEW f \in Files, SaveFile(f) PROVE CInv'
<1>1. UNCHANGED <<csv, cursor, m1, bars, incomplete>> /\ stage = "save"
  BY DEF SaveFile, store
<1>2. disk' = disk \/ Written(f)
  BY DEF SaveFile
<1>3. /\ disk'.m1 = disk.m1 \/ disk'.m1 = m1
      /\ \A k \in Buckets : disk'.bars[k] = disk.bars[k] \/ disk'.bars[k] = bars[k]
  BY <1>2 DEF Written
<1>4. disk'.bars = [k \in Buckets |-> disk'.bars[k]]
  BY <1>2 DEF Written, CInv, Shapes
<1>5. Shapes'
  BY <1>1, <1>3, <1>4 DEF CInv, Shapes
<1>6. NothingInvented'
  BY <1>1, <1>3 DEF CInv, NothingInvented
<1>7. \A t : Unread(t)' <=> Unread(t)
  BY <1>1 DEF Unread
<1>8. ReadExact'
  BY <1>1, <1>7 DEF CInv, ReadExact
<1> QED BY <1>5, <1>6, <1>8 DEF CInv

LEMMA StopStep == ASSUME CInv, Stop PROVE CInv'
<1>1. /\ stage' = "down" /\ csv' = csv /\ disk' = disk /\ cursor' = -1
      /\ m1' = NoRows /\ bars' = NoBars /\ incomplete' = {}
  BY DEF Stop
<1>2. Shapes'
  BY <1>1 DEF CInv, Shapes, NoRows, NoBars
<1>3. NothingInvented'
  BY <1>1 DEF CInv, NothingInvented, NoRows, NoBars
<1> QED BY <1>1, <1>2, <1>3 DEF CInv, ReadExact

(* CInv is inductive.                                                      *)
THEOREM Invariant == Spec => []CInv
<1>1. Init => CInv
  BY InitStep
<1>2. CInv /\ [Next]_vars => CInv'
  <2> SUFFICES ASSUME CInv, [Next]_vars PROVE CInv'
    OBVIOUS
  <2>1. CASE Next
    BY <2>1, FileChangesStep, LoadStep, AddStep, FeedEndsStep, SaveFileStep, StopStep DEF Next
  <2>2. CASE UNCHANGED vars
    BY <2>2 DEF vars, store, CInv, Shapes, NothingInvented, ReadExact, Unread
  <2> QED BY <2>1, <2>2
<1> QED BY <1>1, <1>2, PTL DEF Spec

(* Whatever the cache held, a boundary sees the past exactly as the file   *)
(* has it: for every timeframe, session length and history of saves.       *)
THEOREM ViewsExactThm == Spec => []ViewsExact
<1>1. ASSUME CInv, stage \in {"read", "save"}, NEW t \in Rows,
             \A u \in Rows : Unread(u) => t < u
      PROVE  m1[t] = csv[t]
  <2>1. ~Unread(t)
    BY <1>1, RowsAreInts
  <2>2. CASE t <= cursor
    BY <1>1, <2>2 DEF CInv, ReadExact
  <2>3. CASE cursor < t
    BY <1>1, <2>1, <2>3 DEF CInv, NothingInvented, Unread
  <2>4. t \in Int /\ cursor \in Int
    BY <1>1, RowsAreInts DEF CInv, Shapes
  <2> QED BY <2>2, <2>3, <2>4
<1>2. ASSUME CInv, stage \in {"read", "save"}, NEW k \in Buckets,
             \A u \in Rows : Unread(u) => End(k) <= u
      PROVE  Shown(k) = IF Short(csv, k) THEN None ELSE Rebuilt(csv, k)
  <2>1. End(k) \in Int
    BY FramesAssumption DEF Buckets, Start, End, Rows
  <2>2. \A t \in Span(k) : ~Unread(t)
    BY <1>2, <2>1, RowsAreInts DEF Span
  <2>3. /\ bars[k] = Rebuilt(csv, k)
        /\ bars[k] # None => (k \in incomplete <=> Short(csv, k))
    BY <1>2, <2>2 DEF CInv, ReadExact
  <2> QED BY <2>3 DEF Shown
<1>3. CInv => ViewsExact
  BY <1>1, <1>2 DEF ViewsExact
<1> QED BY <1>3, Invariant, PTL

-----------------------------------------------------------------------------
(* Types: what a bucket aggregates to is a bar.                            *)

Quoted(m) == \A t \in Rows : m[t] \in {None} \cup Quotes[t]

LEMMA RebuiltType ==
    ASSUME NEW m, Quoted(m), NEW k
    PROVE  /\ Rebuilt(m, k) \in {None} \cup Bars
           /\ Rebuilt(m, k) = None => \A t \in Span(k) : m[t] = None
<1> DEFINE part == Part(m, k)
           members == Members(part)
           prices == {part[t] : t \in members}
<1>1. members = {t \in Span(k) : m[t] # None} /\ \A t \in members : part[t] = m[t]
  BY DEF Members, Part
<1>2. IsFiniteSet(Rows)
  <2>1. Dates * DayMinutes - 1 \in Int
    BY FramesAssumption
  <2>2. IsFiniteSet(0 .. Dates * DayMinutes - 1)
    BY <2>1, FS_Interval
  <2> QED BY <2>2, FS_Subset DEF Rows
<1>3. members \subseteq Int /\ IsFiniteSet(members)
  BY <1>1, <1>2, SpanIsRows, RowsAreInts, FS_Subset
<1>4. prices \subseteq Prices /\ prices \subseteq Int
  BY <1>1, SpanIsRows, QuotesAssumption DEF Quoted, Prices
<1>5. IsFiniteSet(prices)
  <2> DEFINE f == [t \in members |-> part[t]]
  <2>1. f \in Surjection(members, prices)
    BY DEF Surjection
  <2> HIDE DEF part, members, prices
  <2> QED BY <1>3, <2>1, FS_Surjection
<1>6. CASE members = {}
  BY <1>1, <1>6 DEF Rebuilt, Aggregate
<1>7. CASE members # {}
  <2>1. prices # {}
    BY <1>7
  <2>2. Min(members) \in members /\ Max(members) \in members
    <3> HIDE DEF members
    <3> QED BY <1>3, <1>7, MinMax
  <2>3. Min(prices) \in Prices /\ Max(prices) \in Prices
    <3> HIDE DEF prices
    <3> QED BY <1>4, <1>5, <2>1, MinMax
  <2>4. part[Min(members)] \in Prices /\ part[Max(members)] \in Prices
    BY <1>4, <2>2
  <2>5. Rebuilt(m, k) = [open |-> part[Min(members)], high |-> Max(prices),
                         low |-> Min(prices), close |-> part[Max(members)]]
    BY <1>7 DEF Rebuilt, Aggregate
  <2>6. Rebuilt(m, k) \in Bars
    <3> HIDE DEF part, members, prices
    <3> QED BY <2>3, <2>4, <2>5 DEF Bars
  <2> QED BY <2>6, BarsAssumption
<1> QED BY <1>6, <1>7

LEMMA TypesInit == Init => TypeOK
<1> SUFFICES ASSUME Init PROVE TypeOK
  OBVIOUS
<1>1. \A t \in Rows : csv[t] = None /\ m1[t] = None /\ disk.m1[t] = None
  BY DEF Init, NoRows
<1> QED BY <1>1 DEF Init, TypeOK, NoBars

LEMMA TypesStep == ASSUME CInv, TypeOK, Next PROVE TypeOK'
<1>0. Quoted(csv) /\ Quoted(m1) /\ Quoted(disk.m1)
  BY DEF TypeOK, Quoted
<1> DEFINE RowTypes == \A t \in Rows : {csv[t], m1[t], disk.m1[t]} \subseteq {None} \cup Quotes[t]
<1>1. CASE FileChanges
  <2>1. PICK t \in Rows : \E p \in Quotes[t] : csv' = [csv EXCEPT ![t] = p]
    BY <1>1 DEF FileChanges
  <2>2. \A u \in Rows : csv'[u] \in {None} \cup Quotes[u]
    BY <1>0, <2>1 DEF CInv, Shapes, Quoted
  <2>3. RowTypes'
    BY <1>0, <1>1, <2>2 DEF FileChanges, store, Quoted
  <2> QED BY <1>1, <2>3 DEF FileChanges, store, TypeOK
<1>2. CASE Load
  <2>1. \A k \in Buckets : Rebuilt(disk.m1, k) \in {None} \cup Bars
    BY <1>0, RebuiltType
  <2>2. bars' \in [Buckets -> {None} \cup Bars]
    BY <1>2, <2>1 DEF Load, TypeOK
  <2>3. RowTypes'
    BY <1>0, <1>2 DEF Load, Quoted
  <2>4. incomplete' \subseteq Buckets
    BY <1>2 DEF Load
  <2> QED BY <1>2, <2>2, <2>3, <2>4 DEF Load, TypeOK
<1>3. ASSUME NEW t \in Rows, Add(t) PROVE TypeOK'
  <2>1. \A u \in Rows : m1'[u] = IF u = t THEN csv[t] ELSE m1[u]
    BY <1>3 DEF Add, CInv, Shapes
  <2>2. \A u \in Rows : m1'[u] \in {None} \cup Quotes[u]
    BY <1>0, <2>1 DEF Quoted
  <2>3. \A k \in Buckets : Rebuilt(m1', k) \in {None} \cup Bars
    BY <2>2, RebuiltType DEF Quoted
  <2>4. bars' \in [Buckets -> {None} \cup Bars]
    BY <1>3, <2>3 DEF Add, TypeOK
  <2>5. RowTypes'
    BY <1>0, <1>3, <2>2 DEF Add, ReadsNext, Quoted
  <2>6. incomplete' \subseteq Buckets
    BY <1>3 DEF Add
  <2> QED BY <1>3, <2>4, <2>5, <2>6 DEF Add, ReadsNext, TypeOK
<1>4. CASE FeedEnds
  BY <1>4 DEF FeedEnds, store, TypeOK
<1>5. ASSUME NEW f \in Files, SaveFile(f) PROVE TypeOK'
  <2>1. disk' = disk \/ Written(f)
    BY <1>5 DEF SaveFile
  <2>2. disk'.m1 = disk.m1 \/ disk'.m1 = m1
    BY <2>1 DEF Written
  <2>3. disk'.bars \in [Buckets -> {None} \cup Bars] /\ disk'.files \subseteq Files
    BY <2>1 DEF Written, TypeOK
  <2>4. RowTypes'
    BY <1>0, <1>5, <2>2 DEF SaveFile, store, Quoted
  <2> QED BY <1>5, <2>3, <2>4 DEF SaveFile, store, TypeOK
<1>6. CASE Stop
  <2>1. RowTypes'
    BY <1>0, <1>6 DEF Stop, NoRows, Quoted
  <2> QED BY <1>6, <2>1 DEF Stop, NoBars, TypeOK
<1> QED BY <1>1, <1>2, <1>3, <1>4, <1>5, <1>6 DEF Next

(* Every variable keeps its type: a derived bar's prices are prices the    *)
(* data file can have, whatever subset of a bucket's minutes is there.     *)
THEOREM TypeCorrect == Spec => []TypeOK
<1>1. CInv /\ TypeOK /\ [Next]_vars => TypeOK'
  <2>1. TypeOK /\ UNCHANGED vars => TypeOK'
    BY DEF vars, store, TypeOK
  <2> QED BY <2>1, TypesStep
<1> QED BY <1>1, TypesInit, Invariant, PTL DEF Spec

-----------------------------------------------------------------------------
(* The files of a save that came to its end.                               *)

(* Memory never knows less than the files it was loaded from, so a series  *)
(* that save skips because it is empty has no file to leave behind; what   *)
(* save has been through is written as memory has it, and that is what M1  *)
(* says, because by then every row was read.                               *)
FilesFollow ==
    /\ \A k \in Buckets : disk.bars[k] # None => k[1] \in disk.files
    /\ stage # "down" =>
         /\ \A t \in Rows : disk.m1[t] # None => m1[t] # None
         /\ \A k \in Buckets : disk.bars[k] # None => bars[k] # None
    /\ stage \in {"save", "saved"} =>
         /\ \A k \in Buckets : bars[k] = Rebuilt(m1, k)
         /\ 1 \notin unsaved => disk.m1 = m1
         /\ \A k \in Buckets : k[1] \notin unsaved => disk.bars[k] = bars[k]
    /\ stage = "saved" => unsaved = {}

LEMMA FilesInit == Init => FilesFollow
BY DEF Init, FilesFollow, NoRows, NoBars

LEMMA FilesLoad == ASSUME CInv, FilesFollow, Load PROVE FilesFollow'
<1>1. m1' = disk.m1 /\ disk' = disk /\ stage' = "read"
  BY DEF Load
<1>2. \A k \in Buckets : k[1] \in disk.files => bars'[k] = disk.bars[k]
  BY DEF Load
<1> QED BY <1>1, <1>2 DEF FilesFollow

LEMMA FilesAdd ==
    ASSUME CInv, TypeOK, FilesFollow, NEW t \in Rows, Add(t) PROVE FilesFollow'
<1>1. stage = "read" /\ stage' = "read" /\ disk' = disk /\ csv[t] # None
  BY DEF Add, ReadsNext, Unread
<1>2. \A u \in Rows : m1'[u] = IF u = t THEN csv[t] ELSE m1[u]
  BY DEF Add, CInv, Shapes
<1>3. ASSUME NEW k \in Buckets, disk.bars[k] # None PROVE bars'[k] # None
  <2>1. bars'[k] = IF t \in Span(k) THEN Rebuilt(m1', k) ELSE bars[k]
    BY DEF Add
  <2>2. CASE t \in Span(k)
    <3>1. m1'[t] # None
      BY <1>1, <1>2
    <3>2. \A u \in Rows : m1'[u] \in {None} \cup Quotes[u]
      BY <1>2 DEF TypeOK
    <3>3. Rebuilt(m1', k) # None
      BY <2>2, <3>1, <3>2, RebuiltType DEF Quoted
    <3> QED BY <2>1, <2>2, <3>3
  <2>3. CASE t \notin Span(k)
    BY <1>1, <1>3, <2>1, <2>3 DEF FilesFollow
  <2> QED BY <2>2, <2>3
<1> QED BY <1>1, <1>2, <1>3 DEF FilesFollow

LEMMA FilesEnd == ASSUME CInv, FilesFollow, FeedEnds PROVE FilesFollow'
<1>1. /\ UNCHANGED <<m1, bars, disk>> /\ stage = "read" /\ stage' = "save" /\ unsaved' = Files
      /\ \A t \in Rows : ~Unread(t)
  BY DEF FeedEnds, store
<1>2. \A k \in Buckets : k[1] \in Files
  BY DEF Buckets, Files
<1>3. ASSUME NEW t \in Rows PROVE m1[t] = csv[t]
  <2>1. t \in Int /\ cursor \in Int
    BY RowsAreInts DEF CInv, Shapes
  <2>2. CASE t <= cursor
    BY <1>1, <2>2 DEF CInv, ReadExact
  <2>3. CASE cursor < t
    BY <1>1, <2>3 DEF CInv, NothingInvented, Unread
  <2> QED BY <2>1, <2>2, <2>3
<1>4. ASSUME NEW k \in Buckets PROVE bars[k] = Rebuilt(m1, k)
  <2>1. bars[k] = Rebuilt(csv, k)
    BY <1>1, SpanIsRows DEF CInv, ReadExact
  <2>2. Rebuilt(m1, k) = Rebuilt(csv, k)
    BY <1>3, SpanIsRows, SamePart
  <2> QED BY <2>1, <2>2
<1>5. 1 \in Files
  BY DEF Files
<1>6. \A k \in Buckets : bars'[k] = Rebuilt(m1', k)
  BY <1>1, <1>4
<1> QED BY <1>1, <1>2, <1>5, <1>6 DEF FilesFollow

LEMMA FilesSave == ASSUME CInv, FilesFollow, NEW f \in Files, SaveFile(f) PROVE FilesFollow'
<1>1. /\ UNCHANGED <<m1, bars>> /\ stage = "save" /\ unsaved' = unsaved \ {f}
      /\ stage' = IF unsaved' = {} THEN "saved" ELSE "save"
      /\ IF EmptySeries(f) THEN UNCHANGED disk ELSE Written(f)
  BY DEF SaveFile, store
<1>2. \A k \in Buckets : bars'[k] = Rebuilt(m1', k)
  BY <1>1 DEF FilesFollow
<1>3. CASE EmptySeries(f)
  <2>1. f = 1 => disk.m1 = m1
    <3> SUFFICES ASSUME f = 1 PROVE disk.m1 = m1
      OBVIOUS
    <3>1. \A t \in Rows : m1[t] = None /\ disk.m1[t] = None
      BY <1>1, <1>3 DEF EmptySeries, NoRows, FilesFollow
    <3>2. m1 \in [Rows -> {None} \cup Int] /\ disk.m1 \in [Rows -> {None} \cup Int]
      BY DEF CInv, Shapes
    <3> QED BY <3>1, <3>2
  <2>2. ASSUME NEW k \in Buckets, k[1] = f PROVE disk.bars[k] = bars[k]
    <3>1. CASE f = 1
      BY <2>2, <3>1, FramesAssumption DEF Buckets
    <3>2. CASE f # 1
      BY <1>1, <1>3, <2>2, <3>2 DEF EmptySeries, FilesFollow
    <3> QED BY <3>1, <3>2
  <2> QED BY <1>1, <1>2, <1>3, <2>1, <2>2 DEF FilesFollow
<1>4. CASE Written(f)
  <2>1. /\ disk'.m1 = IF f = 1 THEN m1 ELSE disk.m1
        /\ \A k \in Buckets : disk'.bars[k] = IF k[1] = f THEN bars[k] ELSE disk.bars[k]
        /\ disk'.files = disk.files \cup {f}
    BY <1>4 DEF Written
  <2> QED BY <1>1, <1>2, <2>1 DEF FilesFollow
<1> QED BY <1>1, <1>3, <1>4

LEMMA FilesRest ==
    ASSUME CInv, FilesFollow, FileChanges \/ Stop \/ UNCHANGED vars PROVE FilesFollow'
<1>1. CASE FileChanges
  BY <1>1 DEF FileChanges, store, FilesFollow
<1>2. CASE Stop
  BY <1>2 DEF Stop, FilesFollow
<1>3. CASE UNCHANGED vars
  BY <1>3 DEF vars, store, FilesFollow
<1> QED BY <1>1, <1>2, <1>3

(* The files of a finished save agree with one another, for every history  *)
(* of saves that were cut short and of corrections of the file.            *)
THEOREM SavedFilesAgreeThm == Spec => []SavedFilesAgree
<1>1. CInv /\ TypeOK /\ FilesFollow /\ [Next]_vars => FilesFollow'
  BY FilesLoad, FilesAdd, FilesEnd, FilesSave, FilesRest DEF Next
<1>2. FilesFollow => SavedFilesAgree
  BY DEF FilesFollow, SavedFilesAgree
<1>3. Init => FilesFollow
  BY FilesInit
<1> QED BY <1>1, <1>2, <1>3, Invariant, TypeCorrect, PTL DEF Spec
=============================================================================
