----------------------------- MODULE CandleStore -----------------------------
(***************************************************************************)
(* The candles of one symbol over several runs of the program              *)
(* (src/app/trader/store/candles.py): a run loads the series the last run  *)
(* cached, adds every M1 row of the data file on top in time order, and    *)
(* saves one file per timeframe.  The data file grows and is corrected     *)
(* between runs, and a run may die anywhere, also between two files.       *)
(*                                                                         *)
(* Time is minutes since the first open; a row is one price.  A series, a  *)
(* list sorted by ts without duplicates, is a function of ts.              *)
(***************************************************************************)
EXTENDS Integers, FiniteSets, FiniteSetsExt

CONSTANTS
    Dates, DayMinutes,  \* number of sessions, minutes from one open to the next
    SessionMinutes,     \* spec.session_minutes
    Frames,             \* minutes of the derived timeframes, D1's included
    Quotes,             \* [t |-> what the file can say of minute t]
    None

Rows == {t \in 0 .. Dates * DayMinutes - 1 : t % DayMinutes < SessionMinutes}

ASSUME FramesAssumption ==
    /\ Dates \in Nat /\ DayMinutes \in Nat \ {0} /\ SessionMinutes \in Nat
    /\ Frames \subseteq Nat \ {0, 1} /\ IsFiniteSet(Frames)
ASSUME QuotesAssumption ==
    DOMAIN Quotes = Rows /\ \A t \in Rows : Quotes[t] \subseteq Int \ {None}

VARIABLES
    stage,      \* "down", "read" (candles are added), "save", "saved"
    csv,        \* the rows of the data file
    cursor,     \* the last row read in this run, -1 before the first
    m1,         \* _data[symbol][M1]
    bars,       \* _data[symbol][tf], per bucket <<tf, start>>
    incomplete, \* _incomplete
    unsaved,    \* timeframes save has yet to write (1 is M1)
    disk        \* [m1, bars, files]: the parquet files, and which are there

store == <<m1, bars, incomplete>>
vars  == <<stage, csv, cursor, store, unsaved, disk>>

Start(f, t)   == LET open == (t \div DayMinutes) * DayMinutes
                 IN  open + ((t - open) \div f) * f
Buckets       == {<<f, Start(f, t)>> : f \in Frames, t \in Rows}
SessionEnd(t) == (t \div DayMinutes) * DayMinutes + SessionMinutes
End(k)        == k[2] + k[1]                        \* when the bucket is visible
Span(k)       == {t \in Rows : k[2] <= t /\ t < End(k)}

NoRows == [t \in Rows |-> None]
NoBars == [k \in Buckets |-> None]
Prices == UNION {Quotes[t] : t \in Rows}
Bars   == [open : Prices, high : Prices, low : Prices, close : Prices]
Files  == {1} \cup Frames

ASSUME BarsAssumption == None \notin Bars

(* The M1 members of a bucket, as the series m has them.                   *)
Part(m, k)    == [t \in Span(k) |-> m[t]]
Members(part) == {t \in DOMAIN part : part[t] # None}

Aggregate(part) ==
    LET members == Members(part)
        prices  == {part[t] : t \in members}
    IN  IF members = {} THEN None
        ELSE [open |-> part[Min(members)], high |-> Max(prices),
              low |-> Min(prices), close |-> part[Max(members)]]

Expected(k) == (IF End(k) > SessionEnd(k[2]) THEN SessionEnd(k[2]) ELSE End(k)) - k[2]

(* _audit_bucket: fewer members than the span expects.                     *)
Short(m, k) == Cardinality(Members(Part(m, k))) < Expected(k)
Rebuilt(m, k) == Aggregate(Part(m, k))

Init ==
    /\ stage = "down" /\ csv = NoRows /\ cursor = -1
    /\ m1 = NoRows /\ bars = NoBars /\ incomplete = {}
    /\ unsaved = {} /\ disk = [m1 |-> NoRows, bars |-> NoBars, files |-> {}]

-----------------------------------------------------------------------------
(* Between runs the file gets a row, or another price for one it has.      *)
FileChanges ==
    /\ stage = "down"
    /\ \E t \in Rows : \E p \in Quotes[t] : csv' = [csv EXCEPT ![t] = p]
    /\ UNCHANGED <<stage, cursor, store, unsaved, disk>>

(* load trusts the buckets of a file that is there and re-derives its      *)
(* completeness; a missing timeframe is rebuilt from M1.                   *)
Load ==
    /\ stage = "down" /\ stage' = "read"
    /\ m1' = disk.m1
    /\ bars' = [k \in Buckets |-> IF k[1] \in disk.files THEN disk.bars[k]
                                  ELSE Rebuilt(disk.m1, k)]
    /\ incomplete' = IF disk.m1 = NoRows THEN {}
                     ELSE {k \in Buckets : bars'[k] # None /\ Short(disk.m1, k)}
    /\ cursor' = -1
    /\ UNCHANGED <<csv, unsaved, disk>>

Unread(t) == t \in Rows /\ csv[t] # None /\ cursor < t

(* The feed's next row.                                                    *)
ReadsNext(t) ==
    /\ stage = "read" /\ Unread(t) /\ \A u \in Rows : Unread(u) => t <= u
    /\ cursor' = t
    /\ UNCHANGED <<stage, csv, unsaved, disk>>

(* Mutants of Add: a minute that is known already is passed over; or the   *)
(* audit files its answer under the row instead of the bucket.             *)
AddPassesOver(t) ==
    /\ ReadsNext(t)
    /\ m1' = [m1 EXCEPT ![t] = csv[t]]
    /\ IF m1[t] # None THEN UNCHANGED <<bars, incomplete>>
       ELSE /\ bars' = [k \in Buckets |-> IF t \in Span(k) THEN Rebuilt(m1', k) ELSE bars[k]]
            /\ incomplete' = {k \in Buckets : IF t \in Span(k) THEN Short(m1', k)
                                              ELSE k \in incomplete}

AddAuditsRow(t) ==
    /\ ReadsNext(t)
    /\ m1' = [m1 EXCEPT ![t] = csv[t]]
    /\ bars' = [k \in Buckets |-> IF t \in Span(k) THEN Rebuilt(m1', k) ELSE bars[k]]
    /\ incomplete' = incomplete \cup
          {<<k[1], t>> : k \in {b \in Buckets : t \in Span(b) /\ Short(m1', b)}}

(* add: the row takes its place, or another's, and every bucket that holds *)
(* it is rebuilt and audited.                                              *)
Add(t) ==
    /\ ReadsNext(t)
    /\ m1' = [m1 EXCEPT ![t] = csv[t]]
    /\ bars' = [k \in Buckets |-> IF t \in Span(k) THEN Rebuilt(m1', k) ELSE bars[k]]
    /\ incomplete' = {k \in Buckets : IF t \in Span(k) THEN Short(m1', k)
                                      ELSE k \in incomplete}

(* The feed is exhausted: save begins.                                     *)
FeedEnds ==
    /\ stage = "read" /\ \A t \in Rows : ~Unread(t)
    /\ stage' = "save" /\ unsaved' = Files
    /\ UNCHANGED <<csv, cursor, store, disk>>

Written(f) == disk' =
    [m1    |-> IF f = 1 THEN m1 ELSE disk.m1,
     bars  |-> [k \in Buckets |-> IF k[1] = f THEN bars[k] ELSE disk.bars[k]],
     files |-> disk.files \cup {f}]

EmptySeries(f) == IF f = 1 THEN m1 = NoRows ELSE \A k \in Buckets : k[1] = f => bars[k] = None

(* Mutant of SaveFile: a file that is there already is kept.               *)
SaveFileOnce(f) ==
    /\ stage = "save" /\ f \in unsaved /\ \A g \in unsaved : f <= g
    /\ unsaved' = unsaved \ {f}
    /\ IF EmptySeries(f) \/ f \in disk.files THEN UNCHANGED disk ELSE Written(f)
    /\ stage' = IF unsaved' = {} THEN "saved" ELSE "save"
    /\ UNCHANGED <<csv, cursor, store>>

(* save: M1 first, then the derived timeframes; an empty one is not written*)
SaveFile(f) ==
    /\ stage = "save" /\ f \in unsaved /\ \A g \in unsaved : f <= g
    /\ unsaved' = unsaved \ {f}
    /\ IF EmptySeries(f) THEN UNCHANGED disk ELSE Written(f)
    /\ stage' = IF unsaved' = {} THEN "saved" ELSE "save"
    /\ UNCHANGED <<csv, cursor, store>>

(* The process ends, or dies: memory is gone, the files stay.              *)
Stop ==
    /\ stage # "down" /\ stage' = "down"
    /\ cursor' = -1 /\ m1' = NoRows /\ bars' = NoBars /\ incomplete' = {}
    /\ unsaved' = {}
    /\ UNCHANGED <<csv, disk>>

Next ==
    \/ FileChanges
    \/ Load
    \/ \E t \in Rows : Add(t)
    \/ FeedEnds
    \/ \E f \in Files : SaveFile(f)
    \/ Stop

Spec == Init /\ [][Next]_vars
-----------------------------------------------------------------------------
(* The types of the variables.                                             *)
TypeOK ==
    /\ stage \in {"down", "read", "save", "saved"}
    /\ \A t \in Rows : {csv[t], m1[t], disk.m1[t]} \subseteq {None} \cup Quotes[t]
    /\ cursor \in {-1} \cup Rows
    /\ bars \in [Buckets -> {None} \cup Bars] /\ disk.bars \in [Buckets -> {None} \cup Bars]
    /\ incomplete \subseteq Buckets
    /\ unsaved \subseteq Files /\ disk.files \subseteq Files

(* What a complete_only view shows of a bucket.                            *)
Shown(k) == IF k \in incomplete THEN None ELSE bars[k]

(* A boundary or a settlement before the next row sees of the past exactly *)
(* what the file says of it, whatever the cache held (bars of a save that  *)
(* was cut short, rows corrected since): every row, and of every bucket    *)
(* that is over its aggregate, or nothing when a minute is missing.        *)
ViewsExact ==
    stage \in {"read", "save"} =>
        /\ \A t \in Rows : (\A u \in Rows : Unread(u) => t < u) => m1[t] = csv[t]
        /\ \A k \in Buckets : (\A u \in Rows : Unread(u) => End(k) <= u) =>
             Shown(k) = IF Short(csv, k) THEN None ELSE Rebuilt(csv, k)

(* A save that came to its end leaves files that agree with one another:   *)
(* list and watch score symbols from them without reading any row again.   *)
SavedFilesAgree ==
    stage = "saved" => \A k \in Buckets : disk.bars[k] = Rebuilt(disk.m1, k)

-----------------------------------------------------------------------------
(* The inductive invariant.                                                *)

(* No row and no bar without a row of the file: the file never loses one.  *)
NothingInvented ==
    /\ \A t \in Rows : m1[t] # None \/ disk.m1[t] # None => csv[t] # None
    /\ \A k \in Buckets : bars[k] # None \/ disk.bars[k] # None =>
         \E t \in Span(k) : csv[t] # None

(* What has been read again is as the file says.                           *)
ReadExact ==
    stage \in {"read", "save"} =>
        /\ \A t \in Rows : t <= cursor => m1[t] = csv[t]
        /\ \A k \in Buckets : (\A t \in Span(k) : ~Unread(t)) =>
             /\ bars[k] = Rebuilt(csv, k)
             /\ bars[k] # None => (k \in incomplete <=> Short(csv, k))

Shapes ==
    /\ csv \in [Rows -> {None} \cup Int] /\ m1 \in [Rows -> {None} \cup Int]
    /\ disk.m1 \in [Rows -> {None} \cup Int]
    /\ bars = [k \in Buckets |-> bars[k]] /\ disk.bars = [k \in Buckets |-> disk.bars[k]]
    /\ cursor \in Int /\ incomplete \subseteq Buckets

CInv == Shapes /\ NothingInvented /\ ReadExact
=============================================================================
