--------------------------- MODULE WatermarkResume ---------------------------
(***************************************************************************)
(* A symbol's pipeline over several runs of the program: each run reads    *)
(* the whole CSV again and tells old rows from new ones by the watermark   *)
(* the last run left on disk (src/app/trader/engine/pipeline.py, on_m1,    *)
(* _end_session, finalize; LevelStore in engine/levels.py).                *)
(*                                                                         *)
(* Rows are minutes, counted through the sessions: row t is of date        *)
(* t \div SessionMinutes.  The state kept in memory is lost when a run     *)
(* ends; what the rows did to the journal and to the saved levels stays.   *)
(***************************************************************************)
EXTENDS Integers, FiniteSets, FiniteSetsExt

CONSTANTS
    Dates,              \* number of sessions
    SessionMinutes,     \* rows of a session
    BarMinutes,         \* rows of an M5 bucket
    None

ASSUME RowsAssumption ==
    /\ Dates \in Nat \ {0} /\ SessionMinutes \in Nat \ {0} /\ BarMinutes \in Nat \ {0}
    /\ SessionMinutes % BarMinutes = 0
    /\ None \notin Int

VARIABLES
    csv,        \* the rows the file holds; it grows between runs
    stage,      \* "down", "row", "mark", "trade" or "exit"
    watermark,  \* _watermark: what load_watermark read at the start of the run
    wmTs,       \* _wm_ts: the last row worked on
    cursor,     \* the last row read in this run
    closing,    \* the next M5 boundary to close
    lastC5,     \* _last_c5: the bar that the bar-scoped stages last saw
    day,        \* day.session_date
    seen,       \* per bar: how often it was applied to the levels in memory
    disk,       \* [mark, seen]: watermark.json, and what levels.json has seen
    traded,     \* per row: how often it was offered to the orders and exits
    closed,     \* per boundary: how often it was closed and could be journaled
    crashed     \* history: has a run died before it was finalized?

memory == <<watermark, wmTs, cursor, closing, lastC5, day, seen>>
vars == <<csv, stage, memory, disk, traded, closed, crashed>>

Rows       == 0 .. Dates * SessionMinutes - 1
Bucket(t)  == (t \div BarMinutes) * BarMinutes
Bars       == {t \in Rows : Bucket(t) = t}
Boundaries == {b + BarMinutes : b \in Bars}
DateOf(t)  == t \div SessionMinutes
Often      == 0 .. 2                                \* never, once, more than once
More(f, x) == [f EXCEPT ![x] = IF @ = 2 THEN 2 ELSE @ + 1]

Init ==
    /\ csv = {} /\ stage = "down"
    /\ watermark = None /\ wmTs = None /\ cursor = None /\ closing = 0
    /\ lastC5 = None /\ day = None
    /\ seen = [b \in Bars |-> 0]
    /\ disk = [mark |-> None, seen |-> seen]
    /\ traded = [t \in Rows |-> 0] /\ closed = [b \in Boundaries |-> 0]
    /\ crashed = FALSE

-----------------------------------------------------------------------------
(* Between runs.                                                           *)

(* The feed's writer appends a later row, any minutes later.               *)
CsvGrows(t) ==
    /\ stage = "down"
    /\ \A u \in csv : u < t
    /\ csv' = csv \cup {t}
    /\ UNCHANGED <<stage, memory, disk, traded, closed, crashed>>

(* A run starts with what is on disk and nothing else.                     *)
Start ==
    /\ stage = "down" /\ csv # {}
    /\ stage' = "row"
    /\ watermark' = disk.mark /\ wmTs' = disk.mark /\ seen' = disk.seen
    /\ UNCHANGED <<csv, cursor, closing, lastC5, day, disk, traded, closed, crashed>>

(* Memory is gone, whichever way a run ends.                               *)
GoesDown ==
    /\ stage' = "down"
    /\ watermark' = None /\ wmTs' = None /\ cursor' = None /\ closing' = 0
    /\ lastC5' = None /\ day' = None /\ seen' = [b \in Bars |-> 0]

Crash ==
    /\ stage # "down"
    /\ GoesDown /\ crashed' = TRUE
    /\ UNCHANGED <<csv, disk, traded, closed>>

-----------------------------------------------------------------------------
(* on_m1 for row r, the next one of the file.                              *)

Ahead  == {t \in csv : cursor # None => t > cursor}
IsNext(r) == r \in Ahead /\ \A t \in Ahead : r <= t
InHand(r) == stage = "row" /\ IsNext(r)

(* Mutant of IsOld: the row at the watermark itself counts as new.         *)
IsOldStrictly(r) == watermark # None /\ r < watermark

IsOld(r) == watermark # None /\ r <= watermark

(* Mutant of ReadOld: the row's own bucket counts as not yet closed.       *)
ReadOldKeepsBoundary(r) ==
    /\ InHand(r) /\ IsOld(r)
    /\ cursor' = r /\ closing' = Bucket(r)
    /\ UNCHANGED <<csv, stage, watermark, wmTs, lastC5, day, seen, disk, traded, closed, crashed>>

(* Mutant of ReadOld: five minutes on from the row, not from its bucket.   *)
ReadOldUnbucketed(r) ==
    /\ InHand(r) /\ IsOld(r)
    /\ cursor' = r /\ closing' = r + BarMinutes
    /\ UNCHANGED <<csv, stage, watermark, wmTs, lastC5, day, seen, disk, traded, closed, crashed>>

(* An old row rebuilds the store and the bucket only.                      *)
ReadOld(r) ==
    /\ InHand(r) /\ IsOld(r)
    /\ cursor' = r /\ closing' = Bucket(r) + BarMinutes
    /\ UNCHANGED <<csv, stage, watermark, wmTs, lastC5, day, seen, disk, traded, closed, crashed>>

(* Boundaries up to the row's bucket, at most to the old session's close.  *)
BoundaryDue(r) ==
    /\ cursor # None
    /\ closing <= Bucket(r) /\ closing <= (DateOf(cursor) + 1) * SessionMinutes

(* The bars a complete_only view at a boundary shows: no row missing.      *)
Complete(now) ==
    {b \in Bars : /\ b + BarMinutes <= now
                  /\ \A t \in b .. b + BarMinutes - 1 : t \in csv /\ t <= cursor}

(* _on_m5_close: the bar-scoped stages see a bar unless this run's last    *)
(* boundary showed the same one; the rest of the close may be journaled.   *)
CloseBoundary(r) ==
    /\ InHand(r) /\ ~IsOld(r) /\ BoundaryDue(r)
    /\ closing' = closing + BarMinutes
    /\ IF Complete(closing) = {} THEN UNCHANGED <<lastC5, day, seen, closed>>
       ELSE LET c5 == Max(Complete(closing))
            IN  /\ day' = DateOf(c5) /\ lastC5' = c5
                /\ seen' = IF c5 = lastC5 THEN seen ELSE More(seen, c5)
                /\ closed' = More(closed, closing)
    /\ UNCHANGED <<csv, stage, watermark, wmTs, cursor, disk, traded, crashed>>

Arrives(r)     == InHand(r) /\ ~IsOld(r) /\ ~BoundaryDue(r)
SessionOver(r) == day # None /\ DateOf(r) # day

(* Mutant of EndSession: the levels are not saved before the watermark.    *)
EndSessionMarksOnly(r) ==
    /\ Arrives(r) /\ SessionOver(r)
    /\ stage' = "mark"
    /\ UNCHANGED <<csv, memory, disk, traded, closed, crashed>>

(* _end_session saves the levels, then the watermark.                      *)
EndSession(r) ==
    /\ Arrives(r) /\ SessionOver(r)
    /\ stage' = "mark"
    /\ disk' = [disk EXCEPT !.seen = seen]
    /\ UNCHANGED <<csv, memory, traded, closed, crashed>>

(* Mutant of SaveMark: the row in hand is marked before it is worked on.   *)
SaveMarkOfRowInHand ==
    /\ stage = "mark"
    /\ stage' = "trade"
    /\ disk' = [disk EXCEPT !.mark = Min(Ahead)]
    /\ UNCHANGED <<csv, memory, traded, closed, crashed>>

(* It marks the last row worked on, not the one in hand.                   *)
SaveMark ==
    /\ stage = "mark"
    /\ stage' = "trade"
    /\ disk' = [disk EXCEPT !.mark = wmTs]
    /\ UNCHANGED <<csv, memory, traded, closed, crashed>>

(* _fill_pending and the store, then the row becomes the last one.         *)
Trade(r) ==
    /\ \/ Arrives(r) /\ ~SessionOver(r)
       \/ stage = "trade" /\ IsNext(r)
    /\ stage' = "row"
    /\ traded' = More(traded, r)
    /\ cursor' = r /\ wmTs' = r /\ closing' = Bucket(r) + BarMinutes
    /\ UNCHANGED <<csv, watermark, lastC5, day, seen, disk, closed, crashed>>

-----------------------------------------------------------------------------
(* finalize at the end of the file: levels, then watermark.                *)
Finalize ==
    /\ stage = "row" /\ Ahead = {}
    /\ stage' = "exit"
    /\ disk' = [disk EXCEPT !.seen = seen]
    /\ UNCHANGED <<csv, memory, traded, closed, crashed>>

Exit ==
    /\ stage = "exit"
    /\ GoesDown
    /\ disk' = [disk EXCEPT !.mark = wmTs]
    /\ UNCHANGED <<csv, traded, closed, crashed>>

Next ==
    \/ \E t \in Rows : CsvGrows(t)
    \/ Start \/ Crash
    \/ \E r \in csv : ReadOld(r) \/ CloseBoundary(r) \/ EndSession(r) \/ Trade(r)
    \/ SaveMark
    \/ Finalize \/ Exit

Spec == Init /\ [][Next]_vars

-----------------------------------------------------------------------------
(* The types of the variables.                                             *)
TypeOK ==
    /\ csv \subseteq Rows /\ stage \in {"down", "row", "mark", "trade", "exit"}
    /\ watermark \in {None} \cup Rows /\ wmTs \in {None} \cup Rows
    /\ cursor \in {None} \cup Rows
    /\ closing \in {b \in 0 .. (Dates + 1) * SessionMinutes : b % BarMinutes = 0}
    /\ lastC5 \in {None} \cup Bars /\ day \in {None} \cup 0 .. Dates - 1
    /\ seen \in [Bars -> Often]
    /\ disk \in [mark : {None} \cup Rows, seen : [Bars -> Often]]
    /\ traded \in [Rows -> Often] /\ closed \in [Boundaries -> Often]
    /\ crashed \in BOOLEAN

(* As long as every run is finalized, no row reaches the orders twice,     *)
(* over all runs and whatever the gaps (pipeline.py on_m1).                *)
RowsTradedOnce == ~crashed => \A t \in Rows : traded[t] <= 1

(* Nor is a boundary closed, and journaled as current, in two runs.        *)
BoundariesClosedOnce == ~crashed => \A b \in Boundaries : closed[b] <= 1

(* "A restart can neither duplicate already-journaled signals/trades"      *)
(* (pipeline.py:116): no row is traded twice, however the runs end.        *)
RestartNeverDuplicates == \A t \in Rows : traded[t] <= 1

(* Whatever the watermark says was worked on was worked on.                *)
RowsNotLost ==
    \A t \in csv : disk.mark # None /\ t <= disk.mark => traded[t] >= 1

(* The bars whose boundary lies behind a row.                              *)
BarsBehind(t) ==
    {b \in Bars : /\ Bucket(t) > b
                  /\ \A u \in b .. b + BarMinutes - 1 : u \in csv}

(* The saved levels have seen every bar behind the saved watermark: a run  *)
(* that dies anywhere, also between the two files, loses no bar.           *)
BarsNotLost ==
    disk.mark # None => \A b \in BarsBehind(disk.mark) : disk.seen[b] >= 1

(* "bar-scoped stages once per bar (gap buckets only tick time)"           *)
(* (pipeline.py): no bar is applied twice to the same levels.              *)
BarsSeenOnce == \A b \in Bars : seen[b] <= 1

-----------------------------------------------------------------------------
(* The inductive invariants.                                               *)

(* Every mark the program keeps is a row with nothing undone behind it.    *)
Worked(m) ==
    m # None => m \in csv /\ \A t \in csv : t <= m => traded[t] >= 1
MarksWorked ==
    /\ csv \subseteq Rows
    /\ disk \in [mark : {None} \cup Rows, seen : [Bars -> Often]]
    /\ seen \in [Bars -> Often] /\ traded \in [Rows -> Often]
    /\ Worked(disk.mark) /\ Worked(watermark) /\ Worked(wmTs) /\ Worked(cursor)

(* As long as no run crashed: every row worked on lies behind the mark,    *)
(* the mark is the watermark or a later row, the one last read, and the    *)
(* rows in hand at a session's end lie ahead of both.                      *)
NothingAhead ==
    /\ \A t \in Rows : traded[t] >= 1 =>
         LET mark == IF stage = "down" THEN disk.mark ELSE wmTs
         IN  mark # None /\ t <= mark
    /\ stage # "down" /\ wmTs # None /\ wmTs # watermark =>
         wmTs = cursor /\ (watermark # None => wmTs > watermark)
    /\ stage \in {"mark", "trade"} /\ watermark # None => \A t \in Ahead : t > watermark

WInv == MarksWorked /\ (~crashed => NothingAhead) /\ RowsTradedOnce
=============================================================================
