--------------------------- MODULE LevelAutomaton ---------------------------
(***************************************************************************)
(* What the rest of the engine may assume of a level without knowing how   *)
(* candles are classified: the transition graph of levels.py's docstring,  *)
(* the writes detectors are allowed, and that a level re-read from disk is *)
(* one that was saved live.                                                *)
(***************************************************************************)
VARIABLES
    kind,     \* class of the level's kind
    present,  \* is there a level object in the list?
    state,    \* its Level.state
    saved     \* the states a restart could bring back ({} when none is on disk)

avars == <<kind, present, state, saved>>

LiveStates == {"ACTIVE", "TESTED", "SWEPT", "RECLAIMED"}

(* Transitions of LevelEngine, per kind.                                   *)
EngineEdges ==
    {<<"ACTIVE", "TESTED">>, <<"ACTIVE", "SWEPT">>, <<"ACTIVE", "DEAD">>,
     <<"TESTED", "SWEPT">>, <<"TESTED", "DEAD">>,
     <<"SWEPT", "RECLAIMED">>}
      \cup (IF kind = "OB" THEN {<<"TESTED", "MITIGATED">>} ELSE {})
      \cup (IF kind # "FVG" THEN {<<"RECLAIMED", "INVERTED">>} ELSE {})

(* A detector may only kill, and only the kinds it owns.                   *)
DetectorEdges == IF kind \in {"FVG", "EXT"} THEN LiveStates \X {"DEAD"} ELSE {}

AInit == /\ present = FALSE /\ state = "ACTIVE" /\ saved = {}
         /\ kind \in {"LINE", "INTRA", "EQ", "OB", "FVG", "ROUND", "EXT"}

Moves == /\ present /\ present'
         /\ <<state, state'>> \in EngineEdges \cup DetectorEdges
         /\ UNCHANGED <<kind, saved>>

Appears == /\ ~present /\ present' /\ state' = "ACTIVE"
           /\ UNCHANGED <<kind, saved>>

(* Only an ACTIVE order block leaves the list within a session.            *)
Evicted == /\ present /\ ~present' /\ kind = "OB" /\ state = "ACTIVE"
           /\ UNCHANGED <<kind, state, saved>>

(* A session boundary or the end of a run writes the file; the boundary    *)
(* also drops what it does not write.                                      *)
Saves == /\ saved' \in {{}} \cup (IF present /\ state \in LiveStates THEN {{state}} ELSE {})
         /\ present' \in {present, saved' # {}}
         /\ UNCHANGED <<kind, state>>

Reloads == /\ present' = (saved # {})
           /\ IF present' THEN state' \in saved ELSE UNCHANGED state
           /\ UNCHANGED <<kind, saved>>

ANext == Moves \/ Appears \/ Evicted \/ Saves \/ Reloads
ASpec == AInit /\ [][ANext]_avars
=============================================================================
