--------------------------- MODULE MarketStructure ---------------------------
(***************************************************************************)
(* The two detectors that keep market structure over the whole tape:       *)
(* inducement (long and short swings, an up or down leg, a latch on the    *)
(* grab of a short swing) and breaker_msb (a zigzag, structure breaks and  *)
(* the boxes they leave).  Prices are positive.                            *)
(***************************************************************************)
EXTENDS Tape

CONSTANTS
    Ln, ShortLen,   \* swing lengths, 20 and 3 in the code
    Zz, Warm        \* zigzag window 9, first bar that may break structure 25
ASSUME SwingAssumption == {Ln, ShortLen, Zz} \subseteq Nat \ {0} /\ Warm \in Nat

NoPrice == 0
FibPercent == 33    \* a break is this much of the last leg beyond the swing

-----------------------------------------------------------------------------
(* inducement.  side is 0 after a swing high, 1 after a swing low.         *)
IdmFresh ==
    [long |-> 0, short |-> 0, os |-> 0,
     topy |-> NoPrice, btmy |-> NoPrice, stopy |-> NoPrice, sbtmy |-> NoPrice,
     topCrossed |-> FALSE, btmCrossed |-> FALSE,
     stopCrossed |-> FALSE, sbtmCrossed |-> FALSE,
     maxv |-> NoPrice, minv |-> NoPrice]

Swing(w, i, n, side) ==
    CASE i > n /\ w[i-n].h > Highest(w, i - n + 1 .. i) -> 0
      [] i > n /\ ~(w[i-n].h > Highest(w, i - n + 1 .. i))
               /\ w[i-n].l < Lowest(w, i - n + 1 .. i) -> 1
      [] OTHER -> side

(* The swings of bar i, and the leg after it: a close through the last     *)
(* long swing turns it, once per swing, and a turn opens both latches.     *)
Legs(s, w, i) ==
    LET long  == Swing(w, i, Ln, s.long)
        short == Swing(w, i, ShortLen, s.short)
        newTop == long = 0 /\ s.long # 0
        newBtm == long = 1 /\ s.long # 1
        topy  == IF newTop THEN w[i-Ln].h ELSE s.topy
        btmy  == IF newBtm THEN w[i-Ln].l ELSE s.btmy
        up    == topy # NoPrice /\ w[i].c > topy /\ (newTop \/ ~s.topCrossed)
        down  == btmy # NoPrice /\ w[i].c < btmy /\ (newBtm \/ ~s.btmCrossed)
        os    == IF down THEN 0 ELSE IF up THEN 1 ELSE s.os
        turn  == os # s.os
    IN  [s EXCEPT !.long = long, !.short = short, !.os = os,
                  !.topy = topy, !.btmy = btmy,
                  !.stopy = IF short = 0 /\ s.short # 0 THEN w[i-ShortLen].h ELSE @,
                  !.sbtmy = IF short = 1 /\ s.short # 1 THEN w[i-ShortLen].l ELSE @,
                  !.topCrossed = up \/ (@ /\ ~newTop),
                  !.btmCrossed = down \/ (@ /\ ~newBtm),
                  !.stopCrossed = @ /\ ~turn,
                  !.sbtmCrossed = @ /\ ~turn,
                  !.maxv = IF turn THEN w[i].h ELSE @,
                  !.minv = IF turn THEN w[i].l ELSE @]

(* A grab takes out the short swing against the leg, a latch per leg high. *)
GrabsUp(s, bar)   == /\ s.os = 1 /\ s.sbtmy # NoPrice /\ bar.l < s.sbtmy
                     /\ ~s.sbtmCrossed /\ s.sbtmy # s.btmy
GrabsDown(s, bar) == /\ s.os = 0 /\ s.stopy # NoPrice /\ bar.h > s.stopy
                     /\ ~s.stopCrossed /\ s.stopy # s.topy
ExtendsUpByWick(s, bar) ==      \* mutant: a wick re-arms the latch
    s.os = 1 /\ s.maxv # NoPrice /\ bar.h > s.maxv
ExtendsUp(s, bar)   == s.os = 1 /\ s.maxv # NoPrice /\ bar.c > s.maxv
ExtendsDown(s, bar) == s.os = 0 /\ s.minv # NoPrice /\ bar.c < s.minv

IdmStep(s, w, i) ==
    LET t == Legs(s, w, i)
    IN  [t EXCEPT
           !.sbtmCrossed = (@ \/ GrabsUp(t, w[i])) /\ ~ExtendsUp(t, w[i]),
           !.stopCrossed = (@ \/ GrabsDown(t, w[i])) /\ ~ExtendsDown(t, w[i]),
           !.maxv = IF @ = NoPrice THEN @ ELSE Max({@, w[i].h}),
           !.minv = IF @ = NoPrice THEN @ ELSE Min({@, w[i].l})]

(* The directions of the grabs landing on bar i: none or one.              *)
Grabs(s, w, i) == LET t == Legs(s, w, i)
                  IN  {d \in {1, -1} : IF d = 1 THEN GrabsUp(t, w[i])
                                                ELSE GrabsDown(t, w[i])}

-----------------------------------------------------------------------------
(* breaker_msb.  A point is a bar and its price; highs and lows hold the   *)
(* last two swings, the newest last.                                       *)
Point(i, p) == [at |-> i, p |-> p]
BrkFresh == [trend |-> 1, hi |-> Point(0, NoPrice), lo |-> Point(0, NoPrice),
             highs |-> <<>>, lows |-> <<>>, market |-> 1,
             l0 |-> NoPrice, h0 |-> NoPrice, boxes |-> {}]

LastTwo(s, x) == IF Len(s) < 2 THEN Append(s, x) ELSE <<s[2], x>>
Recent(i)     == Max({1, i - Zz + 1}) .. i

Extended(s, w, i) ==
    [s EXCEPT !.hi = IF @.at = 0 \/ w[i].h > @.p THEN Point(i, w[i].h) ELSE @,
              !.lo = IF @.at = 0 \/ w[i].l < @.p THEN Point(i, w[i].l) ELSE @]
Turns(s, w, i) == IF s.trend = 1 THEN w[i].l <= Lowest(w, Recent(i))
                                 ELSE w[i].h >= Highest(w, Recent(i))
Flip(s, w, i) ==
    LET e == Extended(s, w, i)
    IN  IF ~Turns(s, w, i) THEN e
        ELSE [e EXCEPT !.trend = -@,
                       !.highs = IF s.trend = 1 THEN LastTwo(@, e.hi) ELSE @,
                       !.lows  = IF s.trend = 1 THEN @ ELSE LastTwo(@, e.lo),
                       !.hi = Point(i, w[i].h), !.lo = Point(i, w[i].l)]

Distance(a, b) == IF a < b THEN b - a ELSE a - b
BreaksDown(s) == LET h == s.highs  l == s.lows
                 IN  s.market = 1
                     /\ 100 * (l[1].p - l[2].p) > FibPercent * Distance(h[2].p, l[1].p)
BreaksUp(s)   == LET h == s.highs  l == s.lows
                 IN  s.market = -1
                     /\ 100 * (h[2].p - h[1].p) > FibPercent * Distance(h[1].p, l[2].p)
MayBreak(s, i) == /\ Len(s.highs) = 2 /\ Len(s.lows) = 2 /\ i > Warm
                  /\ s.lows[2].p # s.l0 /\ s.highs[2].p # s.h0

(* The last bar of the leg that runs against the new direction d.          *)
Origins(w, a, b, d) == {j \in Max({1, a - Zz}) .. b :
                            IF d = -1 THEN w[j].o > w[j].c ELSE w[j].o < w[j].c}
BoxOf(w, js, d, i) ==
    {[top |-> w[j].h, bot |-> w[j].l, d |-> d, born |-> i, fired |-> FALSE] :
        j \in {Max(js)}}
(* A break leaves a box only if the older swing had been taken out.        *)
NewBox(s, w, i, d) ==
    LET swept == IF d = -1 THEN s.highs[2].p > s.highs[1].p
                           ELSE s.lows[2].p < s.lows[1].p
        js == IF d = -1 THEN Origins(w, s.highs[1].at, s.lows[1].at, d)
                        ELSE Origins(w, s.lows[1].at, s.highs[1].at, d)
    IN  IF swept /\ js # {} THEN BoxOf(w, js, d, i) ELSE {}

Msb(s, w, i) ==
    IF ~MayBreak(s, i) \/ ~(BreaksDown(s) \/ BreaksUp(s)) THEN s
    ELSE [s EXCEPT !.market = -@, !.l0 = s.lows[2].p, !.h0 = s.highs[2].p,
                   !.boxes = @ \cup NewBox(s, w, i, -s.market)]

(* The boxes answer the close: dead beyond the far edge, also on the bar   *)
(* of birth; fired by a later close back inside.                           *)
Dead(b, c)   == IF b.d = 1 THEN c < b.bot ELSE c > b.top
Inside(b, c) == IF b.d = 1 THEN b.bot <= c /\ c < b.top ELSE b.bot < c /\ c <= b.top
FiresAtBirth(b, w, i) ==        \* mutant: the breaking bar may fire its box
    ~Dead(b, w[i].c) /\ ~b.fired /\ Inside(b, w[i].c)
Fires(b, w, i) == ~Dead(b, w[i].c) /\ ~b.fired /\ i > b.born /\ Inside(b, w[i].c)
Swept(boxes, w, i) == {[b EXCEPT !.fired = @ \/ Fires(b, w, i)] :
                          b \in {x \in boxes : ~Dead(x, w[i].c)}}

Broken(s, w, i)  == Msb(Flip(s, w, i), w, i)
BrkStep(s, w, i) == [Broken(s, w, i) EXCEPT !.boxes = Swept(@, w, i)]
Unfired(s) == [s EXCEPT !.boxes = {b \in @ : ~b.fired}]     \* on_session_end
=============================================================================
