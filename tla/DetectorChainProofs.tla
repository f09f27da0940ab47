------------------------- MODULE DetectorChainProofs -------------------------
(***************************************************************************)
(* For every tape, alphabet and period: the streamed zones obey the law    *)
(* read off the tape, and no kid outlives its parent (one lemma about one  *)
(* zone and one bar; a new bar at the end changes nothing the law says of  *)
(* the bars before it); a restart finds the live structure again (two      *)
(* histories that agree on what lives keep agreeing); and one grab per     *)
(* extreme of a leg.                                                       *)
(***************************************************************************)
EXTENDS DetectorChain, SequenceTheorems, FiniteOrder

(* What a zone is, without its prices: the laws hold for any band.         *)
Fields == {"kind", "dir", "lo", "hi", "a", "b", "of", "alive", "armed", "fired"}
IsZone(z) ==
    /\ DOMAIN z = Fields /\ z = [f \in Fields |-> z[f]]
    /\ z.b \in Nat
    /\ z.alive \in BOOLEAN /\ z.armed \in BOOLEAN /\ z.fired \in BOOLEAN

(* Bars that come later do not change whether a bar broke a zone.          *)
LEMMA DeepOnPrefix ==
    ASSUME NEW w \in Seq(Candles), NEW b \in Candles, NEW j \in 1 .. Len(w), NEW far
    PROVE  /\ Append(w, b)[j] = w[j]
           /\ Deep(Append(w, b), j, far) <=> Deep(w, j, far)
<1>1. Append(w, b)[j] = w[j]
  OBVIOUS
<1>2. CASE j > AtrPeriod
  <2>1. j - AtrPeriod \in 1 .. Len(w) /\ AtrPeriod \in Nat
    BY <1>2, AtrAssumption
  <2>2. SubSeq(Append(w, b), j - AtrPeriod, j) = SubSeq(w, j - AtrPeriod, j)
    BY <2>1
  <2> QED
    BY <1>1, <2>2 DEF Deep
<1>3. CASE ~(j > AtrPeriod)
  BY <1>1, <1>3 DEF Deep
<1> QED
  BY <1>2, <1>3

(* One bar against one zone keeps it a zone with the same band and birth.  *)
LEMMA StepIsZone ==
    ASSUME NEW z, IsZone(z), NEW w, NEW i
    PROVE  /\ IsZone(StepZone(z, w, i))
           /\ StepZone(z, w, i).kind = z.kind
           /\ StepZone(z, w, i).dir = z.dir
           /\ StepZone(z, w, i).lo = z.lo /\ StepZone(z, w, i).hi = z.hi
           /\ StepZone(z, w, i).a = z.a /\ StepZone(z, w, i).b = z.b
           /\ StepZone(z, w, i).of = z.of
           /\ StepZone(z, w, i).alive <=> z.alive /\ ~Breaks(z, w, i)
           /\ StepZone(z, w, i).armed <=> z.armed \/ (Holds(z, w, i) /\ Left(z, w[i]))
           /\ StepZone(z, w, i).fired <=> z.fired \/ Retests(z, w, i)
<1> DEFINE alive == z.alive /\ ~Breaks(z, w, i)
           armed == z.armed \/ (Holds(z, w, i) /\ Left(z, w[i]))
           fired == z.fired \/ Retests(z, w, i)
           y == [z EXCEPT !.alive = alive, !.armed = armed, !.fired = fired]
<1>1. alive \in BOOLEAN /\ armed \in BOOLEAN /\ fired \in BOOLEAN
  BY Zenon DEF IsZone
<1>2. StepZone(z, w, i) = y
  BY DEF StepZone
<1>3. (y.alive = alive) /\ (y.armed = armed) /\ (y.fired = fired)
  <2> HIDE DEF alive, armed, fired
  <2> QED BY DEF IsZone, Fields
<1>4. DOMAIN y = Fields /\ y = [f \in Fields |-> y[f]]
  <2> HIDE DEF alive, armed, fired
  <2> QED BY DEF IsZone, Fields
<1>5. /\ y.kind = z.kind /\ y.dir = z.dir /\ y.lo = z.lo /\ y.hi = z.hi
      /\ y.a = z.a /\ y.b = z.b /\ y.of = z.of
  <2> HIDE DEF alive, armed, fired
  <2> QED BY DEF IsZone, Fields
<1>6. IsZone(y)
  <2> HIDE DEF alive, armed, fired, y
  <2> QED BY <1>1, <1>3, <1>4, <1>5 DEF IsZone
<1>7. /\ y.alive <=> z.alive /\ ~Breaks(z, w, i)
      /\ y.armed <=> z.armed \/ (Holds(z, w, i) /\ Left(z, w[i]))
      /\ y.fired <=> z.fired \/ Retests(z, w, i)
  <2> HIDE DEF y
  <2> QED BY <1>1, <1>3, Zenon DEF alive, armed, fired
<1> HIDE DEF alive, armed, fired, y
<1> QED
  BY <1>2, <1>5, <1>6, <1>7, Zenon

(* The law, one bar further.                                               *)
LEMMA StepKeepsLaw ==
    ASSUME NEW z, IsZone(z), NEW w, NEW n \in Nat, z.b <= n, LivesByTheLaw(z, w, n)
    PROVE  LivesByTheLaw(StepZone(z, w, n + 1), w, n + 1)
<1> DEFINE i == n + 1
           y == StepZone(z, w, i)
<1>1. /\ y.dir = z.dir /\ y.lo = z.lo /\ y.hi = z.hi /\ y.b = z.b
      /\ y.alive <=> z.alive /\ ~Breaks(z, w, i)
      /\ y.armed <=> z.armed \/ (Holds(z, w, i) /\ Left(z, w[i]))
      /\ y.fired <=> z.fired \/ Retests(z, w, i)
  BY StepIsZone
<1> HIDE DEF y
<1>2. z.b \in Nat /\ z.b + 1 .. i = (z.b + 1 .. n) \cup {i} /\ i \notin z.b + 1 .. n
  BY DEF IsZone
<1>3. \A c : FarOut(y, c) = FarOut(z, c)
  BY <1>1 DEF FarOut
<1>4. \A b : Left(y, b) <=> Left(z, b)
  BY <1>1 DEF Left
<1> SUFFICES ASSUME y.alive
             PROVE  /\ BrokenOn(y, w, i) = {}
                    /\ y.armed <=> LeftOn(y, w, i) # {}
                    /\ y.fired <=> CameBackOn(y, w, i) # {}
  BY Zenon DEF LivesByTheLaw, y
<1>5. z.alive /\ ~Deep(w, i, FarOut(z, w[i].c)) /\ Holds(z, w, i)
  BY <1>1, <1>2 DEF Breaks, Sees, Holds
<1>6. /\ BrokenOn(z, w, n) = {}
      /\ z.armed <=> LeftOn(z, w, n) # {}
      /\ z.fired <=> CameBackOn(z, w, n) # {}
  BY <1>5 DEF LivesByTheLaw
<1>7. BrokenOn(y, w, i) = {}
  <2>1. \A j \in z.b + 1 .. n : ~Deep(w, j, FarOut(z, w[j].c))
    BY <1>6, Zenon DEF BrokenOn
  <2>2. \A j \in y.b + 1 .. i : ~Deep(w, j, FarOut(y, w[j].c))
    BY <1>1, <1>2, <1>3, <1>5, <2>1, Zenon
  <2> QED
    BY <2>2, Zenon DEF BrokenOn
<1>8. LeftOn(y, w, i) = LeftOn(z, w, n) \cup {j \in {i} : Left(z, w[j])}
  BY <1>1, <1>2, <1>4, Zenon DEF LeftOn
<1>9. y.armed <=> LeftOn(y, w, i) # {}
  <2>1. y.armed <=> LeftOn(z, w, n) # {} \/ Left(z, w[i])
    BY <1>1, <1>5, <1>6, Zenon
  <2> QED
    BY <2>1, <1>8, Zenon
<1>10. CameBackOn(y, w, i) # {} <=>
         CameBackOn(z, w, n) # {} \/ (~Left(z, w[i]) /\ LeftOn(z, w, n) # {})
  <2>1. \A j \in z.b + 1 .. n : j < i /\ ~(i < j)
    BY <1>2
  <2>2. ~(i < i)
    OBVIOUS
  <2>3. LeftOn(z, w, n) \subseteq z.b + 1 .. n
    BY DEF LeftOn
  <2>4. \A j : j \in CameBackOn(y, w, i) <=>
               \/ j \in CameBackOn(z, w, n)
               \/ j = i /\ ~Left(z, w[i]) /\ LeftOn(z, w, n) # {}
    <3> SUFFICES ASSUME NEW j
                 PROVE  j \in CameBackOn(y, w, i) <=>
                          \/ j \in CameBackOn(z, w, n)
                          \/ j = i /\ ~Left(z, w[i]) /\ LeftOn(z, w, n) # {}
      OBVIOUS
    <3>1. j \in CameBackOn(y, w, i) <=>
            /\ j \in z.b + 1 .. n \/ j = i
            /\ ~Left(z, w[j]) /\ \E k \in LeftOn(y, w, i) : k < j
      BY <1>1, <1>2, <1>4, Zenon DEF CameBackOn
    <3>2. (j \in z.b + 1 .. n \/ j = i) =>
            ((\E k \in LeftOn(y, w, i) : k < j) <=> \E k \in LeftOn(z, w, n) : k < j)
      BY <1>8, <2>1, <2>2, Zenon
    <3>3. j \in CameBackOn(z, w, n) <=>
            j \in z.b + 1 .. n /\ ~Left(z, w[j]) /\ \E k \in LeftOn(z, w, n) : k < j
      BY DEF CameBackOn
    <3>4. (\E k \in LeftOn(z, w, n) : k < i) <=> LeftOn(z, w, n) # {}
      BY <2>1, <2>3, Zenon
    <3> QED
      BY <3>1, <3>2, <3>3, <3>4, Zenon
  <2> QED
    BY <2>4, Zenon
<1>11. y.fired <=> CameBackOn(y, w, i) # {}
  <2>1. Retests(z, w, i) <=> z.armed /\ ~z.fired /\ ~Left(z, w[i])
    BY <1>5 DEF Retests
  <2> QED
    BY <1>1, <1>6, <1>10, <2>1, Zenon
<1> QED
  BY <1>7, <1>9, <1>11, Zenon

LEMMA StepKeepsDeath ==
    ASSUME NEW z, IsZone(z), NEW w, NEW n \in Nat, z.b <= n, DiesByTheLaw(z, w, n)
    PROVE  DiesByTheLaw(StepZone(z, w, n + 1), w, n + 1)
<1> DEFINE i == n + 1
           y == StepZone(z, w, i)
<1>1. /\ y.dir = z.dir /\ y.lo = z.lo /\ y.hi = z.hi /\ y.b = z.b
      /\ y.alive <=> z.alive /\ ~Breaks(z, w, i)
  BY StepIsZone
<1> HIDE DEF y
<1>2. z.b \in Nat /\ z.b + 1 .. i = (z.b + 1 .. n) \cup {i}
  BY DEF IsZone
<1>3. \A c : FarOut(y, c) = FarOut(z, c)
  BY <1>1 DEF FarOut
<1> SUFFICES ASSUME ~y.alive PROVE BrokenOn(y, w, i) # {}
  BY Zenon DEF DiesByTheLaw, y
<1>4. CASE z.alive
  <2>1. Deep(w, i, FarOut(z, w[i].c))
    BY <1>1, <1>4 DEF Breaks
  <2> QED
    BY <1>1, <1>2, <1>3, <2>1, Zenon DEF BrokenOn
<1>5. CASE ~z.alive
  <2>1. BrokenOn(z, w, n) # {}
    BY <1>5 DEF DiesByTheLaw
  <2> QED
    BY <1>1, <1>2, <1>3, <2>1, Zenon DEF BrokenOn
<1> QED
  BY <1>4, <1>5

(* A zone born on the last bar read has no history to obey.                *)
LEMMA BirthIsLawful ==
    ASSUME NEW kind, NEW dir, NEW lo, NEW hi, NEW a, NEW of, NEW w, NEW n \in Nat
    PROVE  LET z == Zone(kind, dir, lo, hi, a, n, of)
           IN  /\ IsZone(z) /\ z.b = n
               /\ LivesByTheLaw(z, w, n) /\ DiesByTheLaw(z, w, n)
<1> DEFINE z == Zone(kind, dir, lo, hi, a, n, of)
<1>1. IsZone(z) /\ z.b = n /\ z.alive = TRUE /\ z.armed = FALSE /\ z.fired = FALSE
  BY DEF Zone, IsZone, Fields
<1> HIDE DEF z
<1>2. z.b + 1 .. n = {}
  BY <1>1
<1>3. LivesByTheLaw(z, w, n) /\ DiesByTheLaw(z, w, n)
  BY <1>1, <1>2, Zenon DEF LivesByTheLaw, DiesByTheLaw, BrokenOn, LeftOn, CameBackOn
<1> QED
  BY <1>1, <1>3, Zenon DEF z

(* A new bar at the end leaves the law of the bars read alone.             *)
LEMMA LawOnPrefix ==
    ASSUME NEW w \in Seq(Candles), NEW b \in Candles, NEW n \in Nat, n <= Len(w),
           NEW z, IsZone(z)
    PROVE  /\ LivesByTheLaw(z, w, n) => LivesByTheLaw(z, Append(w, b), n)
           /\ DiesByTheLaw(z, w, n) => DiesByTheLaw(z, Append(w, b), n)
<1> DEFINE v == Append(w, b)
<1>1. \A j \in z.b + 1 .. n : v[j] = w[j] /\ \A far : Deep(v, j, far) <=> Deep(w, j, far)
  <2> SUFFICES ASSUME NEW j \in z.b + 1 .. n, NEW far
               PROVE  v[j] = w[j] /\ (Deep(v, j, far) <=> Deep(w, j, far))
    OBVIOUS
  <2>1. j \in 1 .. Len(w)
    BY DEF IsZone
  <2> QED
    BY <2>1, DeepOnPrefix, Zenon
<1> HIDE DEF v
<1>2. BrokenOn(z, v, n) = BrokenOn(z, w, n) /\ LeftOn(z, v, n) = LeftOn(z, w, n)
  BY <1>1, Zenon DEF BrokenOn, LeftOn
<1>3. CameBackOn(z, v, n) = CameBackOn(z, w, n)
  BY <1>1, <1>2, Zenon DEF CameBackOn
<1> QED
  BY <1>2, <1>3, Zenon DEF LivesByTheLaw, DiesByTheLaw, v

-----------------------------------------------------------------------------
(* The tape and the cursor, and the law of every zone.                     *)
TapeInv ==
    /\ bars \in Seq(Candles) /\ bars # <<>>
    /\ read \in Nat /\ read <= Len(bars)
    /\ detecting => read < Len(bars)
Lawful(z, w, n) == IsZone(z) /\ z.b <= n /\ LivesByTheLaw(z, w, n)
LawInv ==
    /\ \A z \in gaps \cup blocks \cup kids : Lawful(z, bars, read)
    /\ \A z \in gaps \cup blocks : DiesByTheLaw(z, bars, read)
ChainInv == TapeInv /\ LawInv /\ NoOrphans

(* Every zone after a bar was stepped from one before it or is born.       *)
LEMMA StepIsLawful ==
    ASSUME NEW w, NEW n \in Nat, NEW z, Lawful(z, w, n)
    PROVE  /\ Lawful(StepZone(z, w, n + 1), w, n + 1)
           /\ DiesByTheLaw(z, w, n) => DiesByTheLaw(StepZone(z, w, n + 1), w, n + 1)
<1>1. IsZone(z) /\ z.b \in Nat /\ z.b <= n /\ LivesByTheLaw(z, w, n)
  BY DEF Lawful, IsZone
<1>2. IsZone(StepZone(z, w, n + 1)) /\ StepZone(z, w, n + 1).b = z.b
  BY <1>1, StepIsZone
<1>3. z.b <= n + 1
  BY <1>1
<1> QED
  BY <1>1, <1>2, <1>3, StepKeepsLaw, StepKeepsDeath DEF Lawful

LEMMA BornIsLawful ==
    ASSUME NEW w, NEW n \in Nat,
           NEW kind, NEW dir, NEW lo, NEW hi, NEW a, NEW of
    PROVE  /\ Lawful(Zone(kind, dir, lo, hi, a, n, of), w, n)
           /\ DiesByTheLaw(Zone(kind, dir, lo, hi, a, n, of), w, n)
<1>1. n <= n
  OBVIOUS
<1> QED
  BY <1>1, BirthIsLawful DEF Lawful

LEMMA FvgIsLawful ==
    ASSUME NEW w, NEW n \in Nat, NEW zs,
           \A z \in zs : Lawful(z, w, n) /\ DiesByTheLaw(z, w, n)
    PROVE  \A z \in FvgStep(zs, w, n + 1) : Lawful(z, w, n + 1) /\ DiesByTheLaw(z, w, n + 1)
<1> DEFINE i == n + 1
           seen == {StepZone(z, w, i) : z \in zs}
<1>1. n + 1 \in Nat
  OBVIOUS
<1>2. \A z \in seen : Lawful(z, w, i) /\ DiesByTheLaw(z, w, i)
  BY StepIsLawful
<1>3. \A z \in Flipped(zs, "FVG", "IFVG", w, i) : Lawful(z, w, i) /\ DiesByTheLaw(z, w, i)
  BY <1>1, BornIsLawful DEF Flipped
<1>4. \A z \in GapsAt(w, i) : Lawful(z, w, i) /\ DiesByTheLaw(z, w, i)
  BY <1>1, BornIsLawful DEF GapsAt
<1>5. Kept(GapsAt(w, i), seen) \subseteq GapsAt(w, i)
  BY DEF Kept
<1>6. FvgStep(zs, w, i) = seen \cup Flipped(zs, "FVG", "IFVG", w, i)
                               \cup Kept(GapsAt(w, i), seen)
  BY DEF FvgStep
<1> HIDE DEF seen
<1> QED
  BY <1>2, <1>3, <1>4, <1>5, <1>6

LEMMA ObIsLawful ==
    ASSUME NEW w, NEW n \in Nat, NEW from, NEW zs,
           \A z \in zs : Lawful(z, w, n) /\ DiesByTheLaw(z, w, n)
    PROVE  \A z \in ObStep(zs, from, w, n + 1) :
               Lawful(z, w, n + 1) /\ DiesByTheLaw(z, w, n + 1)
<1> DEFINE i == n + 1
           seen == {StepZone(z, w, i) : z \in zs}
<1>1. n + 1 \in Nat
  OBVIOUS
<1>2. \A z \in seen : Lawful(z, w, i) /\ DiesByTheLaw(z, w, i)
  BY StepIsLawful
<1>3. \A z \in Flipped(zs, "OB", "FLIP", w, i) : Lawful(z, w, i) /\ DiesByTheLaw(z, w, i)
  BY <1>1, BornIsLawful DEF Flipped
<1>4. \A z \in BlocksAt(w, from, i) : Lawful(z, w, i) /\ DiesByTheLaw(z, w, i)
  BY <1>1, BornIsLawful DEF BlocksAt
<1>5. ObStep(zs, from, w, i) = seen \cup Flipped(zs, "OB", "FLIP", w, i)
                                    \cup BlocksAt(w, from, i)
  BY DEF ObStep
<1> HIDE DEF seen
<1> QED
  BY <1>2, <1>3, <1>4, <1>5

(* A kid killed by the cascade is still a zone and obeys the law: dead.    *)
LEMMA KidsAreLawful ==
    ASSUME NEW w, NEW n \in Nat, NEW ks, NEW zs, NEW seen,
           \A k \in ks : Lawful(k, w, n)
    PROVE  \A k \in KidsStep(ks, zs, seen, w, n + 1) : Lawful(k, w, n + 1)
<1> DEFINE i == n + 1
<1>1. n + 1 \in Nat
  OBVIOUS
<1>2. ASSUME NEW k \in ks, NEW up \in BOOLEAN
      PROVE  Lawful([k EXCEPT !.alive = @ /\ up], w, n)
  <2> DEFINE y == [k EXCEPT !.alive = k.alive /\ up]
  <2>1. IsZone(k) /\ k.b <= n /\ LivesByTheLaw(k, w, n)
    BY DEF Lawful
  <2>2. DOMAIN y = Fields /\ y = [f \in Fields |-> y[f]]
    BY <2>1 DEF IsZone, Fields
  <2>3. /\ y.dir = k.dir /\ y.lo = k.lo /\ y.hi = k.hi /\ y.b = k.b
        /\ y.armed = k.armed /\ y.fired = k.fired
    BY <2>1 DEF IsZone, Fields
  <2>4. y.alive = (k.alive /\ up)
    BY <2>1 DEF IsZone, Fields
  <2> HIDE DEF y
  <2>5. IsZone(y)
    BY <2>1, <2>2, <2>3, <2>4 DEF IsZone
  <2>6. (\A c : FarOut(y, c) = FarOut(k, c)) /\ (\A b : Left(y, b) <=> Left(k, b))
    BY <2>3 DEF FarOut, Left
  <2>7. BrokenOn(y, w, n) = BrokenOn(k, w, n) /\ LeftOn(y, w, n) = LeftOn(k, w, n)
    <3>1. BrokenOn(y, w, n) = BrokenOn(k, w, n)
      BY <2>3, <2>6 DEF BrokenOn
    <3>2. LeftOn(y, w, n) = LeftOn(k, w, n)
      BY <2>3, <2>6 DEF LeftOn
    <3> QED BY <3>1, <3>2
  <2>8. CameBackOn(y, w, n) = CameBackOn(k, w, n)
    BY <2>3, <2>6, <2>7, Zenon DEF CameBackOn
  <2>9. LivesByTheLaw(y, w, n)
    BY <2>1, <2>3, <2>4, <2>7, <2>8, Zenon DEF LivesByTheLaw
  <2> QED
    BY <2>1, <2>3, <2>5, <2>9 DEF Lawful, y
<1>3. \A k \in Cascade(ks, seen) : Lawful(k, w, n)
  BY <1>2 DEF Cascade
<1>4. \A k \in {StepZone(x, w, i) : x \in Cascade(ks, seen)} : Lawful(k, w, i)
  BY <1>3, StepIsLawful
<1>5. \A k \in KidsAt(zs, w, i) : Lawful(k, w, i)
  BY <1>1, BornIsLawful DEF KidsAt
<1> QED
  BY <1>4, <1>5 DEF KidsStep

-----------------------------------------------------------------------------
LEMMA ChainInit == Init => ChainInv
<1> SUFFICES ASSUME Init PROVE ChainInv
  OBVIOUS
<1>1. bars \in Seq(Candles) /\ bars # <<>>
  BY SeedsAssumption DEF Init
<1>2. read = 0 /\ detecting = FALSE /\ gaps = {} /\ blocks = {} /\ kids = {}
  BY DEF Init
<1> QED
  BY <1>1, <1>2 DEF ChainInv, TapeInv, LawInv, NoOrphans, Alive

(* A shape set on the last close is a candle.                              *)
LEMMA CandleIsCandle ==
    ASSUME NEW c \in Int, NEW s \in Candles PROVE Candle(c, s) \in Candles
<1>1. s.o \in Int /\ s.h \in Int /\ s.l \in Int /\ s.c \in Int
  BY DEF Candles
<1>2. Candle(c, s) \in [o : Int, h : Int, l : Int, c : Int]
  BY <1>1 DEF Candle
<1>3. /\ Candle(c, s).o = c + s.o /\ Candle(c, s).h = c + s.h
      /\ Candle(c, s).l = c + s.l /\ Candle(c, s).c = c + s.c
  BY DEF Candle
<1>4. s.l <= s.o /\ s.l <= s.c /\ s.o <= s.h /\ s.c <= s.h
  BY DEF Candles
<1> QED BY <1>1, <1>2, <1>3, <1>4 DEF Candles

LEMMA ChainBar ==
    ASSUME ChainInv, NEW s \in Shapes, Bar(s) PROVE ChainInv'
<1> DEFINE c == bars[Len(bars)].c
           b == Candle(c, s)
<1>1. bars[Len(bars)] \in Candles /\ s \in Candles
  BY SeedsAssumption DEF ChainInv, TapeInv
<1>2. b \in Candles
  BY <1>1, CandleIsCandle DEF Candles
<1>3. /\ bars' = Append(bars, b) /\ read' = read
      /\ gaps' = gaps /\ blocks' = blocks /\ kids' = kids
  BY DEF Bar, zones
<1> HIDE DEF b
<1>4. /\ bars \in Seq(Candles) /\ read \in Nat /\ read <= Len(bars)
  BY DEF ChainInv, TapeInv
<1>5. TapeInv'
  BY <1>2, <1>3, <1>4 DEF TapeInv
<1>6. LawInv'
  <2>1. \A z \in gaps \cup blocks \cup kids : Lawful(z, bars', read)
    BY <1>2, <1>3, <1>4, LawOnPrefix DEF ChainInv, LawInv, Lawful
  <2>2. \A z \in gaps \cup blocks : DiesByTheLaw(z, bars', read)
    BY <1>2, <1>3, <1>4, LawOnPrefix DEF ChainInv, LawInv, Lawful
  <2> QED
    BY <1>3, <2>1, <2>2, Zenon DEF LawInv
<1>7. NoOrphans'
  BY <1>3, Zenon DEF ChainInv, NoOrphans
<1> QED
  BY <1>5, <1>6, <1>7 DEF ChainInv

(* A kid that lives after the bar has a parent that does: the cascade saw  *)
(* to the old ones, and a block that was just touched has not broken.      *)
LEMMA ReadNoOrphans ==
    ASSUME ChainInv, Read PROVE NoOrphans'
<1> DEFINE i == read + 1
           seen == ObStep(blocks, start, bars, i)
<1>1. blocks' = seen /\ kids' = KidsStep(kids, blocks, seen, bars, i)
  BY DEF Read
<1>2. /\ \A z \in blocks : IsZone(z) /\ StepZone(z, bars, i) \in seen
      /\ \A k \in kids : IsZone(k)
  BY DEF ChainInv, LawInv, Lawful, ObStep
<1> HIDE DEF seen
<1> SUFFICES ASSUME NEW k \in kids', k.alive
             PROVE  \E p \in seen : p.alive /\ Parent(k, p)
  BY <1>1, Zenon DEF NoOrphans, Alive
<1>3. CASE \E x \in Cascade(kids, seen) : k = StepZone(x, bars, i)
  <2>1. PICK x \in Cascade(kids, seen) : k = StepZone(x, bars, i)
    BY <1>3
  <2>2. PICK y \in kids :
           x = [y EXCEPT !.alive = @ /\ \E p \in seen : Parent(y, p) /\ p.alive]
    BY <2>1 DEF Cascade
  <2>3. IsZone(y)
    BY <1>2, <2>2
  <2> DEFINE up == \E p \in seen : Parent(y, p) /\ p.alive
  <2> HIDE DEF up
  <2>4. x = [y EXCEPT !.alive = y.alive /\ up]
    BY <2>2 DEF up
  <2>5. x.of = y.of /\ x.alive = (y.alive /\ up) /\ DOMAIN x = Fields
    BY <2>3, <2>4 DEF IsZone, Fields
  <2>6. k.of = x.of /\ k.alive = (x.alive /\ ~Breaks(x, bars, i))
    BY <2>1, <2>5 DEF StepZone, Fields
  <2>7. up
    BY <2>5, <2>6
  <2> QED
    BY <2>5, <2>6, <2>7, Zenon DEF up, Parent
<1>4. CASE k \in KidsAt(blocks, bars, i)
  <2>1. PICK p \in blocks :
           /\ p.kind = "OB" /\ Retests(p, bars, i)
           /\ k = Zone("PRP", p.dir, Low(bars[i].o, bars[i].c),
                       High(bars[i].o, bars[i].c), i, i, <<p.a, p.b>>)
    BY <1>4 DEF KidsAt
  <2>2. k.of = <<p.a, p.b>>
    BY <2>1 DEF Zone
  <2> DEFINE y == StepZone(p, bars, i)
  <2>3. y \in seen /\ y.kind = p.kind /\ y.a = p.a /\ y.b = p.b
    BY <1>2, StepIsZone
  <2>4. y.alive <=> p.alive /\ ~Breaks(p, bars, i)
    BY <1>2, StepIsZone
  <2>5. p.alive /\ ~Breaks(p, bars, i)
    BY <2>1 DEF Retests, Holds, Sees
  <2> HIDE DEF y
  <2> QED
    BY <2>1, <2>2, <2>3, <2>4, <2>5, Zenon DEF Parent
<1> QED
  BY <1>1, <1>3, <1>4, Zenon DEF KidsStep

LEMMA ChainRead ==
    ASSUME ChainInv, Read PROVE ChainInv'
<1> DEFINE i == read + 1
           seen == ObStep(blocks, start, bars, i)
<1>1. /\ read' = i /\ bars' = bars /\ detecting' = (i < Len(bars))
      /\ gaps' = FvgStep(gaps, bars, i) /\ blocks' = seen
      /\ kids' = KidsStep(kids, blocks, seen, bars, i)
  BY DEF Read
<1>2. read \in Nat /\ read < Len(bars) /\ bars \in Seq(Candles) /\ bars # <<>>
  BY DEF Read, ChainInv, TapeInv
<1>3. TapeInv'
  <2>1. i \in Nat /\ i <= Len(bars) /\ ((i < Len(bars)) => i < Len(bars))
    BY <1>2
  <2>2. detecting' => i < Len(bars)
    BY <1>1, Zenon
  <2> QED
    BY <1>1, <1>2, <2>1, <2>2, Zenon DEF TapeInv
<1>4. /\ \A z \in gaps \cup blocks : Lawful(z, bars, read) /\ DiesByTheLaw(z, bars, read)
      /\ \A k \in kids : Lawful(k, bars, read)
  BY DEF ChainInv, LawInv
<1>5. \A z \in FvgStep(gaps, bars, i) : Lawful(z, bars, i) /\ DiesByTheLaw(z, bars, i)
  BY <1>2, <1>4, FvgIsLawful
<1>6. \A z \in seen : Lawful(z, bars, i) /\ DiesByTheLaw(z, bars, i)
  BY <1>2, <1>4, ObIsLawful
<1>7. \A k \in KidsStep(kids, blocks, seen, bars, i) : Lawful(k, bars, i)
  BY <1>2, <1>4, KidsAreLawful
<1> HIDE DEF seen
<1>8. LawInv'
  BY <1>1, <1>5, <1>6, <1>7 DEF LawInv
<1> QED
  BY <1>3, <1>8, ReadNoOrphans DEF ChainInv

LEMMA ChainSessionEnd ==
    ASSUME ChainInv, SessionEnd PROVE ChainInv'
<1>1. /\ bars' = bars /\ read' = read /\ detecting' = detecting
      /\ gaps' = Alive(gaps) /\ blocks' = Alive(blocks) /\ kids' = Alive(kids)
  BY DEF SessionEnd
<1>2. gaps' \subseteq gaps /\ blocks' \subseteq blocks /\ kids' \subseteq kids
  BY <1>1 DEF Alive
<1>3. TapeInv'
  BY <1>1 DEF ChainInv, TapeInv
<1>4. LawInv'
  BY <1>1, <1>2 DEF ChainInv, LawInv
<1>5. Alive(kids') = Alive(kids) /\ Alive(blocks') = Alive(blocks)
  BY <1>1 DEF Alive
<1>6. NoOrphans'
  BY <1>5 DEF ChainInv, NoOrphans
<1> QED
  BY <1>3, <1>4, <1>6 DEF ChainInv

LEMMA ChainRestart ==
    ASSUME ChainInv, Restart PROVE ChainInv'
<1>1. /\ bars' = bars /\ read' = 0 /\ detecting' = FALSE
      /\ gaps' = {} /\ blocks' = {} /\ kids' = {}
  BY DEF Restart, Fresh
<1> QED
  BY <1>1 DEF ChainInv, TapeInv, LawInv, NoOrphans, Alive

LEMMA ChainStutter ==
    ASSUME ChainInv, UNCHANGED vars PROVE ChainInv'
BY DEF ChainInv, TapeInv, LawInv, NoOrphans, vars, zones

LEMMA ChainInductive == Spec => []ChainInv
<1>1. ChainInv /\ [Next]_vars => ChainInv'
  BY ChainBar, ChainRead, ChainSessionEnd, ChainRestart, ChainStutter DEF Next
<1> QED
  BY <1>1, ChainInit, PTL DEF Spec

(* Streaming is exact: for any tape, any sessions and any restarts, a zone *)
(* is alive, armed and fired as the bars since its birth say.              *)
THEOREM ZonesObeyTheLawThm == Spec => []ZonesObeyTheLaw
<1>1. ChainInv => ZonesObeyTheLaw
  BY DEF ChainInv, LawInv, Lawful, ZonesObeyTheLaw
<1> QED
  BY <1>1, ChainInductive, PTL

(* No propulsion kid outlives the order block it came from.                *)
THEOREM NoOrphansThm == Spec => []NoOrphans
<1>1. ChainInv => NoOrphans
  BY DEF ChainInv
<1> QED
  BY <1>1, ChainInductive, PTL

-----------------------------------------------------------------------------
(* The boxes of breaker_msb.  A box on the list obeys the law up to the    *)
(* bar read; one just left by a break has no bar behind it yet.            *)
BoxFields == {"top", "bot", "d", "born", "fired"}
BrkFields == {"trend", "hi", "lo", "highs", "lows", "market", "l0", "h0", "boxes"}
LawfulBox(b, w, n) ==
    /\ DOMAIN b = BoxFields /\ b.born \in Nat \ {0} /\ b.born <= n + 1 /\ b.fired \in BOOLEAN
    /\ BoxLaw(b, w, n)
BoxInv == /\ DOMAIN brk = BrkFields
          /\ \A b \in brk.boxes : LawfulBox(b, bars, read)

LEMMA BoxStep ==
    ASSUME NEW b, NEW w, NEW n \in Nat, LawfulBox(b, w, n), ~Dead(b, w[n + 1].c)
    PROVE  LawfulBox([b EXCEPT !.fired = @ \/ Fires(b, w, n + 1)], w, n + 1)
<1> DEFINE i == n + 1
           now == b.fired \/ Fires(b, w, i)
           y == [b EXCEPT !.fired = now]
<1>1. now \in BOOLEAN
  BY Zenon DEF LawfulBox
<1>0. i \in Nat
  OBVIOUS
<1> HIDE DEF now
<1>2. /\ DOMAIN y = BoxFields /\ y.fired = now
      /\ y.born = b.born /\ y.top = b.top /\ y.bot = b.bot /\ y.d = b.d
  BY DEF LawfulBox, BoxFields
<1> HIDE DEF y
<1>3. (\A c : Dead(y, c) <=> Dead(b, c)) /\ (\A c : Inside(y, c) <=> Inside(b, c))
  BY <1>2 DEF Dead, Inside
<1>4. b.born \in Nat \ {0} /\ b.born <= i
  BY DEF LawfulBox
<1>5. /\ \A j \in b.born .. i : j \in b.born .. n \/ j = i
      /\ \A j \in b.born + 1 .. n : j \in b.born + 1 .. i
      /\ \A j \in b.born + 1 .. i : j \in b.born + 1 .. n \/ j = i
      /\ i > b.born <=> i \in b.born + 1 .. i
  BY <1>4
<1>6. /\ \A j \in b.born .. n : ~Dead(b, w[j].c)
      /\ b.fired <=> \E j \in b.born + 1 .. n : Inside(b, w[j].c)
  BY DEF LawfulBox, BoxLaw
<1>7. \A j \in y.born .. i : ~Dead(y, w[j].c)
  BY <1>2, <1>3, <1>5, <1>6, Zenon
<1>8. now <=> b.fired \/ (i \in b.born + 1 .. i /\ Inside(b, w[i].c))
  BY <1>5, Zenon DEF now, Fires
<1>9. y.fired <=> \E j \in y.born + 1 .. i : Inside(y, w[j].c)
  BY <1>2, <1>3, <1>5, <1>6, <1>8, Zenon
<1>10. b.born <= i + 1
  BY <1>4
<1> QED
  BY <1>0, <1>1, <1>2, <1>4, <1>7, <1>9, <1>10, Zenon DEF LawfulBox, BoxLaw, y, now

(* The zigzag and the break only add boxes born on this bar.               *)
LEMMA BrokenBoxes ==
    ASSUME NEW s, DOMAIN s = BrkFields, NEW w, NEW i
    PROVE  /\ DOMAIN Broken(s, w, i) = BrkFields
           /\ \A b \in Broken(s, w, i).boxes :
                 b \in s.boxes \/ (DOMAIN b = BoxFields /\ b.born = i /\ b.fired = FALSE)
<1> DEFINE e == Extended(s, w, i)
           f == Flip(s, w, i)
<1>1. DOMAIN e = BrkFields /\ e.boxes = s.boxes
  BY DEF Extended, BrkFields
<1> HIDE DEF e
<1>2. DOMAIN f = BrkFields /\ f.boxes = s.boxes
  BY <1>1 DEF Flip, BrkFields, e
<1> HIDE DEF f
<1>3. \A d : \A b \in NewBox(f, w, i, d) :
          DOMAIN b = BoxFields /\ b.born = i /\ b.fired = FALSE
  BY DEF NewBox, BoxOf, BoxFields
<1>4. /\ DOMAIN Msb(f, w, i) = BrkFields
      /\ \/ Msb(f, w, i).boxes = f.boxes
         \/ Msb(f, w, i).boxes = f.boxes \cup NewBox(f, w, i, -f.market)
  BY <1>2 DEF Msb, BrkFields
<1> QED
  BY <1>2, <1>3, <1>4 DEF Broken, f

LEMMA BoxRead ==
    ASSUME TapeInv, BoxInv, Read PROVE BoxInv'
<1> DEFINE i == read + 1
           s == Broken(brk, bars, i)
<1>1. /\ read' = i /\ bars' = bars /\ brk' = [s EXCEPT !.boxes = Swept(s.boxes, bars, i)]
  BY DEF Read, BrkStep
<1>2. read \in Nat
  BY DEF TapeInv
<1>3. /\ DOMAIN s = BrkFields
      /\ \A b \in s.boxes :
            b \in brk.boxes \/ (DOMAIN b = BoxFields /\ b.born = i /\ b.fired = FALSE)
  BY BrokenBoxes DEF BoxInv
<1> HIDE DEF s
<1>4. \A b \in s.boxes : LawfulBox(b, bars, read)
  <2> SUFFICES ASSUME NEW b \in s.boxes PROVE LawfulBox(b, bars, read)
    OBVIOUS
  <2>1. CASE b \in brk.boxes
    BY <2>1 DEF BoxInv
  <2>2. CASE DOMAIN b = BoxFields /\ b.born = i /\ b.fired = FALSE
    <3>1. b.born .. read = {} /\ b.born + 1 .. read = {}
      BY <1>2, <2>2
    <3>2. b.born \in Nat \ {0} /\ b.born <= read + 1
      BY <1>2, <2>2
    <3> QED
      BY <2>2, <3>1, <3>2, Zenon DEF LawfulBox, BoxLaw
  <2> QED
    BY <1>3, <2>1, <2>2
<1>5. \A b \in Swept(s.boxes, bars, i) : LawfulBox(b, bars, i)
  BY <1>2, <1>4, BoxStep DEF Swept
<1>6. DOMAIN brk' = BrkFields /\ brk'.boxes = Swept(s.boxes, bars, i)
  BY <1>1, <1>3 DEF BrkFields
<1> QED
  BY <1>1, <1>5, <1>6, Zenon DEF BoxInv

LEMMA BoxInductive == Spec => []BoxInv
<1>1. Init => BoxInv
  BY DEF Init, BoxInv, BrkFresh, BrkFields
<1>2. ASSUME ChainInv, BoxInv, [Next]_vars PROVE BoxInv'
  <2>1. ASSUME NEW s \in Shapes, Bar(s) PROVE BoxInv'
    <3> DEFINE b == Candle(bars[Len(bars)].c, s)
    <3>1. bars' = Append(bars, b) /\ read' = read /\ brk' = brk
      BY <2>1 DEF Bar, structure
    <3>2. bars \in Seq(Candles) /\ read \in Nat /\ read <= Len(bars)
      BY <1>2 DEF ChainInv, TapeInv
    <3> HIDE DEF b
    <3>3. ASSUME NEW x \in brk.boxes PROVE LawfulBox(x, bars', read)
      <4>1. LawfulBox(x, bars, read) /\ x.born \in Nat \ {0}
        BY <1>2, <3>3 DEF BoxInv, LawfulBox
      <4>2. \A j \in x.born .. read : bars'[j] = bars[j]
        BY <3>1, <3>2, <4>1
      <4>3. \A j \in x.born + 1 .. read : j \in x.born .. read
        BY <3>2, <4>1
      <4> QED
        BY <4>1, <4>2, <4>3, Zenon DEF LawfulBox, BoxLaw
    <3> QED
      BY <1>2, <3>1, <3>3, Zenon DEF BoxInv
  <2>2. ASSUME Read PROVE BoxInv'
    BY <1>2, <2>2, BoxRead DEF ChainInv
  <2>3. ASSUME SessionEnd PROVE BoxInv'
    <3>1. bars' = bars /\ read' = read /\ brk' = [brk EXCEPT !.boxes = {b \in @ : ~b.fired}]
      BY <2>3 DEF SessionEnd, Unfired
    <3>2. DOMAIN brk' = BrkFields /\ brk'.boxes \subseteq brk.boxes
      BY <1>2, <3>1 DEF BoxInv, BrkFields
    <3> QED
      BY <1>2, <3>1, <3>2, Zenon DEF BoxInv
  <2>4. ASSUME Restart PROVE BoxInv'
    BY <2>4 DEF Restart, Fresh, BoxInv, BrkFresh, BrkFields
  <2>5. ASSUME UNCHANGED vars PROVE BoxInv'
    BY <1>2, <2>5 DEF vars, structure, BoxInv
  <2> QED
    BY <1>2, <2>1, <2>2, <2>3, <2>4, <2>5 DEF Next
<1> QED
  BY <1>1, <1>2, ChainInductive, PTL DEF Spec

(* A breaker box is on the list, and has fired, as the closes since its    *)
(* birth say, whatever sessions ended and runs restarted in between.       *)
THEOREM BoxesObeyTheTapeThm == Spec => []BoxesObeyTheTape
<1>1. BoxInv => BoxesObeyTheTape
  BY DEF BoxInv, LawfulBox, BoxesObeyTheTape
<1> QED
  BY <1>1, BoxInductive, PTL

-----------------------------------------------------------------------------
(* Types, for every tape: what the detectors hold after n bars.            *)

(* What run_all does to all of it on bar n, as one record.                 *)
Scan(s, w, n) ==
    LET seen == ObStep(s.blocks, s.start, w, n)
    IN  [gaps |-> FvgStep(s.gaps, w, n), blocks |-> seen,
         start |-> StartAfter(w, s.start, n),
         kids |-> KidsStep(s.kids, s.blocks, seen, w, n),
         idm |-> IdmStep(s.idm, w, n), brk |-> BrkStep(s.brk, w, n)]

TypedZone(z, n) ==
    /\ IsZone(z) /\ z.lo \in Int /\ z.hi \in Int /\ z.lo <= z.hi /\ z.dir \in {1, -1}
    /\ z.a \in Int /\ z.a <= z.b /\ z.b <= n
    /\ z.fired => z.armed
Points(n) == [at : 0 .. n, p : Int]
TypedBox(b, n) ==
    /\ DOMAIN b = BoxFields /\ b.bot \in Int /\ b.top \in Int /\ b.bot <= b.top
    /\ b.born \in Int /\ b.born <= n /\ b.fired \in BOOLEAN
TypedBrk(s, n) ==
    /\ DOMAIN s = BrkFields
    /\ s.hi \in Points(n) /\ s.lo \in Points(n)
    /\ s.highs \in Seq(Points(n)) /\ s.lows \in Seq(Points(n))
    /\ \A b \in s.boxes : TypedBox(b, n)
TypedState(s, n) ==
    /\ \A z \in s.gaps : TypedZone(z, n) /\ z.kind \in {"FVG", "IFVG"}
    /\ \A z \in s.blocks : TypedZone(z, n) /\ z.kind \in {"OB", "FLIP"}
    /\ \A z \in s.kids : TypedZone(z, n)
    /\ s.start \in 1 .. n + 1
    /\ TypedBrk(s.brk, n)

LEMMA CandleFacts ==
    ASSUME NEW w \in Seq(Candles), NEW j \in 1 .. Len(w)
    PROVE  /\ w[j].o \in Int /\ w[j].h \in Int /\ w[j].l \in Int /\ w[j].c \in Int
           /\ w[j].l <= w[j].o /\ w[j].l <= w[j].c /\ w[j].o <= w[j].h /\ w[j].c <= w[j].h
           /\ w[j].l <= w[j].h
<1>1. w[j] \in Candles
  OBVIOUS
<1> QED BY <1>1 DEF Candles

LEMMA BornIsTyped ==
    ASSUME NEW kind, NEW dir \in {1, -1}, NEW lo \in Int, NEW hi \in Int, lo <= hi,
           NEW b \in Nat, NEW a \in Int, a <= b, NEW of
    PROVE  LET z == Zone(kind, dir, lo, hi, a, b, of) IN TypedZone(z, b) /\ z.kind = kind
<1> DEFINE z == Zone(kind, dir, lo, hi, a, b, of)
<1>1. /\ IsZone(z) /\ z.kind = kind /\ z.dir = dir /\ z.lo = lo /\ z.hi = hi
      /\ z.a = a /\ z.b = b /\ z.fired = FALSE
  BY DEF Zone, IsZone, Fields
<1> HIDE DEF z
<1> QED BY <1>1 DEF TypedZone, z

LEMMA StepIsTyped ==
    ASSUME NEW w, NEW n \in Nat, NEW z, TypedZone(z, n)
    PROVE  TypedZone(StepZone(z, w, n + 1), n + 1) /\ StepZone(z, w, n + 1).kind = z.kind
<1> DEFINE y == StepZone(z, w, n + 1)
<1>1. /\ IsZone(y) /\ y.kind = z.kind /\ y.dir = z.dir /\ y.lo = z.lo /\ y.hi = z.hi
      /\ y.a = z.a /\ y.b = z.b
      /\ y.armed <=> z.armed \/ (Holds(z, w, n + 1) /\ Left(z, w[n + 1]))
      /\ y.fired <=> z.fired \/ Retests(z, w, n + 1)
  BY StepIsZone DEF TypedZone
<1> HIDE DEF y
<1>2. z.b \in Nat /\ z.b <= n + 1 /\ (z.fired => z.armed)
  BY DEF TypedZone, IsZone
<1>3. y.fired => y.armed
  BY <1>1, <1>2, Zenon DEF Retests
<1>4. TypedZone(y, n + 1)
  BY <1>1, <1>2, <1>3, Zenon DEF TypedZone
<1> QED BY <1>1, <1>4 DEF y

LEMMA FlippedIsTyped ==
    ASSUME NEW w, NEW n \in Nat, NEW zs, \A z \in zs : TypedZone(z, n), NEW kind, NEW into
    PROVE  \A y \in Flipped(zs, kind, into, w, n + 1) : TypedZone(y, n + 1) /\ y.kind = into
<1> SUFFICES ASSUME NEW z \in zs
             PROVE  LET y == Zone(into, -z.dir, z.lo, z.hi, n + 1, n + 1, <<z.a, z.b>>)
                    IN  TypedZone(y, n + 1) /\ y.kind = into
  BY DEF Flipped
<1>1. z.lo \in Int /\ z.hi \in Int /\ z.lo <= z.hi /\ -z.dir \in {1, -1}
  BY DEF TypedZone
<1>2. n + 1 \in Nat /\ n + 1 \in Int /\ n + 1 <= n + 1
  OBVIOUS
<1> QED BY <1>1, <1>2, BornIsTyped

LEMMA FvgIsTyped ==
    ASSUME NEW w \in Seq(Candles), NEW n \in Nat, n < Len(w),
           NEW zs, \A z \in zs : TypedZone(z, n) /\ z.kind \in {"FVG", "IFVG"}
    PROVE  \A z \in FvgStep(zs, w, n + 1) : TypedZone(z, n + 1) /\ z.kind \in {"FVG", "IFVG"}
<1> DEFINE i == n + 1
           seen == {StepZone(z, w, i) : z \in zs}
           Good(z) == TypedZone(z, i) /\ z.kind \in {"FVG", "IFVG"}
<1>1. \A z \in seen : Good(z)
  BY StepIsTyped
<1>2. \A z \in Flipped(zs, "FVG", "IFVG", w, i) : Good(z)
  BY FlippedIsTyped
<1>3. \A m \in Widths(i) : i - m - 1 \in 1 .. Len(w) /\ i - m - 1 <= i
  BY MMaxAssumption DEF Widths
<1>4. i \in 1 .. Len(w) /\ i \in Nat
  OBVIOUS
<1>5. \A z \in GapsAt(w, i) : Good(z)
  <2>1. ASSUME NEW m \in Widths(i), UpGap(w, i, m)
        PROVE  Good(Zone("FVG", 1, w[i-m-1].h, w[i].l, i - m - 1, i, <<>>))
    <3>1. w[i-m-1].h \in Int /\ w[i].l \in Int /\ w[i-m-1].h <= w[i].l
      BY <1>3, <1>4, <2>1, CandleFacts DEF UpGap
    <3>2. i - m - 1 \in Int /\ i - m - 1 <= i /\ 1 \in {1, -1}
      BY <1>3
    <3> HIDE DEF i
    <3> QED BY <1>4, <3>1, <3>2, BornIsTyped
  <2>2. ASSUME NEW m \in Widths(i), DownGap(w, i, m)
        PROVE  Good(Zone("FVG", -1, w[i].h, w[i-m-1].l, i - m - 1, i, <<>>))
    <3>1. w[i].h \in Int /\ w[i-m-1].l \in Int /\ w[i].h <= w[i-m-1].l
      BY <1>3, <1>4, <2>2, CandleFacts DEF DownGap
    <3>2. i - m - 1 \in Int /\ i - m - 1 <= i /\ -1 \in {1, -1}
      BY <1>3
    <3> HIDE DEF i
    <3> QED BY <1>4, <3>1, <3>2, BornIsTyped
  <2> HIDE DEF Good, i
  <2> QED BY <2>1, <2>2 DEF GapsAt
<1>6. Kept(GapsAt(w, i), seen) \subseteq GapsAt(w, i)
  BY DEF Kept
<1>7. FvgStep(zs, w, i) = seen \cup Flipped(zs, "FVG", "IFVG", w, i) \cup Kept(GapsAt(w, i), seen)
  BY DEF FvgStep
<1> HIDE DEF seen, Good, i
<1>8. \A z \in FvgStep(zs, w, i) : Good(z)
  BY <1>1, <1>2, <1>5, <1>6, <1>7
<1> QED BY <1>8 DEF Good, i

LEMMA BodyRange ==
    ASSUME NEW w \in Seq(Candles), NEW k \in Int, NEW j \in Int, 1 <= k, k <= j, j <= Len(w)
    PROVE  /\ BodyLo(w, k .. j) \in Int /\ BodyHi(w, k .. j) \in Int
           /\ BodyLo(w, k .. j) <= BodyHi(w, k .. j)
<1> DEFINE f == [i \in k .. j |-> Low(w[i].o, w[i].c)]
           g == [i \in k .. j |-> High(w[i].o, w[i].c)]
           S == {f[i] : i \in k .. j}
           T == {g[i] : i \in k .. j}
<1>1. \A i \in k .. j : i \in 1 .. Len(w)
  OBVIOUS
<1>2. \A i \in k .. j : f[i] \in Int /\ g[i] \in Int /\ f[i] <= g[i]
  <2> SUFFICES ASSUME NEW i \in k .. j PROVE f[i] \in Int /\ g[i] \in Int /\ f[i] <= g[i]
    OBVIOUS
  <2>1. w[i].o \in Int /\ w[i].c \in Int
    BY <1>1, CandleFacts
  <2> QED BY <2>1 DEF Low, High
<1>3. BodyLo(w, k .. j) = Min(S) /\ BodyHi(w, k .. j) = Max(T)
  BY DEF BodyLo, BodyHi
<1>4. k \in k .. j /\ IsFiniteSet(k .. j)
  BY FS_Interval
<1>5. IsFiniteSet(S) /\ IsFiniteSet(T)
  <2> HIDE DEF f, g
  <2> QED BY <1>4, ImageIsFinite
<1>6. S \subseteq Int /\ T \subseteq Int /\ f[k] \in S /\ g[k] \in T
  <2> HIDE DEF f, g
  <2> QED BY <1>2, <1>4
<1>7. f[k] \in Int /\ g[k] \in Int /\ f[k] <= g[k]
  <2> HIDE DEF f, g
  <2> QED BY <1>2, <1>4
<1> HIDE DEF S, T, f, g
<1>8. /\ Min(S) \in S /\ Min(S) <= f[k] /\ Max(T) \in T /\ Max(T) >= g[k]
  BY <1>5, <1>6, MinMax
<1> DEFINE lo == Min(S)
           hi == Max(T)
<1> HIDE DEF lo, hi
<1>9. lo \in Int /\ hi \in Int /\ lo <= f[k] /\ hi >= g[k]
  BY <1>6, <1>8 DEF lo, hi
<1>10. lo \in Int /\ hi \in Int /\ lo <= hi
  BY <1>7, <1>9
<1> QED BY <1>3, <1>10 DEF lo, hi

LEMMA ObIsTyped ==
    ASSUME NEW w \in Seq(Candles), NEW n \in Nat, n < Len(w), NEW from \in 1 .. n + 1,
           NEW zs, \A z \in zs : TypedZone(z, n) /\ z.kind \in {"OB", "FLIP"}
    PROVE  /\ \A z \in ObStep(zs, from, w, n + 1) :
                  TypedZone(z, n + 1) /\ z.kind \in {"OB", "FLIP"}
           /\ StartAfter(w, from, n + 1) \in 1 .. n + 2
<1> DEFINE i == n + 1
           seen == {StepZone(z, w, i) : z \in zs}
           Good(z) == TypedZone(z, i) /\ z.kind \in {"OB", "FLIP"}
<1>1. \A z \in seen : Good(z)
  BY StepIsTyped
<1>2. \A z \in Flipped(zs, "OB", "FLIP", w, i) : Good(z)
  BY FlippedIsTyped
<1>3. \A z \in BlocksAt(w, from, i) : Good(z)
  <2> SUFFICES ASSUME NEW d \in {1, -1}, NEW k \in from .. i - 1
               PROVE  Good(Zone("OB", d, BodyLo(w, k .. i - 1), BodyHi(w, k .. i - 1), k, i, <<>>))
    <3> HIDE DEF Good, i
    <3> QED BY DEF BlocksAt, FirstAgainst
  <2>1. k \in Int /\ 1 <= k /\ k <= i - 1 /\ i - 1 <= Len(w) /\ k <= i /\ i \in Nat /\ i - 1 \in Int
    OBVIOUS
  <2>2. /\ BodyLo(w, k .. i - 1) \in Int /\ BodyHi(w, k .. i - 1) \in Int
        /\ BodyLo(w, k .. i - 1) <= BodyHi(w, k .. i - 1)
    BY <2>1, BodyRange
  <2> HIDE DEF i
  <2> QED BY <2>1, <2>2, BornIsTyped
<1>4. ObStep(zs, from, w, i) = seen \cup Flipped(zs, "OB", "FLIP", w, i) \cup BlocksAt(w, from, i)
  BY DEF ObStep
<1>5. StartAfter(w, from, i) \in 1 .. n + 2
  BY DEF StartAfter
<1> HIDE DEF seen, Good, i
<1>6. \A z \in ObStep(zs, from, w, i) : Good(z)
  BY <1>1, <1>2, <1>3, <1>4
<1> QED BY <1>5, <1>6 DEF Good, i

LEMMA KidsAreTyped ==
    ASSUME NEW w \in Seq(Candles), NEW n \in Nat, n < Len(w), NEW ks, NEW zs, NEW seen,
           \A k \in ks : TypedZone(k, n), \A z \in zs : TypedZone(z, n)
    PROVE  \A k \in KidsStep(ks, zs, seen, w, n + 1) : TypedZone(k, n + 1)
<1> DEFINE i == n + 1
<1>1. ASSUME NEW k \in ks, NEW up
      PROVE  TypedZone([k EXCEPT !.alive = @ /\ up], n)
  <2> DEFINE now == k.alive /\ up
             y == [k EXCEPT !.alive = now]
  <2>1. IsZone(k) /\ now \in BOOLEAN
    BY Zenon DEF TypedZone
  <2> HIDE DEF now
  <2>2. /\ DOMAIN y = Fields /\ y = [f \in Fields |-> y[f]] /\ y.alive = now
        /\ y.dir = k.dir /\ y.lo = k.lo /\ y.hi = k.hi /\ y.a = k.a /\ y.b = k.b
        /\ y.armed = k.armed /\ y.fired = k.fired
    BY <2>1 DEF IsZone, Fields
  <2> HIDE DEF y
  <2>3. TypedZone(y, n)
    BY <2>1, <2>2, Zenon DEF TypedZone, IsZone
  <2> QED BY <2>3, Zenon DEF y, now
<1>2. \A k \in Cascade(ks, seen) : TypedZone(k, n)
  BY <1>1, Zenon DEF Cascade
<1>3. \A k \in {StepZone(x, w, i) : x \in Cascade(ks, seen)} : TypedZone(k, i)
  BY <1>2, StepIsTyped
<1>4. \A k \in KidsAt(zs, w, i) : TypedZone(k, i)
  <2> SUFFICES ASSUME NEW p \in zs
               PROVE  TypedZone(Zone("PRP", p.dir, Low(w[i].o, w[i].c),
                                     High(w[i].o, w[i].c), i, i, <<p.a, p.b>>), i)
    BY DEF KidsAt
  <2>1. i \in 1 .. Len(w) /\ i \in Nat /\ i \in Int /\ i <= i
    OBVIOUS
  <2>2. w[i].o \in Int /\ w[i].c \in Int
    BY <2>1, CandleFacts
  <2>3. /\ Low(w[i].o, w[i].c) \in Int /\ High(w[i].o, w[i].c) \in Int
        /\ Low(w[i].o, w[i].c) <= High(w[i].o, w[i].c)
    BY <2>2 DEF Low, High
  <2>4. p.dir \in {1, -1}
    BY DEF TypedZone
  <2> HIDE DEF i
  <2> QED BY <2>1, <2>3, <2>4, BornIsTyped
<1> HIDE DEF i
<1>5. \A k \in KidsStep(ks, zs, seen, w, i) : TypedZone(k, i)
  BY <1>3, <1>4 DEF KidsStep
<1> QED BY <1>5 DEF i

(* The zigzag's points are bars read, so a box spans a bar read.           *)
LEMMA OriginsAreRead ==
    ASSUME NEW w, NEW i \in Nat, NEW a \in 0 .. i, NEW b \in 0 .. i, NEW d
    PROVE  Origins(w, a, b, d) \subseteq 1 .. i /\ IsFiniteSet(Origins(w, a, b, d))
<1>1. a - Zz \in Int /\ 1 \in Int
  BY SwingAssumption
<1>2. Max({1, a - Zz}) \in Int /\ Max({1, a - Zz}) >= 1
  BY <1>1, PairExtremes
<1> DEFINE first == Max({1, a - Zz})
<1>3. Origins(w, a, b, d) \subseteq first .. b
  BY DEF Origins
<1> HIDE DEF first
<1>4. first .. b \subseteq 1 .. i
  BY <1>2 DEF first
<1>5. IsFiniteSet(1 .. i)
  BY FS_Interval
<1> QED BY <1>3, <1>4, <1>5, FS_Subset

LEMMA NewBoxIsTyped ==
    ASSUME NEW w \in Seq(Candles), NEW i \in 1 .. Len(w), NEW s, NEW d,
           s.highs \in Seq(Points(i)), s.lows \in Seq(Points(i)),
           Len(s.highs) = 2, Len(s.lows) = 2
    PROVE  \A b \in NewBox(s, w, i, d) : TypedBox(b, i)
<1>1. s.highs[1].at \in 0 .. i /\ s.lows[1].at \in 0 .. i
  <2>1. s.highs[1] \in Points(i) /\ s.lows[1] \in Points(i)
    OBVIOUS
  <2> QED BY <2>1 DEF Points
<1> DEFINE js == IF d = -1 THEN Origins(w, s.highs[1].at, s.lows[1].at, d)
                           ELSE Origins(w, s.lows[1].at, s.highs[1].at, d)
<1>2. js \subseteq 1 .. i /\ IsFiniteSet(js)
  <2>1. i \in Nat
    OBVIOUS
  <2> QED BY <1>1, <2>1, OriginsAreRead
<1> HIDE DEF js
<1>3. NewBox(s, w, i, d) \subseteq BoxOf(w, js, d, i) /\ (js = {} => NewBox(s, w, i, d) = {})
  BY DEF NewBox, js
<1>4. ASSUME js # {} PROVE \A b \in BoxOf(w, js, d, i) : TypedBox(b, i)
  <2>1. Max(js) \in 1 .. i
    <3>1. js \subseteq Int
      BY <1>2
    <3>2. Max(js) \in js
      BY <1>2, <1>4, <3>1, MinMax
    <3> QED BY <1>2, <3>2
  <2> DEFINE j == Max(js)
             b == [top |-> w[j].h, bot |-> w[j].l, d |-> d, born |-> i, fired |-> FALSE]
  <2>2. BoxOf(w, js, d, i) = {b}
    BY DEF BoxOf
  <2>3. w[j].h \in Int /\ w[j].l \in Int /\ w[j].l <= w[j].h
    BY <2>1, CandleFacts
  <2> HIDE DEF j
  <2>4. TypedBox(b, i)
    BY <2>3 DEF TypedBox, BoxFields
  <2> QED BY <2>2, <2>4
<1> QED BY <1>3, <1>4

(* The two newest swings, of points of bars read.                          *)
LEMMA LastTwoType ==
    ASSUME NEW T, NEW s \in Seq(T), NEW x \in T
    PROVE  LastTwo(s, x) \in Seq(T)
<1>1. CASE Len(s) < 2
  BY <1>1 DEF LastTwo
<1>2. CASE ~(Len(s) < 2)
  BY <1>2 DEF LastTwo
<1> QED BY <1>1, <1>2

LEMMA FlipIsTyped ==
    ASSUME NEW w \in Seq(Candles), NEW n \in Nat, n < Len(w), NEW s, TypedBrk(s, n)
    PROVE  /\ DOMAIN Flip(s, w, n + 1) = BrkFields
           /\ Flip(s, w, n + 1).hi \in Points(n + 1) /\ Flip(s, w, n + 1).lo \in Points(n + 1)
           /\ Flip(s, w, n + 1).highs \in Seq(Points(n + 1))
           /\ Flip(s, w, n + 1).lows \in Seq(Points(n + 1))
           /\ Flip(s, w, n + 1).boxes = s.boxes
           /\ Flip(s, w, n + 1).market = s.market
           /\ Flip(s, w, n + 1).l0 = s.l0 /\ Flip(s, w, n + 1).h0 = s.h0
<1> DEFINE i == n + 1
           e == Extended(s, w, i)
           P == Points(i)
<1>1. i \in 1 .. Len(w) /\ i \in Nat
  OBVIOUS
<1>2. Point(i, w[i].h) \in P /\ Point(i, w[i].l) \in P
  BY <1>1, CandleFacts DEF Point, Points
<1>3. Points(n) \subseteq P
  BY DEF Points
<1>4. /\ DOMAIN s = BrkFields /\ s.hi \in P /\ s.lo \in P
      /\ s.highs \in Seq(P) /\ s.lows \in Seq(P)
  <2> HIDE DEF P
  <2> QED BY <1>3 DEF TypedBrk
<1> HIDE DEF P, i
<1>5. /\ DOMAIN e = BrkFields /\ e.boxes = s.boxes /\ e.market = s.market /\ e.trend = s.trend
      /\ e.highs = s.highs /\ e.lows = s.lows /\ e.l0 = s.l0 /\ e.h0 = s.h0
      /\ e.hi \in P /\ e.lo \in P
  BY <1>2, <1>4 DEF Extended, BrkFields
<1> HIDE DEF e
<1>6. LastTwo(e.highs, e.hi) \in Seq(P) /\ LastTwo(e.lows, e.lo) \in Seq(P)
  BY <1>4, <1>5, LastTwoType
<1>7. CASE ~Turns(s, w, i)
  <2>1. Flip(s, w, i) = e
    BY <1>7 DEF Flip, e
  <2> QED BY <2>1, <1>4, <1>5 DEF P, i
<1>8. CASE Turns(s, w, i)
  <2> DEFINE f == [e EXCEPT !.trend = -@,
                       !.highs = IF s.trend = 1 THEN LastTwo(@, e.hi) ELSE @,
                       !.lows  = IF s.trend = 1 THEN @ ELSE LastTwo(@, e.lo),
                       !.hi = Point(i, w[i].h), !.lo = Point(i, w[i].l)]
  <2>1. Flip(s, w, i) = f
    BY <1>8 DEF Flip, e
  <2>2. /\ DOMAIN f = BrkFields /\ f.boxes = e.boxes /\ f.market = e.market
        /\ f.l0 = e.l0 /\ f.h0 = e.h0
        /\ f.hi = Point(i, w[i].h) /\ f.lo = Point(i, w[i].l)
        /\ f.highs \in {e.highs, LastTwo(e.highs, e.hi)}
        /\ f.lows \in {e.lows, LastTwo(e.lows, e.lo)}
    BY <1>5 DEF BrkFields
  <2> HIDE DEF f
  <2> QED BY <2>1, <2>2, <1>2, <1>4, <1>5, <1>6 DEF P, i
<1> QED BY <1>7, <1>8

LEMMA BrkIsTyped ==
    ASSUME NEW w \in Seq(Candles), NEW n \in Nat, n < Len(w), NEW s, TypedBrk(s, n)
    PROVE  TypedBrk(BrkStep(s, w, n + 1), n + 1)
<1> DEFINE i == n + 1
           f == Flip(s, w, i)
           m == Msb(f, w, i)
           y == BrkStep(s, w, i)
<1>1. i \in 1 .. Len(w)
  OBVIOUS
<1>2. /\ DOMAIN f = BrkFields /\ f.hi \in Points(i) /\ f.lo \in Points(i)
      /\ f.highs \in Seq(Points(i)) /\ f.lows \in Seq(Points(i)) /\ f.boxes = s.boxes
  BY FlipIsTyped
<1>3. \A b \in s.boxes : TypedBox(b, i)
  <2>1. \A b \in s.boxes : TypedBox(b, n)
    BY DEF TypedBrk
  <2> QED BY <2>1 DEF TypedBox
<1> HIDE DEF i, f
<1>4. /\ DOMAIN m = BrkFields /\ m.hi = f.hi /\ m.lo = f.lo /\ m.highs = f.highs /\ m.lows = f.lows
      /\ \A b \in m.boxes : TypedBox(b, i)
  <2>1. CASE ~MayBreak(f, i) \/ ~(BreaksDown(f) \/ BreaksUp(f))
    <3>1. m = f
      BY <2>1 DEF Msb
    <3> HIDE DEF m
    <3> QED BY <3>1, <1>2, <1>3
  <2>2. CASE MayBreak(f, i) /\ (BreaksDown(f) \/ BreaksUp(f))
    <3>1. \A b \in NewBox(f, w, i, -f.market) : TypedBox(b, i)
      BY <1>1, <1>2, <2>2, NewBoxIsTyped DEF MayBreak
    <3>2. m = [f EXCEPT !.market = -@, !.l0 = f.lows[2].p, !.h0 = f.highs[2].p,
                        !.boxes = @ \cup NewBox(f, w, i, -f.market)]
      BY <2>2 DEF Msb
    <3>3. /\ DOMAIN m = BrkFields /\ m.hi = f.hi /\ m.lo = f.lo
          /\ m.highs = f.highs /\ m.lows = f.lows
          /\ m.boxes = f.boxes \cup NewBox(f, w, i, -f.market)
      BY <1>2, <3>2 DEF BrkFields
    <3> HIDE DEF m
    <3> QED BY <3>1, <3>3, <1>2, <1>3
  <2> QED BY <2>1, <2>2
<1>5. y = [m EXCEPT !.boxes = Swept(@, w, i)]
  BY DEF BrkStep, Broken, f
<1> HIDE DEF m
<1>6. /\ DOMAIN y = BrkFields /\ y.hi = f.hi /\ y.lo = f.lo /\ y.highs = f.highs /\ y.lows = f.lows
      /\ y.boxes = Swept(m.boxes, w, i)
  BY <1>4, <1>5 DEF BrkFields
<1>7. ASSUME NEW b, TypedBox(b, i) PROVE TypedBox([b EXCEPT !.fired = @ \/ Fires(b, w, i)], i)
  <2> DEFINE now == b.fired \/ Fires(b, w, i)
             x == [b EXCEPT !.fired = now]
  <2>1. now \in BOOLEAN
    BY <1>7, Zenon DEF TypedBox
  <2> HIDE DEF now
  <2>2. DOMAIN x = BoxFields /\ x.fired = now /\ x.bot = b.bot /\ x.top = b.top /\ x.born = b.born
    BY <1>7 DEF TypedBox, BoxFields
  <2> HIDE DEF x
  <2>3. TypedBox(x, i)
    BY <1>7, <2>1, <2>2, Zenon DEF TypedBox
  <2> QED BY <2>3, Zenon DEF x, now
<1>8. \A b \in y.boxes : TypedBox(b, i)
  BY <1>4, <1>6, <1>7, Zenon DEF Swept
<1> HIDE DEF y
<1>9. TypedBrk(y, i)
  BY <1>2, <1>6, <1>8 DEF TypedBrk
<1> QED BY <1>9 DEF y, i

(* One bar keeps every type.                                               *)
LEMMA ScanIsTyped ==
    ASSUME NEW w \in Seq(Candles), NEW n \in Nat, n < Len(w), NEW s, TypedState(s, n)
    PROVE  TypedState(Scan(s, w, n + 1), n + 1)
<1> DEFINE i == n + 1
           seen == ObStep(s.blocks, s.start, w, i)
           y == Scan(s, w, i)
<1>1. /\ y.gaps = FvgStep(s.gaps, w, i) /\ y.blocks = seen
      /\ y.start = StartAfter(w, s.start, i)
      /\ y.kids = KidsStep(s.kids, s.blocks, seen, w, i) /\ y.brk = BrkStep(s.brk, w, i)
  BY DEF Scan
<1>2. \A z \in FvgStep(s.gaps, w, i) : TypedZone(z, i) /\ z.kind \in {"FVG", "IFVG"}
  BY FvgIsTyped DEF TypedState
<1>3. /\ \A z \in seen : TypedZone(z, i) /\ z.kind \in {"OB", "FLIP"}
      /\ StartAfter(w, s.start, i) \in 1 .. n + 2
  BY ObIsTyped DEF TypedState
<1>4. \A z \in KidsStep(s.kids, s.blocks, seen, w, i) : TypedZone(z, i)
  <2> HIDE DEF seen
  <2> QED BY KidsAreTyped DEF TypedState
<1>5. TypedBrk(BrkStep(s.brk, w, i), i)
  BY BrkIsTyped DEF TypedState
<1>6. n + 2 = i + 1
  OBVIOUS
<1> HIDE DEF y, seen, i
<1>7. TypedState(y, i)
  BY <1>1, <1>2, <1>3, <1>4, <1>5, <1>6 DEF TypedState
<1> QED BY <1>7 DEF y, i

-----------------------------------------------------------------------------
Held == [gaps |-> gaps, blocks |-> blocks, start |-> start, kids |-> kids,
         idm |-> idm, brk |-> brk]
ScanFresh == [gaps |-> {}, blocks |-> {}, start |-> 1, kids |-> {},
              idm |-> IdmFresh, brk |-> BrkFresh]
TypeInv == TypedState(Held, read) /\ Len(bars) <= MaxBars

LEMMA ReadScans == Read => Held' = Scan(Held, bars, read + 1)
BY DEF Read, Held, Scan

LEMMA FreshIsTyped == TypedState(ScanFresh, 0)
<1>1. Point(0, NoPrice) \in Points(0)
  BY DEF Point, Points, NoPrice
<1>2. TypedBrk(BrkFresh, 0)
  BY <1>1 DEF TypedBrk, BrkFresh, BrkFields
<1> QED BY <1>2 DEF TypedState, ScanFresh

(* A session end only takes zones and boxes away.                          *)
LEMMA PrunedIsTyped ==
    ASSUME NEW s, NEW t, NEW n, TypedState(s, n),
           t.gaps \subseteq s.gaps, t.blocks \subseteq s.blocks, t.kids \subseteq s.kids,
           t.start = s.start, t.brk = Unfired(s.brk)
    PROVE  TypedState(t, n)
<1>1. /\ DOMAIN s.brk = BrkFields
      /\ s.brk.hi \in Points(n) /\ s.brk.lo \in Points(n)
      /\ s.brk.highs \in Seq(Points(n)) /\ s.brk.lows \in Seq(Points(n))
      /\ \A b \in s.brk.boxes : TypedBox(b, n)
  BY DEF TypedState, TypedBrk
<1> DEFINE u == Unfired(s.brk)
<1>2. /\ DOMAIN u = BrkFields /\ u.hi = s.brk.hi /\ u.lo = s.brk.lo
      /\ u.highs = s.brk.highs /\ u.lows = s.brk.lows /\ u.boxes \subseteq s.brk.boxes
  BY <1>1 DEF Unfired, BrkFields
<1> HIDE DEF u
<1>3. TypedBrk(u, n)
  BY <1>1, <1>2 DEF TypedBrk
<1> QED BY <1>3 DEF TypedState, u

LEMMA TypeInductive == Spec => []TypeInv
<1>1. ASSUME Init PROVE TypeInv
  <2>1. read = 0 /\ Held = ScanFresh
    BY <1>1 DEF Init, Held, ScanFresh
  <2>2. Len(bars) <= MaxBars
    BY <1>1, SeedsAssumption DEF Init
  <2> QED BY <2>1, <2>2, FreshIsTyped DEF TypeInv
<1>2. ASSUME ChainInv, TypeInv, [Next]_vars PROVE TypeInv'
  <2>1. bars \in Seq(Candles) /\ read \in Nat /\ read <= Len(bars)
    BY <1>2 DEF ChainInv, TapeInv
  <2>2. ASSUME NEW s \in Shapes, Bar(s) PROVE TypeInv'
    <3> DEFINE b == Candle(bars[Len(bars)].c, s)
    <3>1. bars' = Append(bars, b) /\ read' = read /\ Held' = Held /\ Len(bars) < MaxBars
      BY <2>2 DEF Bar, structure, zones, Held
    <3> HIDE DEF b
    <3>2. Len(bars') = Len(bars) + 1
      BY <2>1, <3>1
    <3>3. Len(bars') <= MaxBars
      BY <2>1, <3>1, <3>2, BoundsAssumption
    <3> QED BY <1>2, <3>1, <3>3 DEF TypeInv
  <2>3. ASSUME Read PROVE TypeInv'
    <3>1. /\ read < Len(bars) /\ bars' = bars /\ read' = read + 1
          /\ Held' = Scan(Held, bars, read + 1)
      BY <1>2, <2>3, ReadScans DEF Read, ChainInv, TapeInv
    <3> QED BY <1>2, <2>1, <3>1, ScanIsTyped DEF TypeInv
  <2>4. ASSUME SessionEnd PROVE TypeInv'
    <3>1. /\ bars' = bars /\ read' = read
          /\ Held'.gaps \subseteq Held.gaps /\ Held'.blocks \subseteq Held.blocks
          /\ Held'.kids \subseteq Held.kids /\ Held'.start = Held.start
          /\ Held'.brk = Unfired(Held.brk)
      BY <2>4 DEF SessionEnd, Held, Alive
    <3> QED BY <1>2, <3>1, PrunedIsTyped DEF TypeInv
  <2>5. ASSUME Restart PROVE TypeInv'
    <3>1. read' = 0 /\ Held' = ScanFresh /\ bars' = bars
      BY <2>5 DEF Restart, Fresh, Held, ScanFresh
    <3> QED BY <1>2, <3>1, FreshIsTyped DEF TypeInv
  <2>6. ASSUME UNCHANGED vars PROVE TypeInv'
    BY <1>2, <2>6 DEF vars, structure, zones, TypeInv, Held
  <2> QED BY <1>2, <2>2, <2>3, <2>4, <2>5, <2>6 DEF Next
<1> QED
  BY <1>1, <1>2, ChainInductive, PTL DEF Spec

(* For every tape: no band is upside down, a zone comes from bars that     *)
(* have been read, and the pause and the boxes lie on the tape.            *)
THEOREM TypeOKThm == Spec => []TypeOK
<1>1. ASSUME ChainInv, TypeInv PROVE TypeOK
  <2>1. TypedState(Held, read)
    BY <1>1 DEF TypeInv
  <2>2. /\ \A z \in gaps : TypedZone(z, read) /\ z.kind \in {"FVG", "IFVG"}
        /\ \A z \in blocks : TypedZone(z, read) /\ z.kind \in {"OB", "FLIP"}
        /\ \A z \in kids : TypedZone(z, read)
        /\ start \in 1 .. read + 1 /\ TypedBrk(brk, read)
    BY <2>1 DEF TypedState, Held
  <2>3. \A z \in gaps \cup blocks \cup kids : ZoneOK(z)
    BY <2>2 DEF TypedZone, ZoneOK
  <2>4. \A b \in brk.boxes : b.bot <= b.top /\ b.born <= read
    BY <2>2 DEF TypedBrk, TypedBox
  <2>5. /\ Len(bars) <= MaxBars /\ read \in 0 .. Len(bars)
        /\ detecting => read < Len(bars)
    BY <1>1 DEF ChainInv, TapeInv, TypeInv
  <2> QED BY <2>2, <2>3, <2>4, <2>5 DEF TypeOK
<1> QED BY <1>1, ChainInductive, TypeInductive, PTL

-----------------------------------------------------------------------------
(* A bar depends on what lives only: two states with the same live zones   *)
(* and unfired boxes have the same live zones and unfired boxes after it.  *)

SameLife(s, t) ==
    /\ Alive(s.gaps) = Alive(t.gaps) /\ Alive(s.blocks) = Alive(t.blocks)
    /\ Alive(s.kids) = Alive(t.kids) /\ s.start = t.start
    /\ s.idm = t.idm /\ Unfired(s.brk) = Unfired(t.brk)

LEMMA AliveStepped ==
    ASSUME NEW zs, NEW ys, \A z \in zs \cup ys : IsZone(z), Alive(zs) = Alive(ys),
           NEW w, NEW i
    PROVE  Alive({StepZone(z, w, i) : z \in zs}) = Alive({StepZone(z, w, i) : z \in ys})
<1>1. \A z \in zs \cup ys : StepZone(z, w, i).alive <=> z.alive /\ ~Breaks(z, w, i)
  BY StepIsZone
<1>2. \A z : z.alive => (z \in zs <=> z \in ys)
  BY Zenon DEF Alive
<1>3. \A x : x \in Alive({StepZone(z, w, i) : z \in zs})
               <=> \E z \in zs : z.alive /\ ~Breaks(z, w, i) /\ x = StepZone(z, w, i)
  BY <1>1, Zenon DEF Alive
<1>4. \A x : x \in Alive({StepZone(z, w, i) : z \in ys})
               <=> \E z \in ys : z.alive /\ ~Breaks(z, w, i) /\ x = StepZone(z, w, i)
  BY <1>1, Zenon DEF Alive
<1>5. \A x : x \in Alive({StepZone(z, w, i) : z \in zs})
               <=> x \in Alive({StepZone(z, w, i) : z \in ys})
  BY <1>2, <1>3, <1>4, Zenon
<1> QED BY <1>5, Zenon

LEMMA FlippedIsAlive ==
    ASSUME NEW zs, NEW ys, Alive(zs) = Alive(ys), NEW kind, NEW into, NEW w, NEW i
    PROVE  Flipped(zs, kind, into, w, i) = Flipped(ys, kind, into, w, i)
<1>1. \A z : z.alive => (z \in zs <=> z \in ys)
  BY Zenon DEF Alive
<1>2. {x \in zs : x.kind = kind /\ Breaks(x, w, i)} = {x \in ys : x.kind = kind /\ Breaks(x, w, i)}
  BY <1>1, Zenon DEF Breaks, Sees
<1> QED BY <1>2, Zenon DEF Flipped

LEMMA FvgSameLife ==
    ASSUME NEW zs, NEW ys, \A z \in zs \cup ys : IsZone(z), Alive(zs) = Alive(ys),
           NEW w, NEW i
    PROVE  Alive(FvgStep(zs, w, i)) = Alive(FvgStep(ys, w, i))
<1> DEFINE a == {StepZone(z, w, i) : z \in zs}
           b == {StepZone(z, w, i) : z \in ys}
<1>1. Alive(a) = Alive(b)
  BY AliveStepped
<1>2. Flipped(zs, "FVG", "IFVG", w, i) = Flipped(ys, "FVG", "IFVG", w, i)
  BY FlippedIsAlive
<1>3. FvgStep(zs, w, i) = (a \cup Flipped(zs, "FVG", "IFVG", w, i)) \cup Kept(GapsAt(w, i), a)
  BY DEF FvgStep
<1>4. FvgStep(ys, w, i) = (b \cup Flipped(ys, "FVG", "IFVG", w, i)) \cup Kept(GapsAt(w, i), b)
  BY DEF FvgStep
<1> HIDE DEF a, b
<1>5. \A g : Masked(g, a) <=> Masked(g, b)
  BY <1>1, Zenon DEF Masked
<1>6. Kept(GapsAt(w, i), a) = Kept(GapsAt(w, i), b)
  BY <1>5, Zenon DEF Kept
<1> DEFINE F == Flipped(zs, "FVG", "IFVG", w, i)
           K == Kept(GapsAt(w, i), a)
<1>7. FvgStep(zs, w, i) = (a \cup F) \cup K /\ FvgStep(ys, w, i) = (b \cup F) \cup K
  BY <1>2, <1>3, <1>4, <1>6, Zenon
<1> HIDE DEF F, K
<1>8. \A z : z.alive => (z \in a <=> z \in b)
  BY <1>1, Zenon DEF Alive
<1>9. Alive((a \cup F) \cup K) = Alive((b \cup F) \cup K)
  BY <1>8, Zenon DEF Alive
<1> QED BY <1>7, <1>9

LEMMA ObSameLife ==
    ASSUME NEW zs, NEW ys, \A z \in zs \cup ys : IsZone(z), Alive(zs) = Alive(ys),
           NEW w, NEW from, NEW i
    PROVE  Alive(ObStep(zs, from, w, i)) = Alive(ObStep(ys, from, w, i))
<1> DEFINE a == {StepZone(z, w, i) : z \in zs}
           b == {StepZone(z, w, i) : z \in ys}
<1>1. Alive(a) = Alive(b)
  BY AliveStepped
<1>2. Flipped(zs, "OB", "FLIP", w, i) = Flipped(ys, "OB", "FLIP", w, i)
  BY FlippedIsAlive
<1>3. ObStep(zs, from, w, i) = (a \cup Flipped(zs, "OB", "FLIP", w, i)) \cup BlocksAt(w, from, i)
  BY DEF ObStep
<1>4. ObStep(ys, from, w, i) = (b \cup Flipped(ys, "OB", "FLIP", w, i)) \cup BlocksAt(w, from, i)
  BY DEF ObStep
<1> HIDE DEF a, b
<1> DEFINE F == Flipped(zs, "OB", "FLIP", w, i)
           K == BlocksAt(w, from, i)
<1>5. ObStep(zs, from, w, i) = (a \cup F) \cup K /\ ObStep(ys, from, w, i) = (b \cup F) \cup K
  BY <1>2, <1>3, <1>4, Zenon
<1> HIDE DEF F, K
<1>6. \A z : z.alive => (z \in a <=> z \in b)
  BY <1>1, Zenon DEF Alive
<1>7. Alive((a \cup F) \cup K) = Alive((b \cup F) \cup K)
  BY <1>6, Zenon DEF Alive
<1> QED BY <1>5, <1>7

(* The cascade leaves the kids of live parents as they are.                *)
LEMMA CascadeFacts ==
    ASSUME NEW ks, \A k \in ks : IsZone(k), NEW seen
    PROVE  /\ \A k \in Cascade(ks, seen) : IsZone(k)
           /\ Alive(Cascade(ks, seen))
                = {k \in Alive(ks) : \E p \in Alive(seen) : Parent(k, p)}
<1> DEFINE Up(k) == \E p \in seen : Parent(k, p) /\ p.alive
           Cut(k) == [k EXCEPT !.alive = @ /\ Up(k)]
<1>1. ASSUME NEW k \in ks
      PROVE  /\ IsZone(Cut(k)) /\ (Cut(k).alive <=> k.alive /\ Up(k))
             /\ k.alive /\ Up(k) => Cut(k) = k
  <2> DEFINE now == k.alive /\ Up(k)
             y == [k EXCEPT !.alive = now]
  <2>1. IsZone(k) /\ now \in BOOLEAN /\ (k.alive /\ Up(k) <=> now)
    BY <1>1, Zenon
  <2> HIDE DEF now
  <2>2. /\ DOMAIN y = Fields /\ y = [f \in Fields |-> y[f]] /\ y.alive = now
        /\ y.b = k.b /\ y.armed = k.armed /\ y.fired = k.fired
    BY <2>1 DEF IsZone, Fields
  <2>3. ASSUME now PROVE y = k
    <3>1. k.alive = TRUE /\ now = TRUE
      BY <2>1, <2>3, Zenon DEF IsZone, now
    <3> QED BY <2>1, <3>1 DEF IsZone, Fields
  <2>4. Cut(k) = y
    BY Zenon DEF now
  <2> HIDE DEF y, Cut, Up
  <2>5. IsZone(y)
    BY <2>1, <2>2, Zenon DEF IsZone
  <2> QED BY <2>1, <2>2, <2>3, <2>4, <2>5, Zenon
<1>2. Cascade(ks, seen) = {Cut(k) : k \in ks}
  BY DEF Cascade
<1> HIDE DEF Cut, Up
<1>3. \A x : x \in Alive(Cascade(ks, seen)) <=> \E k \in ks : x = Cut(k) /\ k.alive /\ Up(k)
  BY <1>1, <1>2, Zenon DEF Alive
<1>4. \A x : x \in Alive(Cascade(ks, seen)) <=> x \in ks /\ x.alive /\ Up(x)
  <2>1. \A k \in ks : k.alive /\ Up(k) => Cut(k) = k
    BY <1>1
  <2>2. ASSUME NEW x, NEW k \in ks, x = Cut(k), k.alive, Up(k)
        PROVE  x \in ks /\ x.alive /\ Up(x)
    <3>1. x = k
      BY <2>1, <2>2
    <3> QED BY <2>2, <3>1
  <2> QED BY <1>3, <2>1, <2>2, Zenon
<1>5. \A x : Up(x) <=> \E p \in Alive(seen) : Parent(x, p)
  BY Zenon DEF Up, Alive
<1>6. \A x : x \in Alive(Cascade(ks, seen))
               <=> x \in {k \in Alive(ks) : \E p \in Alive(seen) : Parent(k, p)}
  BY <1>4, <1>5, Zenon DEF Alive
<1>7. \A k \in Cascade(ks, seen) : IsZone(k)
  BY <1>1, <1>2, Zenon
<1> QED BY <1>6, <1>7, Zenon

LEMMA KidsSameLife ==
    ASSUME NEW ks, NEW js, \A k \in ks \cup js : IsZone(k), Alive(ks) = Alive(js),
           NEW zs, NEW ys, Alive(zs) = Alive(ys),
           NEW A, NEW B, Alive(A) = Alive(B), NEW w, NEW i
    PROVE  Alive(KidsStep(ks, zs, A, w, i)) = Alive(KidsStep(js, ys, B, w, i))
<1>0. (\A k \in ks : IsZone(k)) /\ (\A k \in js : IsZone(k))
  OBVIOUS
<1>1. /\ \A k \in Cascade(ks, A) : IsZone(k)
      /\ \A k \in Cascade(js, B) : IsZone(k)
      /\ Alive(Cascade(ks, A)) = {k \in Alive(ks) : \E p \in Alive(A) : Parent(k, p)}
      /\ Alive(Cascade(js, B)) = {k \in Alive(js) : \E p \in Alive(B) : Parent(k, p)}
  BY <1>0, CascadeFacts
<1>6. /\ \A k \in Cascade(ks, A) \cup Cascade(js, B) : IsZone(k)
      /\ Alive(Cascade(ks, A)) = Alive(Cascade(js, B))
  BY <1>1
<1>2. Alive({StepZone(k, w, i) : k \in Cascade(ks, A)})
        = Alive({StepZone(k, w, i) : k \in Cascade(js, B)})
  <2> DEFINE X == Cascade(ks, A)
             Y == Cascade(js, B)
  <2>1. (\A k \in X \cup Y : IsZone(k)) /\ Alive(X) = Alive(Y)
    BY <1>6
  <2> HIDE DEF X, Y
  <2>2. Alive({StepZone(z, w, i) : z \in X}) = Alive({StepZone(z, w, i) : z \in Y})
    BY ONLY <2>1, AliveStepped
  <2> QED BY <2>2 DEF X, Y
<1>3. \A z : z.alive => (z \in zs <=> z \in ys)
  BY Zenon DEF Alive
<1>4. {z \in zs : z.kind = "OB" /\ Retests(z, w, i) /\ ClosesAway(z, w[i])}
        = {z \in ys : z.kind = "OB" /\ Retests(z, w, i) /\ ClosesAway(z, w[i])}
  BY <1>3, Zenon DEF Retests, Holds, Sees
<1>5. KidsAt(zs, w, i) = KidsAt(ys, w, i)
  BY <1>4, Zenon DEF KidsAt
<1> DEFINE a == {StepZone(k, w, i) : k \in Cascade(ks, A)}
           b == {StepZone(k, w, i) : k \in Cascade(js, B)}
           K == KidsAt(zs, w, i)
<1>7. KidsStep(ks, zs, A, w, i) = a \cup K /\ KidsStep(js, ys, B, w, i) = b \cup K
  BY <1>5 DEF KidsStep
<1>9. Alive(a) = Alive(b)
  BY <1>2
<1> HIDE DEF a, b, K
<1>10. \A z : z.alive => (z \in a <=> z \in b)
  BY <1>9, Zenon DEF Alive
<1>8. Alive(a \cup K) = Alive(b \cup K)
  BY <1>10, Zenon DEF Alive
<1> QED BY <1>7, <1>8

(* The boxes of breaker_msb are only swept and joined: whatever is on the  *)
(* list, the zigzag and the break are the same.                            *)
SameSwings(s, t) ==
    /\ DOMAIN s = BrkFields /\ DOMAIN t = BrkFields
    /\ s.trend = t.trend /\ s.hi = t.hi /\ s.lo = t.lo
    /\ s.highs = t.highs /\ s.lows = t.lows
    /\ s.market = t.market /\ s.l0 = t.l0 /\ s.h0 = t.h0

LEMMA FlipIsTheSame ==
    ASSUME NEW s, NEW t, SameSwings(s, t), NEW w, NEW i
    PROVE  /\ SameSwings(Flip(s, w, i), Flip(t, w, i))
           /\ Flip(s, w, i).boxes = s.boxes /\ Flip(t, w, i).boxes = t.boxes
<1> DEFINE e == Extended(s, w, i)
           f == Extended(t, w, i)
<1>1. SameSwings(e, f) /\ e.boxes = s.boxes /\ f.boxes = t.boxes
  BY DEF SameSwings, Extended, BrkFields
<1>2. Turns(s, w, i) <=> Turns(t, w, i)
  BY DEF SameSwings, Turns
<1>3. s.trend = t.trend
  BY DEF SameSwings
<1> HIDE DEF e, f
<1>4. CASE ~Turns(s, w, i)
  <2>1. Flip(s, w, i) = e /\ Flip(t, w, i) = f
    BY <1>2, <1>4 DEF Flip, e, f
  <2> QED BY <1>1, <2>1
<1>5. CASE Turns(s, w, i)
  <2>1. Flip(s, w, i) = [e EXCEPT !.trend = -@,
                           !.highs = IF s.trend = 1 THEN LastTwo(@, e.hi) ELSE @,
                           !.lows  = IF s.trend = 1 THEN @ ELSE LastTwo(@, e.lo),
                           !.hi = Point(i, w[i].h), !.lo = Point(i, w[i].l)]
    BY <1>5 DEF Flip, e
  <2>2. Flip(t, w, i) = [f EXCEPT !.trend = -@,
                           !.highs = IF t.trend = 1 THEN LastTwo(@, f.hi) ELSE @,
                           !.lows  = IF t.trend = 1 THEN @ ELSE LastTwo(@, f.lo),
                           !.hi = Point(i, w[i].h), !.lo = Point(i, w[i].l)]
    BY <1>2, <1>5 DEF Flip, f
  <2> QED BY <1>1, <1>3, <2>1, <2>2 DEF SameSwings, BrkFields
<1> QED BY <1>4, <1>5

LEMMA BrokenIsTheSame ==
    ASSUME NEW s, NEW t, SameSwings(s, t), NEW w, NEW i
    PROVE  /\ SameSwings(Broken(s, w, i), Broken(t, w, i))
           /\ \E B : /\ Broken(s, w, i).boxes = s.boxes \cup B
                     /\ Broken(t, w, i).boxes = t.boxes \cup B
<1> DEFINE f == Flip(s, w, i)
           g == Flip(t, w, i)
           B == NewBox(f, w, i, -f.market)
<1>1. SameSwings(f, g) /\ f.boxes = s.boxes /\ g.boxes = t.boxes
  BY FlipIsTheSame
<1>2. Broken(s, w, i) = Msb(f, w, i) /\ Broken(t, w, i) = Msb(g, w, i)
  BY DEF Broken
<1> HIDE DEF f, g
<1>7. /\ f.highs = g.highs /\ f.lows = g.lows /\ f.market = g.market
      /\ f.l0 = g.l0 /\ f.h0 = g.h0
  BY <1>1 DEF SameSwings
<1>3. /\ MayBreak(f, i) <=> MayBreak(g, i)
      /\ (BreaksDown(f) <=> BreaksDown(g)) /\ (BreaksUp(f) <=> BreaksUp(g))
  <2>1. MayBreak(f, i) <=> MayBreak(g, i)
    BY <1>7, Zenon DEF MayBreak
  <2>2. BreaksDown(f) <=> BreaksDown(g)
    BY <1>7, Zenon DEF BreaksDown
  <2>3. BreaksUp(f) <=> BreaksUp(g)
    BY <1>7, Zenon DEF BreaksUp
  <2> QED BY <2>1, <2>2, <2>3
<1>4. NewBox(g, w, i, -g.market) = B
  BY <1>1 DEF SameSwings, NewBox
<1> HIDE DEF B
<1>5. CASE ~MayBreak(f, i) \/ ~(BreaksDown(f) \/ BreaksUp(f))
  <2>1. Msb(f, w, i) = f /\ Msb(g, w, i) = g
    <3>1. ~MayBreak(g, i) \/ ~(BreaksDown(g) \/ BreaksUp(g))
      BY <1>3, <1>5
    <3> QED BY <1>5, <3>1 DEF Msb
  <2>2. f.boxes = s.boxes \cup {} /\ g.boxes = t.boxes \cup {}
    BY <1>1
  <2> QED BY <1>1, <1>2, <2>1, <2>2
<1>6. CASE MayBreak(f, i) /\ (BreaksDown(f) \/ BreaksUp(f))
  <2>1. Msb(f, w, i) = [f EXCEPT !.market = -@, !.l0 = f.lows[2].p, !.h0 = f.highs[2].p,
                                 !.boxes = @ \cup B]
    BY <1>6 DEF Msb, B
  <2>2. Msb(g, w, i) = [g EXCEPT !.market = -@, !.l0 = g.lows[2].p, !.h0 = g.highs[2].p,
                                 !.boxes = @ \cup B]
    <3>1. MayBreak(g, i) /\ (BreaksDown(g) \/ BreaksUp(g))
      BY <1>3, <1>6
    <3> QED BY <1>4, <3>1 DEF Msb
  <2>3. SameSwings(Msb(f, w, i), Msb(g, w, i))
    BY <1>1, <2>1, <2>2 DEF SameSwings, BrkFields
  <2>4. Msb(f, w, i).boxes = s.boxes \cup B /\ Msb(g, w, i).boxes = t.boxes \cup B
    BY <1>1, <2>1, <2>2 DEF SameSwings, BrkFields
  <2> QED BY <1>2, <2>3, <2>4
<1> QED BY <1>5, <1>6

(* A box that is unfired after the bar was unfired before.                 *)
LEMMA SweptUnfired ==
    ASSUME NEW A, \A b \in A : DOMAIN b = BoxFields /\ b.fired \in BOOLEAN, NEW w, NEW i
    PROVE  {b \in Swept(A, w, i) : ~b.fired}
             = {[b EXCEPT !.fired = @ \/ Fires(b, w, i)] :
                    b \in {x \in A : ~x.fired /\ ~Dead(x, w[i].c) /\ ~Fires(x, w, i)}}
<1> DEFINE After(b) == [b EXCEPT !.fired = @ \/ Fires(b, w, i)]
<1>1. ASSUME NEW b \in A PROVE After(b).fired <=> b.fired \/ Fires(b, w, i)
  <2> DEFINE now == b.fired \/ Fires(b, w, i)
  <2>1. now \in BOOLEAN
    BY Zenon
  <2> HIDE DEF now
  <2>2. [b EXCEPT !.fired = now].fired = now
    BY DEF BoxFields
  <2>3. After(b) = [b EXCEPT !.fired = now]
    BY DEF now
  <2> HIDE DEF After
  <2> QED BY <2>1, <2>2, <2>3, Zenon DEF now
<1>2. Swept(A, w, i) = {After(b) : b \in {x \in A : ~Dead(x, w[i].c)}}
  BY DEF Swept
<1> HIDE DEF After
<1>3. \A y : y \in {b \in Swept(A, w, i) : ~b.fired}
               <=> \E b \in A : ~Dead(b, w[i].c) /\ y = After(b) /\ ~y.fired
  BY <1>2, Zenon
<1>4. \A y : y \in {b \in Swept(A, w, i) : ~b.fired}
               <=> \E b \in A : /\ ~Dead(b, w[i].c) /\ y = After(b)
                                /\ ~b.fired /\ ~Fires(b, w, i)
  BY <1>1, <1>3, Zenon
<1>5. {b \in Swept(A, w, i) : ~b.fired}
        = {After(b) : b \in {x \in A : ~x.fired /\ ~Dead(x, w[i].c) /\ ~Fires(x, w, i)}}
  BY <1>4, Zenon
<1> QED BY <1>5 DEF After

LEMMA BrkSameLife ==
    ASSUME NEW s, NEW t, NEW n, TypedBrk(s, n), TypedBrk(t, n), Unfired(s) = Unfired(t),
           NEW w, NEW i
    PROVE  Unfired(BrkStep(s, w, i)) = Unfired(BrkStep(t, w, i))
<1> DEFINE b == Broken(s, w, i)
           d == Broken(t, w, i)
           Live(A) == {x \in A : ~x.fired}
           Going(A) == {x \in A : ~x.fired /\ ~Dead(x, w[i].c) /\ ~Fires(x, w, i)}
           After(A) == {[x EXCEPT !.fired = @ \/ Fires(x, w, i)] : x \in Going(A)}
<1>1. /\ Unfired(s) = [s EXCEPT !.boxes = Live(s.boxes)]
      /\ Unfired(t) = [t EXCEPT !.boxes = Live(t.boxes)]
  BY DEF Unfired
<1>2. SameSwings(s, t) /\ Live(s.boxes) = Live(t.boxes)
  <2> DEFINE u == Unfired(s)
             v == Unfired(t)
  <2>1. DOMAIN s = BrkFields /\ DOMAIN t = BrkFields
    BY DEF TypedBrk
  <2> HIDE DEF Live
  <2>2. /\ u.trend = s.trend /\ u.hi = s.hi /\ u.lo = s.lo /\ u.highs = s.highs
        /\ u.lows = s.lows /\ u.market = s.market /\ u.l0 = s.l0 /\ u.h0 = s.h0
        /\ u.boxes = Live(s.boxes)
    BY <1>1, <2>1 DEF BrkFields
  <2>3. /\ v.trend = t.trend /\ v.hi = t.hi /\ v.lo = t.lo /\ v.highs = t.highs
        /\ v.lows = t.lows /\ v.market = t.market /\ v.l0 = t.l0 /\ v.h0 = t.h0
        /\ v.boxes = Live(t.boxes)
    BY <1>1, <2>1 DEF BrkFields
  <2>4. u = v
    OBVIOUS
  <2> HIDE DEF u, v
  <2> QED BY <2>1, <2>2, <2>3, <2>4 DEF SameSwings
<1>3. SameSwings(b, d)
  BY <1>2, BrokenIsTheSame
<1>4. PICK B : b.boxes = s.boxes \cup B /\ d.boxes = t.boxes \cup B
  BY <1>2, BrokenIsTheSame
<1>5. DOMAIN s = BrkFields /\ DOMAIN t = BrkFields
  BY DEF TypedBrk
<1>6. (\A x \in s.boxes : TypedBox(x, n)) /\ (\A x \in t.boxes : TypedBox(x, n))
  BY DEF TypedBrk
<1>7. /\ \A x \in b.boxes : DOMAIN x = BoxFields /\ x.fired \in BOOLEAN
      /\ \A x \in d.boxes : DOMAIN x = BoxFields /\ x.fired \in BOOLEAN
  <2>1. \A x \in b.boxes : x \in s.boxes \/ (DOMAIN x = BoxFields /\ x.fired = FALSE)
    BY <1>5, BrokenBoxes
  <2>2. \A x \in d.boxes : x \in t.boxes \/ (DOMAIN x = BoxFields /\ x.fired = FALSE)
    BY <1>5, BrokenBoxes
  <2> HIDE DEF b, d
  <2> QED BY <1>6, <2>1, <2>2 DEF TypedBox
<1>8. BrkStep(s, w, i) = [b EXCEPT !.boxes = Swept(@, w, i)]
  BY DEF BrkStep
<1>9. BrkStep(t, w, i) = [d EXCEPT !.boxes = Swept(@, w, i)]
  BY DEF BrkStep
<1>10. Live(Swept(b.boxes, w, i)) = After(b.boxes) /\ Live(Swept(d.boxes, w, i)) = After(d.boxes)
  <2> HIDE DEF b, d
  <2> QED BY <1>7, SweptUnfired
<1> HIDE DEF b, d
<1>11. Going(b.boxes) = Going(d.boxes)
  <2>1. \A x : ~x.fired => (x \in s.boxes <=> x \in t.boxes)
    BY <1>2, Zenon
  <2> QED BY <1>4, <2>1, Zenon
<1>12. After(b.boxes) = After(d.boxes)
  BY <1>11
<1>13. Live(Swept(b.boxes, w, i)) = Live(Swept(d.boxes, w, i))
  BY <1>10, <1>12
<1>14. /\ Unfired(BrkStep(s, w, i)) = [b EXCEPT !.boxes = Live(Swept(b.boxes, w, i))]
       /\ Unfired(BrkStep(t, w, i)) = [d EXCEPT !.boxes = Live(Swept(d.boxes, w, i))]
  <2> DEFINE A == Swept(b.boxes, w, i)
             C == Swept(d.boxes, w, i)
  <2> HIDE DEF A, C
  <2>1. DOMAIN b = BrkFields /\ DOMAIN d = BrkFields
    BY <1>3 DEF SameSwings
  <2>2. /\ Unfired([b EXCEPT !.boxes = A]) = [b EXCEPT !.boxes = Live(A)]
        /\ Unfired([d EXCEPT !.boxes = C]) = [d EXCEPT !.boxes = Live(C)]
    BY <2>1 DEF Unfired, BrkFields
  <2> QED BY <1>8, <1>9, <2>2 DEF A, C
<1> DEFINE L == Live(Swept(b.boxes, w, i))
<1>15. /\ Unfired(BrkStep(s, w, i)) = [b EXCEPT !.boxes = L]
       /\ Unfired(BrkStep(t, w, i)) = [d EXCEPT !.boxes = L]
  BY <1>13, <1>14
<1> HIDE DEF L
<1>16. [b EXCEPT !.boxes = L] = [d EXCEPT !.boxes = L]
  BY <1>3 DEF SameSwings, BrkFields
<1> QED BY <1>15, <1>16

(* One bar keeps two states alike.                                         *)
LEMMA ScanSameLife ==
    ASSUME NEW s, NEW t, NEW n, TypedState(s, n), TypedState(t, n), SameLife(s, t),
           NEW w, NEW i
    PROVE  SameLife(Scan(s, w, i), Scan(t, w, i))
<1> DEFINE A == ObStep(s.blocks, s.start, w, i)
           B == ObStep(t.blocks, t.start, w, i)
<1>1. /\ \A z \in s.gaps \cup t.gaps : IsZone(z)
      /\ \A z \in s.blocks \cup t.blocks : IsZone(z)
      /\ \A z \in s.kids \cup t.kids : IsZone(z)
      /\ TypedBrk(s.brk, n) /\ TypedBrk(t.brk, n)
  BY DEF TypedState, TypedZone
<1>2. /\ Alive(s.gaps) = Alive(t.gaps) /\ Alive(s.blocks) = Alive(t.blocks)
      /\ Alive(s.kids) = Alive(t.kids) /\ s.start = t.start
      /\ s.idm = t.idm /\ Unfired(s.brk) = Unfired(t.brk)
  BY DEF SameLife
<1>3. Alive(FvgStep(s.gaps, w, i)) = Alive(FvgStep(t.gaps, w, i))
  BY <1>1, <1>2, FvgSameLife
<1>4. Alive(A) = Alive(B)
  BY <1>1, <1>2, ObSameLife
<1>5. Unfired(BrkStep(s.brk, w, i)) = Unfired(BrkStep(t.brk, w, i))
  BY <1>1, <1>2, BrkSameLife
<1> HIDE DEF A, B
<1>6. Alive(KidsStep(s.kids, s.blocks, A, w, i)) = Alive(KidsStep(t.kids, t.blocks, B, w, i))
  <2> DEFINE ks == s.kids
             js == t.kids
             zs == s.blocks
             ys == t.blocks
  <2>1. /\ \A k \in ks \cup js : IsZone(k)
        /\ Alive(ks) = Alive(js) /\ Alive(zs) = Alive(ys) /\ Alive(A) = Alive(B)
    BY <1>1, <1>2, <1>4
  <2> HIDE DEF ks, js, zs, ys
  <2>2. Alive(KidsStep(ks, zs, A, w, i)) = Alive(KidsStep(js, ys, B, w, i))
    BY ONLY <2>1, KidsSameLife
  <2> QED BY <2>2 DEF ks, js, zs, ys
<1>7. /\ Scan(s, w, i).gaps = FvgStep(s.gaps, w, i) /\ Scan(s, w, i).blocks = A
      /\ Scan(s, w, i).start = StartAfter(w, s.start, i)
      /\ Scan(s, w, i).kids = KidsStep(s.kids, s.blocks, A, w, i)
      /\ Scan(s, w, i).idm = IdmStep(s.idm, w, i) /\ Scan(s, w, i).brk = BrkStep(s.brk, w, i)
  BY DEF Scan, A
<1>8. /\ Scan(t, w, i).gaps = FvgStep(t.gaps, w, i) /\ Scan(t, w, i).blocks = B
      /\ Scan(t, w, i).start = StartAfter(w, t.start, i)
      /\ Scan(t, w, i).kids = KidsStep(t.kids, t.blocks, B, w, i)
      /\ Scan(t, w, i).idm = IdmStep(t.idm, w, i) /\ Scan(t, w, i).brk = BrkStep(t.brk, w, i)
  BY DEF Scan, B
<1> QED BY <1>2, <1>3, <1>4, <1>5, <1>6, <1>7, <1>8 DEF SameLife

-----------------------------------------------------------------------------
(* What happened on a bar stays what happened when more bars come.         *)

Agree(v, w, i) ==
    /\ \A j \in 1 .. i : v[j] = w[j]
    /\ \A far : Deep(v, i, far) <=> Deep(w, i, far)

LEMMA AppendAgrees ==
    ASSUME NEW w \in Seq(Candles), NEW b \in Candles, NEW i \in 1 .. Len(w)
    PROVE  Agree(Append(w, b), w, i)
BY DeepOnPrefix DEF Agree

LEMMA WindowAgrees ==
    ASSUME NEW v, NEW w, NEW i \in Nat, Agree(v, w, i), NEW S \in SUBSET (1 .. i)
    PROVE  /\ Highest(v, S) = Highest(w, S) /\ Lowest(v, S) = Lowest(w, S)
           /\ BodyLo(v, S) = BodyLo(w, S) /\ BodyHi(v, S) = BodyHi(w, S)
<1>1. \A j \in S : v[j] = w[j]
  BY DEF Agree
<1>2. {v[j].h : j \in S} = {w[j].h : j \in S} /\ {v[j].l : j \in S} = {w[j].l : j \in S}
  BY <1>1
<1>3. /\ {Low(v[j].o, v[j].c) : j \in S} = {Low(w[j].o, w[j].c) : j \in S}
      /\ {High(v[j].o, v[j].c) : j \in S} = {High(w[j].o, w[j].c) : j \in S}
  BY <1>1
<1> QED BY <1>2, <1>3 DEF Highest, Lowest, BodyLo, BodyHi

LEMMA ZonesAgree ==
    ASSUME NEW v, NEW w, NEW i \in Nat \ {0}, Agree(v, w, i)
    PROVE  \A z : /\ Breaks(z, v, i) <=> Breaks(z, w, i)
                  /\ Retests(z, v, i) <=> Retests(z, w, i)
                  /\ StepZone(z, v, i) = StepZone(z, w, i)
<1>1. v[i] = w[i]
  BY DEF Agree
<1> SUFFICES ASSUME NEW z
             PROVE  /\ Breaks(z, v, i) <=> Breaks(z, w, i)
                    /\ Retests(z, v, i) <=> Retests(z, w, i)
                    /\ StepZone(z, v, i) = StepZone(z, w, i)
  OBVIOUS
<1>2. Breaks(z, v, i) = Breaks(z, w, i)
  <2>1. \A far : Deep(v, i, far) <=> Deep(w, i, far)
    BY DEF Agree
  <2> QED BY <1>1, <2>1, Zenon DEF Breaks
<1>3. Holds(z, v, i) = Holds(z, w, i)
  BY <1>2, Zenon DEF Holds
<1>4. Retests(z, v, i) = Retests(z, w, i)
  BY <1>1, <1>3, Zenon DEF Retests
<1>5. StepZone(z, v, i) = StepZone(z, w, i)
  BY <1>1, <1>2, <1>3, <1>4, Zenon DEF StepZone
<1> QED BY <1>2, <1>4, <1>5, Zenon

LEMMA FlippedAgrees ==
    ASSUME NEW v, NEW w, NEW i \in Nat \ {0}, Agree(v, w, i), NEW zs, NEW kind, NEW into
    PROVE  Flipped(zs, kind, into, v, i) = Flipped(zs, kind, into, w, i)
<1>1. {x \in zs : x.kind = kind /\ Breaks(x, v, i)} = {x \in zs : x.kind = kind /\ Breaks(x, w, i)}
  BY ZonesAgree
<1> QED BY <1>1, Zenon DEF Flipped

LEMMA FvgAgrees ==
    ASSUME NEW v, NEW w, NEW i \in Nat \ {0}, Agree(v, w, i), NEW zs
    PROVE  FvgStep(zs, v, i) = FvgStep(zs, w, i)
<1>1. \A j \in 1 .. i : v[j] = w[j]
  BY DEF Agree
<1>2. v[i] = w[i]
  BY <1>1
<1>3. \A m \in Widths(i) : /\ v[i-m-1] = w[i-m-1]
                           /\ \A j \in Burst(w, i, m) : v[j] = w[j]
  BY <1>1, MMaxAssumption DEF Widths, Burst
<1>4. \A m \in Widths(i) : /\ UpGap(v, i, m) <=> UpGap(w, i, m)
                           /\ DownGap(v, i, m) <=> DownGap(w, i, m)
  BY <1>2, <1>3, Zenon DEF UpGap, DownGap, Burst
<1>5. GapsAt(v, i) = GapsAt(w, i)
  <2>1. {n \in Widths(i) : UpGap(v, i, n)} = {n \in Widths(i) : UpGap(w, i, n)}
    BY <1>4
  <2>2. {n \in Widths(i) : DownGap(v, i, n)} = {n \in Widths(i) : DownGap(w, i, n)}
    BY <1>4
  <2> DEFINE U == {n \in Widths(i) : UpGap(w, i, n)}
             D == {n \in Widths(i) : DownGap(w, i, n)}
  <2>3. \A m \in U \cup D : v[i-m-1] = w[i-m-1]
    BY <1>3
  <2>4. GapsAt(v, i) =
          {Zone("FVG", 1, v[i-m-1].h, v[i].l, i - m - 1, i, <<>>) : m \in U}
          \cup {Zone("FVG", -1, v[i].h, v[i-m-1].l, i - m - 1, i, <<>>) : m \in D}
    BY <2>1, <2>2, Zenon DEF GapsAt
  <2>5. GapsAt(w, i) =
          {Zone("FVG", 1, w[i-m-1].h, w[i].l, i - m - 1, i, <<>>) : m \in U}
          \cup {Zone("FVG", -1, w[i].h, w[i-m-1].l, i - m - 1, i, <<>>) : m \in D}
    BY Zenon DEF GapsAt
  <2> HIDE DEF U, D
  <2> QED BY <1>2, <2>3, <2>4, <2>5
<1>6. {StepZone(z, v, i) : z \in zs} = {StepZone(z, w, i) : z \in zs}
  <2>1. \A z : StepZone(z, v, i) = StepZone(z, w, i)
    BY ZonesAgree
  <2> QED BY <2>1
<1>7. Flipped(zs, "FVG", "IFVG", v, i) = Flipped(zs, "FVG", "IFVG", w, i)
  BY FlippedAgrees
<1> QED BY <1>5, <1>6, <1>7, Zenon DEF FvgStep

LEMMA ObAgrees ==
    ASSUME NEW v, NEW w, NEW i \in Nat \ {0}, Agree(v, w, i), NEW zs, NEW from \in 1 .. i
    PROVE  /\ ObStep(zs, from, v, i) = ObStep(zs, from, w, i)
           /\ StartAfter(v, from, i) = StartAfter(w, from, i)
<1>1. \A j \in 1 .. i : v[j] = w[j]
  BY DEF Agree
<1>2. v[i] = w[i] /\ \A k \in from .. i - 1 : k \in 1 .. i /\ v[k] = w[k]
  BY <1>1
<1>3. /\ from .. i - 1 \in SUBSET (1 .. i)
      /\ \A k \in from .. i - 1 : k .. i - 1 \in SUBSET (1 .. i)
  OBVIOUS
<1>4. /\ BodyHi(v, from .. i - 1) = BodyHi(w, from .. i - 1)
      /\ BodyLo(v, from .. i - 1) = BodyLo(w, from .. i - 1)
      /\ \A k \in from .. i - 1 : /\ BodyHi(v, k .. i - 1) = BodyHi(w, k .. i - 1)
                                  /\ BodyLo(v, k .. i - 1) = BodyLo(w, k .. i - 1)
  BY <1>3, WindowAgrees
<1>5. \A d : PauseBreaks(v, from, i, d) <=> PauseBreaks(w, from, i, d)
  BY <1>2, <1>4, Zenon DEF PauseBreaks
<1>6. \A d : \A k \in from .. i - 1 : Against(v, k, d) <=> Against(w, k, d)
  BY <1>2, Zenon DEF Against
<1>7. \A d : FirstAgainst(v, from, i, d) = FirstAgainst(w, from, i, d)
  <2>1. \A k \in from .. i - 1 : \A j \in from .. k - 1 : j \in from .. i - 1
    OBVIOUS
  <2>2. ASSUME NEW d, NEW k \in from .. i - 1
        PROVE  (/\ Against(v, k, d) /\ \A j \in from .. k - 1 : ~Against(v, j, d))
                 <=> (/\ Against(w, k, d) /\ \A j \in from .. k - 1 : ~Against(w, j, d))
    BY <1>6, <2>1, <2>2, Zenon
  <2> QED BY <2>2, Zenon DEF FirstAgainst
<1>8. BlocksAt(v, from, i) = BlocksAt(w, from, i)
  <2> DEFINE Ks(d) == FirstAgainst(w, from, i, d)
             Ds == {x \in {1, -1} : PauseBreaks(w, from, i, x)}
             Block(u, d, k) == Zone("OB", d, BodyLo(u, k .. i - 1), BodyHi(u, k .. i - 1),
                                    k, i, <<>>)
  <2>1. \A d : \A k \in Ks(d) : k \in from .. i - 1
    BY DEF FirstAgainst
  <2>2. \A d : d \in {x \in {1, -1} : PauseBreaks(v, from, i, x)} <=> d \in Ds
    BY <1>5, Zenon
  <2>3. \A d : \A k \in Ks(d) : Block(v, d, k) = Block(w, d, k)
    <3> HIDE DEF Ks
    <3> QED BY <1>4, <2>1
  <2> DEFINE Of(u, d) == {Block(u, d, k) : k \in Ks(d)}
  <2>4. \A d : Of(v, d) = Of(w, d)
    <3> HIDE DEF Ks, Block
    <3> QED BY <2>3
  <2>5. BlocksAt(w, from, i) = UNION {Of(w, d) : d \in Ds}
    BY DEF BlocksAt
  <2> DEFINE Ov(d) == {Block(v, d, k) : k \in FirstAgainst(v, from, i, d)}
             Dv == {x \in {1, -1} : PauseBreaks(v, from, i, x)}
  <2>6. BlocksAt(v, from, i) = UNION {Ov(d) : d \in Dv}
    BY DEF BlocksAt
  <2>7. \A d : Ov(d) = Of(v, d)
    BY <1>7
  <2>8. Dv = Ds
    BY <2>2, Zenon
  <2> HIDE DEF Of, Ov, Ds, Dv
  <2>9. {Ov(d) : d \in Dv} = {Of(w, d) : d \in Ds}
    BY <2>4, <2>7, <2>8
  <2> QED BY <2>5, <2>6, <2>9
<1>9. \A z : StepZone(z, v, i) = StepZone(z, w, i)
  BY ZonesAgree
<1>12. Flipped(zs, "OB", "FLIP", v, i) = Flipped(zs, "OB", "FLIP", w, i)
  BY FlippedAgrees
<1>10. ObStep(zs, from, v, i) = ObStep(zs, from, w, i)
  <2>1. {StepZone(z, v, i) : z \in zs} = {StepZone(z, w, i) : z \in zs}
    BY <1>9
  <2> QED BY <1>8, <1>12, <2>1, Zenon DEF ObStep
<1>11. StartAfter(v, from, i) = StartAfter(w, from, i)
  BY <1>5, Zenon DEF StartAfter
<1> QED BY <1>10, <1>11

LEMMA KidsAgree ==
    ASSUME NEW v, NEW w, NEW i \in Nat \ {0}, Agree(v, w, i), NEW ks, NEW zs, NEW seen
    PROVE  KidsStep(ks, zs, seen, v, i) = KidsStep(ks, zs, seen, w, i)
<1>1. v[i] = w[i]
  BY DEF Agree
<1>2. {StepZone(k, v, i) : k \in Cascade(ks, seen)} = {StepZone(k, w, i) : k \in Cascade(ks, seen)}
  <2>1. \A z : StepZone(z, v, i) = StepZone(z, w, i)
    BY ZonesAgree
  <2> QED BY <2>1
<1>3. {z \in zs : z.kind = "OB" /\ Retests(z, v, i) /\ ClosesAway(z, v[i])}
        = {z \in zs : z.kind = "OB" /\ Retests(z, w, i) /\ ClosesAway(z, w[i])}
  BY <1>1, ZonesAgree, Zenon
<1>4. KidsAt(zs, v, i) = KidsAt(zs, w, i)
  BY <1>1, <1>3, Zenon DEF KidsAt
<1> QED BY <1>2, <1>4, Zenon DEF KidsStep

LEMMA SwingAgrees ==
    ASSUME NEW v, NEW w, NEW i \in Nat \ {0}, Agree(v, w, i), NEW n \in Nat \ {0}, NEW side
    PROVE  /\ Swing(v, i, n, side) = Swing(w, i, n, side)
           /\ Swing(w, i, n, side) # side => v[i-n] = w[i-n]
<1>1. CASE i > n
  <2>1. i - n \in 1 .. i /\ i - n + 1 .. i \in SUBSET (1 .. i)
    BY <1>1
  <2>2. v[i-n] = w[i-n]
    BY <2>1 DEF Agree
  <2>3. /\ Highest(v, i - n + 1 .. i) = Highest(w, i - n + 1 .. i)
        /\ Lowest(v, i - n + 1 .. i) = Lowest(w, i - n + 1 .. i)
    BY <2>1, WindowAgrees
  <2> QED BY <2>2, <2>3, Zenon DEF Swing
<1>2. CASE ~(i > n)
  BY <1>2 DEF Swing
<1> QED BY <1>1, <1>2

LEMMA IdmAgrees ==
    ASSUME NEW v, NEW w, NEW i \in Nat \ {0}, Agree(v, w, i), NEW s
    PROVE  Legs(s, v, i) = Legs(s, w, i) /\ IdmStep(s, v, i) = IdmStep(s, w, i)
<1>1. v[i] = w[i]
  BY DEF Agree
<1>2. Ln \in Nat \ {0} /\ ShortLen \in Nat \ {0}
  BY SwingAssumption
<1> DEFINE long == Swing(w, i, Ln, s.long)
           short == Swing(w, i, ShortLen, s.short)
<1>3. /\ Swing(v, i, Ln, s.long) = long /\ Swing(v, i, ShortLen, s.short) = short
      /\ long # s.long => v[i-Ln] = w[i-Ln]
      /\ short # s.short => v[i-ShortLen] = w[i-ShortLen]
  BY <1>2, SwingAgrees
<1> HIDE DEF long, short
<1> DEFINE newTop == long = 0 /\ s.long # 0
           newBtm == long = 1 /\ s.long # 1
           newSTop == short = 0 /\ s.short # 0
           newSBtm == short = 1 /\ s.short # 1
<1>4. /\ newTop => v[i-Ln].h = w[i-Ln].h
      /\ newBtm => v[i-Ln].l = w[i-Ln].l
      /\ newSTop => v[i-ShortLen].h = w[i-ShortLen].h
      /\ newSBtm => v[i-ShortLen].l = w[i-ShortLen].l
  BY <1>3
<1> HIDE DEF newTop, newBtm, newSTop, newSBtm
<1>5. /\ (IF newTop THEN v[i-Ln].h ELSE s.topy) = (IF newTop THEN w[i-Ln].h ELSE s.topy)
      /\ (IF newBtm THEN v[i-Ln].l ELSE s.btmy) = (IF newBtm THEN w[i-Ln].l ELSE s.btmy)
      /\ (IF newSTop THEN v[i-ShortLen].h ELSE s.stopy)
           = (IF newSTop THEN w[i-ShortLen].h ELSE s.stopy)
      /\ (IF newSBtm THEN v[i-ShortLen].l ELSE s.sbtmy)
           = (IF newSBtm THEN w[i-ShortLen].l ELSE s.sbtmy)
  BY <1>4
<1> DEFINE Legged(bar, l, sh, topy, btmy, stopy, sbtmy) ==
             LET newT == l = 0 /\ s.long # 0
                 newB == l = 1 /\ s.long # 1
                 up    == topy # NoPrice /\ bar.c > topy /\ (newT \/ ~s.topCrossed)
                 down  == btmy # NoPrice /\ bar.c < btmy /\ (newB \/ ~s.btmCrossed)
                 os    == IF down THEN 0 ELSE IF up THEN 1 ELSE s.os
                 turn  == os # s.os
             IN  [s EXCEPT !.long = l, !.short = sh, !.os = os,
                           !.topy = topy, !.btmy = btmy,
                           !.stopy = stopy, !.sbtmy = sbtmy,
                           !.topCrossed = up \/ (@ /\ ~newT),
                           !.btmCrossed = down \/ (@ /\ ~newB),
                           !.stopCrossed = @ /\ ~turn,
                           !.sbtmCrossed = @ /\ ~turn,
                           !.maxv = IF turn THEN bar.h ELSE @,
                           !.minv = IF turn THEN bar.l ELSE @]
           Of(u) == Legged(u[i], long, short,
                           IF newTop THEN u[i-Ln].h ELSE s.topy,
                           IF newBtm THEN u[i-Ln].l ELSE s.btmy,
                           IF newSTop THEN u[i-ShortLen].h ELSE s.stopy,
                           IF newSBtm THEN u[i-ShortLen].l ELSE s.sbtmy)
<1>6. Legs(s, v, i) = Legs(s, w, i)
  <2>1. Legs(s, w, i) = Of(w)
    BY DEF Legs, long, short, newTop, newBtm, newSTop, newSBtm
  <2>2. Legs(s, v, i) = Of(v)
    BY <1>3 DEF Legs, newTop, newBtm, newSTop, newSBtm
  <2> HIDE DEF Legged
  <2>3. Of(v) = Of(w)
    BY <1>1, <1>5
  <2> HIDE DEF Of
  <2> QED BY <2>1, <2>2, <2>3
<1> QED BY <1>1, <1>6, Zenon DEF IdmStep

LEMMA BrkAgrees ==
    ASSUME NEW v \in Seq(Candles), NEW w \in Seq(Candles), NEW n \in Nat,
           n < Len(w), n < Len(v), Agree(v, w, n + 1), NEW s, TypedBrk(s, n)
    PROVE  BrkStep(s, v, n + 1) = BrkStep(s, w, n + 1)
<1> DEFINE i == n + 1
           f == Flip(s, w, i)
<1>0. i \in Nat /\ i \in 1 .. i
  OBVIOUS
<1>1. \A j \in 1 .. i : v[j] = w[j]
  BY DEF Agree
<1>2. v[i] = w[i]
  BY <1>0, <1>1
<1>3. Recent(i) \in SUBSET (1 .. i)
  <2>1. i - Zz + 1 \in Int /\ 1 \in Int
    BY SwingAssumption
  <2>2. Max({1, i - Zz + 1}) \in Int /\ Max({1, i - Zz + 1}) >= 1
    BY <2>1, PairExtremes
  <2> DEFINE first == Max({1, i - Zz + 1})
  <2>3. Recent(i) = first .. i
    BY DEF Recent
  <2> HIDE DEF first
  <2>4. first .. i \in SUBSET (1 .. i)
    BY <2>2 DEF first
  <2> QED BY <2>3, <2>4
<1> HIDE DEF i
<1>4. Highest(v, Recent(i)) = Highest(w, Recent(i)) /\ Lowest(v, Recent(i)) = Lowest(w, Recent(i))
  BY <1>0, <1>3, WindowAgrees DEF i
<1>5. Turns(s, v, i) = Turns(s, w, i)
  BY <1>2, <1>4, Zenon DEF Turns
<1>6. Extended(s, v, i) = Extended(s, w, i)
  BY <1>2, Zenon DEF Extended
<1>7. Flip(s, v, i) = f
  BY <1>2, <1>5, <1>6, Zenon DEF Flip
<1>8. f.highs \in Seq(Points(i)) /\ f.lows \in Seq(Points(i))
  BY FlipIsTyped DEF i
<1> HIDE DEF f
<1>9. ASSUME MayBreak(f, i), NEW d PROVE NewBox(f, v, i, d) = NewBox(f, w, i, d)
  <2>1. Len(f.highs) = 2 /\ Len(f.lows) = 2
    BY <1>9 DEF MayBreak
  <2>2. f.highs[1].at \in 0 .. i /\ f.lows[1].at \in 0 .. i
    <3>1. f.highs[1] \in Points(i) /\ f.lows[1] \in Points(i)
      BY <1>8, <2>1
    <3> QED BY <3>1 DEF Points
  <2>3. ASSUME NEW a \in 0 .. i, NEW b \in 0 .. i
        PROVE  Origins(v, a, b, d) = Origins(w, a, b, d) /\ Origins(w, a, b, d) \subseteq 1 .. i
    <3>1. Origins(w, a, b, d) \subseteq 1 .. i /\ Origins(v, a, b, d) \subseteq 1 .. i
      BY <1>0, OriginsAreRead
    <3>2. \A j : j \in Origins(v, a, b, d) <=> j \in Origins(w, a, b, d)
      BY <1>1, <3>1, Zenon DEF Origins
    <3> QED BY <3>1, <3>2
  <2> DEFINE js == IF d = -1 THEN Origins(w, f.highs[1].at, f.lows[1].at, d)
                             ELSE Origins(w, f.lows[1].at, f.highs[1].at, d)
             ks == IF d = -1 THEN Origins(v, f.highs[1].at, f.lows[1].at, d)
                             ELSE Origins(v, f.lows[1].at, f.highs[1].at, d)
             swept == IF d = -1 THEN f.highs[2].p > f.highs[1].p
                                ELSE f.lows[2].p < f.lows[1].p
  <2>4. ks = js /\ js \subseteq 1 .. i
    <3>1. /\ Origins(v, f.highs[1].at, f.lows[1].at, d) = Origins(w, f.highs[1].at, f.lows[1].at, d)
          /\ Origins(w, f.highs[1].at, f.lows[1].at, d) \subseteq 1 .. i
          /\ Origins(v, f.lows[1].at, f.highs[1].at, d) = Origins(w, f.lows[1].at, f.highs[1].at, d)
          /\ Origins(w, f.lows[1].at, f.highs[1].at, d) \subseteq 1 .. i
      BY <2>2, <2>3
    <3> QED BY <3>1, Zenon
  <2>5. /\ NewBox(f, w, i, d) = IF swept /\ js # {} THEN BoxOf(w, js, d, i) ELSE {}
        /\ NewBox(f, v, i, d) = IF swept /\ ks # {} THEN BoxOf(v, ks, d, i) ELSE {}
    BY DEF NewBox
  <2> HIDE DEF js, ks, swept
  <2>6. ASSUME js # {} PROVE BoxOf(v, js, d, i) = BoxOf(w, js, d, i)
    <3>0. IsFiniteSet(1 .. i) /\ 1 .. i \subseteq Int
      BY <1>0, FS_Interval
    <3>1. IsFiniteSet(js) /\ js \subseteq Int
      BY <2>4, <3>0, FS_Subset
    <3>2. Max(js) \in js
      BY <2>6, <3>1, MinMax
    <3>3. v[Max(js)] = w[Max(js)]
      BY <1>1, <2>4, <3>2
    <3> QED BY <3>3 DEF BoxOf
  <2> QED BY <2>4, <2>5, <2>6
<1>10. Msb(f, v, i) = Msb(f, w, i)
  <2>1. CASE MayBreak(f, i)
    <3>1. NewBox(f, v, i, -f.market) = NewBox(f, w, i, -f.market)
      BY <1>9, <2>1
    <3> QED BY <3>1, Zenon DEF Msb
  <2>2. CASE ~MayBreak(f, i)
    BY <2>2, Zenon DEF Msb
  <2> QED BY <2>1, <2>2
<1>11. Broken(s, v, i) = Broken(s, w, i)
  BY <1>7, <1>10, Zenon DEF Broken, f
<1>12. \A A : Swept(A, v, i) = Swept(A, w, i)
  BY <1>2, Zenon DEF Swept, Fires
<1>13. BrkStep(s, v, i) = BrkStep(s, w, i)
  BY <1>11, <1>12, Zenon DEF BrkStep
<1> QED BY <1>13 DEF i

LEMMA ScanAgrees ==
    ASSUME NEW v \in Seq(Candles), NEW w \in Seq(Candles), NEW n \in Nat,
           n < Len(w), n < Len(v), Agree(v, w, n + 1), NEW s, TypedState(s, n)
    PROVE  Scan(s, v, n + 1) = Scan(s, w, n + 1)
<1> DEFINE i == n + 1
<1>1. i \in Nat \ {0} /\ s.start \in 1 .. i
  BY DEF TypedState
<1>2. BrkStep(s.brk, v, i) = BrkStep(s.brk, w, i)
  BY BrkAgrees DEF TypedState
<1> HIDE DEF i
<1>3. Agree(v, w, i)
  BY DEF i
<1>4. FvgStep(s.gaps, v, i) = FvgStep(s.gaps, w, i)
  BY <1>1, <1>3, FvgAgrees
<1>5. /\ ObStep(s.blocks, s.start, v, i) = ObStep(s.blocks, s.start, w, i)
      /\ StartAfter(v, s.start, i) = StartAfter(w, s.start, i)
  BY <1>1, <1>3, ObAgrees
<1>6. \A seen : KidsStep(s.kids, s.blocks, seen, v, i) = KidsStep(s.kids, s.blocks, seen, w, i)
  BY <1>1, <1>3, KidsAgree
<1>7. IdmStep(s.idm, v, i) = IdmStep(s.idm, w, i)
  BY <1>1, <1>3, IdmAgrees
<1>8. Scan(s, v, i) = Scan(s, w, i)
  BY <1>2, <1>4, <1>5, <1>6, <1>7, Zenon DEF Scan
<1> QED BY <1>8 DEF i

-----------------------------------------------------------------------------
(* The scan of a run that starts now: what it would hold after each bar.   *)

IsScan(f, w, n) ==
    f = [m \in 0 .. n |-> IF m = 0 THEN ScanFresh ELSE Scan(f[m - 1], w, m)]
GoodScan(f, w, n) == IsScan(f, w, n) /\ \A m \in 0 .. n : TypedState(f[m], m)
ScanInv == \E f : GoodScan(f, bars, read) /\ SameLife(Held, f[read])

LEMMA ScanUnique ==
    ASSUME NEW w, NEW n \in Nat, NEW f, NEW g, IsScan(f, w, n), IsScan(g, w, n)
    PROVE  f = g
<1> DEFINE T == {m \in Nat : m <= n => f[m] = g[m]}
<1>1. /\ \A m \in 0 .. n : f[m] = IF m = 0 THEN ScanFresh ELSE Scan(f[m - 1], w, m)
      /\ \A m \in 0 .. n : g[m] = IF m = 0 THEN ScanFresh ELSE Scan(g[m - 1], w, m)
  BY DEF IsScan
<1>2. 0 \in T
  BY <1>1
<1>3. ASSUME NEW m \in Nat, m \in T PROVE m + 1 \in T
  <2>1. CASE m + 1 <= n
    <3>1. m + 1 \in 0 .. n /\ m + 1 # 0 /\ (m + 1) - 1 = m /\ f[m] = g[m]
      BY <1>3, <2>1
    <3>2. f[m + 1] = Scan(f[m], w, m + 1) /\ g[m + 1] = Scan(g[m], w, m + 1)
      BY <1>1, <3>1
    <3> QED BY <3>1, <3>2
  <2>2. CASE ~(m + 1 <= n)
    BY <2>2
  <2> QED BY <2>1, <2>2
<1> HIDE DEF T
<1>4. Nat \subseteq T
  BY <1>2, <1>3, SetInduction
<1>5. \A m \in 0 .. n : f[m] = g[m]
  BY <1>4 DEF T
<1> QED BY <1>5 DEF IsScan

LEMMA RescanIsScan ==
    ASSUME TapeInv, NEW f, IsScan(f, bars, read) PROVE Rescan = f[read]
<1> DEFINE g == CHOOSE h : IsScan(h, bars, read)
<1>1. Rescan = g[read]
  BY Zenon DEF Rescan, IsScan, Scan, ScanFresh
<1>2. IsScan(g, bars, read)
  OBVIOUS
<1>3. read \in Nat
  BY DEF TapeInv
<1> HIDE DEF g
<1>4. g = f
  BY <1>2, <1>3, ScanUnique
<1> QED BY <1>1, <1>4

LEMMA FreshScan ==
    ASSUME NEW w PROVE \E f : GoodScan(f, w, 0) /\ f[0] = ScanFresh
<1> DEFINE f == [m \in 0 .. 0 |-> ScanFresh]
<1>1. \A m \in 0 .. 0 : m = 0
  OBVIOUS
<1>2. f[0] = ScanFresh /\ IsScan(f, w, 0)
  BY <1>1 DEF IsScan
<1>3. \A m \in 0 .. 0 : TypedState(f[m], m)
  BY <1>1, <1>2, FreshIsTyped
<1> QED BY <1>2, <1>3 DEF GoodScan

LEMMA LongerScan ==
    ASSUME NEW w \in Seq(Candles), NEW n \in Nat, n < Len(w), NEW f, GoodScan(f, w, n)
    PROVE  \E g : GoodScan(g, w, n + 1) /\ g[n + 1] = Scan(f[n], w, n + 1)
<1> DEFINE g == [m \in 0 .. n + 1 |-> IF m <= n THEN f[m] ELSE Scan(f[n], w, n + 1)]
<1>1. /\ \A m \in 0 .. n : f[m] = IF m = 0 THEN ScanFresh ELSE Scan(f[m - 1], w, m)
      /\ \A m \in 0 .. n : TypedState(f[m], m)
  BY DEF GoodScan, IsScan
<1>2. (\A m \in 0 .. n : g[m] = f[m]) /\ g[n + 1] = Scan(f[n], w, n + 1)
  OBVIOUS
<1>3. \A m \in 0 .. n + 1 : g[m] = IF m = 0 THEN ScanFresh ELSE Scan(g[m - 1], w, m)
  <2> SUFFICES ASSUME NEW m \in 0 .. n + 1
               PROVE  g[m] = IF m = 0 THEN ScanFresh ELSE Scan(g[m - 1], w, m)
    OBVIOUS
  <2> HIDE DEF g
  <2>1. CASE m \in 0 .. n /\ m # 0
    <3>1. m - 1 \in 0 .. n
      BY <2>1
    <3> QED BY <1>1, <1>2, <2>1, <3>1
  <2>2. CASE m = n + 1
    <3>1. m - 1 = n /\ m # 0 /\ n \in 0 .. n
      BY <2>2
    <3> QED BY <1>2, <2>2, <3>1
  <2>3. CASE m = 0
    <3>1. 0 \in 0 .. n
      OBVIOUS
    <3> QED BY <1>1, <1>2, <2>3, <3>1
  <2> QED BY <2>1, <2>2, <2>3
<1>4. IsScan(g, w, n + 1)
  BY <1>3 DEF IsScan
<1>5. TypedState(g[n + 1], n + 1)
  BY <1>1, <1>2, ScanIsTyped
<1> HIDE DEF g
<1>6. \A m \in 0 .. n + 1 : TypedState(g[m], m)
  <2>1. \A m \in 0 .. n + 1 : m \in 0 .. n \/ m = n + 1
    OBVIOUS
  <2> QED BY <1>1, <1>2, <1>5, <2>1
<1> QED BY <1>2, <1>4, <1>6 DEF GoodScan

(* A new bar leaves the scan of the bars before it as it was.              *)
LEMMA ScanOnPrefix ==
    ASSUME NEW w \in Seq(Candles), NEW b \in Candles, NEW n \in Nat, n <= Len(w),
           NEW f, GoodScan(f, w, n)
    PROVE  GoodScan(f, Append(w, b), n)
<1> DEFINE v == Append(w, b)
<1>1. \A m \in 0 .. n : TypedState(f[m], m)
  BY DEF GoodScan
<1>2. ASSUME NEW m \in 0 .. n, m # 0 PROVE Scan(f[m - 1], v, m) = Scan(f[m - 1], w, m)
  <2> DEFINE k == m - 1
  <2>1. k \in Nat /\ k + 1 = m /\ k < Len(w) /\ k \in 0 .. n /\ m \in 1 .. Len(w)
    BY <1>2
  <2>2. v \in Seq(Candles) /\ Len(v) = Len(w) + 1
    OBVIOUS
  <2>3. k < Len(v)
    BY <2>1, <2>2
  <2>4. Agree(v, w, m)
    BY <2>1, AppendAgrees
  <2> HIDE DEF v, k
  <2>5. Scan(f[k], v, k + 1) = Scan(f[k], w, k + 1)
    BY <1>1, <2>1, <2>2, <2>3, <2>4, ScanAgrees
  <2> QED BY <2>1, <2>5 DEF k
<1> HIDE DEF v
<1>3. [m \in 0 .. n |-> IF m = 0 THEN ScanFresh ELSE Scan(f[m - 1], v, m)]
        = [m \in 0 .. n |-> IF m = 0 THEN ScanFresh ELSE Scan(f[m - 1], w, m)]
  BY <1>2
<1>4. IsScan(f, v, n)
  BY <1>3, Zenon DEF GoodScan, IsScan
<1> QED BY <1>1, <1>4 DEF GoodScan, v

LEMMA PrunedIsAlike ==
    ASSUME NEW s, NEW t, NEW n, TypedBrk(s.brk, n),
           t.gaps = Alive(s.gaps), t.blocks = Alive(s.blocks), t.kids = Alive(s.kids),
           t.start = s.start, t.idm = s.idm, t.brk = Unfired(s.brk)
    PROVE  SameLife(t, s)
<1>1. \A zs : Alive(Alive(zs)) = Alive(zs)
  BY DEF Alive
<1>2. Unfired(Unfired(s.brk)) = Unfired(s.brk)
  BY DEF TypedBrk, Unfired, BrkFields
<1> QED BY <1>1, <1>2 DEF SameLife

LEMMA ScanInductive == Spec => []ScanInv
<1>1. ASSUME Init PROVE ScanInv
  <2>1. read = 0 /\ Held = ScanFresh
    BY <1>1 DEF Init, Held, ScanFresh
  <2>2. PICK f : GoodScan(f, bars, 0) /\ f[0] = ScanFresh
    BY FreshScan
  <2> QED BY <2>1, <2>2 DEF ScanInv, SameLife
<1>2. ASSUME ChainInv, TypeInv, ScanInv, [Next]_vars PROVE ScanInv'
  <2>0. PICK f : GoodScan(f, bars, read) /\ SameLife(Held, f[read])
    BY <1>2 DEF ScanInv
  <2>1. bars \in Seq(Candles) /\ bars # <<>> /\ read \in Nat /\ read <= Len(bars)
    BY <1>2 DEF ChainInv, TapeInv
  <2>2. ASSUME NEW s \in Shapes, Bar(s) PROVE ScanInv'
    <3> DEFINE b == Candle(bars[Len(bars)].c, s)
    <3>1. bars' = Append(bars, b) /\ read' = read /\ Held' = Held
      BY <2>2 DEF Bar, structure, zones, Held
    <3>2. b \in Candles
      <4>1. bars[Len(bars)] \in Candles /\ s \in Candles
        BY <2>1, SeedsAssumption
      <4> QED BY <4>1, CandleIsCandle DEF Candles
    <3> HIDE DEF b
    <3>3. GoodScan(f, bars', read)
      BY <2>0, <2>1, <3>1, <3>2, ScanOnPrefix
    <3> QED BY <2>0, <3>1, <3>3 DEF ScanInv
  <2>3. ASSUME Read PROVE ScanInv'
    <3>1. /\ read < Len(bars) /\ bars' = bars /\ read' = read + 1
          /\ Held' = Scan(Held, bars, read + 1)
      BY <1>2, <2>3, ReadScans DEF Read, ChainInv, TapeInv
    <3>2. PICK g : GoodScan(g, bars, read + 1) /\ g[read + 1] = Scan(f[read], bars, read + 1)
      BY <2>0, <2>1, <3>1, LongerScan
    <3>3. TypedState(Held, read) /\ TypedState(f[read], read)
      BY <1>2, <2>0, <2>1 DEF TypeInv, GoodScan
    <3>4. SameLife(Held', g[read + 1])
      BY <2>0, <3>1, <3>2, <3>3, ScanSameLife
    <3> QED BY <3>1, <3>2, <3>4 DEF ScanInv
  <2>4. ASSUME SessionEnd PROVE ScanInv'
    <3>1. /\ bars' = bars /\ read' = read
          /\ Held'.gaps = Alive(Held.gaps) /\ Held'.blocks = Alive(Held.blocks)
          /\ Held'.kids = Alive(Held.kids) /\ Held'.start = Held.start
          /\ Held'.idm = Held.idm /\ Held'.brk = Unfired(Held.brk)
      BY <2>4 DEF SessionEnd, Held
    <3>2. TypedBrk(Held.brk, read)
      BY <1>2 DEF TypeInv, TypedState
    <3>3. SameLife(Held', Held)
      BY <3>1, <3>2, PrunedIsAlike
    <3>4. SameLife(Held', f[read])
      BY <2>0, <3>3 DEF SameLife
    <3> QED BY <2>0, <3>1, <3>4 DEF ScanInv
  <2>5. ASSUME Restart PROVE ScanInv'
    <3>1. read' = 0 /\ Held' = ScanFresh /\ bars' = bars
      BY <2>5 DEF Restart, Fresh, Held, ScanFresh
    <3>2. PICK g : GoodScan(g, bars, 0) /\ g[0] = ScanFresh
      BY FreshScan
    <3> QED BY <3>1, <3>2 DEF ScanInv, SameLife
  <2>6. ASSUME UNCHANGED vars PROVE ScanInv'
    BY <1>2, <2>6 DEF vars, structure, zones, ScanInv, Held
  <2> QED BY <1>2, <2>2, <2>3, <2>4, <2>5, <2>6 DEF Next
<1> QED
  BY <1>1, <1>2, ChainInductive, TypeInductive, PTL DEF Spec

(* For every tape, and whatever sessions ended and runs restarted on the   *)
(* way: the detectors hold the live structure a run started now would find *)
(* on the bars read.  What a session end drops never mattered.             *)
THEOREM RestartFindsTheSameThm == Spec => []RestartFindsTheSame
<1>1. ASSUME ChainInv, ScanInv PROVE RestartFindsTheSame
  <2>1. PICK f : GoodScan(f, bars, read) /\ SameLife(Held, f[read])
    BY <1>1 DEF ScanInv
  <2>2. Rescan = f[read]
    BY <1>1, <2>1, RescanIsScan DEF ChainInv, GoodScan
  <2>3. SameLife(Held, Rescan)
    BY <2>1, <2>2
  <2>4. /\ Held.gaps = gaps /\ Held.blocks = blocks /\ Held.kids = kids
        /\ Held.start = start /\ Held.idm = idm /\ Held.brk = brk
    BY DEF Held
  <2> QED BY <2>3, <2>4, Zenon DEF SameLife, RestartFindsTheSame
<1> QED BY <1>1, ChainInductive, ScanInductive, PTL

-----------------------------------------------------------------------------
(* The latch of inducement.  maxv and minv are the extremes of the tape    *)
(* since the leg turned, so what opens the latch is a close beyond them.   *)

IdmFields == {"long", "short", "os", "topy", "btmy", "stopy", "sbtmy", "topCrossed",
              "btmCrossed", "stopCrossed", "sbtmCrossed", "maxv", "minv"}
ExtremeOn(w, d, j, from) == IF d = 1 THEN w[j].c > Highest(w, from .. j - 1)
                                     ELSE w[j].c < Lowest(w, from .. j - 1)
Rearmed(w, from, to, g) ==
    \E j \in from .. to : j > g.leg /\ g.leg > 0 /\ ExtremeOn(w, g.dir, j, g.leg)
Latch(s, d) == IF d = 1 THEN s.sbtmCrossed ELSE s.stopCrossed
Facing(s)   == IF s.os = 1 THEN 1 ELSE -1

LegInv(s, w, n, from) ==
    /\ DOMAIN s = IdmFields /\ s.os \in {0, 1} /\ from \in 0 .. n
    /\ from = 0 => s.os = 0 /\ s.maxv = NoPrice /\ s.minv = NoPrice
    /\ from > 0 => /\ s.maxv = Highest(w, from .. n) /\ s.maxv > 0
                   /\ s.minv = Lowest(w, from .. n) /\ s.minv > 0
GrabInv(s, w, n, from, gs) ==
    /\ \A g \in gs : /\ g.at \in 1 .. n /\ g.leg \in 0 .. from
                     /\ g.leg = from => /\ g.dir = Facing(s)
                                        /\ Latch(s, g.dir) \/ Rearmed(w, g.at, n, g)
    /\ \A g, f \in gs : g.leg = f.leg /\ g.dir = f.dir /\ g.at < f.at =>
                            Rearmed(w, g.at, f.at - 1, g)
GrabsInv ==
    /\ \A j \in 1 .. Len(bars) : bars[j].l > 0
    /\ LegInv(idm, bars, read, leg) /\ GrabInv(idm, bars, read, leg, grabs)

(* The highest high and the lowest low of a window.                        *)
LEMMA WindowExtremes ==
    ASSUME NEW w \in Seq(Candles), NEW a \in 1 .. Len(w), NEW b \in a .. Len(w)
    PROVE  /\ Highest(w, a .. b) \in Int /\ \A j \in a .. b : Highest(w, a .. b) >= w[j].h
           /\ \E j \in a .. b : Highest(w, a .. b) = w[j].h
           /\ Lowest(w, a .. b) \in Int /\ \A j \in a .. b : Lowest(w, a .. b) <= w[j].l
           /\ \E j \in a .. b : Lowest(w, a .. b) = w[j].l
<1> DEFINE f == [j \in a .. b |-> w[j].h]
           g == [j \in a .. b |-> w[j].l]
           S == {f[j] : j \in a .. b}
           T == {g[j] : j \in a .. b}
<1>1. \A j \in a .. b : j \in 1 .. Len(w)
  OBVIOUS
<1>2. \A j \in a .. b : f[j] \in Int /\ g[j] \in Int /\ f[j] = w[j].h /\ g[j] = w[j].l
  BY <1>1, CandleFacts
<1>3. Highest(w, a .. b) = Max(S) /\ Lowest(w, a .. b) = Min(T)
  BY DEF Highest, Lowest
<1>4. a \in a .. b /\ IsFiniteSet(a .. b)
  BY FS_Interval
<1> HIDE DEF f, g
<1>5. IsFiniteSet(S) /\ IsFiniteSet(T)
  BY <1>4, ImageIsFinite
<1>6. S \subseteq Int /\ T \subseteq Int /\ S # {} /\ T # {}
  BY <1>2, <1>4
<1>7. /\ Max(S) \in S /\ \A y \in S : Max(S) >= y
      /\ Min(T) \in T /\ \A y \in T : Min(T) <= y
  <2> HIDE DEF S, T
  <2> QED BY <1>5, <1>6, MinMax
<1> DEFINE top == Max(S)
           low == Min(T)
<1> HIDE DEF top, low
<1>8. /\ top \in Int /\ (\A j \in a .. b : top >= f[j]) /\ \E j \in a .. b : top = f[j]
      /\ low \in Int /\ (\A j \in a .. b : low <= g[j]) /\ \E j \in a .. b : low = g[j]
  BY <1>6, <1>7 DEF top, low
<1> QED BY <1>2, <1>3, <1>8 DEF top, low

LEMMA LongerWindow ==
    ASSUME NEW w \in Seq(Candles), NEW n \in Nat, n < Len(w), NEW a \in 1 .. n
    PROVE  /\ Highest(w, a .. n + 1) = Max({Highest(w, a .. n), w[n + 1].h})
           /\ Lowest(w, a .. n + 1) = Min({Lowest(w, a .. n), w[n + 1].l})
<1> DEFINE H == Highest(w, a .. n)
           L == Lowest(w, a .. n)
           H1 == Highest(w, a .. n + 1)
           L1 == Lowest(w, a .. n + 1)
           h == w[n + 1].h
           l == w[n + 1].l
<1>1. /\ a \in 1 .. Len(w) /\ n \in a .. Len(w) /\ n + 1 \in a .. Len(w) /\ n + 1 \in 1 .. Len(w)
      /\ \A j \in a .. n + 1 : j \in a .. n \/ j = n + 1
      /\ \A j \in a .. n : j \in a .. n + 1
      /\ n + 1 \in a .. n + 1
  OBVIOUS
<1>2. h \in Int /\ l \in Int
  BY <1>1, CandleFacts
<1>3. /\ H \in Int /\ (\A j \in a .. n : H >= w[j].h) /\ \E j \in a .. n : H = w[j].h
      /\ L \in Int /\ (\A j \in a .. n : L <= w[j].l) /\ \E j \in a .. n : L = w[j].l
  BY <1>1, WindowExtremes
<1>4. /\ H1 \in Int /\ (\A j \in a .. n + 1 : H1 >= w[j].h) /\ \E j \in a .. n + 1 : H1 = w[j].h
      /\ L1 \in Int /\ (\A j \in a .. n + 1 : L1 <= w[j].l) /\ \E j \in a .. n + 1 : L1 = w[j].l
  BY <1>1, WindowExtremes
<1>5. /\ Max({H, h}) \in {H, h} /\ Max({H, h}) >= H /\ Max({H, h}) >= h
      /\ Min({L, l}) \in {L, l} /\ Min({L, l}) <= L /\ Min({L, l}) <= l
  BY <1>2, <1>3, PairExtremes
<1>6. H1 >= H /\ H1 >= h /\ (H1 <= H \/ H1 <= h)
  <2>1. H1 >= H
    <3>1. PICK j \in a .. n : H = w[j].h
      BY <1>3
    <3> QED BY <1>1, <1>4, <3>1
  <2>2. H1 >= h
    BY <1>1, <1>4
  <2>3. H1 <= H \/ H1 <= h
    <3>1. PICK j \in a .. n + 1 : H1 = w[j].h
      BY <1>4
    <3>2. CASE j = n + 1
      BY <1>2, <3>1, <3>2
    <3>3. CASE j \in a .. n
      BY <1>3, <1>4, <3>1, <3>3
    <3> QED BY <1>1, <3>2, <3>3
  <2> QED BY <2>1, <2>2, <2>3
<1>7. L1 <= L /\ L1 <= l /\ (L1 >= L \/ L1 >= l)
  <2>1. L1 <= L
    <3>1. PICK j \in a .. n : L = w[j].l
      BY <1>3
    <3> QED BY <1>1, <1>4, <3>1
  <2>2. L1 <= l
    BY <1>1, <1>4
  <2>3. L1 >= L \/ L1 >= l
    <3>1. PICK j \in a .. n + 1 : L1 = w[j].l
      BY <1>4
    <3>2. CASE j = n + 1
      BY <1>2, <3>1, <3>2
    <3>3. CASE j \in a .. n
      BY <1>3, <1>4, <3>1, <3>3
    <3> QED BY <1>1, <3>2, <3>3
  <2> QED BY <2>1, <2>2, <2>3
<1> DEFINE M == Max({H, h})
           N == Min({L, l})
<1>8. H \in Int /\ L \in Int /\ H1 \in Int /\ L1 \in Int
  BY <1>3, <1>4
<1> HIDE DEF H, L, H1, L1, h, l, M, N
<1>9. /\ M \in {H, h} /\ M >= H /\ M >= h /\ N \in {L, l} /\ N <= L /\ N <= l
  BY <1>5 DEF M, N
<1>10. H1 = M /\ L1 = N
  BY <1>2, <1>6, <1>7, <1>8, <1>9
<1> QED BY <1>10 DEF H, L, H1, L1, h, l, M, N

(* What one bar does to the leg and its latches: r is s after the turn of  *)
(* the leg, y is t after the grabs and the extremes of bar b.              *)
LegAfter(s, b, r) ==
    /\ DOMAIN r = IdmFields /\ r.os \in {0, 1}
    /\ (r.os # s.os => (r.maxv = b.h /\ r.minv = b.l))
    /\ (r.os = s.os => (r.maxv = s.maxv /\ r.minv = s.minv))
    /\ (r.stopCrossed <=> (s.stopCrossed /\ r.os = s.os))
    /\ (r.sbtmCrossed <=> (s.sbtmCrossed /\ r.os = s.os))
IdmAfter(t, b, y) ==
    /\ DOMAIN y = IdmFields /\ y.os = t.os
    /\ (t.maxv = NoPrice => y.maxv = NoPrice)
    /\ (t.maxv # NoPrice => y.maxv = Max({t.maxv, b.h}))
    /\ (t.minv = NoPrice => y.minv = NoPrice)
    /\ (t.minv # NoPrice => y.minv = Min({t.minv, b.l}))
    /\ (y.sbtmCrossed <=> ((t.sbtmCrossed \/ GrabsUp(t, b)) /\ ~ExtendsUp(t, b)))
    /\ (y.stopCrossed <=> ((t.stopCrossed \/ GrabsDown(t, b)) /\ ~ExtendsDown(t, b)))

LEMMA LegsMove ==
    ASSUME NEW s, DOMAIN s = IdmFields, s.os \in {0, 1}, NEW w, NEW i
    PROVE  LegAfter(s, w[i], Legs(s, w, i))
<1> DEFINE long  == Swing(w, i, Ln, s.long)
           short == Swing(w, i, ShortLen, s.short)
           newTop == long = 0 /\ s.long # 0
           newBtm == long = 1 /\ s.long # 1
           topy  == IF newTop THEN w[i-Ln].h ELSE s.topy
           btmy  == IF newBtm THEN w[i-Ln].l ELSE s.btmy
           stopy == IF short = 0 /\ s.short # 0 THEN w[i-ShortLen].h ELSE s.stopy
           sbtmy == IF short = 1 /\ s.short # 1 THEN w[i-ShortLen].l ELSE s.sbtmy
           up    == topy # NoPrice /\ w[i].c > topy /\ (newTop \/ ~s.topCrossed)
           down  == btmy # NoPrice /\ w[i].c < btmy /\ (newBtm \/ ~s.btmCrossed)
           os    == IF down THEN 0 ELSE IF up THEN 1 ELSE s.os
           turn  == os # s.os
           topX  == up \/ (s.topCrossed /\ ~newTop)
           btmX  == down \/ (s.btmCrossed /\ ~newBtm)
           stopX == s.stopCrossed /\ ~turn
           sbtmX == s.sbtmCrossed /\ ~turn
           maxv  == IF turn THEN w[i].h ELSE s.maxv
           minv  == IF turn THEN w[i].l ELSE s.minv
           t == [s EXCEPT !.long = long, !.short = short, !.os = os,
                          !.topy = topy, !.btmy = btmy, !.stopy = stopy, !.sbtmy = sbtmy,
                          !.topCrossed = topX, !.btmCrossed = btmX,
                          !.stopCrossed = stopX, !.sbtmCrossed = sbtmX,
                          !.maxv = maxv, !.minv = minv]
<1>1. Legs(s, w, i) = t
  BY DEF Legs
<1>2. os \in {0, 1}
  OBVIOUS
<1> HIDE DEF long, short, topy, btmy, stopy, sbtmy, topX, btmX
<1>3. stopX \in BOOLEAN /\ sbtmX \in BOOLEAN
  BY Zenon
<1>6. /\ (os # s.os => (maxv = w[i].h /\ minv = w[i].l))
      /\ (os = s.os => (maxv = s.maxv /\ minv = s.minv))
      /\ (stopX <=> (s.stopCrossed /\ os = s.os))
      /\ (sbtmX <=> (s.sbtmCrossed /\ os = s.os))
  BY Zenon
<1> HIDE DEF os, maxv, minv, stopX, sbtmX
<1>4. /\ DOMAIN t = IdmFields /\ t.os = os /\ t.maxv = maxv /\ t.minv = minv
      /\ t.stopCrossed = stopX /\ t.sbtmCrossed = sbtmX
  BY DEF IdmFields
<1> HIDE DEF t
<1>5. LegAfter(s, w[i], t)
  BY <1>2, <1>4, <1>6, Zenon DEF LegAfter
<1> QED BY <1>1, <1>5

LEMMA IdmStepMove ==
    ASSUME NEW s, NEW w, NEW i, DOMAIN Legs(s, w, i) = IdmFields
    PROVE  IdmAfter(Legs(s, w, i), w[i], IdmStep(s, w, i))
<1> DEFINE t == Legs(s, w, i)
           sbtmX == (t.sbtmCrossed \/ GrabsUp(t, w[i])) /\ ~ExtendsUp(t, w[i])
           stopX == (t.stopCrossed \/ GrabsDown(t, w[i])) /\ ~ExtendsDown(t, w[i])
           maxv == IF t.maxv = NoPrice THEN t.maxv ELSE Max({t.maxv, w[i].h})
           minv == IF t.minv = NoPrice THEN t.minv ELSE Min({t.minv, w[i].l})
           y == [t EXCEPT !.sbtmCrossed = sbtmX, !.stopCrossed = stopX,
                          !.maxv = maxv, !.minv = minv]
<1>1. IdmStep(s, w, i) = y
  BY DEF IdmStep
<1>2. sbtmX \in BOOLEAN /\ stopX \in BOOLEAN
  BY Zenon
<1> HIDE DEF sbtmX, stopX, maxv, minv
<1>3. /\ DOMAIN y = IdmFields /\ y.os = t.os /\ y.maxv = maxv /\ y.minv = minv
      /\ y.sbtmCrossed = sbtmX /\ y.stopCrossed = stopX
  BY DEF IdmFields
<1> HIDE DEF y, t
<1>4. IdmAfter(t, w[i], y)
  BY <1>2, <1>3, Zenon DEF sbtmX, stopX, maxv, minv, IdmAfter
<1> QED BY <1>1, <1>4 DEF t

(* Bar n + 1 keeps maxv and minv the extremes of the leg.                  *)
LEMMA LegStep ==
    ASSUME NEW w \in Seq(Candles), NEW n \in Nat, n < Len(w), w[n + 1].l > 0,
           NEW s, NEW from, LegInv(s, w, n, from)
    PROVE  LET y == IdmStep(s, w, n + 1)
           IN  LegInv(y, w, n + 1, IF y.os # s.os THEN n + 1 ELSE from)
<1> DEFINE i == n + 1
           t == Legs(s, w, i)
           y == IdmStep(s, w, i)
           turn == t.os # s.os
<1> SUFFICES LegInv(y, w, i, IF y.os # s.os THEN i ELSE from)
  OBVIOUS
<1>1. /\ DOMAIN s = IdmFields /\ s.os \in {0, 1} /\ from \in 0 .. n
      /\ from = 0 => s.os = 0 /\ s.maxv = NoPrice /\ s.minv = NoPrice
      /\ from > 0 => /\ s.maxv = Highest(w, from .. n) /\ s.maxv > 0
                     /\ s.minv = Lowest(w, from .. n) /\ s.minv > 0
  BY DEF LegInv
<1>2. LegAfter(s, w[i], t)
  BY <1>1, LegsMove
<1>3. IdmAfter(t, w[i], y)
  BY <1>2, IdmStepMove DEF LegAfter
<1>4. i \in 1 .. Len(w) /\ i \in i .. Len(w) /\ i \in Nat
  OBVIOUS
<1>5. /\ w[i].h \in Int /\ w[i].l \in Int /\ w[i].l > 0 /\ w[i].h > 0
  <2>1. w[i].h \in Int /\ w[i].l \in Int /\ w[i].l <= w[i].h
    BY <1>4, CandleFacts
  <2> QED BY <2>1
<1> DEFINE h == w[i].h
           l == w[i].l
<1> HIDE DEF t, y
<1>6. /\ DOMAIN t = IdmFields /\ t.os \in {0, 1}
      /\ (turn => (t.maxv = h /\ t.minv = l))
      /\ (~turn => (t.maxv = s.maxv /\ t.minv = s.minv))
  BY <1>2, Zenon DEF LegAfter
<1>7. /\ DOMAIN y = IdmFields /\ y.os = t.os
      /\ (t.maxv = NoPrice => y.maxv = NoPrice)
      /\ (t.maxv # NoPrice => y.maxv = Max({t.maxv, h}))
      /\ (t.minv = NoPrice => y.minv = NoPrice)
      /\ (t.minv # NoPrice => y.minv = Min({t.minv, l}))
  BY <1>3, Zenon DEF IdmAfter
<1>8. CASE turn
  <2>1. t.maxv = h /\ t.minv = l
    BY <1>6, <1>8
  <2>2. Max({h, h}) = h /\ Min({l, l}) = l
    BY <1>5, PairExtremes
  <2>3. y.maxv = h /\ y.minv = l
    BY <1>7, <1>5, <2>1, <2>2 DEF NoPrice
  <2>4. Highest(w, i .. i) = h /\ Lowest(w, i .. i) = l
    <3>1. \A j \in i .. i : j = i
      BY <1>4
    <3> HIDE DEF i
    <3> QED BY <1>4, <3>1, WindowExtremes
  <2>5. i \in 0 .. i /\ ~(i = 0) /\ i > 0
    OBVIOUS
  <2>6. LegInv(y, w, i, i)
    <3> HIDE DEF i
    <3> QED BY <1>6, <1>7, <1>5, <2>3, <2>4, <2>5 DEF LegInv
  <2>7. y.os # s.os
    BY <1>7, <1>8
  <2> QED BY <2>6, <2>7
<1>9. CASE ~turn /\ from > 0
  <2>1. t.maxv = s.maxv /\ t.minv = s.minv
    BY <1>6, <1>9
  <2>2. /\ y.maxv = Max({s.maxv, h}) /\ y.minv = Min({s.minv, l})
    BY <1>1, <1>7, <1>9, <2>1 DEF NoPrice
  <2>3. from \in 1 .. n
    BY <1>1, <1>9
  <2>4. y.maxv = Highest(w, from .. i) /\ y.minv = Lowest(w, from .. i)
    BY <1>1, <1>9, <2>2, <2>3, LongerWindow
  <2>5. s.maxv \in Int /\ s.minv \in Int /\ s.maxv > 0 /\ s.minv > 0
    <3>1. from \in 1 .. Len(w) /\ n \in from .. Len(w)
      BY <2>3
    <3> QED BY <1>1, <1>9, <3>1, WindowExtremes
  <2>6. y.maxv > 0 /\ y.minv > 0
    <3>1. /\ Max({s.maxv, h}) >= s.maxv /\ Max({s.maxv, h}) \in {s.maxv, h}
          /\ Min({s.minv, l}) \in {s.minv, l}
      BY <1>5, <2>5, PairExtremes
    <3> QED BY <1>5, <2>2, <2>5, <3>1
  <2>7. from \in 0 .. i /\ y.os \in {0, 1} /\ y.os = s.os
    BY <1>6, <1>7, <1>9, <2>3
  <2> QED BY <1>7, <1>9, <2>4, <2>6, <2>7 DEF LegInv
<1>10. CASE ~turn /\ ~(from > 0)
  <2>1. from = 0 /\ s.os = 0 /\ t.os = 0 /\ t.maxv = NoPrice /\ t.minv = NoPrice
    BY <1>1, <1>6, <1>10
  <2>2. y.os = s.os /\ y.maxv = NoPrice /\ y.minv = NoPrice /\ y.os = 0
    BY <1>7, <2>1
  <2> QED BY <1>7, <1>4, <2>1, <2>2 DEF LegInv
<1> QED BY <1>8, <1>9, <1>10
(* A latch that is set at bar n + 1, or by it, stays set unless the bar    *)
(* closed beyond the whole leg; the turn of a leg opens it.                *)
LEMMA LatchStep ==
    ASSUME NEW w \in Seq(Candles), NEW n \in Nat, n < Len(w), w[n + 1].l > 0,
           NEW s, NEW from, LegInv(s, w, n, from), NEW d,
           d = Facing(IdmStep(s, w, n + 1))
    PROVE  LET t == Legs(s, w, n + 1)
               y == IdmStep(s, w, n + 1)
           IN  /\ d \in {1, -1} /\ (y.os = s.os => d = Facing(s))
               /\ (y.os = s.os => (Latch(s, d) <=> Latch(t, d)))
               /\ (d \in Grabs(s, w, n + 1) => ~Latch(t, d))
               /\ ((Latch(t, d) \/ d \in Grabs(s, w, n + 1)) =>
                     (Latch(y, d) \/ (y.os = s.os /\ from > 0 /\ ExtremeOn(w, d, n + 1, from))))
<1> DEFINE i == n + 1
           t == Legs(s, w, i)
           y == IdmStep(s, w, i)
           G == Grabs(s, w, i)
           h == w[i].h
           l == w[i].l
           c == w[i].c
<1>1. /\ DOMAIN s = IdmFields /\ s.os \in {0, 1} /\ from \in 0 .. n
      /\ (from = 0 => (s.os = 0 /\ s.maxv = NoPrice /\ s.minv = NoPrice))
      /\ (from > 0 => (s.maxv = Highest(w, from .. n) /\ s.maxv > 0
                       /\ s.minv = Lowest(w, from .. n) /\ s.minv > 0))
  BY DEF LegInv
<1>2. LegAfter(s, w[i], t)
  BY <1>1, LegsMove
<1>3. IdmAfter(t, w[i], y)
  BY <1>2, IdmStepMove DEF LegAfter
<1>4. /\ h \in Int /\ l \in Int /\ c \in Int /\ l <= c /\ c <= h
  <2>1. i \in 1 .. Len(w)
    OBVIOUS
  <2> HIDE DEF i
  <2> QED BY <2>1, CandleFacts
<1>5. G = {e \in {1, -1} : IF e = 1 THEN GrabsUp(t, w[i]) ELSE GrabsDown(t, w[i])}
  BY DEF Grabs
<1>6. d = Facing(y)
  OBVIOUS
<1>7. n = i - 1 /\ from <= n
  BY <1>1
<1> SUFFICES /\ d \in {1, -1} /\ (y.os = s.os => d = Facing(s))
             /\ (y.os = s.os => (Latch(s, d) <=> Latch(t, d)))
             /\ (d \in G => ~Latch(t, d))
             /\ ((Latch(t, d) \/ d \in G) =>
                    (Latch(y, d) \/ (y.os = s.os /\ from > 0 /\ ExtremeOn(w, d, i, from))))
  OBVIOUS
<1> HIDE DEF t, y, G, i
<1>8. /\ t.os \in {0, 1} /\ y.os = t.os /\ s.os \in {0, 1}
      /\ (t.os # s.os => (t.maxv = h /\ t.minv = l))
      /\ (t.os = s.os => (t.maxv = s.maxv /\ t.minv = s.minv))
  BY <1>1, <1>2, <1>3, Zenon DEF LegAfter, IdmAfter
<1>9. /\ (t.os = s.os => (t.stopCrossed <=> s.stopCrossed))
      /\ (t.os = s.os => (t.sbtmCrossed <=> s.sbtmCrossed))
      /\ (y.sbtmCrossed <=> ((t.sbtmCrossed \/ GrabsUp(t, w[i])) /\ ~ExtendsUp(t, w[i])))
      /\ (y.stopCrossed <=> ((t.stopCrossed \/ GrabsDown(t, w[i])) /\ ~ExtendsDown(t, w[i])))
  BY <1>2, <1>3, Zenon DEF LegAfter, IdmAfter
<1>10. ASSUME t.os = 1, ExtendsUp(t, w[i])
       PROVE  y.os = s.os /\ from > 0 /\ ExtremeOn(w, 1, i, from)
  <2>1. t.maxv # NoPrice /\ c > t.maxv
    BY <1>10 DEF ExtendsUp
  <2>2. t.os = s.os
    BY <1>4, <1>8, <2>1
  <2>3. s.maxv # NoPrice /\ c > s.maxv
    BY <1>8, <2>1, <2>2
  <2>4. from > 0 /\ s.maxv = Highest(w, from .. n)
    BY <1>1, <2>3
  <2>5. c > Highest(w, from .. i - 1)
    BY <1>7, <2>3, <2>4
  <2> QED BY <1>8, <2>2, <2>4, <2>5 DEF ExtremeOn
<1>11. ASSUME t.os = 0, ExtendsDown(t, w[i])
       PROVE  y.os = s.os /\ from > 0 /\ ExtremeOn(w, -1, i, from)
  <2>1. t.minv # NoPrice /\ c < t.minv
    BY <1>11 DEF ExtendsDown
  <2>2. t.os = s.os
    BY <1>4, <1>8, <2>1
  <2>3. s.minv # NoPrice /\ c < s.minv
    BY <1>8, <2>1, <2>2
  <2>4. from > 0 /\ s.minv = Lowest(w, from .. n)
    BY <1>1, <2>3
  <2>5. c < Lowest(w, from .. i - 1)
    BY <1>7, <2>3, <2>4
  <2> QED BY <1>8, <2>2, <2>4, <2>5 DEF ExtremeOn
<1>12. CASE t.os = 1
  <2>1. d = 1 /\ (y.os = s.os => Facing(s) = 1)
    BY <1>6, <1>8, <1>12 DEF Facing
  <2>2. Latch(s, d) = s.sbtmCrossed /\ Latch(t, d) = t.sbtmCrossed /\ Latch(y, d) = y.sbtmCrossed
    BY <2>1 DEF Latch
  <2>3. d \in G <=> GrabsUp(t, w[i])
    BY <1>5, <2>1
  <2>4. GrabsUp(t, w[i]) => ~t.sbtmCrossed
    BY Zenon DEF GrabsUp
  <2>5. (y.os = s.os => (Latch(s, d) <=> Latch(t, d))) /\ (d \in G => ~Latch(t, d))
    BY <1>8, <1>9, <2>2, <2>3, <2>4, Zenon
  <2>6. (Latch(t, d) \/ d \in G) => (Latch(y, d) \/ ExtendsUp(t, w[i]))
    BY <1>9, <2>2, <2>3, Zenon
  <2> QED BY <1>10, <1>12, <2>1, <2>5, <2>6, Zenon
<1>13. CASE t.os = 0
  <2>1. d = -1 /\ d # 1 /\ (y.os = s.os => Facing(s) = -1)
    BY <1>6, <1>8, <1>13 DEF Facing
  <2>2. Latch(s, d) = s.stopCrossed /\ Latch(t, d) = t.stopCrossed /\ Latch(y, d) = y.stopCrossed
    BY <2>1, Zenon DEF Latch
  <2>3. d \in G <=> GrabsDown(t, w[i])
    BY <1>5, <2>1
  <2>4. GrabsDown(t, w[i]) => ~t.stopCrossed
    BY Zenon DEF GrabsDown
  <2>5. (y.os = s.os => (Latch(s, d) <=> Latch(t, d))) /\ (d \in G => ~Latch(t, d))
    BY <1>8, <1>9, <2>2, <2>3, <2>4, Zenon
  <2>6. (Latch(t, d) \/ d \in G) => (Latch(y, d) \/ ExtendsDown(t, w[i]))
    BY <1>9, <2>2, <2>3, Zenon
  <2> QED BY <1>11, <1>13, <2>1, <2>5, <2>6, Zenon
<1> QED BY <1>8, <1>12, <1>13
(* One turn of the detectors' loops keeps both.                            *)
LEMMA GrabStep ==
    ASSUME NEW w \in Seq(Candles), NEW n \in Nat, n < Len(w), w[n + 1].l > 0,
           NEW s, NEW from, LegInv(s, w, n, from), NEW gs, GrabInv(s, w, n, from, gs),
           NEW y, y = IdmStep(s, w, n + 1),
           NEW to, (y.os # s.os => to = n + 1), (y.os = s.os => to = from)
    PROVE  /\ LegInv(y, w, n + 1, to)
           /\ GrabInv(y, w, n + 1, to,
                      gs \cup {[at |-> n + 1, dir |-> d, leg |-> to] : d \in Grabs(s, w, n + 1)})
<1> DEFINE i == n + 1
           t == Legs(s, w, i)
           G == Grabs(s, w, i)
           new == {[at |-> i, dir |-> d, leg |-> to] : d \in G}
           d0 == Facing(y)
<1>1. LegInv(y, w, i, to)
  <2>1. LegInv(y, w, i, IF y.os # s.os THEN i ELSE from)
    BY LegStep
  <2> QED BY <2>1
<1>2. from \in 0 .. n /\ to \in 0 .. i
  BY DEF LegInv
<1>3. /\ d0 \in {1, -1} /\ (y.os = s.os => d0 = Facing(s))
      /\ (y.os = s.os => (Latch(s, d0) <=> Latch(t, d0)))
      /\ (d0 \in G => ~Latch(t, d0))
      /\ ((Latch(t, d0) \/ d0 \in G) =>
             (Latch(y, d0) \/ (y.os = s.os /\ from > 0 /\ ExtremeOn(w, d0, i, from))))
  BY LatchStep
<1>4. \A d \in G : d = d0
  <2>0. DOMAIN s = IdmFields /\ s.os \in {0, 1}
    BY DEF LegInv
  <2>1. LegAfter(s, w[i], t)
    BY <2>0, LegsMove
  <2>5. IdmAfter(t, w[i], y)
    BY <2>1, IdmStepMove DEF LegAfter
  <2>2. G = {e \in {1, -1} : IF e = 1 THEN GrabsUp(t, w[i]) ELSE GrabsDown(t, w[i])}
    BY DEF Grabs
  <2>3. y.os = t.os
    BY <2>5 DEF IdmAfter
  <2> HIDE DEF G, t
  <2>4. ASSUME NEW d \in G  PROVE d = d0
    <3>1. CASE d = 1
      <4>1. t.os = 1
        BY <2>2, <3>1 DEF GrabsUp
      <4> QED BY <2>3, <3>1, <4>1 DEF Facing
    <3>2. CASE d = -1
      <4>1. t.os = 0
        BY <2>2, <3>2 DEF GrabsDown
      <4> QED BY <2>3, <3>2, <4>1 DEF Facing
    <3> QED BY <2>2, <3>1, <3>2
  <2> QED BY <2>4
<1> HIDE DEF t, G
<1>5. \A g \in new : g.at = i /\ g.leg = to /\ g.dir = d0 /\ d0 \in G
  BY <1>4
<1>6. /\ \A g \in gs : /\ g.at \in 1 .. n /\ g.leg \in 0 .. from
                       /\ (g.leg = from => (g.dir = Facing(s)
                                            /\ (Latch(s, g.dir) \/ Rearmed(w, g.at, n, g))))
      /\ \A g, f \in gs : (g.leg = f.leg /\ g.dir = f.dir /\ g.at < f.at) =>
                              Rearmed(w, g.at, f.at - 1, g)
  BY DEF GrabInv
<1> HIDE DEF new, d0
<1>7. /\ \A g \in gs : g.at \in 1 .. n /\ g.leg \in 0 .. from
      /\ \A g \in gs : g.leg = to => y.os = s.os /\ to = from
  <2>1. ASSUME NEW g \in gs, g.leg = to  PROVE y.os = s.os
    <3>1. g.leg \in 0 .. from
      BY <1>6
    <3> QED BY <1>2, <2>1, <3>1
  <2> QED BY <1>6, <2>1
<1>8. ASSUME NEW g, g.at \in 1 .. i, g.leg = from, g.dir = d0, y.os = s.os, from > 0,
             ExtremeOn(w, d0, i, from)
      PROVE  Rearmed(w, g.at, i, g)
  <2>1. i \in g.at .. i /\ i > g.leg
    BY <1>2, <1>8
  <2> HIDE DEF i
  <2> QED BY <1>8, <2>1 DEF Rearmed
<1>9. ASSUME NEW g \in gs \cup new
      PROVE  /\ g.at \in 1 .. i /\ g.leg \in 0 .. to
             /\ (g.leg = to => (g.dir = d0 /\ (Latch(y, g.dir) \/ Rearmed(w, g.at, i, g))))
  <2>1. CASE g \in new
    <3>1. g.at = i /\ g.leg = to /\ g.dir = d0 /\ d0 \in G
      BY <1>5, <2>1
    <3>2. i \in 1 .. i
      OBVIOUS
    <3>3. CASE Latch(y, d0)
      BY <1>2, <3>1, <3>2, <3>3
    <3>4. CASE y.os = s.os /\ from > 0 /\ ExtremeOn(w, d0, i, from)
      <4>1. Rearmed(w, g.at, i, g)
        BY <1>8, <3>1, <3>2, <3>4
      <4> QED BY <1>2, <3>1, <3>2, <4>1
    <3> QED BY <1>3, <3>1, <3>3, <3>4
  <2>2. CASE g \in gs
    <3>1. g.at \in 1 .. i /\ g.leg \in 0 .. to
      BY <1>2, <1>7, <2>2
    <3>2. ASSUME g.leg = to
          PROVE  g.dir = d0 /\ (Latch(y, g.dir) \/ Rearmed(w, g.at, i, g))
      <4>1. y.os = s.os /\ to = from
        BY <1>7, <2>2, <3>2
      <4>2. g.dir = d0 /\ (Latch(s, d0) \/ Rearmed(w, g.at, n, g))
        BY <1>3, <1>6, <2>2, <3>2, <4>1
      <4>3. CASE Latch(s, d0)
        <5>1. Latch(y, d0) \/ (from > 0 /\ ExtremeOn(w, d0, i, from))
          BY <1>3, <4>1, <4>3
        <5> QED BY <1>8, <3>1, <3>2, <4>1, <4>2, <5>1
      <4>4. CASE Rearmed(w, g.at, n, g)
        <5>1. \A j \in g.at .. n : j \in g.at .. i
          BY <1>7, <2>2
        <5>2. Rearmed(w, g.at, i, g)
          BY <4>4, <5>1, Zenon DEF Rearmed
        <5> QED BY <4>2, <5>2
      <4> QED BY <4>2, <4>3, <4>4
    <3> QED BY <3>1, <3>2
  <2> QED BY <2>1, <2>2
<1>10. ASSUME NEW g \in gs \cup new, NEW f \in gs \cup new,
              g.leg = f.leg, g.dir = f.dir, g.at < f.at
       PROVE  Rearmed(w, g.at, f.at - 1, g)
  <2>1. f \in gs => f.at \in 1 .. n
    BY <1>7
  <2>2. g \in gs => g.at \in 1 .. n
    BY <1>7
  <2>3. /\ (g \in new => (g.at = i /\ g.leg = to /\ g.dir = d0 /\ d0 \in G))
        /\ (f \in new => (f.at = i /\ f.leg = to /\ f.dir = d0 /\ d0 \in G))
    BY <1>5
  <2>4. g \in gs
    BY <1>10, <2>1, <2>3
  <2>5. CASE f \in gs
    BY <1>6, <1>10, <2>4, <2>5
  <2>6. CASE f \in new
    <3>1. y.os = s.os /\ g.leg = from
      BY <1>7, <1>10, <2>3, <2>4, <2>6
    <3>2. ~Latch(s, d0)
      BY <1>3, <2>3, <2>6, <3>1
    <3>3. g.dir = d0 /\ Rearmed(w, g.at, n, g)
      BY <1>3, <1>6, <2>4, <3>1, <3>2
    <3>4. f.at - 1 = n
      BY <2>3, <2>6
    <3> QED BY <3>3, <3>4
  <2> QED BY <2>5, <2>6
<1>11. GrabInv(y, w, i, to, gs \cup new)
  <2> DEFINE all == gs \cup new
  <2> HIDE DEF all, i
  <2>1. \A g \in all : /\ g.at \in 1 .. i /\ g.leg \in 0 .. to
                       /\ (g.leg = to => (g.dir = d0 /\ (Latch(y, g.dir) \/ Rearmed(w, g.at, i, g))))
    BY <1>9 DEF all
  <2>2. \A g, f \in all : (g.leg = f.leg /\ g.dir = f.dir /\ g.at < f.at) =>
                              Rearmed(w, g.at, f.at - 1, g)
    BY <1>10 DEF all
  <2>3. GrabInv(y, w, i, to, all)
    BY <2>1, <2>2, Zenon DEF GrabInv, d0
  <2> QED BY <2>3 DEF all
<1> QED BY <1>1, <1>11 DEF new, G
(* A longer tape says the same of the bars that have been read.            *)
LEMMA GrabsOnPrefix ==
    ASSUME NEW w \in Seq(Candles), NEW b \in Candles, NEW n \in Nat, n <= Len(w),
           NEW s, NEW from, LegInv(s, w, n, from), NEW gs, GrabInv(s, w, n, from, gs)
    PROVE  LegInv(s, Append(w, b), n, from) /\ GrabInv(s, Append(w, b), n, from, gs)
<1> DEFINE v == Append(w, b)
<1>1. ASSUME NEW S, S \subseteq 1 .. n
      PROVE  Highest(v, S) = Highest(w, S) /\ Lowest(v, S) = Lowest(w, S)
  <2>1. \A j \in S : v[j] = w[j]
    BY <1>1
  <2> HIDE DEF v
  <2>2. {v[j].h : j \in S} = {w[j].h : j \in S} /\ {v[j].l : j \in S} = {w[j].l : j \in S}
    BY <2>1
  <2> QED BY <2>2 DEF Highest, Lowest
<1>2. \A j \in 1 .. n : v[j] = w[j]
  OBVIOUS
<1>3. from \in 0 .. n
  BY DEF LegInv
<1> HIDE DEF v
<1>4. LegInv(s, v, n, from)
  <2>1. CASE from = 0
    BY <1>3, <2>1 DEF LegInv
  <2>2. CASE from > 0
    <3>1. from .. n \subseteq 1 .. n
      BY <1>3, <2>2
    <3>2. Highest(v, from .. n) = Highest(w, from .. n) /\ Lowest(v, from .. n) = Lowest(w, from .. n)
      BY <1>1, <3>1
    <3> QED BY <1>3, <2>2, <3>2 DEF LegInv
  <2> QED BY <1>3, <2>1, <2>2
<1>5. ASSUME NEW g, g.at \in 1 .. n, g.leg \in 0 .. n, NEW to \in 0 .. n, Rearmed(w, g.at, to, g)
      PROVE  Rearmed(v, g.at, to, g)
  <2>1. PICK j \in g.at .. to : j > g.leg /\ g.leg > 0 /\ ExtremeOn(w, g.dir, j, g.leg)
    BY <1>5 DEF Rearmed
  <2>2. j \in 1 .. n /\ g.leg .. j - 1 \subseteq 1 .. n
    BY <1>5, <2>1
  <2>3. /\ v[j] = w[j]
        /\ Highest(v, g.leg .. j - 1) = Highest(w, g.leg .. j - 1)
        /\ Lowest(v, g.leg .. j - 1) = Lowest(w, g.leg .. j - 1)
    BY <1>1, <1>2, <2>2
  <2>4. ExtremeOn(v, g.dir, j, g.leg)
    BY <2>1, <2>3 DEF ExtremeOn
  <2> QED BY <2>1, <2>4 DEF Rearmed
<1>6. /\ \A g \in gs : /\ g.at \in 1 .. n /\ g.leg \in 0 .. from
                       /\ (g.leg = from => (g.dir = Facing(s)
                                            /\ (Latch(s, g.dir) \/ Rearmed(w, g.at, n, g))))
      /\ \A g, f \in gs : (g.leg = f.leg /\ g.dir = f.dir /\ g.at < f.at) =>
                              Rearmed(w, g.at, f.at - 1, g)
  BY DEF GrabInv
<1>7. \A g \in gs : g.at \in 1 .. n /\ g.leg \in 0 .. n /\ g.at - 1 \in 0 .. n
  BY <1>3, <1>6
<1>8. n \in 0 .. n
  OBVIOUS
<1>9. \A g \in gs : g.leg = from => (g.dir = Facing(s)
                                     /\ (Latch(s, g.dir) \/ Rearmed(v, g.at, n, g)))
  BY <1>5, <1>6, <1>7, <1>8
<1>10. \A g, f \in gs : (g.leg = f.leg /\ g.dir = f.dir /\ g.at < f.at) =>
                              Rearmed(v, g.at, f.at - 1, g)
  BY <1>5, <1>6, <1>7
<1>11. GrabInv(s, v, n, from, gs)
  BY <1>6, <1>9, <1>10, Zenon DEF GrabInv
<1> QED BY <1>4, <1>11 DEF v

LEMMA FreshGrabs ==
    ASSUME NEW w
    PROVE  LegInv(IdmFresh, w, 0, 0) /\ GrabInv(IdmFresh, w, 0, 0, {})
<1>1. /\ DOMAIN IdmFresh = IdmFields /\ IdmFresh.os = 0
      /\ IdmFresh.maxv = NoPrice /\ IdmFresh.minv = NoPrice
  BY DEF IdmFresh, IdmFields
<1>2. 0 \in 0 .. 0 /\ ~(0 > 0)
  OBVIOUS
<1>3. LegInv(IdmFresh, w, 0, 0)
  BY <1>1, <1>2 DEF LegInv
<1>4. GrabInv(IdmFresh, w, 0, 0, {})
  BY Zenon DEF GrabInv
<1> QED BY <1>3, <1>4

LEMMA GrabsInductive == Spec => []GrabsInv
<1>1. ASSUME Init PROVE GrabsInv
  <2>1. \A j \in 1 .. Len(bars) : bars[j].l > 0
    BY <1>1, SeedsAssumption DEF Init
  <2> QED BY <1>1, <2>1, FreshGrabs DEF Init, GrabsInv
<1>2. ASSUME ChainInv, GrabsInv, [Next]_vars PROVE GrabsInv'
  <2>1. bars \in Seq(Candles) /\ bars # <<>> /\ read \in Nat /\ read <= Len(bars)
    BY <1>2 DEF ChainInv, TapeInv
  <2>2. /\ \A j \in 1 .. Len(bars) : bars[j].l > 0
        /\ LegInv(idm, bars, read, leg) /\ GrabInv(idm, bars, read, leg, grabs)
    BY <1>2 DEF GrabsInv
  <2>3. ASSUME NEW s \in Shapes, Bar(s) PROVE GrabsInv'
    <3> DEFINE b == Candle(bars[Len(bars)].c, s)
    <3>1. /\ bars' = Append(bars, b) /\ read' = read /\ b.l > 0
          /\ idm' = idm /\ leg' = leg /\ grabs' = grabs
      BY <2>3 DEF Bar, structure
    <3>2. b \in Candles
      <4>1. bars[Len(bars)] \in Candles /\ s \in Candles
        BY <2>1, SeedsAssumption
      <4> QED BY <4>1, CandleIsCandle DEF Candles
    <3> HIDE DEF b
    <3>3. \A j \in 1 .. Len(bars') : bars'[j].l > 0
      <4>1. \A j \in 1 .. Len(bars') : j \in 1 .. Len(bars) \/ j = Len(bars) + 1
        BY <2>1, <3>1, <3>2
      <4>2. bars'[Len(bars) + 1] = b /\ \A j \in 1 .. Len(bars) : bars'[j] = bars[j]
        BY <2>1, <3>1, <3>2
      <4> QED BY <2>2, <3>1, <4>1, <4>2
    <3>4. LegInv(idm, bars', read, leg) /\ GrabInv(idm, bars', read, leg, grabs)
      BY <2>1, <2>2, <3>1, <3>2, GrabsOnPrefix
    <3> QED BY <3>1, <3>3, <3>4 DEF GrabsInv
  <2>4. ASSUME Read PROVE GrabsInv'
    <3> DEFINE i == read + 1
               new == {[at |-> i, dir |-> d, leg |-> leg'] : d \in Grabs(idm, bars, i)}
    <3>1. /\ read < Len(bars) /\ bars' = bars /\ read' = i /\ idm' = IdmStep(idm, bars, i)
          /\ leg' = (IF idm'.os # idm.os THEN i ELSE leg) /\ grabs' = grabs \cup new
      BY <1>2, <2>4 DEF Read, ChainInv, TapeInv
    <3>2. /\ (idm'.os # idm.os => leg' = i) /\ (idm'.os = idm.os => leg' = leg)
      BY <3>1
    <3>3. bars[i].l > 0
      BY <2>1, <2>2, <3>1
    <3>4. LegInv(idm', bars, i, leg') /\ GrabInv(idm', bars, i, leg', grabs \cup new)
      BY <2>1, <2>2, <3>1, <3>2, <3>3, GrabStep
    <3> QED BY <2>2, <3>1, <3>4 DEF GrabsInv
  <2>5. ASSUME SessionEnd PROVE GrabsInv'
    BY <2>2, <2>5 DEF SessionEnd, GrabsInv
  <2>6. ASSUME Restart PROVE GrabsInv'
    <3>1. /\ bars' = bars /\ read' = 0 /\ idm' = IdmFresh /\ leg' = 0 /\ grabs' = {}
      BY <2>6 DEF Restart, Fresh
    <3> QED BY <2>2, <3>1, FreshGrabs DEF GrabsInv
  <2>7. ASSUME UNCHANGED vars PROVE GrabsInv'
    BY <2>2, <2>7 DEF vars, structure, GrabsInv
  <2> QED BY <1>2, <2>3, <2>4, <2>5, <2>6, <2>7 DEF Next
<1> QED
  BY <1>1, <1>2, ChainInductive, PTL DEF Spec

(* One grab per leg extreme, for every tape: between two grabs of one leg  *)
(* a bar closed beyond everything the leg had traded until then.           *)
THEOREM GrabsAreRearmedThm == Spec => []GrabsAreRearmed
<1>1. ASSUME GrabsInv PROVE GrabsAreRearmed
  <2>1. SUFFICES ASSUME NEW g \in grabs, NEW f \in grabs, g.leg = f.leg, g.dir = f.dir, g.at < f.at
                 PROVE  \E j \in g.at .. f.at - 1 : j > g.leg /\ g.leg > 0 /\ Extreme(g.dir, j, g.leg)
    BY DEF GrabsAreRearmed
  <2>2. Rearmed(bars, g.at, f.at - 1, g)
    BY <1>1, <2>1 DEF GrabsInv, GrabInv
  <2> QED BY <2>2, Zenon DEF Rearmed, ExtremeOn, Extreme
<1> QED
  BY <1>1, GrabsInductive, PTL
=============================================================================
