------------------------ MODULE PlannedPositionProofs ------------------------
(***************************************************************************)
(* Proofs about the plan and the position it becomes, for every setting,   *)
(* plan, price and clock: what the rungs of the ladder leave to sell, what *)
(* the stop does, and that a plan that triggers is sound and backed.       *)
(***************************************************************************)
EXTENDS PlannedPosition, SequenceTheorems, FiniteOrder

-----------------------------------------------------------------------------
(* The position (PositionManager).                                         *)

Queues == [partials : 0 .. 2, limits : SUBSET Nat, closes : BOOLEAN]

(* Two shares never use up the quantity.                                   *)
LEMMA ShareBound ==
    ASSUME TypeOK PROVE Share \in Nat /\ 2 * Share < plan.qty /\ plan.qty \in Nat
<1>1. plan.qty \in Nat \ {0}
  BY PlansAssumption DEF TypeOK
<1>2. ASSUME NEW q \in Nat \ {0}
      PROVE  (q * 33) \div 100 \in Nat /\ 2 * ((q * 33) \div 100) < q
  OBVIOUS
<1> QED BY <1>1, <1>2 DEF Share, PartialQty

LEMMA SellingBound ==
    ASSUME NEW S PROVE Selling(S) \in 0 .. 2 /\ ("2R" \notin S => Selling(S) <= 1)
BY DEF Selling

(* The rungs of a bar are new ones.                                        *)
LEMMA TakenFacts ==
    /\ Taken \subseteq Rungs
    /\ Selling(partials \cup Taken) = Selling(partials) + Selling(Taken)
    /\ plan.goal # None => "2R" \notin Taken
BY DEF Taken, Rungs, Selling

LEMMA AddExitFacts ==
    ASSUME NEW q \in Queues, NEW P \in SUBSET Nat
    PROVE  AddExit(q, P) \in Queues /\ AddExit(q, P).partials = q.partials
BY DEF AddExit, Queues

(* The stop moves one way.                                                 *)
LEMMA TrailFacts ==
    ASSUME TypeOK, NEW swing \in SwingStops
    PROVE  /\ Trail(swing) \in Int /\ Trail(swing) >= stop
           /\ "1R" \in Taken => Trail(swing) >= 0
<1>1. stop \in Int /\ swing \in Int
  BY PricesAssumption DEF TypeOK
<1>2. Breakeven \in Int /\ Breakeven >= stop /\ ("1R" \in Taken => Breakeven >= 0)
  BY <1>1 DEF Breakeven
<1> QED BY <1>1, <1>2 DEF Trail

(* The queue that the ladder leaves.                                       *)
LEMMA LadderQueue ==
    ASSUME PInv, NEW swing \in SwingStops, NEW counter \in BOOLEAN, Ladder(swing, counter)
    PROVE  /\ queue' \in Queues
           /\ orders + queue'.partials <= Selling(partials')
           /\ Share = 0 => queue'.partials = 0
<1> DEFINE prices   == IF Share = 0 THEN {} ELSE RungPrices
           laddered == AddPartials(queue, SharesOff, prices)
           target   == IF plan.goal = None THEN {plan.targets[3]} ELSE {}
           profited == IF ~TakesProfit THEN laddered ELSE AddExit(laddered, target)
<1>1. /\ queue \in Queues /\ orders \in 0 .. 3 /\ partials' = partials \cup Taken
      /\ orders + queue.partials <= Selling(partials)
      /\ Share = 0 => queue.partials = 0
      /\ plan.targets \in Seq(Nat)
  BY PlansAssumption DEF PInv, TypeOK, Queues, SharesAccounted, Ladder
<1>2. SharesOff \in 0 .. 2 /\ SharesOff <= Selling(Taken) /\ (Share = 0 => SharesOff = 0)
  BY SellingBound DEF SharesOff
<1>3. Selling(partials') = Selling(partials) + Selling(Taken) /\ Selling(partials') \in 0 .. 2
      /\ Selling(partials) \in 0 .. 2 /\ Selling(Taken) \in 0 .. 2
  BY <1>1, TakenFacts, SellingBound
<1>4. prices \in SUBSET Nat
  <2>1. RungPrices \in SUBSET Nat
    BY <1>1 DEF RungPrices, Touched
  <2> QED BY <2>1
<1>5. laddered \in Queues /\ orders + laddered.partials <= Selling(partials')
      /\ (Share = 0 => laddered.partials = 0)
  <2>1. CASE queue.closes
    BY <1>1, <1>2, <1>3, <2>1 DEF AddPartials, Queues
  <2>2. CASE ~queue.closes
    <3>1. laddered = [queue EXCEPT !.partials = @ + SharesOff, !.limits = @ \cup prices]
      BY <2>2 DEF AddPartials
    <3>2. laddered.partials = queue.partials + SharesOff
      BY <1>1, <3>1 DEF Queues
    <3>3. queue.partials \in 0 .. 2 /\ queue.partials + SharesOff \in 0 .. 2
      BY <1>1, <1>2, <1>3 DEF Queues
    <3>4. laddered \in Queues
      BY <1>1, <1>4, <3>1, <3>3 DEF Queues
    <3> QED BY <1>1, <1>2, <1>3, <3>2, <3>3, <3>4
  <2> QED BY <2>1, <2>2
<1>6. TakesProfit => target \in SUBSET Nat
  BY <1>1 DEF TakesProfit, Touched
<1>7. profited \in Queues /\ profited.partials = laddered.partials
  BY <1>5, <1>6, AddExitFacts
<1>8. queue' = profited \/ queue' = AddExit(profited, {})
  BY DEF Ladder
<1>9. queue' \in Queues /\ queue'.partials = laddered.partials
  BY <1>7, <1>8, AddExitFacts
<1> QED BY <1>5, <1>9

(* What _run_exits sells is what was queued.                               *)
LEMMA SoldFacts ==
    ASSUME PInv, status = "open"
    PROVE  /\ Sold = queue.partials * Share /\ Cardinality(Partials) = queue.partials
           /\ remaining - Sold = plan.qty - Share * (orders + queue.partials)
           /\ remaining - Sold \in 1 .. plan.qty
           /\ orders + queue.partials <= Selling(partials)
           /\ queue.partials \in 0 .. 2 /\ orders \in 0 .. 2
           /\ Share = 0 => orders = 0 /\ queue.partials = 0
<1>1. /\ Share \in Nat /\ 2 * Share < plan.qty /\ plan.qty \in Nat
      /\ queue.partials \in 0 .. 2 /\ orders \in 0 .. 3
      /\ remaining = plan.qty - Share * orders
      /\ orders + queue.partials <= Selling(partials) /\ Selling(partials) \in 0 .. 2
      /\ Share = 0 => orders = 0 /\ queue.partials = 0
  BY ShareBound, SellingBound DEF PInv, TypeOK, SharesAccounted
<1> DEFINE n == queue.partials
           m == orders
<1>2. /\ n \in 0 .. 2 /\ m \in 0 .. 2
      /\ \/ n = 0 \/ n = 1 \/ n = 2
      /\ \/ m = 0 \/ m = 1 \/ m = 2
      /\ n + m <= 2
  BY <1>1
<1>3. /\ n * Share < remaining
      /\ remaining - n * Share = plan.qty - Share * (m + n)
      /\ remaining - n * Share \in 1 .. plan.qty
  <2>1. CASE m = 0
    BY <1>1, <1>2, <2>1
  <2>2. CASE m = 1
    BY <1>1, <1>2, <2>2
  <2>3. CASE m = 2
    BY <1>1, <1>2, <2>3
  <2> QED BY <1>2, <2>1, <2>2, <2>3
<1>4. Sold = n * Share
  BY <1>3 DEF Sold
<1>5. Partials = 1 .. n
  <2>1. ASSUME NEW k \in 1 .. n PROVE (k - 1) * Share < remaining
    <3>1. k = 1 \/ (k = 2 /\ n = 2)
      BY <1>2
    <3>2. 0 * Share = 0 /\ 1 * Share = Share
      BY <1>1
    <3> QED BY <1>1, <1>2, <1>3, <3>1, <3>2
  <2> QED BY <2>1 DEF Partials
<1>6. Cardinality(Partials) = n
  <2>1. 1 \in Int /\ n \in Int
    BY <1>2
  <2>2. Cardinality(1 .. n) = IF 1 > n THEN 0 ELSE n - 1 + 1
    BY <2>1, FS_Interval
  <2>3. Cardinality(1 .. n) = n
    BY <1>2, <2>2
  <2> QED BY <1>5, <2>3
<1> QED BY <1>1, <1>2, <1>3, <1>4, <1>6

(* The estimate always has room for the final exit.                        *)
LEMMA EstimateRoom ==
    ASSUME PInv, status = "open", NEW k \in 0 .. 2, k <= Selling(partials),
           Share = 0 => k = 0
    PROVE  k + 1 <= LadderExits(plan) /\ k <= LadderExits(plan)
<1>1. plan.goal # None => Selling(partials) <= 1
  BY SellingBound DEF PInv, SharesAccounted
<1>2. Selling(partials) \in 0 .. 2
  BY SellingBound
<1> QED BY <1>1, <1>2 DEF LadderExits, Share

-----------------------------------------------------------------------------
LEMMA InitInvariant == Init => PInv
<1> SUFFICES ASSUME Init PROVE PInv
  OBVIOUS
<1>1. plan \in Plans /\ plan.qty \in Nat \ {0} /\ plan.risk \in Nat \ {0}
  BY PlansAssumption DEF Init
<1>2. NoExits \in Queues /\ NoExits.partials = 0
  BY DEF NoExits, Queues
<1>3. bar \in [high : Int, low : Int, close : Int]
  BY PricesAssumption DEF Init
<1>4. forming \in [of : Int, high : Int, low : Int, close : Int, members : Nat]
  BY <1>3, MinutesAssumption DEF Init
<1>5. TypeOK
  BY <1>1, <1>2, <1>3, <1>4, MinutesAssumption DEF Init, TypeOK, Queues
<1>6. Share \in Nat
  BY <1>5, ShareBound
<1>7. SharesAccounted
  BY <1>1, <1>2, <1>6 DEF Init, SharesAccounted, Selling
<1>8. OrdersWithinEstimate
  BY DEF Init, OrdersWithinEstimate, LadderExits
<1> QED BY <1>5, <1>7, <1>8 DEF PInv, Init, BreakevenAfterOneR

(* The clock's own types, whatever the position does.                      *)
ClockOK ==
    /\ stage \in {"feed", "close"} /\ ts \in {-1} \cup Minutes /\ boundary \in Nat
    /\ forming \in [of : Int, high : Int, low : Int, close : Int, members : Nat]
    /\ bar \in [high : Int, low : Int, close : Int]

LEMMA BucketType == ASSUME NEW t \in Int PROVE Bucket(t) \in Int
BY MinutesAssumption DEF Bucket

LEMMA StoreType ==
    ASSUME ClockOK, NEW c \in Candles, Store(c) PROVE ClockOK'
<1>1. c \in [high : Int, low : Int, close : Int]
  BY PricesAssumption DEF Candles
<1>2. ts \in Int
  BY DEF ClockOK, Minutes
<1>3. Bucket(ts) \in Int
  BY <1>2, BucketType
<1>4. forming' \in [of : Int, high : Int, low : Int, close : Int, members : Nat]
  <2>1. CASE forming.of = Bucket(ts)
    <3>1. forming' = [of |-> forming.of,
                      high |-> IF c.high > forming.high THEN c.high ELSE forming.high,
                      low  |-> IF c.low < forming.low THEN c.low ELSE forming.low,
                      close |-> c.close, members |-> forming.members + 1]
      BY <2>1 DEF Store
    <3> QED BY <1>1, <3>1 DEF ClockOK
  <2>2. CASE forming.of # Bucket(ts)
    <3>1. forming' = [of |-> Bucket(ts), high |-> c.high, low |-> c.low, close |-> c.close,
                      members |-> 1]
      BY <2>2 DEF Store
    <3> QED BY <1>1, <1>3, <3>1
  <2> QED BY <2>1, <2>2
<1>5. bar' = bar \/ bar' = [high |-> forming'.high, low |-> forming'.low, close |-> forming'.close]
  BY DEF Store
<1>6. bar' \in [high : Int, low : Int, close : Int]
  BY <1>4, <1>5 DEF ClockOK
<1> QED BY <1>4, <1>6 DEF Store, ClockOK

LEMMA ClockStep == ASSUME TypeOK, Next PROVE ClockOK'
<1>0. ClockOK
  BY DEF TypeOK, ClockOK
<1>1. ASSUME NEW t \in Minutes, Comes(t) PROVE ClockOK'
  BY <1>0, <1>1 DEF Comes, ClockOK
<1>2. CASE OnClose
  <2>1. ClosesBoundary
    BY <1>2 DEF OnClose, NothingToManage, SquareoffExit, StopExit, Ladder
  <2> QED BY <1>0, <2>1, MinutesAssumption DEF ClosesBoundary, ClockOK
<1>3. ASSUME NEW c \in Candles, OnM1(c) PROVE ClockOK'
  BY <1>0, <1>3, StoreType DEF OnM1, Fill, StillResting, RunExits
<1>4. CASE ForceClose
  BY <1>0, <1>4 DEF ForceClose, clock, ClockOK
<1> QED BY <1>1, <1>2, <1>3, <1>4 DEF Next

-----------------------------------------------------------------------------
LEMMA StepInvariant == ASSUME PInv, Next PROVE PInv'
<1>0. ClockOK'
  BY ClockStep DEF PInv
<1>1. ASSUME UNCHANGED position PROVE PInv'
  BY <1>0, <1>1 DEF position, PInv, TypeOK, ClockOK, SharesAccounted, OrdersWithinEstimate,
                    BreakevenAfterOneR, Share
<1>2. ASSUME status = "open", queue' = AddExit(queue, {}),
             UNCHANGED <<status, plan, opened, stop, partials, remaining, orders>>
      PROVE  PInv'
  <2>1. queue' \in Queues /\ queue'.partials = queue.partials
    BY <1>2, AddExitFacts DEF PInv, TypeOK, Queues
  <2>2. TypeOK'
    BY <1>0, <1>2, <2>1 DEF PInv, TypeOK, ClockOK, Queues
  <2> QED BY <1>2, <2>1, <2>2 DEF PInv, SharesAccounted, OrdersWithinEstimate,
                                  BreakevenAfterOneR, Share
<1>3. ASSUME NEW swing \in SwingStops, NEW counter \in BOOLEAN, Ladder(swing, counter)
      PROVE  PInv'
  <2>1. /\ status = "open" /\ partials' = partials \cup Taken /\ stop' = Trail(swing)
        /\ UNCHANGED <<status, plan, opened, remaining, orders>>
    BY <1>3 DEF Ladder
  <2>2. /\ queue' \in Queues
        /\ orders + queue'.partials <= Selling(partials')
        /\ Share = 0 => queue'.partials = 0
    BY <1>3, LadderQueue
  <2>3. TypeOK
    BY DEF PInv
  <2>4. /\ stop' \in Int /\ stop' >= stop /\ stop \in Int
        /\ "1R" \in Taken => stop' >= 0
    BY <2>1, <2>3, TrailFacts DEF TypeOK
  <2>5. partials' \subseteq Rungs
    BY <2>1, <2>3, TakenFacts DEF TypeOK
  <2>6. TypeOK'
    BY <1>0, <2>1, <2>2, <2>3, <2>4, <2>5 DEF TypeOK, ClockOK, Queues
  <2>7. SharesAccounted'
    BY <2>1, <2>2, TakenFacts DEF PInv, SharesAccounted, Share
  <2>8. BreakevenAfterOneR'
    BY <2>1, <2>4 DEF PInv, BreakevenAfterOneR
  <2>9. OrdersWithinEstimate'
    BY <2>1 DEF PInv, OrdersWithinEstimate
  <2> QED BY <2>6, <2>7, <2>8, <2>9 DEF PInv
<1>4. CASE OnClose
  BY <1>1, <1>2, <1>3, <1>4 DEF OnClose, NothingToManage, SquareoffExit, StopExit
<1>5. ASSUME NEW c \in Candles, Fill(c) PROVE PInv'
  <2>1. /\ status = "resting" /\ status' = "open" /\ opened' = ts
        /\ UNCHANGED <<plan, stop, partials, remaining, queue, orders>>
    BY <1>5 DEF Fill
  <2>2. TypeOK'
    BY <1>0, <2>1 DEF PInv, TypeOK, ClockOK
  <2> QED BY <2>1, <2>2 DEF PInv, SharesAccounted, OrdersWithinEstimate, BreakevenAfterOneR,
                            Share
<1>6. ASSUME NEW c \in Candles, RunExits(c) PROVE PInv'
  <2>1. /\ status = "open" /\ remaining' = remaining - Sold /\ queue' = NoExits
        /\ orders' = orders + Cardinality(Partials)
                       + (IF queue.closes /\ remaining' > 0 THEN 1 ELSE 0)
        /\ status' = IF queue.closes /\ remaining' > 0 THEN "closed" ELSE "open"
        /\ UNCHANGED <<plan, opened, stop, partials>>
    BY <1>6 DEF RunExits
  <2>2. /\ Cardinality(Partials) = queue.partials
        /\ remaining - Sold = plan.qty - Share * (orders + queue.partials)
        /\ remaining - Sold \in 1 .. plan.qty
        /\ orders + queue.partials <= Selling(partials)
        /\ queue.partials \in 0 .. 2 /\ orders \in 0 .. 2
        /\ Share = 0 => orders = 0 /\ queue.partials = 0
    BY <2>1, SoldFacts
  <2> DEFINE k == orders + queue.partials
  <2>3. k \in 0 .. 2 /\ (Share = 0 => k = 0)
    BY <2>2, SellingBound
  <2>4. k + 1 <= LadderExits(plan) /\ k <= LadderExits(plan)
    BY <2>1, <2>2, <2>3, EstimateRoom
  <2>5. remaining' > 0 /\ orders' = IF queue.closes THEN k + 1 ELSE k
    BY <2>1, <2>2, <2>3
  <2>6. NoExits \in Queues /\ NoExits.partials = 0
    BY DEF NoExits, Queues
  <2>7. orders' \in 0 .. 3
    BY <2>3, <2>5
  <2>8. remaining' \in 0 .. plan.qty /\ status' \in {"open", "closed"}
    BY <2>1, <2>2
  <2>9. TypeOK'
    BY <1>0, <2>1, <2>6, <2>7, <2>8 DEF PInv, TypeOK, ClockOK, Queues
  <2>10. SharesAccounted'
    <3>1. status' # "closed" => orders' = k
      BY <2>1, <2>5
    <3> QED BY <2>1, <2>2, <2>3, <2>6, <3>1 DEF PInv, SharesAccounted, Share
  <2>11. OrdersWithinEstimate'
    BY <2>1, <2>4, <2>5 DEF OrdersWithinEstimate
  <2> QED BY <2>1, <2>9, <2>10, <2>11 DEF PInv, BreakevenAfterOneR
<1>7. ASSUME NEW c \in Candles, StillResting(c) PROVE PInv'
  BY <1>1, <1>7 DEF StillResting
<1>8. CASE ForceClose
  <2>1. /\ status = "open" /\ queue' = NoExits
        /\ orders' = orders + (IF remaining > 0 THEN 1 ELSE 0)
        /\ status' = IF remaining > 0 THEN "closed" ELSE "open"
        /\ UNCHANGED <<plan, opened, stop, partials, remaining>>
    BY <1>8 DEF ForceClose
  <2>2. /\ Sold = queue.partials * Share /\ remaining - Sold \in 1 .. plan.qty
        /\ orders + queue.partials <= Selling(partials)
        /\ queue.partials \in 0 .. 2 /\ orders \in 0 .. 2
        /\ Share = 0 => orders = 0
    BY <2>1, SoldFacts
  <2>3. remaining > 0
    <3>1. Sold <= remaining /\ remaining \in Nat /\ Sold \in Int
      BY <2>2, ShareBound DEF Sold, PInv, TypeOK
    <3>2. Sold >= 0
      BY <2>2, ShareBound DEF PInv
    <3> QED BY <2>2, <3>1, <3>2
  <2>4. orders <= Selling(partials) /\ Selling(partials) \in 0 .. 2
    BY <2>2, SellingBound
  <2>5. orders + 1 <= LadderExits(plan)
    BY <2>1, <2>2, <2>4, EstimateRoom
  <2>6. orders' = orders + 1 /\ status' = "closed"
    BY <2>1, <2>3
  <2>7. NoExits \in Queues
    BY DEF NoExits, Queues
  <2>8. TypeOK'
    BY <1>0, <2>1, <2>2, <2>6, <2>7 DEF PInv, TypeOK, ClockOK, Queues
  <2> QED BY <2>1, <2>5, <2>6, <2>8 DEF PInv, SharesAccounted, OrdersWithinEstimate,
                                        BreakevenAfterOneR
<1>9. ASSUME NEW t \in Minutes, Comes(t) PROVE PInv'
  BY <1>1, <1>9 DEF Comes
<1> QED BY <1>4, <1>5, <1>6, <1>7, <1>8, <1>9 DEF Next, OnM1

-----------------------------------------------------------------------------
(* PInv, the inductive invariant, holds in every state.                    *)
THEOREM Invariant == Spec => []PInv
<1>1. PInv /\ [Next]_vars => PInv'
  <2>1. ASSUME PInv, UNCHANGED vars PROVE PInv'
    BY <2>1 DEF vars, clock, position, PInv, TypeOK, SharesAccounted, OrdersWithinEstimate,
                BreakevenAfterOneR, Share
  <2> QED BY <2>1, StepInvariant
<1> QED BY <1>1, InitInvariant, PTL DEF Spec

(* For every plan the position keeps its types.                            *)
THEOREM TypeCorrect == Spec => []TypeOK
<1>1. PInv => TypeOK
  BY DEF PInv
<1> QED BY <1>1, Invariant, PTL

(* For every quantity the rungs leave shares for the final exit.           *)
THEOREM OpenHasSharesThm == Spec => []OpenHasShares
<1>1. PInv => OpenHasShares
  <2> SUFFICES ASSUME PInv, status = "open"
               PROVE  remaining - queue.partials * Share > 0
    BY DEF OpenHasShares
  <2>1. Sold = queue.partials * Share /\ remaining - Sold \in 1 .. plan.qty
    BY SoldFacts
  <2> QED BY <2>1, ShareBound DEF PInv
<1> QED BY <1>1, Invariant, PTL

(* For every plan no more exit orders are sent than the cost gate counted. *)
THEOREM OrdersWithinEstimateThm == Spec => []OrdersWithinEstimate
<1>1. PInv => OrdersWithinEstimate
  BY DEF PInv
<1> QED BY <1>1, Invariant, PTL

(* From the first rung on the stop is at the entry or better.              *)
THEOREM BreakevenAfterOneRThm == Spec => []BreakevenAfterOneR
<1>1. PInv => BreakevenAfterOneR
  BY DEF PInv
<1> QED BY <1>1, Invariant, PTL

(* Whatever the swings, the stop never widens.                             *)
THEOREM StopOnlyTightensThm == Spec => StopOnlyTightens
<1>1. PInv /\ [Next]_vars => [stop' >= stop]_vars
  <2> SUFFICES ASSUME PInv, Next PROVE stop' >= stop
    OBVIOUS
  <2>0. TypeOK /\ stop \in Int
    BY DEF PInv, TypeOK
  <2>1. ASSUME NEW swing \in SwingStops, NEW counter \in BOOLEAN, Ladder(swing, counter)
        PROVE  stop' >= stop
    BY <2>0, <2>1, TrailFacts DEF Ladder
  <2>2. CASE stop' = stop
    BY <2>0, <2>2
  <2> QED BY <2>1, <2>2 DEF Next, Comes, OnClose, NothingToManage, SquareoffExit, StopExit, OnM1,
                            Fill, StillResting, RunExits, ForceClose, position
<1> QED BY <1>1, Invariant, PTL DEF Spec, StopOnlyTightens
-----------------------------------------------------------------------------
(* The folds of the plan, over the places of a sequence, the last one last.*)

LEMMA LastPlace ==
    ASSUME NEW n \in Nat, NEW T \in SUBSET (1 .. n), T # {}
    PROVE  Max(T) \in T /\ \A i \in T : i <= Max(T)
<1>0. IsFiniteSet(1 .. n)
  BY FS_Interval
<1>1. IsFiniteSet(T)
  <2> DEFINE I == 1 .. n
  <2>1. IsFiniteSet(I) /\ T \in SUBSET I
    BY <1>0
  <2> HIDE DEF I
  <2> QED BY <2>1, FS_Subset
<1>2. T \subseteq Int
  OBVIOUS
<1>3. Max(T) \in T /\ \A i \in T : Max(T) >= i
  BY <1>1, <1>2, MinMax
<1> QED BY <1>3

LEMMA WorstFacts ==
    ASSUME NEW d \in {1, -1}, NEW a \in Int, NEW b \in Int
    PROVE  /\ Worst(d, {a, b}) \in Int
           /\ d * (a - Worst(d, {a, b})) >= 0 /\ d * (b - Worst(d, {a, b})) >= 0
<1> DEFINE m == Min({a, b})
           n == Max({a, b})
<1>1. m \in {a, b} /\ m <= a /\ m <= b /\ n \in {a, b} /\ n >= a /\ n >= b
  BY PairExtremes
<1> HIDE DEF m, n
<1>2. CASE d = 1
  <2>1. Worst(d, {a, b}) = m
    BY <1>2 DEF Worst, m
  <2> QED BY <1>1, <1>2, <2>1
<1>3. CASE d = -1
  <2>1. Worst(d, {a, b}) = n
    BY <1>3 DEF Worst, n
  <2> QED BY <1>1, <1>3, <2>1
<1> QED BY <1>2, <1>3

(* snap_stop_off_round, as a fold that exists: never tighter.              *)
SnapBy(d, z, s) ==
    IF z.kind = "ROUND" /\ \E e \in {z.lo, z.hi} : s - e \in -2 .. 2
    THEN Worst(d, {s, Far(d, z) - d * RoundOffset}) ELSE s
IsSnap(iter, x, d, base) ==
    iter = [T \in SUBSET DOMAIN x.levels |->
               IF T = {} THEN base ELSE SnapBy(d, x.levels[Max(T)], iter[T \ {Max(T)}])]

LEMMA SnapByFacts ==
    ASSUME NEW d \in {1, -1}, NEW z, IsBand(z), NEW s \in Int
    PROVE  SnapBy(d, z, s) \in Int /\ d * (s - SnapBy(d, z, s)) >= 0
<1>1. Far(d, z) \in Int /\ RoundOffset \in Int
  BY EntryAssumption DEF IsBand, Far
<1>2. Far(d, z) - d * RoundOffset \in Int
  BY <1>1
<1>3. CASE SnapBy(d, z, s) = s
  BY <1>3
<1>4. CASE SnapBy(d, z, s) = Worst(d, {s, Far(d, z) - d * RoundOffset})
  BY <1>2, <1>4, WorstFacts
<1> QED BY <1>3, <1>4 DEF SnapBy

LEMMA SnapFacts ==
    ASSUME NEW x, IsSetting(x), NEW d \in {1, -1}, NEW from \in Int
    PROVE  Snap(x, d, from) \in Int /\ d * (from - Snap(x, d, from)) >= 0
<1> DEFINE D == DOMAIN x.levels
           pick == [T \in SUBSET D |-> Max(T)]
           g == [i \in D |-> [s \in Int |-> SnapBy(d, x.levels[i], s)]]
<1>1. D = 1 .. Len(x.levels) /\ Len(x.levels) \in Nat /\ IsFiniteSet(D)
  <2>1. x.levels \in Seq(LevelsOf(x))
    BY DEF IsSetting
  <2>2. D = 1 .. Len(x.levels) /\ Len(x.levels) \in Nat
    BY <2>1
  <2> QED BY <2>2, FS_Interval
<1>2. \A i \in D : IsBand(x.levels[i])
  BY DEF IsSetting, LevelsOf
<1>3. \A T \in SUBSET D : T # {} => Max(T) \in T
  BY <1>1, LastPlace
<1>4. \A i \in D : \A s \in Int : g[i][s] \in Int
  BY <1>2, SnapByFacts
<1>5. \E iter : IsSnap(iter, x, d, from)
  <2>1. \A T \in SUBSET D : T # {} => pick[T] \in T
    BY <1>3
  <2>2. PICK iter : /\ IsFold(iter, D, pick, from, g)
                    /\ \A T \in SUBSET D : iter[T] \in Int
    <3> HIDE DEF D, g, pick
    <3> QED BY <1>1, <1>4, <2>1, FoldExists
  <2>3. ASSUME NEW T \in SUBSET D, T # {}
        PROVE  Folded(iter, pick, from, g, T) = SnapBy(d, x.levels[Max(T)], iter[T \ {Max(T)}])
    <3>1. Max(T) \in D /\ T \ {Max(T)} \in SUBSET D /\ pick[T] = Max(T)
      BY <1>3, <2>3
    <3>2. iter[T \ {Max(T)}] \in Int
      BY <2>2, <3>1
    <3> QED BY <2>3, <3>1, <3>2 DEF Folded
  <2>4. \A T \in SUBSET D : Folded(iter, pick, from, g, T) =
            IF T = {} THEN from ELSE SnapBy(d, x.levels[Max(T)], iter[T \ {Max(T)}])
    BY <2>3 DEF Folded
  <2>5. iter = [T \in SUBSET D |-> Folded(iter, pick, from, g, T)]
    BY <2>2 DEF IsFold
  <2>6. IsSnap(iter, x, d, from)
    <3> HIDE DEF g, pick
    <3> QED BY <2>4, <2>5 DEF IsSnap
  <2> QED BY <2>6
<1>6. \E iter : IsSnap(iter, x, d, from) /\ Snap(x, d, from) = iter[D]
  BY <1>5 DEF IsSnap, SnapBy, Snap, FoldLeft, MapThenFoldSet
<1>7. PICK iter : IsSnap(iter, x, d, from) /\ Snap(x, d, from) = iter[D]
  BY <1>6
<1> DEFINE Bad == {T \in SUBSET D : ~(iter[T] \in Int /\ d * (from - iter[T]) >= 0)}
<1>8. ASSUME Bad # {} PROVE FALSE
  <2>0. Bad \subseteq SUBSET D
    OBVIOUS
  <2>1. PICK T \in Bad : \A U \in SUBSET T : U # T => U \notin Bad
    <3> HIDE DEF Bad, D
    <3> QED BY <1>1, <1>8, <2>0, SmallestSubset
  <2>2. iter[T] = IF T = {} THEN from ELSE SnapBy(d, x.levels[Max(T)], iter[T \ {Max(T)}])
    BY <1>7 DEF IsSnap
  <2>3. CASE T = {}
    BY <2>1, <2>2, <2>3
  <2>4. CASE T # {}
    <3> DEFINE s == iter[T \ {Max(T)}]
    <3>1. Max(T) \in T /\ Max(T) \in D
      BY <1>3, <2>1, <2>4
    <3>2. T \ {Max(T)} \in SUBSET T /\ T \ {Max(T)} # T /\ T \ {Max(T)} \in SUBSET D
      BY <2>1, <3>1
    <3>3. s \in Int /\ d * (from - s) >= 0
      BY <2>1, <3>2
    <3>4. iter[T] \in Int /\ d * (s - iter[T]) >= 0
      BY <1>2, <2>2, <2>4, <3>1, <3>3, SnapByFacts
    <3> HIDE DEF s
    <3>5. d * (from - iter[T]) >= 0
      BY <3>3, <3>4
    <3> QED BY <2>1, <3>4, <3>5
  <2> QED BY <2>3, <2>4
<1> QED BY <1>7, <1>8

-----------------------------------------------------------------------------
(* The stop: beyond the zone and its swept traps, and not too near.        *)

LEMMA BandIsInt == ASSUME NEW z, IsBand(z), NEW d \in {1, -1} PROVE Far(d, z) \in Int /\ Span(z) \in Int
BY DEF IsBand, Far, Span

(* A half tick is all that rounding moves a price.                         *)
LEMMA Rounding ==
    ASSUME NEW w \in Int, NEW m \in Int, NEW d \in {1, -1}
    PROVE  /\ Quantize(100 * w - d * m, 100) \in Int
           /\ 100 * (d * (w - Quantize(100 * w - d * m, 100))) + 50 >= m
           /\ m >= 0 => d * (w - Quantize(100 * w - d * m, 100)) >= 0
<1>1. CASE d = 1
  <2> DEFINE q == (2 * (100 * w - m) + 100) \div 200
  <2>1. Quantize(100 * w - d * m, 100) = q
    BY <1>1 DEF Quantize
  <2>2. q \in Int /\ 200 * q <= 2 * (100 * w - m) + 100
    OBVIOUS
  <2> HIDE DEF q
  <2> QED BY <1>1, <2>1, <2>2
<1>2. CASE d = -1
  <2> DEFINE q == (2 * (100 * w + m) + 100) \div 200
  <2>1. Quantize(100 * w - d * m, 100) = q
    BY <1>2 DEF Quantize
  <2>2. q \in Int /\ 2 * (100 * w + m) + 100 < 200 * q + 200
    OBVIOUS
  <2> HIDE DEF q
  <2> QED BY <1>2, <2>1, <2>2
<1> QED BY <1>1, <1>2

LEMMA EntryFacts == ASSUME NEW t, IsBand(t) PROVE Entry(t) \in Nat \ {0}
<1> DEFINE n == t.lo + t.hi
<1>1. n \in Nat /\ n >= 2
  BY DEF IsBand
<1>2. Entry(t) = (2 * n + 2) \div 4
  BY DEF Entry, Quantize
<1> HIDE DEF n
<1> QED BY <1>1, <1>2

LEMMA LevelsAreBands ==
    ASSUME NEW x, IsSetting(x)
    PROVE  IsFiniteSet(LevelsOf(x)) /\ \A z \in LevelsOf(x) : IsBand(z)
<1> DEFINE D == DOMAIN x.levels
           f == x.levels
<1>1. IsFiniteSet(D)
  <2>1. x.levels \in Seq(LevelsOf(x))
    BY DEF IsSetting
  <2>2. D = 1 .. Len(x.levels) /\ Len(x.levels) \in Nat
    BY <2>1
  <2> QED BY <2>2, FS_Interval
<1>2. IsFiniteSet({f[i] : i \in D})
  <2> HIDE DEF D, f
  <2> QED BY <1>1, ImageIsFinite
<1> QED BY <1>2 DEF IsSetting, LevelsOf

(* Where a stop must be to lie behind the zone and the traps on it.        *)
Guarded(x, t) == {t} \cup {y \in LevelsOf(x) : Overlaps(y, t) /\ WasIn(y, {"SWEPT"})}
Behind(x, t, d, s) == \A z \in Guarded(x, t) : d * (Far(d, z) - s) >= 0

LEMMA WorstOfMany ==
    ASSUME NEW S, S \subseteq Int, IsFiniteSet(S), S # {}, NEW d \in {1, -1}
    PROVE  Worst(d, S) \in Int /\ \A y \in S : d * (y - Worst(d, S)) >= 0
<1> DEFINE m == Min(S)
           n == Max(S)
<1>1. m \in S /\ (\A y \in S : m <= y) /\ n \in S /\ \A y \in S : n >= y
  BY MinMax
<1>2. \A y \in S : y \in Int
  OBVIOUS
<1>3. Worst(d, S) = IF d = 1 THEN m ELSE n
  BY DEF Worst
<1> HIDE DEF m, n
<1>4. CASE d = 1
  BY <1>1, <1>2, <1>3, <1>4
<1>5. CASE d = -1
  BY <1>1, <1>2, <1>3, <1>5
<1> QED BY <1>4, <1>5

LEMMA UnsnappedFacts ==
    ASSUME NEW x, IsSetting(x), x.atr # Unmeasured, NEW t, IsBand(t), NEW d \in {1, -1}
    PROVE  Unsnapped(x, t, d) \in Int /\ Behind(x, t, d, Unsnapped(x, t, d))
<1> DEFINE Y == {y \in LevelsOf(x) : Overlaps(y, t) /\ WasIn(y, {"SWEPT"})}
           f == [z \in Guarded(x, t) |-> Far(d, z)]
           G == {f[z] : z \in Guarded(x, t)}
           w == Worst(d, G)
           m == AtrBuffer * x.atr
<1>1. IsFiniteSet(Guarded(x, t)) /\ \A z \in Guarded(x, t) : IsBand(z)
  <2>1. IsFiniteSet(Y) /\ \A z \in Y : IsBand(z)
    BY LevelsAreBands, FS_Subset
  <2>2. IsFiniteSet({t})
    BY FS_Singleton
  <2>3. IsFiniteSet({t} \cup Y)
    <3> HIDE DEF Y
    <3> QED BY <2>1, <2>2, FS_Union
  <2> QED BY <2>1, <2>3 DEF Guarded
<1>2. IsFiniteSet(G)
  <2> DEFINE D == Guarded(x, t)
  <2>1. IsFiniteSet({f[z] : z \in D})
    <3> HIDE DEF D, f
    <3> QED BY <1>1, ImageIsFinite DEF D
  <2> QED BY <2>1
<1>3. G \subseteq Int /\ G # {}
  <2>1. \A z \in Guarded(x, t) : f[z] \in Int
    BY <1>1, BandIsInt
  <2> QED BY <2>1 DEF Guarded
<1>4. w \in Int /\ \A y \in G : d * (y - w) >= 0
  <2> HIDE DEF G
  <2> QED BY <1>2, <1>3, WorstOfMany
<1>5. G = {Far(d, t)} \cup {Far(d, z) : z \in Y}
  BY DEF Guarded
<1>6. m \in Nat
  <2>1. x.atr \in Nat /\ AtrBuffer \in Nat
    BY EntryAssumption DEF IsSetting
  <2> QED BY <2>1
<1>7. Unsnapped(x, t, d) = Quantize(100 * w - d * m, 100)
  <2>1. x.atr \in Int /\ AtrBuffer \in Int
    BY EntryAssumption DEF IsSetting
  <2>2. d * AtrBuffer * x.atr = d * m
    BY <2>1
  <2>3. Unsnapped(x, t, d) = Quantize(100 * w - d * AtrBuffer * x.atr, 100)
    BY <1>5 DEF Unsnapped
  <2> HIDE DEF m, w
  <2> QED BY <2>2, <2>3
<1> DEFINE u == Unsnapped(x, t, d)
<1>8. u \in Int /\ d * (w - u) >= 0
  <2>1. w \in Int /\ m \in Int /\ m >= 0 /\ u = Quantize(100 * w - d * m, 100)
    BY <1>4, <1>6, <1>7
  <2> HIDE DEF w, m, u
  <2> DEFINE q == Quantize(100 * w - d * m, 100)
  <2>2. q \in Int /\ d * (w - q) >= 0
    BY ONLY <2>1, d \in {1, -1}, Rounding, ZenonT(30)
  <2> HIDE DEF q
  <2>3. u = q
    BY <2>1 DEF q
  <2> QED BY <2>2, <2>3
<1>9. ASSUME NEW z \in Guarded(x, t) PROVE d * (Far(d, z) - u) >= 0
  <2>1. Far(d, z) \in G /\ Far(d, z) \in Int
    BY <1>1, BandIsInt
  <2>2. d * (Far(d, z) - w) >= 0
    BY <1>4, <2>1
  <2> HIDE DEF u, w
  <2> QED BY <1>4, <1>8, <2>1, <2>2
<1> QED BY <1>8, <1>9 DEF Behind
(* Further from the entry is behind all the more.                          *)
LEMMA FurtherIsBehind ==
    ASSUME NEW x, IsSetting(x), NEW t, IsBand(t), NEW d \in {1, -1},
           NEW a \in Int, NEW b \in Int, Behind(x, t, d, a), d * (a - b) >= 0
    PROVE  Behind(x, t, d, b)
<1>1. ASSUME NEW z \in Guarded(x, t) PROVE d * (Far(d, z) - b) >= 0
  <2>1. IsBand(z)
    BY LevelsAreBands DEF Guarded
  <2>2. Far(d, z) \in Int /\ d * (Far(d, z) - a) >= 0
    BY <2>1, BandIsInt DEF Behind
  <2> QED BY <2>2
<1> QED BY <1>1 DEF Behind

LEMMA ZoneStopFacts ==
    ASSUME NEW x, IsSetting(x), x.atr # Unmeasured, NEW t, IsBand(t), NEW d \in {1, -1}
    PROVE  /\ ZoneStop(x, t, d) \in Int
           /\ Behind(x, t, d, ZoneStop(x, t, d))
           /\ 100 * Risk(t, d, ZoneStop(x, t, d)) + 50 >= MinStop * x.atr
<1> DEFINE raw == Unsnapped(x, t, d)
           snapped == Snap(x, d, raw)
           chosen == IF TooWide(x, Risk(t, d, snapped)) THEN raw ELSE snapped
           m == MinStop * x.atr
           e == Entry(t)
           q == Quantize(100 * e - d * m, 100)
           wide == Snap(x, d, q)
           s == ZoneStop(x, t, d)
<1>0. m \in Nat /\ e \in Int
  <2>1. x.atr \in Nat /\ MinStop \in Nat
    BY EntryAssumption DEF IsSetting
  <2>2. e \in Int
    BY EntryFacts
  <2> QED BY <2>1, <2>2
<1>1. raw \in Int /\ Behind(x, t, d, raw)
  BY UnsnappedFacts
<1>2. snapped \in Int /\ d * (raw - snapped) >= 0
  <2> HIDE DEF raw
  <2> QED BY <1>1, SnapFacts
<1>3. Behind(x, t, d, snapped)
  <2> HIDE DEF raw, snapped
  <2> QED BY <1>1, <1>2, FurtherIsBehind
<1>4. chosen \in Int /\ Behind(x, t, d, chosen)
  <2> HIDE DEF raw, snapped
  <2> QED BY <1>1, <1>2, <1>3
<1>5. q \in Int /\ 100 * (d * (e - q)) + 50 >= m
  <2> HIDE DEF m, e
  <2> QED BY ONLY <1>0, d \in {1, -1}, m \in Int, Rounding, ZenonT(30)
<1>6. wide \in Int /\ d * (q - wide) >= 0
  <2> HIDE DEF q
  <2> QED BY <1>5, SnapFacts
<1>7. s = IF 100 * (d * (e - chosen)) < m THEN wide ELSE chosen
  <2>1. x.atr \in Int /\ MinStop \in Int
    BY EntryAssumption DEF IsSetting
  <2>2. d * MinStop * x.atr = d * m
    BY <2>1
  <2>3. q = Quantize(100 * Entry(t) - d * MinStop * x.atr, 100)
    BY <2>2
  <2>4. TooTight(x, Risk(t, d, chosen)) <=> 100 * (d * (e - chosen)) < m
    BY DEF TooTight, Risk
  <2> HIDE DEF q, m
  <2> QED BY <2>3, <2>4 DEF ZoneStop
<1>8. Risk(t, d, s) = d * (e - s)
  BY DEF Risk
<1> HIDE DEF chosen, wide, q, m, e, s, raw, snapped
<1>9. CASE 100 * (d * (e - chosen)) < m
  <2>1. s = wide
    BY <1>7, <1>9
  <2>2. 100 * (d * (e - wide)) + 50 >= m
    BY <1>0, <1>5, <1>6
  <2>3. d * (chosen - wide) >= 0
    BY <1>0, <1>4, <1>6, <1>9, <2>2
  <2>4. Behind(x, t, d, wide)
    BY <1>4, <1>6, <2>3, FurtherIsBehind
  <2> QED BY <1>6, <1>8, <2>1, <2>2, <2>4 DEF s, m
<1>10. CASE ~ (100 * (d * (e - chosen)) < m)
  <2>1. s = chosen
    BY <1>7, <1>10
  <2>2. 100 * (d * (e - chosen)) + 50 >= m
    BY <1>0, <1>4, <1>10
  <2> QED BY <1>4, <1>8, <2>1, <2>2 DEF s, m
<1> QED BY <1>9, <1>10

LEMMA SignalFacts ==
    ASSUME NEW x, IsSetting(x), NEW t, NEW d, NEW e \in Signals(x, t, d)
    PROVE  IsEvidence(e) /\ Has(e, "sl")
<1>1. PICK i \in Live(x) : e = x.evidence[i] /\ Has(x.evidence[i], "sl")
  BY DEF Signals
<1>2. i \in DOMAIN x.evidence
  BY DEF Live
<1>3. e \in Range(x.evidence)
  BY <1>1, <1>2 DEF Range
<1> QED BY <1>1, <1>3 DEF IsSetting

LEMMA StopFacts ==
    ASSUME NEW x, IsSetting(x), x.atr # Unmeasured, NEW t, IsBand(t), NEW d \in {1, -1}
    PROVE  /\ Stop(x, t, d) \in Int
           /\ Signals(x, t, d) = {} =>
                /\ Behind(x, t, d, Stop(x, t, d))
                /\ 100 * Risk(t, d, Stop(x, t, d)) + 50 >= MinStop * x.atr
<1>1. CASE Signals(x, t, d) = {}
  BY <1>1, ZoneStopFacts DEF Stop
<1>2. CASE Signals(x, t, d) # {}
  <2> DEFINE e == CHOOSE e \in Signals(x, t, d) : TRUE
             meant == d * (Entry(t) - e.meta.sl)
             risk == IF Has(e, "floor") THEN Max({meant, e.meta.floor}) ELSE meant
  <2>1. e \in Signals(x, t, d)
    BY <1>2
  <2>2. IsEvidence(e) /\ Has(e, "sl")
    <3> HIDE DEF e
    <3> QED BY <2>1, SignalFacts
  <2>3. e.meta.sl \in Int /\ (Has(e, "floor") => e.meta.floor \in Int) /\ Entry(t) \in Int
    BY <2>2, EntryFacts DEF IsEvidence
  <2>4. meant \in Int
    <3> HIDE DEF e
    <3> QED BY <2>3
  <2>5. risk \in Int
    <3>1. CASE Has(e, "floor")
      <4> DEFINE f == e.meta.floor
      <4>1. f \in Int
        BY <2>3, <3>1
      <4>2. Max({meant, f}) \in {meant, f}
        <5> HIDE DEF meant, f
        <5> QED BY <2>4, <4>1, PairExtremes
      <4> HIDE DEF meant, f
      <4> QED BY <2>4, <3>1, <4>1, <4>2 DEF f
    <3>2. CASE ~Has(e, "floor")
      <4> HIDE DEF meant
      <4> QED BY <2>4, <3>2
    <3> QED BY <3>1, <3>2
  <2>6. Stop(x, t, d) = Snap(x, d, Entry(t) - d * risk)
    BY <1>2 DEF Stop, SignalStop
  <2>7. Entry(t) - d * risk \in Int
    <3> HIDE DEF risk
    <3> QED BY <2>3, <2>5
  <2>8. Snap(x, d, Entry(t) - d * risk) \in Int
    <3> DEFINE from == Entry(t) - d * risk
    <3> HIDE DEF from
    <3> QED BY <2>7, SnapFacts DEF from
  <2> QED BY <1>2, <2>6, <2>8
<1> QED BY <1>1, <1>2
-----------------------------------------------------------------------------
(* The zone, the targets and the size.                                     *)

LEMMA TradedZoneFacts ==
    ASSUME NEW x, IsSetting(x), NEW c, IsBand(c) PROVE IsBand(TradedZone(x, c))
<1> DEFINE tighter == {i \in DOMAIN x.levels : LET z == x.levels[i] IN
                           z.state \notin Terminal /\ Overlaps(z, c) /\ Span(z) < Span(c)}
           off(i) == LET n == x.levels[i].lo + x.levels[i].hi - 2 * Last(x.closes)
                     IN  IF n < 0 THEN -n ELSE n
           before(i, j) ==
               \/ Span(x.levels[i]) < Span(x.levels[j])
               \/ /\ Span(x.levels[i]) = Span(x.levels[j])
                  /\ off(i) < off(j) \/ (off(i) = off(j) /\ i <= j)
           k == CHOOSE i \in tighter : \A j \in tighter : before(i, j)
           z == x.levels[k]
<1>1. CASE tighter = {}
  <2>1. TradedZone(x, c) = [lo |-> c.lo, hi |-> c.hi]
    BY <1>1 DEF TradedZone
  <2> QED BY <2>1 DEF IsBand
<1>2. CASE tighter # {}
  <2> DEFINE a == [i \in tighter |-> Span(x.levels[i])]
             b == [i \in tighter |-> off(i)]
             n == [i \in tighter |-> i]
  <2>1. IsFiniteSet(tighter) /\ tighter \subseteq Int
    <3>1. x.levels \in Seq(LevelsOf(x))
      BY DEF IsSetting
    <3> DEFINE D == DOMAIN x.levels
    <3>2. IsFiniteSet(D) /\ tighter \in SUBSET D /\ tighter \subseteq Int
      <4>1. D = 1 .. Len(x.levels) /\ Len(x.levels) \in Nat
        BY <3>1
      <4> QED BY <4>1, FS_Interval
    <3> HIDE DEF D, tighter
    <3> QED BY <3>2, FS_Subset
  <2>2. Last(x.closes) \in Int
    <3>1. x.closes \in Seq(Int) /\ x.closes # <<>>
      BY DEF IsSetting
    <3>2. Len(x.closes) \in DOMAIN x.closes
      BY <3>1
    <3> QED BY <3>1, <3>2 DEF Last
  <2>3. ASSUME NEW i \in tighter PROVE a[i] \in Int /\ b[i] \in Int /\ n[i] \in Int
    <3>1. IsBand(x.levels[i]) /\ i \in Int
      BY <2>1 DEF IsSetting, LevelsOf
    <3>2. x.levels[i].lo \in Int /\ x.levels[i].hi \in Int
      BY <3>1 DEF IsBand
    <3> QED BY <2>2, <3>1, <3>2 DEF Span
  <2>4. \E i \in tighter : \A j \in tighter : Precedes(a, b, n, i, j)
    <3> HIDE DEF tighter, a, b, n
    <3> QED BY <1>2, <2>1, <2>3, FirstExists
  <2>5. \A i, j \in tighter : Precedes(a, b, n, i, j) => before(i, j)
    BY DEF Precedes
  <2>6. \E i \in tighter : \A j \in tighter : before(i, j)
    <3> HIDE DEF a, b, n, before, tighter
    <3> QED BY <2>4, <2>5
  <2>7. k \in tighter
    <3> HIDE DEF before, tighter
    <3> QED BY <2>6
  <2>8. IsBand(z)
    <3>1. k \in DOMAIN x.levels
      BY <2>7
    <3> HIDE DEF k
    <3> QED BY <3>1 DEF IsSetting, LevelsOf
  <2>9. TradedZone(x, c) = [lo |-> z.lo, hi |-> z.hi]
    BY <1>2 DEF TradedZone
  <2> HIDE DEF z
  <2> QED BY <2>8, <2>9 DEF IsBand
<1> QED BY <1>1, <1>2

LEMMA DivBound ==
    ASSUME NEW a \in Nat, NEW b \in Nat \ {0}, NEW q \in Int, q <= a \div b
    PROVE  q * b <= a
<1> DEFINE m == a \div b
<1>1. m \in Int /\ m * b <= a
  OBVIOUS
<1> HIDE DEF m
<1>2. q * b <= m * b
  <2>1. q <= m
    BY DEF m
  <2>2. (m - q) \in Nat
    BY <1>1, <2>1
  <2>3. (m - q) * b >= 0
    BY <2>2
  <2>4. (m - q) * b = m * b - q * b
    BY <1>1
  <2>5. m * b \in Int /\ q * b \in Int
    BY <1>1
  <2> HIDE DEF m
  <2> QED BY <2>3, <2>4, <2>5
<1>3. m * b \in Int /\ q * b \in Int
  BY <1>1
<1> QED BY <1>1, <1>2, <1>3

LEMMA QtyFacts ==
    ASSUME NEW t, IsBand(t), NEW risk \in Nat \ {0}, NEW maxQty \in Int
    PROVE  LET q == Qty(t, risk, maxQty)
           IN  /\ q \in Int /\ q <= maxQty
               /\ q * risk <= RiskBudget /\ q * Entry(t) <= Notional
<1> DEFINE a == RiskBudget \div risk
           b == Notional \div Entry(t)
           S == {maxQty, a, b}
           q == Qty(t, risk, maxQty)
<1>1. RiskBudget \in Nat /\ Notional \in Nat /\ Entry(t) \in Nat \ {0}
  BY EntryAssumption, EntryFacts
<1>2. a \in Int /\ b \in Int
  BY <1>1
<1>3. S \subseteq Int /\ S # {} /\ IsFiniteSet(S)
  <2>1. IsFiniteSet({maxQty}) /\ IsFiniteSet({a}) /\ IsFiniteSet({b})
    BY FS_Singleton
  <2>2. S = {maxQty} \cup ({a} \cup {b})
    OBVIOUS
  <2>3. IsFiniteSet({maxQty} \cup ({a} \cup {b}))
    BY <2>1, FS_Union
  <2> HIDE DEF a, b
  <2> QED BY <1>2, <2>2, <2>3
<1>4. q \in S /\ \A y \in S : q <= y
  <2>1. q = Min(S)
    BY DEF Qty
  <2> HIDE DEF S, q
  <2> QED BY <1>3, <2>1, MinMax
<1>5. q \in Int /\ q <= maxQty /\ q <= a /\ q <= b
  <2> HIDE DEF a, b, q
  <2> QED BY <1>2, <1>4
<1>6. q * risk <= RiskBudget
  <2> HIDE DEF q
  <2> QED BY <1>1, <1>5, DivBound
<1>7. q * Entry(t) <= Notional
  <2> HIDE DEF q
  <2> QED BY <1>1, <1>5, DivBound
<1> QED BY <1>5, <1>6, <1>7
(* The products of _eff_qty: the quantity times its throttles, and the     *)
(* hundreds they are out of.                                               *)
IsProduct(iter, n, base, f) ==
    iter = [T \in SUBSET (1 .. n) |-> IF T = {} THEN base ELSE iter[T \ {Max(T)}] * f[Max(T)]]

LEMMA ProductExists ==
    ASSUME NEW n \in Nat, NEW base \in Nat, NEW f, \A i \in 1 .. n : f[i] \in Nat
    PROVE  \E iter : IsProduct(iter, n, base, f) /\ \A T \in SUBSET (1 .. n) : iter[T] \in Nat
<1> DEFINE D == 1 .. n
           pick == [T \in SUBSET D |-> Max(T)]
           g == [i \in D |-> [v \in Nat |-> v * f[i]]]
<1>1. IsFiniteSet(D)
  BY FS_Interval
<1>2. \A T \in SUBSET D : T # {} => Max(T) \in T
  BY LastPlace
<1>3. \A T \in SUBSET D : T # {} => pick[T] \in T
  BY <1>2
<1>4. \A i \in D : \A v \in Nat : g[i][v] \in Nat
  OBVIOUS
<1>5. PICK iter : IsFold(iter, D, pick, base, g) /\ \A T \in SUBSET D : iter[T] \in Nat
  <2> HIDE DEF D, pick, g
  <2> QED BY <1>1, <1>3, <1>4, FoldExists
<1>6. ASSUME NEW T \in SUBSET D, T # {}
      PROVE  Folded(iter, pick, base, g, T) = iter[T \ {Max(T)}] * f[Max(T)]
  <2>1. Max(T) \in D /\ T \ {Max(T)} \in SUBSET D /\ pick[T] = Max(T)
    BY <1>2, <1>6
  <2>2. iter[T \ {Max(T)}] \in Nat
    BY <1>5, <2>1
  <2> QED BY <1>6, <2>1, <2>2 DEF Folded
<1>7. \A T \in SUBSET D : Folded(iter, pick, base, g, T) =
          IF T = {} THEN base ELSE iter[T \ {Max(T)}] * f[Max(T)]
  BY <1>6 DEF Folded
<1>8. iter = [T \in SUBSET D |-> Folded(iter, pick, base, g, T)]
  BY <1>5 DEF IsFold
<1>9. IsProduct(iter, n, base, f)
  <2> HIDE DEF g, pick
  <2> QED BY <1>7, <1>8 DEF IsProduct
<1> QED BY <1>5, <1>9

LEMMA ScaledProduct ==
    ASSUME NEW a \in Nat, NEW b \in Nat, NEW s \in Nat, NEW most \in Nat,
           s <= 100, a <= most * b
    PROVE  a * s <= most * (b * 100)
<1>1. a * s <= a * 100
  OBVIOUS
<1> DEFINE m == most * b
<1>2. m \in Nat /\ a <= m /\ most * (b * 100) = m * 100
  OBVIOUS
<1>3. a * s \in Nat
  OBVIOUS
<1> HIDE DEF m
<1> QED BY <1>1, <1>2, <1>3

LEMMA ThrottlesFacts ==
    ASSUME NEW x, IsSetting(x)
    PROVE  Throttles(x) \in Seq(Nat \ {0})
<1>1. x.sizes \in Seq(Nat \ {0}) /\ PinSize \in Nat \ {0}
  BY SettingsAssumption DEF IsSetting
<1>2. Append(x.sizes, PinSize) \in Seq(Nat \ {0})
  BY <1>1
<1> QED BY <1>1, <1>2 DEF Throttles

(* No throttle above 100 percent, no more than the quantity.               *)
LEMMA EffQtyFacts ==
    ASSUME NEW x, IsSetting(x)
    PROVE  /\ EffQty(x) \in Nat
           /\ (\A s \in ToSet(Throttles(x)) : s <= 100) => EffQty(x) <= MaxQty
<1> DEFINE sizes == Throttles(x)
           n == Len(sizes)
           D == 1 .. n
           hundreds == [i \in D |-> 100]
           shares == FoldLeft(LAMBDA q, s : q * s, MaxQty, sizes)
           whole  == FoldLeft(LAMBDA q, s : q * 100, 1, sizes)
           e == EffQty(x)
<1>1. n \in Nat /\ D = DOMAIN sizes /\ \A i \in D : sizes[i] \in Nat \ {0}
  BY ThrottlesFacts
<1>2. MaxQty \in Nat
  BY SettingsAssumption
<1>3. \A T \in SUBSET D : T # {} => Max(T) \in T
  <2> HIDE DEF n
  <2> QED BY <1>1, LastPlace
<1>4. \E iter : IsProduct(iter, n, MaxQty, sizes)
  <2> HIDE DEF n, sizes
  <2> QED BY <1>1, <1>2, ProductExists
<1>5. \E iter : IsProduct(iter, n, 1, hundreds)
  <2> HIDE DEF n
  <2>1. \A i \in D : hundreds[i] \in Nat
    OBVIOUS
  <2> HIDE DEF hundreds
  <2> QED BY <1>1, <2>1, ProductExists
<1>6. \E iter : IsProduct(iter, n, MaxQty, sizes) /\ shares = iter[D]
  <2> HIDE DEF sizes, n
  <2> QED BY <1>1, <1>4 DEF IsProduct, FoldLeft, MapThenFoldSet
<1>7. \E iter : IsProduct(iter, n, 1, hundreds) /\ whole = iter[D]
  <2> DEFINE Out(iter, T) == IF T = {} THEN 1 ELSE iter[T \ {Max(T)}] * hundreds[Max(T)]
             Hundredfold(iter, T) == IF T = {} THEN 1 ELSE iter[T \ {Max(T)}] * 100
  <2>1. ASSUME NEW iter, NEW T \in SUBSET D PROVE Out(iter, T) = Hundredfold(iter, T)
    <3>1. CASE T = {}
      BY <3>1
    <3>2. CASE T # {}
      <4>1. hundreds[Max(T)] = 100
        BY <1>3, <3>2
      <4> HIDE DEF hundreds
      <4> QED BY <4>1
    <3> QED BY <3>1, <3>2
  <2>2. ASSUME NEW iter
        PROVE  [T \in SUBSET D |-> Out(iter, T)] = [T \in SUBSET D |-> Hundredfold(iter, T)]
    <3> HIDE DEF Out, Hundredfold
    <3> QED BY <2>1
  <2>3. \E iter : iter = [T \in SUBSET D |-> IF T = {} THEN 1 ELSE iter[T \ {Max(T)}] * 100]
    <3>1. PICK iter : IsProduct(iter, n, 1, hundreds)
      BY <1>5
    <3>2. iter = [T \in SUBSET D |-> Out(iter, T)]
      <4> HIDE DEF hundreds
      <4> QED BY <3>1 DEF IsProduct
    <3>3. iter = [T \in SUBSET D |-> Hundredfold(iter, T)]
      <4> HIDE DEF Out, Hundredfold
      <4> QED BY <2>2, <3>2
    <3> QED BY <3>3
  <2>4. \E iter : /\ iter = [T \in SUBSET D |-> IF T = {} THEN 1 ELSE iter[T \ {Max(T)}] * 100]
                  /\ whole = iter[D]
    <3> HIDE DEF sizes, n
    <3> QED BY <1>1, <2>3 DEF FoldLeft, MapThenFoldSet
  <2>5. ASSUME NEW iter, iter = [T \in SUBSET D |-> Hundredfold(iter, T)]
        PROVE  IsProduct(iter, n, 1, hundreds)
    <3>1. iter = [T \in SUBSET D |-> Out(iter, T)]
      <4> HIDE DEF Out, Hundredfold
      <4> QED BY <2>2, <2>5
    <3> HIDE DEF hundreds
    <3> QED BY <3>1 DEF IsProduct
  <2> QED BY <2>4, <2>5
<1>8. PICK p : IsProduct(p, n, MaxQty, sizes) /\ shares = p[D]
  BY <1>6
<1>9. PICK h : IsProduct(h, n, 1, hundreds) /\ whole = h[D]
  BY <1>7
<1> DEFINE Low == \A i \in D : sizes[i] <= 100
           Good(T) == /\ p[T] \in Nat /\ h[T] \in Nat \ {0}
                      /\ Low => p[T] <= MaxQty * h[T]
           Bad == {T \in SUBSET D : ~Good(T)}
<1>10. ASSUME Bad # {} PROVE FALSE
  <2>0. Bad \subseteq SUBSET D /\ IsFiniteSet(D)
    BY <1>1, FS_Interval
  <2>1. PICK T \in Bad : \A U \in SUBSET T : U # T => U \notin Bad
    <3> HIDE DEF Bad, D
    <3> QED BY <1>10, <2>0, SmallestSubset
  <2>2. CASE T = {}
    <3>1. p[T] = MaxQty /\ h[T] = 1
      BY <1>8, <1>9, <2>1, <2>2 DEF IsProduct
    <3> QED BY <1>2, <2>1, <3>1
  <2>3. CASE T # {}
    <3> DEFINE m == Max(T)
               U == T \ {m}
    <3>1. m \in T /\ m \in D /\ U \in SUBSET T /\ U # T /\ U \in SUBSET D
      BY <1>3, <2>1, <2>3
    <3>2. Good(U)
      BY <2>1, <3>1
    <3>3. p[T] = p[U] * sizes[m]
      BY <1>8, <2>1, <2>3 DEF IsProduct
    <3>4. h[T] = h[U] * hundreds[m]
      BY <1>9, <2>1, <2>3 DEF IsProduct
    <3>5. h[T] = h[U] * 100
      BY <3>1, <3>4
    <3>6. sizes[m] \in Nat
      BY <1>1, <3>1
    <3> HIDE DEF m, U, sizes
    <3>7. p[U] \in Nat /\ h[U] \in Nat \ {0}
      BY <3>2
    <3>8. p[T] \in Nat /\ h[T] \in Nat \ {0}
      BY <3>3, <3>5, <3>6, <3>7
    <3>9. ASSUME Low PROVE p[T] <= MaxQty * h[T]
      <4>1. sizes[m] <= 100 /\ p[U] <= MaxQty * h[U]
        BY <3>1, <3>2, <3>9
      <4>2. p[U] * sizes[m] <= MaxQty * (h[U] * 100)
        BY <1>2, <3>6, <3>7, <4>1, ScaledProduct
      <4> QED BY <3>3, <3>5, <4>2
    <3> QED BY <2>1, <3>8, <3>9
  <2> QED BY <2>2, <2>3
<1>11. Good(D)
  <2>1. D \in SUBSET D
    OBVIOUS
  <2> QED BY <1>10, <2>1
<1>12. e = IF shares > 0 THEN Max({1, shares \div whole}) ELSE 0
  BY DEF EffQty
<1>13. (\A s \in ToSet(sizes) : s <= 100) => Low
  BY <1>1 DEF ToSet
<1> DEFINE a == p[D]
           b == h[D]
           v == a \div b
<1>14. a \in Nat /\ b \in Nat \ {0} /\ (Low => a <= MaxQty * b)
  BY <1>11
<1>15. e = IF a > 0 THEN Max({1, v}) ELSE 0
  BY <1>8, <1>9, <1>12
<1> HIDE DEF a, b, e, Low
<1>16. v \in Nat /\ (a <= MaxQty * b => v <= MaxQty)
  BY <1>2, <1>14
<1>17. (a > 0 /\ a <= MaxQty * b) => MaxQty >= 1
  BY <1>2, <1>14
<1> HIDE DEF v
<1>18. Max({1, v}) \in {1, v}
  <2>1. v \in Int /\ 1 \in Int
    BY <1>16
  <2> QED BY <2>1, PairExtremes
<1>19. e \in Nat /\ (Low => e <= MaxQty)
  BY <1>2, <1>14, <1>15, <1>16, <1>17, <1>18
<1> QED BY <1>13, <1>19 DEF e
LEMMA LiveFacts ==
    ASSUME NEW x, IsSetting(x)
    PROVE  /\ IsFiniteSet(Live(x)) /\ Live(x) \subseteq Nat
           /\ \A i \in Live(x) : IsEvidence(x.evidence[i])
           /\ IsFiniteSet(LiveOf(x)) /\ \A e \in LiveOf(x) : IsEvidence(e)
<1> DEFINE D == DOMAIN x.evidence
           L == Live(x)
           f == x.evidence
<1>1. x.evidence \in Seq(Range(x.evidence)) /\ \A e \in Range(x.evidence) : IsEvidence(e)
  BY DEF IsSetting
<1>2. IsFiniteSet(D) /\ D \subseteq Nat
  <2>1. D = 1 .. Len(x.evidence) /\ Len(x.evidence) \in Nat
    BY <1>1
  <2> QED BY <2>1, FS_Interval
<1>3. L \in SUBSET D
  BY DEF Live
<1>4. IsFiniteSet(L)
  <2> HIDE DEF D, L
  <2> QED BY <1>2, <1>3, FS_Subset
<1>5. \A i \in L : IsEvidence(x.evidence[i])
  BY <1>1, <1>3 DEF Range
<1>6. IsFiniteSet({f[i] : i \in L})
  <2> HIDE DEF f, L
  <2> QED BY <1>4, ImageIsFinite
<1>7. LiveOf(x) = {f[i] : i \in L}
  BY DEF LiveOf
<1> QED BY <1>2, <1>3, <1>4, <1>5, <1>6, <1>7

LEMMA MappedFacts ==
    ASSUME NEW x, IsSetting(x), NEW t, NEW d
    PROVE  IsFiniteSet(MappedR(Signals(x, t, d))) /\ MappedR(Signals(x, t, d)) \subseteq Nat \ {0}
<1> DEFINE sigs == Signals(x, t, d)
           heard == {s \in sigs : s.detector \in DOMAIN TargetR}
           f == [e \in heard |-> TargetR[e.detector]]
           M == MappedR(sigs)
<1>1. sigs \subseteq LiveOf(x)
  BY DEF Signals, LiveOf
<1>2. IsFiniteSet(heard)
  <2> DEFINE L == LiveOf(x)
  <2>1. heard \in SUBSET L
    BY <1>1
  <2> HIDE DEF heard, L
  <2> QED BY <2>1, LiveFacts, FS_Subset DEF L
<1>3. IsFiniteSet({f[e] : e \in heard})
  <2> HIDE DEF f, heard
  <2> QED BY <1>2, ImageIsFinite
<1>4. M = {f[e] : e \in heard}
  <2>1. \A e \in heard : f[e] = TargetR[e.detector]
    OBVIOUS
  <2>2. M = {TargetR[e.detector] : e \in heard}
    BY DEF MappedR
  <2> HIDE DEF f, heard
  <2> QED BY <2>1, <2>2
<1>5. M \subseteq Nat \ {0}
  <2> HIDE DEF sigs
  <2> QED BY EntryAssumption DEF MappedR
<1> QED BY <1>3, <1>4, <1>5

LEMMA AheadFacts ==
    ASSUME NEW t, IsBand(t), NEW d \in {1, -1}, NEW S, IsFiniteSet(S), \A z \in S : IsBand(z)
    PROVE  IsFiniteSet(Ahead(t, d, S)) /\ Ahead(t, d, S) \subseteq Nat \ {0}
<1> DEFINE f == [z \in S |-> d * (Far(d, z) - Entry(t))]
           F == {f[z] : z \in S}
<1>1. IsFiniteSet(F)
  <2> HIDE DEF f
  <2> QED BY ImageIsFinite
<1>2. F = {d * (Far(d, z) - Entry(t)) : z \in S}
  OBVIOUS
<1>3. F \subseteq Int
  <2>1. ASSUME NEW z \in S PROVE d * (Far(d, z) - Entry(t)) \in Int
    <3>1. Far(d, z) \in Int /\ Entry(t) \in Int
      BY BandIsInt, EntryFacts
    <3> QED BY <3>1
  <2> QED BY <1>2, <2>1
<1>4. Ahead(t, d, S) = {n \in F : n > 0}
  BY DEF Ahead
<1> HIDE DEF F
<1>5. Ahead(t, d, S) \subseteq F
  BY <1>4
<1>6. ASSUME NEW n \in Ahead(t, d, S) PROVE n \in Nat \ {0}
  <2>1. n \in Int /\ n > 0
    BY <1>3, <1>4
  <2> QED BY <2>1
<1> QED BY <1>1, <1>5, <1>6, FS_Subset

LEMMA NearestFacts ==
    ASSUME NEW S, S \subseteq Int, IsFiniteSet(S), NEW n \in Int
    PROVE  NearestOr(S, n) \in Int
<1>1. CASE S = {}
  BY <1>1 DEF NearestOr
<1>2. CASE S # {}
  <2>1. Min(S) \in S
    BY <1>2, MinMax
  <2> QED BY <1>2, <2>1 DEF NearestOr
<1> QED BY <1>1, <1>2

LEMMA AwayIsInt ==
    ASSUME NEW t, IsBand(t), NEW d \in {1, -1}, NEW n \in Int PROVE Away(t, d, n) \in Int
<1> DEFINE e == Entry(t)
           k == 10 * e + d * n
<1>1. e \in Int
  BY EntryFacts
<1>2. k \in Int
  <2> HIDE DEF e
  <2> QED BY <1>1
<1>3. Quantize(k, 10) \in Int
  <2> HIDE DEF k
  <2> QED BY <1>2 DEF Quantize
<1>4. Away(t, d, n) = d * (Quantize(k, 10) - e)
  BY DEF Away, Tenths
<1> HIDE DEF k, e
<1> QED BY <1>1, <1>3, <1>4

(* Targets of a list in ascending order, the later ones at will.           *)
Ascends(s, first) ==
    /\ Len(s) \in 1 .. 3 /\ s[1] = first
    /\ \A i \in 1 .. Len(s) - 1 : s[i] < s[i + 1]

LEMMA Joined ==
    ASSUME NEW a \in Int, NEW b \in Int, NEW c \in Int
    PROVE  /\ <<a>> \o <<b>> \o <<c>> = <<a, b, c>> /\ <<a>> \o <<b>> \o <<>> = <<a, b>>
           /\ <<a>> \o <<>> \o <<c>> = <<a, c>>      /\ <<a>> \o <<>> \o <<>> = <<a>>
<1>1. <<a>> \in Seq(Int) /\ <<a, b>> \in Seq(Int)
  OBVIOUS
<1>2. <<a>> \o <<>> = <<a>> /\ <<a, b>> \o <<>> = <<a, b>>
  BY <1>1, ConcatEmptySeq
<1>3. /\ <<a>> \o <<b>> = Append(<<a>>, b) /\ <<a>> \o <<c>> = Append(<<a>>, c)
      /\ <<a, b>> \o <<c>> = Append(<<a, b>>, c)
  BY <1>1, AppendIsConcat
<1>4. ASSUME NEW u \in Int PROVE Append(<<a>>, u) = <<a, u>>
  <2>1. Append(<<a>>, u) \in Seq(Int) /\ <<a, u>> \in Seq(Int)
    BY <1>1
  <2>2. Len(Append(<<a>>, u)) = 2 /\ Append(<<a>>, u)[1] = a /\ Append(<<a>>, u)[2] = u
    BY <1>1
  <2>3. \A i \in 1 .. 2 : Append(<<a>>, u)[i] = <<a, u>>[i]
    BY <2>2
  <2> QED BY <2>1, <2>2, <2>3, SeqEqual
<1>5. Append(<<a, b>>, c) = <<a, b, c>>
  <2>1. Append(<<a, b>>, c) \in Seq(Int) /\ <<a, b, c>> \in Seq(Int)
    BY <1>1
  <2>2. /\ Len(Append(<<a, b>>, c)) = 3
        /\ Append(<<a, b>>, c)[1] = a /\ Append(<<a, b>>, c)[2] = b /\ Append(<<a, b>>, c)[3] = c
    BY <1>1
  <2>3. \A i \in 1 .. 3 : Append(<<a, b>>, c)[i] = <<a, b, c>>[i]
    BY <2>2
  <2> QED BY <2>1, <2>2, <2>3, SeqEqual
<1> QED BY <1>2, <1>3, <1>4, <1>5, Zenon

LEMMA ListAscends ==
    ASSUME NEW a \in Int, NEW b \in Int, NEW c \in Int
    PROVE  Ascends(<<a>> \o (IF b > a THEN <<b>> ELSE <<>>)
                         \o (IF c > Max({a, b}) THEN <<c>> ELSE <<>>), a)
<1> DEFINE m == Max({a, b})
<1>1. m \in Int /\ m >= a /\ m >= b
  BY PairExtremes
<1> HIDE DEF m
<1>2. CASE b > a /\ c > m
  <2>1. <<a>> \o <<b>> \o <<c>> = <<a, b, c>>
    BY Joined
  <2>2. a < b /\ b < c
    BY <1>1, <1>2
  <2> QED BY <1>2, <2>1, <2>2 DEF Ascends, m
<1>3. CASE b > a /\ ~(c > m)
  <2>1. <<a>> \o <<b>> \o <<>> = <<a, b>>
    BY Joined
  <2> QED BY <1>3, <2>1 DEF Ascends, m
<1>4. CASE ~(b > a) /\ c > m
  <2>1. <<a>> \o <<>> \o <<c>> = <<a, c>>
    BY Joined
  <2>2. a < c
    BY <1>1, <1>4
  <2> QED BY <1>4, <2>1, <2>2 DEF Ascends, m
<1>5. CASE ~(b > a) /\ ~(c > m)
  <2>1. <<a>> \o <<>> \o <<>> = <<a>>
    BY Joined
  <2> QED BY <1>5, <2>1 DEF Ascends, m
<1> QED BY <1>2, <1>3, <1>4, <1>5
LEMMA PoolsFacts ==
    ASSUME NEW x, IsSetting(x), NEW opps, IsFiniteSet(opps), \A z \in opps : IsBand(z)
    PROVE  /\ IsFiniteSet(Pools(x, opps)) /\ \A z \in Pools(x, opps) : IsBand(z)
           /\ IsFiniteSet(External(x)) /\ \A z \in External(x) : IsBand(z)
<1> DEFINE L == LevelsOf(x)
           P == {z \in L : z.state \in {"ACTIVE", "TESTED"}}
<1>1. IsFiniteSet(L) /\ \A z \in L : IsBand(z)
  BY LevelsAreBands
<1>2. P \subseteq L /\ External(x) \subseteq L /\ Pools(x, opps) = P \cup opps
  BY DEF External, Pools
<1> HIDE DEF L, P
<1>3. IsFiniteSet(P) /\ IsFiniteSet(External(x))
  BY <1>1, <1>2, FS_Subset
<1>4. IsFiniteSet(P \cup opps)
  BY <1>3, FS_Union
<1> QED BY <1>1, <1>2, <1>3, <1>4

LEMMA PartOfNaturals ==
    ASSUME NEW A, IsFiniteSet(A), A \subseteq Nat \ {0}, NEW R, R \subseteq A
    PROVE  IsFiniteSet(R) /\ R \subseteq Int
<1>1. IsFiniteSet(R)
  BY FS_Subset
<1>2. ASSUME NEW n \in R PROVE n \in Int
  <2>1. n \in A
    OBVIOUS
  <2> QED BY <2>1
<1> QED BY <1>1, <1>2

(* The first target leaves room for the R the trade is meant to leave at.  *)
LEMMA RoomFacts ==
    ASSUME NEW M, IsFiniteSet(M), M \subseteq Nat \ {0}, NEW risk \in Nat \ {0}, NEW f \in Int,
           10 * f >= Max({15} \cup M) * risk
    PROVE  /\ 10 * f >= 15 * risk
           /\ M # {} => (Max(M) * risk + 9) \div 10 <= f
<1> DEFINE S == {15} \cup M
           m == Max(S)
           a == Max(M)
<1>1. IsFiniteSet({15})
  BY FS_Singleton
<1>0. IsFiniteSet(M) /\ M \subseteq Int
  BY PartOfNaturals
<1>2. IsFiniteSet(S) /\ S \subseteq Int /\ S # {}
  <2>1. IsFiniteSet(S)
    BY <1>0, <1>1, FS_Union
  <2>2. S \subseteq Int /\ S # {}
    BY <1>0
  <2> QED BY <2>1, <2>2
<1>3. m \in S /\ \A y \in S : m >= y
  <2> HIDE DEF S
  <2> QED BY <1>2, MinMax
<1>4. m \in Int /\ m >= 15
  <2> HIDE DEF m
  <2> QED BY <1>2, <1>3
<1>5. ASSUME NEW k \in Int, k <= m PROVE k * risk <= m * risk
  <2> HIDE DEF m
  <2>1. (m - k) * risk >= 0
    BY <1>4, <1>5
  <2>2. (m - k) * risk = m * risk - k * risk /\ m * risk \in Int /\ k * risk \in Int
    BY <1>4, <1>5
  <2> QED BY <2>1, <2>2
<1>6. 15 * risk <= m * risk /\ m * risk \in Int /\ 15 * risk \in Int
  <2> HIDE DEF m
  <2> QED BY <1>4, <1>5
<1>7. 10 * f >= m * risk
  OBVIOUS
<1>8. ASSUME M # {} PROVE (a * risk + 9) \div 10 <= f
  <2>1. a \in M
    BY <1>0, <1>8, MinMax
  <2>2. a \in S /\ a \in Int
    <3> HIDE DEF a
    <3> QED BY <1>0, <2>1
  <2>3. a <= m
    <3> HIDE DEF a, m, S
    <3> QED BY <1>3, <1>4, <2>2
  <2> DEFINE n == a * risk
  <2>4. n <= m * risk /\ n \in Int
    <3> HIDE DEF a, m
    <3> QED BY <1>5, <2>2, <2>3
  <2>5. 10 * f >= n
    <3> HIDE DEF n
    <3> QED BY <1>6, <1>7, <2>4
  <2> HIDE DEF n
  <2>6. (n + 9) \div 10 <= f
    BY <2>4, <2>5
  <2> QED BY <2>6 DEF n
<1>9. 10 * f >= 15 * risk
  <2> HIDE DEF m
  <2> QED BY <1>6, <1>7
<1> QED BY <1>8, <1>9

LEMMA TargetsFacts ==
    ASSUME NEW x, IsSetting(x), NEW t, IsBand(t), NEW c, NEW d \in {1, -1},
           NEW risk \in Nat \ {0}, NEW sigs,
           IsFiniteSet(MappedR(sigs)), MappedR(sigs) \subseteq Nat \ {0},
           NEW opps, IsFiniteSet(opps), \A z \in opps : IsBand(z),
           Roomy(x, t, d, risk, sigs, opps) # {}
    PROVE  LET t1 == Min(Roomy(x, t, d, risk, sigs, opps))
           IN  /\ Ascends(Targets(x, t, c, d, risk, sigs, opps), t1)
               /\ t1 \in Nat /\ 10 * t1 >= 15 * risk
               /\ MappedR(sigs) # {} => (Max(MappedR(sigs)) * risk + 9) \div 10 <= t1
<1> DEFINE R == Roomy(x, t, d, risk, sigs, opps)
           A == Ahead(t, d, Pools(x, opps))
           X == Ahead(t, d, External(x))
           t1 == Min(R)
           next == {f \in A : f > t1}
           t2 == NearestOr(next, Away(t, d, 25 * risk))
           outer == {f \in X : f > t2}
           far == NearestOr(outer, Away(t, d, 40 * risk))
           L == {s \in LiveOf(x) : Has(s, "energy") /\ Overlaps(s, c)}
           energy == [e \in L |-> e.meta.energy]
           N == {energy[e] : e \in L}
           E == {far} \cup N
           t3 == Min(E)
<1>1. IsFiniteSet(A) /\ A \subseteq Nat \ {0} /\ IsFiniteSet(X) /\ X \subseteq Nat \ {0}
  BY PoolsFacts, AheadFacts
<1>2. t1 \in R
  <2>1. R \subseteq A
    BY DEF Roomy
  <2>2. R \subseteq Int /\ IsFiniteSet(R)
    <3> HIDE DEF R, A
    <3> QED BY <1>1, <2>1, PartOfNaturals
  <2> HIDE DEF R
  <2> QED BY <2>2, MinMax DEF R
<1>3. t1 \in A /\ t1 \in Nat /\ 10 * t1 >= Max({15} \cup MappedR(sigs)) * risk
  <2> HIDE DEF t1, A
  <2>1. t1 \in A /\ 10 * t1 >= Max({15} \cup MappedR(sigs)) * risk
    BY <1>2 DEF Roomy, RoomNeeded, Tenths, A
  <2> QED BY <1>1, <2>1
<1>4. /\ 10 * t1 >= 15 * risk
      /\ MappedR(sigs) # {} => (Max(MappedR(sigs)) * risk + 9) \div 10 <= t1
  <2> DEFINE M == MappedR(sigs)
  <2>1. IsFiniteSet(M) /\ M \subseteq Nat \ {0} /\ 10 * t1 >= Max({15} \cup M) * risk /\ t1 \in Int
    BY <1>3
  <2> HIDE DEF M, t1
  <2>2. 10 * t1 >= 15 * risk /\ (M # {} => (Max(M) * risk + 9) \div 10 <= t1)
    BY <2>1, RoomFacts
  <2> QED BY <2>2 DEF M
<1>5. t2 \in Int
  <2>1. IsFiniteSet(next) /\ next \subseteq Int
    <3>1. next \subseteq A
      OBVIOUS
    <3> HIDE DEF next, A
    <3> QED BY <1>1, <3>1, PartOfNaturals
  <2>2. Away(t, d, 25 * risk) \in Int
    <3>1. 25 * risk \in Int
      OBVIOUS
    <3> QED BY <3>1, AwayIsInt
  <2> HIDE DEF next
  <2> QED BY <2>1, <2>2, NearestFacts
<1>6. far \in Int
  <2>1. IsFiniteSet(outer) /\ outer \subseteq Int
    <3>1. outer \subseteq X
      OBVIOUS
    <3> HIDE DEF outer, X
    <3> QED BY <1>1, <3>1, PartOfNaturals
  <2>2. Away(t, d, 40 * risk) \in Int
    <3>1. 40 * risk \in Int
      OBVIOUS
    <3> QED BY <3>1, AwayIsInt
  <2> HIDE DEF outer
  <2> QED BY <2>1, <2>2, NearestFacts
<1>7. t3 \in Int
  <2>1. IsFiniteSet(L) /\ \A e \in L : IsEvidence(e) /\ Has(e, "energy")
    <3>1. L \subseteq LiveOf(x)
      OBVIOUS
    <3> QED BY <3>1, LiveFacts, FS_Subset
  <2>2. IsFiniteSet(N)
    <3> HIDE DEF energy, L
    <3> QED BY <2>1, ImageIsFinite
  <2>3. N \subseteq Int
    <3>1. \A e \in L : energy[e] \in Int
      BY <2>1 DEF IsEvidence
    <3> HIDE DEF energy, L
    <3> QED BY <3>1
  <2>4. IsFiniteSet({far})
    BY FS_Singleton
  <2>5. IsFiniteSet(E) /\ E \subseteq Int /\ E # {}
    <3> HIDE DEF far, N
    <3> QED BY <1>6, <2>2, <2>3, <2>4, FS_Union
  <2> HIDE DEF E
  <2> QED BY <2>5, MinMax
<1>8. Targets(x, t, c, d, risk, sigs, opps) =
          <<t1>> \o (IF t2 > t1 THEN <<t2>> ELSE <<>>)
                 \o (IF t3 > Max({t1, t2}) THEN <<t3>> ELSE <<>>)
  <2>1. N = {e.meta.energy : e \in L}
    OBVIOUS
  <2> QED BY <2>1 DEF Targets
<1>9. Ascends(Targets(x, t, c, d, risk, sigs, opps), t1)
  <2> HIDE DEF t1, t2, t3
  <2>1. t1 \in Int
    BY <1>3
  <2>2. Ascends(<<t1>> \o (IF t2 > t1 THEN <<t2>> ELSE <<>>)
                       \o (IF t3 > Max({t1, t2}) THEN <<t3>> ELSE <<>>), t1)
    BY <1>5, <1>7, <2>1, ListAscends
  <2> QED BY <1>8, <2>2, Zenon
<1> QED BY <1>3, <1>4, <1>9
-----------------------------------------------------------------------------
(* A plan that arm does not refuse is sound.                               *)

SoundStop(x, p) ==
    /\ p.risk > 0 /\ p.stop = p.entry - p.dir * p.risk /\ ~TooWide(x, p.risk)
    /\ p.signal = {} =>
         100 * p.risk + 50 >= MinStop * x.atr /\ Behind(x, p.zone, p.dir, p.stop)
SoundTargets(p) ==
    /\ Ascends(p.targets, p.targets[1]) /\ 10 * p.targets[1] >= 15 * p.risk
    /\ MappedR(p.signal) # {} => (Max(MappedR(p.signal)) * p.risk + 9) \div 10 <= p.targets[1]
SoundQty(p, maxQty) ==
    p.qty \in 1 .. maxQty /\ p.qty * p.risk <= RiskBudget /\ p.qty * p.entry <= Notional

Passes(x, c, maxQty, opps) == Arm(x, c, maxQty, opps) = ""

LEMMA ArmedPlanIsSound ==
    ASSUME NEW x, IsSetting(x), NEW c, IsBand(c), c.dir \in {1, -1},
           NEW opps, IsFiniteSet(opps), \A z \in opps : IsBand(z),
           NEW maxQty \in Nat, Passes(x, c, maxQty, opps)
    PROVE  LET p == PlanOf(x, c, maxQty, opps)
           IN  SoundStop(x, p) /\ SoundTargets(p) /\ SoundQty(p, maxQty)
<1> DEFINE t == TradedZone(x, c)
           d == c.dir
           sigs == Signals(x, t, d)
           s == Stop(x, t, d)
           risk == Risk(t, d, s)
           qty == Qty(t, risk, maxQty)
           list == Targets(x, t, c, d, risk, sigs, opps)
           p == PlanOf(x, c, maxQty, opps)
<1>1. p = [zone |-> t, dir |-> d, entry |-> Entry(t), stop |-> s, risk |-> risk,
           signal |-> sigs, targets |-> list, qty |-> qty]
  BY DEF PlanOf
<1>2. /\ x.atr # Unmeasured /\ ~(risk <= 0) /\ ~TooWide(x, risk)
      /\ Roomy(x, t, d, risk, sigs, opps) # {} /\ ~(qty <= 0)
  <2> DEFINE narrow == sigs = {} /\ TooWide(x, Risk(t, d, Unsnapped(x, t, d)))
             dear == CostsDominate(t, list[1], risk, sigs, qty)
  <2>1. (IF x.atr = Unmeasured THEN "no_atr"
         ELSE IF TooFar(x, t) THEN "too_far"
         ELSE IF narrow THEN "stop_too_wide"
         ELSE IF risk <= 0 THEN "no_risk"
         ELSE IF TooWide(x, risk) THEN "stop_too_wide"
         ELSE IF Roomy(x, t, d, risk, sigs, opps) = {} THEN "no_room"
         ELSE IF qty <= 0 THEN "qty_zero"
         ELSE IF dear THEN "costs_dominate" ELSE "") = ""
    BY Zenon DEF Passes, Arm
  <2> HIDE DEF t, d, sigs, s, risk, qty, list, p, narrow, dear
  <2> QED BY <2>1, Zenon
<1>3. IsBand(t) /\ d \in {1, -1}
  BY TradedZoneFacts
<1>4. Entry(t) \in Nat \ {0}
  BY <1>3, EntryFacts
<1>5. /\ s \in Int
      /\ sigs = {} => Behind(x, t, d, s) /\ 100 * risk + 50 >= MinStop * x.atr
  <2> HIDE DEF t, d
  <2> QED BY <1>2, <1>3, StopFacts
<1>6. risk = d * (Entry(t) - s)
  BY DEF Risk
<1>7. IsFiniteSet(MappedR(sigs)) /\ MappedR(sigs) \subseteq Nat \ {0}
  <2> HIDE DEF t, d
  <2> QED BY MappedFacts
<1> HIDE DEF t, d, sigs, s, risk, list, p, qty
<1>8. risk \in Nat \ {0} /\ s = Entry(t) - d * risk
  <2> DEFINE e == Entry(t)
  <2>1. e \in Int /\ s \in Int /\ risk = d * (e - s) /\ ~(risk <= 0)
    BY <1>2, <1>4, <1>5, <1>6
  <2> HIDE DEF e
  <2>2. risk \in Nat \ {0} /\ s = e - d * risk
    <3>1. CASE d = 1
      BY <2>1, <3>1
    <3>2. CASE d = -1
      BY <2>1, <3>2
    <3> QED BY <1>3, <3>1, <3>2
  <2> QED BY <2>2 DEF e
<1>9. SoundStop(x, p)
  <2>1. /\ p.risk = risk /\ p.stop = s /\ p.entry = Entry(t) /\ p.dir = d
        /\ p.zone = t /\ p.signal = sigs
    BY <1>1
  <2>2. risk > 0
    BY <1>8
  <2> QED BY <1>2, <1>5, <1>8, <2>1, <2>2, Zenon DEF SoundStop
<1>10. SoundTargets(p)
  <2> DEFINE t1 == Min(Roomy(x, t, d, risk, sigs, opps))
             l == Targets(x, t, c, d, risk, sigs, opps)
  <2>1. Ascends(l, t1) /\ t1 \in Nat /\ 10 * t1 >= 15 * risk
    BY <1>2, <1>3, <1>7, <1>8, TargetsFacts
  <2>2. MappedR(sigs) # {} => (Max(MappedR(sigs)) * risk + 9) \div 10 <= t1
    BY <1>2, <1>3, <1>7, <1>8, TargetsFacts
  <2>3. list = l
    BY DEF list, sigs, risk, s, t, d
  <2> HIDE DEF t1, l
  <2>4. list[1] = t1
    BY <2>1, <2>3 DEF Ascends
  <2> QED BY <1>1, <2>1, <2>2, <2>3, <2>4 DEF SoundTargets
<1>11. SoundQty(p, maxQty)
  <2> DEFINE q == Qty(t, risk, maxQty)
  <2>0. maxQty \in Int
    OBVIOUS
  <2>1. q \in Int /\ q <= maxQty /\ q * risk <= RiskBudget /\ q * Entry(t) <= Notional
    BY <1>3, <1>8, <2>0, QtyFacts
  <2>2. qty = q /\ ~(q <= 0)
    BY <1>2 DEF qty
  <2> HIDE DEF q, qty
  <2>3. q \in 1 .. maxQty
    BY <2>1, <2>2
  <2> QED BY <1>1, <2>1, <2>2, <2>3 DEF SoundQty
<1> QED BY <1>9, <1>10, <1>11 DEF p
-----------------------------------------------------------------------------
(* The clusters, as a fold that exists.                                    *)

LEMMA UppermostFacts ==
    ASSUME NEW x, IsSetting(x), NEW T, T \subseteq Live(x), T # {}
    PROVE  Uppermost(x, T) \in T /\ \A j \in T : Before(x, j, Uppermost(x, T))
<1> DEFINE a == [i \in T |-> -x.evidence[i].lo]
           b == [i \in T |-> -x.evidence[i].hi]
           n == [i \in T |-> -i]
<1>1. IsFiniteSet(T)
  <2> DEFINE L == Live(x)
  <2>1. IsFiniteSet(L) /\ T \subseteq L
    BY LiveFacts
  <2> HIDE DEF L
  <2> QED BY <2>1, FS_Subset
<1>2. ASSUME NEW i \in T
      PROVE  i \in Int /\ x.evidence[i].lo \in Int /\ x.evidence[i].hi \in Int
  <2>1. IsEvidence(x.evidence[i]) /\ i \in Nat
    BY LiveFacts
  <2> QED BY <2>1 DEF IsEvidence, IsBand
<1>3. \A i \in T : a[i] \in Int /\ b[i] \in Int /\ n[i] \in Int
  BY <1>2
<1>4. \E i \in T : \A j \in T : Precedes(a, b, n, i, j)
  <2> HIDE DEF a, b, n
  <2> QED BY <1>1, <1>3, FirstExists
<1>5. ASSUME NEW i \in T, NEW j \in T, Precedes(a, b, n, i, j) PROVE Before(x, j, i)
  <2>1. /\ a[i] = -x.evidence[i].lo /\ b[i] = -x.evidence[i].hi /\ n[i] = -i
        /\ a[j] = -x.evidence[j].lo /\ b[j] = -x.evidence[j].hi /\ n[j] = -j
    OBVIOUS
  <2> HIDE DEF a, b, n
  <2> QED BY <1>2, <1>5, <2>1 DEF Precedes, Before
<1>6. \E i \in T : \A j \in T : Before(x, j, i)
  <2> HIDE DEF a, b, n
  <2> QED BY <1>4, <1>5
<1> QED BY <1>6 DEF Uppermost

Cluster(x) ==
    {c \in [lo : Nat \ {0}, hi : Nat \ {0}, members : Seq(Range(x.evidence))] : c.lo <= c.hi}
Swept(x, iter, T) == Sweep(x, iter[T \ {Uppermost(x, T)}], Uppermost(x, T))
IsSweep(iter, x) ==
    iter = [T \in SUBSET Live(x) |-> IF T = {} THEN <<>> ELSE Swept(x, iter, T)]

LEMMA SweepType ==
    ASSUME NEW x, IsSetting(x), NEW out \in Seq(Cluster(x)), NEW i \in Live(x)
    PROVE  Sweep(x, out, i) \in Seq(Cluster(x))
<1> DEFINE e == x.evidence[i]
           C == Cluster(x)
           n == Len(out)
           c == out[n]
           top == Max({c.hi, e.hi})
           wider == [lo |-> c.lo, hi |-> top, members |-> Append(c.members, e)]
           alone == [lo |-> e.lo, hi |-> e.hi, members |-> <<e>>]
<1>1. IsBand(e) /\ e \in Range(x.evidence)
  BY LiveFacts DEF IsEvidence, Live, Range
<1>2. alone \in C
  <2>1. <<e>> \in Seq(Range(x.evidence))
    BY <1>1
  <2> HIDE DEF e
  <2> QED BY <1>1, <2>1 DEF IsBand, Cluster
<1>3. CASE out # <<>> /\ Close(x, e.lo, Last(out).hi)
  <2>1. n \in 1 .. Len(out) /\ c \in C
    BY <1>3
  <2>2. c.lo \in Nat \ {0} /\ c.hi \in Nat \ {0} /\ c.lo <= c.hi /\ c.members \in Seq(Range(x.evidence))
    <3> HIDE DEF c
    <3> QED BY <2>1 DEF Cluster
  <2>3. top \in Nat \ {0} /\ top >= c.lo
    <3> DEFINE a == c.hi
               b == e.hi
    <3>1. a \in Int /\ b \in Int /\ a \in Nat \ {0} /\ b \in Nat \ {0}
      BY <1>1, <2>2 DEF IsBand
    <3>2. Max({a, b}) \in {a, b} /\ Max({a, b}) >= a
      <4> HIDE DEF a, b
      <4> QED BY <3>1, PairExtremes
    <3> DEFINE k == Max({a, b})
    <3> HIDE DEF k
    <3>3. k \in Nat \ {0} /\ k >= c.lo
      BY <2>2, <3>1, <3>2 DEF k
    <3> QED BY <3>3 DEF k
  <2>4. wider \in C
    <3>1. Append(c.members, e) \in Seq(Range(x.evidence))
      <4> DEFINE m == c.members
                 E == Range(x.evidence)
      <4>1. m \in Seq(E) /\ e \in E
        BY <1>1, <2>2
      <4> HIDE DEF m, E, e
      <4>2. Append(m, e) \in Seq(E)
        BY <4>1
      <4> QED BY <4>2 DEF m, E, e
    <3> HIDE DEF top, c, e
    <3> QED BY <2>2, <2>3, <3>1 DEF Cluster
  <2>5. Sweep(x, out, i) = [out EXCEPT ![n] = wider]
    BY <1>3 DEF Sweep, Last
  <2>6. [out EXCEPT ![n] = wider] \in Seq(C)
    <3>1. out \in Seq(C)
      OBVIOUS
    <3> HIDE DEF C, wider, n
    <3> QED BY <2>1, <2>4, <3>1
  <2> QED BY <2>5, <2>6
<1>4. CASE ~(out # <<>> /\ Close(x, e.lo, Last(out).hi))
  <2>1. Sweep(x, out, i) = Append(out, alone)
    BY <1>4, Zenon DEF Sweep
  <2>2. Append(out, alone) \in Seq(C)
    <3>1. out \in Seq(C)
      OBVIOUS
    <3> HIDE DEF C, alone
    <3> QED BY <1>2, <3>1
  <2> QED BY <2>1, <2>2
<1> QED BY <1>3, <1>4

LEMMA SweepExists ==
    ASSUME NEW x, IsSetting(x)
    PROVE  \E iter : IsSweep(iter, x) /\ Clusters(x) = iter[Live(x)]
<1> DEFINE D == Live(x)
           V == Seq(Cluster(x))
           pick == [T \in SUBSET D |-> Uppermost(x, T)]
           g == [i \in D |-> [out \in V |-> Sweep(x, out, i)]]
<1>1. IsFiniteSet(D)
  BY LiveFacts
<1>2. \A T \in SUBSET D : T # {} => Uppermost(x, T) \in T
  BY UppermostFacts
<1>3. \A T \in SUBSET D : T # {} => pick[T] \in T
  BY <1>2
<1>4. \A i \in D : \A out \in V : g[i][out] \in V
  BY SweepType
<1>5. <<>> \in V
  OBVIOUS
<1>6. PICK iter : IsFold(iter, D, pick, <<>>, g) /\ \A T \in SUBSET D : iter[T] \in V
  <2> HIDE DEF D, V, pick, g
  <2> QED BY <1>1, <1>3, <1>4, <1>5, FoldExists
<1>7. ASSUME NEW T \in SUBSET D, T # {}
      PROVE  Folded(iter, pick, <<>>, g, T) = Swept(x, iter, T)
  <2>1. Uppermost(x, T) \in D /\ T \ {Uppermost(x, T)} \in SUBSET D /\ pick[T] = Uppermost(x, T)
    BY <1>2, <1>7
  <2>2. iter[T \ {Uppermost(x, T)}] \in V
    BY <1>6, <2>1
  <2> QED BY <1>7, <2>1, <2>2 DEF Folded, Swept
<1>8. \A T \in SUBSET D : Folded(iter, pick, <<>>, g, T) =
          IF T = {} THEN <<>> ELSE Swept(x, iter, T)
  BY <1>7 DEF Folded
<1>9. iter = [T \in SUBSET D |-> Folded(iter, pick, <<>>, g, T)]
  BY <1>6 DEF IsFold
<1>10. IsSweep(iter, x)
  <2> HIDE DEF g, pick
  <2> QED BY <1>8, <1>9 DEF IsSweep
<1>11. \E f : IsSweep(f, x) /\ Clusters(x) = f[Live(x)]
  BY <1>10 DEF IsSweep, Swept, Clusters, MapThenFoldSet
<1> QED BY <1>11
(* Nearer is close all the more, and what overlaps is close.               *)
LEMMA CloseFacts ==
    ASSUME NEW x, IsSetting(x), NEW a \in Int, NEW b \in Int, NEW f \in Int, NEW g \in Int
    PROVE  /\ Close(x, a, b) /\ f <= a /\ b <= g => Close(x, f, g)
           /\ a <= b => Close(x, a, b)
<1> DEFINE m == MergePct * Atr(x)
<1>1. m \in Nat
  <2>1. Atr(x) \in Nat
    BY DEF IsSetting, Atr, Unmeasured
  <2> QED BY <2>1, ScoringAssumption
<1>2. /\ Close(x, a, b) <=> 100 * (a - b) <= m
      /\ Close(x, f, g) <=> 100 * (f - g) <= m
  BY DEF Close
<1> HIDE DEF m
<1> QED BY <1>1, <1>2

LEMMA ClusterFacts ==
    ASSUME NEW x, NEW c \in Cluster(x)
    PROVE  /\ IsBand(c) /\ c.lo \in Int /\ c.hi \in Int
           /\ c.members \in Seq(Range(x.evidence))
BY DEF Cluster, IsBand

LEMMA GivenFacts ==
    ASSUME NEW x, IsSetting(x), NEW e \in Range(x.evidence)
    PROVE  /\ IsEvidence(e) /\ e.lo \in Int /\ e.hi \in Int /\ e.lo <= e.hi
           /\ e.strength \in Nat /\ e.dir \in {1, 0, -1}
<1>1. IsEvidence(e)
  BY DEF IsSetting
<1> QED BY <1>1 DEF IsEvidence, IsBand

LEMMA AppendedRange ==
    ASSUME NEW S, NEW s \in Seq(S), NEW e \in S
    PROVE  Range(Append(s, e)) = Range(s) \cup {e}
<1>1. /\ Append(s, e) \in Seq(S) /\ Len(Append(s, e)) = Len(s) + 1 /\ Append(s, e)[Len(s) + 1] = e
      /\ \A i \in 1 .. Len(s) : Append(s, e)[i] = s[i]
  BY AppendProperties
<1>2. DOMAIN Append(s, e) = 1 .. Len(s) + 1 /\ DOMAIN s = 1 .. Len(s) /\ Len(s) \in Nat
  BY <1>1
<1>3. ASSUME NEW v \in Range(Append(s, e)) PROVE v \in Range(s) \cup {e}
  <2>1. PICK i \in 1 .. Len(s) + 1 : v = Append(s, e)[i]
    BY <1>2 DEF Range
  <2>2. CASE i = Len(s) + 1
    BY <1>1, <2>1, <2>2
  <2>3. CASE i \in 1 .. Len(s)
    <3>1. v = s[i]
      BY <1>1, <2>1, <2>3
    <3> QED BY <1>2, <2>3, <3>1 DEF Range
  <2> QED BY <1>2, <2>1, <2>2, <2>3
<1>4. ASSUME NEW v \in Range(s) PROVE v \in Range(Append(s, e))
  <2>1. PICK i \in 1 .. Len(s) : v = s[i]
    BY <1>2 DEF Range
  <2>2. i \in DOMAIN Append(s, e) /\ v = Append(s, e)[i]
    BY <1>1, <1>2, <2>1
  <2> QED BY <2>2 DEF Range
<1>5. e \in Range(Append(s, e))
  <2>1. Len(s) + 1 \in DOMAIN Append(s, e)
    BY <1>2
  <2> QED BY <1>1, <2>1 DEF Range
<1> QED BY <1>3, <1>4, <1>5

(* What a cluster is to the evidence at the places T that were swept: its  *)
(* members are of them, its edges theirs, and from each the next is near.  *)
Belongs(c, e) == c.lo <= e.lo /\ e.hi <= c.hi /\ e \in Range(c.members)
Leads(x, c, e) == e.hi = c.hi \/ \E f \in Range(c.members) : f.hi > e.hi /\ Close(x, f.lo, e.hi)
Grouped(x, T, c) ==
    /\ \A e \in Range(c.members) : (\E i \in T : e = x.evidence[i]) /\ Belongs(c, e) /\ Leads(x, c, e)
    /\ \E e \in Range(c.members) : e.lo = c.lo
    /\ \E e \in Range(c.members) : e.hi = c.hi
SweepInv(x, T, out) ==
    /\ out \in Seq(Cluster(x))
    /\ \A i \in T : \E k \in 1 .. Len(out) : Belongs(out[k], x.evidence[i])
    /\ \A k \in 1 .. Len(out) : Grouped(x, T, out[k])
    /\ \A k, l \in 1 .. Len(out) : k < l => ~Close(x, out[l].lo, out[k].hi)

LEMMA LoneCluster ==
    ASSUME NEW x, IsSetting(x), NEW T, NEW i \in T, x.evidence[i] \in Range(x.evidence)
    PROVE  LET e == x.evidence[i]
               c == [lo |-> e.lo, hi |-> e.hi, members |-> <<e>>]
           IN  c \in Cluster(x) /\ Grouped(x, T, c) /\ Belongs(c, e)
<1> DEFINE e == x.evidence[i]
           c == [lo |-> e.lo, hi |-> e.hi, members |-> <<e>>]
<1>1. e \in Range(x.evidence) /\ IsBand(e)
  BY GivenFacts DEF IsEvidence
<1>2. e.lo \in Int /\ e.hi \in Int
  BY <1>1, GivenFacts
<1>3. Range(<<e>>) = {e}
  BY DEF Range
<1>4. c.lo = e.lo /\ c.hi = e.hi /\ Range(c.members) = {e}
  BY <1>3
<1>5. c \in Cluster(x)
  <2>1. <<e>> \in Seq(Range(x.evidence))
    BY <1>1
  <2> HIDE DEF e
  <2> QED BY <1>1, <2>1 DEF IsBand, Cluster
<1>6. \E j \in T : e = x.evidence[j]
  OBVIOUS
<1> HIDE DEF e, c
<1>7. Belongs(c, e)
  BY <1>2, <1>4 DEF Belongs
<1>8. Grouped(x, T, c)
  BY <1>4, <1>6, <1>7 DEF Grouped, Leads
<1> QED BY <1>5, <1>7, <1>8 DEF c, e
LEMMA WiderCluster ==
    ASSUME NEW x, IsSetting(x), NEW U, NEW i, x.evidence[i] \in Range(x.evidence),
           NEW c \in Cluster(x), Grouped(x, U, c),
           \A f \in Range(c.members) : f.lo <= x.evidence[i].lo,
           Close(x, x.evidence[i].lo, c.hi)
    PROVE  LET e == x.evidence[i]
               w == [lo |-> c.lo, hi |-> Max({c.hi, e.hi}), members |-> Append(c.members, e)]
           IN  /\ w \in Cluster(x) /\ Grouped(x, U \cup {i}, w) /\ Belongs(w, e)
               /\ w.lo = c.lo /\ \A f : Belongs(c, f) => Belongs(w, f)
<1> DEFINE e == x.evidence[i]
           E == Range(x.evidence)
           top == Max({c.hi, e.hi})
           w == [lo |-> c.lo, hi |-> top, members |-> Append(c.members, e)]
           T == U \cup {i}
<1>1. e \in E /\ IsBand(e) /\ e.lo \in Int /\ e.hi \in Int /\ e.lo <= e.hi
  BY GivenFacts DEF IsEvidence
<1>2. IsBand(c) /\ c.lo \in Int /\ c.hi \in Int /\ c.members \in Seq(E)
  BY ClusterFacts
<1>3. top \in {c.hi, e.hi} /\ top >= c.hi /\ top >= e.hi
  <2> DEFINE a == c.hi
             b == e.hi
  <2>1. a \in Int /\ b \in Int
    BY <1>1, <1>2
  <2>2. Max({a, b}) \in {a, b} /\ Max({a, b}) >= a /\ Max({a, b}) >= b
    <3> HIDE DEF a, b
    <3> QED BY <2>1, PairExtremes
  <2> QED BY <2>2
<1>4. w.lo = c.lo /\ w.hi = top /\ Range(w.members) = Range(c.members) \cup {e}
  <2> DEFINE s == c.members
  <2>1. Range(Append(s, e)) = Range(s) \cup {e}
    <3>1. s \in Seq(E) /\ e \in E
      BY <1>1, <1>2
    <3> HIDE DEF s, e, E
    <3> QED BY <3>1, AppendedRange
  <2> HIDE DEF top
  <2> QED BY <2>1
<1>5. w \in Cluster(x)
  <2>1. Append(c.members, e) \in Seq(E)
    <3> DEFINE s == c.members
    <3>1. s \in Seq(E) /\ e \in E
      BY <1>1, <1>2
    <3> HIDE DEF s, e, E
    <3>2. Append(s, e) \in Seq(E)
      BY <3>1
    <3> QED BY <3>2 DEF s
  <2>2. top \in Nat \ {0} /\ c.lo \in Nat \ {0} /\ c.lo <= top
    <3>1. c.lo \in Nat \ {0} /\ c.hi \in Nat \ {0} /\ c.lo <= c.hi
      BY <1>2 DEF IsBand
    <3> HIDE DEF top
    <3> QED BY <1>1, <1>3, <3>1
  <2> HIDE DEF top, e
  <2> QED BY <2>1, <2>2 DEF Cluster
<1>6. \A f \in Range(c.members) : f \in E
  BY <1>2 DEF Range
<1>7. \A f \in Range(c.members) : f.lo \in Int /\ f.hi \in Int /\ f.lo <= f.hi
  BY <1>6, GivenFacts
<1>8. e = x.evidence[i]
  OBVIOUS
<1> HIDE DEF top, w, e
<1>9. top \in Int
  BY <1>1, <1>2, <1>3
<1>10. ASSUME NEW f, Belongs(c, f) PROVE Belongs(w, f)
  <2>1. c.lo <= f.lo /\ f.hi <= c.hi /\ f \in Range(c.members)
    BY <1>10 DEF Belongs
  <2>2. f.hi <= top
    BY <1>2, <1>3, <1>7, <1>9, <2>1
  <2> QED BY <1>4, <2>1, <2>2 DEF Belongs
<1>11. PICK far \in Range(c.members) : far.hi = c.hi
  BY DEF Grouped
<1>12. PICK near \in Range(c.members) : near.lo = c.lo
  BY DEF Grouped
<1>13. Belongs(w, e)
  <2>1. c.lo <= e.lo
    BY <1>8, <1>12
  <2> QED BY <1>3, <1>4, <2>1 DEF Belongs
<1>14. ASSUME NEW f \in Range(c.members) PROVE Leads(x, w, f)
  <2>1. CASE f.hi = c.hi
    <3>1. CASE top = c.hi
      BY <1>4, <2>1, <3>1 DEF Leads
    <3>2. CASE top # c.hi
      <4>1. e.hi > f.hi
        BY <1>1, <1>2, <1>3, <2>1, <3>2
      <4>2. Close(x, e.lo, f.hi)
        BY <1>8, <2>1
      <4> QED BY <1>4, <4>1, <4>2 DEF Leads
    <3> QED BY <3>1, <3>2
  <2>2. CASE f.hi # c.hi
    <3>1. Leads(x, c, f)
      BY DEF Grouped
    <3>2. PICK g \in Range(c.members) : g.hi > f.hi /\ Close(x, g.lo, f.hi)
      BY <2>2, <3>1 DEF Leads
    <3> QED BY <1>4, <3>2 DEF Leads
  <2> QED BY <2>1, <2>2
<1>15. Leads(x, w, e)
  <2>1. CASE top = e.hi
    BY <1>4, <2>1 DEF Leads
  <2>2. CASE top # e.hi
    <3>1. far.hi > e.hi
      BY <1>1, <1>2, <1>3, <1>11, <2>2
    <3>2. far.lo <= e.hi
      <4>1. far.lo <= e.lo
        BY <1>8
      <4> QED BY <1>1, <1>7, <4>1
    <3>3. Close(x, far.lo, e.hi)
      <4>1. far.lo \in Int
        BY <1>7
      <4> QED BY <1>1, <3>2, <4>1, CloseFacts
    <3> QED BY <1>4, <3>1, <3>3 DEF Leads
  <2> QED BY <2>1, <2>2
<1>16. Grouped(x, T, w)
  <2>1. ASSUME NEW f \in Range(w.members)
        PROVE  (\E j \in T : f = x.evidence[j]) /\ Belongs(w, f) /\ Leads(x, w, f)
    <3>1. CASE f = e
      BY <1>8, <1>13, <1>15, <3>1
    <3>2. CASE f \in Range(c.members)
      <4>1. (\E j \in U : f = x.evidence[j]) /\ Belongs(c, f)
        BY <3>2 DEF Grouped
      <4> QED BY <1>10, <1>14, <3>2, <4>1
    <3> QED BY <1>4, <3>1, <3>2
  <2>2. \E f \in Range(w.members) : f.lo = w.lo
    BY <1>4, <1>12
  <2>3. \E f \in Range(w.members) : f.hi = w.hi
    BY <1>3, <1>4, <1>11
  <2> HIDE DEF T
  <2> QED BY <2>1, <2>2, <2>3 DEF Grouped
<1> QED BY <1>4, <1>5, <1>10, <1>13, <1>16 DEF w, top, e
LEMMA GroupedGrows ==
    ASSUME NEW x, NEW U, NEW T, U \subseteq T, NEW c, Grouped(x, U, c) PROVE Grouped(x, T, c)
BY DEF Grouped

LEMMA SweepMerges ==
    ASSUME NEW x, IsSetting(x), NEW T \in SUBSET Live(x), NEW u \in T, NEW out,
           \A j \in T : Before(x, j, u), SweepInv(x, T \ {u}, out),
           out # <<>>, Close(x, x.evidence[u].lo, Last(out).hi)
    PROVE  SweepInv(x, T, Sweep(x, out, u))
<1> DEFINE U == T \ {u}
           e == x.evidence[u]
           n == Len(out)
           c == out[n]
           w == [lo |-> c.lo, hi |-> Max({c.hi, e.hi}), members |-> Append(c.members, e)]
           new == Sweep(x, out, u)
<1>1. u \in Live(x) /\ e \in Range(x.evidence) /\ e.lo \in Int
  <2>1. e \in Range(x.evidence)
    BY DEF Live, Range
  <2> QED BY <2>1, GivenFacts
<1>2. out \in Seq(Cluster(x)) /\ n \in 1 .. Len(out) /\ Len(out) \in Nat
  BY DEF SweepInv
<1>3. c \in Cluster(x) /\ Grouped(x, U, c)
  <2>1. c \in Cluster(x)
    BY <1>2
  <2>2. \A k \in 1 .. Len(out) : Grouped(x, U, out[k])
    BY DEF SweepInv
  <2> QED BY <1>2, <2>1, <2>2
<1>4. ASSUME NEW f \in Range(c.members) PROVE f.lo <= e.lo
  <2>1. PICK j \in U : f = x.evidence[j]
    BY <1>3 DEF Grouped
  <2>2. Before(x, j, u)
    BY <2>1
  <2>3. f.lo \in Int
    <3>1. f \in Range(x.evidence)
      BY <2>1 DEF Live, Range
    <3> QED BY <3>1, GivenFacts
  <2> QED BY <1>1, <2>1, <2>2, <2>3 DEF Before
<1>5. Close(x, e.lo, c.hi)
  BY DEF Last
<1>6. new = [out EXCEPT ![n] = w]
  BY DEF Sweep, Last
<1>7. /\ w \in Cluster(x) /\ Grouped(x, U \cup {u}, w) /\ Belongs(w, e)
      /\ w.lo = c.lo /\ \A f : Belongs(c, f) => Belongs(w, f)
  <2> HIDE DEF U, c
  <2> QED BY <1>1, <1>3, <1>4, <1>5, WiderCluster DEF e
<1>8. U \cup {u} = T
  OBVIOUS
<1>9. new \in Seq(Cluster(x)) /\ Len(new) = n /\ new[n] = w
      /\ \A k \in 1 .. n : k # n => new[k] = out[k]
  <2> HIDE DEF w, new
  <2>1. new[n] = w /\ \A k \in 1 .. n : k # n => new[k] = out[k]
    BY <1>2, <1>6
  <2>2. new \in Seq(Cluster(x)) /\ Len(new) = n
    <3> DEFINE C == Cluster(x)
    <3>1. out \in Seq(C) /\ w \in C
      BY <1>2, <1>7
    <3> HIDE DEF C
    <3> QED BY <1>2, <1>6, <3>1 DEF C
  <2> QED BY <2>1, <2>2
<1> HIDE DEF w, new, c
<1>10. ASSUME NEW i \in T PROVE \E k \in 1 .. Len(new) : Belongs(new[k], x.evidence[i])
  <2>1. CASE i = u
    BY <1>2, <1>7, <1>9, <2>1
  <2>2. CASE i \in U
    <3>1. PICK k \in 1 .. n : Belongs(out[k], x.evidence[i])
      BY <2>2 DEF SweepInv
    <3>2. CASE k = n
      BY <1>2, <1>7, <1>9, <3>1, <3>2 DEF c
    <3>3. CASE k # n
      BY <1>9, <3>1, <3>3
    <3> QED BY <3>2, <3>3
  <2> QED BY <2>1, <2>2
<1>11. ASSUME NEW k \in 1 .. Len(new) PROVE Grouped(x, T, new[k])
  <2>1. CASE k = n
    BY <1>7, <1>8, <1>9, <2>1
  <2>2. CASE k # n
    <3>1. Grouped(x, U, out[k]) /\ new[k] = out[k] /\ U \subseteq T
      BY <1>9, <2>2 DEF SweepInv
    <3> HIDE DEF U
    <3> QED BY <3>1, GroupedGrows
  <2> QED BY <2>1, <2>2
<1>12. ASSUME NEW k \in 1 .. Len(new), NEW l \in 1 .. Len(new), k < l
       PROVE  ~Close(x, new[l].lo, new[k].hi)
  <2>1. k # n /\ new[k] = out[k] /\ k \in 1 .. Len(out) /\ l \in 1 .. Len(out)
    BY <1>2, <1>9, <1>12
  <2>2. new[l].lo = out[l].lo
    BY <1>7, <1>9, <2>1 DEF c
  <2>3. ~Close(x, out[l].lo, out[k].hi)
    BY <1>12, <2>1 DEF SweepInv
  <2> QED BY <2>1, <2>2, <2>3
<1> QED BY <1>9, <1>10, <1>11, <1>12 DEF SweepInv, new

LEMMA SweepAppends ==
    ASSUME NEW x, IsSetting(x), NEW T \in SUBSET Live(x), NEW u \in T, NEW out,
           SweepInv(x, T \ {u}, out),
           ~(out # <<>> /\ Close(x, x.evidence[u].lo, Last(out).hi))
    PROVE  SweepInv(x, T, Sweep(x, out, u))
<1> DEFINE U == T \ {u}
           e == x.evidence[u]
           n == Len(out)
           c == [lo |-> e.lo, hi |-> e.hi, members |-> <<e>>]
           new == Sweep(x, out, u)
<1>1. e \in Range(x.evidence) /\ e.lo \in Int
  <2>1. e \in Range(x.evidence)
    BY DEF Live, Range
  <2> QED BY <2>1, GivenFacts
<1>2. out \in Seq(Cluster(x)) /\ n \in Nat
  BY DEF SweepInv
<1>3. new = Append(out, c)
  BY Zenon DEF Sweep
<1>4. c \in Cluster(x) /\ Grouped(x, T, c) /\ Belongs(c, e)
  BY <1>1, LoneCluster
<1>5. c.lo = e.lo
  OBVIOUS
<1>6. /\ new \in Seq(Cluster(x)) /\ Len(new) = n + 1 /\ new[n + 1] = c
      /\ \A k \in 1 .. n : new[k] = out[k]
  <2> DEFINE C == Cluster(x)
  <2>1. out \in Seq(C) /\ c \in C
    BY <1>2, <1>4
  <2> HIDE DEF C, c, new
  <2> QED BY <1>2, <1>3, <2>1, AppendProperties DEF C
<1> HIDE DEF c, new
<1>7. ASSUME NEW i \in T PROVE \E k \in 1 .. Len(new) : Belongs(new[k], x.evidence[i])
  <2>1. CASE i = u
    <3>1. n + 1 \in 1 .. Len(new)
      BY <1>2, <1>6
    <3> QED BY <1>4, <1>6, <2>1, <3>1
  <2>2. CASE i \in U
    <3>1. PICK k \in 1 .. n : Belongs(out[k], x.evidence[i])
      BY <2>2 DEF SweepInv
    <3>2. k \in 1 .. Len(new)
      BY <1>2, <1>6
    <3> QED BY <1>6, <3>1, <3>2
  <2> QED BY <2>1, <2>2
<1>8. ASSUME NEW k \in 1 .. Len(new) PROVE Grouped(x, T, new[k])
  <2>1. CASE k = n + 1
    BY <1>4, <1>6, <2>1
  <2>2. CASE k \in 1 .. n
    <3>1. Grouped(x, U, out[k]) /\ new[k] = out[k] /\ U \subseteq T
      BY <1>6, <2>2 DEF SweepInv
    <3> HIDE DEF U
    <3> QED BY <3>1, GroupedGrows
  <2> QED BY <1>2, <1>6, <2>1, <2>2
<1>9. ASSUME NEW k \in 1 .. Len(new), NEW l \in 1 .. Len(new), k < l
      PROVE  ~Close(x, new[l].lo, new[k].hi)
  <2>1. k \in 1 .. n /\ new[k] = out[k]
    BY <1>2, <1>6, <1>9
  <2>2. CASE l \in 1 .. n
    <3>1. ~Close(x, out[l].lo, out[k].hi)
      BY <1>9, <2>1, <2>2 DEF SweepInv
    <3> QED BY <1>6, <2>1, <2>2, <3>1
  <2>3. CASE l = n + 1
    <3> DEFINE top == out[n]
    <3>1. n \in 1 .. n /\ out # <<>>
      BY <1>2, <2>1
    <3>2. ~Close(x, e.lo, top.hi)
      BY <3>1 DEF Last
    <3>3. /\ top.hi \in Int /\ top.lo \in Int /\ top.lo <= top.hi
          /\ out[k].hi \in Int
      <4>1. top \in Cluster(x) /\ out[k] \in Cluster(x)
        BY <1>2, <2>1, <3>1
      <4> QED BY <4>1, ClusterFacts DEF IsBand
    <3>4. out[k].hi <= top.hi
      <4>1. CASE k = n
        BY <3>3, <4>1
      <4>2. CASE k # n
        <5>1. k < n
          BY <1>2, <2>1, <4>2
        <5>2. ~Close(x, top.lo, out[k].hi)
          BY <2>1, <3>1, <5>1 DEF SweepInv
        <5>3. ~(top.lo <= out[k].hi)
          BY <3>3, <5>2, CloseFacts
        <5> QED BY <3>3, <5>3
      <4> QED BY <4>1, <4>2
    <3>5. ~Close(x, e.lo, out[k].hi)
      <4> DEFINE a == e.lo
                 b == out[k].hi
                 g == top.hi
      <4>1. a \in Int /\ b \in Int /\ g \in Int /\ b <= g /\ a <= a /\ ~Close(x, a, g)
        BY <1>1, <3>2, <3>3, <3>4
      <4> HIDE DEF a, b, g
      <4>2. ~Close(x, a, b)
        BY <4>1, CloseFacts
      <4> QED BY <4>2 DEF a, b
    <3>6. new[l].lo = e.lo
      BY <1>5, <1>6, <2>3
    <3> QED BY <2>1, <3>5, <3>6
  <2> QED BY <1>2, <1>6, <2>2, <2>3
<1> QED BY <1>6, <1>7, <1>8, <1>9 DEF SweepInv, new
(* What the sweep over all live evidence leaves.                           *)
LEMMA ClustersFacts ==
    ASSUME NEW x, IsSetting(x) PROVE SweepInv(x, Live(x), Clusters(x))
<1> DEFINE D == Live(x)
<1>1. PICK iter : IsSweep(iter, x) /\ Clusters(x) = iter[D]
  BY SweepExists
<1> DEFINE Good == {T \in SUBSET D : SweepInv(x, T, iter[T])}
<1>2. IsFiniteSet(D)
  BY LiveFacts
<1>3. ASSUME NEW T \in SUBSET D, \A U \in SUBSET T : U # T => U \in Good
      PROVE  T \in Good
  <2>1. iter[T] = IF T = {} THEN <<>> ELSE Swept(x, iter, T)
    BY <1>1 DEF IsSweep
  <2>2. CASE T = {}
    <3>1. iter[T] = <<>>
      BY <2>1, <2>2
    <3>2. SweepInv(x, T, <<>>)
      BY <2>2 DEF SweepInv
    <3> QED BY <3>1, <3>2
  <2>3. CASE T # {}
    <3> DEFINE u == Uppermost(x, T)
               out == iter[T \ {u}]
    <3>1. u \in T /\ \A j \in T : Before(x, j, u)
      BY <2>3, UppermostFacts
    <3>2. SweepInv(x, T \ {u}, out)
      <4> HIDE DEF u
      <4> QED BY <1>3, <3>1
    <3>3. iter[T] = Sweep(x, out, u)
      BY <2>1, <2>3 DEF Swept
    <3> HIDE DEF u, out
    <3>4. CASE out # <<>> /\ Close(x, x.evidence[u].lo, Last(out).hi)
      BY <3>1, <3>2, <3>3, <3>4, SweepMerges
    <3>5. CASE ~(out # <<>> /\ Close(x, x.evidence[u].lo, Last(out).hi))
      BY <3>1, <3>2, <3>3, <3>5, SweepAppends
    <3> QED BY <3>4, <3>5
  <2> QED BY <2>2, <2>3
<1>4. D \in Good
  <2> HIDE DEF D, Good
  <2> QED BY <1>2, <1>3, SubsetInduction
<1> QED BY <1>1, <1>4

LEMMA MembersFacts ==
    ASSUME NEW x, IsSetting(x), NEW c \in ToSet(Clusters(x))
    PROVE  /\ c \in Cluster(x) /\ Grouped(x, Live(x), c)
           /\ Range(c.members) = Within(x, c)
           /\ \A e \in LiveOf(x) :
                 Close(x, e.lo, c.hi) /\ Close(x, c.lo, e.hi) => e \in Within(x, c)
<1> DEFINE out == Clusters(x)
<1>1. SweepInv(x, Live(x), out)
  BY ClustersFacts
<1>2. PICK k \in 1 .. Len(out) : c = out[k]
  <2>1. out \in Seq(Cluster(x))
    BY <1>1 DEF SweepInv
  <2> HIDE DEF out
  <2> QED BY <2>1 DEF ToSet, out
<1>3. c \in Cluster(x) /\ Grouped(x, Live(x), c)
  <2> HIDE DEF out
  <2>1. out \in Seq(Cluster(x)) /\ Grouped(x, Live(x), out[k])
    BY <1>1 DEF SweepInv
  <2> QED BY <1>2, <2>1
<1>4. \A e \in LiveOf(x) : e.lo \in Int /\ e.hi \in Int /\ e.lo <= e.hi
  <2>1. \A e \in LiveOf(x) : e \in Range(x.evidence)
    BY DEF LiveOf, Live, Range
  <2> QED BY <2>1, GivenFacts
<1>5. c.lo \in Int /\ c.hi \in Int /\ c.lo <= c.hi
  BY <1>3, ClusterFacts DEF IsBand
<1>6. ASSUME NEW e \in LiveOf(x), Close(x, e.lo, c.hi), Close(x, c.lo, e.hi)
      PROVE  Belongs(c, e)
  <2> HIDE DEF out
  <2>1. PICK i \in Live(x) : e = x.evidence[i]
    BY DEF LiveOf
  <2>2. PICK l \in 1 .. Len(out) : Belongs(out[l], e)
    BY <1>1, <2>1 DEF SweepInv
  <2> DEFINE b == out[l]
  <2>3. b.lo \in Int /\ b.hi \in Int /\ b.lo <= e.lo /\ e.hi <= b.hi
    <3>1. b \in Cluster(x)
      <4>1. out \in Seq(Cluster(x))
        BY <1>1 DEF SweepInv
      <4> QED BY <4>1
    <3> QED BY <2>2, <3>1, ClusterFacts DEF Belongs
  <2>4. k \in Int /\ l \in Int
    OBVIOUS
  <2>5. ASSUME l < k PROVE FALSE
    <3>1. ~Close(x, c.lo, b.hi)
      BY <1>1, <1>2, <2>5 DEF SweepInv
    <3> HIDE DEF b
    <3>2. Close(x, c.lo, b.hi)
      BY <1>4, <1>5, <1>6, <2>3, CloseFacts
    <3> QED BY <3>1, <3>2
  <2>6. ASSUME k < l PROVE FALSE
    <3>1. ~Close(x, b.lo, c.hi)
      BY <1>1, <1>2, <2>6 DEF SweepInv
    <3> HIDE DEF b
    <3>2. Close(x, b.lo, c.hi)
      BY <1>4, <1>5, <1>6, <2>3, CloseFacts
    <3> QED BY <3>1, <3>2
  <2>7. l = k
    BY <2>4, <2>5, <2>6
  <2> QED BY <1>2, <2>2, <2>7
<1>7. \A e : Belongs(c, e) /\ e \in LiveOf(x) => e \in Within(x, c)
  BY DEF Belongs, Within
<1>8. ASSUME NEW e \in Range(c.members) PROVE e \in Within(x, c)
  <2>1. (\E i \in Live(x) : e = x.evidence[i]) /\ Belongs(c, e)
    BY <1>3 DEF Grouped
  <2> QED BY <1>7, <2>1 DEF LiveOf
<1>9. ASSUME NEW e \in Within(x, c) PROVE e \in Range(c.members)
  <2>1. e \in LiveOf(x) /\ c.lo <= e.lo /\ e.hi <= c.hi
    BY DEF Within
  <2>2. Close(x, e.lo, c.hi) /\ Close(x, c.lo, e.hi)
    <3>1. e.lo <= c.hi /\ c.lo <= e.hi /\ e.lo \in Int /\ e.hi \in Int
      BY <1>4, <1>5, <2>1
    <3> QED BY <1>5, <3>1, CloseFacts
  <2> QED BY <1>6, <2>1, <2>2 DEF Belongs
<1> QED BY <1>3, <1>6, <1>7, <1>8, <1>9

LEMMA ExtremesAre ==
    ASSUME NEW S, S \subseteq Int, NEW n \in S
    PROVE  /\ (\A m \in S : n <= m) => n = Min(S)
           /\ (\A m \in S : n >= m) => n = Max(S)
<1>1. ASSUME \A m \in S : n <= m PROVE n = Min(S)
  <2> DEFINE k == CHOOSE k \in S : \A m \in S : k <= m
  <2>1. k \in S /\ \A m \in S : k <= m
    BY <1>1
  <2>2. k = Min(S)
    BY DEF Min
  <2> HIDE DEF k
  <2> QED BY <1>1, <2>1, <2>2
<1>2. ASSUME \A m \in S : n >= m PROVE n = Max(S)
  <2> DEFINE k == CHOOSE k \in S : \A m \in S : k >= m
  <2>1. k \in S /\ \A m \in S : k >= m
    BY <1>2
  <2>2. k = Max(S)
    BY DEF Max
  <2> HIDE DEF k
  <2> QED BY <1>2, <2>1, <2>2
<1> QED BY <1>1, <1>2

(* For every list of evidence: a cluster of ConfluenceEngine._cluster is a *)
(* component of the live evidence, and its members are all within its band.*)
THEOREM ClusterIsComponent ==
    ASSUME NEW x, IsSetting(x), NEW c \in ToSet(Clusters(x)), NEW z, z.lo = c.lo, z.hi = c.hi
    PROVE  IsComponent(x, z) /\ Within(x, z) = Range(c.members)
<1> DEFINE W == Within(x, z)
           L == {e.lo : e \in W}
           H == {e.hi : e \in W}
<1>1. /\ c \in Cluster(x) /\ Grouped(x, Live(x), c) /\ Range(c.members) = Within(x, c)
      /\ \A e \in LiveOf(x) :
            Close(x, e.lo, c.hi) /\ Close(x, c.lo, e.hi) => e \in Within(x, c)
  BY MembersFacts
<1>2. W = Within(x, c)
  BY DEF Within
<1>3. \A e \in W : e.lo \in Int /\ e.hi \in Int /\ z.lo <= e.lo /\ e.hi <= z.hi
  <2>1. \A e \in W : e \in Range(x.evidence)
    BY DEF Within, LiveOf, Live, Range
  <2>2. \A e \in W : z.lo <= e.lo /\ e.hi <= z.hi
    BY DEF Within
  <2> QED BY <2>1, <2>2, GivenFacts
<1>4. (\E e \in W : e.lo = z.lo) /\ (\E e \in W : e.hi = z.hi)
  BY <1>1, <1>2 DEF Grouped
<1>5. \A e \in W : e.hi = z.hi \/ \E f \in W : f.hi > e.hi /\ Close(x, f.lo, e.hi)
  BY <1>1, <1>2 DEF Grouped, Leads
<1>6. \A e \in LiveOf(x) : Close(x, e.lo, z.hi) /\ Close(x, z.lo, e.hi) => e \in W
  BY <1>1, <1>2
<1> HIDE DEF W
<1>7. z.lo = Min(L)
  <2>1. L \subseteq Int /\ z.lo \in L /\ \A m \in L : z.lo <= m
    BY <1>3, <1>4
  <2> HIDE DEF L
  <2> QED BY <2>1, ExtremesAre
<1>8. z.hi = Max(H)
  <2>1. H \subseteq Int /\ z.hi \in H /\ \A m \in H : z.hi >= m
    BY <1>3, <1>4
  <2> HIDE DEF H
  <2> QED BY <2>1, ExtremesAre
<1> QED BY <1>1, <1>2, <1>5, <1>6, <1>7, <1>8 DEF IsComponent, W
-----------------------------------------------------------------------------
(* The score of a cluster.                                                 *)

LEMMA BestFacts ==
    ASSUME NEW x, IsSetting(x), NEW c \in Cluster(x)
    PROVE  /\ IsFiniteSet(Best(c.members)) /\ Best(c.members) \subseteq Range(c.members)
           /\ \A e \in Range(c.members) : e \in Range(x.evidence)
           /\ \A e, f \in Best(c.members) : e.detector = f.detector => e = f
<1> DEFINE m == c.members
           D == DOMAIN m
           K == {k \in D : \A j \in D : m[j].detector = m[k].detector =>
                     \/ m[j].strength < m[k].strength
                     \/ m[j].strength = m[k].strength /\ k <= j}
<1>1. m \in Seq(Range(x.evidence))
  BY ClusterFacts
<1>2. IsFiniteSet(D) /\ D \subseteq Int /\ \A i \in D : m[i] \in Range(x.evidence)
  <2>1. D = 1 .. Len(m) /\ Len(m) \in Nat
    BY <1>1
  <2>2. IsFiniteSet(D)
    BY <2>1, FS_Interval
  <2> HIDE DEF m
  <2> QED BY <1>1, <2>1, <2>2
<1>3. IsFiniteSet(K) /\ K \subseteq D
  <2>1. K \subseteq D
    OBVIOUS
  <2> HIDE DEF K, D
  <2> QED BY <1>2, <2>1, FS_Subset
<1>4. IsFiniteSet({m[i] : i \in K})
  <2> HIDE DEF m, K
  <2> QED BY <1>3, ImageIsFinite
<1>5. Best(m) = {m[i] : i \in K}
  BY DEF Best
<1>6. ASSUME NEW e \in Best(m), NEW f \in Best(m), e.detector = f.detector PROVE e = f
  <2>1. PICK i \in K : e = m[i]
    BY <1>5
  <2>2. PICK j \in K : f = m[j]
    BY <1>5
  <2>3. m[i].strength \in Int /\ m[j].strength \in Int /\ i \in Int /\ j \in Int
    <3>1. m[i] \in Range(x.evidence) /\ m[j] \in Range(x.evidence)
      BY <1>2, <1>3
    <3> HIDE DEF m
    <3> QED BY <1>2, <1>3, <3>1, GivenFacts
  <2>4. m[j].strength < m[i].strength \/ (m[j].strength = m[i].strength /\ i <= j)
    BY <1>6, <2>1, <2>2
  <2>5. m[i].strength < m[j].strength \/ (m[i].strength = m[j].strength /\ j <= i)
    BY <1>6, <2>1, <2>2
  <2>6. i = j
    <3> HIDE DEF m, K
    <3> QED BY <2>3, <2>4, <2>5
  <2> QED BY <2>1, <2>2, <2>6
<1>7. Best(m) \subseteq Range(m)
  BY <1>5 DEF Range
<1>8. \A e \in Range(m) : e \in Range(x.evidence)
  BY <1>2 DEF Range
<1> QED BY <1>4, <1>5, <1>6, <1>7, <1>8

Points(e) == Weight(e.detector) * e.strength
IsMass(iter, S) ==
    iter = [T \in SUBSET S |->
               IF T = {} THEN 0
               ELSE Points(CHOOSE e \in T : TRUE) + iter[T \ {CHOOSE e \in T : TRUE}]]

LEMMA MassIsInt ==
    ASSUME NEW x, IsSetting(x), NEW c \in Cluster(x), NEW d PROVE Mass(c, d) \in Int
<1> DEFINE S == {e \in Votes(c) : e.dir = d}
           pick == [T \in SUBSET S |-> CHOOSE e \in T : TRUE]
           g == [e \in S |-> [v \in Int |-> Points(e) + v]]
<1>1. IsFiniteSet(S) /\ \A e \in S : Points(e) \in Int
  <2>1. S \subseteq Best(c.members)
    BY DEF Votes
  <2>2. IsFiniteSet(S)
    <3> DEFINE B == Best(c.members)
    <3>1. IsFiniteSet(B) /\ S \subseteq B
      BY <2>1, BestFacts
    <3> HIDE DEF B, S
    <3> QED BY <3>1, FS_Subset
  <2>3. ASSUME NEW e \in S PROVE Points(e) \in Int
    <3>1. e \in Range(x.evidence)
      BY <2>1, BestFacts
    <3>2. e.strength \in Nat
      BY <3>1, GivenFacts
    <3>3. Weight(e.detector) \in Nat
      BY WeightsAssumption DEF Weight
    <3> QED BY <3>2, <3>3 DEF Points
  <2> QED BY <2>2, <2>3
<1>2. \A T \in SUBSET S : T # {} => (CHOOSE e \in T : TRUE) \in T
  OBVIOUS
<1>3. \A T \in SUBSET S : T # {} => pick[T] \in T
  BY <1>2
<1>4. \A e \in S : \A v \in Int : g[e][v] \in Int
  <2> HIDE DEF S
  <2> QED BY <1>1
<1>5. PICK iter : IsFold(iter, S, pick, 0, g) /\ \A T \in SUBSET S : iter[T] \in Int
  <2>1. 0 \in Int
    OBVIOUS
  <2> HIDE DEF S, pick, g
  <2> QED BY <1>1, <1>3, <1>4, <2>1, FoldExists
<1>6. ASSUME NEW T \in SUBSET S, T # {}
      PROVE  Folded(iter, pick, 0, g, T) =
                 Points(CHOOSE e \in T : TRUE) + iter[T \ {CHOOSE e \in T : TRUE}]
  <2> DEFINE e == CHOOSE e \in T : TRUE
  <2>1. e \in S /\ T \ {e} \in SUBSET S /\ pick[T] = e
    BY <1>2, <1>6
  <2>2. iter[T \ {e}] \in Int
    BY <1>5, <2>1
  <2>3. Folded(iter, pick, 0, g, T) = g[e][iter[T \ {e}]]
    BY <1>6, <2>1 DEF Folded
  <2>4. g[e][iter[T \ {e}]] = Points(e) + iter[T \ {e}]
    <3> HIDE DEF e, S
    <3> QED BY <2>1, <2>2
  <2> QED BY <2>3, <2>4
<1>7. \A T \in SUBSET S : Folded(iter, pick, 0, g, T) =
          IF T = {} THEN 0
          ELSE Points(CHOOSE e \in T : TRUE) + iter[T \ {CHOOSE e \in T : TRUE}]
  BY <1>6 DEF Folded
<1>8. iter = [T \in SUBSET S |-> Folded(iter, pick, 0, g, T)]
  BY <1>5 DEF IsFold
<1>9. IsMass(iter, S)
  <2> HIDE DEF g, pick, S
  <2> QED BY <1>7, <1>8 DEF IsMass
<1>10. \E f : IsMass(f, S) /\ Mass(c, d) = f[S]
  <2>1. \E f : IsMass(f, S)
    BY <1>9
  <2> QED BY <2>1 DEF IsMass, Points, Mass, MapThenSumSet, MapThenFoldSet
<1>11. PICK f : IsMass(f, S) /\ Mass(c, d) = f[S]
  BY <1>10
<1> HIDE DEF S
<1> DEFINE Good == {T \in SUBSET S : f[T] \in Int}
<1>12. ASSUME NEW T \in SUBSET S, \A U \in SUBSET T : U # T => U \in Good PROVE T \in Good
  <2> DEFINE e == CHOOSE e \in T : TRUE
  <2>1. f[T] = IF T = {} THEN 0 ELSE Points(e) + f[T \ {e}]
    BY <1>11 DEF IsMass
  <2>2. CASE T = {}
    BY <2>1, <2>2
  <2>3. CASE T # {}
    <3>1. e \in T /\ e \in S
      BY <1>2, <2>3
    <3> HIDE DEF e
    <3>2. T \ {e} \in Good
      BY <1>12, <3>1
    <3>3. f[T \ {e}] \in Int /\ Points(e) \in Int
      BY <1>1, <3>1, <3>2
    <3> QED BY <2>1, <2>3, <3>3
  <2> QED BY <2>2, <2>3
<1>13. S \in Good
  <2> HIDE DEF Good
  <2> QED BY <1>1, <1>12, SubsetInduction
<1> QED BY <1>11, <1>13
LEMMA RawIsInt ==
    ASSUME NEW x, IsSetting(x), NEW c \in Cluster(x) PROVE Raw(c) \in Int
<1> DEFINE a == Mass(c, 1)
           b == Mass(c, -1)
           n == Mass(c, 0)
           most == Max({a, b})
           least == Min({a, b})
           net == 10 * most - 8 * least + 5 * n
           side == Max({0, net})
           more == IF \E e \in Best(c.members) : e.detector = "volume" THEN 60 ELSE 0
<1>1. a \in Int /\ b \in Int /\ n \in Int
  BY MassIsInt
<1>2. most \in Int /\ least \in Int
  <2> HIDE DEF a, b
  <2> QED BY <1>1, PairExtremes
<1>3. net \in Int
  <2> HIDE DEF most, least, n
  <2> QED BY <1>1, <1>2
<1>4. side \in Int
  <2>1. 0 \in Int
    OBVIOUS
  <2>2. side \in {0, net}
    <3> HIDE DEF net
    <3> QED BY <1>3, <2>1, PairExtremes
  <2> HIDE DEF net, side
  <2> QED BY <1>3, <2>2
<1>5. more \in Int
  OBVIOUS
<1>6. Raw(c) = side + more
  BY DEF Raw
<1> HIDE DEF side, more
<1> QED BY <1>4, <1>5, <1>6

LEMMA TimeIsInt == ASSUME NEW x, IsSetting(x) PROVE Time(x) \in Int
<1> DEFINE stats == {e \in LiveOf(x) : e.detector = "timestats"}
           last == {e \in stats : \A f \in stats : f.at <= e.at}
           at == [e \in stats |-> e.at]
           strength == [e \in last |-> e.strength]
<1>1. CASE stats = {}
  BY <1>1 DEF Time
<1>2. CASE stats # {}
  <2>1. IsFiniteSet(stats) /\ \A e \in stats : IsEvidence(e)
    BY LiveFacts, FS_Subset
  <2> DEFINE A == {at[e] : e \in stats}
             N == {strength[e] : e \in last}
  <2>2. IsFiniteSet(A)
    <3> HIDE DEF at, stats
    <3> QED BY <2>1, ImageIsFinite
  <2>3. A \subseteq Int /\ A # {}
    <3>1. \A e \in stats : at[e] \in Int
      BY <2>1 DEF IsEvidence
    <3> HIDE DEF at, stats
    <3> QED BY <1>2, <3>1
  <2>4. Max(A) \in A /\ \A k \in A : Max(A) >= k
    <3> HIDE DEF A
    <3> QED BY <2>2, <2>3, MinMax
  <2>5. last # {}
    <3> DEFINE k == Max(A)
    <3>1. k \in A /\ (\A j \in A : k >= j) /\ k \in Int
      BY <2>3, <2>4
    <3> HIDE DEF k
    <3>2. PICK e \in stats : k = at[e]
      BY <3>1
    <3>3. ASSUME NEW f \in stats PROVE f.at <= e.at
      <4>1. at[f] \in A /\ at[f] = f.at /\ at[e] = e.at
        OBVIOUS
      <4>2. f.at \in Int
        BY <2>1 DEF IsEvidence
      <4>3. k >= f.at /\ k = e.at
        BY <3>1, <3>2, <4>1
      <4> QED BY <3>1, <4>2, <4>3
    <3> QED BY <3>3
  <2>6. last \subseteq stats /\ IsFiniteSet(last)
    <3>1. last \subseteq stats
      OBVIOUS
    <3> HIDE DEF last, stats
    <3> QED BY <2>1, <3>1, FS_Subset
  <2>7. IsFiniteSet(N)
    <3> HIDE DEF strength, last
    <3> QED BY <2>6, ImageIsFinite
  <2>8. N \subseteq Int /\ N # {}
    <3>1. \A e \in last : strength[e] \in Int
      BY <2>1, <2>6 DEF IsEvidence
    <3> HIDE DEF strength, last
    <3> QED BY <2>5, <3>1
  <2>9. Max(N) \in Int
    <3> HIDE DEF N
    <3> QED BY <2>7, <2>8, MinMax
  <2>10. Time(x) = Max(N)
    <3>1. N = {e.strength : e \in last}
      OBVIOUS
    <3> QED BY <1>2, <3>1 DEF Time
  <2> QED BY <2>9, <2>10
<1> QED BY <1>1, <1>2

LEMMA Multipliers ==
    ASSUME NEW x, NEW d, NEW c
    PROVE  /\ Align(x, d) \in {0, 4, 5} /\ TemplateMult(x, d, c) \in {0, 1, 2}
           /\ Obviousness(x, c) \in {17, 20, 23} /\ IndexMult(x, d) \in {1, 2}
<1>1. Align(x, d) \in {0, 4, 5}
  BY DEF Align
<1>2. TemplateMult(x, d, c) \in {0, 1, 2}
  BY DEF TemplateMult
<1>3. Obviousness(x, c) \in {17, 20, 23}
  BY DEF Obviousness
<1>4. IndexMult(x, d) \in {1, 2}
  BY DEF IndexMult
<1> QED BY <1>1, <1>2, <1>3, <1>4

LEMMA SideFacts == ASSUME NEW c PROVE Side(c) \in {1, 0, -1}
BY DEF Side

(* A score above zero has its detectors, its side and its alignment.       *)
LEMMA FinalFacts ==
    ASSUME NEW x, IsSetting(x), NEW c \in Cluster(x)
    PROVE  /\ Final(x, c) \in Int
           /\ Final(x, c) > 0 =>
                /\ Side(c) # 0 /\ Align(x, Side(c)) # 0
                /\ ~(Cardinality({e \in Votes(c) : e.dir = Side(c)}) < MinDetectors)
<1> DEFINE d == Side(c)
           a == Raw(c)
           align == Align(x, d)
           time == Time(x)
           tm == TemplateMult(x, d, c)
           ob == Obviousness(x, c)
           im == IndexMult(x, d)
           prod == a * align * time * tm * ob * im
           q == Quantize(10 * prod, 16000)
           v == Min({1000, q})
<1>1. a \in Int /\ time \in Int /\ align \in Int /\ tm \in Int /\ ob \in Int /\ im \in Int
  <2>1. align \in {0, 4, 5} /\ tm \in {0, 1, 2} /\ ob \in {17, 20, 23} /\ im \in {1, 2}
    BY Multipliers
  <2> HIDE DEF align, tm, ob, im, a, time
  <2> QED BY <2>1, RawIsInt, TimeIsInt DEF a, time
<1>2. prod \in Int /\ (align = 0 => prod = 0)
  <2> HIDE DEF align, tm, ob, im, a, time
  <2>1. a * align \in Int /\ (align = 0 => a * align = 0)
    BY <1>1
  <2>2. a * align * time \in Int /\ (align = 0 => a * align * time = 0)
    BY <1>1, <2>1
  <2>3. a * align * time * tm \in Int /\ (align = 0 => a * align * time * tm = 0)
    BY <1>1, <2>2
  <2>4. a * align * time * tm * ob \in Int /\ (align = 0 => a * align * time * tm * ob = 0)
    BY <1>1, <2>3
  <2> QED BY <1>1, <2>4
<1>3. q \in Int /\ (prod = 0 => q = 0)
  <2> HIDE DEF prod
  <2> QED BY <1>2 DEF Quantize
<1>4. v \in {1000, q} /\ v <= q /\ v \in Int
  <2>1. 1000 \in Int
    OBVIOUS
  <2>2. v \in {1000, q} /\ v <= q
    <3> DEFINE k == 1000
    <3>1. k \in Int /\ q \in Int
      BY <1>3
    <3> HIDE DEF q, k
    <3>2. Min({k, q}) \in {k, q} /\ Min({k, q}) <= q
      BY <3>1, PairExtremes
    <3> QED BY <3>2 DEF k
  <2> HIDE DEF q, v
  <2> QED BY <1>3, <2>2
<1>5. Final(x, c) = IF Distinct(c) < MinDetectors THEN 0 ELSE v
  BY DEF Final
<1>6. MinDetectors \in Nat \ {0}
  BY ScoringAssumption
<1>7. Distinct(c) = IF d = 0 THEN 0 ELSE Cardinality({e \in Votes(c) : e.dir = d})
  BY DEF Distinct
<1> HIDE DEF v, q, prod, align, d
<1>8. Final(x, c) \in Int
  BY <1>4, <1>5
<1>9. ASSUME Final(x, c) > 0
      PROVE  /\ d # 0 /\ align # 0
             /\ ~(Cardinality({e \in Votes(c) : e.dir = d}) < MinDetectors)
  <2>1. ~(Distinct(c) < MinDetectors) /\ v > 0
    BY <1>5, <1>9
  <2>2. d # 0
    BY <1>6, <1>7, <2>1
  <2>3. align # 0
    BY <1>2, <1>3, <1>4, <2>1
  <2> QED BY <1>7, <2>1, <2>2, <2>3
<1> QED BY <1>8, <1>9 DEF d, align
-----------------------------------------------------------------------------
(* The zones of a setting, and the one that comes first.                   *)

IsZone(z) ==
    IsBand(z) /\ z.dir \in {1, 0, -1} /\ z.final \in Int /\ (z.final > 0 => z.dir # 0)

LEMMA ScoredFacts ==
    ASSUME NEW x, IsSetting(x), NEW c \in Cluster(x)
    PROVE  LET z == Scored(x, c)
           IN  /\ IsZone(z) /\ z.raw \in Int /\ z.lo \in Int
               /\ z.lo = c.lo /\ z.hi = c.hi
               /\ z.dir = Side(c) /\ z.final = Final(x, c)
<1> DEFINE z == Scored(x, c)
<1>1. /\ z.lo = c.lo /\ z.hi = c.hi /\ z.dir = Side(c) /\ z.final = Final(x, c) /\ z.raw = Raw(c)
  BY DEF Scored
<1>2. IsBand(c) /\ c.lo \in Int
  BY ClusterFacts
<1>3. Side(c) \in {1, 0, -1}
  BY SideFacts
<1>4. Final(x, c) \in Int /\ (Final(x, c) > 0 => Side(c) # 0)
  BY FinalFacts
<1>5. Raw(c) \in Int
  BY RawIsInt
<1> HIDE DEF z
<1>6. IsZone(z)
  BY <1>1, <1>2, <1>3, <1>4 DEF IsZone, IsBand
<1> QED BY <1>1, <1>2, <1>4, <1>5, <1>6 DEF z

LEMMA ScoreFacts ==
    ASSUME NEW x, IsSetting(x)
    PROVE  /\ IsFiniteSet(Score(x)) /\ \A z \in Score(x) : IsZone(z)
           /\ Score(x) # {} => Foremost(Score(x)) \in Score(x)
<1> DEFINE C == ToSet(Clusters(x))
           f == [c \in C |-> Scored(x, c)]
           S == Score(x)
<1>1. IsFiniteSet(C) /\ \A c \in C : c \in Cluster(x)
  <2> DEFINE out == Clusters(x)
             D == DOMAIN out
  <2>1. out \in Seq(Cluster(x))
    BY ClustersFacts DEF SweepInv
  <2>2. IsFiniteSet(D)
    <3>1. D = 1 .. Len(out) /\ Len(out) \in Nat
      <4> HIDE DEF out
      <4> QED BY <2>1
    <3> QED BY <3>1, FS_Interval
  <2>3. IsFiniteSet({out[i] : i \in D})
    <3> HIDE DEF out, D
    <3> QED BY <2>2, ImageIsFinite
  <2>4. C = {out[i] : i \in D}
    BY DEF ToSet
  <2> HIDE DEF out
  <2> QED BY <2>1, <2>3, <2>4
<1>2. S = {f[c] : c \in C}
  BY DEF Score
<1>3. IsFiniteSet(S)
  <2> HIDE DEF C, f
  <2> QED BY <1>1, <1>2, ImageIsFinite
<1>4. ASSUME NEW z \in S
      PROVE  IsZone(z) /\ z.final \in Int /\ z.raw \in Int /\ z.lo \in Int
  <2>1. PICK c \in C : z = Scored(x, c)
    BY <1>2
  <2>2. c \in Cluster(x)
    BY <1>1
  <2>3. IsZone(Scored(x, c)) /\ Scored(x, c).raw \in Int /\ Scored(x, c).lo \in Int
    BY <2>2, ScoredFacts
  <2>4. IsZone(z) /\ z.raw \in Int /\ z.lo \in Int
    BY <2>1, <2>3
  <2> QED BY <2>4 DEF IsZone
<1> HIDE DEF S
<1>5. ASSUME S # {} PROVE Foremost(S) \in S
  <2> DEFINE a == [z \in S |-> -z.final]
             b == [z \in S |-> -z.raw]
             n == [z \in S |-> z.lo]
             before(z, y) == \/ z.final > y.final
                             \/ z.final = y.final /\ (z.raw > y.raw \/ (z.raw = y.raw /\ z.lo <= y.lo))
  <2>1. \A z \in S : a[z] \in Int /\ b[z] \in Int /\ n[z] \in Int
    BY <1>4
  <2>2. \E z \in S : \A y \in S : Precedes(a, b, n, z, y)
    <3> HIDE DEF a, b, n
    <3> QED BY <1>3, <1>5, <2>1, FirstExists
  <2>3. ASSUME NEW z \in S, NEW y \in S, Precedes(a, b, n, z, y) PROVE before(z, y)
    <3>1. /\ a[z] = -z.final /\ b[z] = -z.raw /\ n[z] = z.lo
          /\ a[y] = -y.final /\ b[y] = -y.raw /\ n[y] = y.lo
      OBVIOUS
    <3> HIDE DEF a, b, n
    <3> QED BY <1>4, <2>3, <3>1 DEF Precedes
  <2>4. \E z \in S : \A y \in S : before(z, y)
    <3> HIDE DEF a, b, n, before
    <3> QED BY <2>2, <2>3
  <2> QED BY <2>4 DEF Foremost
<1> QED BY <1>3, <1>4, <1>5 DEF S
(* The window of the taught decision holds evidence of the setting.        *)
FreshBy(x, e, w) == IF e.at = x.now THEN Append(w, e) ELSE w
IsFresh(iter, x) ==
    iter = [T \in SUBSET DOMAIN x.evidence |->
               IF T = {} THEN <<>> ELSE FreshBy(x, x.evidence[Max(T)], iter[T \ {Max(T)}])]

LEMMA FreshType ==
    ASSUME NEW x, IsSetting(x) PROVE Fresh(x) \in Seq(Range(x.evidence))
<1> DEFINE D == DOMAIN x.evidence
           E == Range(x.evidence)
           V == Seq(E)
           pick == [T \in SUBSET D |-> Max(T)]
           g == [i \in D |-> [w \in V |-> FreshBy(x, x.evidence[i], w)]]
<1>1. D = 1 .. Len(x.evidence) /\ Len(x.evidence) \in Nat /\ IsFiniteSet(D)
  <2>1. x.evidence \in Seq(E)
    BY DEF IsSetting
  <2>2. D = 1 .. Len(x.evidence) /\ Len(x.evidence) \in Nat
    BY <2>1
  <2> QED BY <2>2, FS_Interval
<1>2. \A T \in SUBSET D : T # {} => Max(T) \in T
  BY <1>1, LastPlace
<1>3. \A T \in SUBSET D : T # {} => pick[T] \in T
  BY <1>2
<1>4. \A i \in D : x.evidence[i] \in E
  BY DEF Range
<1>5. ASSUME NEW i \in D, NEW w \in V PROVE FreshBy(x, x.evidence[i], w) \in V
  <2> DEFINE e == x.evidence[i]
  <2>1. e \in E /\ w \in Seq(E)
    BY <1>4
  <2> HIDE DEF e, E
  <2>2. Append(w, e) \in Seq(E)
    BY <2>1
  <2> QED BY <2>1, <2>2 DEF FreshBy, e
<1>6. \A i \in D : \A w \in V : g[i][w] \in V
  BY <1>5
<1>7. PICK iter : IsFold(iter, D, pick, <<>>, g) /\ \A T \in SUBSET D : iter[T] \in V
  <2>1. <<>> \in V
    OBVIOUS
  <2> HIDE DEF D, V, pick, g
  <2> QED BY <1>1, <1>3, <1>6, <2>1, FoldExists
<1>8. ASSUME NEW T \in SUBSET D, T # {}
      PROVE  Folded(iter, pick, <<>>, g, T) = FreshBy(x, x.evidence[Max(T)], iter[T \ {Max(T)}])
  <2>1. Max(T) \in D /\ T \ {Max(T)} \in SUBSET D /\ pick[T] = Max(T)
    BY <1>2, <1>8
  <2>2. iter[T \ {Max(T)}] \in V
    BY <1>7, <2>1
  <2> QED BY <1>8, <2>1, <2>2 DEF Folded
<1>9. \A T \in SUBSET D : Folded(iter, pick, <<>>, g, T) =
          IF T = {} THEN <<>> ELSE FreshBy(x, x.evidence[Max(T)], iter[T \ {Max(T)}])
  BY <1>8 DEF Folded
<1>10. iter = [T \in SUBSET D |-> Folded(iter, pick, <<>>, g, T)]
  BY <1>7 DEF IsFold
<1>11. IsFresh(iter, x)
  <2> HIDE DEF g, pick
  <2> QED BY <1>9, <1>10 DEF IsFresh
<1>12. \E f : IsFresh(f, x) /\ Fresh(x) = f[D]
  <2>1. \E f : IsFresh(f, x)
    BY <1>11
  <2> QED BY <2>1 DEF IsFresh, FreshBy, Fresh, FoldLeft, MapThenFoldSet
<1>13. PICK f : IsFresh(f, x) /\ Fresh(x) = f[D]
  BY <1>12
<1> DEFINE Good == {T \in SUBSET D : f[T] \in V}
<1>14. ASSUME NEW T \in SUBSET D, \A U \in SUBSET T : U # T => U \in Good PROVE T \in Good
  <2>1. f[T] = IF T = {} THEN <<>> ELSE FreshBy(x, x.evidence[Max(T)], f[T \ {Max(T)}])
    BY <1>13 DEF IsFresh
  <2>2. CASE T = {}
    <3>1. f[T] = <<>>
      BY <2>1, <2>2
    <3>2. <<>> \in V
      OBVIOUS
    <3> HIDE DEF V
    <3> QED BY <3>1, <3>2
  <2>3. CASE T # {}
    <3> DEFINE m == Max(T)
    <3>1. m \in T /\ m \in D
      BY <1>2, <2>3
    <3>2. f[T] = FreshBy(x, x.evidence[m], f[T \ {m}])
      BY <2>1, <2>3
    <3> HIDE DEF m
    <3>3. f[T \ {m}] \in V
      BY <1>14, <3>1
    <3> HIDE DEF V
    <3>4. FreshBy(x, x.evidence[m], f[T \ {m}]) \in V
      BY <1>5, <3>1, <3>3
    <3> QED BY <3>2, <3>4
  <2> QED BY <2>2, <2>3
<1>15. D \in Good
  <2>1. IsFiniteSet(D)
    BY <1>1
  <2> HIDE DEF D, Good, V
  <2>2. \A T \in SUBSET D : T \in Good
    BY <1>14, <2>1, SubsetInduction
  <2> QED BY <2>2
<1> QED BY <1>13, <1>15

LEMMA WindowType ==
    ASSUME NEW x, IsSetting(x) PROVE Window(x) \in Seq(Range(x.evidence))
<1> DEFINE E == Range(x.evidence)
           s == x.evidence
           a == Len(s) - WindowSize + 1
           m == Max({1, a})
           n == Len(s)
<1>1. s \in Seq(E) /\ n \in Nat
  BY DEF IsSetting
<1>2. m \in Int /\ m >= 1
  <2> DEFINE k == 1
  <2>1. a \in Int /\ k \in Int
    BY <1>1, DecisionAssumption
  <2> HIDE DEF a, k
  <2>2. Max({k, a}) \in {k, a} /\ Max({k, a}) >= k
    BY <2>1, PairExtremes
  <2>3. Max({k, a}) \in Int
    BY <2>1, <2>2
  <2> QED BY <2>2, <2>3 DEF k
<1>3. SubSeq(s, m, n) \in Seq(E)
  <2> HIDE DEF s, m, E
  <2> QED BY <1>1, <1>2
<1>4. Fresh(x) \in Seq(E)
  BY FreshType
<1>5. Fresh(x) \o SubSeq(s, m, n) \in Seq(E)
  <2> DEFINE u == Fresh(x)
             v == SubSeq(s, m, n)
  <2>1. u \in Seq(E) /\ v \in Seq(E)
    BY <1>3, <1>4
  <2> HIDE DEF u, v, E
  <2>2. u \o v \in Seq(E)
    BY <2>1
  <2> QED BY <2>2 DEF u, v
<1> QED BY <1>5 DEF Window

LEMMA FirstFacts ==
    ASSUME NEW E, NEW w \in Seq(E), NEW S, S \subseteq DOMAIN w, S # {}
    PROVE  First(w, S) \in E /\ \E i \in S : First(w, S) = w[i]
<1>1. DOMAIN w = 1 .. Len(w) /\ Len(w) \in Nat
  OBVIOUS
<1>2. IsFiniteSet(DOMAIN w) /\ S \subseteq Int
  BY <1>1, FS_Interval
<1>3. IsFiniteSet(S)
  BY <1>2, FS_Subset
<1>4. Min(S) \in S
  BY <1>2, <1>3, MinMax
<1> DEFINE i == Min(S)
<1>5. First(w, S) = w[i]
  BY DEF First
<1> HIDE DEF i
<1>6. i \in S /\ i \in DOMAIN w
  BY <1>4 DEF i
<1> QED BY <1>1, <1>5, <1>6

LEMMA TaughtFacts ==
    ASSUME NEW x, IsSetting(x)
    PROVE  /\ IsFiniteSet(TaughtZones(x)) /\ \A z \in TaughtZones(x) : IsZone(z)
           /\ TaughtZones(x) # {} => Foremost(TaughtZones(x)) \in TaughtZones(x)
<1> DEFINE w == Window(x)
           d == Permit(w)
           e == First(w, Objects(w, d))
           r == 200 * Confirmations(w, d)
           z == [lo |-> e.lo, hi |-> e.hi, dir |-> d, raw |-> r, final |-> 1000]
           asked == \E i \in DOMAIN Fresh(x) : ZoneSignal(Fresh(x)[i])
<1>1. TaughtZones(x) = IF asked /\ Decides(x, w, d) THEN {z} ELSE {}
  BY DEF TaughtZones
<1>2. CASE ~(asked /\ Decides(x, w, d))
  <2>1. TaughtZones(x) = {}
    BY <1>1, <1>2
  <2> QED BY <2>1, FS_EmptySet
<1>3. CASE asked /\ Decides(x, w, d)
  <2>1. TaughtZones(x) = {z}
    <3> HIDE DEF z, w, d
    <3> QED BY <1>1, <1>3
  <2>2. d # 0 /\ Objects(w, d) # {}
    <3> HIDE DEF w, d
    <3> QED BY <1>3 DEF Decides
  <2>3. w \in Seq(Range(x.evidence))
    BY WindowType
  <2>4. IsBand(e)
    <3>1. Objects(w, d) \subseteq DOMAIN w
      BY DEF Objects
    <3>2. e \in Range(x.evidence)
      <4> HIDE DEF w, d
      <4> QED BY <2>2, <2>3, <3>1, FirstFacts
    <3> HIDE DEF e
    <3> QED BY <3>2, GivenFacts DEF IsEvidence
  <2>5. d \in {1, 0, -1}
    <3> HIDE DEF w
    <3>1. CASE Extremes(w) = {}
      BY <3>1 DEF Permit
    <3>2. CASE Extremes(w) # {}
      <4> DEFINE p == First(w, Extremes(w))
      <4>1. Extremes(w) \subseteq DOMAIN w
        BY DEF Extremes
      <4>2. p \in Range(x.evidence) /\ \E i \in Extremes(w) : p = w[i]
        BY <2>3, <3>2, <4>1, FirstFacts
      <4>3. p.detector = "premium_discount"
        BY <4>2 DEF Extremes
      <4>4. d = p.meta.permits
        BY <3>2 DEF Permit
      <4> HIDE DEF p, d
      <4>5. IsEvidence(p)
        BY <4>2, GivenFacts
      <4> QED BY <4>3, <4>4, <4>5 DEF IsEvidence
    <3> QED BY <3>1, <3>2
  <2> HIDE DEF w, d, r, e
  <2>6. IsZone(z)
    BY <2>2, <2>4, <2>5 DEF IsZone, IsBand
  <2>7. z.lo \in Int /\ z.lo <= z.lo
    BY <2>4 DEF IsBand
  <2> HIDE DEF z
  <2>8. Foremost({z}) \in {z}
    <3>1. \A y \in {z} : \/ z.final > y.final
                         \/ z.final = y.final /\ (z.raw > y.raw \/ (z.raw = y.raw /\ z.lo <= y.lo))
      BY <2>7
    <3> QED BY <3>1 DEF Foremost
  <2>9. IsFiniteSet({z})
    BY FS_Singleton
  <2> QED BY <2>1, <2>6, <2>8, <2>9
<1> QED BY <1>2, <1>3
-----------------------------------------------------------------------------
(* What triggers is sound and backed.                                      *)

LEMMA ArmedFacts ==
    ASSUME NEW x, IsSetting(x), NEW p \in Armed(x)
    PROVE  LET zones == ZonesOf(x)
               top   == Foremost(zones)
               opps  == {z \in zones : z.dir = -top.dir}
           IN  /\ top \in zones /\ IsBand(top) /\ top.dir \in {1, -1}
               /\ top.final > 0 /\ GatesPass(x, top.dir, top)
               /\ IsFiniteSet(opps) /\ \A z \in opps : IsBand(z)
               /\ Passes(x, top, EffQty(x), opps) /\ p = PlanOf(x, top, EffQty(x), opps)
<1> DEFINE zones == ZonesOf(x)
           top   == Foremost(zones)
           opps  == {z \in zones : z.dir = -top.dir}
           qty   == EffQty(x)
           good  == /\ zones # {} /\ top.final >= Threshold /\ GatesPass(x, top.dir, top)
                    /\ Rung(x, top.dir, top) >= x.asks.rung
                    /\ x.asks.grade = 0 \/ Grade(x, top.dir, top) >= x.asks.grade
                    /\ Arm(x, top, qty, opps) = ""
<1>1. Armed(x) = IF good THEN {PlanOf(x, top, qty, opps)} ELSE {}
  BY Zenon DEF Armed
<1>2. good /\ p = PlanOf(x, top, qty, opps)
  <2> DEFINE made == PlanOf(x, top, qty, opps)
  <2> HIDE DEF good, made
  <2>1. CASE good
    BY <1>1, <2>1, Zenon
  <2>2. CASE ~good
    <3>1. Armed(x) = {}
      BY <1>1, <2>2, Zenon
    <3> QED BY <3>1, Zenon
  <2> QED BY <2>1, <2>2, Zenon DEF made
<1>3. zones # {} /\ top.final >= Threshold /\ GatesPass(x, top.dir, top) /\ Passes(x, top, qty, opps)
  BY <1>2, Zenon DEF Passes
<1>4. IsFiniteSet(zones) /\ (\A z \in zones : IsZone(z)) /\ (zones # {} => top \in zones)
  BY ScoreFacts, TaughtFacts, Zenon DEF ZonesOf
<1>5. p = PlanOf(x, top, qty, opps)
  BY <1>2, Zenon
<1> HIDE DEF good, zones, top, qty
<1>6. top \in zones /\ IsZone(top)
  BY <1>3, <1>4
<1>7. top.final > 0
  BY <1>3, <1>6, SettingsAssumption DEF IsZone
<1>8. IsBand(top) /\ top.dir \in {1, -1}
  BY <1>6, <1>7 DEF IsZone
<1>9. opps \subseteq zones
  OBVIOUS
<1>10. \A z \in opps : IsBand(z)
  BY <1>4, <1>9 DEF IsZone
<1>11. IsFiniteSet(opps)
  <2> HIDE DEF opps
  <2> QED BY <1>4, <1>9, FS_Subset
<1> HIDE DEF opps
<1>12. /\ top \in zones /\ IsBand(top) /\ top.dir \in {1, -1}
       /\ top.final > 0 /\ GatesPass(x, top.dir, top)
       /\ IsFiniteSet(opps) /\ \A z \in opps : IsBand(z)
       /\ Passes(x, top, qty, opps) /\ p = PlanOf(x, top, qty, opps)
  BY <1>3, <1>5, <1>6, <1>7, <1>8, <1>10, <1>11
<1> QED BY <1>12, Zenon DEF opps, top, zones, qty

LEMMA ArmedIsSound ==
    ASSUME NEW x, IsSetting(x), NEW p \in Armed(x)
    PROVE  SoundStop(x, p) /\ SoundTargets(p) /\ SoundQty(p, EffQty(x))
<1> DEFINE zones == ZonesOf(x)
           top   == Foremost(zones)
           opps  == {z \in zones : z.dir = -top.dir}
           qty   == EffQty(x)
<1>1. IsBand(top) /\ top.dir \in {1, -1} /\ IsFiniteSet(opps) /\ \A z \in opps : IsBand(z)
  BY ArmedFacts, Zenon
<1>2. Passes(x, top, qty, opps) /\ p = PlanOf(x, top, qty, opps)
  BY ArmedFacts, Zenon
<1>3. qty \in Nat
  BY EffQtyFacts
<1> HIDE DEF zones, top, opps, qty
<1> DEFINE made == PlanOf(x, top, qty, opps)
<1>4. SoundStop(x, made) /\ SoundTargets(made) /\ SoundQty(made, qty)
  BY <1>1, <1>2, <1>3, ArmedPlanIsSound, Zenon
<1> QED BY <1>2, <1>4, Zenon DEF qty

(* The body of ArmedWithBacking.                                           *)
Backed(x) ==
    LET z == Foremost(Score(x))
        backers == {e.detector : e \in {f \in Within(x, z) : f.dir = z.dir}}
    IN  /\ IsComponent(x, z)
        /\ z.dir # 0 /\ Cardinality(backers \ NoVote) >= MinDetectors
        /\ x.htf # (IF z.dir = 1 THEN "MARKDOWN" ELSE "MARKUP") /\ x.m15 \in {0, z.dir}
        /\ Template(x) # "UNCLASSIFIED"

LEMMA ArmedIsBacked ==
    ASSUME NEW x, IsSetting(x), x.engine = "confluence", NEW p \in Armed(x)
    PROVE  Backed(x)
<1> DEFINE z == Foremost(Score(x))
           d == z.dir
           W == Within(x, z)
           side == {f \in W : f.dir = d}
           backers == {e.detector : e \in side}
<1>1. ZonesOf(x) = Score(x)
  BY DEF ZonesOf
<1>2. z \in Score(x) /\ d \in {1, -1} /\ z.final > 0 /\ GatesPass(x, d, z)
  BY <1>1, ArmedFacts, Zenon
<1>3. PICK c \in ToSet(Clusters(x)) : z = Scored(x, c)
  BY <1>2 DEF Score
<1>4. c \in Cluster(x)
  BY MembersFacts
<1>5. z.lo = c.lo /\ z.hi = c.hi /\ d = Side(c) /\ z.final = Final(x, c)
  <2>1. /\ Scored(x, c).lo = c.lo /\ Scored(x, c).hi = c.hi
        /\ Scored(x, c).dir = Side(c) /\ Scored(x, c).final = Final(x, c)
    BY <1>4, ScoredFacts
  <2> HIDE DEF z
  <2> QED BY <1>3, <2>1
<1> HIDE DEF z
<1>6. IsComponent(x, z) /\ W = Range(c.members)
  BY <1>5, ClusterIsComponent
<1> DEFINE S == {e \in Votes(c) : e.dir = d}
           N == backers \ NoVote
<1>7. Align(x, d) # 0 /\ ~(Cardinality(S) < MinDetectors)
  <2>1. Final(x, c) > 0
    BY <1>2, <1>5
  <2>2. /\ Align(x, Side(c)) # 0
        /\ ~(Cardinality({e \in Votes(c) : e.dir = Side(c)}) < MinDetectors)
    BY <1>4, <2>1, FinalFacts
  <2> HIDE DEF d
  <2> QED BY <1>5, <2>2
<1>8. x.m15 \in {0, d}
  BY <1>7 DEF Align
<1>9. Template(x) # "UNCLASSIFIED" /\ ~Regime(x, d)
  BY <1>2 DEF GatesPass
<1>10. x.htf # (IF d = 1 THEN "MARKDOWN" ELSE "MARKUP")
  BY <1>2, <1>9 DEF Regime
<1>11. IsFiniteSet(backers)
  <2> DEFINE f == [e \in side |-> e.detector]
             L == LiveOf(x)
  <2>1. side \subseteq L
    BY DEF Within
  <2>2. IsFiniteSet(L)
    BY LiveFacts
  <2>3. IsFiniteSet(side)
    <3> HIDE DEF side, L
    <3> QED BY <2>1, <2>2, FS_Subset
  <2>4. IsFiniteSet({f[e] : e \in side})
    <3> HIDE DEF side, f
    <3> QED BY <2>3, ImageIsFinite
  <2>5. backers = {f[e] : e \in side}
    OBVIOUS
  <2> QED BY <2>4, <2>5
<1>12. IsFiniteSet(N)
  <2> HIDE DEF backers
  <2>1. N \subseteq backers
    OBVIOUS
  <2> QED BY <1>11, <2>1, FS_Subset
<1>13. Cardinality(S) <= Cardinality(N)
  <2> DEFINE f == [e \in S |-> e.detector]
  <2>1. \A e \in S : e \in Best(c.members) /\ e \in side /\ e.detector \notin NoVote
    BY <1>4, <1>6, BestFacts DEF Votes
  <2>2. \A e \in S : e.detector \in N
    <3> HIDE DEF side, S
    <3> QED BY <2>1
  <2>3. \A e, g \in S : e.detector = g.detector => e = g
    BY <1>4, <2>1, BestFacts
  <2>4. f \in Injection(S, N)
    <3> HIDE DEF S, N
    <3> QED BY <2>2, <2>3 DEF Injection, IsInjective
  <2> HIDE DEF f, S, N
  <2> QED BY <1>12, <2>4, FS_Injection
<1>14. Cardinality(N) >= MinDetectors
  <2>1. Cardinality(N) \in Nat /\ MinDetectors \in Nat
    BY <1>12, FS_CardinalityType, ScoringAssumption
  <2>2. IsFiniteSet(S)
    <3> DEFINE B == Best(c.members)
    <3>1. IsFiniteSet(B) /\ S \subseteq B
      BY <1>4, BestFacts DEF Votes
    <3> HIDE DEF B, S
    <3> QED BY <3>1, FS_Subset
  <2>3. Cardinality(S) \in Nat
    BY <2>2, FS_CardinalityType
  <2> HIDE DEF S, N
  <2> QED BY <1>7, <1>13, <2>1, <2>3
<1> QED BY <1>2, <1>6, <1>8, <1>9, <1>10, <1>14 DEF Backed, z
(* The position that is followed is one of PositionManager's: whatever is  *)
(* proved of Spec holds of it.                                             *)
THEOREM FollowsPosition == PSpec => Spec
<1>1. PInit => Init
  BY DEF PInit
<1>2. [PNext]_pvars => [Next]_vars
  BY DEF PNext, pvars
<1> QED BY <1>1, <1>2, PTL DEF PSpec, Spec

(* While there is a verdict, the plan is the one it hands over.            *)
VerdictInv == verdict # NoVerdict => verdict \in Verdicts /\ plan = Handed(verdict.draft)

LEMMA VerdictInvariant == PSpec => []VerdictInv
<1>1. PInit => VerdictInv
  BY DEF PInit, VerdictInv
<1>2. VerdictInv /\ [PNext]_pvars => VerdictInv'
  <2>1. ASSUME PNext PROVE VerdictInv'
    BY <2>1 DEF PNext, VerdictInv
  <2>2. ASSUME VerdictInv, UNCHANGED pvars PROVE VerdictInv'
    <3>1. verdict' = verdict /\ plan' = plan
      BY <2>2 DEF pvars, vars, position
    <3> QED BY <2>2, <3>1 DEF VerdictInv
  <2> QED BY <2>1, <2>2
<1> QED BY <1>1, <1>2, PTL DEF PSpec

LEMMA VerdictFacts ==
    ASSUME VerdictInv, verdict # NoVerdict
    PROVE  /\ IsSetting(verdict.of) /\ verdict.draft \in Armed(verdict.of)
           /\ plan = Handed(verdict.draft)
<1>1. PICK x \in Settings : verdict \in {[of |-> x, draft |-> p] : p \in Triggered(x)}
  BY DEF VerdictInv, Verdicts
<1>2. PICK p \in Triggered(x) : verdict = [of |-> x, draft |-> p]
  BY <1>1
<1>3. verdict.of = x /\ verdict.draft = p
  BY <1>2
<1>4. p \in Armed(x)
  BY DEF Triggered
<1>5. IsSetting(x)
  BY SettingsAssumption
<1> QED BY <1>3, <1>4, <1>5 DEF VerdictInv

(* For every setting that arms and triggers the plan is sound: its risk is *)
(* within the budgets, its stop behind the zone and the swept traps, its   *)
(* targets in order beyond 1.5R, its size throttled and affordable.        *)
THEOREM PlanIsSoundThm == PSpec => []PlanIsSound
<1>1. ASSUME VerdictInv PROVE PlanIsSound
  <2> SUFFICES ASSUME verdict # NoVerdict PROVE PlanIsSound
    BY DEF PlanIsSound
  <2> DEFINE x == verdict.of
             p == verdict.draft
             n == Len(p.targets)
             most == EffQty(x)
  <2>1. IsSetting(x) /\ p \in Armed(x) /\ plan = Handed(p)
    BY <1>1, VerdictFacts
  <2> HIDE DEF x, p
  <2>2. SoundStop(x, p) /\ SoundTargets(p) /\ SoundQty(p, most)
    BY <2>1, ArmedIsSound
  <2>3. /\ p.risk > 0 /\ p.stop = p.entry - p.dir * p.risk /\ ~TooWide(x, p.risk)
        /\ p.signal = {} =>
             /\ 100 * p.risk + 50 >= MinStop * x.atr
             /\ \A z \in {p.zone} \cup {y \in LevelsOf(x) : Overlaps(y, p.zone)
                                                          /\ WasIn(y, {"SWEPT"})} :
                    p.dir * (Far(p.dir, z) - p.stop) >= 0
    BY <2>2, Zenon DEF SoundStop, Behind, Guarded
  <2>4. n \in 1 .. 3 /\ \A i \in 1 .. n - 1 : p.targets[i] < p.targets[i + 1]
    BY <2>2 DEF SoundTargets, Ascends
  <2>5. 10 * p.targets[1] >= 15 * p.risk
    BY <2>2 DEF SoundTargets
  <2>6. plan.goal # None => plan.goal <= p.targets[1]
    <3>1. plan.goal = IF MappedR(p.signal) = {} THEN None
                      ELSE (Max(MappedR(p.signal)) * p.risk + 9) \div 10
      BY <2>1 DEF Handed, Tenths
    <3>2. CASE MappedR(p.signal) = {}
      BY <3>1, <3>2
    <3>3. CASE MappedR(p.signal) # {}
      <4>1. plan.goal = (Max(MappedR(p.signal)) * p.risk + 9) \div 10
        BY <3>1, <3>3
      <4>2. (Max(MappedR(p.signal)) * p.risk + 9) \div 10 <= p.targets[1]
        BY <2>2, <3>3 DEF SoundTargets
      <4> QED BY <4>1, <4>2
    <3> QED BY <3>2, <3>3
  <2>7. p.qty \in 1 .. most /\ p.qty * p.risk <= RiskBudget /\ p.qty * p.entry <= Notional
    BY <2>2 DEF SoundQty
  <2>8. ASSUME \A s \in ToSet(Throttles(x)) : s <= 100 PROVE p.qty <= MaxQty
    <3>1. most \in Nat /\ most <= MaxQty
      BY <2>1, <2>8, EffQtyFacts
    <3>2. MaxQty \in Nat
      BY SettingsAssumption
    <3> HIDE DEF most
    <3> QED BY <2>7, <3>1, <3>2
  <2> QED BY <2>3, <2>4, <2>5, <2>6, <2>7, <2>8, Zenon DEF PlanIsSound, x, p
<1> QED BY <1>1, VerdictInvariant, PTL

(* For every setting the confluence engine arms on, the evidence is one    *)
(* connected group, enough detectors back it, and no veto stands.          *)
THEOREM ArmedWithBackingThm == PSpec => []ArmedWithBacking
<1>1. ASSUME VerdictInv PROVE ArmedWithBacking
  <2> SUFFICES ASSUME verdict # NoVerdict, verdict.of.engine = "confluence"
               PROVE  Backed(verdict.of)
    BY DEF ArmedWithBacking, Backed
  <2>1. IsSetting(verdict.of) /\ verdict.draft \in Armed(verdict.of)
    BY <1>1, VerdictFacts
  <2> QED BY <2>1, ArmedIsBacked
<1> QED BY <1>1, VerdictInvariant, PTL
=============================================================================
