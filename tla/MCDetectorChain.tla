--------------------------- MODULE MCDetectorChain ---------------------------
(***************************************************************************)
(* DetectorChain with small bounds for TLC: three cached tapes of nine     *)
(* bars, each chosen so that the bars to come reach what the others do not *)
(* (two grabs of one leg; a kid wider than its parent, which breaks first;  *)
(* a box that fires and dies), and five shapes of the next bar: a rise, a  *)
(* fall, a long tail below or above, and a rise from an opening gap.       *)
(***************************************************************************)
EXTENDS DetectorChain

LOCAL B(o, h, l, c) == [o |-> o, h |-> h, l |-> l, c |-> c]

MCShapes == {B(0, 2, 0, 2), B(0, 0, -2, -2), B(0, 1, -3, 1), B(0, 3, -1, -1),
             B(-5, 1, -5, 1)}

MCSeeds == {
  <<B(3,4,2,3), B(3,5,3,5), B(5,5,3,4), B(4,4,3,3), B(3,3,2,3),
    B(3,5,2,5), B(5,7,5,6), B(6,6,5,6), B(6,6,6,6)>>,
  <<B(4,5,3,4), B(4,7,3,3), B(3,5,3,5), B(5,7,5,7), B(2,8,2,8),
    B(8,9,5,9), B(9,9,7,7), B(2,8,2,8), B(8,8,6,6)>>,
  <<B(3,4,2,3), B(3,7,3,6), B(6,7,6,7), B(7,9,4,5), B(5,5,5,5),
    B(5,5,3,5), B(5,5,3,3), B(3,5,3,5), B(5,8,4,4)>>}
=============================================================================
