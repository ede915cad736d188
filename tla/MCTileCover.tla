---------------------------- MODULE MCTileCover ----------------------------
(* An instance of TileCover for TLC: boxes about two degree lines each way. *)
EXTENDS TileCover

MCXs == {-406, -404, -401, -400, -399, -396}
MCYs == {159, 160, 162, 164, 165, 168, 171}

MCBoxes == {b \in [w : MCXs, s : MCYs, e : MCXs, n : MCYs] : b.w <= b.e /\ b.s <= b.n}

B(w, s, e, n) == [w |-> w, s |-> s, e |-> e, n |-> n]

(* Two fields apart, one across a corner. *)
MCBoundaries ==
    {<<b>> : b \in MCBoxes}
        \union {<<>>, <<B(-400, 164, -396, 165), B(-406, 165, -401, 171)>>}

MCAreas ==
    {<<>>, <<NoBox>>, <<NoBox, B(-401, 159, -396, 162)>>,
     <<B(-406, 168, -404, 171), NoBox, B(-399, 159, -396, 171)>>}

=============================================================================
