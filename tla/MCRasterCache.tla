--------------------------- MODULE MCRasterCache ---------------------------
(* An instance of RasterCache for TLC: two fields over two tiles. *)
EXTENDS RasterCache

CONSTANTS f1, f2, w1, c1, c2, c3, c4, t1, t2

MCTileOf == [c \in Cells |-> IF c \in {c1, c2} THEN t1 ELSE t2]

(* f1 straddles the tiles, f2 lies in one; w1 reaches beyond f1. *)
MCFieldExtent == [f \in Fields |-> IF f = f1 THEN {c1, c3} ELSE {c2}]
MCAreaExtent == [w \in Areas |-> {c2, c3, c4}]

J(fn, field, area) == [fn |-> fn, field |-> field, area |-> area]

MCBundles ==
    {<<J("elev", f1, NoArea), J("flow", f1, NoArea), J("maps", f1, NoArea)>>,
     <<J("local", f1, w1), J("maps", f1, w1), J("flow", f1, w1)>>,
     <<J("maps", f1, w1), J("grid", f1, w1), J("maps", f1, w1)>>,
     <<J("local", f2, NoArea), J("elev", f2, NoArea)>>,
     <<J("elev", f1, NoArea), J("flow", f2, w1)>>}

=============================================================================
