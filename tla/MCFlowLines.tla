---------------------------- MODULE MCFlowLines ----------------------------
(* An instance of FlowLines for TLC: a grid of two rows and four columns. *)
EXTENDS FlowLines

(* A grid from its two rows. *)
Grid(north, south) == [c \in Cells |-> IF c[1] = 0 THEN north[c[2] + 1] ELSE south[c[2] + 1]]

(* Directions: southward and along, to and fro, off the map, none. *)
Dirs ==
    {Grid(<<a, b, c, d>>, <<e, f, g, h>>) :
        a \in {8, 6}, b \in {8}, c \in {4, 6, 8}, d \in {6, -8},
        e \in {8, 0}, f \in {8, 4, 2}, g \in {4, 3}, h \in {-6, 4}}

(* The accumulation the directions make: the cells whose water reaches a   *)
(* cell, negative where the cell drains off the map. No way is longer than *)
(* seven steps.                                                            *)
Accumulation(dir) ==
    LET down == [c \in Cells |->
                    LET ds == {d \in Cells : Drains([dir |-> dir], c, d)}
                    IN  IF ds = {} THEN c ELSE CHOOSE d \in ds : TRUE]
        two == [c \in Cells |-> {c, down[c], down[down[c]]}]
        four == [c \in Cells |-> UNION {two[d] : d \in two[c]}]
        all == [c \in Cells |-> UNION {four[d] : d \in four[c]}]
        n(c) == Cardinality({b \in Cells : c \in all[b]})
    IN  [c \in Cells |-> IF dir[c] < 0 THEN -n(c) ELSE n(c)]

(* Half-basins, and the field over them, which may be known or not. *)
Units ==
    {Grid(<<1, 1, 1, 1>>, <<1, 1, 1, 1>>), Grid(<<1, 1, 2, 2>>, <<1, 1, 2, 2>>), Grid(<<1, 1, 1, 0>>, <<2, 2, 2, 2>>)}

Fields == {NoMask, {<<0, 1>>, <<0, 2>>, <<1, 1>>}, {<<0, 3>>}}

MCTerrains ==
    UNION {LET flow == Accumulation(d)
           IN  {[dir |-> d, acc |-> flow, unit |-> u, field |-> f] : u \in Units, f \in Fields} : d \in Dirs}

MCOptions ==
    {[maxLines |-> 1, channel |-> 3, minScore |-> 20, draw |-> 2, maxDraws |-> 0, minUnique |-> 0],
     [maxLines |-> 2, channel |-> 7, minScore |-> 0, draw |-> 1, maxDraws |-> 3, minUnique |-> 2]}

=============================================================================
