-------------------------------- MODULE D8 ---------------------------------
(***************************************************************************)
(* Drainage over a grid of cells, as r.watershed gives it to               *)
(* app/grass_handler.py: each cell drains to one of its eight neighbours,  *)
(* and has a flow accumulation. The rows run south, the columns east.      *)
(***************************************************************************)
EXTENDS Integers, Sequences, FiniteSets

CONSTANTS
    Rows, Cols,    \* the shape of the arrays
    Straight,      \* the length of a step along a row or a column
    Diagonal,      \* and of a diagonal one: 1.41421356 steps
    NoMask         \* the field could not be rasterised

ASSUME GridAssumption ==
    Rows \in Nat \ {0} /\ Cols \in Nat \ {0} /\ Straight \in Nat \ {0} /\ Diagonal \in Nat \ {0}

Cells == (0 .. Rows - 1) \X (0 .. Cols - 1)

(* What GRASS and the field's rasterisation make of a DEM. *)
Terrain == [dir : [Cells -> Int],   \* drainage, negative where it leaves the map
            acc : [Cells -> Int],   \* accumulation, negative where some came from off the map
            unit : [Cells -> Nat],  \* half-basin, 0 for none
            field : SUBSET Cells \union {NoMask}]

Magnitude(n) == IF n < 0 THEN -n ELSE n

(* _D8_DELTAS: code -> (drow, dcol). *)
Deltas == << <<-1, 1>>, <<-1, 0>>, <<-1, -1>>, <<0, -1>>, <<1, -1>>, <<1, 0>>, <<1, 1>>, <<0, 1>> >>

(* Cell c of terrain t has a direction, and d is the cell it points at. *)
Points(t, c, d) ==
    LET code == Magnitude(t.dir[c])
    IN  /\ code \in 1 .. 8
        /\ d = <<c[1] + Deltas[code][1], c[2] + Deltas[code][2]>>

(* Cell c drains into cell d of the map. *)
Drains(t, c, d) == d \in Cells /\ Points(t, c, d)

(* _divide_mask: the cells no neighbour drains into. *)
Divides(t) == {d \in Cells : ~ \E c \in Cells : Drains(t, c, d)}

(* _channel_heads: the channel cells no channel cell drains into. *)
ChannelHeads(t, mask) == {d \in mask : ~ \E c \in mask : Drains(t, c, d)}

(* A step from c to d is diagonal. *)
StepLength(c, d) == IF c[1] # d[1] /\ c[2] # d[2] THEN Diagonal ELSE Straight

(* _path_length_cells. *)
PathLength(p) ==
    LET upTo[i \in 1 .. Len(p)] == IF i = 1 THEN 0 ELSE upTo[i - 1] + StepLength(p[i - 1], p[i])
    IN  IF p = <<>> THEN 0 ELSE upTo[Len(p)]

(* The order of np.argwhere. *)
Earlier(c, d) == c[1] < d[1] \/ (c[1] = d[1] /\ c[2] < d[2])

(* A box of k cells around a cell. *)
Near(c, d, k) == Magnitude(c[1] - d[1]) <= k /\ Magnitude(c[2] - d[2]) <= k

CellsOf(p) == {p[i] : i \in 1 .. Len(p)}

=============================================================================
