CONSTANTS
    f1 = f1
    f2 = f2
    w1 = w1
    c1 = c1
    c2 = c2
    c3 = c3
    c4 = c4
    t1 = t1
    t2 = t2
    Fields = {f1, f2}
    Areas = {w1}
    Cells = {c1, c2, c3, c4}
    Tiles = {t1, t2}
    TileOf <- MCTileOf
    FieldExtent <- MCFieldExtent
    AreaExtent <- MCAreaExtent
    Bundles <- MCBundles
    NoField = NoField
    NoArea = NoArea
SPECIFICATION Spec
INVARIANTS
    NoSiblingDenied
