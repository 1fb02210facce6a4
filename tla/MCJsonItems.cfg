\* Any calls on at most four items, with memory for all, for some or for none.
SPECIFICATION Spec
CONSTANTS
    NULL = NULL
    Items = {i1, i2, i3, i4}
    Spares = {s1, s2, s3, s4}
    Types = {"String", "Array", "Object"}
    Names = {a}
    ConstNames = {A}
    Lower <- MCLower
    Allocs = {1, 2, 3, 5, 12}
    Indices <- MCIndices
SYMMETRY Symmetry
INVARIANTS
    Linked
    MemoryCounted
    CopiesAreWhole
PROPERTIES
    RefinesForest
