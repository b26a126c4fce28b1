CONSTANTS
    Cells = {c1, c2, c3}
    Data = {a, b}
    NoData = NoData
    NULL = NULL
    Keys = {1, 2, 3, 4, 5, 6}
    Values <- TwoOfTwo
    NoValue = NoValue
    TableKeys = {1, 2, 3, 4}
    TableValues = {v, w}
    TableHash <- HashByThree
    BucketCounts = {1, 2, 3}
    Trees = {1, 2, 3}
    MaxNodes = 3
SPECIFICATION StructsSpec
SYMMETRY Symmetry
VIEW View
INVARIANTS
    ListSound
    TreeShape
PROPERTIES
    Refines
    TreeRefines
    TableRefines
    BiTreeRefines
