CONSTANTS
    Client = {c1, c2}
    Absent = Absent
    Keep = Keep
    Main = Main
    Feature = {b1, b2}
    Row = {r1}
    Val = {v1, v2}
    Tomb = Tomb
    MaxBegins = 3
SPECIFICATION Spec
SYMMETRY Symmetry
PROPERTIES
    WritesStayOnBranch
    MergeShowsBranch
    BranchReadsRepeat
CHECK_DEADLOCK FALSE
