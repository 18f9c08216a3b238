CONSTANTS
    Client = {c1, c2}
    Absent = Absent
    Keep = Keep
    Main = Main
    Feature = {b1}
    Row = {r1}
    Val = {v1, v2}
    Tomb = Tomb
    MaxBegins = 3
SPECIFICATION MCSpec
PROPERTY MergeAborts
CHECK_DEADLOCK FALSE
