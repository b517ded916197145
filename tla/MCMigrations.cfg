SPECIFICATION Spec
CONSTANTS
    p1 = p1
    p2 = p2
    p3 = p3
    v1 = v1
    v2 = v2
    v3 = v3
    Proc = {p1, p2, p3}
    Release = {v1, v2, v3}
    Dir <- MCDir
    Content = {"a", "b"}
    Rerunnable = {4}
    Legacy <- MCLegacy
SYMMETRY Symmetry
INVARIANTS
    RecordMatchesSchema
    ServedSchema
