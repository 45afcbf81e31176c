SPECIFICATION Spec
CONSTANTS
    Ids = {a, b}
    Cells = {c1, c2}
    Graders = {g1, g2}
    Scores = {s1}
    Bad = Bad
    Absent = Absent
    Cases <- Given
    MaxRuns = 2
    a = a
    b = b
    c1 = c1
    c2 = c2
    g1 = g1
    g2 = g2
    s1 = s1
INVARIANTS Inductive PassIsFaithful TotalsAddUp PassAgreesWithSource RightPasses
