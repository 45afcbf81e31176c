CONSTANTS
    Runs = {r1, r2, r3}
    Writers = {w1}
    Nobody = Nobody
    GovernDb = GovernDb
    CompileDb = CompileDb
    Tiers = {}
    Governed = {GovernDb}
    Required = {}
    Compared = {}
    Retain = 2
    HaveFlock = TRUE
    OffHost = {"r2", "vps"}
    MaxGen = 1
SYMMETRY RunSymmetry
SPECIFICATION Spec
INVARIANTS
    RestorableFloor
    MarkersAreHonest
    ExitIsReported
    OffHostIsProved
PROPERTIES
    RetentionCounts
    OffHostFloor
