CONSTANTS
    Runs = {r1, r2}
    Writers = {w1}
    Nobody = Nobody
    GovernDb = GovernDb
    CompileDb = CompileDb
    Tiers = {raw, audit, wiki}
    Governed = {GovernDb, audit}
    Required = {raw}
    Compared = {audit}
    Retain = 1
    HaveFlock = TRUE
    OffHost = {"r2", "vps"}
    MaxGen = 2
SPECIFICATION Spec
INVARIANTS
    UnrestorableIsDeleted
