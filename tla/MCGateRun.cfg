SPECIFICATION Spec
CONSTANTS
    GateCount = 14
    KindOrder <- AllKinds
    Dimensions <- AllDimensions
    Endings <- AllEndings
    Tools <- AllTools
    NoTool = "none"
    Files = {"f", "g"}
    Names = {"m", "n"}
    Layers = {"unit", "perf"}
    Wired = {"gitleaks", "semgrep", "syft"}
    Generators = {"syft"}
    Bundled = {"conform-skillmd"}
    Linted = {"conform-action"}
    Families <- Given
INVARIANTS TypeOK LoopsKeep ProfileIsUnion FailIsOrdered FailClosedIsClosed FirstOfHighestDecides SkippedIsUnmeasured PassedMethodsAreWithinWalls
