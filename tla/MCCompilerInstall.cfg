SPECIFICATION Spec
CONSTANTS
    Installers = {i1, i2}
    Launchers = {}
    Revs = {old, new, stray}
    Reviewed = {old, new}
    Tree <- Commits
    Declares = {new}
    Parses = {old, new}
    MaxDrift = 0
    Base <- SixFiles
    Wrapper = wrapper
    Entry = entry
    Helper = helper
    old = old
    new = new
    broken = broken
    stray = stray
    entry = entry
    wrapper = wrapper
    helper = helper
    Other = Other
    Missing = Missing
    None = None
    Unmanaged = Unmanaged
INVARIANTS ReleasesAreWhole FailureRetainsCurrent
PROPERTIES RollbackPointsBack ImplementsAtomicInstall
CHECK_DEADLOCK FALSE
