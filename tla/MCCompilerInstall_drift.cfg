SPECIFICATION Spec
CONSTANTS
    Installers = {i1}
    Launchers = {l1}
    Revs = {new, broken}
    Reviewed = {new, broken}
    Tree <- Commits
    Declares = {new, broken}
    Parses = {new, broken}
    MaxDrift = 1
    Base <- SixFiles
    Wrapper = wrapper
    Entry = entry
    Helper = helper
    old = old
    new = new
    broken = broken
    stray = stray
    entry = entry
    wrapper = wrapper
    helper = helper
    Other = Other
    Missing = Missing
    None = None
    Unmanaged = Unmanaged
INVARIANTS TypeOK Inductive VerifiedBeforeSwitch CleanRunIsPinned
CHECK_DEADLOCK FALSE
