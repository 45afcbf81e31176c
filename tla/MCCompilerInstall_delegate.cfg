SPECIFICATION Spec
CONSTANTS
    Installers = {i1}
    Launchers = {l1}
    Revs = {old, new}
    Reviewed = {old, new}
    Tree <- Commits
    Declares = {new}
    Parses = {old, new}
    MaxDrift = 0
    Base <- SixFiles
    Wrapper = wrapper
    Entry = entry
    Helper = helper
    old = old
    new = new
    broken = broken
    stray = stray
    entry = entry
    wrapper = wrapper
    helper = helper
    Other = Other
    Missing = Missing
    None = None
    Unmanaged = Unmanaged
INVARIANTS HashedBeforeDelegation
CHECK_DEADLOCK FALSE
