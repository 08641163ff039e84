CONSTANTS
    Sub = Sub
    Base = Base
    Peer = Peer
    Face = Face
    Root = Root
    Classes = {Sub, Peer, Base, Face, Root}
    Super <- Hierarchy
    Interfaces <- Implements
    Declares = {Face, Root}
    HasDefaults = {Sub, Peer, Face, Root}
    Uses <- BothUse
    Failing = {Base, Root}
    Unverifiable = {Sub}
    Threads = {t1, t2}
    MaxCalls = 2
    None = None
SPECIFICATION FairSpec
INVARIANTS RunOnce UsableWhenReturned SupersFirst
PROPERTY InitializeReturns
CHECK_DEADLOCK FALSE
