CONSTANTS
    Sub = Sub
    Base = Base
    Peer = Peer
    Face = Face
    Root = Root
    Classes = {Sub, Base, Face, Root}
    Super <- Hierarchy
    Interfaces <- Implements
    Declares = {Root}
    HasDefaults = {Sub, Face, Root}
    Uses <- BaseUses
    Failing = {Root}
    Unverifiable = {}
    Threads = {t1, t2}
    MaxCalls = 2
    None = None
SPECIFICATION Spec
INVARIANT LegalTransitions
CHECK_DEADLOCK FALSE
