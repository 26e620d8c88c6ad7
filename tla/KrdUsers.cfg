SPECIFICATION Spec
CONSTANTS
    kr = kr
    git = git
    me = me
    Kr = kr
    Git = git
    Callers = {kr, git, me}
    None = None
    HasGPG = TRUE
    Objects <- MCObjects
    HostLists <- MCHostLists
INVARIANTS
    TypeOK
    OldStaysPaired
    PairingsKept
    HostsSeeTheOldPhone
    TransferEndsOnTheNewPhone
    ServicesAsked
    ExitZeroMeansSigned
    PhoneSignsTheObject
CONSTRAINT Undisturbed
