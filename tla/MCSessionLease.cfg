CONSTANTS
    Sessions = {s1, s2}
    Owners = {o1}
    Callers = {c1, c2}
    NoLease = NoLease
    NoCaller = NoCaller
    TTLs = {2}
    MaxTime = 5
    MaxFaults = 1
SPECIFICATION LeaseSpec
SYMMETRY Symmetric
INVARIANTS
    LeaseTypeOK
    OneLiveTenure
    CurrentIsOneTenure
PROPERTY ImplementsExclusiveLease
