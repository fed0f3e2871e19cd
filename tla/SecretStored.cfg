SPECIFICATION ControlSpec
CHECK_DEADLOCK FALSE
CONSTANTS
    r1 = r1
    r2 = r2
    s1 = s1
    s2 = s2
    Requests <- MCRequests
    Seeds <- MCSeeds
    Labels <- MCLabels
    Hosts <- MCHosts
    MaxRestarts = 1
SYMMETRY Symmetry
INVARIANT SecretIsStored
