SPECIFICATION FairSpec
CONSTANTS
    Orders = {o1}
    MaxFaults = 2
    MaxRequests = 4
INVARIANTS CompleteIsCurrent
PROPERTIES RunKeepsItsSession LoginsAreSpaced BookHeals
