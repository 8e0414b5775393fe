\* The pipe, a listener and connections on three numbers, five files in all.
CONSTANTS
    d0 = d0
    d1 = d1
    d2 = d2
    d3 = d3
    None = None
    Fds <- FourDescriptors
    PipeFd = d0
    MaxFiles = 5
SYMMETRY DescriptorSymmetry
SPECIFICATION Spec
INVARIANTS
    TypeOK
    TablesAgree
    AliveIsOpen
PROPERTIES
    EventsReachOwner
CHECK_DEADLOCK FALSE
