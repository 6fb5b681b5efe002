CONSTANTS
    core1 = core1
    core2 = core2
    other = other
    Objects <- MCObjects
    m_periph_port <- MCPorts
    LINK_OPEN_MAX = 2
    UtilName = "adc"
    UtilTotal = 1
SYMMETRY Symmetry
SPECIFICATION Spec
INVARIANTS
    TypeOK
    TableTrue
    OwnDevice
    OthersSafe
