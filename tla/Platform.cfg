\* Four tasks at start-up; three faults; two measured tasks; two printing
\* tasks on rings of three; a network ring of two; CAN with three frames;
\* three calls of the sensor drivers.
SPECIFICATION PlatformSpec
\* A CPU that halts in the fault handler, and the bounds, end a behaviour.
CHECK_DEADLOCK FALSE
CONSTANTS
    TASK_MAX = 4
    IdleTask = IdleTask
    NULL = NULL
    Main = Main
    WaitList = {}
    Plan <- MCDistinct
    MaxFaults = 3
    IwdgTicks = 2
    KickTicks = 1
    AskedTimeout = {0, 1, 1000, 32760, 40000}
    Worker = {w1, w2}
    MONITOR_MAX = 1
    ClockModulus = 6
    Budgets = {1}
    MaxCycles = 2
    JitterPeriod = 2
    MaxMarks = 2
    STACK_SIZE = 6
    STACK_SCAN_START_INDEX = 2
    CANARY_INDEX = 1
    Printer = {p1, p2}
    Nobody = Nobody
    UART_TX_BUF_SIZE = 3
    UART_RX_BUF_SIZE = 3
    MaxChars = 4
    StringLength = 2
    ETH_NUM_TX_DESC = 2
    ETH_NUM_RX_DESC = 2
    ETH_BUF_SIZE = 2
    FrameSizes = {1, 2, 3}
    MaxFrames = 3
    FDCAN_TIMEOUT = 2
    MaxCan = 3
    BurstLength = 2
    Pressure = {2, 6}
    StandardPressure = 4
    ZeroSamples = {0, 2}
    MaxSensorCalls = 3
INVARIANTS
    StartsCleanly
    FaultReportedOnce
    FaultRecordWhole
    IwdgTimeoutKept
    MonitorsTrue
    UartLosesNothing
    EthRingsFifo
    FlexcanTransmitTrue
    CanReceiveWhole
    
