SPECIFICATION DriversSpec
CONSTANTS
    Debounce = 2
    Long = 5
    PWM_CHANNEL = 3
    Settings <- MCSettings
    Byte = {0, 165, 255, 78}
    Pulses = 28
    Sent = {5, 301}
    RX_BUFF_SIZE = 2
    RxFifo = 3
    TrigLvl = 2
    TxFree = 2
INVARIANTS
    DriversTypeOK
    Resynchronises
    LongPressIsOne
    PressFires
    TransferKept
    FrameIsAsked
    SlaveInStep
    UartKept
PROPERTIES
    PlayedRightly
    BitsAreNoConditions
    RegistersHeld
