SPECIFICATION DeviceSpec
CONSTANTS
    MaxDns = 2
    ReconModulus = 8
    N = 3
    Sample = {s1}
    MaxCnt = 4
INVARIANTS
    ActiveDeviceCanJoin
    NextStepPending
    BatchUploaded
PROPERTIES
    IsSamplingCycle
    SleepsWhenReachable
    DeviceKeepsUploading
