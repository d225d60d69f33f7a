SPECIFICATION Spec
CONSTANTS
    MaxDns = 2
    ReconModulus = 8
PROPERTY ReconnectConnects
