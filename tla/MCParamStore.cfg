SPECIFICATION Spec
CONSTANTS
    Token = {t1}
    NoToken = NoToken
    FactoryToken = FactoryToken
    Torn = Torn
    FlagByte <- MCFlagByte
INVARIANTS
    BlockKept
    ActiveIsRegistered
PROPERTY ImplementsRegister
