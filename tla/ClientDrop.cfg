SPECIFICATION Spec
CONSTANTS
    Tokens = {t1}
    ConnectTimeout = 1
    RxTimeout = 1
    PingInterval = 1
    BaseBackoff = 1
    MaxBackoff = 2
    NoToken = NoToken
PROPERTIES DropOnlyOnSilence
