SPECIFICATION Spec
CONSTANTS
    Tokens = {t1, t2}
    ConnectTimeout = 1
    RxTimeout = 1
    PingInterval = 0
    BaseBackoff = 1
    MaxBackoff = 2
    NoToken = NoToken
INVARIANTS MarkFresh StopFinal
PROPERTIES StopTerminates SilenceDetected Heartbeat TokenPresented
