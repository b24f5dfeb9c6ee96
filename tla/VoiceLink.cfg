SPECIFICATION Spec
CONSTANTS
    RxTimeout = 1
    SessionTimeout = 2
    TokenTtl = 4
    Faults = {"req", "ack", "nak", "up", "down", "late"}
    MaxFaults = 2
    MaxLeaves = 1
    MaxOutage = 6
    Names = {1, 2, 3, 4, 5}
INVARIANTS BackInTime
PROPERTIES LinkSettles
