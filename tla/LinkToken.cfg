SPECIFICATION HarshSpec
CONSTANTS
    RxTimeout = 1
    SessionTimeout = 2
    TokenTtl = 4
    Faults = {"token", "crash"}
    MaxFaults = 1
    MaxLeaves = 1
    MaxOutage = 6
    Names = {1, 2, 3, 4, 5}
PROPERTIES LinkSettles
