CONSTANTS
    Process = {"p", "q"}
    Thread = {1, 2}
    MaxKeys = 0
    MaxFaults = 1
SPECIFICATION Spec
PROPERTY RetryIsLoggedIn
