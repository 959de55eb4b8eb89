SPECIFICATION Spec
CONSTANTS
    Platforms = {"linux", "darwin", "winuser", "winkernel"}
    Freqs = {3, 6, 10, 11, 13}
    Half = 8
    UsPerMs = 2
    MsPerSec = 3
    NsPerUs = 2
    Ns100PerMs = 2
    Durations = {0, 1, 5, 8, 14, 15}
    Skews = {0, 5}
    MaxNow = 255
    MaxLate = 1
    MaxSet = 10
INVARIANTS TimeIsExact ElapsedIsMeasured OrderIsKept RoundTripLosesNothing WaitsEndInTime
PROPERTY WaitsLastAsAsked
CHECK_DEADLOCK FALSE
