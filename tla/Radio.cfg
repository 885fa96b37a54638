SPECIFICATION Spec
CONSTANTS
    Channels = {2, 80}
    Powers = {"low", "max", "extra"}
INVARIANTS GoConfigured RcCalibrated
