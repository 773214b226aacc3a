CONSTANTS
    Captures <- MC_Captures
    InitCaptured <- MC_InitCaptured
    MaxSeq = 2
    MaxReconfigs = 1
    MaxWipes = 1
SPECIFICATION Spec
INVARIANT WipeReportedEachSweep
