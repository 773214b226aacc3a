CONSTANTS
    Captures <- MC_Captures
    InitCaptured <- MC_InitCaptured
    MaxSeq = 2
    MaxReconfigs = 2
    MaxWipes = 1
SPECIFICATION Spec
PROPERTY GCSpec
PROPERTY ReconfigurationCompletes
PROPERTY ObsoleteTransfersCleaned
PROPERTY CleanerExits
