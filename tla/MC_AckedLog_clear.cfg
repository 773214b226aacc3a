CONSTANTS
    Width = 2
    Regions <- MC_Regions
    Seqs <- MC_Seqs
SPECIFICATION Spec
INVARIANT ClearRemovesAllBelow
