CONSTANTS
    k1 = k1  k2 = k2  a1 = a1  a2 = a2  v1 = v1  v2 = v2  t1 = t1  t2 = t2
    Keys <- MC_Keys
    Attrs <- MC_Attrs
    IndexedAttrs <- MC_IndexedAttrs
    Vals <- MC_Vals
    Threads <- MC_Threads
    MaxSeq = 4
    Absent = Absent
    Width = 3
    Regions <- MC_Regions
    Leaders <- MC_Leaders
    StoreRegion = 1
    PriorAcks <- MC_PriorAcks
SPECIFICATION DSpec
SYMMETRY MC_Symmetry
INVARIANT IndexConsistent
INVARIANT TransferReplayMatches
INVARIANT AckedMaxIsHighest
