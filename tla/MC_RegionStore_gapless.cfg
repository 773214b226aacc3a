CONSTANTS
    k1 = k1  k2 = k2  a1 = a1  a2 = a2  v1 = v1  v2 = v2  t1 = t1  t2 = t2
    Keys <- MC_Keys
    Attrs <- MC_Attrs
    IndexedAttrs <- MC_IndexedAttrs
    Vals <- MC_Vals
    Threads <- MC_Threads
    MaxSeq = 4
    Absent = Absent
SPECIFICATION Spec
INVARIANT TransferLogGapless
