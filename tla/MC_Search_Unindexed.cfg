CONSTANTS
    a1 = a1  t1 = t1
    Keys <- MC_Keys
    Attrs <- MC_Attrs
    IndexedAttrs <- MC_Unindexed
    Vals <- MC_Vals
    Threads <- MC_Threads
    MaxSeq = 3
    MaxSearches = 1
    Absent = Absent
    Region = 1
    KeyAttr = KeyAttr
    BadAttr = BadAttr
    MaxChecks = 2
    OtherObjs <- MC_OtherObjs
SPECIFICATION Spec
INVARIANT SearchComplete
