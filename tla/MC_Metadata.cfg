CONSTANTS
    v_current = v_current  v_rc1 = v_rc1  v_rc2 = v_rc2  v_old = v_old
    PackageVersion = v_current
    Legacy <- MC_Legacy
    Foreign <- MC_Foreign
    NoValue = NoValue
    MaxStarts = 4
SPECIFICATION Spec
INVARIANT RefusedOnlyAfterCrash
