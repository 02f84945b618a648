SPECIFICATION StoreSpec
CONSTANTS
    Tabs = {t1}
    Commitments = {c1, c2}
    Passphrases = {}
    Guardians = {g1, g2}
    Threshold = 2
    MaxTasks = 4
    MaxSalts = 2
INVARIANT
    MergeRestoresAll
CHECK_DEADLOCK FALSE
