SPECIFICATION Spec
CONSTANTS
    t1 = t1
    t2 = t2
    o1 = o1
    o2 = o2
    invoice = invoice
    NoOwner = NoOwner
    Tags <- MCTags
    Owners <- MCOwners
    Names <- MCNames
    NameOf <- MCNameOf
    MaxAttempts = 2
    MaxEdits = 0
    MaxVersions = 1
    MaxReprocesses = 0
INVARIANT UncertainPatchIsNotRepeated
CHECK_DEADLOCK FALSE
