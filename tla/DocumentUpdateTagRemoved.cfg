SPECIFICATION Spec
CONSTANTS
    t1 = t1
    t2 = t2
    o1 = o1
    o2 = o2
    invoice = invoice
    NoOwner = NoOwner
    Tags <- MCTags
    Owners <- MCOwners
    Names <- MCNames
    NameOf <- MCNameOf
    MaxAttempts = 1
    MaxEdits = 1
    MaxVersions = 1
    MaxReprocesses = 0
PROPERTY ExistingTagsAreKept
CHECK_DEADLOCK FALSE
