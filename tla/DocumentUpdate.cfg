SPECIFICATION Spec
CONSTANTS
    t1 = t1
    t2 = t2
    o1 = o1
    o2 = o2
    invoice = invoice
    NoOwner = NoOwner
    Tags <- MCTags
    Owners <- MCOneOwner
    Names <- MCNames
    NameOf <- MCNameOf
    MaxAttempts = 2
    MaxEdits = 2
    MaxVersions = 2
    MaxReprocesses = 1
SYMMETRY MCSymmetry
INVARIANT TypeOK
INVARIANT ContentOfVersion
INVARIANT NoWriteAfterAnEdit
INVARIANT WritesAreAccountedFor
INVARIANT AddedTagsWereStillTheOwners
PROPERTY PatchKeepsTags
CHECK_DEADLOCK FALSE
