\* Safety of the POP3 sessions, with failing statements and a restart.
SPECIFICATION Spec
CONSTANTS
    NULL = NULL
    jan = jan
    JAN = JAN
    foo = foo
    nobody = nobody
    aJan = aJan
    aFoo = aFoo
    Account = {aJan, aFoo}
    Name <- MCName
    AccountOf <- MCAccountOf
    Session = {s1, s2, s3}
    DbMayFail = TRUE
    MaxMail = 3
    MaxCrash = 1
INVARIANTS
    TypeOK
    LockExclusive
    LockHeld
    
    SnapshotCurrent
    SnapshotOwn
PROPERTY
    OnlyMarkedLeaves
SYMMETRY Symmetry
