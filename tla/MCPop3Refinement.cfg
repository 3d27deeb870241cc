\* Refinement of Maildrop and completion of QUIT; statements do not fail.
SPECIFICATION FairSpec
CONSTANTS
    NULL = NULL
    jan = jan
    JAN = JAN
    foo = foo
    nobody = nobody
    aJan = aJan
    aFoo = aFoo
    Account = {aJan, aFoo}
    Name <- MCName
    AccountOf <- MCAccountOf
    Session = {s1, s2}
    DbMayFail = FALSE
    MaxMail = 3
    MaxCrash = 1
PROPERTIES
    ImplementsMaildrop
    QuitCommits
