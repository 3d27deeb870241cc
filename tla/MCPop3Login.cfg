\* An account spelled in two ways: a login that does not show a mail.
CONSTANTS
    NULL = NULL
    jan = jan
    JAN = JAN
    aJan = aJan
    Account = {aJan}
    Name <- MCName
    AccountOf <- MCAccountOf
    Session = {s1, s2}
    DbMayFail = FALSE
    MaxMail = 2
    MaxCrash = 0
SPECIFICATION ClientSpec
PROPERTY LoginShowsAll
