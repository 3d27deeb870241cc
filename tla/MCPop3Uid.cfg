\* One unique id for two mails of an account.
CONSTANTS
    NULL = NULL
    jan = jan
    JAN = JAN
    aJan = aJan
    Account = {aJan}
    Name <- MCName
    AccountOf <- MCAccountOf
    Session = {s1, s2}
    DbMayFail = FALSE
    MaxMail = 2
    MaxCrash = 0
SPECIFICATION ClientSpec
INVARIANT UidNeverReused
