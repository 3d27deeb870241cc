\* From the SMTP client to the POP3 client.
SPECIFICATION ServerSpec
CONSTANTS
    NULL = NULL
    jan = jan
    bob = bob
    aJan = aJan
    here = here
    there = there
    Account = {aJan}
    Name <- MCName
    AccountOf <- MCAccountOf
    DbMayFail = FALSE
    MaxMail = 2
    Session = {s1, s2}
    MaxCrash = 1
    Client = {c1}
    Host = {here, there}
    MyHost = here
    Sender <- MCSender
    Recipient <- MCRecipient
    Line = {x}
    MaxLines = 1
INVARIANT
    NothingLost
PROPERTIES
    ImplementsPop3
    NextLoginShows
SYMMETRY Symmetry
