\* One client: a body that is not the body sent for the mail.
SPECIFICATION Spec
CONSTANTS
    NULL = NULL
    jan = jan
    bob = bob
    aJan = aJan
    here = here
    there = there
    Account = {aJan}
    Name <- MCName
    AccountOf <- MCAccountOf
    DbMayFail = TRUE
    MaxMail = 2
    Client = {c1}
    Host = {here, there}
    MyHost = here
    Sender <- MCSender
    Recipient <- MCRecipient
    Line = {x, y}
    MaxLines = 2
INVARIANT BodyAsSent
