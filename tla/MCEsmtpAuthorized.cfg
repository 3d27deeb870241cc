\* One client: an ESMTP session past EHLO without a login.
SPECIFICATION Spec
CONSTANTS
    NULL = NULL
    jan = jan
    bob = bob
    aJan = aJan
    here = here
    there = there
    Account = {aJan}
    Name <- MCName
    AccountOf <- MCAccountOf
    DbMayFail = TRUE
    MaxMail = 2
    Client = {c1}
    Host = {here, there}
    MyHost = here
    Sender <- MCSender
    Recipient <- MCRecipient
    Line = {x, y}
    MaxLines = 2
INVARIANT EsmtpAuthorized
