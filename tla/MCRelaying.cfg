\* From the SMTP client to another server, and back.
SPECIFICATION FairSpec
CONSTANTS
    NULL = NULL
    jan = jan
    bob = bob
    postmaster = postmaster
    aJan = aJan
    here = here
    there = there
    nowhere = nowhere
    Account = {aJan}
    Name <- MCName
    AccountOf <- MCAccountOf
    DbMayFail = FALSE
    MaxMail = 1
    Host = {here, there, nowhere}
    MyHost = here
    Sender <- MCSender
    Recipient <- MCRecipient
    BodyLine = {x}
    MaxLines = 0
    Nowhere = {nowhere}
    Visitor = {v1}
    Postmaster <- MCPostmaster
    Conn = {c1, c2}
    Message = {m1}
    Continuation = {}
INVARIANT
    LettersAreUsers
PROPERTY
    SelfMailEnds
