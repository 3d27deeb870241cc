\* Safety of the SMTP sessions.
SPECIFICATION Spec
CONSTANTS
    NULL = NULL
    jan = jan
    bob = bob
    aJan = aJan
    here = here
    there = there
    Account = {aJan}
    Name <- MCName
    AccountOf <- MCAccountOf
    DbMayFail = FALSE
    MaxMail = 2
    Client = {c1, c2}
    Host = {here, there}
    MyHost = here
    Sender <- MCSender
    Recipient <- MCRecipient
    Line = {x}
    MaxLines = 2
INVARIANTS
    TypeOK
    EnvelopeComplete
    NoOpenRelay
    
SYMMETRY Symmetry
