\* The forward module, with servers that split their replies; refinement of
\* Courier.
SPECIFICATION FairSpec
CONSTANTS
    Conn = {c1, c2}
    Message = {m1}
    Continuation = {"spaces", "one_word"}
INVARIANTS
    TypeOK
    TakenOnce
    DoneIsTaken
    
    
    

    
    
CHECK_DEADLOCK FALSE
