CONSTANTS
    BUTTON_TIMEOUT = 2
    MaxChanges = 2
SPECIFICATION FairSpec
CHECK_DEADLOCK FALSE
INVARIANT AnswersArePresses
PROPERTIES StopsTogether HeldShutsDown
