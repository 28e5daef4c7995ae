CONSTANTS
    N = 3
    Conv = {c1}
    New = New
    Image = Image
    Call = {1, 2, 3}
    Key = {c1, 1, 2, 3}
    NoKey = NoKey
    None = None

SPECIFICATION Spec

INVARIANT AnsweredConversationContinues

\* Every request is sent once, and the browser may never reply.
CHECK_DEADLOCK FALSE
