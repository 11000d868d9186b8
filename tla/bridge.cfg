SPECIFICATION FairSpec
CONSTANTS
    call = call
    call2 = call2
    note = note
    large = large
    chatty = chatty
    head = head
    body = body
    Requests = {call, call2, note, large, chatty, head, body}
    Calls = {call, call2, large, chatty, body}
    BadHead = {head}
    BadBody = {body}
    Big = {large}
    BigAnswer = {chatty}
    NoRequest = NoRequest
    Scenarios <- MCScenarios
    MaxRestarts = 1
    MaxReboots = 1
    MaxCopies = 1
    MaxRuns = 3
INVARIANTS AnswerMatches NoLeak RunOnce InitBeforeForward
PROPERTIES RequestEnds AnswerArrives
CHECK_DEADLOCK FALSE
