\* Three callers that submit twice under one key with two payloads.
SPECIFICATION Spec
CONSTANTS
    Callers = {c1, c2, c3}
    Keys = {k1}
    Payloads = {p1, p2}
    NoPayload = NoPayload
    NoResult = NoResult
    MaxSubmissions = 2
CHECK_DEADLOCK FALSE
INVARIANTS TypeOK OnePayloadPerKey ReplaysAreGenuine ExecutedOnceUnlessFailed
