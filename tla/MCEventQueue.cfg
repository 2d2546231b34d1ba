SPECIFICATION QSpec
CONSTANTS
    QUEUE_SIZE = 4
    MaxFetch = 2
    Window <- MCWindow
    Payload <- MCPayload
PROPERTY ImplementsLog
