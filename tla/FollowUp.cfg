SPECIFICATION ReopenedSpec
CONSTANTS
    a = a
    b = b
    x = x
    y = y
    z = z
    None = None
    Manual = Manual
    Items = {a, b}
    RetryKeys = {z}
    Texts = {x, y}
    TextOf <- MCTextOf
    Edits = {y}
    MaxManual = 1
    MaxFaults = 1
    MaxQueued = 2
    MaxHandled = 3
INVARIANTS TypeOK AtMostOnce QueueIsKept
PROPERTIES InOrder Delivered
