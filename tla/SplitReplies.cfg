SPECIFICATION Spec
CONSTANTS
    Path = {lamp, air}
    Split = TRUE
    MidRead = FALSE
    MaxSegments = 3
    None = None
PROPERTY GetReturnsAsked
