CONSTANTS
    Names <- MCNames
    BufferSize = 3
    BomSize = 2
    HeaderLength = 1
    Lengths = {2, 3}
    NoFile = NoFile
    Placeholder = Placeholder
    ErrorText = ErrorText
SPECIFICATION OverlaySpec
INVARIANTS  Reloadable ResizeSafe WindowRestored
CHECK_DEADLOCK FALSE
