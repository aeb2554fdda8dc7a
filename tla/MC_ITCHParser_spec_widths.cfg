CONSTANTS
    MaxLen = 50
    Unknown = Unknown
    NoFrame = NoFrame
    None = None
    Chars = {"A", " "}
SPECIFICATION PSpec
INVARIANT AcceptsExactlySpecWidths
