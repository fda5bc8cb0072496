SPECIFICATION Spec
CONSTANTS
    Bytes = {0, 172, 255}
    MaxLen = 5
    Rooms = {0, 1, 2, 3, 4, 5, 8, 9}
    MaxBreaks = 1
CHECK_DEADLOCK FALSE
INVARIANTS EncodeRight RoundTrip DecodeFits
