SPECIFICATION Spec
CONSTANTS
    Totals = {0, 3, 5, 9}
    Ends = {2, 3, 5, 7}
    Width = 2
    DecodeRoom = 2
    DecodeBelow = 2
    StartSize = 1
    Prebuffer = 4
    Sizes = {1, 2, 4}
    MaxSize = 8
    FrameSize = 3
    ReadSizes = {2, 3}
    Headroom = 3
INVARIANT ZeroIsEnd
CHECK_DEADLOCK FALSE
