SPECIFICATION ServicesSpec
CONSTANTS
    MaxQueues = 2
    QueueLen = 2
    Msgs = {m1, m2}
    PipeSize = 3
    PosMod = 6
    Bytes = {b1, b2}
    MaxCount = 4
    KbdBufferSize = 3
    Strokes <- KeyStrokes
    Letters = {"x", " "}
    Events <- KeyEvents
    LineMax = 4
    HistSize = 2
    MaxArgs = 3
    Exit <- ExitWord
    Height = 5
    FontH = 2
    Cols = 2
    Glyphs = {"a", "b"}
    MaxText = 5
    LongBits = 8
    IntBits = 4
    Widths = {0, 3}
INVARIANTS
    RingConsistent
    PositionsAgree
    KbdFifo
    ShownIsLine
    TokenizeIsWords
    ScreenIsText
    PrintedReadsBack
PROPERTIES
    FifoSpec
    StreamSpec
    KeysBeforeHalt
    EditorSpec
