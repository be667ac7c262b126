CONSTANTS
    COLUMNS = 2
    ROWS = 2
    PALETTE_PLACE = 6
    ADDRESSES = 8
    CELL_W = 2
    CELL_H = 1
    H_TOTAL = 5
    V_TOTAL = 2
    Codes = {0, 1}
    Colors <- TwoColors
    Rgb = {0, 1}
    Lit <- LeftColumn
    Black = 0
    ResetPalette <- BlackAndOne
    Garbage <- OddWord
    Calls <- ReadCalls
SPECIFICATION Spec
INVARIANT VramReadsBack
