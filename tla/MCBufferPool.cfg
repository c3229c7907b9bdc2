SPECIFICATION Spec
CONSTANTS
    BufferCount = 3
    Holders = {h1, h2, h3}
    Contents = {blank, frame}
    Blank = blank
INVARIANTS
    TypeOK
    Conservation
    DirtyOnlyWhileWiping
