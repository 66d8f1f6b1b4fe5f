SPECIFICATION Spec
CONSTANTS
    None = None
    Writers = {w1}
    Data = {d1, d2}
    Inodes = {i1, i2, i3, i4}
    Blocks = 2
    MaxLosses = 2
INVARIANTS FileInv ReadersSeeWhole
