\* Two containers share a concator, the other one has only stray lines.
SPECIFICATION FairSpec
CONSTANTS
    c1 = c1   c2 = c2   k1 = k1   k2 = k2   x = x   y = y   z = z
    Conn = {c1, c2}
    NLine = 8
    ConnOf <- MCConnOf
    Fork = {k1, k2}
    ForkOf <- MCForkOf
    Id = {x, y, z}
    IdOf <- MCIdOf
    HeadLine = {1, 4, 5}
    Bad = {8}   NoLBKey = {7}   Plain = {6}
    ConcatMaxLen = 3
    BufSize = 1   AsyncSize = 1
    None = None
INVARIANTS TypeOK LineOnce InOrder OneEntry CutForAReason
PROPERTIES EveryLineLeaves
CHECK_DEADLOCK FALSE
