SPECIFICATION Spec
CONSTANTS
    r1 = r1
    r2 = r2
    r3 = r3
    n1 = n1
    n2 = n2
    Root = Root
    Trash = Trash
    DirA = DirA
    DirB = DirB
    FileF = FileF
    None = None
    Request = {r1, r2, r3}
    Name = {n1, n2}
    MaxNumber = 2
SYMMETRY MCSymmetry
CHECK_DEADLOCK FALSE
PROPERTY CleansOnlyTrash
