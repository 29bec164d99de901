\* Two variables, shapes of rank 0 to 2, two failing allocations.
CONSTANTS
    Slot = {x, y}
    Buffer = {b1, b2, b3}
    Null = Null
    NoTensor = NoTensor
    Shapes <- MCShapes
    Values = {0, 1}
    MaxFailures = 2
SPECIFICATION Spec
SYMMETRY BufferSymmetry
INVARIANTS
    SoleOwner
    ValueSemantics
\* What is undefined ends a behaviour.
CHECK_DEADLOCK FALSE
