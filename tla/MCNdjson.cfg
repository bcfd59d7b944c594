\* All bodies of up to five bytes, cut in all ways.
SPECIFICATION Spec
CONSTANT MaxLen = 5
CHECK_DEADLOCK FALSE
INVARIANTS
    LinesNotLate
    WholeBody
