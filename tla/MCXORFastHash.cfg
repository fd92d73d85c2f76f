\* One bit per half: tables of 2 << 1 entries.
CONSTANT W = 1

SPECIFICATION Spec

\* The constructor ends; the object is then only read.
CHECK_DEADLOCK FALSE

INVARIANT LsbCollisionFree
