------------------------------ MODULE MCState ------------------------------
EXTENDS StateProps

CONSTANTS k1, k2, t1, t2, dflt, va, vb

\* Two keys of one type, or two keys of different types.
SameType == [k \in Keys |-> t1]
TwoTypes == [k \in Keys |-> IF k = k1 THEN t1 ELSE t2]
=============================================================================
