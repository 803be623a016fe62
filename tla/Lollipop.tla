------------------------------ MODULE Lollipop ------------------------------
(***************************************************************************)
(* Version numbers that wrap around and skip 0 (cs_Lollipop.h).            *)
(***************************************************************************)
EXTENDS Integers

\* Lollipop::next()
NextVersion(current, max) == IF current + 1 >= max THEN 1 ELSE current + 1

\* The comparison of two versions that are not 0: current is in the half of
\* the circle above previous; seen from the upper half, it is not in the half
\* below previous.
InWindow(previous, current, max) ==
  LET reverse == previous > max \div 2
      low     == previous - (IF reverse THEN max \div 2 ELSE 0)
      high    == previous + (IF reverse THEN 0 ELSE max \div 2)
  IN (low < current /\ current <= high) # reverse

\* Lollipop::isNewer()
IsNewer(previous, current, max) ==
  /\ current # 0
  /\ previous = 0 \/ InWindow(previous, current, max)
=============================================================================
