------------------------------- MODULE MCMesh -------------------------------
(***************************************************************************)
(* Small instances of the acked multicast queue for TLC.                   *)
(***************************************************************************)
EXTENDS MeshProps

CONSTANTS stoneA, stoneB, stoneOwn

MCOthers == {stoneA, stoneB}

\* No stone, two with the own stone, and one that is listed twice.
MCLists == {<<>>, <<stoneOwn, stoneA, stoneB>>, <<stoneA, stoneA>>}
MCPair  == {<<stoneA>>, <<stoneB, stoneA>>}
MCLow   == {FALSE}
=============================================================================
