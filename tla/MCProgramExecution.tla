------------------------- MODULE MCProgramExecution -------------------------
(* Two nodes that gossip with each other, for TLC. One of them has the     *)
(* user who schedules programs, so no symmetry is declared.                *)
EXTENDS ProgramExecution

CONSTANTS p1, p2, f, g

Pair == {<<p1, p2>>, <<p2, p1>>}

=============================================================================
