------------------------- MODULE MCCommandsExecutor -------------------------
(* Client commands for the runs of CommandsExecutor. *)
EXTENDS CommandsExecutor

CONSTANTS t1, t2, t3, t4, s1, s2

\* The tasks use two sectors, t1 and t2 the same one.
TwoOnOneSector == [t \in Task |-> IF t \in {t1, t2} THEN s1 ELSE s2]

\* Every client chose an id nobody else uses.
OwnIds == [t \in Task |-> t]
=============================================================================
