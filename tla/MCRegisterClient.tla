-------------------------- MODULE MCRegisterClient --------------------------
(* The calls of the runs of RegisterClient. *)
EXTENDS RegisterClient

CONSTANTS readproc, writeproc, value2, ack2, a, b

\* Process 1 executes a command of its own (a) and answers one of process 2 (b).
CallTargets == [c \in Call |-> IF c \in {value2, ack2} THEN {2} ELSE Proc]

CallIdent == [c \in Call |-> IF c \in {value2, ack2} THEN b ELSE a]

CallAfter == [c \in Call |->
    CASE c = writeproc -> {readproc} [] c = ack2 -> {value2} [] OTHER -> {}]
=============================================================================
