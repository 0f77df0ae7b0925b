------------------------- MODULE MCRegisterHistory -------------------------
(* Workloads for the runs of RegisterHistory. *)
EXTENDS RegisterHistory, RegisterView

HistoryView == <<LiveRegisters, LiveMessages, history, active>>

\* Client commands sent to each process.
WriterAndReader == <<1, 2, 0>>
OneAndThree == <<1, 3>>

\* Clients write any content.
AnyValue == [p \in Proc |-> Data]

\* Steers the search of the run on interrupted writes; whatever it finds is a behaviour of
\* HistorySpec. A client writes through process 1, which crashes once process 2 has the new
\* value; then a client of process 2 reads, writes and reads.
InterruptedWrite ==
    /\ \A i \in Command : history[i].kind = <<"write", "read", "write", "read">>[i]
    /\ 2 \in Command => crashes = 1
    /\ crashes = 1 => meta[2] # NoTag
=============================================================================
