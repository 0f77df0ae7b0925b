-------------------------- MODULE MCAtomicRegister --------------------------
(* Workloads and fault sets for the runs of AtomicRegister. *)
EXTENDS RegisterView, RegisterRefinement

CONSTANT v1

AnyCrash == {"crash", "crash_writing"}
TornAndDiskErrors == {"crash", "torn", "disk"}

\* Client commands sent to each process.
OneAtFirst == <<1, 0, 0>>
OneAtTwo == <<1, 1, 0>>

\* What clients of each process write.
OwnValues == <<{v1}, {Zero}, {}>>
EitherValue == <<{v1, Zero}, {}, {}>>

\* A step that changes nothing (a duplicate handled once more) need not be looked at.
Changes == vars' # vars

\* Bound: a ReadProc that is handled twice while its sender waits gets the same answer.
AnsweredOnce ==
    \A m1, m2 \in {m \in msgs : m.type = "Value" /\ Waiting(m.dst, m.rid)} :
        (m1.src = m2.src /\ m1.dst = m2.dst) => m1 = m2
=============================================================================
