----------------------------- MODULE WorkService ----------------------------
(***************************************************************************)
(* What the diff pipeline promises the desktop (internal/diff/pipeline.go  *)
(* seen from apps/desktop/app.go): an item it accepts is worked on once at *)
(* a time and its result is delivered once, in no particular order; after  *)
(* a close, results may fail to come.  DiffPipeline implements this        *)
(* specification and LiveDesktop relies on it.                             *)
(***************************************************************************)
CONSTANT Items      \* what can be asked for
VARIABLES
    inFlight,       \* items accepted whose result was not delivered yet
    closed          \* the service is closed or closing
vars == <<inFlight, closed>>

Init == inFlight = {} /\ closed = FALSE

\* Items that are refused, as duplicates or for lack of room, change nothing.
Accept(i) ==
    /\ i \notin inFlight
    /\ inFlight' = inFlight \cup {i}
    /\ UNCHANGED closed

Deliver(i) ==
    /\ i \in inFlight
    /\ inFlight' = inFlight \ {i}
    /\ UNCHANGED closed

Close ==
    /\ ~closed
    /\ closed' = TRUE
    /\ UNCHANGED inFlight

Next == Close \/ \E i \in Items : Accept(i) \/ Deliver(i)

\* Every accepted item gets its result, unless the service is closed.
Spec ==
    /\ Init
    /\ [][Next]_vars
    /\ \A i \in Items : WF_vars(~closed /\ Deliver(i))
=============================================================================
