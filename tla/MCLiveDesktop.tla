---------------------------- MODULE MCLiveDesktop ---------------------------
(* Instances of LiveDesktop.  The ids of events order otherwise than their  *)
(* instants do, so that the canonical order matters; one event carries      *)
(* structured counts, the others are left to Git.                           *)
EXTENDS LiveDesktop

ev(type, path, ts, confidence, lines) ==
    [type |-> type, path |-> path, ts |-> ts, confidence |-> confidence, lines |-> lines,
     prev |-> NoPath]
in(id, session, event) == [id |-> id, session |-> session, event |-> event]

\* One session to its end, two files in turn.
SessionFeed ==
    {in(3, "s", ev("session_started", NoPath, 1, "observed", NoLines)),
     in(5, "s", ev("file_modified", "a", 2, "observed", NoLines)),
     in(1, "s", ev("file_modified", "b", 3, "exact", "structured")),
     in(2, "s", ev("session_stopped", NoPath, 4, "observed", NoLines))}

\* A session that starts again after a project was loaded, beside another one.
ReloadFeed ==
    {in(3, "s", ev("session_started", NoPath, 1, "observed", NoLines)),
     in(5, "s", ev("file_modified", "a", 2, "observed", NoLines)),
     in(4, "s", ev("session_started", NoPath, 2, "observed", NoLines)),
     in(1, "s", ev("file_modified", "b", 3, "exact", "structured")),
     in(2, "t", ev("session_started", NoPath, 1, "observed", NoLines)),
     in(6, "t", ev("file_modified", "b", 3, "observed", NoLines))}
=============================================================================
