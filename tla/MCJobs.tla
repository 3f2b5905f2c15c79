------------------------------- MODULE MCJobs -------------------------------
(***************************************************************************)
(* Jobs for TLC: a window with every task of the foreground job, and one    *)
(* event at a time, or peers the grant does not name, and two.              *)
(***************************************************************************)
EXTENDS Jobs

\* what waits for the window, with which tasks and which peers
EveryTask ==
    \A r \in DOMAIN workers :
        /\ Len(events[r]) <= 1
        /\ workers[r] # None => workers[r].kind \in {"granted", "mismatch", None}
ManyEvents ==
    \A r \in DOMAIN workers : workers[r] # None =>
        /\ workers[r].task \in {"listen", "remote"}
        /\ workers[r].kind \in {"desktop", "other", None}

\* what the listener is told to do, and what is granted, matters to them only
MCInit ==
    /\ Init
    /\ part # "app" => enabled /\ grant
    /\ part # "listener" => route = "direct" /\ ~auto /\ ~any /\ \A c \in DOMAIN pinned : pinned[c]

MCSpec == MCInit /\ [][Next /\ (EveryTask \/ ManyEvents)']_vars /\ Fairness
=============================================================================
