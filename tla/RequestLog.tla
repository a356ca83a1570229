----------------------------- MODULE RequestLog ------------------------------
(***************************************************************************)
(* What a log of requests kept in the database promises to its readers.    *)
(* An entry belongs to one request.  It appears as pending; it may later   *)
(* be closed, once, with the outcome of its request, and never with        *)
(* anything else.  That an entry appears, or is closed, is not promised.   *)
(***************************************************************************)
CONSTANTS
    Request,  \* requests
    Entry,    \* log entries
    OwnerOf   \* the request of each entry, a function on Entry

VARIABLES
    entry,    \* "none", "pending", "success" or "fail", for each entry
    outcome   \* "none", "success" or "fail", for each request

logVars == <<entry, outcome>>

LogInit ==
    /\ entry = [e \in Entry |-> "none"]
    /\ outcome = [r \in Request |-> "none"]

Decide(r) ==
    /\ outcome[r] = "none"
    /\ \E o \in {"success", "fail"} : outcome' = [outcome EXCEPT ![r] = o]
    /\ UNCHANGED entry

Open(e) ==
    /\ entry[e] = "none"
    /\ entry' = [entry EXCEPT ![e] = "pending"]
    /\ UNCHANGED outcome

\* Some of the entries of a request are closed.
Close(r) ==
    /\ outcome[r] # "none"
    /\ \E closed \in SUBSET {e \in Entry : OwnerOf[e] = r /\ entry[e] = "pending"} :
          entry' = [e \in Entry |-> IF e \in closed THEN outcome[r] ELSE entry[e]]
    /\ UNCHANGED outcome

LogNext ==
    \/ \E r \in Request : Decide(r) \/ Close(r)
    \/ \E e \in Entry : Open(e)

LogSpec == LogInit /\ [][LogNext]_logVars
==============================================================================
