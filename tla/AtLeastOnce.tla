----------------------------- MODULE AtLeastOnce -----------------------------
(***************************************************************************)
(* What the message-queue component promises to the code that sends and to *)
(* the code that handles: a message names one handler, only that handler   *)
(* ever completes on it, it may complete any number of times, and the      *)
(* message is gone for good only after it has completed at least once.  A  *)
(* readable message that names no handler may go without any, and a        *)
(* message that cannot be read stays.                                      *)
(***************************************************************************)
CONSTANTS
    Msg,        \* message identities
    Text,       \* what a message may say
    NoText,     \* what a message says before it is put
    Readable,   \* the texts that can be read
    Addressed,  \* the texts that can be read and name a handler
    HandlerOf   \* the handler a text names, a function on Text

VARIABLES
    state,      \* "new", "pending" or "gone", for each message
    text,       \* what each message says
    completed   \* the handlers that have completed on each message

abstractVars == <<state, text, completed>>

AbstractInit ==
    /\ state = [m \in Msg |-> "new"]
    /\ text = [m \in Msg |-> NoText]
    /\ completed = [m \in Msg |-> {}]

Put(m, t) ==
    /\ state[m] = "new"
    /\ state' = [state EXCEPT ![m] = "pending"]
    /\ text' = [text EXCEPT ![m] = t]
    /\ UNCHANGED completed

Complete(m) ==
    /\ state[m] # "new"
    /\ text[m] \in Addressed
    /\ completed' = [completed EXCEPT ![m] = @ \cup {HandlerOf[text[m]]}]
    /\ UNCHANGED <<state, text>>

Remove(m) ==
    /\ state[m] = "pending"
    /\ text[m] \in Readable
    /\ text[m] \in Addressed => HandlerOf[text[m]] \in completed[m]
    /\ state' = [state EXCEPT ![m] = "gone"]
    /\ UNCHANGED <<text, completed>>

AbstractNext ==
    \E m \in Msg :
        \/ \E t \in Text : Put(m, t)
        \/ Complete(m)
        \/ Remove(m)

AbstractSpec == AbstractInit /\ [][AbstractNext]_abstractVars
==============================================================================
