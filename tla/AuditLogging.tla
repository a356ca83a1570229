----------------------------- MODULE AuditLogging -----------------------------
(***************************************************************************)
(* The audit log: AuditLoggerInterceptor (src/infrastructure/interceptor)  *)
(* and AccessAuditLoggingService (src/infrastructure/logging).  For an     *)
(* auditable request it asks for a "pending" row before the handler and    *)
(* for an UPDATE of that row after it, and awaits neither: both statements *)
(* travel to the database on connections of a pool, in any order with each *)
(* other and with the answer.  A statement that fails rejects a promise    *)
(* that nobody handles, which ends the process.                            *)
(***************************************************************************)
EXTENDS Naturals

CONSTANTS
    Request,    \* HTTP requests, each with its own requestId
    MaxCrashes  \* bound: how often the process ends and is started again

ASSUME MaxCrashesAssumption == MaxCrashes \in Nat

\* Which of the infos the guards have put in the request's cls context.
Caller == {"admin", "bpAdmin", "other"}
Method == {"GET", "POST"}
auditMethods == {"POST"}
Outcome == {"success", "fail"}

VARIABLES
    alive,      \* the process is up
    stage,      \* "new", "handling", "answered" or "lost", for each request
    caller,     \* who sent each request
    method,     \* its HTTP method
    outcome,    \* what its handler did: "none", "success" or "fail"
    statements, \* statements on their way to the database
    row,        \* the status of its row: "none" is no row
    gap,        \* history: why the row of a request may stay behind
    crashes     \* how often the process has ended

processVars == <<alive, crashes>>
requestVars == <<stage, caller, method, outcome>>
vars == <<alive, stage, caller, method, outcome, statements, row, gap, crashes>>

\* An INSERT carries "pending", an UPDATE the outcome.
Statement == [request : Request, status : {"pending"} \cup Outcome]

InFlight(r) == {s \in statements : s.request = r}

\* isPermanent: only a request with adminInfo is saved.
IsPermanent(who) == who = "admin"

\* Mutant: a failure is saved under another name.
SavesFailAsError(r, who, status) ==
    statements' = IF IsPermanent(who)
                    THEN statements \cup {[request |-> r,
                             status |-> IF status = "fail" THEN "error" ELSE status]}
                    ELSE statements

\* saveAuditLog: the log line, and for a permanent one a statement.
SaveAuditLog(r, who, status) ==
    statements' = IF IsPermanent(who)
                    THEN statements \cup {[request |-> r, status |-> status]}
                    ELSE statements

Init ==
    /\ alive = TRUE
    /\ stage = [r \in Request |-> "new"]
    /\ caller = [r \in Request |-> "other"]
    /\ method = [r \in Request |-> "GET"]
    /\ outcome = [r \in Request |-> "none"]
    /\ statements = {}
    /\ row = [r \in Request |-> "none"]
    /\ gap = [r \in Request |-> {}]
    /\ crashes = 0

\* intercept(), up to next.handle().
Intercept(r, who, verb) ==
    /\ alive
    /\ stage[r] = "new"
    /\ stage' = [stage EXCEPT ![r] = "handling"]
    /\ caller' = [caller EXCEPT ![r] = who]
    /\ method' = [method EXCEPT ![r] = verb]
    /\ IF verb \in auditMethods THEN SaveAuditLog(r, who, "pending")
                                ELSE UNCHANGED statements
    /\ UNCHANGED <<processVars, outcome, row, gap>>

\* Mutant: catchError passes the error on and saves nothing.
FinishForgetsFailure(r, o) ==
    /\ alive
    /\ stage[r] = "handling"
    /\ stage' = [stage EXCEPT ![r] = "answered"]
    /\ outcome' = [outcome EXCEPT ![r] = o]
    /\ IF method[r] \in auditMethods /\ o = "success"
         THEN SaveAuditLog(r, caller[r], o)
         ELSE UNCHANGED statements
    /\ UNCHANGED <<processVars, caller, method, row, gap>>

\* Mutant: whatever happened is saved as a success.
FinishSavesSuccess(r, o) ==
    /\ alive
    /\ stage[r] = "handling"
    /\ stage' = [stage EXCEPT ![r] = "answered"]
    /\ outcome' = [outcome EXCEPT ![r] = o]
    /\ IF method[r] \in auditMethods THEN SaveAuditLog(r, caller[r], "success")
                                     ELSE UNCHANGED statements
    /\ UNCHANGED <<processVars, caller, method, row, gap>>

\* The handler ends; tap() or catchError() runs, and the answer leaves.
Finish(r, o) ==
    /\ alive
    /\ stage[r] = "handling"
    /\ stage' = [stage EXCEPT ![r] = "answered"]
    /\ outcome' = [outcome EXCEPT ![r] = o]
    /\ IF method[r] \in auditMethods THEN SaveAuditLog(r, caller[r], o)
                                     ELSE UNCHANGED statements
    /\ UNCHANGED <<processVars, caller, method, row, gap>>

\* The database executes a statement, whether or not the process is still there.
\* An UPDATE by requestId of a row that is not there changes nothing.
ExecuteInsert(r) ==
    /\ [request |-> r, status |-> "pending"] \in statements
    /\ statements' = statements \ {[request |-> r, status |-> "pending"]}
    /\ row' = [row EXCEPT ![r] = "pending"]
    /\ UNCHANGED <<processVars, requestVars, gap>>

ExecuteUpdate(r, o) ==
    /\ [request |-> r, status |-> o] \in statements
    /\ statements' = statements \ {[request |-> r, status |-> o]}
    /\ IF row[r] = "none"
         THEN gap' = [gap EXCEPT ![r] = @ \cup {"overtaken"}] /\ UNCHANGED row
         ELSE row' = [row EXCEPT ![r] = o] /\ UNCHANGED gap
    /\ UNCHANGED <<processVars, requestVars>>

\* The process ends: what it is handling is lost, and so are the statements that
\* have not left it yet.
EndProcess(lost) ==
    /\ alive' = FALSE
    /\ crashes' = crashes + 1
    /\ stage' = [r \in Request |-> IF stage[r] = "handling" THEN "lost" ELSE stage[r]]
    /\ statements' = statements \ lost
    /\ gap' = [r \in Request |->
                  IF InFlight(r) \cap lost = {} THEN gap[r] ELSE gap[r] \cup {"lost"}]
    /\ UNCHANGED <<caller, method, outcome, row>>

Crash ==
    /\ alive
    /\ crashes < MaxCrashes
    /\ \E lost \in SUBSET statements : EndProcess(lost)

\* The database refuses a statement: the floating promise rejects.
StatementFails(s) ==
    /\ alive
    /\ crashes < MaxCrashes
    /\ s \in statements
    /\ \E lost \in SUBSET statements : s \in lost /\ EndProcess(lost)

Restart ==
    /\ ~alive
    /\ alive' = TRUE
    /\ UNCHANGED <<crashes, requestVars, statements, row, gap>>

Next ==
    \/ \E r \in Request :
          \/ \E who \in Caller, verb \in Method : Intercept(r, who, verb)
          \/ \E o \in Outcome : Finish(r, o) \/ ExecuteUpdate(r, o)
          \/ ExecuteInsert(r)
    \/ Crash
    \/ \E s \in statements : StatementFails(s)
    \/ Restart

Spec == Init /\ [][Next]_vars

\* The database works off what reached it.  Handlers may run for ever.
Fairness ==
    \A r \in Request :
        /\ WF_vars(ExecuteInsert(r))
        /\ \A o \in Outcome : WF_vars(ExecuteUpdate(r, o))

FairSpec == Spec /\ Fairness

-------------------------------------------------------------------------------
(* Properties *)

\* Every variable stays in its set of values.
TypeOK ==
    /\ alive \in BOOLEAN
    /\ stage \in [Request -> {"new", "handling", "answered", "lost"}]
    /\ caller \in [Request -> Caller]
    /\ method \in [Request -> Method]
    /\ outcome \in [Request -> Outcome \cup {"none"}]
    /\ statements \subseteq Statement
    /\ row \in [Request -> {"none", "pending"} \cup Outcome]
    /\ gap \in [Request -> SUBSET {"overtaken", "lost"}]
    /\ crashes \in 0 .. MaxCrashes

Audited(r) == method[r] \in auditMethods /\ IsPermanent(caller[r])

\* Once the handler of an audited request has ended and none of its statements
\* is on its way, the row shows the outcome, unless the UPDATE overtook the
\* INSERT or the process died with one of the two: there is no other way for a
\* row to be missing, to stay pending or to show something else.
BehindOnlyByRaceOrCrash ==
    \A r \in Request :
        Audited(r) /\ stage[r] = "answered" /\ InFlight(r) = {} /\ gap[r] = {} =>
            row[r] = outcome[r]

\* The row of an audited request comes to show its outcome, without any further
\* request or restart, unless a race or a crash got in the way.
AnsweredIsRecorded ==
    \A r \in Request :
        (Audited(r) /\ stage[r] = "answered") ~>
            (row[r] = outcome[r] \/ gap[r] # {})

\* "bpAdminInfo가 있으면 DB에 저장": the row of a request with bpAdminInfo is saved.
BpAdminIsSaved ==
    \A r \in Request :
        caller[r] = "bpAdmin" /\ method[r] \in auditMethods
        /\ stage[r] = "answered" /\ InFlight(r) = {} /\ gap[r] = {} =>
            row[r] # "none"

\* The rows are a log of the requests: a row is opened as pending and closed once,
\* with the outcome of its own request.
Log == INSTANCE RequestLog WITH
    Entry <- Request,
    OwnerOf <- [r \in Request |-> r],
    entry <- row

KeepsLog == Log!LogSpec
================================================================================
