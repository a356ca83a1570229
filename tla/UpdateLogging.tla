----------------------------- MODULE UpdateLogging ----------------------------
(***************************************************************************)
(* The update log: UpdateLoggingInterceptor (src/infrastructure/           *)
(* interceptor) and UpdateLoggingService (src/infrastructure/logging).     *)
(* Before the handler of a decorated endpoint the interceptor saves one    *)
(* "pending" row per resource it is going to change, with its old value,   *)
(* and awaits it; after the handler, and after the answer has left, it     *)
(* reads the new value and closes the row.  Each await is a step, so that  *)
(* requests of one process interleave, and a rejected promise that nobody  *)
(* handles ends the process.                                               *)
(*                                                                         *)
(* The value of a resource is the number of writes it has seen, 0 before   *)
(* it exists: what matters of an old or a new value is which writes it     *)
(* shows.                                                                  *)
(***************************************************************************)
EXTENDS Naturals

CONSTANTS
    Request,        \* HTTP requests, each with its own requestId
    Subscription,   \* housekeeping subscriptions
    HkRequest,      \* housekeeping requests
    Subscribed,     \* the housekeeping requests that belong to a subscription
    Existing,       \* the resources that exist at the start
    NoItem,         \* an undefined or null resource id
    Endpoints,      \* what is called, and with which body
    MaxCrashes      \* bound: how often the process ends and is started again

Item == Subscription \cup HkRequest

\* resource: the type in @LoggingUpdate, "none" without the decorator; shape: the
\* resource is named by one id, by one string in body.requestIds, by an array, or
\* is to be created; ids: the resources named; updater: the guards have set
\* userInfo, workerInfo or adminInfo (and not only bpAdminInfo).
Endpoint == [resource : {"none", "subscription", "request", "other"},
             shape : {"one", "oneInIds", "many", "create"},
             ids : SUBSET Item, updater : BOOLEAN]

ASSUME ConstantsAssumption ==
    /\ Subscribed \subseteq HkRequest
    /\ Subscription \cap HkRequest = {}
    /\ Existing \subseteq Item
    /\ NoItem \notin Item
    /\ Endpoints \subseteq Endpoint
    /\ MaxCrashes \in Nat

Key == Item \cup {NoItem}
Outcome == {"success", "fail"}

\* The value of a resource as read, findOne's null included.
Value == [item : Key, writes : Nat]
Null == [item |-> NoItem, writes |-> 0]

\* A row of the update log.  key is the resource it was saved for.
Row == [key : Key, resourceId : Key, status : {"pending"} \cup Outcome,
        oldValue : Value, newValue : Value]

VARIABLES
    alive,    \* the process is up
    stage,    \* of each request: see Stage
    endpoint, \* what each request calls
    todo,     \* the rows that saveUpdateLog still has to save
    rows,     \* the rows in the database with each requestId
    value,    \* the number of writes each resource has seen
    wrote,    \* history: the write each request did to each resource, or 0
    outcome,  \* what the handler did: "none", "success" or "fail"
    result,   \* the id in the handler's result
    task,     \* what tap or catchError still has to do for each request
    log,      \* the row that the task works on
    newValue, \* the value that the task has read
    crashes   \* how often the process has ended

processVars == <<alive, crashes>>
requestVars == <<stage, endpoint, todo, outcome, result>>
dataVars == <<value, wrote>>
taskVars == <<task, log, newValue>>
vars == <<alive, stage, endpoint, todo, rows, value, wrote, outcome, result,
          task, log, newValue, crashes>>

Stage == {"new", "reading", "saving", "handling", "written", "answered", "refused", "lost"}
Task == {"none", "findLog", "readNew", "saveLog", "markFail", "gone"}

NewRow(key, id, old) ==
    [key |-> key, resourceId |-> id, status |-> "pending",
     oldValue |-> old, newValue |-> Null]

NoRow == NewRow(NoItem, NoItem, Null)

\* findOne({where: {id}}): null if there is none; TypeORM leaves an undefined or
\* null id out of the condition, so that any row may come back.
Candidates(kind, id) ==
    IF id = NoItem
      THEN LET some == {i \in kind : value[i] > 0}
           IN  IF some = {} THEN {Null} ELSE {[item |-> i, writes |-> value[i]] : i \in some}
      ELSE IF id \in kind /\ value[id] > 0
             THEN {[item |-> id, writes |-> value[id]]}
             ELSE {Null}

Kind(resource) ==
    CASE resource = "subscription" -> Subscription
      [] resource = "request" -> HkRequest
      [] OTHER -> {}

\* An id is taken from the field of the body that is for its type, an array from
\* body.requestIds; any other shape names one resource or none.
ASSUME EndpointsAssumption ==
    \A e \in Endpoints :
        /\ e.resource \in {"subscription", "request"} => e.ids \subseteq Kind(e.resource)
        /\ e.shape \in {"oneInIds", "many"} => e.resource # "subscription"
        /\ e.shape # "many" => \A i, j \in e.ids : i = j

Decorated(r) == endpoint[r].resource # "none"
Creates(r) == endpoint[r].shape = "create"

-------------------------------------------------------------------------------
Init ==
    /\ alive = TRUE
    /\ stage = [r \in Request |-> "new"]
    /\ endpoint = [r \in Request |->
                      [resource |-> "none", shape |-> "one", ids |-> {},
                       updater |-> FALSE]]
    /\ todo = [r \in Request |-> {}]
    /\ rows = [r \in Request |-> {}]
    /\ value = [i \in Item |-> IF i \in Existing THEN 1 ELSE 0]
    /\ wrote = [r \in Request |-> [i \in Item |-> 0]]
    /\ outcome = [r \in Request |-> "none"]
    /\ result = [r \in Request |-> NoItem]
    /\ task = [r \in Request |-> "none"]
    /\ log = [r \in Request |-> NoRow]
    /\ newValue = [r \in Request |-> Null]
    /\ crashes = 0

-------------------------------------------------------------------------------
(* Before the handler *)

\* Mutant: a creation has nothing to save.
InterceptSkipsCreations(r, e) ==
    /\ alive
    /\ stage[r] = "new"
    /\ endpoint' = [endpoint EXCEPT ![r] = e]
    /\ stage' = [stage EXCEPT ![r] =
            CASE e.resource = "none" -> "handling"
              [] e.resource # "none" /\ ~e.updater -> "refused"
              [] e.updater /\ (e.resource = "other" \/ e.shape = "create") -> "handling"
              [] OTHER -> "reading"]
    /\ todo' = [todo EXCEPT ![r] = IF e.shape = "create" THEN {NoRow} ELSE {}]
    /\ UNCHANGED <<processVars, rows, dataVars, outcome, result, taskVars>>

\* intercept(), up to the first await: without the decorator the handler runs at
\* once; without an updater the request is refused; a creation has no old value
\* to read; a resource of another type has nothing to save.
Intercept(r, e) ==
    /\ alive
    /\ stage[r] = "new"
    /\ endpoint' = [endpoint EXCEPT ![r] = e]
    /\ stage' = [stage EXCEPT ![r] =
            CASE e.resource = "none" -> "handling"
              [] e.resource # "none" /\ ~e.updater -> "refused"
              [] e.resource # "none" /\ e.updater /\ e.shape = "create" -> "saving"
              [] e.resource = "other" /\ e.updater /\ e.shape # "create" -> "handling"
              [] OTHER -> "reading"]
    /\ todo' = [todo EXCEPT ![r] = IF e.shape = "create" THEN {NoRow} ELSE {}]
    /\ UNCHANGED <<processVars, rows, dataVars, outcome, result, taskVars>>

\* The rows of a batch, one for each resource that is found.
BatchRows(ids) ==
    {NewRow(i, i, [item |-> i, writes |-> value[i]]) :
        i \in {j \in ids \cap HkRequest : value[j] > 0}}

\* saveUpdateLog reads the old value(s).  A single housekeeping request that is
\* not found makes it throw, one without a subscription is not logged; an id that
\* came in body.requestIds is not copied to the row.
ReadOldValue(r) ==
    /\ alive
    /\ stage[r] = "reading"
    /\ LET e == endpoint[r]
       IN  IF e.shape = "many"
             THEN /\ todo' = [todo EXCEPT ![r] = BatchRows(e.ids)]
                  /\ stage' = [stage EXCEPT ![r] =
                                  IF BatchRows(e.ids) = {} THEN "handling" ELSE "saving"]
             ELSE \E i \in IF e.ids = {} THEN {NoItem} ELSE e.ids :
                  \E old \in Candidates(Kind(e.resource), i) :
                     IF e.resource = "request" /\ old.item \notin Subscribed
                       THEN /\ stage' = [stage EXCEPT ![r] =
                                            IF old = Null THEN "refused" ELSE "handling"]
                            /\ UNCHANGED todo
                       ELSE /\ stage' = [stage EXCEPT ![r] = "saving"]
                            /\ todo' = [todo EXCEPT ![r] =
                                  {NewRow(i, IF e.shape = "one" THEN i ELSE NoItem, old)}]
    /\ UNCHANGED <<processVars, endpoint, rows, dataVars, outcome, result, taskVars>>

\* Mutant: only one row of a batch is saved.
SaveRowOnce(r) ==
    /\ alive
    /\ stage[r] = "saving"
    /\ \E row \in todo[r] :
          /\ rows' = [rows EXCEPT ![r] = @ \cup {row}]
          /\ todo' = [todo EXCEPT ![r] = {}]
          /\ stage' = [stage EXCEPT ![r] = "handling"]
    /\ UNCHANGED <<processVars, endpoint, dataVars, outcome, result, taskVars>>

\* One awaited save; after the last the handler starts.
SaveRow(r) ==
    /\ alive
    /\ stage[r] = "saving"
    /\ \E row \in todo[r] :
          /\ rows' = [rows EXCEPT ![r] = @ \cup {row}]
          /\ todo' = [todo EXCEPT ![r] = @ \ {row}]
          /\ stage' = [stage EXCEPT ![r] = IF todo[r] = {row} THEN "handling" ELSE @]
    /\ UNCHANGED <<processVars, endpoint, dataVars, outcome, result, taskVars>>

\* The database fails one of these calls, or its reply is lost after the row was
\* saved: the request is refused before its handler, and outside catchError, so
\* that saved rows stay as they are.
SaveUpdateLogFails(r) ==
    /\ alive
    /\ stage[r] \in {"reading", "saving"}
    /\ stage' = [stage EXCEPT ![r] = "refused"]
    /\ \/ UNCHANGED rows
       \/ /\ stage[r] = "saving"
          /\ \E row \in todo[r] : rows' = [rows EXCEPT ![r] = @ \cup {row}]
    /\ UNCHANGED <<processVars, endpoint, todo, dataVars, outcome, result, taskVars>>

-------------------------------------------------------------------------------
(* The handler, and what is left to do after it *)

\* What the handler of r changes: the resources that the body names, or a new one.
WriteItems(r, items) ==
    /\ value' = [i \in Item |-> IF i \in items THEN value[i] + 1 ELSE value[i]]
    /\ wrote' = [wrote EXCEPT ![r] =
                    [i \in Item |-> IF i \in items THEN value[i] + 1 ELSE 0]]

HandlerWrites(r) ==
    /\ alive
    /\ stage[r] = "handling"
    /\ stage' = [stage EXCEPT ![r] = "written"]
    /\ IF Creates(r) /\ Kind(endpoint[r].resource) # {}
         THEN \E i \in {j \in Kind(endpoint[r].resource) : value[j] = 0} :
                 WriteItems(r, {i})
         ELSE WriteItems(r, {i \in endpoint[r].ids : value[i] > 0})
    /\ UNCHANGED <<processVars, endpoint, todo, rows, outcome, result, taskVars>>

\* The handler of a creation may or may not return the new id.
HandlerSucceeds(r) ==
    /\ alive
    /\ stage[r] = "written"
    /\ stage' = [stage EXCEPT ![r] = "answered"]
    /\ outcome' = [outcome EXCEPT ![r] = "success"]
    /\ task' = [task EXCEPT ![r] = IF Decorated(r) THEN "findLog" ELSE "none"]
    /\ \E id \in {NoItem} \cup {i \in Item : Creates(r) /\ wrote[r][i] > 0} :
          result' = [result EXCEPT ![r] = id]
    /\ UNCHANGED <<processVars, endpoint, todo, rows, dataVars, log, newValue>>

\* Mutant: a failed handler goes through tap as a successful one does.
HandlerFailsAsSuccess(r) ==
    /\ alive
    /\ stage[r] \in {"handling", "written"}
    /\ stage' = [stage EXCEPT ![r] = "answered"]
    /\ outcome' = [outcome EXCEPT ![r] = "fail"]
    /\ task' = [task EXCEPT ![r] = IF Decorated(r) THEN "findLog" ELSE "none"]
    /\ UNCHANGED <<processVars, endpoint, todo, rows, dataVars, result, log, newValue>>

\* It may fail after it has written.
HandlerFails(r) ==
    /\ alive
    /\ stage[r] \in {"handling", "written"}
    /\ stage' = [stage EXCEPT ![r] = "answered"]
    /\ outcome' = [outcome EXCEPT ![r] = "fail"]
    /\ task' = [task EXCEPT ![r] = IF Decorated(r) THEN "markFail" ELSE "none"]
    /\ UNCHANGED <<processVars, endpoint, todo, rows, dataVars, result, log, newValue>>

\* Mutant: the status has another name.
MarkError(r) ==
    /\ alive
    /\ task[r] = "markFail"
    /\ rows' = [rows EXCEPT ![r] = {[row EXCEPT !.status = "error"] : row \in @}]
    /\ task' = [task EXCEPT ![r] = "none"]
    /\ UNCHANGED <<processVars, requestVars, dataVars, log, newValue>>

\* Mutant: one of the rows is marked, as a success closes one of them.
MarkOneFail(r) ==
    /\ alive
    /\ task[r] = "markFail"
    /\ IF rows[r] = {}
         THEN UNCHANGED rows
         ELSE \E row \in rows[r] :
                 rows' = [rows EXCEPT ![r] = (@ \ {row}) \cup
                                                {[row EXCEPT !.status = "fail"]}]
    /\ task' = [task EXCEPT ![r] = "none"]
    /\ UNCHANGED <<processVars, requestVars, dataVars, log, newValue>>

\* saveResult('fail'): one UPDATE of every row with this requestId.
MarkFail(r) ==
    /\ alive
    /\ task[r] = "markFail"
    /\ rows' = [rows EXCEPT ![r] = {[row EXCEPT !.status = "fail"] : row \in @}]
    /\ task' = [task EXCEPT ![r] = "none"]
    /\ UNCHANGED <<processVars, requestVars, dataVars, log, newValue>>

\* updateLogWithResourceId is called instead of saveResult('success').
HasResourceId(r) == Creates(r) /\ result[r] # NoItem

\* findOne({where: {requestId}}): one row with this requestId.  updateLogWithResourceId
\* only goes on for a housekeeping request, saveResult for the two known types.
FindLog(r) ==
    /\ alive
    /\ task[r] = "findLog"
    /\ \/ /\ \E row \in rows[r] : log' = [log EXCEPT ![r] = row]
          /\ task' = [task EXCEPT ![r] =
                IF endpoint[r].resource = "other"
                   \/ (HasResourceId(r) /\ endpoint[r].resource # "request")
                  THEN "none" ELSE "readNew"]
       \/ /\ rows[r] = {}
          /\ HasResourceId(r) /\ endpoint[r].resource # "request"
          /\ task' = [task EXCEPT ![r] = "none"]
          /\ UNCHANGED log
    /\ UNCHANGED <<processVars, requestVars, rows, dataVars, newValue>>

\* Mutant: the value read before the handler is used again.
ReusesOldValue(r) ==
    /\ alive
    /\ task[r] = "readNew"
    /\ newValue' = [newValue EXCEPT ![r] = log[r].oldValue]
    /\ task' = [task EXCEPT ![r] = "saveLog"]
    /\ UNCHANGED <<processVars, requestVars, rows, dataVars, log>>

ReadNewValue(r) ==
    /\ alive
    /\ task[r] = "readNew"
    /\ \E v \in Candidates(Kind(endpoint[r].resource),
                           IF HasResourceId(r) THEN result[r] ELSE log[r].resourceId) :
          newValue' = [newValue EXCEPT ![r] = v]
    /\ task' = [task EXCEPT ![r] = "saveLog"]
    /\ UNCHANGED <<processVars, requestVars, rows, dataVars, log>>

\* save(log): the row found, closed.
ClosedRow(r) ==
    [log[r] EXCEPT !.status = "success", !.newValue = newValue[r],
                   !.resourceId = IF HasResourceId(r) THEN result[r] ELSE @]

SaveLog(r) ==
    /\ alive
    /\ task[r] = "saveLog"
    /\ rows' = [rows EXCEPT ![r] = {row \in @ : row.key # log[r].key} \cup {ClosedRow(r)}]
    /\ task' = [task EXCEPT ![r] = "none"]
    /\ UNCHANGED <<processVars, requestVars, dataVars, log, newValue>>

-------------------------------------------------------------------------------
(* The end of the process *)

EndProcess ==
    /\ alive' = FALSE
    /\ stage' = [r \in Request |->
                    IF stage[r] \in {"reading", "saving", "handling", "written"}
                      THEN "lost" ELSE stage[r]]
    /\ task' = [r \in Request |-> IF task[r] = "none" THEN "none" ELSE "gone"]
    /\ UNCHANGED <<endpoint, todo, rows, dataVars, outcome, result, log, newValue>>

\* saveResult('success') uses the row that findOne did not find: a rejection that
\* nobody handles.
NoLogFound(r) ==
    /\ alive
    /\ task[r] = "findLog"
    /\ rows[r] = {}
    /\ ~(HasResourceId(r) /\ endpoint[r].resource # "request")
    /\ EndProcess
    /\ UNCHANGED crashes

\* A database call of a task fails, which nobody handles either, or the process
\* ends for another reason.
Crash ==
    /\ alive
    /\ crashes < MaxCrashes
    /\ crashes' = crashes + 1
    /\ EndProcess

Restart ==
    /\ ~alive
    /\ alive' = TRUE
    /\ UNCHANGED <<crashes, requestVars, rows, dataVars, taskVars>>

-------------------------------------------------------------------------------
Next ==
    \/ \E r \in Request :
          \/ \E e \in Endpoints : Intercept(r, e)
          \/ ReadOldValue(r)
          \/ SaveRow(r)
          \/ SaveUpdateLogFails(r)
          \/ HandlerWrites(r)
          \/ HandlerSucceeds(r)
          \/ HandlerFails(r)
          \/ MarkFail(r)
          \/ FindLog(r)
          \/ ReadNewValue(r)
          \/ SaveLog(r)
          \/ NoLogFound(r)
    \/ Crash
    \/ Restart

Spec == Init /\ [][Next]_vars

\* The database answers and the event loop goes on with what was answered.
Fairness ==
    \A r \in Request :
        WF_vars(MarkFail(r) \/ FindLog(r) \/ ReadNewValue(r) \/ SaveLog(r) \/ NoLogFound(r))

FairSpec == Spec /\ Fairness

-------------------------------------------------------------------------------
(* Properties *)

\* Every variable stays in its set of values.
TypeOK ==
    /\ alive \in BOOLEAN
    /\ stage \in [Request -> Stage]
    /\ endpoint \in [Request -> Endpoint]
    /\ todo \in [Request -> SUBSET Row]
    /\ rows \in [Request -> SUBSET Row]
    /\ value \in [Item -> Nat]
    /\ wrote \in [Request -> [Item -> Nat]]
    /\ outcome \in [Request -> Outcome \cup {"none"}]
    /\ result \in [Request -> Key]
    /\ task \in [Request -> Task]
    /\ log \in [Request -> Row]
    /\ newValue \in [Request -> Value]
    /\ crashes \in 0 .. MaxCrashes

\* The resources for which the service means to keep a row: subscriptions, the
\* requests of a batch, and single requests of a subscription.
Loggable(r, i) ==
    \/ endpoint[r].resource = "subscription"
    \/ endpoint[r].resource = "request" /\ (endpoint[r].shape = "many" \/ i \in Subscribed)

\* No change without a trace: when a decorated request has changed a resource
\* that existed all along and is to be logged, a row of that resource with a value
\* from before the change is in the database, whatever the other requests, the
\* database and the process did.
ChangedIsLogged ==
    \A r \in Request : \A i \in Existing :
        Decorated(r) /\ wrote[r][i] > 0 /\ Loggable(r, i) =>
            \E row \in rows[r] :
                /\ row.key = i
                /\ row.oldValue.item = i
                /\ row.oldValue.writes < wrote[r][i]

\* A closed row of a change brackets it: its old value is from before and its new
\* value from after the request's own write, also when other requests write the
\* same resource between the reads.
ClosedRowBracketsTheWrite ==
    \A r \in Request : \A row \in rows[r] :
        LET i == row.resourceId
        IN  row.status = "success" /\ i \in Item /\ wrote[r][i] > 0 =>
                  /\ row.newValue.item = i
                  /\ row.newValue.writes >= wrote[r][i]
                  /\ row.oldValue.writes < wrote[r][i]

\* When the work on an answered request is over, a row is still pending only
\* because it is one of a batch of which another row was closed, or because it
\* records the creation of something other than a housekeeping request.
PendingExplained ==
    \A r \in Request : \A row \in rows[r] :
        stage[r] = "answered" /\ task[r] = "none" /\ row.status = "pending" =>
            /\ outcome[r] = "success"
            /\ \/ /\ endpoint[r].shape = "many"
                  /\ \E other \in rows[r] : other.status = "success"
               \/ Creates(r) /\ endpoint[r].resource # "request"

\* The service ends its own process only after a successful update that it keeps
\* no row for: a resource of another type, a single request without a
\* subscription, a batch of which nothing was found.
OnlyUnloggedUpdatesEndTheProcess ==
    ~alive /\ crashes = 0 =>
        \E r \in Request :
            /\ Decorated(r) /\ ~Creates(r) /\ outcome[r] = "success"
            /\ \/ endpoint[r].resource = "other"
               \/ \A i \in endpoint[r].ids : ~Loggable(r, i) \/ i \notin Existing

\* A failed request with rows comes to have all of them marked, a successful one
\* comes to have one of them closed (creations of other resources aside), unless
\* the process ends on the way.
AnsweredIsClosed ==
    \A r \in Request :
        stage[r] = "answered" /\ rows[r] # {} /\ endpoint[r].resource # "other"
        /\ ~(HasResourceId(r) /\ endpoint[r].resource # "request") ~>
            \/ task[r] = "gone"
            \/ outcome[r] = "fail" /\ \A row \in rows[r] : row.status = "fail"
            \/ outcome[r] = "success" /\ \E row \in rows[r] : row.status = "success"

\* "생성 일경우 oldValue가 없음으로 newValue만 저장": of a creation the new value is
\* saved.
CreationSavesNewValue ==
    \A r \in Request :
        Creates(r) /\ HasResourceId(r) /\ outcome[r] = "success" /\ task[r] = "none"
        /\ endpoint[r].resource # "other" =>
            \E row \in rows[r] : row.newValue # Null

\* The rows are a log of the requests: each is opened as pending and closed once,
\* with the outcome of its own request.
Status(r, k) ==
    IF \E row \in rows[r] : row.key = k
      THEN (CHOOSE row \in rows[r] : row.key = k).status
      ELSE "none"

Log == INSTANCE RequestLog WITH
    Entry <- Request \X Key,
    OwnerOf <- [e \in Request \X Key |-> e[1]],
    entry <- [e \in Request \X Key |-> Status(e[1], e[2])]

KeepsLog == Log!LogSpec
================================================================================
