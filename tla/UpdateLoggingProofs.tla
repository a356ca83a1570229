-------------------------- MODULE UpdateLoggingProofs --------------------------
(***************************************************************************)
(* Proofs about UpdateLogging for any number of requests, resources and    *)
(* endpoints, any interleaving at the awaits and any number of crashes.    *)
(***************************************************************************)
EXTENDS UpdateLogging, TLAPS

Known == {"subscription", "request"}

\* An endpoint that was intercepted is as EndpointsAssumption says.
EndpointOK(r) ==
    LET e == endpoint[r]
    IN  /\ e.resource \in Known => e.ids \subseteq Kind(e.resource)
        /\ e.shape \in {"oneInIds", "many"} => e.resource # "subscription"
        /\ e.shape # "many" => \A i, j \in e.ids : i = j

\* Before its handler a request has written nothing and has no task.
StageOK(r) ==
    /\ stage[r] \in {"new", "reading", "saving", "handling", "refused"} =>
          \A i \in Item : wrote[r][i] = 0
    /\ stage[r] = "reading" => endpoint[r].resource \in Known /\ ~Creates(r)
    /\ stage[r] \in {"new", "reading"} => rows[r] = {}
    /\ stage[r] # "answered" => result[r] = NoItem
    /\ task[r] \in {"findLog", "readNew", "saveLog", "markFail"} =>
          stage[r] = "answered" /\ Decorated(r)

\* A request writes what its endpoint names, or a new resource of its type.
WroteOK(r) ==
    \A i \in Item :
        /\ wrote[r][i] <= value[i]
        /\ wrote[r][i] > 0 =>
              IF Creates(r) /\ endpoint[r].resource \in Known
                THEN i \in Kind(endpoint[r].resource) \ Existing
                ELSE i \in endpoint[r].ids

\* The old value in a row is from before the write, of the resource it names.
RowOK(r, row) ==
    IF Creates(r)
      THEN row.oldValue = Null
      ELSE /\ row.resourceId \in {row.key, NoItem}
           /\ row.key \in Item =>
                 /\ row.oldValue.writes <= value[row.key]
                 /\ wrote[r][row.key] > 0 => row.oldValue.writes < wrote[r][row.key]
           /\ row.key \in Existing => row.oldValue.item = row.key

\* The new value v of resource i is from after the write.
NewOK(r, i, v) ==
    i \in Item /\ wrote[r][i] > 0 => v.item = i /\ v.writes >= wrote[r][i]

RowsOK(r) ==
    /\ \A row \in rows[r] :
          /\ RowOK(r, row)
          /\ row.status = "success" => NewOK(r, row.resourceId, row.newValue)
    /\ stage[r] # "answered" => \A row \in rows[r] : row.status = "pending"
    /\ stage[r] = "saving" => \A row \in todo[r] : RowOK(r, row) /\ row.status = "pending"

HasRow(i, some) == \E row \in some : row.key = i

\* What is to be logged has a row before the handler starts.
TraceOK(r) ==
    \A i \in endpoint[r].ids \cap Existing :
        endpoint[r].resource \in Known /\ ~Creates(r) /\ Loggable(r, i) =>
            /\ stage[r] = "saving" => HasRow(i, rows[r] \cup todo[r])
            /\ stage[r] \in {"handling", "written", "answered"} \/ wrote[r][i] > 0 =>
                  HasRow(i, rows[r])

\* The resource whose new value a task reads.
Target(r) == IF HasResourceId(r) THEN result[r] ELSE log[r].resourceId

TaskOK(r) ==
    /\ result[r] # NoItem => Creates(r)
    /\ task[r] \in {"readNew", "saveLog"} =>
          log[r] \in rows[r] /\ endpoint[r].resource \in Known
    /\ task[r] = "saveLog" => NewOK(r, Target(r), newValue[r])

ReqOK(r) ==
    EndpointOK(r) /\ StageOK(r) /\ WroteOK(r) /\ RowsOK(r) /\ TraceOK(r) /\ TaskOK(r)

Inv ==
    /\ TypeOK
    /\ \A i \in Existing : value[i] > 0
    /\ \A r \in Request : ReqOK(r)

-------------------------------------------------------------------------------
(* What stays as it is *)

\* A step that leaves the fields of a request alone, and undoes no write, keeps what
\* holds of it.
SameRequest(q) ==
    /\ stage'[q] = stage[q] /\ endpoint'[q] = endpoint[q] /\ todo'[q] = todo[q]
    /\ rows'[q] = rows[q] /\ wrote'[q] = wrote[q] /\ result'[q] = result[q]
    /\ task'[q] = task[q] /\ log'[q] = log[q] /\ newValue'[q] = newValue[q]

LEMMA SameRequestKeeps ==
    ASSUME Inv, TypeOK', NEW q \in Request, SameRequest(q),
           \A i \in Item : value'[i] >= value[i]
    PROVE  ReqOK(q)'
<1>1. ReqOK(q) /\ q \in Request
  BY DEF Inv
<1>2. EndpointOK(q)' /\ StageOK(q)' /\ TraceOK(q)' /\ TaskOK(q)'
  BY <1>1 DEF ReqOK, SameRequest, EndpointOK, StageOK, TraceOK, TaskOK, Creates, Decorated,
     Loggable, HasRow, Target, HasResourceId, NewOK
<1>3. /\ value \in [Item -> Nat] /\ value' \in [Item -> Nat]
      /\ wrote[q] \in [Item -> Nat]
      /\ rows[q] \subseteq Row /\ todo[q] \subseteq Row
  BY DEF Inv, TypeOK
<1>4. WroteOK(q)'
  BY <1>1, <1>3 DEF ReqOK, WroteOK, SameRequest, Creates
<1>5. ASSUME NEW row \in Row, RowOK(q, row) PROVE RowOK(q, row)'
  <2>1. row.oldValue.writes \in Nat
    BY DEF Row, Value
  <2> QED
    BY <1>3, <1>5, <2>1 DEF RowOK, SameRequest, Creates
<1>6. RowsOK(q)'
  BY <1>1, <1>3, <1>5 DEF ReqOK, RowsOK, SameRequest, NewOK
<1> QED
  BY <1>2, <1>4, <1>6 DEF ReqOK

\* So a step on request r needs a look at r alone.
LEMMA OneRequest ==
    ASSUME Inv, TypeOK', NEW r \in Request, ReqOK(r)',
           \A q \in Request \ {r} : SameRequest(q),
           \A i \in Item : value'[i] >= value[i]
    PROVE  Inv'
<1>1. \A q \in Request : ReqOK(q)'
  BY SameRequestKeeps
<1>2. \A i \in Existing : value'[i] > 0
  BY ConstantsAssumption DEF Inv, TypeOK
<1> QED
  BY <1>1, <1>2 DEF Inv

LEMMA SameValues == Inv /\ UNCHANGED value => \A i \in Item : value'[i] >= value[i]
BY DEF Inv, TypeOK

-------------------------------------------------------------------------------

LEMMA NullIsValue == Null \in Value /\ NoRow \in Row
BY DEF Null, Value, Key, NoRow, NewRow, Row

LEMMA InitInv == Init => Inv
<1> SUFFICES ASSUME Init PROVE Inv
  OBVIOUS
<1>1. TypeOK
  BY NullIsValue, ConstantsAssumption DEF Init, TypeOK, Stage, Endpoint, Key, Task
<1>2. ASSUME NEW r \in Request PROVE ReqOK(r)
  BY ConstantsAssumption DEF Init, ReqOK, EndpointOK, StageOK, WroteOK, RowsOK, TraceOK, TaskOK,
     Known, Creates
<1>3. \A i \in Existing : value[i] > 0
  BY ConstantsAssumption DEF Init
<1> QED
  BY <1>1, <1>2, <1>3 DEF Inv

LEMMA InterceptInv ==
    ASSUME Inv, NEW r \in Request, NEW e \in Endpoints, Intercept(r, e)
    PROVE  Inv'
<1> USE DEF processVars, dataVars, taskVars
<1>1. e \in Endpoint
  BY ConstantsAssumption
<1>2. /\ stage'[r] \in {"handling", "refused", "saving", "reading"}
      /\ stage'[r] = "reading" => e.resource \in Known /\ e.shape # "create"
      /\ stage'[r] = "saving" => e.shape = "create"
      /\ stage'[r] = "handling" => e.resource \notin Known
      /\ stage' = [stage EXCEPT ![r] = stage'[r]]
  BY <1>1 DEF Intercept, Inv, TypeOK, Known, Endpoint
<1>3. /\ endpoint' = [endpoint EXCEPT ![r] = e]
      /\ todo' = [todo EXCEPT ![r] = IF e.shape = "create" THEN {NoRow} ELSE {}]
      /\ UNCHANGED <<alive, crashes, rows, value, wrote, outcome, result, task, log, newValue>>
      /\ stage[r] = "new"
  BY DEF Intercept
<1>4. TypeOK'
  BY <1>1, <1>2, <1>3, NullIsValue DEF Inv, TypeOK, Stage
<1>5. ReqOK(r)'
  <2>1. ReqOK(r) /\ endpoint'[r] = e /\ task[r] = task'[r]
    BY <1>3 DEF Inv, TypeOK
  <2>2. EndpointOK(r)'
    BY <2>1, EndpointsAssumption DEF EndpointOK, Known
  <2>3. rows[r] = {} /\ \A i \in Item : wrote[r][i] = 0
    BY <1>3, <2>1 DEF ReqOK, StageOK
  <2>4. StageOK(r)'
    BY <1>2, <1>3, <2>1, <2>3 DEF ReqOK, StageOK, Creates
  <2>5. WroteOK(r)'
    BY <1>3, <2>3 DEF WroteOK, Inv, TypeOK
  <2>6. RowsOK(r)'
    <3>1. stage'[r] = "saving" => todo'[r] = {NoRow} /\ Creates(r)'
      BY <1>2, <1>3, <2>1 DEF Inv, TypeOK, Creates
    <3> QED
      BY <1>3, <2>3, <3>1 DEF RowsOK, RowOK, NoRow, NewRow
  <2>7. TraceOK(r)'
    BY <1>2, <1>3, <2>1, <2>3, ConstantsAssumption DEF TraceOK, Creates
  <2>8. TaskOK(r)'
    BY <1>3, <2>1 DEF ReqOK, StageOK, TaskOK, Creates
  <2> QED
    BY <2>2, <2>4, <2>5, <2>6, <2>7, <2>8 DEF ReqOK
<1>6. \A q \in Request \ {r} : SameRequest(q)
  BY <1>2, <1>3 DEF SameRequest, Inv, TypeOK
<1> QED
  BY <1>3, <1>4, <1>5, <1>6, OneRequest, SameValues

\* One old value for a resource that was named.
LEMMA Candidate ==
    ASSUME Inv, NEW kind \in SUBSET Item, NEW i \in Key, NEW v \in Candidates(kind, i)
    PROVE  /\ v \in Value
           /\ i \in Item => v.writes <= value[i]
           /\ i \in kind /\ value[i] > 0 => v.item = i /\ v.writes = value[i]
<1>1. value \in [Item -> Nat] /\ NoItem \notin Item
  BY ConstantsAssumption DEF Inv, TypeOK
<1>2. CASE i = NoItem
  <2> DEFINE some == {j \in kind : value[j] > 0}
  <2>1. v = Null \/ \E j \in some : v = [item |-> j, writes |-> value[j]]
    BY <1>2 DEF Candidates
  <2> QED
    BY <1>1, <1>2, <2>1, NullIsValue DEF Value, Key
<1>3. CASE i # NoItem
  <2>1. IF i \in kind /\ value[i] > 0 THEN v = [item |-> i, writes |-> value[i]] ELSE v = Null
    BY <1>3 DEF Candidates
  <2>2. Null.writes = 0
    BY DEF Null
  <2> QED
    BY <1>1, <1>3, <2>1, <2>2, NullIsValue DEF Value, Key
<1> QED
  BY <1>2, <1>3

LEMMA KindIsSubset == \A resource : Kind(resource) \in SUBSET Item
BY DEF Kind, Item

LEMMA RowIsTyped ==
    ASSUME NEW key \in Key, NEW id \in Key, NEW old \in Value
    PROVE  NewRow(key, id, old) \in Row
BY NullIsValue DEF NewRow, Row

\* The rows of a batch.
LEMMA Batch ==
    ASSUME Inv, NEW ids \in SUBSET Item
    PROVE  /\ BatchRows(ids) \subseteq Row
           /\ \A row \in BatchRows(ids) :
                  /\ row.key \in Item /\ row.resourceId = row.key /\ row.status = "pending"
                  /\ row.oldValue = [item |-> row.key, writes |-> value[row.key]]
           /\ \A i \in ids \cap HkRequest \cap Existing : HasRow(i, BatchRows(ids))
<1>1. value \in [Item -> Nat] /\ HkRequest \subseteq Item /\ \A i \in Existing : value[i] > 0
  BY DEF Inv, TypeOK, Item
<1>2. ASSUME NEW row \in BatchRows(ids)
      PROVE  \E i \in Item : row = NewRow(i, i, [item |-> i, writes |-> value[i]])
  BY <1>1 DEF BatchRows
<1>3. ASSUME NEW i \in Item
      PROVE  NewRow(i, i, [item |-> i, writes |-> value[i]]) \in Row
  BY <1>1, RowIsTyped DEF Value, Key
<1>4. ASSUME NEW i \in ids \cap HkRequest \cap Existing PROVE HasRow(i, BatchRows(ids))
  <2>1. NewRow(i, i, [item |-> i, writes |-> value[i]]) \in BatchRows(ids)
    BY <1>1 DEF BatchRows
  <2> QED
    BY <2>1 DEF HasRow, NewRow
<1> QED
  BY <1>2, <1>3, <1>4 DEF NewRow

LEMMA ReadOldValueInv ==
    ASSUME Inv, NEW r \in Request, ReadOldValue(r)
    PROVE  Inv'
<1> USE DEF processVars, dataVars, taskVars
<1> DEFINE e == endpoint[r]
<1>1. /\ stage[r] = "reading"
      /\ UNCHANGED <<alive, crashes, endpoint, rows, value, wrote, outcome, result, task,
                     log, newValue>>
  BY DEF ReadOldValue
<1>2. /\ ReqOK(r) /\ e \in Endpoint /\ e.ids \in SUBSET Item
      /\ e.resource \in Known /\ ~Creates(r) /\ rows[r] = {}
      /\ \A i \in Item : wrote[r][i] = 0
  BY <1>1 DEF Inv, TypeOK, ReqOK, StageOK, Endpoint
\* What there is to save, and where the request goes on.
<1>3. /\ stage' = [stage EXCEPT ![r] = stage'[r]]
      /\ todo' = [todo EXCEPT ![r] = todo'[r]]
      /\ stage'[r] \in {"handling", "saving", "refused"}
      /\ todo'[r] \subseteq Row
      /\ stage'[r] = "saving" => \A row \in todo'[r] : RowOK(r, row) /\ row.status = "pending"
      /\ \A i \in e.ids \cap Existing :
            Loggable(r, i) =>
               /\ stage'[r] = "saving" => HasRow(i, todo'[r])
               /\ stage'[r] # "handling"
  <2>1. CASE e.shape = "many"
    <3>1. /\ todo' = [todo EXCEPT ![r] = BatchRows(e.ids)]
          /\ stage' = [stage EXCEPT ![r] =
                          IF BatchRows(e.ids) = {} THEN "handling" ELSE "saving"]
      BY <2>1 DEF ReadOldValue
    <3>2. todo'[r] = BatchRows(e.ids) /\ stage'[r] = IF BatchRows(e.ids) = {} THEN "handling" ELSE "saving"
      BY <3>1 DEF Inv, TypeOK
    <3>3. e.ids \subseteq HkRequest
      BY <1>2, <2>1 DEF ReqOK, EndpointOK, Kind, Known
    <3>4. \A row \in BatchRows(e.ids) : RowOK(r, row) /\ row.status = "pending"
      <4> SUFFICES ASSUME NEW row \in BatchRows(e.ids)
                   PROVE  RowOK(r, row) /\ row.status = "pending"
        OBVIOUS
      <4>1. /\ row.key \in Item /\ row.resourceId = row.key /\ row.status = "pending"
            /\ row.oldValue = [item |-> row.key, writes |-> value[row.key]]
        BY <1>2, Batch
      <4>2. value[row.key] \in Nat /\ wrote[r][row.key] = 0
        BY <1>2, <4>1 DEF Inv, TypeOK
      <4> QED
        BY <1>2, <4>1, <4>2 DEF RowOK
    <3>5. \A i \in e.ids \cap Existing : HasRow(i, BatchRows(e.ids)) /\ BatchRows(e.ids) # {}
      BY <1>2, <3>3, Batch DEF HasRow
    <3>6. BatchRows(e.ids) \subseteq Row
      BY <1>2, Batch
    <3> QED
      <4>1. stage' = [stage EXCEPT ![r] = stage'[r]] /\ todo' = [todo EXCEPT ![r] = todo'[r]]
        BY <3>1, <3>2
      <4> QED
        BY <3>2, <3>4, <3>5, <3>6, <4>1
  <2>2. CASE e.shape # "many"
    <3>1. PICK i \in IF e.ids = {} THEN {NoItem} ELSE e.ids :
                 \E old \in Candidates(Kind(e.resource), i) :
                     IF e.resource = "request" /\ old.item \notin Subscribed
                       THEN /\ stage' = [stage EXCEPT ![r] =
                                            IF old = Null THEN "refused" ELSE "handling"]
                            /\ UNCHANGED todo
                       ELSE /\ stage' = [stage EXCEPT ![r] = "saving"]
                            /\ todo' = [todo EXCEPT ![r] =
                                  {NewRow(i, IF e.shape = "one" THEN i ELSE NoItem, old)}]
      BY <2>2 DEF ReadOldValue
    <3>2. PICK old \in Candidates(Kind(e.resource), i) :
                     IF e.resource = "request" /\ old.item \notin Subscribed
                       THEN /\ stage' = [stage EXCEPT ![r] =
                                            IF old = Null THEN "refused" ELSE "handling"]
                            /\ UNCHANGED todo
                       ELSE /\ stage' = [stage EXCEPT ![r] = "saving"]
                            /\ todo' = [todo EXCEPT ![r] =
                                  {NewRow(i, IF e.shape = "one" THEN i ELSE NoItem, old)}]
      BY <3>1
    <3> DEFINE row == NewRow(i, IF e.shape = "one" THEN i ELSE NoItem, old)
    <3>3. i \in Key /\ (e.ids # {} => i \in e.ids)
      BY <1>2, <3>1 DEF Key
    <3>4. \A j \in e.ids : j = i
      BY <1>2, <2>2, <3>3 DEF ReqOK, EndpointOK
    <3>5. /\ old \in Value
          /\ i \in Item => old.writes <= value[i]
          /\ i \in Existing /\ i \in e.ids => old.item = i
      BY <1>2, <3>2, <3>3, Candidate, KindIsSubset DEF ReqOK, EndpointOK, Inv
    <3>6. row \in Row
      BY <3>3, <3>5, RowIsTyped DEF Key
    <3>7. i \in Existing => i \in e.ids
      BY <3>1, ConstantsAssumption
    <3>8. RowOK(r, row) /\ row.status = "pending" /\ row.key = i
      BY <1>2, <3>3, <3>5, <3>7 DEF RowOK, NewRow
    <3>9. CASE e.resource = "request" /\ old.item \notin Subscribed
      <4>1. /\ stage' = [stage EXCEPT ![r] = IF old = Null THEN "refused" ELSE "handling"]
            /\ todo' = todo
        BY <3>2, <3>9
      <4>2. \A j \in e.ids \cap Existing : ~Loggable(r, j)
        BY <2>2, <3>4, <3>5, <3>9 DEF Loggable
      <4>3. stage'[r] \in {"handling", "refused"} /\ stage' = [stage EXCEPT ![r] = stage'[r]]
        BY <4>1 DEF Inv, TypeOK
      <4>4. todo' = [todo EXCEPT ![r] = todo'[r]] /\ todo'[r] \subseteq Row
        BY <4>1 DEF Inv, TypeOK
      <4> QED
        BY <4>2, <4>3, <4>4
    <3>10. CASE ~(e.resource = "request" /\ old.item \notin Subscribed)
      <4>1. /\ stage' = [stage EXCEPT ![r] = "saving"]
            /\ todo' = [todo EXCEPT ![r] = {row}]
        BY <3>2, <3>10
      <4>2. stage'[r] = "saving" /\ todo'[r] = {row}
        BY <4>1 DEF Inv, TypeOK
      <4>3. \A j \in e.ids \cap Existing : HasRow(j, todo'[r])
        BY <3>4, <3>8, <4>2 DEF HasRow
      <4> QED
        BY <3>6, <3>8, <4>1, <4>2, <4>3
    <3> QED
      BY <3>9, <3>10
  <2> QED
    BY <2>1, <2>2
<1>4. TypeOK'
  BY <1>1, <1>3 DEF Inv, TypeOK, Stage
<1>5. ReqOK(r)'
  <2>1. EndpointOK(r)' /\ WroteOK(r)' /\ TaskOK(r)' /\ StageOK(r)'
    BY <1>1, <1>2, <1>3 DEF ReqOK, EndpointOK, WroteOK, TaskOK, StageOK, Creates, Decorated,
       Target, HasResourceId, NewOK
  <2>2. RowsOK(r)'
    BY <1>1, <1>2, <1>3 DEF RowsOK, RowOK, Creates
  <2>3. TraceOK(r)'
    BY <1>1, <1>2, <1>3, ConstantsAssumption DEF TraceOK, Creates, Loggable, HasRow
  <2> QED
    BY <2>1, <2>2, <2>3 DEF ReqOK
<1>6. \A q \in Request \ {r} : SameRequest(q)
  BY <1>1, <1>3 DEF SameRequest, Inv, TypeOK
<1> QED
  BY <1>1, <1>4, <1>5, <1>6, OneRequest, SameValues

\* A row that is still to be saved is saved, whether or not its request goes on.
LEMMA RowIsSaved ==
    ASSUME Inv, NEW r \in Request, stage[r] = "saving", NEW row \in todo[r],
           rows' = [rows EXCEPT ![r] = @ \cup {row}],
           stage' = [stage EXCEPT ![r] = stage'[r]],
           todo' = [todo EXCEPT ![r] = todo'[r]],
           stage'[r] \in {"saving", "handling", "refused"},
           todo'[r] \subseteq todo[r] /\ todo[r] \subseteq todo'[r] \cup {row},
           stage'[r] = "handling" => todo'[r] = {},
           UNCHANGED <<alive, crashes, endpoint, value, wrote, outcome, result, task, log, newValue>>
    PROVE  Inv'
<1>1. ReqOK(r) /\ todo[r] \subseteq Row /\ rows[r] \subseteq Row /\ rows'[r] = rows[r] \cup {row}
  BY DEF Inv, TypeOK
<1>2. TypeOK'
  BY <1>1 DEF Inv, TypeOK, Stage
<1>3. EndpointOK(r)' /\ StageOK(r)' /\ WroteOK(r)' /\ TaskOK(r)'
  BY <1>1 DEF ReqOK, EndpointOK, StageOK, WroteOK, TaskOK, Creates, Decorated,
     Target, HasResourceId, NewOK
<1>4. RowsOK(r)'
  <2>1. \A some \in rows[r] \cup todo[r] : RowOK(r, some) /\ RowOK(r, some)'
    BY <1>1 DEF ReqOK, RowsOK, RowOK, Creates
  <2>2. \A some \in rows[r] \cup todo[r] : some.status = "pending"
    BY <1>1 DEF ReqOK, RowsOK
  <2> QED
    BY <1>1, <2>1, <2>2 DEF RowsOK
<1>5. TraceOK(r)'
  <2>1. \A i \in Item : wrote[r][i] = 0
    BY <1>1 DEF ReqOK, StageOK
  <2>2. \A i : HasRow(i, rows[r] \cup todo[r]) => HasRow(i, rows'[r] \cup todo'[r])
    BY <1>1 DEF HasRow
  <2> QED
    BY <1>1, <2>1, <2>2, ConstantsAssumption DEF ReqOK, TraceOK, Creates, Loggable, HasRow
<1>6. \A q \in Request \ {r} : SameRequest(q)
  BY DEF SameRequest, Inv, TypeOK
<1>7. ReqOK(r)'
  BY <1>3, <1>4, <1>5 DEF ReqOK
<1> QED
  BY <1>2, <1>6, <1>7, OneRequest, SameValues

LEMMA SaveRowInv ==
    ASSUME Inv, NEW r \in Request, SaveRow(r)
    PROVE  Inv'
<1> USE DEF processVars, dataVars, taskVars
<1>1. PICK row \in todo[r] :
          /\ rows' = [rows EXCEPT ![r] = @ \cup {row}]
          /\ todo' = [todo EXCEPT ![r] = @ \ {row}]
          /\ stage' = [stage EXCEPT ![r] = IF todo[r] = {row} THEN "handling" ELSE @]
  BY DEF SaveRow
<1>2. /\ stage[r] = "saving"
      /\ UNCHANGED <<alive, crashes, endpoint, value, wrote, outcome, result, task, log, newValue>>
  BY DEF SaveRow
<1>3. /\ todo'[r] = todo[r] \ {row}
      /\ stage'[r] = IF todo[r] = {row} THEN "handling" ELSE "saving"
  BY <1>1, <1>2 DEF Inv, TypeOK
<1> QED
  BY <1>1, <1>2, <1>3, RowIsSaved

LEMMA SaveUpdateLogFailsInv ==
    ASSUME Inv, NEW r \in Request, SaveUpdateLogFails(r)
    PROVE  Inv'
<1> USE DEF processVars, dataVars, taskVars
<1>1. /\ stage[r] \in {"reading", "saving"}
      /\ stage' = [stage EXCEPT ![r] = "refused"] /\ stage'[r] = "refused"
      /\ UNCHANGED <<alive, crashes, endpoint, todo, value, wrote, outcome, result, task, log, newValue>>
  BY DEF SaveUpdateLogFails, Inv, TypeOK
<1>2. CASE UNCHANGED rows
  <2>1. TypeOK'
    BY <1>1, <1>2 DEF Inv, TypeOK, Stage
  <2>2. ReqOK(r)'
    <3>1. ReqOK(r) /\ (\A i \in Item : wrote[r][i] = 0)
      BY <1>1 DEF Inv, ReqOK, StageOK
    <3>2. EndpointOK(r)' /\ StageOK(r)' /\ WroteOK(r)' /\ TaskOK(r)'
      BY <1>1, <1>2, <3>1 DEF ReqOK, EndpointOK, StageOK, WroteOK, TaskOK, Creates, Decorated,
         Target, HasResourceId, NewOK
    <3>3. RowsOK(r)' /\ TraceOK(r)'
      BY <1>1, <1>2, <3>1, ConstantsAssumption DEF ReqOK, RowsOK, RowOK, TraceOK, Creates, NewOK
    <3> QED
      BY <3>2, <3>3 DEF ReqOK
  <2>3. \A q \in Request \ {r} : SameRequest(q)
    BY <1>1, <1>2 DEF SameRequest, Inv, TypeOK
  <2> QED
    BY <1>1, <2>1, <2>2, <2>3, OneRequest, SameValues
<1>3. ASSUME NEW row \in todo[r], stage[r] = "saving",
             rows' = [rows EXCEPT ![r] = @ \cup {row}]
      PROVE  Inv'
  <2>1. todo' = [todo EXCEPT ![r] = todo'[r]] /\ todo'[r] = todo[r]
    BY <1>1 DEF Inv, TypeOK
  <2> QED
    BY <1>1, <1>3, <2>1, RowIsSaved
<1> QED
  BY <1>2, <1>3 DEF SaveUpdateLogFails

LEMMA HandlerWritesInv ==
    ASSUME Inv, NEW r \in Request, HandlerWrites(r)
    PROVE  Inv'
<1> USE DEF processVars, taskVars
<1>1. /\ stage[r] = "handling"
      /\ stage' = [stage EXCEPT ![r] = "written"] /\ stage'[r] = "written"
      /\ UNCHANGED <<alive, crashes, endpoint, todo, rows, outcome, result, task, log, newValue>>
  BY DEF HandlerWrites, Inv, TypeOK
<1>2. /\ ReqOK(r) /\ value \in [Item -> Nat] /\ endpoint[r].ids \subseteq Item
      /\ rows[r] \subseteq Row /\ \A i \in Existing : value[i] > 0
  BY DEF Inv, TypeOK, Endpoint
<1>3. PICK items \in SUBSET Item :
          /\ WriteItems(r, items)
          /\ \A i \in items :
                IF Creates(r) /\ endpoint[r].resource \in Known
                  THEN i \in Kind(endpoint[r].resource) \ Existing
                  ELSE i \in endpoint[r].ids
  <2>1. CASE Creates(r) /\ Kind(endpoint[r].resource) # {}
    <3>1. PICK i \in Kind(endpoint[r].resource) : value[i] = 0 /\ WriteItems(r, {i})
      BY <2>1 DEF HandlerWrites
    <3>2. i \in Item /\ i \notin Existing
      BY <1>2, <3>1, KindIsSubset
    <3>3. endpoint[r].resource \in Known
      BY <2>1 DEF Kind, Known
    <3> QED
      BY <2>1, <3>1, <3>2, <3>3
  <2>2. CASE ~(Creates(r) /\ Kind(endpoint[r].resource) # {})
    <3> DEFINE items == {i \in endpoint[r].ids : value[i] > 0}
    <3>1. WriteItems(r, items) /\ items \in SUBSET Item
      BY <1>2, <2>2 DEF HandlerWrites
    <3>2. Creates(r) /\ endpoint[r].resource \in Known => items = {}
      BY <1>2, <2>2 DEF ReqOK, EndpointOK
    <3> QED
      BY <3>1, <3>2
  <2> QED
    BY <2>1, <2>2
<1>4. /\ \A i \in Item : value'[i] = IF i \in items THEN value[i] + 1 ELSE value[i]
      /\ value' \in [Item -> Nat]
      /\ \A i \in Item : wrote'[r][i] = IF i \in items THEN value[i] + 1 ELSE 0
      /\ wrote'[r] \in [Item -> Nat]
      /\ \A q \in Request \ {r} : wrote'[q] = wrote[q]
      /\ wrote' \in [Request -> [Item -> Nat]]
  BY <1>2, <1>3 DEF WriteItems, Inv, TypeOK
<1>5. TypeOK'
  BY <1>1, <1>4 DEF Inv, TypeOK, Stage
<1>6. ReqOK(r)'
  <2>1. task[r] \notin {"findLog", "readNew", "saveLog", "markFail"}
    BY <1>1, <1>2 DEF ReqOK, StageOK
  <2>2. EndpointOK(r)' /\ StageOK(r)' /\ TaskOK(r)'
    BY <1>1, <1>2, <2>1 DEF ReqOK, EndpointOK, StageOK, TaskOK, Creates, Decorated
  <2>3. WroteOK(r)'
    BY <1>1, <1>2, <1>3, <1>4 DEF WroteOK, Creates
  <2>4. RowsOK(r)'
    <3>1. ASSUME NEW row \in rows[r] PROVE RowOK(r, row)'
      <4>1. RowOK(r, row) /\ row.oldValue.writes \in Nat
        BY <1>2 DEF ReqOK, RowsOK, Row, Value
      <4> QED
        BY <1>1, <1>2, <1>4, <4>1 DEF RowOK, Creates
    <3> QED
      BY <1>1, <1>2, <3>1 DEF ReqOK, RowsOK
  <2>5. TraceOK(r)'
    BY <1>1, <1>2 DEF ReqOK, TraceOK, Creates, Loggable, HasRow
  <2> QED
    BY <2>2, <2>3, <2>4, <2>5 DEF ReqOK
<1>7. \A q \in Request \ {r} : SameRequest(q)
  BY <1>1, <1>4 DEF SameRequest, Inv, TypeOK
<1>8. \A i \in Item : value'[i] >= value[i]
  BY <1>2, <1>4
<1> QED
  BY <1>5, <1>6, <1>7, <1>8, OneRequest

\* The handler ends, one way or the other.
LEMMA HandlerEnds ==
    ASSUME Inv, NEW r \in Request, stage[r] \in {"handling", "written"},
           stage' = [stage EXCEPT ![r] = "answered"],
           outcome' \in [Request -> Outcome \cup {"none"}],
           NEW next \in {"none", "findLog", "markFail"}, next # "none" => Decorated(r),
           task' = [task EXCEPT ![r] = next],
           NEW id \in Key, id # NoItem => Creates(r),
           result' = [result EXCEPT ![r] = id],
           UNCHANGED <<alive, crashes, endpoint, todo, rows, value, wrote, log, newValue>>
    PROVE  Inv'
<1>1. stage'[r] = "answered" /\ task'[r] = next /\ result'[r] = id
  BY DEF Inv, TypeOK
<1>2. TypeOK'
  BY DEF Inv, TypeOK, Stage, Task
<1>3. ReqOK(r)
  BY DEF Inv
<1>4. EndpointOK(r)' /\ StageOK(r)' /\ WroteOK(r)' /\ TaskOK(r)'
  BY <1>1, <1>3 DEF ReqOK, EndpointOK, StageOK, WroteOK, TaskOK, Creates, Decorated
<1>5. RowsOK(r)'
  BY <1>1, <1>3 DEF ReqOK, RowsOK, RowOK, Creates, NewOK
<1>6. TraceOK(r)'
  BY <1>1, <1>3 DEF ReqOK, TraceOK, Creates, Loggable
<1>7. \A q \in Request \ {r} : SameRequest(q)
  BY DEF SameRequest, Inv, TypeOK
<1>8. ReqOK(r)'
  BY <1>4, <1>5, <1>6 DEF ReqOK
<1> QED
  BY <1>2, <1>7, <1>8, OneRequest, SameValues

LEMMA HandlerSucceedsInv ==
    ASSUME Inv, NEW r \in Request, HandlerSucceeds(r)
    PROVE  Inv'
<1> USE DEF processVars, dataVars
<1>1. PICK id \in {NoItem} \cup {i \in Item : Creates(r) /\ wrote[r][i] > 0} :
          result' = [result EXCEPT ![r] = id]
  BY DEF HandlerSucceeds
<1>2. id \in Key /\ (id # NoItem => Creates(r))
  BY <1>1 DEF Key
<1>3. outcome' \in [Request -> Outcome \cup {"none"}]
  BY DEF HandlerSucceeds, Inv, TypeOK, Outcome
<1>4. task' = [task EXCEPT ![r] = IF Decorated(r) THEN "findLog" ELSE "none"]
  BY DEF HandlerSucceeds
<1> QED
  BY <1>1, <1>2, <1>3, <1>4, HandlerEnds DEF HandlerSucceeds

LEMMA HandlerFailsInv ==
    ASSUME Inv, NEW r \in Request, HandlerFails(r)
    PROVE  Inv'
<1> USE DEF processVars, dataVars
<1>1. result[r] \in Key /\ result' = [result EXCEPT ![r] = result[r]]
  BY DEF HandlerFails, Inv, TypeOK
<1>2. result[r] # NoItem => Creates(r)
  BY DEF Inv, ReqOK, TaskOK
<1>3. outcome' \in [Request -> Outcome \cup {"none"}]
  BY DEF HandlerFails, Inv, TypeOK, Outcome
<1>4. task' = [task EXCEPT ![r] = IF Decorated(r) THEN "markFail" ELSE "none"]
  BY DEF HandlerFails
<1> QED
  BY <1>1, <1>2, <1>3, <1>4, HandlerEnds DEF HandlerFails

LEMMA MarkFailInv ==
    ASSUME Inv, NEW r \in Request, MarkFail(r)
    PROVE  Inv'
<1> USE DEF processVars, requestVars, dataVars
<1> DEFINE failed(row) == [row EXCEPT !.status = "fail"]
<1>1. /\ task[r] = "markFail"
      /\ rows' = [rows EXCEPT ![r] = {failed(row) : row \in rows[r]}]
      /\ task' = [task EXCEPT ![r] = "none"]
      /\ UNCHANGED <<alive, crashes, stage, endpoint, todo, value, wrote, outcome, result, log, newValue>>
  BY DEF MarkFail
<1>2. /\ ReqOK(r) /\ rows[r] \subseteq Row /\ stage[r] = "answered" /\ task'[r] = "none"
      /\ rows'[r] = {failed(row) : row \in rows[r]}
  BY <1>1 DEF Inv, TypeOK, ReqOK, StageOK
<1>3. \A row \in Row : /\ failed(row) \in Row /\ failed(row).status = "fail"
                        /\ failed(row).key = row.key
                        /\ failed(row).resourceId = row.resourceId
                        /\ failed(row).oldValue = row.oldValue
  BY DEF Row, Outcome
<1>4. TypeOK'
  <2>1. rows'[r] \subseteq Row
    BY <1>2, <1>3
  <2> QED
    BY <1>1, <2>1 DEF Inv, TypeOK, Task
<1>5. EndpointOK(r)' /\ StageOK(r)' /\ WroteOK(r)' /\ TaskOK(r)'
  BY <1>1, <1>2 DEF ReqOK, EndpointOK, StageOK, WroteOK, TaskOK, Creates, Decorated
<1>6. RowsOK(r)'
  <2>1. ASSUME NEW row \in rows[r] PROVE RowOK(r, failed(row))'
    <3>1. RowOK(r, row)
      BY <1>2 DEF ReqOK, RowsOK
    <3> QED
      BY <1>1, <1>2, <1>3, <3>1 DEF RowOK, Creates
  <2> QED
    BY <1>1, <1>2, <1>3, <2>1 DEF RowsOK
<1>7. TraceOK(r)'
  <2>1. \A i : HasRow(i, rows[r]) => HasRow(i, rows'[r])
    BY <1>2, <1>3 DEF HasRow
  <2> QED
    BY <1>1, <1>2, <2>1 DEF ReqOK, TraceOK, Creates, Loggable
<1>8. \A q \in Request \ {r} : SameRequest(q)
  BY <1>1 DEF SameRequest, Inv, TypeOK
<1>9. ReqOK(r)'
  BY <1>5, <1>6, <1>7 DEF ReqOK
<1> QED
  BY <1>1, <1>4, <1>8, <1>9, OneRequest, SameValues

LEMMA FindLogInv ==
    ASSUME Inv, NEW r \in Request, FindLog(r)
    PROVE  Inv'
<1> USE DEF processVars, requestVars, dataVars
<1>1. /\ task[r] = "findLog"
      /\ task' = [task EXCEPT ![r] = task'[r]]
      /\ log' = [log EXCEPT ![r] = log'[r]]
      /\ UNCHANGED <<alive, crashes, stage, endpoint, todo, rows, value, wrote, outcome, result, newValue>>
      /\ log'[r] \in Row
      /\ \/ task'[r] = "none"
         \/ task'[r] = "readNew" /\ log'[r] \in rows[r] /\ endpoint[r].resource # "other"
  <2>1. /\ task[r] = "findLog" /\ rows[r] \subseteq Row /\ log[r] \in Row
        /\ DOMAIN log = Request /\ DOMAIN task = Request
        /\ UNCHANGED <<alive, crashes, stage, endpoint, todo, rows, value, wrote, outcome, result, newValue>>
    BY DEF FindLog, Inv, TypeOK
  <2>2. CASE /\ \E row \in rows[r] : log' = [log EXCEPT ![r] = row]
             /\ task' = [task EXCEPT ![r] =
                   IF endpoint[r].resource = "other"
                      \/ (HasResourceId(r) /\ endpoint[r].resource # "request")
                     THEN "none" ELSE "readNew"]
    <3>1. PICK row \in rows[r] : log' = [log EXCEPT ![r] = row]
      BY <2>2
    <3>2. log'[r] = row /\ log' = [log EXCEPT ![r] = log'[r]]
      BY <2>1, <3>1, Zenon
    <3> DEFINE next == IF endpoint[r].resource = "other"
                          \/ (HasResourceId(r) /\ endpoint[r].resource # "request")
                         THEN "none" ELSE "readNew"
    <3>3. task' = [task EXCEPT ![r] = next] /\ task'[r] = next
      BY <2>1, <2>2
    <3>4. next = "none" \/ (next = "readNew" /\ endpoint[r].resource # "other")
      OBVIOUS
    <3>5. task' = [task EXCEPT ![r] = task'[r]]
      BY <3>3
    <3> QED
      BY <2>1, <3>1, <3>2, <3>3, <3>4, <3>5
  <2>3. CASE task' = [task EXCEPT ![r] = "none"] /\ log' = log
    BY <2>1, <2>3 DEF Inv, TypeOK
  <2> QED
    BY <2>2, <2>3 DEF FindLog
<1>2. /\ ReqOK(r) /\ stage[r] = "answered" /\ Decorated(r) /\ endpoint[r] \in Endpoint
  BY <1>1 DEF Inv, TypeOK, ReqOK, StageOK
<1>3. TypeOK'
  BY <1>1 DEF Inv, TypeOK, Task
<1>4. task'[r] = "readNew" => endpoint[r].resource \in Known
  BY <1>1, <1>2 DEF Decorated, Endpoint, Known
<1>5. EndpointOK(r)' /\ StageOK(r)' /\ WroteOK(r)' /\ TaskOK(r)'
  BY <1>1, <1>2, <1>4 DEF ReqOK, EndpointOK, StageOK, WroteOK, TaskOK, Creates, Decorated
<1>6. RowsOK(r)' /\ TraceOK(r)'
  BY <1>1, <1>2 DEF ReqOK, RowsOK, RowOK, TraceOK, Creates, Loggable, NewOK
<1>7. \A q \in Request \ {r} : SameRequest(q)
  BY <1>1 DEF SameRequest, Inv, TypeOK
<1>8. ReqOK(r)'
  BY <1>5, <1>6 DEF ReqOK
<1> QED
  BY <1>1, <1>3, <1>7, <1>8, OneRequest, SameValues

\* What a request has written exists, and its value is not behind.
LEMMA WrittenIsThere ==
    ASSUME Inv, NEW r \in Request, endpoint[r].resource \in Known,
           NEW i \in Item, wrote[r][i] > 0
    PROVE  i \in Kind(endpoint[r].resource) /\ value[i] > 0 /\ value[i] >= wrote[r][i]
<1>1. ReqOK(r) /\ value[i] \in Nat /\ wrote[r][i] \in Nat
  BY DEF Inv, TypeOK
<1> QED
  BY <1>1 DEF ReqOK, WroteOK, EndpointOK

LEMMA ReadNewValueInv ==
    ASSUME Inv, NEW r \in Request, ReadNewValue(r)
    PROVE  Inv'
<1> USE DEF processVars, requestVars, dataVars
<1>1. PICK v \in Candidates(Kind(endpoint[r].resource), Target(r)) :
          newValue' = [newValue EXCEPT ![r] = v]
  BY DEF ReadNewValue, Target
<1>2. /\ task[r] = "readNew" /\ task' = [task EXCEPT ![r] = "saveLog"] /\ task'[r] = "saveLog"
      /\ UNCHANGED <<alive, crashes, stage, endpoint, todo, rows, value, wrote, outcome, result, log>>
  BY DEF ReadNewValue, Inv, TypeOK
<1>3. /\ ReqOK(r) /\ stage[r] = "answered" /\ Decorated(r)
      /\ log[r] \in rows[r] /\ endpoint[r].resource \in Known
  BY <1>2 DEF Inv, ReqOK, StageOK, TaskOK
<1>4. Target(r) \in Key
  BY DEF Inv, TypeOK, Target, Row
<1>5. v \in Value /\ NewOK(r, Target(r), v)
  <2>1. v \in Value
    BY <1>1, <1>4, Candidate, KindIsSubset
  <2>2. ASSUME Target(r) \in Item, wrote[r][Target(r)] > 0
        PROVE  v.item = Target(r) /\ v.writes >= wrote[r][Target(r)]
    <3>1. /\ Target(r) \in Kind(endpoint[r].resource) /\ value[Target(r)] > 0
          /\ value[Target(r)] >= wrote[r][Target(r)]
      BY <1>3, <2>2, WrittenIsThere
    <3> QED
      BY <1>1, <1>4, <3>1, Candidate, KindIsSubset
  <2> QED
    BY <2>1, <2>2 DEF NewOK
<1>6. TypeOK'
  BY <1>1, <1>2, <1>5 DEF Inv, TypeOK, Task
<1>7. TaskOK(r)'
  <2>1. newValue'[r] = v
    BY <1>1 DEF Inv, TypeOK
  <2> QED
    BY <1>2, <1>3, <1>5, <2>1 DEF ReqOK, TaskOK, Target, HasResourceId, Creates, NewOK
<1>8. EndpointOK(r)' /\ StageOK(r)' /\ WroteOK(r)' /\ RowsOK(r)' /\ TraceOK(r)'
  BY <1>2, <1>3 DEF ReqOK, EndpointOK, StageOK, WroteOK, RowsOK, RowOK, TraceOK, Creates,
     Decorated, Loggable, NewOK
<1>9. \A q \in Request \ {r} : SameRequest(q)
  BY <1>1, <1>2 DEF SameRequest, Inv, TypeOK
<1>10. ReqOK(r)'
  BY <1>7, <1>8 DEF ReqOK
<1> QED
  BY <1>2, <1>6, <1>9, <1>10, OneRequest, SameValues

LEMMA SaveLogInv ==
    ASSUME Inv, NEW r \in Request, SaveLog(r)
    PROVE  Inv'
<1> USE DEF processVars, requestVars, dataVars
<1> DEFINE kept == {row \in rows[r] : row.key # log[r].key}
<1>0. PICK closed : closed = ClosedRow(r)
  OBVIOUS
<1>1. /\ task[r] = "saveLog" /\ task' = [task EXCEPT ![r] = "none"]
      /\ rows' = [rows EXCEPT ![r] = kept \cup {closed}]
      /\ UNCHANGED <<alive, crashes, stage, endpoint, todo, value, wrote, outcome, result, log, newValue>>
  BY <1>0 DEF SaveLog
<1>2. /\ ReqOK(r) /\ stage[r] = "answered" /\ task'[r] = "none"
      /\ rows'[r] = kept \cup {closed}
      /\ log[r] \in rows[r] /\ log[r] \in Row /\ NewOK(r, Target(r), newValue[r])
  BY <1>1 DEF Inv, TypeOK, ReqOK, StageOK, TaskOK
<1>3. /\ closed \in Row /\ closed.key = log[r].key /\ closed.oldValue = log[r].oldValue
      /\ closed.newValue = newValue[r] /\ closed.resourceId = Target(r)
  <2>1. newValue[r] \in Value /\ result[r] \in Key
    BY DEF Inv, TypeOK
  <2> QED
    BY <1>0, <1>2, <2>1 DEF ClosedRow, Row, Target, Outcome
<1>4. TypeOK'
  BY <1>1, <1>2, <1>3 DEF Inv, TypeOK, Task
<1>5. EndpointOK(r)' /\ StageOK(r)' /\ WroteOK(r)' /\ TaskOK(r)'
  BY <1>1, <1>2 DEF ReqOK, EndpointOK, StageOK, WroteOK, TaskOK, Creates, Decorated
<1>6. RowsOK(r)'
  <2>1. RowOK(r, closed)'
    <3>1. RowOK(r, log[r])
      BY <1>2 DEF ReqOK, RowsOK
    <3>2. ~Creates(r) => closed.resourceId = log[r].resourceId
      BY <1>3 DEF Target, HasResourceId
    <3> QED
      BY <1>1, <1>3, <3>1, <3>2 DEF RowOK, Creates
  <2>2. \A row \in kept : RowOK(r, row)'
    BY <1>1, <1>2 DEF ReqOK, RowsOK, RowOK, Creates
  <2>3. NewOK(r, closed.resourceId, closed.newValue)'
    BY <1>1, <1>2, <1>3 DEF NewOK
  <2> QED
    BY <1>1, <1>2, <2>1, <2>2, <2>3 DEF ReqOK, RowsOK, NewOK
<1>7. TraceOK(r)'
  <2>1. \A i : HasRow(i, rows[r]) => HasRow(i, rows'[r])
    BY <1>2, <1>3 DEF HasRow
  <2> QED
    BY <1>1, <1>2, <2>1 DEF ReqOK, TraceOK, Creates, Loggable
<1>8. \A q \in Request \ {r} : SameRequest(q)
  BY <1>1 DEF SameRequest, Inv, TypeOK
<1>9. ReqOK(r)'
  BY <1>5, <1>6, <1>7 DEF ReqOK
<1> QED
  BY <1>1, <1>4, <1>8, <1>9, OneRequest, SameValues

LEMMA EndProcessInv ==
    ASSUME Inv, EndProcess, crashes' \in 0 .. MaxCrashes
    PROVE  Inv'
<1> USE DEF dataVars
<1>1. UNCHANGED <<endpoint, todo, rows, value, wrote, outcome, result, log, newValue>>
  BY DEF EndProcess
<1>2. TypeOK'
  BY <1>1 DEF EndProcess, Inv, TypeOK, Stage, Task
<1>3. ASSUME NEW q \in Request PROVE ReqOK(q)'
  <2>1. /\ ReqOK(q)
        /\ stage'[q] = IF stage[q] \in {"reading", "saving", "handling", "written"}
                         THEN "lost" ELSE stage[q]
        /\ task'[q] \in {"none", "gone"}
    BY DEF EndProcess, Inv
  <2>2. EndpointOK(q)' /\ StageOK(q)' /\ WroteOK(q)' /\ TaskOK(q)'
    BY <1>1, <2>1 DEF ReqOK, EndpointOK, StageOK, WroteOK, TaskOK, Creates, Decorated
  <2>3. RowsOK(q)'
    BY <1>1, <2>1 DEF ReqOK, RowsOK, RowOK, Creates, NewOK
  <2>4. TraceOK(q)'
    BY <1>1, <2>1 DEF ReqOK, TraceOK, Creates, Loggable
  <2> QED
    BY <2>2, <2>3, <2>4 DEF ReqOK
<1> QED
  BY <1>1, <1>2, <1>3 DEF Inv

LEMMA StutterKeeps ==
    ASSUME Inv, TypeOK', UNCHANGED <<requestVars, rows, dataVars, taskVars>>
    PROVE  Inv'
<1>1. \A q \in Request : SameRequest(q)
  BY DEF SameRequest, requestVars, dataVars, taskVars
<1>2. value' = value
  BY DEF dataVars
<1>3. \A q \in Request : ReqOK(q)'
  BY <1>1, <1>2, SameRequestKeeps, SameValues
<1> QED
  BY <1>2, <1>3 DEF Inv

LEMMA NextInv == Inv /\ [Next]_vars => Inv'
<1> SUFFICES ASSUME Inv, [Next]_vars PROVE Inv'
  OBVIOUS
<1>1. ASSUME NEW r \in Request, NEW e \in Endpoints, Intercept(r, e) PROVE Inv'
  BY <1>1, InterceptInv
<1>2. ASSUME NEW r \in Request, ReadOldValue(r) PROVE Inv'
  BY <1>2, ReadOldValueInv
<1>3. ASSUME NEW r \in Request, SaveRow(r) PROVE Inv'
  BY <1>3, SaveRowInv
<1>4. ASSUME NEW r \in Request, SaveUpdateLogFails(r) PROVE Inv'
  BY <1>4, SaveUpdateLogFailsInv
<1>5. ASSUME NEW r \in Request, HandlerWrites(r) PROVE Inv'
  BY <1>5, HandlerWritesInv
<1>6. ASSUME NEW r \in Request, HandlerSucceeds(r) PROVE Inv'
  BY <1>6, HandlerSucceedsInv
<1>7. ASSUME NEW r \in Request, HandlerFails(r) PROVE Inv'
  BY <1>7, HandlerFailsInv
<1>8. ASSUME NEW r \in Request, MarkFail(r) PROVE Inv'
  BY <1>8, MarkFailInv
<1>9. ASSUME NEW r \in Request, FindLog(r) PROVE Inv'
  BY <1>9, FindLogInv
<1>10. ASSUME NEW r \in Request, ReadNewValue(r) PROVE Inv'
  BY <1>10, ReadNewValueInv
<1>11. ASSUME NEW r \in Request, SaveLog(r) PROVE Inv'
  BY <1>11, SaveLogInv
<1>12. ASSUME NEW r \in Request, NoLogFound(r) PROVE Inv'
  BY <1>12, EndProcessInv DEF NoLogFound, Inv, TypeOK
<1>13. CASE Crash
  <2>1. crashes' \in 0 .. MaxCrashes
    BY <1>13, ConstantsAssumption DEF Crash, Inv, TypeOK
  <2> QED
    BY <1>13, <2>1, EndProcessInv DEF Crash
<1>14. CASE Restart
  <2>1. TypeOK'
    BY <1>14 DEF Restart, Inv, TypeOK, requestVars, dataVars, taskVars
  <2> QED
    BY <1>14, <2>1, StutterKeeps DEF Restart
<1>15. CASE UNCHANGED vars
  <2>1. TypeOK' /\ UNCHANGED <<requestVars, rows, dataVars, taskVars>>
    BY <1>15 DEF vars, Inv, TypeOK, requestVars, dataVars, taskVars
  <2> QED
    BY <2>1, StutterKeeps
<1> QED
  BY <1>1, <1>2, <1>3, <1>4, <1>5, <1>6, <1>7, <1>8, <1>9, <1>10, <1>11, <1>12, <1>13,
     <1>14, <1>15 DEF Next

LEMMA InvHolds == Spec => []Inv
BY InitInv, NextInv, PTL DEF Spec

-------------------------------------------------------------------------------
(* The theorems *)

\* Every variable of the update log stays in its set of values.
THEOREM TypeHolds == Spec => []TypeOK
<1>1. Inv => TypeOK
  BY DEF Inv
<1> QED
  BY <1>1, InvHolds, PTL

\* A decorated request never changes a resource to be logged without a row of it, with a
\* value from before, in the database: rows are awaited before the handler starts, and
\* nothing that runs after it takes one away.
THEOREM ChangedIsLoggedHolds == Spec => []ChangedIsLogged
<1>1. Inv => ChangedIsLogged
  <2> SUFFICES ASSUME Inv, NEW r \in Request, NEW i \in Existing,
                      Decorated(r), wrote[r][i] > 0, Loggable(r, i)
               PROVE  \E row \in rows[r] : /\ row.key = i
                                            /\ row.oldValue.item = i
                                            /\ row.oldValue.writes < wrote[r][i]
    BY DEF ChangedIsLogged
  <2>1. ReqOK(r) /\ i \in Item /\ endpoint[r].resource \in Known
    BY ConstantsAssumption DEF Inv, Loggable, Known
  <2>2. ~Creates(r) /\ i \in endpoint[r].ids
    BY <2>1 DEF ReqOK, WroteOK
  <2>3. PICK row \in rows[r] : row.key = i
    BY <2>1, <2>2 DEF ReqOK, TraceOK, HasRow
  <2>4. RowOK(r, row)
    BY <2>1 DEF ReqOK, RowsOK
  <2> QED
    BY <2>1, <2>2, <2>3, <2>4 DEF RowOK
<1> QED
  BY <1>1, InvHolds, PTL

\* A row that was closed brackets the write of its own request, however the requests
\* interleave between the reads and the writes.
THEOREM ClosedRowBracketsTheWriteHolds == Spec => []ClosedRowBracketsTheWrite
<1>1. Inv => ClosedRowBracketsTheWrite
  <2> SUFFICES ASSUME Inv, NEW r \in Request, NEW row \in rows[r], row.status = "success",
                      row.resourceId \in Item, wrote[r][row.resourceId] > 0
               PROVE  /\ row.newValue.item = row.resourceId
                      /\ row.newValue.writes >= wrote[r][row.resourceId]
                      /\ row.oldValue.writes < wrote[r][row.resourceId]
    BY DEF ClosedRowBracketsTheWrite
  <2>1. RowOK(r, row) /\ NewOK(r, row.resourceId, row.newValue)
    BY DEF Inv, ReqOK, RowsOK
  <2>2. row.oldValue.writes < wrote[r][row.resourceId]
    <3>1. CASE Creates(r)
      BY <3>1, <2>1 DEF RowOK, Null
    <3>2. CASE ~Creates(r)
      BY <3>2, <2>1, ConstantsAssumption DEF RowOK
    <3> QED
      BY <3>1, <3>2
  <2> QED
    BY <2>1, <2>2 DEF NewOK
<1> QED
  BY <1>1, InvHolds, PTL

-------------------------------------------------------------------------------
(* When the rows of a request are closed and with which key, what ends the *)
(* process, and that the rows are a log of the requests.                   *)

\* Outcome and task of a request; its rows are pending until the task closes them.
OutcomeOK(r) ==
    /\ stage[r] = "answered" <=> outcome[r] # "none"
    /\ task[r] = "markFail" => outcome[r] = "fail"
    /\ task[r] \in {"findLog", "readNew", "saveLog"} => outcome[r] = "success"
    /\ task[r] \in {"findLog", "readNew", "saveLog", "markFail"} =>
          \A row \in rows[r] : row.status = "pending"

\* The rows that a request has or will have.
Some(r) == IF stage[r] = "saving" THEN rows[r] \cup todo[r] ELSE rows[r]

\* There is one row for each key, one at all unless a batch was named, none without the
\* decorator or for an update of another type, and at least one for a creation.
KeysOK(r) ==
    /\ \A a, b \in Some(r) : a.key = b.key \/ endpoint[r].shape # "many" => a = b
    /\ ~Decorated(r) \/ (endpoint[r].resource = "other" /\ ~Creates(r)) =>
          rows[r] = {} /\ stage[r] # "saving"
    /\ Creates(r) /\ Decorated(r) /\ stage[r] \in {"saving", "handling", "written", "answered"} =>
          Some(r) # {}

\* What was done when the task of an answered request is over.
ClosedOK(r) ==
    stage[r] = "answered" /\ task[r] = "none" /\ Decorated(r) =>
        /\ outcome[r] = "fail" => \A row \in rows[r] : row.status = "fail"
        /\ outcome[r] = "success" =>
              \/ \E row \in rows[r] : row.status = "success"
              \/ endpoint[r].resource = "other"
              \/ HasResourceId(r) /\ endpoint[r].resource # "request"

LogOK(r) == OutcomeOK(r) /\ KeysOK(r) /\ ClosedOK(r)

\* A successful update that no row is kept for.
Unlogged(r) ==
    /\ Decorated(r) /\ ~Creates(r) /\ outcome[r] = "success"
    /\ \/ endpoint[r].resource = "other"
       \/ \A i \in endpoint[r].ids : ~Loggable(r, i) \/ i \notin Existing

EndOK == ~alive /\ crashes = 0 => \E r \in Request : Unlogged(r)

Closing == (\A r \in Request : LogOK(r)) /\ EndOK

-------------------------------------------------------------------------------

LEMMA InitClosing == Init => Closing
BY DEF Init, Closing, EndOK, LogOK, OutcomeOK, KeysOK, ClosedOK, Some, Decorated, Creates

\* A step on request r needs a look at r alone.
LEMMA OneRequestCloses ==
    ASSUME Closing, NEW r \in Request, LogOK(r)', alive' = TRUE,
           \A q \in Request \ {r} : SameRequest(q) /\ outcome'[q] = outcome[q]
    PROVE  Closing'
<1>1. ASSUME NEW q \in Request \ {r} PROVE LogOK(q)'
  <2>1. LogOK(q) /\ SameRequest(q) /\ outcome'[q] = outcome[q]
    BY DEF Closing
  <2> QED
    BY <2>1 DEF SameRequest, LogOK, OutcomeOK, KeysOK, ClosedOK, Some, Decorated, Creates,
       HasResourceId
<1> QED
  BY <1>1 DEF Closing, EndOK

LEMMA InterceptCloses ==
    ASSUME Inv, Closing, NEW r \in Request, NEW e \in Endpoints, Intercept(r, e)
    PROVE  Closing'
<1> USE DEF processVars, dataVars, taskVars
<1>1. /\ stage'[r] \in {"handling", "refused", "saving", "reading"}
      /\ stage'[r] = "handling" /\ e.shape = "create" => e.resource = "none"
      /\ stage'[r] = "saving" => e.shape = "create" /\ e.resource # "none"
      /\ stage' = [stage EXCEPT ![r] = stage'[r]]
  BY ConstantsAssumption DEF Intercept, Inv, TypeOK, Endpoint
<1>2. /\ endpoint' = [endpoint EXCEPT ![r] = e]
      /\ todo' = [todo EXCEPT ![r] = IF e.shape = "create" THEN {NoRow} ELSE {}]
      /\ UNCHANGED <<alive, crashes, rows, value, wrote, outcome, result, task, log, newValue>>
      /\ stage[r] = "new" /\ alive
  BY DEF Intercept
<1>3. /\ endpoint'[r] = e /\ todo'[r] = IF e.shape = "create" THEN {NoRow} ELSE {}
      /\ rows[r] = {} /\ LogOK(r) /\ ReqOK(r)
      /\ task[r] \notin {"findLog", "readNew", "saveLog", "markFail"}
  BY <1>2 DEF Inv, TypeOK, Closing, ReqOK, StageOK
<1>4. OutcomeOK(r)' /\ ClosedOK(r)'
  BY <1>1, <1>2, <1>3 DEF LogOK, OutcomeOK, ClosedOK
<1>5. KeysOK(r)'
  <2>1. Some(r)' = IF stage'[r] = "saving" THEN {NoRow} ELSE {}
    BY <1>1, <1>2, <1>3 DEF Some
  <2> QED
    BY <1>1, <1>2, <1>3, <2>1 DEF KeysOK, Decorated, Creates
<1>6. \A q \in Request \ {r} : SameRequest(q) /\ outcome'[q] = outcome[q]
  BY <1>1, <1>2 DEF SameRequest, Inv, TypeOK
<1>7. LogOK(r)' /\ alive' = TRUE
  BY <1>2, <1>4, <1>5 DEF LogOK, Inv, TypeOK
<1> QED
  BY <1>6, <1>7, OneRequestCloses

LEMMA ReadOldValueCloses ==
    ASSUME Inv, Closing, NEW r \in Request, ReadOldValue(r)
    PROVE  Closing'
<1> USE DEF processVars, dataVars, taskVars
<1> DEFINE e == endpoint[r]
<1>1. /\ stage[r] = "reading" /\ alive
      /\ UNCHANGED <<alive, crashes, endpoint, rows, value, wrote, outcome, result, task,
                     log, newValue>>
  BY DEF ReadOldValue
<1>2. /\ ReqOK(r) /\ LogOK(r) /\ e.resource \in Known /\ ~Creates(r) /\ rows[r] = {}
      /\ task[r] \notin {"findLog", "readNew", "saveLog", "markFail"}
  BY <1>1 DEF Inv, ReqOK, StageOK, Closing
<1>3. /\ stage' = [stage EXCEPT ![r] = stage'[r]]
      /\ todo' = [todo EXCEPT ![r] = todo'[r]]
      /\ stage'[r] \in {"handling", "saving", "refused"}
      /\ stage'[r] = "saving" =>
            \A a, b \in todo'[r] : a.key = b.key \/ e.shape # "many" => a = b
  <2>1. CASE e.shape = "many"
    <3>1. /\ todo' = [todo EXCEPT ![r] = BatchRows(e.ids)]
          /\ stage' = [stage EXCEPT ![r] =
                          IF BatchRows(e.ids) = {} THEN "handling" ELSE "saving"]
      BY <2>1 DEF ReadOldValue
    <3>2. /\ todo'[r] = BatchRows(e.ids)
          /\ stage'[r] = IF BatchRows(e.ids) = {} THEN "handling" ELSE "saving"
      BY <3>1 DEF Inv, TypeOK
    <3>3. \A a, b \in BatchRows(e.ids) : a.key = b.key => a = b
      BY DEF BatchRows, NewRow
    <3>4. stage' = [stage EXCEPT ![r] = stage'[r]] /\ todo' = [todo EXCEPT ![r] = todo'[r]]
      BY <3>1, <3>2
    <3> QED
      BY <2>1, <3>2, <3>3, <3>4
  <2>2. CASE e.shape # "many"
    <3>0. PICK next \in {"handling", "refused", "saving"} :
              /\ stage' = [stage EXCEPT ![r] = next]
              /\ IF next = "saving" THEN \E some : todo' = [todo EXCEPT ![r] = {some}]
                                    ELSE todo' = todo
      BY <2>2 DEF ReadOldValue
    <3>1. PICK some :
              /\ stage' = [stage EXCEPT ![r] = next]
              /\ IF next = "saving" THEN todo' = [todo EXCEPT ![r] = {some}] ELSE todo' = todo
      BY <3>0
    <3>2. stage'[r] = next /\ (next = "saving" => todo'[r] = {some})
      BY <3>1 DEF Inv, TypeOK
    <3>3. stage' = [stage EXCEPT ![r] = stage'[r]] /\ todo' = [todo EXCEPT ![r] = todo'[r]]
      BY <3>1, <3>2 DEF Inv, TypeOK
    <3> QED
      BY <3>1, <3>2, <3>3
  <2> QED
    BY <2>1, <2>2
<1>4. OutcomeOK(r)' /\ ClosedOK(r)'
  BY <1>1, <1>2, <1>3 DEF LogOK, OutcomeOK, ClosedOK
<1>5. KeysOK(r)'
  BY <1>1, <1>2, <1>3 DEF KeysOK, Decorated, Creates, Some, Known
<1>6. \A q \in Request \ {r} : SameRequest(q) /\ outcome'[q] = outcome[q]
  BY <1>1, <1>3 DEF SameRequest, Inv, TypeOK
<1>7. LogOK(r)' /\ alive' = TRUE
  BY <1>1, <1>4, <1>5 DEF LogOK, Inv, TypeOK
<1> QED
  BY <1>6, <1>7, OneRequestCloses

LEMMA SavingCloses ==
    ASSUME Inv, Closing, NEW r \in Request, SaveRow(r) \/ SaveUpdateLogFails(r)
    PROVE  Closing'
<1> USE DEF processVars, dataVars, taskVars
<1>1. /\ stage[r] \in {"reading", "saving"} /\ alive
      /\ stage' = [stage EXCEPT ![r] = stage'[r]]
      /\ todo' = [todo EXCEPT ![r] = todo'[r]]
      /\ rows' = [rows EXCEPT ![r] = rows'[r]]
      /\ UNCHANGED <<alive, crashes, endpoint, value, wrote, outcome, result, task, log, newValue>>
      /\ stage'[r] \in {"saving", "handling", "refused"}
      /\ stage'[r] # "refused" => Some(r)' = Some(r)
      /\ Some(r)' \subseteq Some(r)
      /\ stage[r] # "saving" => stage'[r] = "refused"
  <2>1. CASE SaveRow(r)
    <3>1. PICK row \in todo[r] :
              /\ rows' = [rows EXCEPT ![r] = @ \cup {row}]
              /\ todo' = [todo EXCEPT ![r] = @ \ {row}]
              /\ stage' = [stage EXCEPT ![r] = IF todo[r] = {row} THEN "handling" ELSE @]
      BY <2>1 DEF SaveRow
    <3>2. /\ rows'[r] = rows[r] \cup {row} /\ todo'[r] = todo[r] \ {row}
          /\ stage[r] = "saving"
          /\ stage'[r] = IF todo[r] = {row} THEN "handling" ELSE "saving"
      BY <2>1, <3>1 DEF SaveRow, Inv, TypeOK
    <3>3. Some(r)' = Some(r)
      BY <3>2 DEF Some
    <3>4. /\ stage' = [stage EXCEPT ![r] = stage'[r]] /\ todo' = [todo EXCEPT ![r] = todo'[r]]
          /\ rows' = [rows EXCEPT ![r] = rows'[r]]
      BY <3>1, <3>2
    <3> QED
      BY <2>1, <3>2, <3>3, <3>4 DEF SaveRow
  <2>2. CASE SaveUpdateLogFails(r)
    <3>1. /\ stage[r] \in {"reading", "saving"} /\ alive
          /\ stage' = [stage EXCEPT ![r] = "refused"] /\ stage'[r] = "refused"
          /\ UNCHANGED <<alive, crashes, endpoint, todo, value, wrote, outcome, result, task, log, newValue>>
      BY <2>2 DEF SaveUpdateLogFails, Inv, TypeOK
    <3>2. rows' = [rows EXCEPT ![r] = rows'[r]] /\ Some(r)' \subseteq Some(r)
      <4>1. CASE UNCHANGED rows
        BY <3>1, <4>1 DEF Some, Inv, TypeOK
      <4>2. ASSUME NEW row \in todo[r], stage[r] = "saving",
                   rows' = [rows EXCEPT ![r] = @ \cup {row}]
            PROVE  rows' = [rows EXCEPT ![r] = rows'[r]] /\ Some(r)' \subseteq Some(r)
        <5>1. rows'[r] = rows[r] \cup {row}
          BY <4>2 DEF Inv, TypeOK
        <5> QED
          BY <3>1, <4>2, <5>1 DEF Some
      <4> QED
        BY <2>2, <4>1, <4>2 DEF SaveUpdateLogFails
    <3> QED
      BY <3>1, <3>2 DEF Inv, TypeOK
  <2> QED
    BY <2>1, <2>2
<1>2. /\ LogOK(r) /\ task[r] \notin {"findLog", "readNew", "saveLog", "markFail"}
      /\ endpoint[r].resource \in Known \/ stage[r] = "saving"
  BY <1>1 DEF Inv, ReqOK, StageOK, Closing
<1>3. OutcomeOK(r)' /\ ClosedOK(r)'
  BY <1>1, <1>2 DEF LogOK, OutcomeOK, ClosedOK
<1>4. KeysOK(r)'
  <2>1. ASSUME ~Decorated(r) \/ (endpoint[r].resource = "other" /\ ~Creates(r)) PROVE FALSE
    BY <1>1, <1>2, <2>1 DEF LogOK, KeysOK, Known, Decorated
  <2>2. Creates(r) /\ Decorated(r) => stage'[r] = "refused" \/ Some(r) # {}
    BY <1>1, <1>2 DEF LogOK, KeysOK
  <2> QED
    BY <1>1, <1>2, <2>1, <2>2 DEF LogOK, KeysOK, Decorated, Creates
<1>5. \A q \in Request \ {r} : SameRequest(q) /\ outcome'[q] = outcome[q]
  BY <1>1 DEF SameRequest, Inv, TypeOK
<1>6. LogOK(r)' /\ alive' = TRUE
  BY <1>1, <1>3, <1>4 DEF LogOK, Inv, TypeOK
<1> QED
  BY <1>5, <1>6, OneRequestCloses

LEMMA HandlerWritesCloses ==
    ASSUME Inv, Closing, NEW r \in Request, HandlerWrites(r)
    PROVE  Closing'
<1> USE DEF processVars, taskVars
<1>1. /\ stage[r] = "handling" /\ alive
      /\ stage' = [stage EXCEPT ![r] = "written"] /\ stage'[r] = "written"
      /\ UNCHANGED <<alive, crashes, endpoint, todo, rows, outcome, result, task, log, newValue>>
  BY DEF HandlerWrites, Inv, TypeOK
<1>2. LogOK(r)
  BY DEF Closing
<1>3. LogOK(r)' /\ alive' = TRUE
  BY <1>1, <1>2 DEF LogOK, OutcomeOK, KeysOK, ClosedOK, Some, Decorated, Creates, Inv, TypeOK
<1>4. \A q \in Request \ {r} : wrote'[q] = wrote[q]
  BY DEF HandlerWrites, WriteItems, Inv, TypeOK
<1>5. \A q \in Request \ {r} : SameRequest(q) /\ outcome'[q] = outcome[q]
  BY <1>1, <1>4 DEF SameRequest, Inv, TypeOK
<1> QED
  BY <1>3, <1>5, OneRequestCloses

LEMMA HandlerSucceedsCloses ==
    ASSUME Inv, Closing, NEW r \in Request, HandlerSucceeds(r)
    PROVE  Closing'
<1> USE DEF processVars, dataVars
<1>1. PICK id : result' = [result EXCEPT ![r] = id]
  BY DEF HandlerSucceeds
<1>2. /\ stage[r] = "written" /\ alive
      /\ stage' = [stage EXCEPT ![r] = "answered"] /\ stage'[r] = "answered"
      /\ outcome' = [outcome EXCEPT ![r] = "success"] /\ outcome'[r] = "success"
      /\ task' = [task EXCEPT ![r] = IF Decorated(r) THEN "findLog" ELSE "none"]
      /\ task'[r] = IF Decorated(r) THEN "findLog" ELSE "none"
      /\ UNCHANGED <<alive, crashes, endpoint, todo, rows, value, wrote, log, newValue>>
  BY DEF HandlerSucceeds, Inv, TypeOK
<1>3. LogOK(r) /\ \A row \in rows[r] : row.status = "pending"
  BY <1>2 DEF Closing, Inv, ReqOK, RowsOK
<1>4. LogOK(r)' /\ alive' = TRUE
  BY <1>2, <1>3 DEF LogOK, OutcomeOK, KeysOK, ClosedOK, Some, Decorated, Creates, Inv, TypeOK
<1>5. \A q \in Request \ {r} : SameRequest(q) /\ outcome'[q] = outcome[q]
  BY <1>1, <1>2 DEF SameRequest, Inv, TypeOK
<1> QED
  BY <1>4, <1>5, OneRequestCloses

LEMMA HandlerFailsCloses ==
    ASSUME Inv, Closing, NEW r \in Request, HandlerFails(r)
    PROVE  Closing'
<1> USE DEF processVars, dataVars
<1>1. /\ stage[r] \in {"handling", "written"} /\ alive
      /\ stage' = [stage EXCEPT ![r] = "answered"] /\ stage'[r] = "answered"
      /\ outcome' = [outcome EXCEPT ![r] = "fail"] /\ outcome'[r] = "fail"
      /\ task' = [task EXCEPT ![r] = IF Decorated(r) THEN "markFail" ELSE "none"]
      /\ task'[r] = IF Decorated(r) THEN "markFail" ELSE "none"
      /\ UNCHANGED <<alive, crashes, endpoint, todo, rows, value, wrote, result, log, newValue>>
  BY DEF HandlerFails, Inv, TypeOK
<1>2. LogOK(r) /\ \A row \in rows[r] : row.status = "pending"
  BY <1>1 DEF Closing, Inv, ReqOK, RowsOK
<1>3. LogOK(r)' /\ alive' = TRUE
  BY <1>1, <1>2 DEF LogOK, OutcomeOK, KeysOK, ClosedOK, Some, Decorated, Creates, Inv, TypeOK
<1>4. \A q \in Request \ {r} : SameRequest(q) /\ outcome'[q] = outcome[q]
  BY <1>1 DEF SameRequest, Inv, TypeOK
<1> QED
  BY <1>3, <1>4, OneRequestCloses

\* What the UPDATE of a failed request makes of a row.
Failed(row) == [row EXCEPT !.status = "fail"]

LEMMA FailedRow ==
    ASSUME NEW row \in Row
    PROVE  /\ Failed(row) \in Row /\ Failed(row).status = "fail" /\ Failed(row).key = row.key
           /\ \A other \in Row :
                 row.status = "pending" /\ other.status = "pending" /\ Failed(row) = Failed(other)
                     => row = other
<1>1. /\ Failed(row) \in Row /\ Failed(row).status = "fail" /\ Failed(row).key = row.key
      /\ Failed(row).resourceId = row.resourceId
      /\ Failed(row).oldValue = row.oldValue /\ Failed(row).newValue = row.newValue
  BY DEF Failed, Row, Outcome
<1>2. ASSUME NEW other \in Row, row.status = "pending", other.status = "pending",
             Failed(row) = Failed(other)
      PROVE  row = other
  BY <1>2 DEF Failed, Row
<1> QED
  BY <1>1, <1>2

LEMMA MarkFailCloses ==
    ASSUME Inv, Closing, NEW r \in Request, MarkFail(r)
    PROVE  Closing'
<1> USE DEF processVars, requestVars, dataVars
<1>1. /\ task[r] = "markFail" /\ alive
      /\ rows' = [rows EXCEPT ![r] = {Failed(row) : row \in rows[r]}]
      /\ task' = [task EXCEPT ![r] = "none"]
      /\ UNCHANGED <<alive, crashes, stage, endpoint, todo, value, wrote, outcome, result, log, newValue>>
  BY DEF MarkFail, Failed
<1>2. /\ LogOK(r) /\ rows[r] \subseteq Row /\ stage[r] = "answered" /\ task'[r] = "none"
      /\ rows'[r] = {Failed(row) : row \in rows[r]}
      /\ outcome[r] = "fail"
  BY <1>1 DEF Inv, TypeOK, ReqOK, StageOK, Closing, LogOK, OutcomeOK
<1>3. \A row \in rows[r] : Failed(row).status = "fail" /\ Failed(row).key = row.key
  BY <1>2, FailedRow
<1>4. KeysOK(r)'
  <2>1. Some(r) = rows[r] /\ Some(r)' = rows'[r]
    BY <1>1, <1>2 DEF Some
  <2>2. ASSUME NEW a \in rows'[r], NEW b \in rows'[r],
               a.key = b.key \/ endpoint[r].shape # "many"
        PROVE  a = b
    BY <1>2, <1>3, <2>1, <2>2 DEF LogOK, KeysOK
  <2> QED
    BY <1>1, <1>2, <2>1, <2>2 DEF LogOK, KeysOK, Decorated, Creates
<1>5. LogOK(r)' /\ alive' = TRUE
  BY <1>1, <1>2, <1>3, <1>4 DEF LogOK, OutcomeOK, ClosedOK, Inv, TypeOK
<1>6. \A q \in Request \ {r} : SameRequest(q) /\ outcome'[q] = outcome[q]
  BY <1>1 DEF SameRequest, Inv, TypeOK
<1> QED
  BY <1>5, <1>6, OneRequestCloses

LEMMA FindLogCloses ==
    ASSUME Inv, Closing, NEW r \in Request, FindLog(r)
    PROVE  Closing'
<1> USE DEF processVars, requestVars, dataVars
<1>1. PICK next \in {"none", "readNew"} :
          /\ task' = [task EXCEPT ![r] = next]
          /\ next = "none" => \/ endpoint[r].resource = "other"
                             \/ (HasResourceId(r) /\ endpoint[r].resource # "request")
  <2>1. CASE task' = [task EXCEPT ![r] =
                IF endpoint[r].resource = "other"
                   \/ (HasResourceId(r) /\ endpoint[r].resource # "request")
                  THEN "none" ELSE "readNew"]
    BY <2>1
  <2>2. CASE HasResourceId(r) /\ endpoint[r].resource # "request" /\ task' = [task EXCEPT ![r] = "none"]
    BY <2>2
  <2> QED
    BY <2>1, <2>2 DEF FindLog
<1>2. /\ task[r] = "findLog" /\ alive /\ task'[r] = next
      /\ log' = [log EXCEPT ![r] = log'[r]]
      /\ UNCHANGED <<alive, crashes, stage, endpoint, todo, rows, value, wrote, outcome, result, newValue>>
  <2>1. /\ task[r] = "findLog" /\ alive /\ task'[r] = next /\ DOMAIN log = Request
        /\ UNCHANGED <<alive, crashes, stage, endpoint, todo, rows, value, wrote, outcome, result, newValue>>
    BY <1>1 DEF FindLog, Inv, TypeOK
  <2>2. CASE UNCHANGED log
    BY <2>1, <2>2 DEF Inv, TypeOK
  <2>3. ASSUME NEW row, log' = [log EXCEPT ![r] = row]
        PROVE  log' = [log EXCEPT ![r] = log'[r]]
    BY <2>1, <2>3
  <2> QED
    BY <2>1, <2>2, <2>3 DEF FindLog
<1>3. LogOK(r)
  BY DEF Closing
<1>4. LogOK(r)' /\ alive' = TRUE
  BY <1>1, <1>2, <1>3 DEF LogOK, OutcomeOK, KeysOK, ClosedOK, Some, Decorated, Creates,
     HasResourceId, Inv, TypeOK
<1>5. \A q \in Request \ {r} : SameRequest(q) /\ outcome'[q] = outcome[q]
  BY <1>1, <1>2 DEF SameRequest, Inv, TypeOK
<1> QED
  BY <1>4, <1>5, OneRequestCloses

LEMMA ReadNewValueCloses ==
    ASSUME Inv, Closing, NEW r \in Request, ReadNewValue(r)
    PROVE  Closing'
<1> USE DEF processVars, requestVars, dataVars
<1>1. PICK v : newValue' = [newValue EXCEPT ![r] = v]
  BY DEF ReadNewValue
<1>2. /\ task[r] = "readNew" /\ alive
      /\ task' = [task EXCEPT ![r] = "saveLog"] /\ task'[r] = "saveLog"
      /\ UNCHANGED <<alive, crashes, stage, endpoint, todo, rows, value, wrote, outcome, result, log>>
  BY DEF ReadNewValue, Inv, TypeOK
<1>3. LogOK(r)
  BY DEF Closing
<1>4. LogOK(r)' /\ alive' = TRUE
  BY <1>2, <1>3 DEF LogOK, OutcomeOK, KeysOK, ClosedOK, Some, Decorated, Creates, Inv, TypeOK
<1>5. \A q \in Request \ {r} : SameRequest(q) /\ outcome'[q] = outcome[q]
  BY <1>1, <1>2 DEF SameRequest, Inv, TypeOK
<1> QED
  BY <1>4, <1>5, OneRequestCloses

LEMMA SaveLogCloses ==
    ASSUME Inv, Closing, NEW r \in Request, SaveLog(r)
    PROVE  Closing'
<1> USE DEF processVars, requestVars, dataVars
<1> DEFINE kept == {row \in rows[r] : row.key # log[r].key}
<1>0. PICK closed : closed = ClosedRow(r)
  OBVIOUS
<1>1. /\ task[r] = "saveLog" /\ alive /\ task' = [task EXCEPT ![r] = "none"]
      /\ rows' = [rows EXCEPT ![r] = kept \cup {closed}]
      /\ UNCHANGED <<alive, crashes, stage, endpoint, todo, value, wrote, outcome, result, log, newValue>>
  BY <1>0 DEF SaveLog
<1>2. /\ LogOK(r) /\ stage[r] = "answered" /\ task'[r] = "none"
      /\ rows'[r] = kept \cup {closed}
      /\ log[r] \in rows[r] /\ log[r] \in Row /\ outcome[r] = "success" /\ Decorated(r)
  BY <1>1 DEF Inv, TypeOK, ReqOK, StageOK, TaskOK, Closing, LogOK, OutcomeOK
<1>3. closed.key = log[r].key /\ closed.status = "success"
  BY <1>0, <1>2 DEF ClosedRow, Row
<1>4. KeysOK(r)'
  <2>1. Some(r) = rows[r] /\ Some(r)' = kept \cup {closed}
    BY <1>1, <1>2 DEF Some
  <2>2. endpoint[r].shape # "many" => kept = {}
    BY <1>2, <2>1 DEF LogOK, KeysOK
  <2>3. ASSUME NEW a \in kept \cup {closed}, NEW b \in kept \cup {closed},
               a.key = b.key \/ endpoint[r].shape # "many"
        PROVE  a = b
    <3>1. CASE a \in kept /\ b \in kept
      BY <1>2, <2>1, <2>3, <3>1 DEF LogOK, KeysOK
    <3>2. CASE a = closed \/ b = closed
      BY <1>3, <2>2, <2>3, <3>2
    <3> QED
      BY <3>1, <3>2
  <2> QED
    BY <1>1, <1>2, <2>1, <2>3 DEF LogOK, KeysOK, Decorated, Creates
<1>5. LogOK(r)' /\ alive' = TRUE
  BY <1>1, <1>2, <1>3, <1>4 DEF LogOK, OutcomeOK, ClosedOK, Inv, TypeOK
<1>6. \A q \in Request \ {r} : SameRequest(q) /\ outcome'[q] = outcome[q]
  BY <1>1 DEF SameRequest, Inv, TypeOK
<1> QED
  BY <1>5, <1>6, OneRequestCloses

LEMMA EndProcessCloses ==
    ASSUME Inv, Closing, EndProcess,
           crashes' = 0 => \E r \in Request : Unlogged(r)
    PROVE  Closing'
<1> USE DEF dataVars
<1>1. /\ UNCHANGED <<endpoint, todo, rows, value, wrote, outcome, result, log, newValue>>
      /\ ~alive'
  BY DEF EndProcess
<1>2. ASSUME NEW q \in Request PROVE LogOK(q)'
  <2>1. /\ LogOK(q) /\ ReqOK(q)
        /\ stage'[q] = IF stage[q] \in {"reading", "saving", "handling", "written"}
                         THEN "lost" ELSE stage[q]
        /\ task'[q] = IF task[q] = "none" THEN "none" ELSE "gone"
    BY DEF EndProcess, Inv, Closing
  <2>2. Some(q)' \subseteq Some(q) /\ (stage'[q] = "answered" => Some(q)' = Some(q))
    BY <1>1, <2>1 DEF Some
  <2>3. KeysOK(q)'
    BY <1>1, <2>1, <2>2 DEF LogOK, KeysOK, Decorated, Creates
  <2>4. OutcomeOK(q)' /\ ClosedOK(q)'
    BY <1>1, <2>1 DEF LogOK, OutcomeOK, ClosedOK, Decorated, Creates, HasResourceId
  <2> QED
    BY <2>3, <2>4 DEF LogOK
<1>3. EndOK'
  BY <1>1 DEF EndOK, Unlogged, Decorated, Creates, Loggable
<1> QED
  BY <1>2, <1>3 DEF Closing

LEMMA NoLogFoundCloses ==
    ASSUME Inv, Closing, NEW r \in Request, NoLogFound(r)
    PROVE  Closing'
<1>1. /\ task[r] = "findLog" /\ rows[r] = {}
      /\ ~(HasResourceId(r) /\ endpoint[r].resource # "request")
      /\ EndProcess
  BY DEF NoLogFound
<1>2. /\ ReqOK(r) /\ LogOK(r) /\ stage[r] = "answered" /\ Decorated(r)
      /\ outcome[r] = "success" /\ Some(r) = {} /\ endpoint[r] \in Endpoint
  BY <1>1 DEF Inv, TypeOK, ReqOK, StageOK, Closing, LogOK, OutcomeOK, Some
<1>3. ~Creates(r)
  BY <1>2 DEF LogOK, KeysOK
<1>4. ASSUME endpoint[r].resource # "other", NEW i \in endpoint[r].ids, Loggable(r, i)
      PROVE  i \notin Existing
  <2>1. endpoint[r].resource \in Known
    BY <1>2, <1>4 DEF Endpoint, Known, Decorated
  <2> QED
    BY <1>1, <1>2, <1>3, <1>4, <2>1 DEF ReqOK, TraceOK, HasRow
<1>5. Unlogged(r)
  BY <1>2, <1>3, <1>4 DEF Unlogged
<1> QED
  BY <1>1, <1>5, EndProcessCloses

LEMMA NextCloses == Inv /\ Closing /\ [Next]_vars => Closing'
<1> SUFFICES ASSUME Inv, Closing, [Next]_vars PROVE Closing'
  OBVIOUS
<1>1. ASSUME NEW r \in Request, NEW e \in Endpoints, Intercept(r, e) PROVE Closing'
  BY <1>1, InterceptCloses
<1>2. ASSUME NEW r \in Request, ReadOldValue(r) PROVE Closing'
  BY <1>2, ReadOldValueCloses
<1>3. ASSUME NEW r \in Request, SaveRow(r) \/ SaveUpdateLogFails(r) PROVE Closing'
  BY <1>3, SavingCloses
<1>4. ASSUME NEW r \in Request, HandlerWrites(r) PROVE Closing'
  BY <1>4, HandlerWritesCloses
<1>5. ASSUME NEW r \in Request, HandlerSucceeds(r) PROVE Closing'
  BY <1>5, HandlerSucceedsCloses
<1>6. ASSUME NEW r \in Request, HandlerFails(r) PROVE Closing'
  BY <1>6, HandlerFailsCloses
<1>7. ASSUME NEW r \in Request, MarkFail(r) PROVE Closing'
  BY <1>7, MarkFailCloses
<1>8. ASSUME NEW r \in Request, FindLog(r) PROVE Closing'
  BY <1>8, FindLogCloses
<1>9. ASSUME NEW r \in Request, ReadNewValue(r) PROVE Closing'
  BY <1>9, ReadNewValueCloses
<1>10. ASSUME NEW r \in Request, SaveLog(r) PROVE Closing'
  BY <1>10, SaveLogCloses
<1>11. ASSUME NEW r \in Request, NoLogFound(r) PROVE Closing'
  BY <1>11, NoLogFoundCloses
<1>12. CASE Crash
  <2>1. crashes' # 0
    BY <1>12 DEF Crash, Inv, TypeOK
  <2> QED
    BY <1>12, <2>1, EndProcessCloses DEF Crash
<1>13. CASE Restart \/ UNCHANGED vars
  <2>1. /\ UNCHANGED <<stage, endpoint, todo, rows, outcome, result, task, crashes>>
        /\ alive' \/ alive' = alive
    BY <1>13 DEF Restart, vars, requestVars, dataVars, taskVars
  <2>2. \A q \in Request : LogOK(q)'
    BY <2>1 DEF Closing, LogOK, OutcomeOK, KeysOK, ClosedOK, Some, Decorated, Creates,
       HasResourceId
  <2>3. EndOK'
    BY <2>1 DEF Closing, EndOK, Unlogged, Decorated, Creates, Loggable
  <2> QED
    BY <2>2, <2>3 DEF Closing
<1> QED
  BY <1>1, <1>2, <1>3, <1>4, <1>5, <1>6, <1>7, <1>8, <1>9, <1>10, <1>11, <1>12, <1>13 DEF Next

LEMMA ClosingHolds == Spec => [](Inv /\ Closing)
<1>1. Init => Inv /\ Closing
  BY InitInv, InitClosing
<1>2. Inv /\ Closing /\ [Next]_vars => Inv' /\ Closing'
  BY NextInv, NextCloses
<1> QED
  BY <1>1, <1>2, PTL DEF Spec

-------------------------------------------------------------------------------
(* The theorems *)

\* When the work on an answered request is over, each row of it that is still pending is
\* one of a batch of which another was closed, or records a creation of something other
\* than a housekeeping request.
THEOREM PendingExplainedHolds == Spec => []PendingExplained
<1>1. Inv /\ Closing => PendingExplained
  <2> SUFFICES ASSUME Inv, Closing, NEW r \in Request, NEW row \in rows[r],
                      stage[r] = "answered", task[r] = "none", row.status = "pending"
               PROVE  /\ outcome[r] = "success"
                      /\ \/ /\ endpoint[r].shape = "many"
                            /\ \E other \in rows[r] : other.status = "success"
                         \/ Creates(r) /\ endpoint[r].resource # "request"
    BY DEF PendingExplained
  <2>1. /\ LogOK(r) /\ TaskOK(r) /\ Some(r) = rows[r]
        /\ outcome[r] \in {"none", "success", "fail"}
    BY DEF Closing, Inv, ReqOK, TypeOK, Outcome, Some
  <2>2. Decorated(r) /\ (endpoint[r].resource = "other" => Creates(r))
    BY <2>1 DEF LogOK, KeysOK
  <2>3. outcome[r] = "success"
    BY <2>1, <2>2 DEF LogOK, OutcomeOK, ClosedOK
  <2>4. CASE \E other \in rows[r] : other.status = "success"
    BY <2>1, <2>3, <2>4 DEF LogOK, KeysOK
  <2>5. CASE endpoint[r].resource = "other"
    BY <2>2, <2>3, <2>5
  <2>6. CASE HasResourceId(r) /\ endpoint[r].resource # "request"
    BY <2>3, <2>6 DEF HasResourceId
  <2> QED
    BY <2>1, <2>2, <2>3, <2>4, <2>5, <2>6 DEF LogOK, ClosedOK
<1> QED
  BY <1>1, ClosingHolds, PTL

\* Nothing but a successful update without a row makes the service end its own process.
THEOREM OnlyUnloggedUpdatesEndTheProcessHolds == Spec => []OnlyUnloggedUpdatesEndTheProcess
<1>1. Inv /\ Closing => OnlyUnloggedUpdatesEndTheProcess
  BY DEF Closing, EndOK, Unlogged, OnlyUnloggedUpdatesEndTheProcess
<1> QED
  BY <1>1, ClosingHolds, PTL

\* The status of a key is that of its one row.
LEMMA StatusIs ==
    ASSUME NEW r \in Request, \A a, b \in rows[r] : a.key = b.key => a = b
    PROVE  /\ \A row \in rows[r] : Status(r, row.key) = row.status
           /\ \A k : ~HasRow(k, rows[r]) => Status(r, k) = "none"
<1>1. ASSUME NEW row \in rows[r] PROVE Status(r, row.key) = row.status
  <2>1. (CHOOSE a \in rows[r] : a.key = row.key) = row
    OBVIOUS
  <2> QED
    BY <2>1 DEF Status
<1> QED
  BY <1>1 DEF Status, HasRow

Entries == [e \in Request \X Key |-> Status(e[1], e[2])]

LEMMA EntryIs ==
    ASSUME NEW r \in Request, NEW k \in Key
    PROVE  <<r, k>> \in Request \X Key /\ Entries[<<r, k>>] = Status(r, k)
BY DEF Entries

LEMMA SameRows ==
    ASSUME NEW q \in Request, rows'[q] = rows[q]
    PROVE  \A k : Status(q, k)' = Status(q, k)
BY DEF Status

LEMMA SameEntries == UNCHANGED rows => UNCHANGED Entries
BY DEF Entries, Status

LEMMA OneRowEach ==
    ASSUME Inv, Closing, NEW r \in Request
    PROVE  \A a, b \in rows[r] : a.key = b.key => a = b
<1>1. LogOK(r) /\ rows[r] \subseteq Some(r)
  BY DEF Closing, Some
<1> QED
  BY <1>1 DEF LogOK, KeysOK

LEMMA LogInitHolds == Init => Log!LogInit
<1> SUFFICES ASSUME Init PROVE Log!LogInit
  OBVIOUS
<1>1. \A r \in Request : \A k : Status(r, k) = "none"
  BY DEF Init, Status
<1> QED
  BY <1>1 DEF Init, Log!LogInit

\* A row is saved: an entry is opened, unless the row was there already.
LEMMA SavingOpens ==
    ASSUME Inv, Closing, Closing', Inv', NEW r \in Request, stage[r] = "saving",
           NEW row \in todo[r], rows' = [rows EXCEPT ![r] = @ \cup {row}],
           UNCHANGED outcome
    PROVE  [Log!LogNext]_(Log!logVars)
<1>1. /\ rows'[r] = rows[r] \cup {row} /\ row \in Row /\ row.key \in Key
      /\ \A q \in Request \ {r} : rows'[q] = rows[q]
  BY DEF Inv, TypeOK, Row
<1>2. row.status = "pending"
  BY DEF Inv, ReqOK, RowsOK
<1>3. CASE row \in rows[r]
  <2>1. rows' = rows
    BY <1>1, <1>3 DEF Inv, TypeOK
  <2> QED
    BY <2>1, SameEntries DEF Log!logVars, Entries
<1>4. CASE row \notin rows[r]
  <2>1. ~HasRow(row.key, rows[r])
    BY <1>4 DEF Closing, LogOK, KeysOK, Some, HasRow
  <2>2. \A a, b \in rows[r] : a.key = b.key => a = b
    BY OneRowEach
  <2>3. \A a, b \in rows'[r] : a.key = b.key => a = b
    BY <1>1, <2>1, <2>2 DEF HasRow
  <2>4. Status(r, row.key) = "none" /\ Status(r, row.key)' = "pending"
    <3>1. Status(r, row.key) = "none"
      BY <2>1, <2>2, StatusIs
    <3>2. (CHOOSE a \in rows'[r] : a.key = row.key) = row
      BY <1>1, <2>3
    <3> QED
      BY <1>1, <1>2, <3>1, <3>2 DEF Status
  <2>5. ASSUME NEW k, k # row.key PROVE Status(r, k)' = Status(r, k)
    <3>1. \A a : a \in rows'[r] /\ a.key = k <=> a \in rows[r] /\ a.key = k
      BY <1>1, <2>5
    <3> QED
      BY <3>1 DEF Status
  <2>6. Entries' = [Entries EXCEPT ![<<r, row.key>>] = "pending"]
    <3>1. ASSUME NEW q \in Request, NEW k \in Key
          PROVE  Status(q, k)' = IF <<q, k>> = <<r, row.key>> THEN "pending" ELSE Status(q, k)
      <4>1. CASE q # r
        BY <1>1, <4>1, SameRows
      <4>2. CASE q = r /\ k # row.key
        BY <2>5, <4>2
      <4>3. CASE q = r /\ k = row.key
        BY <2>4, <4>3
      <4> QED
        BY <4>1, <4>2, <4>3
    <3>2. ASSUME NEW e \in Request \X Key
          PROVE  Status(e[1], e[2])' =
                    IF e = <<r, row.key>> THEN "pending" ELSE Status(e[1], e[2])
      BY <3>1
    <3> QED
      BY <3>2 DEF Entries
  <2>7. Entries[<<r, row.key>>] = "none" /\ <<r, row.key>> \in Request \X Key
    BY <1>1, <2>4, EntryIs
  <2>8. Log!Open(<<r, row.key>>)
    BY <2>6, <2>7 DEF Log!Open, Entries
  <2> QED
    BY <2>7, <2>8 DEF Log!LogNext
<1> QED
  BY <1>3, <1>4

\* The rows of some keys of a request, all pending, get its outcome.
LEMMA ClosingCloses ==
    ASSUME NEW r \in Request, NEW keys \in SUBSET Key, outcome[r] # "none", UNCHANGED outcome,
           \A q \in Request \ {r} : rows'[q] = rows[q],
           \A k \in keys : Status(r, k) = "pending",
           \A k \in Key : Status(r, k)' = IF k \in keys THEN outcome[r] ELSE Status(r, k)
    PROVE  Log!LogNext
<1> DEFINE owner == [e \in Request \X Key |-> e[1]]
<1> DEFINE closed == {r} \X keys
<1>1. closed \in SUBSET {e \in Request \X Key : owner[e] = r /\ Entries[e] = "pending"}
  BY EntryIs
<1>2. ASSUME NEW q \in Request, NEW k \in Key
      PROVE  Status(q, k)' = IF <<q, k>> \in closed THEN outcome[r] ELSE Status(q, k)
  <2>1. CASE q = r
    BY <2>1
  <2>2. CASE q # r
    BY <2>2, SameRows
  <2> QED
    BY <2>1, <2>2
<1>3. ASSUME NEW e \in Request \X Key
      PROVE  Status(e[1], e[2])' = IF e \in closed THEN outcome[r] ELSE Entries[e]
  BY <1>2 DEF Entries
<1>4. Entries' = [e \in Request \X Key |-> IF e \in closed THEN outcome[r] ELSE Entries[e]]
  BY <1>3 DEF Entries
<1>5. Log!Close(r)
  BY <1>1, <1>4 DEF Log!Close, Entries
<1> QED
  BY <1>5 DEF Log!LogNext

LEMMA MarkFailRefines ==
    ASSUME Inv, Closing, Inv', Closing', NEW r \in Request, MarkFail(r)
    PROVE  Log!LogNext
<1> USE DEF processVars, requestVars, dataVars
<1>1. /\ task[r] = "markFail" /\ outcome' = outcome
      /\ rows' = [rows EXCEPT ![r] = {Failed(row) : row \in rows[r]}]
  BY DEF MarkFail, Failed
<1>2. /\ rows[r] \subseteq Row /\ rows'[r] = {Failed(row) : row \in rows[r]}
      /\ \A q \in Request \ {r} : rows'[q] = rows[q]
      /\ outcome[r] = "fail" /\ \A row \in rows[r] : row.status = "pending"
  BY <1>1 DEF Inv, TypeOK, Closing, LogOK, OutcomeOK
<1> DEFINE keys == {row.key : row \in rows[r]}
<1>3. \A k \in keys : Status(r, k) = "pending"
  BY <1>2, OneRowEach, StatusIs
<1>4. ASSUME NEW k \in Key PROVE Status(r, k)' = IF k \in keys THEN "fail" ELSE Status(r, k)
  <2>1. \A a, b \in rows'[r] : a.key = b.key => a = b
    <3>1. Some(r)' = rows'[r] \/ rows'[r] \subseteq Some(r)'
      BY DEF Some
    <3> QED
      BY <3>1 DEF Closing, LogOK, KeysOK
  <2>2. CASE k \in keys
    <3>1. PICK row \in rows[r] : row.key = k
      BY <2>2
    <3>2. Failed(row) \in rows'[r] /\ Failed(row).key = k /\ Failed(row).status = "fail"
      BY <1>2, <3>1, FailedRow
    <3>3. (CHOOSE a \in rows'[r] : a.key = k) = Failed(row)
      BY <2>1, <3>2
    <3> QED
      BY <2>2, <3>2, <3>3 DEF Status
  <2>3. CASE k \notin keys
    <3>1. ~\E row \in rows'[r] : row.key = k
      BY <1>2, <2>3, FailedRow
    <3> QED
      BY <2>3, <3>1 DEF Status
  <2> QED
    BY <2>2, <2>3
<1>5. keys \in SUBSET Key
  BY <1>2 DEF Row
<1> QED
  BY <1>1, <1>2, <1>3, <1>4, <1>5, ClosingCloses

LEMMA SaveLogRefines ==
    ASSUME Inv, Closing, Inv', Closing', NEW r \in Request, SaveLog(r)
    PROVE  Log!LogNext
<1> USE DEF processVars, requestVars, dataVars
<1> DEFINE kept == {row \in rows[r] : row.key # log[r].key}
<1>0. PICK closed : closed = ClosedRow(r)
  OBVIOUS
<1>1. /\ task[r] = "saveLog" /\ outcome' = outcome
      /\ rows' = [rows EXCEPT ![r] = kept \cup {closed}]
  BY <1>0 DEF SaveLog
<1>2. /\ rows'[r] = kept \cup {closed}
      /\ \A q \in Request \ {r} : rows'[q] = rows[q]
      /\ log[r] \in rows[r] /\ log[r] \in Row
      /\ outcome[r] = "success" /\ \A row \in rows[r] : row.status = "pending"
  BY <1>1 DEF Inv, TypeOK, ReqOK, TaskOK, Closing, LogOK, OutcomeOK
<1>3. closed.key = log[r].key /\ closed.status = "success" /\ log[r].key \in Key
  BY <1>0, <1>2 DEF ClosedRow, Row
<1>4. Status(r, log[r].key) = "pending"
  BY <1>2, OneRowEach, StatusIs
<1>5. ASSUME NEW k \in Key
      PROVE  Status(r, k)' = IF k \in {log[r].key} THEN "success" ELSE Status(r, k)
  <2>1. CASE k = log[r].key
    <3>1. (CHOOSE a \in rows'[r] : a.key = k) = closed
      BY <1>2, <1>3, <2>1
    <3> QED
      BY <1>2, <1>3, <2>1, <3>1 DEF Status
  <2>2. CASE k # log[r].key
    <3>1. \A a : (a \in rows'[r] /\ a.key = k) <=> (a \in rows[r] /\ a.key = k)
      BY <1>2, <1>3, <2>2
    <3> QED
      BY <2>2, <3>1 DEF Status
  <2> QED
    BY <2>1, <2>2
<1> DEFINE keys == {log[r].key}
<1>6. /\ keys \in SUBSET Key /\ outcome[r] # "none"
      /\ \A k \in keys : Status(r, k) = "pending"
      /\ \A k \in Key : Status(r, k)' = IF k \in keys THEN outcome[r] ELSE Status(r, k)
  BY <1>2, <1>3, <1>4, <1>5
<1> HIDE DEF keys
<1> QED
  BY <1>1, <1>2, <1>6, ClosingCloses

LEMMA LogStep == Inv /\ Closing /\ Inv' /\ Closing' /\ [Next]_vars => [Log!LogNext]_(Log!logVars)
<1> SUFFICES ASSUME Inv, Closing, Inv', Closing', [Next]_vars
             PROVE  [Log!LogNext]_(Log!logVars)
  OBVIOUS
<1> USE DEF processVars, requestVars, dataVars, taskVars
<1>1. ASSUME UNCHANGED <<rows, outcome>> PROVE [Log!LogNext]_(Log!logVars)
  BY <1>1, SameEntries DEF Log!logVars, Entries
<1>2. ASSUME NEW r \in Request,
             \/ \E e \in Endpoints : Intercept(r, e)
             \/ ReadOldValue(r) \/ HandlerWrites(r) \/ FindLog(r) \/ ReadNewValue(r)
             \/ NoLogFound(r)
      PROVE  UNCHANGED <<rows, outcome>>
  BY <1>2 DEF Intercept, ReadOldValue, HandlerWrites, FindLog, ReadNewValue, NoLogFound, EndProcess
<1>3. Crash \/ Restart \/ UNCHANGED vars => UNCHANGED <<rows, outcome>>
  BY DEF Crash, EndProcess, Restart, vars
<1>4. ASSUME NEW r \in Request, HandlerSucceeds(r) \/ HandlerFails(r)
      PROVE  Log!LogNext
  <2>1. PICK o \in {"success", "fail"} : outcome' = [outcome EXCEPT ![r] = o]
    BY <1>4 DEF HandlerSucceeds, HandlerFails
  <2>2. outcome[r] = "none" /\ UNCHANGED rows
    BY <1>4 DEF HandlerSucceeds, HandlerFails, Closing, LogOK, OutcomeOK
  <2>3. Log!Decide(r)
    BY <2>1, <2>2, SameEntries DEF Log!Decide, Entries
  <2> QED
    BY <2>3 DEF Log!LogNext
<1>5. ASSUME NEW r \in Request, SaveRow(r) \/ SaveUpdateLogFails(r)
      PROVE  [Log!LogNext]_(Log!logVars)
  <2>1. CASE UNCHANGED rows
    BY <1>1, <1>5, <2>1 DEF SaveRow, SaveUpdateLogFails
  <2>2. ASSUME NEW row \in todo[r], stage[r] = "saving", rows' = [rows EXCEPT ![r] = @ \cup {row}]
        PROVE  [Log!LogNext]_(Log!logVars)
    BY <1>5, <2>2, SavingOpens DEF SaveRow, SaveUpdateLogFails
  <2> QED
    BY <1>5, <2>1, <2>2 DEF SaveRow, SaveUpdateLogFails
<1>6. ASSUME NEW r \in Request, MarkFail(r) PROVE Log!LogNext
  BY <1>6, MarkFailRefines
<1>7. ASSUME NEW r \in Request, SaveLog(r) PROVE Log!LogNext
  BY <1>7, SaveLogRefines
<1> QED
  BY <1>1, <1>2, <1>3, <1>4, <1>5, <1>6, <1>7 DEF Next

\* The rows implement the log of requests that RequestLog promises: each is opened as
\* pending and closed once, with the outcome of its own request, also the rows of a batch
\* and those of requests that were refused or that a crash cut off.
THEOREM UpdateKeepsLog == Spec => KeepsLog
<1>1. Spec => Log!LogInit /\ [][Log!LogNext]_(Log!logVars)
  BY LogInitHolds, LogStep, ClosingHolds, PTL DEF Spec
<1> QED
  BY <1>1 DEF KeepsLog, Log!LogSpec
================================================================================
