--------------------------- MODULE AuditLoggingProofs ---------------------------
(***************************************************************************)
(* Proofs about AuditLogging for any number of requests and of crashes.    *)
(***************************************************************************)
EXTENDS AuditLogging, TLAPS

Insert(r) == [request |-> r, status |-> "pending"]

Update(r, o) == [request |-> r, status |-> o]

\* What is on its way for a request: an INSERT has not been executed before, and an
\* UPDATE carries the outcome of the request.
StatementsOK(r) ==
    /\ Insert(r) \in statements => row[r] = "none" /\ stage[r] # "new"
    /\ \A o \in Outcome : Update(r, o) \in statements => outcome[r] = o

\* A request has an outcome from its answer on, and its row shows no other one.
RowOK(r) ==
    /\ stage[r] = "answered" <=> outcome[r] # "none"
    /\ stage[r] = "new" => row[r] = "none"
    /\ row[r] \in {"none", "pending", outcome[r]}

\* The outcome of an audited request is in its row, or on its way, or there is a
\* reason why not.
Recorded(r) ==
    Audited(r) /\ stage[r] = "answered" =>
        row[r] = outcome[r] \/ Update(r, outcome[r]) \in statements \/ gap[r] # {}

Inv ==
    /\ TypeOK
    /\ \A r \in Request : StatementsOK(r) /\ RowOK(r) /\ Recorded(r)

-------------------------------------------------------------------------------

LEMMA InitInv == Init => Inv
BY MaxCrashesAssumption
   DEF Init, Inv, TypeOK, StatementsOK, RowOK, Recorded, Audited, Caller, Method,
       Outcome, auditMethods

\* What SaveAuditLog may add to the statements.
LEMMA Saved ==
    ASSUME Inv, NEW r \in Request, NEW who, NEW status \in {"pending"} \cup Outcome,
           SaveAuditLog(r, who, status) \/ UNCHANGED statements
    PROVE  /\ statements \subseteq statements'
           /\ statements' \subseteq statements \cup {Update(r, status)}
           /\ statements' \subseteq Statement
BY DEF SaveAuditLog, Inv, TypeOK, Update, Statement

LEMMA InterceptInv ==
    ASSUME Inv, NEW r \in Request, NEW who \in Caller, NEW verb \in Method,
           Intercept(r, who, verb)
    PROVE  Inv'
<1>1. /\ statements \subseteq statements'
      /\ statements' \subseteq statements \cup {Insert(r)}
      /\ statements' \subseteq Statement
  BY Saved DEF Intercept, Insert, Update
<1>2. TypeOK'
  BY <1>1 DEF Inv, TypeOK, Intercept, processVars
<1>3. ASSUME NEW q \in Request PROVE (StatementsOK(q) /\ RowOK(q) /\ Recorded(q))'
  <2>1. /\ stage[r] = "new" /\ stage'[r] = "handling"
        /\ q # r => stage'[q] = stage[q] /\ caller'[q] = caller[q] /\ method'[q] = method[q]
        /\ UNCHANGED <<outcome, row, gap>>
    BY DEF Intercept, Inv, TypeOK
  <2>2. StatementsOK(q) /\ RowOK(q) /\ Recorded(q) /\ RowOK(r)
    BY DEF Inv
  <2>3. \A o \in Outcome : Update(q, o) # Insert(r)
    BY DEF Update, Insert, Outcome
  <2>4. q # r => Insert(q) # Insert(r)
    BY DEF Insert
  <2>5. StatementsOK(q)'
    BY <1>1, <2>1, <2>2, <2>3, <2>4 DEF StatementsOK, RowOK
  <2>6. RowOK(q)'
    BY <2>1, <2>2 DEF RowOK
  <2>7. Recorded(q)'
    BY <1>1, <2>1, <2>2 DEF Recorded, Audited
  <2> QED
    BY <2>5, <2>6, <2>7
<1> QED
  BY <1>2, <1>3 DEF Inv

LEMMA FinishInv ==
    ASSUME Inv, NEW r \in Request, NEW o \in Outcome, Finish(r, o)
    PROVE  Inv'
<1>1. /\ statements \subseteq statements'
      /\ statements' \subseteq statements \cup {Update(r, o)}
      /\ statements' \subseteq Statement
  BY Saved DEF Finish
<1>2. TypeOK'
  BY <1>1 DEF Inv, TypeOK, Finish, processVars
<1>3. ASSUME NEW q \in Request PROVE (StatementsOK(q) /\ RowOK(q) /\ Recorded(q))'
  <2>1. /\ stage[r] = "handling" /\ stage'[r] = "answered" /\ outcome'[r] = o
        /\ q # r => stage'[q] = stage[q] /\ outcome'[q] = outcome[q]
        /\ UNCHANGED <<caller, method, row, gap>>
    BY DEF Finish, Inv, TypeOK
  <2>2. StatementsOK(q) /\ RowOK(q) /\ Recorded(q)
    BY DEF Inv
  <2>3. Insert(q) # Update(r, o) /\ o # "none"
    BY DEF Update, Insert, Outcome
  <2>4. \A p \in Outcome : Update(q, p) = Update(r, o) => q = r /\ p = o
    BY DEF Update
  <2>5. StatementsOK(q)'
    <3>1. Insert(q) \in statements' => row'[q] = "none" /\ stage'[q] # "new"
      BY <1>1, <2>1, <2>2, <2>3 DEF StatementsOK
    <3>2. ASSUME NEW p \in Outcome, Update(q, p) \in statements' PROVE outcome'[q] = p
      <4>1. CASE q # r
        BY <4>1, <3>2, <1>1, <2>1, <2>2, <2>4 DEF StatementsOK
      <4>2. CASE q = r
        <5>1. Update(q, p) \notin statements
          BY <4>2, <2>1, <2>2 DEF StatementsOK, RowOK, Outcome
        <5> QED
          BY <5>1, <4>2, <3>2, <1>1, <2>1, <2>4
      <4> QED
        BY <4>1, <4>2
    <3> QED
      BY <3>1, <3>2 DEF StatementsOK
  <2>6. RowOK(q)'
    BY <2>1, <2>2, <2>3 DEF RowOK
  <2>7. Recorded(q)'
    <3>1. CASE q # r
      BY <3>1, <1>1, <2>1, <2>2 DEF Recorded, Audited
    <3>2. CASE q = r
      BY <3>2, <2>1 DEF Recorded, Audited, Finish, SaveAuditLog, Update
    <3> QED
      BY <3>1, <3>2
  <2> QED
    BY <2>5, <2>6, <2>7
<1> QED
  BY <1>2, <1>3 DEF Inv

LEMMA ExecuteInsertInv ==
    ASSUME Inv, NEW r \in Request, ExecuteInsert(r)
    PROVE  Inv'
<1>1. TypeOK'
  BY DEF Inv, TypeOK, ExecuteInsert, processVars, requestVars
<1>2. ASSUME NEW q \in Request PROVE (StatementsOK(q) /\ RowOK(q) /\ Recorded(q))'
  <2>1. /\ Insert(r) \in statements
        /\ statements' = statements \ {Insert(r)}
        /\ row'[r] = "pending"
        /\ q # r => row'[q] = row[q]
        /\ UNCHANGED <<stage, caller, method, outcome, gap>>
    BY DEF ExecuteInsert, Insert, requestVars, Inv, TypeOK
  <2>2. StatementsOK(q) /\ RowOK(q) /\ Recorded(q) /\ StatementsOK(r)
    BY DEF Inv
  <2>3. \A o : Update(q, o) = Insert(r) => o = "pending"
    BY DEF Update, Insert
  <2>4. StatementsOK(q)'
    BY <2>1, <2>2 DEF StatementsOK
  <2>5. RowOK(q)'
    BY <2>1, <2>2 DEF RowOK, StatementsOK
  <2>6. Recorded(q)'
    <3>1. outcome[q] \in Outcome \cup {"none"}
      BY DEF Inv, TypeOK
    <3>2. outcome[q] # "pending" /\ row[r] = "none"
      BY <3>1, <2>1, <2>2 DEF Outcome, StatementsOK
    <3> QED
      BY <2>1, <2>2, <2>3, <3>2 DEF Recorded, Audited, RowOK
  <2> QED
    BY <2>4, <2>5, <2>6
<1> QED
  BY <1>1, <1>2 DEF Inv

LEMMA ExecuteUpdateInv ==
    ASSUME Inv, NEW r \in Request, NEW o \in Outcome, ExecuteUpdate(r, o)
    PROVE  Inv'
<1>1. TypeOK'
  BY DEF Inv, TypeOK, ExecuteUpdate, processVars, requestVars
<1>2. ASSUME NEW q \in Request PROVE (StatementsOK(q) /\ RowOK(q) /\ Recorded(q))'
  <2>1. /\ Update(r, o) \in statements
        /\ statements' = statements \ {Update(r, o)}
        /\ row[r] = "none" => row' = row /\ gap'[r] # {}
        /\ row[r] # "none" => row'[r] = o /\ gap' = gap
        /\ q # r => row'[q] = row[q] /\ gap'[q] = gap[q]
        /\ UNCHANGED <<stage, caller, method, outcome>>
    <3>1. row \in [Request -> {"none", "pending"} \cup Outcome] /\ DOMAIN gap = Request
      BY DEF Inv, TypeOK
    <3>2. CASE row[r] = "none"
      <4>1. row' = row /\ gap' = [gap EXCEPT ![r] = gap[r] \cup {"overtaken"}]
        BY <3>2 DEF ExecuteUpdate
      <4> QED
        BY <3>1, <3>2, <4>1 DEF ExecuteUpdate, Update, requestVars
    <3>3. CASE row[r] # "none"
      <4>1. row' = [row EXCEPT ![r] = o] /\ gap' = gap
        BY <3>3 DEF ExecuteUpdate
      <4> QED
        BY <3>1, <3>3, <4>1 DEF ExecuteUpdate, Update, requestVars
    <3> QED
      BY <3>2, <3>3
  <2>2. StatementsOK(q) /\ RowOK(q) /\ Recorded(q) /\ StatementsOK(r) /\ RowOK(r)
    BY DEF Inv
  <2>3. outcome[r] = o
    BY <2>1, <2>2 DEF StatementsOK
  <2>4. \A p : Update(q, p) = Update(r, o) => q = r
    BY DEF Update
  <2>5. StatementsOK(q)'
    BY <2>1, <2>2 DEF StatementsOK
  <2>6. RowOK(q)'
    BY <2>1, <2>2, <2>3 DEF RowOK
  <2>7. Recorded(q)'
    BY <2>1, <2>2, <2>3, <2>4 DEF Recorded, Audited
  <2> QED
    BY <2>5, <2>6, <2>7
<1> QED
  BY <1>1, <1>2 DEF Inv

LEMMA EndProcessInv ==
    ASSUME Inv, NEW lost \in SUBSET statements, crashes < MaxCrashes, EndProcess(lost)
    PROVE  Inv'
<1>1. TypeOK'
  <2>1. crashes' \in 0 .. MaxCrashes
    BY MaxCrashesAssumption DEF Inv, TypeOK, EndProcess
  <2> QED
    BY <2>1 DEF Inv, TypeOK, EndProcess
<1>2. ASSUME NEW q \in Request PROVE (StatementsOK(q) /\ RowOK(q) /\ Recorded(q))'
  <2>1. /\ statements' = statements \ lost
        /\ stage'[q] = IF stage[q] = "handling" THEN "lost" ELSE stage[q]
        /\ gap'[q] = IF InFlight(q) \cap lost = {} THEN gap[q] ELSE gap[q] \cup {"lost"}
        /\ UNCHANGED <<caller, method, outcome, row>>
    BY DEF EndProcess
  <2>2. StatementsOK(q) /\ RowOK(q) /\ Recorded(q)
    BY DEF Inv
  <2>3. StatementsOK(q)'
    BY <2>1, <2>2 DEF StatementsOK
  <2>4. RowOK(q)'
    BY <2>1, <2>2 DEF RowOK
  <2>5. Recorded(q)'
    <3>1. ASSUME Update(q, outcome[q]) \in lost PROVE gap'[q] # {}
      BY <3>1, <2>1 DEF InFlight, Update
    <3> QED
      BY <2>1, <2>2, <3>1 DEF Recorded, Audited
  <2> QED
    BY <2>3, <2>4, <2>5
<1> QED
  BY <1>1, <1>2 DEF Inv

LEMMA NextInv == Inv /\ [Next]_vars => Inv'
<1> SUFFICES ASSUME Inv, [Next]_vars PROVE Inv'
  OBVIOUS
<1>1. ASSUME NEW r \in Request, NEW who \in Caller, NEW verb \in Method,
             Intercept(r, who, verb)
      PROVE  Inv'
  BY <1>1, InterceptInv
<1>2. ASSUME NEW r \in Request, NEW o \in Outcome, Finish(r, o) PROVE Inv'
  BY <1>2, FinishInv
<1>3. ASSUME NEW r \in Request, NEW o \in Outcome, ExecuteUpdate(r, o) PROVE Inv'
  BY <1>3, ExecuteUpdateInv
<1>4. ASSUME NEW r \in Request, ExecuteInsert(r) PROVE Inv'
  BY <1>4, ExecuteInsertInv
<1>5. CASE Crash
  BY <1>5, EndProcessInv DEF Crash
<1>6. ASSUME NEW s \in statements, StatementFails(s) PROVE Inv'
  BY <1>6, EndProcessInv DEF StatementFails
<1>7. CASE Restart
  BY <1>7 DEF Restart, Inv, TypeOK, StatementsOK, RowOK, Recorded, Audited, requestVars
<1>8. CASE UNCHANGED vars
  BY <1>8 DEF vars, Inv, TypeOK, StatementsOK, RowOK, Recorded, Audited
<1> QED
  BY <1>1, <1>2, <1>3, <1>4, <1>5, <1>6, <1>7, <1>8 DEF Next

LEMMA InvHolds == Spec => []Inv
BY InitInv, NextInv, PTL DEF Spec

-------------------------------------------------------------------------------

\* Every variable of the audit log stays in its set of values: no row ever has a status
\* that is not one of "pending", "success" and "fail".
THEOREM TypeHolds == Spec => []TypeOK
<1>1. Inv => TypeOK
  BY DEF Inv
<1> QED
  BY <1>1, InvHolds, PTL

\* Once the handler of an audited request has ended and no statement of it is on its
\* way, its row shows the outcome, unless the UPDATE overtook the INSERT or the process
\* ended before they were executed, with any number of requests and crashes.
THEOREM BehindOnlyByRaceOrCrashHolds == Spec => []BehindOnlyByRaceOrCrash
<1>1. Inv => BehindOnlyByRaceOrCrash
  <2>1. ASSUME NEW r \in Request, Update(r, outcome[r]) \in statements
        PROVE  InFlight(r) # {}
    BY <2>1 DEF InFlight, Update
  <2> QED
    BY <2>1 DEF Inv, Recorded, BehindOnlyByRaceOrCrash
<1> QED
  BY <1>1, InvHolds, PTL

LEMMA LogInitHolds == Init => Log!LogInit
BY DEF Init, Log!LogInit

LEMMA LogStep == Inv /\ [Next]_vars => [Log!LogNext]_(Log!logVars)
<1> SUFFICES ASSUME Inv, [Next]_vars PROVE [Log!LogNext]_(Log!logVars)
  OBVIOUS
<1>1. ASSUME NEW r \in Request, NEW o \in Outcome, Finish(r, o)
      PROVE  Log!LogNext
  <2>1. outcome[r] = "none" /\ outcome' = [outcome EXCEPT ![r] = o] /\ row' = row
    BY <1>1 DEF Finish, Inv, RowOK
  <2>2. Log!Decide(r)
    BY <2>1 DEF Log!Decide, Outcome
  <2> QED
    BY <2>2 DEF Log!LogNext
<1>2. ASSUME NEW r \in Request, ExecuteInsert(r)
      PROVE  Log!LogNext
  <2>1. row[r] = "none" /\ row' = [row EXCEPT ![r] = "pending"] /\ outcome' = outcome
    BY <1>2 DEF ExecuteInsert, Inv, StatementsOK, Insert, requestVars
  <2> QED
    BY <2>1 DEF Log!LogNext, Log!Open
<1>3. ASSUME NEW r \in Request, NEW o \in Outcome, ExecuteUpdate(r, o)
      PROVE  [Log!LogNext]_(Log!logVars)
  <2>1. outcome[r] = o /\ o # "none" /\ outcome' = outcome
    BY <1>3 DEF ExecuteUpdate, Inv, StatementsOK, Update, Outcome, requestVars
  <2>2. row \in [Request -> {"none", "pending"} \cup Outcome]
    BY DEF Inv, TypeOK
  <2>3. CASE row[r] = "pending"
    <3> DEFINE closed == {r}
    <3>1. row' = [q \in Request |-> IF q \in closed THEN outcome[q] ELSE row[q]]
      BY <1>3, <2>1, <2>2, <2>3 DEF ExecuteUpdate
    <3>2. closed \in SUBSET {e \in Request : e = r /\ row[e] = "pending"}
      BY <2>3
    <3>3. Log!Close(r)
      BY <2>1, <3>1, <3>2 DEF Log!Close
    <3> QED
      BY <3>3 DEF Log!LogNext
  <2>4. CASE row[r] # "pending"
    <3>1. row' = row
      BY <1>3, <2>1, <2>2, <2>4 DEF ExecuteUpdate, Inv, RowOK
    <3> QED
      BY <2>1, <3>1 DEF Log!logVars
  <2> QED
    BY <2>3, <2>4
<1>4. ASSUME UNCHANGED <<row, outcome>> PROVE [Log!LogNext]_(Log!logVars)
  BY <1>4 DEF Log!logVars
<1>5. (\E r \in Request, who \in Caller, verb \in Method : Intercept(r, who, verb))
          => UNCHANGED <<row, outcome>>
  BY DEF Intercept
<1>6. Crash \/ (\E s \in statements : StatementFails(s)) => UNCHANGED <<row, outcome>>
  BY DEF Crash, StatementFails, EndProcess
<1>7. Restart => UNCHANGED <<row, outcome>>
  BY DEF Restart, requestVars
<1>8. UNCHANGED vars => UNCHANGED <<row, outcome>>
  BY DEF vars
<1> QED
  BY <1>1, <1>2, <1>3, <1>4, <1>5, <1>6, <1>7, <1>8 DEF Next

\* The rows implement the log of requests that RequestLog promises: each is opened as
\* pending and closed once, with the outcome of its own request, in whatever order the
\* pool executes the statements and wherever the process ends.
THEOREM AuditKeepsLog == Spec => KeepsLog
<1>1. Spec => Log!LogInit /\ [][Log!LogNext]_(Log!logVars)
  BY LogInitHolds, LogStep, InvHolds, PTL DEF Spec
<1> QED
  BY <1>1 DEF KeepsLog, Log!LogSpec
================================================================================
