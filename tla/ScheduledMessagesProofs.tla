------------------------ MODULE ScheduledMessagesProofs ------------------------
(***************************************************************************)
(* Proofs about ScheduledMessages for every offset of the zones, every set  *)
(* of times and every instance of the message queue.  What SqsMessagingProofs *)
(* shows of a step of the queue is used as it is; what is new is the step   *)
(* that puts a scheduled message, and the clock.                            *)
(***************************************************************************)
EXTENDS ScheduledMessages, SqsMessagingProofs

\* What a schedule asks for is the minute its caller meant, and was not in the past
\* when the check against the past was made; and the clock has not passed one that
\* arrived in time.
Punctual ==
    \A m \in Msg :
        LET s == schedule[m]
        IN  s # NoSchedule =>
              /\ Due(m) = Meant(s)
              /\ (s.time.type = "string" /\ s.time.minutes < 0) \/ s.called <= Meant(s)
              /\ s.state = "enabled" /\ s.arrived <= Meant(s) => now <= Meant(s)

Timing == ScheduleTypeOK /\ Punctual

-------------------------------------------------------------------------------
(* Times *)

\* There and back between the zones.
LEMMA Zones ==
    ASSUME NEW x \in Int, NEW o \in Int
    PROVE  /\ Wall(x, o) \in Int /\ Instant(x, o) \in Int
           /\ Instant(Wall(x, o), o) = x
BY DEF Wall, Instant

LEMMA TimeKinds ==
    ASSUME NEW t \in ScheduleTime
    PROVE  \/ t.type = "string" /\ t.minutes \in Int
           \/ t.type = "object" /\ t.shows \in Int
<1>1. CASE t \in [type : {"string"}, minutes : MinutesAfter]
  <2>1. t.type = "string" /\ t.minutes \in MinutesAfter
    BY <1>1
  <2> QED
    BY <2>1, ScheduleAssumption
<1>2. CASE t \in [type : {"object"}, shows : SpecificTimes]
  <2>1. t.type = "object" /\ t.shows \in SpecificTimes
    BY <1>2
  <2> QED
    BY <2>1, ScheduleAssumption
<1> QED
  BY <1>1, <1>2 DEF ScheduleTime

LEMMA AfterIsAnInstant ==
    ASSUME now \in Nat, NEW t \in ScheduleTime
    PROVE  After(t) \in Int
<1>1. CASE t.type = "string" /\ t.minutes \in Int
  BY <1>1 DEF After
<1>2. CASE t.type = "object" /\ t.shows \in Int
  <2>1. Instant(t.shows, ServerOffset) \in Int
    BY <1>2, Zones, ScheduleAssumption
  <2> QED
    BY <1>2, <2>1 DEF After
<1> QED
  BY <1>1, <1>2, TimeKinds

LEMMA InitTiming == ScheduledInit => Timing
BY ScheduleAssumption
   DEF ScheduledInit, Init, Timing, ScheduleTypeOK, Punctual, NoSchedule

\* A schedule is asked for, with the minute that its caller means.
LEMMA CreateTiming ==
    ASSUME Timing, NEW i \in Instance, NEW m \in Msg, NEW name \in ScheduleName,
           NEW t \in ScheduleTime, NEW message \in Messages,
           CreateOneTimeScheduler(i, m, name, t, message)
    PROVE  Timing'
<1> DEFINE s == [state |-> "requested", name |-> name, time |-> t, called |-> now,
                 arrived |-> now, expression |-> scheduleExpression(t),
                 message |-> message]
<1>1. /\ schedule' = [schedule EXCEPT ![m] = s] /\ now' = now /\ place' = place
      /\ place[m] = "unsent" /\ ~ExpressionThrows(t)
  BY DEF CreateOneTimeScheduler, vars
<1>2. now \in 0 .. MaxTime /\ schedule \in [Msg -> Schedule \cup {NoSchedule}]
  BY DEF Timing, ScheduleTypeOK
<1>3. After(t) \in Int
  BY <1>2, AfterIsAnInstant, ScheduleAssumption
<1>4. /\ s.expression \in Int
      /\ Instant(s.expression, SeoulOffset) = After(t)
  BY <1>3, Zones, ScheduleAssumption DEF scheduleExpression
<1>5. s \in Schedule
  BY <1>2, <1>4 DEF Schedule
<1>6. After(t) = Meant(s)
  BY DEF After, Meant
<1>7. (t.type = "string" /\ t.minutes < 0) \/ s.called <= Meant(s)
  <2>1. CASE t.type = "string" /\ t.minutes \in Int
    BY <2>1, <1>2, ScheduleAssumption DEF Meant
  <2>2. CASE t.type = "object" /\ t.shows \in Int
    BY <2>2, <1>1, <1>2, <1>3, <1>6 DEF ExpressionThrows
  <2> QED
    BY <2>1, <2>2, TimeKinds
<1>8. ScheduleTypeOK'
  BY <1>1, <1>2, <1>5 DEF Timing, ScheduleTypeOK
<1>9. ASSUME NEW n \in Msg, schedule'[n] # NoSchedule
      PROVE  LET u == schedule'[n]
             IN  /\ Due(n)' = Meant(u)
                 /\ (u.time.type = "string" /\ u.time.minutes < 0) \/ u.called <= Meant(u)
                 /\ u.state = "enabled" /\ u.arrived <= Meant(u) => now' <= Meant(u)
  <2>1. CASE n = m
    <3>1. schedule'[n] = s
      BY <1>1, <1>2, <2>1
    <3>2. Due(n)' = Instant(s.expression, SeoulOffset)
      BY <3>1 DEF Due
    <3>3. s.state # "enabled" /\ s.time = t
      OBVIOUS
    <3> HIDE DEF s
    <3> QED
      BY <1>4, <1>6, <1>7, <3>1, <3>2, <3>3
  <2>2. CASE n # m
    <3>1. schedule'[n] = schedule[n] /\ Due(n)' = Due(n)
      BY <1>1, <1>2, <2>2 DEF Due
    <3> QED
      BY <1>1, <1>9, <3>1 DEF Timing, Punctual
  <2> QED
    BY <2>1, <2>2
<1>10. Punctual'
  BY <1>9 DEF Punctual, Meant, Due, Instant
<1> QED
  BY <1>8, <1>10 DEF Timing

\* Where a schedule, or the minute, is left alone, so is what holds of it.
LEMMA OthersKeep ==
    ASSUME Timing, NEW n \in Msg,
           schedule'[n] = schedule[n], now' = now
    PROVE  schedule'[n] # NoSchedule =>
              /\ Due(n)' = Meant(schedule'[n])
              /\ \/ schedule'[n].time.type = "string" /\ schedule'[n].time.minutes < 0
                 \/ schedule'[n].called <= Meant(schedule'[n])
              /\ schedule'[n].state = "enabled" /\ schedule'[n].arrived <= Meant(schedule'[n])
                    => now' <= Meant(schedule'[n])
<1>1. Due(n)' = Due(n)
  BY DEF Due
<1> QED
  BY <1>1 DEF Timing, Punctual

\* The request arrives, or comes to nothing; or the schedule is invoked.
LEMMA ScheduleStepTiming ==
    ASSUME Timing, NEW m \in Msg,
           CreateSchedule(m) \/ CreateScheduleFails(m) \/ Invoke(m)
    PROVE  Timing'
<1> DEFINE s == schedule[m]
           Arrived == [[s EXCEPT !.state = "enabled"] EXCEPT !.arrived = now]
<1>1. now' = now /\ now \in 0 .. MaxTime /\ schedule \in [Msg -> Schedule \cup {NoSchedule}]
  BY DEF CreateSchedule, CreateScheduleFails, Invoke, vars, Timing, ScheduleTypeOK
<1>2. s \in Schedule
  BY <1>1 DEF CreateSchedule, CreateScheduleFails, Invoke, NoSchedule
<1>3. \/ schedule' = [schedule EXCEPT ![m] = Arrived] /\ s.state = "requested"
         /\ place' = place
      \/ schedule' = [schedule EXCEPT ![m] = NoSchedule]
         /\ \A n \in Msg : n # m => place'[n] = place[n]
  <2>1. CASE CreateSchedule(m)
    BY <2>1, <1>1 DEF CreateSchedule, vars
  <2>2. CASE CreateScheduleFails(m)
    BY <2>2 DEF CreateScheduleFails, vars
  <2>3. CASE Invoke(m)
    BY <2>3 DEF Invoke
  <2> QED
    BY <2>1, <2>2, <2>3
<1>4. CASE /\ schedule' = [schedule EXCEPT ![m] = Arrived] /\ s.state = "requested"
           /\ place' = place
  <2>1. Arrived \in Schedule /\ Arrived # NoSchedule /\ s # NoSchedule
    <3>1. Arrived \in Schedule
      BY <1>1, <1>2 DEF Schedule
    <3>2. Arrived.state = "enabled" /\ NoSchedule.state = "none"
      BY <1>2 DEF Schedule, NoSchedule
    <3> HIDE DEF Arrived
    <3> QED
      BY <1>4, <3>1, <3>2
  <2>2. ScheduleTypeOK'
    BY <1>1, <1>4, <2>1 DEF Timing, ScheduleTypeOK
  <2>3. Arrived.expression = s.expression /\ Arrived.time = s.time
        /\ Arrived.called = s.called /\ Arrived.arrived = now
    BY <1>2 DEF Schedule
  <2>4. Meant(Arrived) = Meant(s)
    BY <2>3 DEF Meant
  <2>5. schedule'[m] = Arrived /\ Due(m)' = Due(m)
    BY <1>1, <1>4, <2>3 DEF Due
  <2>6. \A n \in Msg : n # m => schedule'[n] = schedule[n]
    BY <1>1, <1>4
  <2> HIDE DEF Arrived, s
  <2>7. /\ Due(m)' = Meant(Arrived)
        /\ \/ Arrived.time.type = "string" /\ Arrived.time.minutes < 0
           \/ Arrived.called <= Meant(Arrived)
        /\ Arrived.arrived <= Meant(Arrived) => now' <= Meant(Arrived)
    BY <1>1, <2>1, <2>3, <2>4, <2>5 DEF Timing, Punctual, s
  <2>8. Punctual'
    BY <1>1, <2>5, <2>6, <2>7, OthersKeep DEF Punctual, Meant, Due, Instant
  <2> QED
    BY <2>2, <2>8 DEF Timing
<1>5. CASE /\ schedule' = [schedule EXCEPT ![m] = NoSchedule]
           /\ \A n \in Msg : n # m => place'[n] = place[n]
  <2>1. schedule'[m] = NoSchedule /\ \A n \in Msg : n # m => schedule'[n] = schedule[n]
    BY <1>1, <1>5
  <2>2. ScheduleTypeOK'
    BY <1>1, <1>5, <2>1 DEF Timing, ScheduleTypeOK
  <2>3. Punctual'
    BY <1>1, <2>1, OthersKeep DEF Punctual, Meant, Due, Instant
  <2> QED
    BY <2>2, <2>3 DEF Timing
<1> QED
  BY <1>3, <1>4, <1>5

\* A minute passes only when no schedule that arrived in time is left in it.
LEMMA TickTiming ==
    ASSUME Timing, Tick
    PROVE  Timing'
<1>1. /\ now \in Nat /\ now' = now + 1 /\ now' \in 0 .. MaxTime
      /\ schedule' = schedule /\ place' = place
  BY ScheduleAssumption DEF Timing, ScheduleTypeOK, Tick, vars
<1>2. ScheduleTypeOK'
  BY <1>1 DEF Timing, ScheduleTypeOK
<1>3. ASSUME NEW m \in Msg, schedule[m].state = "enabled", schedule[m] # NoSchedule,
             schedule[m].arrived <= Meant(schedule[m])
      PROVE  now' <= Meant(schedule[m])
  <2>1. Due(m) = Meant(schedule[m])
    BY <1>3 DEF Timing, Punctual
  <2>2. now < Due(m)
    BY <1>3, <2>1 DEF Tick, ArrivedInTime
  <2>3. Due(m) \in Int
    BY <1>3, ScheduleAssumption DEF Due, Instant, Timing, ScheduleTypeOK, Schedule
  <2> QED
    BY <1>1, <2>1, <2>2, <2>3
<1>4. Punctual'
  BY <1>1, <1>3 DEF Timing, Punctual, Meant, Due, Instant
<1> QED
  BY <1>2, <1>4 DEF Timing

\* A step of the queue leaves the messages that are scheduled alone.
LEMMA QueueTiming ==
    ASSUME Timing, QueueNext \/ UNCHANGED allVars
    PROVE  Timing'
<1>1. /\ now' = now /\ schedule' = schedule
      /\ \A m \in Msg : schedule[m] # NoSchedule => place'[m] = place[m]
  BY DEF QueueNext, scheduleVars, allVars, vars
<1>2. ScheduleTypeOK'
  BY <1>1 DEF Timing, ScheduleTypeOK
<1>3. Punctual'
  BY <1>1, OthersKeep DEF Punctual, Meant, Due, Instant
<1> QED
  BY <1>2, <1>3 DEF Timing

LEMMA NextTiming == Timing /\ [ScheduledNext]_allVars => Timing'
<1> SUFFICES ASSUME Timing, [ScheduledNext]_allVars PROVE Timing'
  OBVIOUS
<1> QED
  BY CreateTiming, ScheduleStepTiming, TickTiming, QueueTiming, Zenon DEF ScheduledNext

LEMMA TimingHolds == ScheduledSpec => []Timing
BY InitTiming, NextTiming, PTL DEF ScheduledSpec

-------------------------------------------------------------------------------
\* The clock and the schedules stay in their sets of values, and a message that is
\* scheduled is not in the queue.
THEOREM ScheduleTypeHolds == ScheduledSpec => []ScheduleTypeOK
<1>1. Timing => ScheduleTypeOK
  BY DEF Timing
<1> QED
  BY <1>1, TimingHolds, PTL

\* Wherever server and scheduler are, a schedule is overdue only when it was asked for
\* with negative minutes, or its minute passed while the request was under way.
THEOREM OverdueIsExcusedHolds == ScheduledSpec => []OverdueIsExcused
<1>1. ASSUME Timing PROVE OverdueIsExcused
  <2> SUFFICES ASSUME NEW m \in Msg, schedule[m].state = "enabled",
                      now > Meant(schedule[m]),
                      ~(/\ schedule[m].time.type = "string"
                        /\ schedule[m].time.minutes < 0)
               PROVE  /\ schedule[m].called <= Meant(schedule[m])
                      /\ Meant(schedule[m]) < schedule[m].arrived
    BY DEF OverdueIsExcused
  <2>1. schedule \in [Msg -> Schedule \cup {NoSchedule}] /\ now \in Nat
    BY <1>1, ScheduleAssumption DEF Timing, ScheduleTypeOK
  <2>2. schedule[m] # NoSchedule /\ schedule[m] \in Schedule
    BY <2>1 DEF NoSchedule
  <2>3. Due(m) = Meant(schedule[m]) /\ Due(m) \in Int /\ schedule[m].arrived \in Nat
    BY <1>1, <2>2, ScheduleAssumption DEF Timing, Punctual, Due, Instant, Schedule
  <2>4. /\ schedule[m].called <= Meant(schedule[m])
        /\ schedule[m].arrived <= Meant(schedule[m]) => now <= Meant(schedule[m])
    BY <1>1, <2>2 DEF Timing, Punctual
  <2> QED
    BY <2>1, <2>3, <2>4
<1> QED
  BY <1>1, TimingHolds, PTL

\* In every zone, a scheduled message enters the queue at or after the minute that its
\* caller meant (scheduleExpression, eventbridge-scheduler.service.ts:72).
THEOREM NeverEarlyHolds == ScheduledSpec => NeverEarly
<1> DEFINE OnTime == \A m \in Msg :
                        schedule[m].state = "enabled" /\ place'[m] # place[m] =>
                            now >= Meant(schedule[m])
<1>1. ASSUME Timing, [ScheduledNext]_allVars PROVE OnTime
  <2> SUFFICES ASSUME NEW m \in Msg, schedule[m].state = "enabled", place'[m] # place[m]
               PROVE  now >= Meant(schedule[m])
    OBVIOUS
  <2>1. schedule[m] # NoSchedule
    BY DEF NoSchedule
  <2>2. PICK n \in Msg : Invoke(n)
    <3>1. ~QueueNext /\ ~Tick /\ ~UNCHANGED allVars
      BY <2>1 DEF QueueNext, Tick, allVars, vars
    <3>2. \A k \in Msg : ~CreateSchedule(k) /\ ~CreateScheduleFails(k)
      BY DEF CreateSchedule, CreateScheduleFails, vars
    <3>3. \A k \in Msg, i \in Instance, name \in ScheduleName, t \in ScheduleTime,
             message \in Messages : ~CreateOneTimeScheduler(i, k, name, t, message)
      BY DEF CreateOneTimeScheduler, vars
    <3> QED
      BY <1>1, <3>1, <3>2, <3>3 DEF ScheduledNext
  <2>3. n = m
    BY <2>2 DEF Invoke
  <2>4. Due(m) <= now /\ Due(m) = Meant(schedule[m])
    BY <1>1, <2>1, <2>2, <2>3 DEF Invoke, Timing, Punctual
  <2>5. Due(m) \in Int /\ now \in Nat
    <3>1. schedule[m] \in Schedule
      BY <1>1, <2>1 DEF Timing, ScheduleTypeOK
    <3> QED
      BY <1>1, <3>1, ScheduleAssumption DEF Timing, ScheduleTypeOK, Due, Instant, Schedule
  <2> QED
    BY <2>4, <2>5
<1>2. Timing /\ [ScheduledNext]_allVars => [OnTime]_allVars
  BY <1>1
<1> QED
  BY <1>2, TimingHolds, PTL DEF ScheduledSpec, NeverEarly

-------------------------------------------------------------------------------
(* The queue *)

\* A scheduled message is a text that send() could have sent.
LEMMA MessagesAreTexts == Messages \subseteq Texts
<1> SUFFICES ASSUME NEW p \in Payloads, p.isString
             PROVE  p.body \in Texts
  BY DEF Messages
<1>1. PICK r \in Routes : TRUE
  BY ScheduleAssumption
<1>2. WireBody(r, p) = p.body
  BY DEF WireBody
<1> QED
  BY <1>2 DEF Texts

\* What EventBridge puts into the queue, as SqsMessaging sees it.
LEMMA Invoked ==
    ASSUME Timing, NEW m \in Msg, Invoke(m)
    PROVE  /\ place[m] = "unsent"
           /\ \E t \in Texts : body' = [body EXCEPT ![m] = t]
           /\ place' = [place EXCEPT ![m] = "visible"]
           /\ home' = [home EXCEPT ![m] = TargetQueue] /\ TargetQueue \in Queue
           /\ UNCHANGED <<procVars, workVars, completed>>
<1>1. schedule[m] # NoSchedule /\ schedule[m] \in Schedule
  BY DEF Invoke, NoSchedule, Timing, ScheduleTypeOK
<1>2. schedule[m].message \in Texts
  BY <1>1, MessagesAreTexts DEF Schedule
<1> QED
  BY <1>1, <1>2, ScheduleAssumption DEF Invoke, Timing, ScheduleTypeOK

LEMMA InvokeKeeps ==
    ASSUME Timing, TypeAndCustody, NEW m \in Msg, Invoke(m)
    PROVE  TypeAndCustody' /\ (Delivery => Delivery')
<1>1. PICK t \in Texts : body' = [body EXCEPT ![m] = t]
  BY Invoked
<1>2. t \in Body
  BY TextsAreBodies
<1>3. \A c \in Consumer : held[c] # m
  BY Invoked, ConstantsAssumption DEF TypeAndCustody, TypeOK, Custody
<1>4. TypeOK'
  BY <1>1, <1>2, Invoked DEF TypeAndCustody, TypeOK, procVars, workVars
<1>5. Custody'
  BY <1>1, <1>3, Invoked DEF TypeAndCustody, TypeOK, Custody, HasHandler, procVars, workVars
<1>6. completed[m] = {}
  BY Invoked DEF TypeAndCustody, Custody
<1>7. ASSUME Delivery PROVE Delivery'
  BY <1>1, <1>3, <1>6, <1>7, Invoked
     DEF TypeAndCustody, TypeOK, Delivery, OnlyTheNamedHandler, ResolvedWasHandled,
         DeletedWasHandled, procVars, workVars
<1> QED
  BY <1>4, <1>5, <1>7 DEF TypeAndCustody

\* EventBridge puts a message like a sender.
LEMMA InvokeRefines ==
    ASSUME Timing, TypeAndCustody, NEW m \in Msg, Invoke(m)
    PROVE  Promise!AbstractNext
<1>1. PICK t \in Texts : body' = [body EXCEPT ![m] = t]
  BY Invoked
<1>2. AbstractState[m] = "new" /\ AbstractState' = [AbstractState EXCEPT ![m] = "pending"]
  <2>1. place[m] = "unsent" /\ place' = [place EXCEPT ![m] = "visible"]
    BY Invoked
  <2>2. place \in [Msg -> {"unsent", "visible", "invisible", "deleted"}]
    BY DEF TypeAndCustody, TypeOK
  <2> QED
    BY <2>1, <2>2 DEF AbstractState
<1>3. Promise!Put(m, t)
  BY <1>1, <1>2, Invoked DEF Promise!Put, AbstractState
<1> QED
  BY <1>3 DEF Promise!AbstractNext

\* Every other step is one of the queue, or leaves its variables alone.
LEMMA StepsOfTheQueue ==
    ASSUME [ScheduledNext]_allVars
    PROVE  [Next]_vars \/ \E m \in Msg : Invoke(m)
<1>1. \A m \in Msg : CreateSchedule(m) \/ CreateScheduleFails(m) => UNCHANGED vars
  BY DEF CreateSchedule, CreateScheduleFails
<1>2. \A m \in Msg, i \in Instance, name \in ScheduleName, t \in ScheduleTime,
         message \in Messages :
             CreateOneTimeScheduler(i, m, name, t, message) => UNCHANGED vars
  BY DEF CreateOneTimeScheduler
<1>3. (Tick \/ UNCHANGED allVars) => UNCHANGED vars
  BY DEF Tick, allVars
<1>4. QueueNext => Next
  BY DEF QueueNext
<1> QED
  BY <1>1, <1>2, <1>3, <1>4 DEF ScheduledNext

\* With a scheduler in front of the queue, and whatever its messages hold, the queue
\* still implements AtLeastOnce: a scheduled message with a whole route is gone only
\* after the handler it names has completed.
THEOREM ScheduledKeepsPromise == PathsTell => (ScheduledSpec => KeepsPromise)
<1> SUFFICES ASSUME PathsTell PROVE ScheduledSpec => KeepsPromise
  OBVIOUS
<1> DEFINE QInv == TypeAndCustody /\ Delivery
<1>1. ScheduledInit => QInv /\ Promise!AbstractInit
  BY InitTypeAndCustody, InitDelivery, InitRefines DEF ScheduledInit
<1>2. Timing /\ QInv /\ [ScheduledNext]_allVars => QInv'
  BY StepsOfTheQueue, InvokeKeeps, NextTypeAndCustody, NextDelivery, Zenon
<1>3. Timing /\ QInv /\ [ScheduledNext]_allVars =>
          [Promise!AbstractNext]_(Promise!abstractVars)
  BY StepsOfTheQueue, InvokeRefines, NextRefines, Zenon DEF Delivery
<1> QED
  BY <1>1, <1>2, <1>3, TimingHolds, PTL DEF ScheduledSpec, KeepsPromise, Promise!AbstractSpec
================================================================================
