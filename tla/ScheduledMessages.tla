--------------------------- MODULE ScheduledMessages ---------------------------
(***************************************************************************)
(* The one-time scheduler of src/infrastructure/scheduler/one-time put in  *)
(* front of the message queue: EventBridgeSchedulerService asks Amazon     *)
(* EventBridge to put a message into an SQS queue at a later minute, and   *)
(* SqsService consumes it there.  EventBridge is external: it keeps one    *)
(* schedule of a name, puts its message within the minute (the flexible    *)
(* window is off) and then deletes it.                                     *)
(*                                                                         *)
(* An instant is a number; what a clock on a wall shows at an instant is   *)
(* the instant plus the offset of the wall's zone.  The text of a schedule *)
(* holds what a clock in Seoul shows.                                      *)
(***************************************************************************)
EXTENDS SqsMessaging, Integers

CONSTANTS
    ScheduleName,   \* names of schedules
    MinutesAfter,   \* the MinuteAfter texts callers use, as numbers
    SpecificTimes,  \* the SpecificTime objects callers use: what the clock is to show
    SeoulOffset,    \* zone of the scheduler
    ServerOffset,   \* zone of the processes
    TargetQueue,    \* the queue behind queueArn
    MaxTime         \* bound: the last minute

\* ScheduleTime: a number of minutes or a specific time.
ScheduleTime == [type : {"string"}, minutes : MinutesAfter]
                    \cup [type : {"object"}, shows : SpecificTimes]

ASSUME ScheduleAssumption ==
    /\ MinutesAfter \subseteq Int
    /\ SpecificTimes \subseteq Int
    /\ SeoulOffset \in Int
    /\ ServerOffset \in Int
    /\ TargetQueue \in Queue
    /\ Routes # {}
    /\ MaxTime \in Nat

VARIABLES
    now,       \* the present minute
    schedule   \* of each message: none, a request under way, or a schedule

scheduleVars == <<now, schedule>>
allVars == <<vars, now, schedule>>

\* JSON.stringify(message): the routing fields are those that its author wrote.
Messages == {p.body : p \in {q \in Payloads : q.isString /\ q.body.json}}

NoSchedule == [state |-> "none"]
Schedule ==
    [state : {"requested", "enabled"}, name : ScheduleName, time : ScheduleTime,
     called : 0 .. MaxTime, arrived : 0 .. MaxTime, expression : Int, message : Messages]

Wall(instant, offset) == instant + offset
Instant(shown, offset) == shown - offset

-------------------------------------------------------------------------------
(* The instant that scheduleExpression computes, and the text it makes of it *)

After(t) ==
    IF t.type = "string" THEN now + t.minutes ELSE Instant(t.shows, ServerOffset)

\* Mutant: nothing is refused.
NeverThrows(t) == FALSE

\* A text of minutes that is no number, like an impossible date, throws and is
\* no ScheduleTime here; a time in the past throws only when it is an object.
ExpressionThrows(t) == t.type = "object" /\ After(t) < now

\* Mutant: the change of zone is left out where minutes are added.
MinutesOnTheServersClock(t) ==
    Wall(After(t), IF t.type = "string" THEN ServerOffset ELSE SeoulOffset)

\* Mutant: it is left out for a specific time.
TimeOnTheServersClock(t) ==
    Wall(After(t), IF t.type = "object" THEN ServerOffset ELSE SeoulOffset)

scheduleExpression(t) == Wall(After(t), SeoulOffset)

-------------------------------------------------------------------------------
ScheduledInit ==
    /\ Init
    /\ now = 0
    /\ schedule = [m \in Msg |-> NoSchedule]

\* createOneTimeScheduler, up to the request.
CreateOneTimeScheduler(i, m, name, t, message) ==
    /\ phase[i] \in {"up", "stopping"}
    /\ place[m] = "unsent"
    /\ schedule[m] = NoSchedule
    /\ ~ExpressionThrows(t)
    /\ After(t) <= MaxTime
    /\ schedule' = [schedule EXCEPT ![m] =
          [state |-> "requested", name |-> name, time |-> t, called |-> now,
           arrived |-> now, expression |-> scheduleExpression(t), message |-> message]]
    /\ UNCHANGED <<vars, now>>

\* The request arrives, perhaps after its caller has given up or died.
CreateSchedule(m) ==
    /\ schedule[m].state = "requested"
    /\ \A n \in Msg : schedule[n].state = "enabled" =>
                          schedule[n].name # schedule[m].name
    /\ schedule' = [schedule EXCEPT ![m].state = "enabled", ![m].arrived = now]
    /\ UNCHANGED <<vars, now>>

\* It is lost, or refused: the name is taken, or the service fails.
CreateScheduleFails(m) ==
    /\ schedule[m].state = "requested"
    /\ schedule' = [schedule EXCEPT ![m] = NoSchedule]
    /\ UNCHANGED <<vars, now>>

Due(m) == Instant(schedule[m].expression, SeoulOffset)

\* Mutant: the schedule stays when its message has been put.
InvokeKeepsSchedule(m) ==
    /\ schedule[m].state = "enabled"
    /\ Due(m) <= now
    /\ place' = [place EXCEPT ![m] = "visible"]
    /\ home' = [home EXCEPT ![m] = TargetQueue]
    /\ body' = [body EXCEPT ![m] = schedule[m].message]
    /\ UNCHANGED <<procVars, workVars, completed, scheduleVars>>

\* A schedule that arrives after its time may be invoked at once or never.
Invoke(m) ==
    /\ schedule[m].state = "enabled"
    /\ Due(m) <= now
    /\ place' = [place EXCEPT ![m] = "visible"]
    /\ home' = [home EXCEPT ![m] = TargetQueue]
    /\ body' = [body EXCEPT ![m] = schedule[m].message]
    /\ schedule' = [schedule EXCEPT ![m] = NoSchedule]
    /\ UNCHANGED <<procVars, workVars, completed, now>>

\* One that arrived in time is invoked in its minute.
ArrivedInTime(m) == schedule[m].state = "enabled" /\ schedule[m].arrived <= Due(m)

InvokeInTime(m) == ArrivedInTime(m) /\ Invoke(m)

\* A minute passes, once what was to be put in it has been.
Tick ==
    /\ now < MaxTime
    /\ \A m \in Msg : ArrivedInTime(m) => now < Due(m)
    /\ now' = now + 1
    /\ UNCHANGED <<vars, schedule>>

\* A step of the message queue; a message that is scheduled is not also sent.
QueueNext ==
    /\ Next
    /\ \A m \in Msg : schedule[m] # NoSchedule => place'[m] = place[m]
    /\ UNCHANGED scheduleVars

ScheduledNext ==
    \/ QueueNext
    \/ \E m \in Msg :
          \/ \E i \in Instance, name \in ScheduleName, t \in ScheduleTime,
                message \in Messages : CreateOneTimeScheduler(i, m, name, t, message)
          \/ CreateSchedule(m)
          \/ CreateScheduleFails(m)
          \/ Invoke(m)
    \/ Tick

\* Time passes, and EventBridge invokes the schedules that are due.
ScheduledSpec ==
    /\ ScheduledInit /\ [][ScheduledNext]_allVars
    /\ WF_allVars(Tick) /\ \A m \in Msg : WF_allVars(InvokeInTime(m))

-------------------------------------------------------------------------------
(* Properties *)

\* The clock and the schedules stay in their sets of values.
ScheduleTypeOK ==
    /\ now \in 0 .. MaxTime
    /\ schedule \in [Msg -> Schedule \cup {NoSchedule}]
    /\ \A m \in Msg : schedule[m] # NoSchedule => place[m] = "unsent"

\* The instant the caller of createOneTimeScheduler means: so many minutes after
\* its call, or when the clock of its server shows the fields.
Meant(s) ==
    IF s.time.type = "string" THEN s.called + s.time.minutes
                              ELSE Instant(s.time.shows, ServerOffset)

\* No scheduled message is in the queue before the minute its caller meant,
\* through both changes of zone: into the text of the schedule, and back out of
\* it in EventBridge.
NeverEarly ==
    [][\A m \in Msg :
          schedule[m].state = "enabled" /\ place'[m] # place[m] =>
              now >= Meant(schedule[m])]_allVars

\* A schedule is overdue only if it was asked for with negative minutes, or its
\* minute passed while the request was under way: nothing else gets by the check
\* against the past.
OverdueIsExcused ==
    \A m \in Msg :
        LET s == schedule[m]
        IN  s.state = "enabled" /\ now > Meant(s) =>
                \/ s.time.type = "string" /\ s.time.minutes < 0
                \/ s.called <= Meant(s) /\ Meant(s) < s.arrived

\* A schedule that reached EventBridge by the minute it was meant for ends with
\* its message in the queue.
TakenIsSent ==
    \A m \in Msg :
        schedule[m].state = "enabled" /\ schedule[m].arrived <= Meant(schedule[m])
            ~> place[m] # "unsent"
================================================================================
