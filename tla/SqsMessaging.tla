----------------------------- MODULE SqsMessaging -----------------------------
(***************************************************************************)
(* The message queue of src/infrastructure/message-queue/sqs: several      *)
(* processes of the application (a rolling deployment may mix versions)    *)
(* share a set of SQS queues.  SqsService sends and consumes, SqsRouter    *)
(* holds the routing table filled from the decorators that                 *)
(* DiscoveryService finds.  The queue itself and the polling loop of       *)
(* sqs-consumer are external; they are modelled by what SqsService relies  *)
(* on: one message at a time per consumer, acknowledged when the callback  *)
(* resolves, left to its visibility timeout when it rejects.               *)
(*                                                                         *)
(* A name is the sequence of its '/'-separated segments, so that joining   *)
(* names with '/' is concatenation and the empty (or missing, or falsy)    *)
(* name is <<>>.                                                           *)
(***************************************************************************)
EXTENDS Naturals, Sequences

CONSTANTS
    Instance,     \* processes of the application
    Msg,          \* messages
    NoMsg,        \* "no message"
    Segment,      \* the segments names are made of
    Queue,        \* names of queues
    Deployments,  \* versions of the application that may be started
    Routes,       \* the SqsRouteOptions callers of send() use
    Payloads,     \* the message bodies callers of send() use
    MaxBoots      \* bound: process starts in a behaviour

NameOrEmpty == Seq(Segment)
Name == NameOrEmpty \ {<<>>}

\* SqsRouteOptions, also the address of a handler.
Route == [queue : NameOrEmpty, controller : NameOrEmpty, handler : NameOrEmpty]

\* What JSON.parse makes of a message: it throws, or yields the three fields.
Body == [json : BOOLEAN, route : Route]

Controller == [queue : Name, prefix : Name, handlers : Seq(Name)]
Deployment == [consumers : Seq(Queue), producers : Seq(Queue),
               controllers : Seq(Controller)]

ASSUME ConstantsAssumption ==
    /\ Queue \subseteq Name
    /\ NoMsg \notin Msg
    /\ Deployments \subseteq Deployment
    /\ Routes \subseteq Route
    /\ Payloads \subseteq [isString : BOOLEAN, body : Body]
    /\ MaxBoots \in Nat

VARIABLES
    phase,     \* of each process
    deploy,    \* the version each process runs
    running,   \* queues whose consumer has isRunning, per process
    routingContainer,  \* per process: path -> <<controller, handler>>
    step,      \* what each consumer <<process, queue>> is doing
    held,      \* the message each consumer works on
    place,     \* "unsent", "visible", "invisible" or "deleted", per message
    home,      \* the queue each message was sent to
    body,      \* the body of each message
    completed, \* the handlers that have run to completion on each message
    boots      \* process starts so far

procVars == <<phase, deploy, running, routingContainer, boots>>
workVars == <<step, held>>
queueVars == <<place, home, body>>
vars == <<phase, deploy, running, routingContainer, step, held,
          place, home, body, completed, boots>>

Consumer == Instance \X Queue

-------------------------------------------------------------------------------
(* Routing *)

\* Mutant: the path leaves the handler out.
PathWithoutEvent(r) == r.queue \o r.controller

RoutePath(r) == r.queue \o r.controller \o r.handler

HasRoute(r) == r.queue # <<>> /\ r.controller # <<>> /\ r.handler # <<>>

\* The handlers of deployment d: <<index of the controller, index in it>>.
Slots(d) == UNION {{k} \X (1 .. Len(d.controllers[k].handlers)) :
                       k \in 1 .. Len(d.controllers)}

HandlerRoute(d, s) ==
    LET c == d.controllers[s[1]]
    IN  [queue |-> c.queue, controller |-> c.prefix, handler |-> c.handlers[s[2]]]

HandlerPath(d, s) == RoutePath(HandlerRoute(d, s))

ControllerPath(d, k) == d.controllers[k].queue \o d.controllers[k].prefix

\* The order in which onModuleInit meets the handlers.
Before(s, t) == s[1] < t[1] \/ (s[1] = t[1] /\ s[2] < t[2])

ControllerClash(d, k) ==
    \E j \in 1 .. (k - 1) : ControllerPath(d, j) = ControllerPath(d, k)

HandlerClash(d, s) ==
    \E t \in Slots(d) : Before(t, s) /\ HandlerPath(d, t) = HandlerPath(d, s)

\* Mutant: only handlers are compared with what is registered.
RegistrationForgetsControllers(d) == \E s \in Slots(d) : HandlerClash(d, s)

RegistrationThrows(d) ==
    \/ \E k \in 1 .. Len(d.controllers) : ControllerClash(d, k)
    \/ \E s \in Slots(d) : HandlerClash(d, s)

\* The handlers registered before the first clash (all of them without one).
Registered(d) ==
    {s \in Slots(d) :
        /\ \A k \in 1 .. s[1] : ~ControllerClash(d, k)
        /\ \A t \in Slots(d) : (t = s \/ Before(t, s)) => ~HandlerClash(d, t)}

RoutingTable(d) ==
    [p \in {HandlerPath(d, s) : s \in Registered(d)} |->
        CHOOSE s \in Registered(d) : HandlerPath(d, s) = p]

NoRoutes == [p \in {} |-> <<0, 0>>]

\* The text that goes to the queue: an object is given the three routing fields
\* (over its own), a string is sent as it is.
WireBody(r, p) ==
    IF p.isString THEN p.body ELSE [json |-> TRUE, route |-> r]

Texts == {WireBody(r, p) : r \in Routes, p \in Payloads}

NoBody == [json |-> FALSE,
           route |-> [queue |-> <<>>, controller |-> <<>>, handler |-> <<>>]]

-------------------------------------------------------------------------------
(* Start and stop of a process *)

Names(options) == {options[k] : k \in DOMAIN options}

HasDuplicate(options) ==
    \E j, k \in DOMAIN options : j # k /\ options[j] = options[k]

Init ==
    /\ phase = [i \in Instance |-> "down"]
    /\ \E d \in Deployments : deploy = [i \in Instance |-> d]
    /\ running = [i \in Instance |-> {}]
    /\ routingContainer = [i \in Instance |-> NoRoutes]
    /\ step = [c \in Consumer |-> "idle"]
    /\ held = [c \in Consumer |-> NoMsg]
    /\ place = [m \in Msg |-> "unsent"]
    /\ \E q \in Queue : home = [m \in Msg |-> q]
    /\ body = [m \in Msg |-> NoBody]
    /\ completed = [m \in Msg |-> {}]
    /\ boots = 0

\* SqsService.onModuleInit is synchronous: it creates every consumer and every
\* producer, then starts the consumers; SqsRouter.onModuleInit is still awaiting
\* the discovery when it is over.
SqsServiceInit(i, d) ==
    /\ phase[i] = "down"
    /\ boots < MaxBoots
    /\ boots' = boots + 1
    /\ deploy' = [deploy EXCEPT ![i] = d]
    /\ IF HasDuplicate(d.consumers) \/ HasDuplicate(d.producers)
         THEN /\ phase' = [phase EXCEPT ![i] = "failed"]
              /\ UNCHANGED <<running, step>>
         ELSE /\ phase' = [phase EXCEPT ![i] = "starting"]
              /\ running' = [running EXCEPT ![i] = Names(d.consumers)]
              /\ step' = [c \in Consumer |->
                            IF c[1] = i /\ c[2] \in Names(d.consumers)
                              THEN "polling" ELSE step[c]]
    /\ UNCHANGED <<routingContainer, held, queueVars, completed>>

\* After the await, SqsRouter.onModuleInit registers every handler in one go,
\* or throws at the first clash with what it has registered left in place.
SqsRouterInit(i) ==
    /\ phase[i] = "starting"
    /\ routingContainer' = [routingContainer EXCEPT ![i] = RoutingTable(deploy[i])]
    /\ phase' = [phase EXCEPT ![i] =
                    IF RegistrationThrows(deploy[i]) THEN "failed" ELSE "up"]
    /\ UNCHANGED <<deploy, running, boots, workVars, queueVars, completed>>

\* Mutant: the consumers are not stopped.
DestroyForgetsConsumers(i) ==
    /\ phase[i] = "up"
    /\ phase' = [phase EXCEPT ![i] = "stopping"]
    /\ UNCHANGED <<deploy, running, routingContainer, boots, workVars, queueVars, completed>>

\* onModuleDestroy: no consumer polls again; what one holds, and a poll that is
\* under way, goes on.
OnModuleDestroy(i) ==
    /\ phase[i] = "up"
    /\ phase' = [phase EXCEPT ![i] = "stopping"]
    /\ running' = [running EXCEPT ![i] = {}]
    /\ UNCHANGED <<deploy, routingContainer, boots, workVars, queueVars, completed>>

\* Mutant: the routing table outlives the process.
ExitKeepsRoutes(i) ==
    /\ phase[i] # "down"
    /\ phase' = [phase EXCEPT ![i] = "down"]
    /\ running' = [running EXCEPT ![i] = {}]
    /\ step' = [c \in Consumer |-> IF c[1] = i THEN "idle" ELSE step[c]]
    /\ held' = [c \in Consumer |-> IF c[1] = i THEN NoMsg ELSE held[c]]
    /\ UNCHANGED <<deploy, routingContainer, boots, queueVars, completed>>

\* The process ends: after a stop, after a failed start, or by a crash.
Exit(i) ==
    /\ phase[i] # "down"
    /\ phase' = [phase EXCEPT ![i] = "down"]
    /\ running' = [running EXCEPT ![i] = {}]
    /\ routingContainer' = [routingContainer EXCEPT ![i] = NoRoutes]
    /\ step' = [c \in Consumer |-> IF c[1] = i THEN "idle" ELSE step[c]]
    /\ held' = [c \in Consumer |-> IF c[1] = i THEN NoMsg ELSE held[c]]
    /\ UNCHANGED <<deploy, boots, queueVars, completed>>

-------------------------------------------------------------------------------
(* Sending *)

\* send() of one message; an array is a sequence of these.  Without a producer
\* for the queue it throws and nothing is sent.
Send(i, m, r, p) ==
    /\ phase[i] \in {"up", "stopping"}
    /\ r.queue \in Names(deploy[i].producers)
    /\ place[m] = "unsent"
    /\ place' = [place EXCEPT ![m] = "visible"]
    /\ home' = [home EXCEPT ![m] = r.queue]
    /\ body' = [body EXCEPT ![m] = WireBody(r, p)]
    /\ UNCHANGED <<procVars, workVars, completed>>

-------------------------------------------------------------------------------
(* The queue and the polling loop *)

\* A poll receives one visible message of its queue, even one that was sent to SQS
\* before the consumer was stopped.
Receive(c, m) ==
    /\ step[c] = "polling"
    /\ place[m] = "visible"
    /\ home[m] = c[2]
    /\ place' = [place EXCEPT ![m] = "invisible"]
    /\ step' = [step EXCEPT ![c] = "received"]
    /\ held' = [held EXCEPT ![c] = m]
    /\ UNCHANGED <<procVars, home, body, completed>>

\* The last poll of a stopped consumer comes back empty.
PollEnds(c) ==
    /\ step[c] = "polling"
    /\ c[2] \notin running[c[1]]
    /\ step' = [step EXCEPT ![c] = "idle"]
    /\ UNCHANGED <<procVars, held, queueVars, completed>>

\* The visibility timeout of a message that nobody deleted, whether its consumer
\* died, gave up or is still working on it.
VisibilityTimeout(m) ==
    /\ place[m] = "invisible"
    /\ place' = [place EXCEPT ![m] = "visible"]
    /\ UNCHANGED <<procVars, workVars, home, body, completed>>

-------------------------------------------------------------------------------
(* handleMessage *)

\* The consumer is done with its message, and polls again unless it was stopped.
LetGo(c) ==
    /\ step' = [step EXCEPT ![c] =
                  IF c[2] \in running[c[1]] THEN "polling" ELSE "idle"]
    /\ held' = [held EXCEPT ![c] = NoMsg]

HasHandler(i, r) == RoutePath(r) \in DOMAIN routingContainer[i]

\* Mutant: a route without a handler is skipped, and the callback resolves.
UnknownHandlerResolves(c) ==
    /\ step[c] = "received"
    /\ body[held[c]].json
    /\ HasRoute(body[held[c]].route)
    /\ ~HasHandler(c[1], body[held[c]].route)
    /\ step' = [step EXCEPT ![c] = "resolved"]
    /\ UNCHANGED <<procVars, held, queueVars, completed>>

\* JSON.parse throws, or the consumer was stopped since it received the message,
\* or the routing table has no handler (calling undefined throws): the message
\* is not acknowledged.
HandleMessageRejects(c) ==
    /\ step[c] = "received"
    /\ LET b == body[held[c]]
       IN  \/ ~b.json
           \/ /\ HasRoute(b.route)
              /\ c[2] \notin running[c[1]] \/ ~HasHandler(c[1], b.route)
    /\ LetGo(c)
    /\ UNCHANGED <<procVars, queueVars, completed>>

\* A routing field is missing: a warning, and the callback resolves.
HandleMessageDrops(c) ==
    /\ step[c] = "received"
    /\ body[held[c]].json
    /\ ~HasRoute(body[held[c]].route)
    /\ step' = [step EXCEPT ![c] = "resolved"]
    /\ UNCHANGED <<procVars, held, queueVars, completed>>

\* Mutant: isRunning is not looked at.
RoutesWhenStopped(c) ==
    /\ step[c] = "received"
    /\ body[held[c]].json
    /\ HasRoute(body[held[c]].route)
    /\ HasHandler(c[1], body[held[c]].route)
    /\ step' = [step EXCEPT ![c] = "handling"]
    /\ UNCHANGED <<procVars, held, queueVars, completed>>

HandleMessageRoutes(c) ==
    /\ step[c] = "received"
    /\ body[held[c]].json
    /\ HasRoute(body[held[c]].route)
    /\ c[2] \in running[c[1]]
    /\ HasHandler(c[1], body[held[c]].route)
    /\ step' = [step EXCEPT ![c] = "handling"]
    /\ UNCHANGED <<procVars, held, queueVars, completed>>

\* The callback of a received message, up to the handler.
HandleMessage(c) ==
    HandleMessageRejects(c) \/ HandleMessageDrops(c) \/ HandleMessageRoutes(c)

\* Mutant: the handler is looked up by its name, whichever controller has it.
HandlerOfAnyQueue(c) ==
    LET d == deploy[c[1]]
    IN  HandlerRoute(d, CHOOSE s \in Slots(d) :
            HandlerRoute(d, s).handler = body[held[c]].route.handler)

\* The handler that the consumer's process runs on the message it holds.
RunningHandler(c) ==
    HandlerRoute(deploy[c[1]],
                 routingContainer[c[1]][RoutePath(body[held[c]].route)])

\* Mutant: the consumer goes on without a word to the queue.
ResolvesWithoutAck(c) ==
    /\ step[c] = "handling"
    /\ LetGo(c)
    /\ completed' = [completed EXCEPT ![held[c]] = @ \cup {RunningHandler(c)}]
    /\ UNCHANGED <<procVars, queueVars>>

HandlerResolves(c) ==
    /\ step[c] = "handling"
    /\ step' = [step EXCEPT ![c] = "resolved"]
    /\ completed' = [completed EXCEPT ![held[c]] = @ \cup {RunningHandler(c)}]
    /\ UNCHANGED <<procVars, held, queueVars>>

HandlerRejects(c) ==
    /\ step[c] = "handling"
    /\ LetGo(c)
    /\ UNCHANGED <<procVars, queueVars, completed>>

\* The callback resolved: sqs-consumer deletes the message ...
Acknowledge(c) ==
    /\ step[c] = "resolved"
    /\ place' = [place EXCEPT ![held[c]] = "deleted"]
    /\ LetGo(c)
    /\ UNCHANGED <<procVars, home, body, completed>>

\* ... or the call fails and the message comes back.
AcknowledgeFails(c) ==
    /\ step[c] = "resolved"
    /\ LetGo(c)
    /\ UNCHANGED <<procVars, queueVars, completed>>

-------------------------------------------------------------------------------
Next ==
    \/ \E i \in Instance :
          \/ \E d \in Deployments : SqsServiceInit(i, d)
          \/ SqsRouterInit(i)
          \/ OnModuleDestroy(i)
          \/ Exit(i)
          \/ \E m \in Msg, r \in Routes, p \in Payloads : Send(i, m, r, p)
    \/ \E m \in Msg : VisibilityTimeout(m)
    \/ \E c \in Consumer :
          \/ \E m \in Msg : Receive(c, m)
          \/ PollEnds(c)
          \/ HandleMessage(c)
          \/ HandlerResolves(c)
          \/ HandlerRejects(c)
          \/ Acknowledge(c)
          \/ AcknowledgeFails(c)

Spec == Init /\ [][Next]_vars

\* The event loop runs what is ready; a queue that keeps offering a message to a
\* polling consumer delivers it; a handler, and a delete, that is tried again and
\* again succeeds in the end.  Nothing obliges a process to start, stop or end,
\* or a caller to send.
Fairness ==
    /\ \A i \in Instance : WF_vars(SqsRouterInit(i))
    /\ \A m \in Msg : WF_vars(VisibilityTimeout(m))
    /\ \A c \in Consumer :
          /\ \A m \in Msg : SF_vars(Receive(c, m))
          /\ WF_vars(PollEnds(c) \/ HandleMessage(c))
          /\ SF_vars(HandlerResolves(c))
          /\ SF_vars(Acknowledge(c))

FairSpec == Spec /\ Fairness

-------------------------------------------------------------------------------
(* Properties *)

\* Every variable stays in its set of values.
TypeOK ==
    /\ phase \in [Instance -> {"down", "starting", "up", "failed", "stopping"}]
    /\ deploy \in [Instance -> Deployments]
    /\ running \in [Instance -> SUBSET Queue]
    /\ \A i \in Instance :
          routingContainer[i] \in {NoRoutes, RoutingTable(deploy[i])}
    /\ DOMAIN routingContainer = Instance
    /\ step \in [Consumer -> {"idle", "polling", "received", "handling", "resolved"}]
    /\ held \in [Consumer -> Msg \cup {NoMsg}]
    /\ place \in [Msg -> {"unsent", "visible", "invisible", "deleted"}]
    /\ home \in [Msg -> Queue]
    /\ body \in [Msg -> Body]
    /\ completed \in [Msg -> SUBSET Route]
    /\ boots \in 0 .. MaxBoots

\* What the code relies on between steps.  A process that is down or still
\* starting has no routes, and one that is down runs no consumer; a running consumer
\* is busy; one past its poll holds a message of the queue; one that runs a handler found it in the table of its process; one whose
\* callback resolved could read the message.  An unsent message has no content.
Custody ==
    /\ \A i \in Instance :
          /\ phase[i] \in {"down", "starting"} => routingContainer[i] = NoRoutes
          /\ phase[i] = "down" => running[i] = {}
    /\ \A c \in Consumer :
          /\ c[2] \in running[c[1]] => step[c] # "idle"
          /\ phase[c[1]] = "down" => step[c] = "idle"
          /\ step[c] \in {"idle", "polling"} <=> held[c] = NoMsg
          /\ held[c] # NoMsg => place[held[c]] # "unsent"
          /\ step[c] = "handling" =>
                /\ body[held[c]].json
                /\ HasRoute(body[held[c]].route)
                /\ HasHandler(c[1], body[held[c]].route)
          /\ step[c] = "resolved" => body[held[c]].json
    /\ \A m \in Msg :
          IF place[m] = "unsent" THEN body[m] = NoBody /\ completed[m] = {}
                                 ELSE body[m] \in Texts

\* A consumer about to acknowledge a routed message has seen its handler complete.
ResolvedWasHandled ==
    \A c \in Consumer :
        step[c] = "resolved" /\ HasRoute(body[held[c]].route) =>
            body[held[c]].route \in completed[held[c]]

\* A message is deleted only if it could be read, and, when it carries a whole
\* route, only after the handler that the route names has run to completion on
\* it: crashes, stops, failed deletes, redeliveries to another process and
\* processes of a version without the handler lose nothing.
DeletedWasHandled ==
    \A m \in Msg :
        place[m] = "deleted" =>
            /\ body[m].json
            /\ HasRoute(body[m].route) => body[m].route \in completed[m]

\* No handler other than the one a message names ever completes on it, whichever
\* version of the application, and whichever state of its start, took it.
OnlyTheNamedHandler ==
    \A m \in Msg : completed[m] \subseteq {body[m].route}

\* A process that is up serves every handler its controllers declare, each under
\* its own path: no registration was overwritten or skipped.
UpServesEveryHandler ==
    \A i \in Instance :
        phase[i] = "up" =>
            \A s \in Slots(deploy[i]) :
                /\ HandlerPath(deploy[i], s) \in DOMAIN routingContainer[i]
                /\ routingContainer[i][HandlerPath(deploy[i], s)] = s

\* Process i can handle message m: it is up, consumes m's queue and knows the
\* handler.
Serves(i, m) ==
    /\ phase[i] = "up"
    /\ place[m] # "unsent"
    /\ home[m] \in running[i]
    /\ body[m].json
    /\ HasRoute(body[m].route)
    /\ HasHandler(i, body[m].route)

\* From some moment on, some process polls the message's queue, and none polls
\* it that does not know the handler.
Servable(m) ==
    /\ \E i \in Instance : Serves(i, m)
    /\ \A i \in Instance : home[m] \in running[i] => Serves(i, m)

\* A message that the polling processes can handle from some moment on is handled
\* and deleted, whatever crashed or failed before, and even if messages that
\* nobody can handle keep taking their turns on the same consumers.  (While a
\* version without the handler also polls the queue this is not certain: that
\* version may be the one that takes the message each time it is visible.)
ServedIsDeleted ==
    \A m \in Msg : <>[]Servable(m) => <>(place[m] = "deleted")

\* After a stop, a process that is left alone finishes what it was handling and
\* takes nothing more: in the end its consumers are idle for good.
StopDrains ==
    \A i \in Instance :
        <>[](phase[i] = "stopping") =>
            <>[](\A q \in Queue : step[<<i, q>>] = "idle")

\* A stopped consumer runs no handler on a message that it receives, or has only
\* received, when the stop comes, and an idle one does not poll again.
NothingStartsAfterStop ==
    [][\A c \in Consumer :
          c[2] \notin running[c[1]] /\ c[2] \notin running'[c[1]] =>
              /\ step'[c] = "handling" => step[c] = "handling"
              /\ step[c] = "idle" => step'[c] = "idle"]_vars

-------------------------------------------------------------------------------
(* Refinement *)

\* The component keeps the promise of AtLeastOnce: a message in the queue, seen
\* or not by a consumer, is pending.
Promise == INSTANCE AtLeastOnce WITH
    Text <- Texts,
    NoText <- NoBody,
    Readable <- {t \in Texts : t.json},
    Addressed <- {t \in Texts : t.json /\ HasRoute(t.route)},
    HandlerOf <- [t \in Texts |-> t.route],
    state <- [m \in Msg |-> CASE place[m] = "unsent" -> "new"
                              [] place[m] = "deleted" -> "gone"
                              [] OTHER -> "pending"],
    text <- body

KeepsPromise == Promise!AbstractSpec
================================================================================
