-------------------------- MODULE SqsMessagingProofs --------------------------
(***************************************************************************)
(* Proofs about SqsMessaging for every set of processes, messages,         *)
(* queues, versions, routes and payloads.                                  *)
(***************************************************************************)
EXTENDS SqsMessaging, SequenceTheorems, TLAPS

-------------------------------------------------------------------------------
(* Routing *)

\* A whole route made of names without '/'.
Plain(r) == Len(r.queue) = 1 /\ Len(r.controller) = 1 /\ Len(r.handler) = 1

\* Under the path of a message no handler can be registered but the one it names.
PathsTell ==
    \A d \in Deployments : \A s \in Slots(d) : \A t \in Texts :
        t.json /\ HasRoute(t.route) /\ HandlerPath(d, s) = RoutePath(t.route) =>
            HandlerRoute(d, s) = t.route

\* No name in a decorator, and none in a route a message carries, has a '/'.
PlainNames ==
    /\ \A d \in Deployments : \A s \in Slots(d) : Plain(HandlerRoute(d, s))
    /\ \A t \in Texts : t.json /\ HasRoute(t.route) => Plain(t.route)

\* Joining a sequence with one more element.
LEMMA JoinOne ==
    ASSUME NEW S, NEW a \in Seq(S), NEW b \in Seq(S), Len(b) = 1
    PROVE  /\ a \o b \in Seq(S)
           /\ Len(a \o b) = Len(a) + 1
           /\ \A i \in 1 .. Len(a) : (a \o b)[i] = a[i]
           /\ (a \o b)[Len(a) + 1] = b[1]
<1>. DEFINE ab == a \o b
            la == Len(a)
            lb == Len(b)
<1>1. la \in Nat /\ lb = 1
  OBVIOUS
<1>2. /\ ab \in Seq(S) /\ Len(ab) = la + lb
      /\ \A i \in 1 .. (la + lb) : ab[i] = IF i <= la THEN a[i] ELSE b[i - la]
  BY ConcatProperties, Zenon
<1>. HIDE DEF ab, la, lb
<1>3. \A i \in 1 .. la : ab[i] = a[i]
  BY <1>1, <1>2
<1>4. ab[la + 1] = b[1]
  <2>1. \A i \in 1 .. (la + lb) : ~(i <= la) => ab[i] = b[i - la]
    BY <1>2, Zenon
  <2>2. la + 1 \in 1 .. (la + lb) /\ ~(la + 1 <= la) /\ la + 1 - la = 1
    BY <1>1
  <2>3. ab[la + 1] = b[la + 1 - la]
    BY <1>1, <2>1, <2>2
  <2>. QED BY <2>2, <2>3
<1>. QED BY <1>1, <1>2, <1>3, <1>4 DEF ab, la, lb

\* The elements of three joined one-element sequences.
LEMMA JoinOfThree ==
    ASSUME NEW S, NEW a \in Seq(S), NEW b \in Seq(S), NEW c \in Seq(S),
           Len(a) = 1, Len(b) = 1, Len(c) = 1
    PROVE  /\ (a \o b \o c)[1] = a[1]
           /\ (a \o b \o c)[2] = b[1]
           /\ (a \o b \o c)[3] = c[1]
<1>. DEFINE ab == a \o b
            abc == ab \o c
<1>1. /\ ab \in Seq(S) /\ Len(ab) = Len(a) + 1
      /\ \A i \in 1 .. Len(a) : ab[i] = a[i]
      /\ ab[Len(a) + 1] = b[1]
  BY JoinOne, Zenon
<1>. HIDE DEF ab
<1>2. ab \in Seq(S)
  BY <1>1
<1>3. /\ \A i \in 1 .. Len(ab) : abc[i] = ab[i]
      /\ abc[Len(ab) + 1] = c[1]
  BY <1>2, JoinOne, Zenon
<1>. HIDE DEF abc
<1>4. /\ Len(a) + 1 = 2 /\ Len(ab) = 2 /\ Len(ab) + 1 = 3
      /\ 1 \in 1 .. Len(a) /\ 1 \in 1 .. Len(ab) /\ 2 \in 1 .. Len(ab)
  BY <1>1
<1>5. abc[1] = ab[1] /\ abc[2] = ab[2] /\ abc[3] = c[1] /\ ab[1] = a[1] /\ ab[2] = b[1]
  BY <1>1, <1>3, <1>4, Zenon
<1>. QED BY <1>5 DEF ab, abc

\* The elements of the path of a route of plain names.
LEMMA PathElements ==
    ASSUME NEW r \in Route, Plain(r)
    PROVE  /\ RoutePath(r)[1] = r.queue[1]
           /\ RoutePath(r)[2] = r.controller[1]
           /\ RoutePath(r)[3] = r.handler[1]
<1>. DEFINE q == r.queue
            c == r.controller
            h == r.handler
<1>1. q \in Seq(Segment) /\ c \in Seq(Segment) /\ h \in Seq(Segment)
  BY DEF Route, NameOrEmpty
<1>2. Len(q) = 1 /\ Len(c) = 1 /\ Len(h) = 1
  BY DEF Plain
<1>3. RoutePath(r) = q \o c \o h
  BY DEF RoutePath
<1>. HIDE DEF q, c, h
<1>4. /\ (q \o c \o h)[1] = q[1] /\ (q \o c \o h)[2] = c[1]
      /\ (q \o c \o h)[3] = h[1]
  BY <1>1, <1>2, JoinOfThree, Z3
<1>. QED BY <1>3, <1>4 DEF q, c, h

\* Joining three names without '/' loses nothing (sqs.router.ts:56 and :81).
LEMMA PathIsInjective ==
    ASSUME NEW r \in Route, NEW t \in Route, Plain(r), Plain(t),
           RoutePath(r) = RoutePath(t)
    PROVE  r = t
<1>1. /\ r.queue \in Seq(Segment) /\ r.controller \in Seq(Segment)
      /\ r.handler \in Seq(Segment)
      /\ t.queue \in Seq(Segment) /\ t.controller \in Seq(Segment)
      /\ t.handler \in Seq(Segment)
  BY DEF Route, NameOrEmpty
<1>2. /\ r.queue[1] = t.queue[1] /\ r.controller[1] = t.controller[1]
      /\ r.handler[1] = t.handler[1]
  BY PathElements
<1>3. \A a, b \in Seq(Segment) : Len(a) = 1 /\ Len(b) = 1 /\ a[1] = b[1] => a = b
  BY SeqEqual
<1>4. /\ r.queue = t.queue /\ r.controller = t.controller /\ r.handler = t.handler
  BY <1>1, <1>2, <1>3 DEF Plain
<1>. QED BY <1>4 DEF Route

\* A slot of a deployment is a handler with a whole route.
LEMMA SlotRoute ==
    ASSUME NEW d \in Deployments, NEW s \in Slots(d)
    PROVE  HandlerRoute(d, s) \in Route
<1>1. d \in Deployment
  BY ConstantsAssumption
<1>2. PICK k \in 1 .. Len(d.controllers) :
        s \in {k} \X (1 .. Len(d.controllers[k].handlers))
  BY DEF Slots
<1>3. /\ s[1] = k /\ s[2] \in 1 .. Len(d.controllers[k].handlers)
  BY <1>2
<1>4. d.controllers[k] \in Controller
  BY <1>1 DEF Deployment
<1>5. d.controllers[k].handlers[s[2]] \in Name
  BY <1>3, <1>4 DEF Controller
<1>. QED BY <1>3, <1>4, <1>5 DEF HandlerRoute, Route, Controller, Name

\* A path of the routing table leads to a handler whose path it is.
LEMMA Lookup ==
    ASSUME NEW d, NEW p \in DOMAIN RoutingTable(d)
    PROVE  /\ RoutingTable(d)[p] \in Slots(d)
           /\ HandlerPath(d, RoutingTable(d)[p]) = p
<1>1. \E s \in Registered(d) : HandlerPath(d, s) = p
  BY DEF RoutingTable
<1>2. RoutingTable(d)[p] = CHOOSE s \in Registered(d) : HandlerPath(d, s) = p
  BY DEF RoutingTable
<1>3. /\ RoutingTable(d)[p] \in Registered(d)
      /\ HandlerPath(d, RoutingTable(d)[p]) = p
  BY <1>1, <1>2
<1>. QED BY <1>3 DEF Registered

\* What goes to the queue is a body.
LEMMA TextsAreBodies == Texts \subseteq Body /\ NoBody \in Body
<1>1. ASSUME NEW r \in Routes, NEW p \in Payloads PROVE WireBody(r, p) \in Body
  <2>1. r \in Route /\ p \in [isString : BOOLEAN, body : Body]
    BY ConstantsAssumption
  <2>. QED BY <2>1 DEF WireBody, Body
<1>2. NoBody \in Body
  <2>1. <<>> \in NameOrEmpty
    BY DEF NameOrEmpty
  <2>. QED BY <2>1 DEF NoBody, Body, Route
<1>. QED BY <1>1, <1>2 DEF Texts

-------------------------------------------------------------------------------
(* Types and custody *)

TypeAndCustody == TypeOK /\ Custody

LEMMA InitTypeAndCustody == Init => TypeAndCustody
<1>. SUFFICES ASSUME Init PROVE TypeOK /\ Custody
  BY DEF TypeAndCustody
<1>1. TypeOK
  BY ConstantsAssumption, TextsAreBodies DEF Init, TypeOK
<1>2. Custody
  <2>1. \A c \in Consumer : c[1] \in Instance /\ c[2] \in Queue
    BY DEF Consumer
  <2>. QED BY <2>1, ConstantsAssumption DEF Init, Custody
<1>. QED BY <1>1, <1>2

\* The handler that a consumer runs is a handler of its process, reached by the
\* path of the message.
LEMMA RunningHandlerFits ==
    ASSUME TypeAndCustody, NEW c \in Consumer, step[c] = "handling"
    PROVE  /\ RunningHandler(c) \in Route
           /\ RoutePath(RunningHandler(c)) = RoutePath(body[held[c]].route)
           /\ \E s \in Slots(deploy[c[1]]) :
                 RunningHandler(c) = HandlerRoute(deploy[c[1]], s)
<1>. DEFINE i == c[1]
            p == RoutePath(body[held[c]].route)
            s == routingContainer[i][p]
<1>1. i \in Instance /\ deploy[i] \in Deployments
  BY DEF Consumer, TypeAndCustody, TypeOK
<1>2. p \in DOMAIN routingContainer[i]
  BY DEF TypeAndCustody, Custody, HasHandler
<1>3. routingContainer[i] = RoutingTable(deploy[i])
  BY <1>1, <1>2 DEF TypeAndCustody, TypeOK, NoRoutes
<1>4. s \in Slots(deploy[i]) /\ HandlerPath(deploy[i], s) = p
  BY <1>2, <1>3, Lookup
<1>5. RunningHandler(c) = HandlerRoute(deploy[i], s)
  BY DEF RunningHandler
<1>. QED BY <1>1, <1>4, <1>5, SlotRoute DEF HandlerPath

\* Without '/' in names paths tell handlers apart.
LEMMA PlainNamesTell == PlainNames => PathsTell
<1>. SUFFICES ASSUME PlainNames, NEW d \in Deployments, NEW s \in Slots(d), NEW t \in Texts,
                     t.json, HasRoute(t.route), HandlerPath(d, s) = RoutePath(t.route)
              PROVE  HandlerRoute(d, s) = t.route
  BY DEF PathsTell
<1>1. Plain(HandlerRoute(d, s)) /\ Plain(t.route)
  BY DEF PlainNames
<1>2. HandlerRoute(d, s) \in Route
  BY SlotRoute
<1>3. PICK r \in Routes, p \in Payloads : t = WireBody(r, p)
  BY DEF Texts
<1>4. t.route \in Route
  <2>1. p.body \in Body /\ r \in Route
    BY ConstantsAssumption
  <2>2. p.body.route \in Route
    BY <2>1 DEF Body
  <2>. QED BY <1>3, <2>1, <2>2 DEF WireBody
<1>. QED BY <1>1, <1>2, <1>4, PathIsInjective DEF HandlerPath

\* One lemma per part of the system: the steps of a process, ...
LEMMA ProcessStep ==
    ASSUME TypeAndCustody, NEW i \in Instance,
           \/ \E d \in Deployments : SqsServiceInit(i, d)
           \/ SqsRouterInit(i)
           \/ OnModuleDestroy(i)
           \/ Exit(i)
    PROVE  TypeAndCustody'
<1>. USE DEF workVars, queueVars
<1>1. CASE \E d \in Deployments : SqsServiceInit(i, d)
  <2>. PICK d \in Deployments : SqsServiceInit(i, d)
    BY <1>1
  <2>1. Names(d.consumers) \subseteq Queue
    <3>1. d.consumers \in Seq(Queue)
      BY ConstantsAssumption DEF Deployment
    <3>. QED BY <3>1 DEF Names
  <2>2. phase[i] = "down" /\ routingContainer[i] = NoRoutes
    BY DEF SqsServiceInit, TypeAndCustody, Custody
  <2>3. TypeOK'
    BY <2>1, <2>2, ConstantsAssumption DEF SqsServiceInit, TypeAndCustody, TypeOK
  <2>4. \A c \in Consumer : c[1] \in Instance /\ c[2] \in Queue
    BY DEF Consumer
  <2>5. phase' = [phase EXCEPT ![i] = "failed"] \/ phase' = [phase EXCEPT ![i] = "starting"]
    BY DEF SqsServiceInit
  <2>6. \A j \in Instance :
          /\ phase'[j] \in {"down", "starting"} => routingContainer'[j] = NoRoutes
          /\ phase'[j] = "down" => running'[j] = {}
    BY <2>2, <2>5 DEF SqsServiceInit, TypeAndCustody, TypeOK, Custody
  <2>7. ASSUME NEW c \in Consumer
        PROVE  /\ c[2] \in running'[c[1]] => step'[c] # "idle"
               /\ phase'[c[1]] = "down" => step'[c] = "idle"
               /\ step'[c] \in {"idle", "polling"} <=> held'[c] = NoMsg
               /\ step'[c] \in {"handling", "resolved"} => step'[c] = step[c]
    BY <2>2, <2>4 DEF SqsServiceInit, TypeAndCustody, TypeOK, Custody
  <2>8. Custody'
    BY <2>2, <2>6, <2>7 DEF SqsServiceInit, TypeAndCustody, TypeOK, Custody, HasHandler
  <2>. QED BY <2>3, <2>8 DEF TypeAndCustody
<1>2. CASE SqsRouterInit(i)
  <2>1. routingContainer[i] = NoRoutes
    BY <1>2 DEF SqsRouterInit, TypeAndCustody, Custody
  <2>2. TypeOK'
    BY <1>2 DEF SqsRouterInit, TypeAndCustody, TypeOK
  <2>3. \A c \in Consumer : step[c] = "handling" => c[1] # i
    BY <2>1 DEF TypeAndCustody, Custody, HasHandler, NoRoutes
  <2>4. Custody'
    BY <1>2, <2>3 DEF SqsRouterInit, TypeAndCustody, TypeOK, Custody, HasHandler
  <2>. QED BY <2>2, <2>4 DEF TypeAndCustody
<1>3. CASE OnModuleDestroy(i)
  BY <1>3 DEF OnModuleDestroy, TypeAndCustody, TypeOK, Custody, HasHandler
<1>4. CASE Exit(i)
  <2>1. TypeOK'
    BY <1>4 DEF Exit, TypeAndCustody, TypeOK
  <2>2. Custody'
    BY <1>4 DEF Exit, TypeAndCustody, TypeOK, Custody, HasHandler
  <2>. QED BY <2>1, <2>2 DEF TypeAndCustody
<1>. QED BY <1>1, <1>2, <1>3, <1>4

\* ... sending, the queue and the poll, ...
LEMMA QueueStep ==
    ASSUME TypeAndCustody, NEW m \in Msg,
           \/ \E i \in Instance, r \in Routes, p \in Payloads : Send(i, m, r, p)
           \/ VisibilityTimeout(m)
           \/ \E c \in Consumer : Receive(c, m)
    PROVE  TypeAndCustody'
<1>. USE DEF procVars, workVars
<1>1. CASE \E i \in Instance, r \in Routes, p \in Payloads : Send(i, m, r, p)
  <2>. PICK i \in Instance, r \in Routes, p \in Payloads : Send(i, m, r, p)
    BY <1>1
  <2>1. WireBody(r, p) \in Texts /\ WireBody(r, p) \in Body
    BY TextsAreBodies DEF Texts
  <2>2. r.queue \in Queue
    <3>1. deploy[i].producers \in Seq(Queue)
      BY ConstantsAssumption DEF TypeAndCustody, TypeOK, Deployment
    <3>. QED BY <3>1 DEF Send, Names
  <2>3. TypeOK'
    BY <2>1, <2>2 DEF Send, TypeAndCustody, TypeOK
  <2>4. \A c \in Consumer : held[c] # m
    BY ConstantsAssumption DEF Send, TypeAndCustody, TypeOK, Custody
  <2>5. Custody'
    BY <2>1, <2>4 DEF Send, TypeAndCustody, TypeOK, Custody, HasHandler
  <2>. QED BY <2>3, <2>5 DEF TypeAndCustody
<1>2. CASE VisibilityTimeout(m)
  BY <1>2 DEF VisibilityTimeout, TypeAndCustody, TypeOK, Custody, HasHandler
<1>3. CASE \E c \in Consumer : Receive(c, m)
  BY <1>3, ConstantsAssumption
     DEF Receive, TypeAndCustody, TypeOK, Custody, HasHandler
<1>. QED BY <1>1, <1>2, <1>3

\* ... and the callback of a consumer.
LEMMA CallbackStep ==
    ASSUME TypeAndCustody, NEW c \in Consumer,
           \/ PollEnds(c)
           \/ HandleMessageRejects(c)
           \/ HandleMessageDrops(c)
           \/ HandleMessageRoutes(c)
           \/ HandlerResolves(c)
           \/ HandlerRejects(c)
           \/ Acknowledge(c)
           \/ AcknowledgeFails(c)
    PROVE  TypeAndCustody'
<1>. USE DEF procVars, queueVars, LetGo
<1>1. CASE HandleMessageRejects(c)
  BY <1>1 DEF HandleMessageRejects, TypeAndCustody, TypeOK, Custody, HasHandler
<1>2. CASE HandleMessageDrops(c)
  BY <1>2 DEF HandleMessageDrops, TypeAndCustody, TypeOK, Custody, HasHandler
<1>3. CASE HandleMessageRoutes(c)
  BY <1>3 DEF HandleMessageRoutes, TypeAndCustody, TypeOK, Custody, HasHandler
<1>4. CASE HandlerResolves(c)
  <2>1. RunningHandler(c) \in Route /\ held[c] \in Msg
    BY <1>4, RunningHandlerFits
       DEF HandlerResolves, TypeAndCustody, TypeOK, Custody
  <2>2. TypeOK'
    BY <1>4, <2>1 DEF HandlerResolves, TypeAndCustody, TypeOK
  <2>3. Custody'
    BY <1>4, <2>1 DEF HandlerResolves, TypeAndCustody, TypeOK, Custody, HasHandler
  <2>. QED BY <2>2, <2>3 DEF TypeAndCustody
<1>5. CASE HandlerRejects(c)
  BY <1>5 DEF HandlerRejects, TypeAndCustody, TypeOK, Custody, HasHandler
<1>6. CASE Acknowledge(c)
  BY <1>6 DEF Acknowledge, TypeAndCustody, TypeOK, Custody, HasHandler
<1>7. CASE AcknowledgeFails(c)
  BY <1>7 DEF AcknowledgeFails, TypeAndCustody, TypeOK, Custody, HasHandler
<1>8. CASE PollEnds(c)
  BY <1>8, ConstantsAssumption
     DEF PollEnds, TypeAndCustody, TypeOK, Custody, HasHandler
<1>. QED BY <1>1, <1>2, <1>3, <1>4, <1>5, <1>6, <1>7, <1>8

LEMMA StutterStep ==
    ASSUME TypeAndCustody, UNCHANGED vars
    PROVE  TypeAndCustody'
BY DEF vars, TypeAndCustody, TypeOK, Custody, HasHandler

LEMMA NextTypeAndCustody == TypeAndCustody /\ [Next]_vars => TypeAndCustody'
<1>. SUFFICES ASSUME TypeAndCustody, [Next]_vars PROVE TypeAndCustody'
  OBVIOUS
<1>1. CASE Next
  <2>1. \/ \E i \in Instance :
             \/ \E d \in Deployments : SqsServiceInit(i, d)
             \/ SqsRouterInit(i)
             \/ OnModuleDestroy(i)
             \/ Exit(i)
        \/ \E m \in Msg :
             \/ \E i \in Instance, r \in Routes, p \in Payloads : Send(i, m, r, p)
             \/ VisibilityTimeout(m)
             \/ \E c \in Consumer : Receive(c, m)
        \/ \E c \in Consumer :
             \/ PollEnds(c)
             \/ HandleMessageRejects(c)
             \/ HandleMessageDrops(c)
             \/ HandleMessageRoutes(c)
             \/ HandlerResolves(c)
             \/ HandlerRejects(c)
             \/ Acknowledge(c)
             \/ AcknowledgeFails(c)
    BY <1>1 DEF Next, HandleMessage
  <2>. QED BY <2>1, ProcessStep, QueueStep, CallbackStep, Zenon
<1>2. CASE UNCHANGED vars
  BY <1>2, StutterStep
<1>. QED BY <1>1, <1>2

\* The variables keep their types, and the bookkeeping between steps holds: in
\* particular a handler only ever runs from the routing table of its process.
THEOREM TypeAndCustodyHold == Spec => [](TypeOK /\ Custody)
<1>. USE DEF TypeAndCustody
<1>1. Init => TypeAndCustody
  BY InitTypeAndCustody
<1>2. TypeAndCustody /\ [Next]_vars => TypeAndCustody'
  BY NextTypeAndCustody
<1>. QED BY <1>1, <1>2, PTL DEF Spec

-------------------------------------------------------------------------------
(* Start and stop *)

\* Two handlers of one deployment are met one before the other.
LEMMA SlotsAreOrdered ==
    ASSUME NEW d \in Deployments, NEW s \in Slots(d), NEW t \in Slots(d)
    PROVE  s = t \/ Before(s, t) \/ Before(t, s)
<1>1. ASSUME NEW u \in Slots(d) PROVE u = <<u[1], u[2]>> /\ u[1] \in Int /\ u[2] \in Int
  <2>. PICK k \in 1 .. Len(d.controllers) :
          u \in {k} \X (1 .. Len(d.controllers[k].handlers))
    BY DEF Slots
  <2>. QED OBVIOUS
<1>2. /\ s = <<s[1], s[2]>> /\ s[1] \in Int /\ s[2] \in Int
      /\ t = <<t[1], t[2]>> /\ t[1] \in Int /\ t[2] \in Int
  BY <1>1
<1>3. s[1] = t[1] /\ s[2] = t[2] => s = t
  BY <1>2
<1>. QED BY <1>2, <1>3 DEF Before

\* A registration that does not throw leaves every handler under its own path.
LEMMA FullTable ==
    ASSUME NEW d \in Deployments, ~RegistrationThrows(d), NEW s \in Slots(d)
    PROVE  /\ HandlerPath(d, s) \in DOMAIN RoutingTable(d)
           /\ RoutingTable(d)[HandlerPath(d, s)] = s
<1>. DEFINE p == HandlerPath(d, s)
<1>1. PICK k \in 1 .. Len(d.controllers) :
          s \in {k} \X (1 .. Len(d.controllers[k].handlers))
  BY DEF Slots
<1>2. \A j \in 1 .. s[1] : ~ControllerClash(d, j)
  <2>1. Len(d.controllers) \in Nat
    BY ConstantsAssumption DEF Deployment
  <2>2. s[1] = k
    BY <1>1
  <2>. QED BY <2>1, <2>2 DEF RegistrationThrows
<1>3. s \in Registered(d)
  BY <1>2 DEF RegistrationThrows, Registered
<1>4. p \in DOMAIN RoutingTable(d)
  BY <1>3 DEF RoutingTable
<1>5. PICK t \in Slots(d) : t = RoutingTable(d)[p] /\ HandlerPath(d, t) = p
  BY <1>4, Lookup
<1>6. ~HandlerClash(d, s) /\ ~HandlerClash(d, t)
  BY DEF RegistrationThrows
<1>7. t = s
  BY <1>5, <1>6, SlotsAreOrdered DEF HandlerClash
<1>. QED BY <1>4, <1>5, <1>7

\* A process that got past its start has the whole table of its deployment.
Registration ==
    \A i \in Instance :
        phase[i] \in {"up", "stopping"} =>
            /\ ~RegistrationThrows(deploy[i])
            /\ routingContainer[i] = RoutingTable(deploy[i])

LEMMA NextRegistration == TypeAndCustody /\ Registration /\ [Next]_vars => Registration'
<1>. SUFFICES ASSUME TypeAndCustody, Registration, [Next]_vars
              PROVE  Registration'
  OBVIOUS
<1>1. ASSUME NEW i \in Instance, NEW d \in Deployments, SqsServiceInit(i, d)
      PROVE  Registration'
  BY <1>1 DEF SqsServiceInit, Registration, TypeAndCustody, TypeOK
<1>2. ASSUME NEW i \in Instance, SqsRouterInit(i) PROVE Registration'
  BY <1>2 DEF SqsRouterInit, Registration, TypeAndCustody, TypeOK
<1>3. ASSUME NEW i \in Instance, OnModuleDestroy(i) PROVE Registration'
  BY <1>3 DEF OnModuleDestroy, Registration, TypeAndCustody, TypeOK
<1>4. ASSUME NEW i \in Instance, Exit(i) PROVE Registration'
  BY <1>4 DEF Exit, Registration, TypeAndCustody, TypeOK
<1>5. CASE UNCHANGED procVars
  BY <1>5 DEF procVars, Registration
<1>6. CASE UNCHANGED vars
  BY <1>6 DEF vars, Registration
<1>. QED
  BY <1>1, <1>2, <1>3, <1>4, <1>5, <1>6
     DEF Next, Send, VisibilityTimeout, Receive, PollEnds, HandleMessage,
         HandleMessageRejects, HandleMessageDrops, HandleMessageRoutes,
         HandlerResolves, HandlerRejects, Acknowledge, AcknowledgeFails

\* A process that is up serves every handler that its controllers declare, for
\* any deployment: a clash of paths never goes unnoticed (sqs.router.ts:42, :58).
THEOREM UpServesEveryHandlerHolds == Spec => []UpServesEveryHandler
<1>1. Init => Registration
  BY DEF Init, Registration
<1>2. TypeAndCustody /\ Registration /\ [Next]_vars => Registration'
  BY NextRegistration
<1>3. Spec => []TypeAndCustody
  BY TypeAndCustodyHold DEF TypeAndCustody
<1>4. TypeAndCustody /\ Registration => UpServesEveryHandler
  <2>1. TypeAndCustody => \A i \in Instance : deploy[i] \in Deployments
    BY DEF TypeAndCustody, TypeOK
  <2>. QED BY <2>1, FullTable, Zenon DEF Registration, UpServesEveryHandler
<1>. QED BY <1>1, <1>2, <1>3, <1>4, PTL DEF Spec

\* A stopped consumer runs no handler on what it received before, or receives
\* with its last poll, and polls no more (sqs.service.ts:53).
THEOREM NothingStartsAfterStopHolds == Spec => NothingStartsAfterStop
<1>. DEFINE Quiet(c) ==
        c[2] \notin running[c[1]] /\ c[2] \notin running'[c[1]] =>
            /\ step'[c] = "handling" => step[c] = "handling"
            /\ step[c] = "idle" => step'[c] = "idle"
<1>1. ASSUME TypeAndCustody, [Next]_vars, NEW c \in Consumer PROVE Quiet(c)
  <2>0. c[1] \in Instance /\ c[2] \in Queue
    BY DEF Consumer
  <2>. USE <1>1, <2>0 DEF TypeAndCustody, TypeOK
  <2>1. ASSUME NEW i \in Instance, NEW d \in Deployments, SqsServiceInit(i, d)
        PROVE  Quiet(c)
    <3>1. CASE UNCHANGED step
      BY <3>1
    <3>2. CASE /\ running' = [running EXCEPT ![i] = Names(d.consumers)]
               /\ step'[c] = IF c[1] = i /\ c[2] \in Names(d.consumers)
                               THEN "polling" ELSE step[c]
      BY <3>2
    <3>. QED BY <2>1, <3>1, <3>2 DEF SqsServiceInit
  <2>2. ASSUME NEW i \in Instance, SqsRouterInit(i) PROVE Quiet(c)
    BY <2>2 DEF SqsRouterInit, workVars
  <2>3. ASSUME NEW i \in Instance, OnModuleDestroy(i) PROVE Quiet(c)
    BY <2>3 DEF OnModuleDestroy, workVars
  <2>4. ASSUME NEW i \in Instance, Exit(i) PROVE Quiet(c)
    BY <2>4 DEF Exit
  <2>5. CASE UNCHANGED workVars
    BY <2>5 DEF workVars
  <2>6. ASSUME NEW b \in Consumer, NEW m \in Msg, Receive(b, m) PROVE Quiet(c)
    BY <2>6 DEF Receive
  <2>7. ASSUME NEW b \in Consumer, PollEnds(b) PROVE Quiet(c)
    BY <2>7 DEF PollEnds
  <2>8. ASSUME NEW b \in Consumer, HandleMessage(b) PROVE Quiet(c)
    <3>1. UNCHANGED running
      BY <2>8 DEF HandleMessage, HandleMessageRejects, HandleMessageDrops,
         HandleMessageRoutes, procVars
    <3>2. CASE HandleMessageRejects(b)
      BY <3>1, <3>2 DEF HandleMessageRejects, LetGo
    <3>3. CASE HandleMessageDrops(b)
      BY <3>1, <3>3 DEF HandleMessageDrops
    <3>4. CASE HandleMessageRoutes(b)
      BY <3>1, <3>4 DEF HandleMessageRoutes
    <3>. QED BY <2>8, <3>2, <3>3, <3>4 DEF HandleMessage
  <2>9. ASSUME NEW b \in Consumer,
               \/ HandlerResolves(b)
               \/ HandlerRejects(b)
               \/ Acknowledge(b)
               \/ AcknowledgeFails(b)
        PROVE  Quiet(c)
    <3>1. UNCHANGED running
      BY <2>9 DEF HandlerResolves, HandlerRejects, Acknowledge, AcknowledgeFails, procVars
    <3>2. CASE HandlerResolves(b)
      BY <3>1, <3>2 DEF HandlerResolves
    <3>3. CASE LetGo(b) /\ step[b] \in {"handling", "resolved"}
      BY <3>1, <3>3 DEF LetGo
    <3>. QED
      BY <2>9, <3>2, <3>3 DEF HandlerRejects, Acknowledge, AcknowledgeFails
  <2>10. \/ \E i \in Instance :
              \/ \E d \in Deployments : SqsServiceInit(i, d)
              \/ SqsRouterInit(i)
              \/ OnModuleDestroy(i)
              \/ Exit(i)
         \/ UNCHANGED workVars
         \/ \E b \in Consumer :
              \/ \E m \in Msg : Receive(b, m)
              \/ PollEnds(b)
              \/ HandleMessage(b)
              \/ HandlerResolves(b)
              \/ HandlerRejects(b)
              \/ Acknowledge(b)
              \/ AcknowledgeFails(b)
    <3>1. \A i \in Instance, m \in Msg, r \in Routes, p \in Payloads :
             Send(i, m, r, p) => UNCHANGED workVars
      BY DEF Send
    <3>2. \A m \in Msg : VisibilityTimeout(m) => UNCHANGED workVars
      BY DEF VisibilityTimeout
    <3>3. UNCHANGED vars => UNCHANGED workVars
      BY DEF vars, workVars
    <3>. QED BY <1>1, <3>1, <3>2, <3>3 DEF Next
  <2>. HIDE DEF Quiet
  <2>. QED
    BY <2>1, <2>2, <2>3, <2>4, <2>5, <2>6, <2>7, <2>8, <2>9, <2>10, Zenon
<1>2. TypeAndCustody /\ [Next]_vars => [\A c \in Consumer : Quiet(c)]_vars
  BY <1>1
<1>3. Spec => []TypeAndCustody
  BY TypeAndCustodyHold DEF TypeAndCustody
<1>. QED BY <1>2, <1>3, PTL DEF Spec, NothingStartsAfterStop

-------------------------------------------------------------------------------
(* Delivery *)

Delivery == OnlyTheNamedHandler /\ ResolvedWasHandled /\ DeletedWasHandled

\* Where paths tell handlers apart, the one that a consumer runs is the one the
\* message names.
LEMMA RunningHandlerIsNamed ==
    ASSUME PathsTell, TypeAndCustody, NEW c \in Consumer, step[c] = "handling"
    PROVE  RunningHandler(c) = body[held[c]].route
<1>. DEFINE b == body[held[c]]
<1>1. /\ held[c] \in Msg /\ place[held[c]] # "unsent"
      /\ b.json /\ HasRoute(b.route)
  BY DEF TypeAndCustody, TypeOK, Custody
<1>2. b \in Texts
  BY <1>1 DEF TypeAndCustody, TypeOK, Custody
<1>3. deploy[c[1]] \in Deployments
  BY DEF TypeAndCustody, TypeOK, Consumer
<1>4. PICK s \in Slots(deploy[c[1]]) : RunningHandler(c) = HandlerRoute(deploy[c[1]], s)
  BY RunningHandlerFits
<1>5. HandlerPath(deploy[c[1]], s) = RoutePath(b.route)
  BY <1>4, RunningHandlerFits DEF HandlerPath
<1>. QED BY <1>1, <1>2, <1>3, <1>4, <1>5 DEF PathsTell

LEMMA InitDelivery == Init => Delivery
BY DEF Init, Delivery, OnlyTheNamedHandler, ResolvedWasHandled, DeletedWasHandled

LEMMA NextDelivery ==
    PathsTell /\ TypeAndCustody /\ Delivery /\ [Next]_vars => Delivery'
<1>. SUFFICES ASSUME PathsTell, TypeAndCustody, Delivery, [Next]_vars
              PROVE  Delivery'
  OBVIOUS
<1>. USE DEF procVars, workVars, queueVars, LetGo,
             Delivery, OnlyTheNamedHandler, ResolvedWasHandled, DeletedWasHandled
<1>1. ASSUME NEW i \in Instance, NEW d \in Deployments, SqsServiceInit(i, d)
      PROVE  Delivery'
  BY <1>1 DEF SqsServiceInit
<1>2. ASSUME NEW i \in Instance, SqsRouterInit(i) PROVE Delivery'
  BY <1>2 DEF SqsRouterInit
<1>3. ASSUME NEW i \in Instance, OnModuleDestroy(i) PROVE Delivery'
  BY <1>3 DEF OnModuleDestroy
<1>4. ASSUME NEW i \in Instance, Exit(i) PROVE Delivery'
  BY <1>4 DEF Exit
<1>5. ASSUME NEW i \in Instance, NEW m \in Msg, NEW r \in Routes,
             NEW p \in Payloads, Send(i, m, r, p)
      PROVE  Delivery'
  <2>1. completed[m] = {} /\ \A c \in Consumer : held[c] # m
    BY <1>5, ConstantsAssumption DEF Send, TypeAndCustody, TypeOK, Custody
  <2>. QED BY <1>5, <2>1 DEF Send, TypeAndCustody, TypeOK
<1>6. ASSUME NEW m \in Msg, VisibilityTimeout(m) PROVE Delivery'
  BY <1>6 DEF VisibilityTimeout, TypeAndCustody, TypeOK
<1>7. ASSUME NEW c \in Consumer, NEW m \in Msg, Receive(c, m) PROVE Delivery'
  BY <1>7 DEF Receive, TypeAndCustody, TypeOK
<1>16. ASSUME NEW c \in Consumer, PollEnds(c) PROVE Delivery'
  BY <1>16 DEF PollEnds, TypeAndCustody, TypeOK, Custody
<1>8. ASSUME NEW c \in Consumer, HandleMessageRejects(c) PROVE Delivery'
  BY <1>8 DEF HandleMessageRejects, TypeAndCustody, TypeOK
<1>9. ASSUME NEW c \in Consumer, HandleMessageDrops(c) PROVE Delivery'
  BY <1>9 DEF HandleMessageDrops, TypeAndCustody, TypeOK
<1>10. ASSUME NEW c \in Consumer, HandleMessageRoutes(c) PROVE Delivery'
  BY <1>10 DEF HandleMessageRoutes, TypeAndCustody, TypeOK
<1>11. ASSUME NEW c \in Consumer, HandlerResolves(c) PROVE Delivery'
  <2>1. RunningHandler(c) = body[held[c]].route /\ held[c] \in Msg
    BY <1>11, RunningHandlerIsNamed
       DEF HandlerResolves, TypeAndCustody, TypeOK, Custody
  <2>. QED BY <1>11, <2>1 DEF HandlerResolves, TypeAndCustody, TypeOK
<1>12. ASSUME NEW c \in Consumer, HandlerRejects(c) PROVE Delivery'
  BY <1>12 DEF HandlerRejects, TypeAndCustody, TypeOK
<1>13. ASSUME NEW c \in Consumer, Acknowledge(c) PROVE Delivery'
  BY <1>13 DEF Acknowledge, TypeAndCustody, TypeOK, Custody
<1>14. ASSUME NEW c \in Consumer, AcknowledgeFails(c) PROVE Delivery'
  BY <1>14 DEF AcknowledgeFails, TypeAndCustody, TypeOK
<1>15. ASSUME UNCHANGED vars PROVE Delivery'
  BY <1>15 DEF vars
<1>. QED
  BY <1>1, <1>2, <1>3, <1>4, <1>5, <1>6, <1>7, <1>8, <1>9, <1>10, <1>11,
     <1>12, <1>13, <1>14, <1>15, <1>16 DEF Next, HandleMessage

\* Where paths tell handlers apart, nothing but the handler that a message names completes
\* on it, and a routed message is deleted only after that handler has completed.
THEOREM DeliveryHolds ==
    PathsTell => (Spec => [](OnlyTheNamedHandler /\ DeletedWasHandled))
<1>. SUFFICES ASSUME PathsTell
              PROVE  Spec => [](OnlyTheNamedHandler /\ DeletedWasHandled)
  OBVIOUS
<1>1. Init => Delivery
  BY InitDelivery
<1>2. TypeAndCustody /\ Delivery /\ [Next]_vars => Delivery'
  BY NextDelivery
<1>3. Spec => []TypeAndCustody
  BY TypeAndCustodyHold DEF TypeAndCustody
<1>4. Delivery => OnlyTheNamedHandler /\ DeletedWasHandled
  BY DEF Delivery
<1>. QED BY <1>1, <1>2, <1>3, <1>4, PTL DEF Spec

\* Whichever process and version takes a message, and whichever queue it comes from, only
\* the handler that it names completes on it.
THEOREM OnlyTheNamedHandlerHolds == PathsTell => (Spec => []OnlyTheNamedHandler)
BY DeliveryHolds, PTL

-------------------------------------------------------------------------------
(* Refinement *)

\* The state of a message in AtLeastOnce.
AbstractState ==
    [m \in Msg |-> CASE place[m] = "unsent" -> "new"
                     [] place[m] = "deleted" -> "gone"
                     [] OTHER -> "pending"]

LEMMA InitRefines == Init => Promise!AbstractInit
BY DEF Init, Promise!AbstractInit

\* A step that changes neither the contents nor what the abstract state sees.
LEMMA QuietStep ==
    ASSUME AbstractState' = AbstractState, UNCHANGED <<body, completed>>
    PROVE  UNCHANGED Promise!abstractVars
BY DEF AbstractState, Promise!abstractVars

LEMMA SendRefines ==
    ASSUME TypeAndCustody, NEW i \in Instance, NEW m \in Msg, NEW r \in Routes,
           NEW p \in Payloads, Send(i, m, r, p)
    PROVE  Promise!AbstractNext
<1>. DEFINE t == WireBody(r, p)
<1>1. t \in Texts
  BY DEF Texts
<1>2. AbstractState[m] = "new" /\ AbstractState' = [AbstractState EXCEPT ![m] = "pending"]
  BY DEF Send, TypeAndCustody, TypeOK, AbstractState
<1>3. body' = [body EXCEPT ![m] = t] /\ UNCHANGED completed
  BY DEF Send
<1>4. Promise!Put(m, t)
  BY <1>2, <1>3 DEF Promise!Put, AbstractState
<1>. QED BY <1>1, <1>4 DEF Promise!AbstractNext

LEMMA ResolveRefines ==
    ASSUME PathsTell, TypeAndCustody, NEW c \in Consumer, HandlerResolves(c)
    PROVE  Promise!AbstractNext
<1>. DEFINE m == held[c]
<1>1. /\ m \in Msg /\ place[m] # "unsent" /\ body[m] \in Texts
      /\ body[m].json /\ HasRoute(body[m].route)
  BY DEF HandlerResolves, TypeAndCustody, TypeOK, Custody
<1>2. RunningHandler(c) = body[m].route
  BY RunningHandlerIsNamed DEF HandlerResolves
<1>3. /\ completed' = [completed EXCEPT ![m] = @ \cup {body[m].route}]
      /\ UNCHANGED <<body, place>>
  BY <1>2 DEF HandlerResolves, queueVars
<1>4. AbstractState[m] # "new" /\ AbstractState' = AbstractState
  BY <1>1, <1>3 DEF AbstractState
<1>5. Promise!Complete(m)
  BY <1>1, <1>3, <1>4 DEF Promise!Complete, AbstractState
<1>. QED BY <1>1, <1>5 DEF Promise!AbstractNext

LEMMA AcknowledgeRefines ==
    ASSUME TypeAndCustody, ResolvedWasHandled, NEW c \in Consumer, Acknowledge(c)
    PROVE  Promise!AbstractNext \/ UNCHANGED Promise!abstractVars
<1>0. PICK m \in Msg : m = held[c]
  BY DEF Acknowledge, TypeAndCustody, TypeOK, Custody
<1>1. /\ place[m] # "unsent" /\ body[m] \in Texts /\ body[m].json
      /\ HasRoute(body[m].route) => body[m].route \in completed[m]
  BY <1>0 DEF Acknowledge, TypeAndCustody, TypeOK, Custody, ResolvedWasHandled
<1>2. place' = [place EXCEPT ![m] = "deleted"] /\ UNCHANGED <<body, completed>>
  BY <1>0 DEF Acknowledge
<1>3. CASE place[m] = "deleted"
  <2>1. AbstractState' = AbstractState
    BY <1>1, <1>2, <1>3 DEF TypeAndCustody, TypeOK, AbstractState
  <2>. QED BY <1>2, <2>1, QuietStep
<1>4. CASE place[m] # "deleted"
  <2>1. /\ AbstractState[m] = "pending"
        /\ AbstractState' = [AbstractState EXCEPT ![m] = "gone"]
    BY <1>1, <1>2, <1>4 DEF TypeAndCustody, TypeOK, AbstractState
  <2>2. Promise!Remove(m)
    BY <1>1, <1>2, <2>1 DEF Promise!Remove, AbstractState
  <2>. QED BY <2>2 DEF Promise!AbstractNext
<1>. QED BY <1>3, <1>4

LEMMA NextRefines ==
    ASSUME PathsTell, TypeAndCustody, ResolvedWasHandled, [Next]_vars
    PROVE  Promise!AbstractNext \/ UNCHANGED Promise!abstractVars
<1>. USE DEF procVars, workVars, queueVars, LetGo, AbstractState
<1>1. ASSUME NEW i \in Instance, NEW d \in Deployments, SqsServiceInit(i, d)
      PROVE  UNCHANGED Promise!abstractVars
  BY <1>1, QuietStep DEF SqsServiceInit
<1>2. ASSUME NEW i \in Instance, SqsRouterInit(i)
      PROVE  UNCHANGED Promise!abstractVars
  BY <1>2, QuietStep DEF SqsRouterInit
<1>3. ASSUME NEW i \in Instance, OnModuleDestroy(i)
      PROVE  UNCHANGED Promise!abstractVars
  BY <1>3, QuietStep DEF OnModuleDestroy
<1>4. ASSUME NEW i \in Instance, Exit(i)
      PROVE  UNCHANGED Promise!abstractVars
  BY <1>4, QuietStep DEF Exit
<1>5. ASSUME NEW m \in Msg, VisibilityTimeout(m)
      PROVE  UNCHANGED Promise!abstractVars
  BY <1>5, QuietStep DEF VisibilityTimeout, TypeAndCustody, TypeOK
<1>6. ASSUME NEW c \in Consumer, NEW m \in Msg, Receive(c, m)
      PROVE  UNCHANGED Promise!abstractVars
  BY <1>6, QuietStep DEF Receive, TypeAndCustody, TypeOK
<1>7. ASSUME NEW c \in Consumer,
             \/ PollEnds(c)
             \/ HandleMessageRejects(c)
             \/ HandleMessageDrops(c)
             \/ HandleMessageRoutes(c)
             \/ HandlerRejects(c)
             \/ AcknowledgeFails(c)
      PROVE  UNCHANGED Promise!abstractVars
  BY <1>7, QuietStep DEF PollEnds, HandleMessageRejects, HandleMessageDrops,
     HandleMessageRoutes, HandlerRejects, AcknowledgeFails
<1>8. ASSUME UNCHANGED vars PROVE UNCHANGED Promise!abstractVars
  BY <1>8, QuietStep DEF vars
<1>9. ASSUME NEW i \in Instance, NEW m \in Msg, NEW r \in Routes,
             NEW p \in Payloads, Send(i, m, r, p)
      PROVE  Promise!AbstractNext
  BY <1>9, SendRefines
<1>10. ASSUME NEW c \in Consumer, HandlerResolves(c) PROVE Promise!AbstractNext
  BY <1>10, ResolveRefines
<1>11. ASSUME NEW c \in Consumer, Acknowledge(c)
       PROVE  Promise!AbstractNext \/ UNCHANGED Promise!abstractVars
  BY <1>11, AcknowledgeRefines
<1>. QED
  BY <1>1, <1>2, <1>3, <1>4, <1>5, <1>6, <1>7, <1>8, <1>9, <1>10, <1>11, Zenon
     DEF Next, HandleMessage

\* Where paths tell handlers apart the component implements AtLeastOnce: whatever starts,
\* stops, crashes, fails or is delivered again, each step is a put, a completion
\* or a removal that AtLeastOnce allows, or changes nothing it can see.
THEOREM KeepsPromiseHolds == PathsTell => (Spec => KeepsPromise)
<1>. SUFFICES ASSUME PathsTell PROVE Spec => KeepsPromise
  OBVIOUS
<1>1. Init => Promise!AbstractInit
  BY InitRefines
<1>2. TypeAndCustody /\ Delivery /\ [Next]_vars =>
        [Promise!AbstractNext]_(Promise!abstractVars)
  BY NextRefines DEF Delivery
<1>3. Spec => [](TypeAndCustody /\ Delivery)
  <2>1. Init => Delivery
    BY InitDelivery
  <2>2. TypeAndCustody /\ Delivery /\ [Next]_vars => Delivery'
    BY NextDelivery
  <2>3. Spec => []TypeAndCustody
    BY TypeAndCustodyHold DEF TypeAndCustody
  <2>. QED BY <2>1, <2>2, <2>3, PTL DEF Spec
<1>. QED BY <1>1, <1>2, <1>3, PTL DEF Spec, KeepsPromise, Promise!AbstractSpec
================================================================================
