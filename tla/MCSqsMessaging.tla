--------------------------- MODULE MCSqsMessaging ---------------------------
(* Small instances of SqsMessaging. *)
EXTENDS SqsMessaging, TLC

N(s) == <<s>>
Orders == N("orders")
Mails == N("mails")
Segments == {"orders", "mails", "app", "paid", "sent", "x"}

Ctrl(q, p, hs) == [queue |-> q, prefix |-> p, handlers |-> hs]
At(q, c, h) == [queue |-> q, controller |-> c, handler |-> h]

\* The version before and the version after a handler was added.
OldVersion == [consumers |-> <<Orders>>, producers |-> <<Orders>>,
               controllers |-> <<Ctrl(Orders, N("app"), <<N("paid")>>)>>]
NewVersion == [consumers |-> <<Orders>>, producers |-> <<Orders>>,
               controllers |-> <<Ctrl(Orders, N("app"), <<N("paid"), N("sent")>>)>>]

\* A version whose second controller repeats the path of the first, as happens
\* when two modules provide the same class.
ClashingVersion ==
    [OldVersion EXCEPT !.controllers = @ \o <<Ctrl(Orders, N("app"), <<N("sent")>>)>>]

\* A version with the same consumer name twice.
DuplicateVersion == [OldVersion EXCEPT !.consumers = <<Orders, Orders>>]

\* Two queues with controllers and handlers of the same names.
TwoQueueVersion ==
    [consumers |-> <<Orders, Mails>>, producers |-> <<Orders, Mails>>,
     controllers |-> <<Ctrl(Orders, N("app"), <<N("paid"), N("sent")>>),
                       Ctrl(Mails, N("app"), <<N("paid")>>)>>]

\* Names with '/' in them: x/app + paid and x + app/paid are the same path.
SlashVersion ==
    [OldVersion EXCEPT !.controllers =
        @ \o <<Ctrl(Orders, <<"x", "app">>, <<N("paid")>>),
               Ctrl(Orders, N("x"), <<N("sent"), <<"app", "paid">>>>)>>]

\* A version with a '/' in a name, and no clash.
PrefixVersion == [OldVersion EXCEPT !.controllers = <<Ctrl(Orders, <<"x", "app">>, <<N("sent")>>)>>]

RollingAndFaulty == {OldVersion, NewVersion, PrefixVersion,
                     ClashingVersion, DuplicateVersion, SlashVersion}
Rolling == {OldVersion, NewVersion}
TwoQueues == {TwoQueueVersion, SlashVersion}

ObjectBody == [isString |-> FALSE, body |-> NoBody]
NotJson == [isString |-> TRUE, body |-> NoBody]
\* A JSON text that the caller wrote without (all of) the routing fields.
Unrouted == [isString |-> TRUE,
             body |-> [json |-> TRUE, route |-> At(Orders, N("app"), <<>>)]]

\* A JSON text with the whole route of a handler of another queue.
Forwarded == [isString |-> TRUE,
              body |-> [json |-> TRUE, route |-> At(Mails, N("app"), N("paid"))]]

OneQueue == {Orders}
BothQueues == {Orders, Mails}
SentRoute == {At(Orders, N("app"), N("sent"))}
SentAndSlash == SentRoute \cup {At(Orders, <<"x", "app">>, N("sent"))}
QueueRoutes == {At(Orders, N("app"), N("sent")), At(Mails, N("app"), N("paid"))}
AllPayloads == {ObjectBody, NotJson, Unrouted}
ObjectsAndText == {ObjectBody, NotJson}

Symmetry == Permutations(Instance) \cup Permutations(Msg)
=============================================================================
