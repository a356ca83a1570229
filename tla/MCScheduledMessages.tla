------------------------- MODULE MCScheduledMessages -------------------------
(* A small instance of ScheduledMessages, on the queues of MCSqsMessaging. *)
EXTENDS ScheduledMessages, MCSqsMessaging

\* A unit ago, and a unit later.
SomeMinutes == {0 - 1, 1}

\* The future at first, then the present, then the past.
SomeTimes == {1}

ScheduledPayloads == {ObjectBody, Unrouted, Forwarded}
=============================================================================
