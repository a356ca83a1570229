------------------------------ MODULE MCDiscovery ------------------------------
(* A small instance of Discovery. *)
EXTENDS Discovery

CONSTANTS c1, c2

\* Classes and factories of both collections, decorated: in one module or two; of a
\* scope, or with a dependency, that leaves them without an instance.
Decorated(q, n, f, scope, static) ==
    [in |-> q, module |-> n, factory |-> f, scope |-> scope, static |-> static,
     meta |-> {"class", "method"}]

SomeWrappers ==
    {Decorated(q, n, f, "default", TRUE) : q \in Collection, n \in 1 .. 2, f \in BOOLEAN}
    \cup {Decorated("providers", 1, f, "default", FALSE) : f \in BOOLEAN}
    \cup {Decorated(q, 1, FALSE, "transient", TRUE) : q \in Collection}
    \cup {Decorated("controllers", 1, FALSE, "request", FALSE)}

\* The call of SqsRouter, and others.
SomeCalls ==
    {[in |-> "providers", op |-> "class", from |-> "onModuleInit"]}
    \cup [in : Collection, op : {"class", "method"}, from : {"anywhere"}]
    \cup [in : Collection, op : {"class"}, from : {c1, c2}]
================================================================================
