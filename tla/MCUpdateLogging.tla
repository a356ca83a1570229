--------------------------- MODULE MCUpdateLogging ---------------------------
(* Small instances of UpdateLogging. *)
EXTENDS UpdateLogging

CONSTANTS s1, s2, h1, h2, h3

Call(resource, shape, ids) ==
    [resource |-> resource, shape |-> shape, ids |-> ids, updater |-> TRUE]

TwoSubscriptions == {s1, s2}
ThreeRequests == {h1, h2, h3}
SubscribedOnes == {h1, h3}
ExistingOnes == {s1, h1, h2}

\* Two requests of every kind, one of them refused for want of an updater.
AllKinds ==
    {Call("none", "one", {h1}), [Call("request", "one", {h1}) EXCEPT !.updater = FALSE],
     Call("subscription", "one", {s1}), Call("subscription", "one", {}),
     Call("request", "one", {h1}),
     Call("request", "one", {h2}), Call("request", "one", {h3}),
     Call("request", "oneInIds", {h1}), Call("request", "many", {h1, h2}),
     Call("request", "many", {h3}), Call("other", "one", {}),
     Call("request", "create", {}), Call("subscription", "create", {}),
     Call("other", "create", {})}

Creations == {Call("subscription", "create", {})}
NewSubscription == {h1}
=============================================================================
