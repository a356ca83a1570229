------------------------------- MODULE Discovery -------------------------------
(***************************************************************************)
(* DiscoveryService of src/infrastructure/discovery while the application  *)
(* is being built.  A call lists the providers or the controllers of every *)
(* module; the first one makes the list, waiting for the components that   *)
(* are under construction, and its promise is kept for all later calls.    *)
(* SqsRouter calls when everything is built; other calls, which the await  *)
(* in toDiscoveredClass is for, come from constructors and factories.      *)
(*                                                                         *)
(* Nest is external: a class has an empty object made from its prototype   *)
(* before it is constructed, and what a factory returns is not there       *)
(* before; the controllers of a module come after its providers; a failed  *)
(* construction ends the start, and with it the process.  At the start Nest *)
(* makes the one instance of each component of the default scope, except    *)
(* where something that it depends on is of scope REQUEST: then it goes     *)
(* through the component, but makes instances only for requests.  A         *)
(* transient component has an instance for each component it is injected in.*)
(***************************************************************************)
EXTENDS Naturals

CONSTANTS
    Component,   \* providers and controllers, one for each module that has them
    Wrappers,    \* the kinds of components that are in use
    Caller,      \* calls of DiscoveryService
    Calls        \* the kinds of calls that are in use

Collection == {"providers", "controllers"}

\* module: of the component; factory: made by a factory, which may await calls;
\* static: nothing that it depends on is of scope REQUEST; meta: whether the class, and
\* whether a method of it, carries the key that callers look for.
Wrapper == [in : Collection, module : Nat, factory : BOOLEAN,
            scope : {"default", "transient", "request"}, static : BOOLEAN,
            meta : SUBSET {"class", "method"}]

\* A call lists the classes, or the methods, of a collection; it comes from anywhere,
\* from the factory of a component, or from onModuleInit when all is built.
Call == [in : Collection, op : {"class", "method"},
         from : Component \cup {"anywhere", "onModuleInit"}]

ASSUME ConstantsAssumption ==
    /\ Wrappers \subseteq Wrapper
    /\ Calls \subseteq Call

VARIABLES
    wrapper,     \* what each component is
    call,        \* what each call asks for
    built,       \* how far the construction of each component is
    discovered,  \* the memoised list of each collection: what was found of each component
    stage,       \* of each call
    answer,      \* what each call returned: pairs of a component and what was found of it
    notBegun     \* history: components not begun when their collection was first listed

vars == <<wrapper, call, built, discovered, stage, answer, notBegun>>

NoList == [c \in {} |-> "nothing"]

\* The filter of discover looks at nothing but the scope of the component itself.
Listed(q) == {c \in Component : wrapper[c].in = q /\ wrapper[c].scope # "request"}

\* What Nest goes through at the start, and what it makes an instance of there.
Started == {c \in Component : wrapper[c].scope = "default"}
Singleton == {c \in Started : wrapper[c].static}

Init ==
    /\ wrapper \in [Component -> Wrappers]
    /\ call \in [Caller -> Calls]
    /\ \A k \in Caller : call[k].from \in Component =>
          wrapper[call[k].from].factory /\ call[k].from \in Singleton
    /\ built = [c \in Component |-> "none"]
    /\ discovered = [q \in Collection |-> NoList]
    /\ stage = [k \in Caller |-> "new"]
    /\ answer = [k \in Caller |-> {}]
    /\ notBegun = [q \in Collection |-> {}]

-------------------------------------------------------------------------------
(* The construction *)

Begin(c) ==
    /\ built[c] = "none"
    /\ c \in Started
    /\ wrapper[c].in = "controllers" =>
          \A d \in Listed("providers") \cap Started :
              wrapper[d].module = wrapper[c].module => built[d] = "resolved"
    /\ built' = [built EXCEPT ![c] = "pending"]
    /\ UNCHANGED <<wrapper, call, discovered, stage, answer, notBegun>>

\* A factory awaits its own calls.
Finish(c) ==
    /\ built[c] = "pending"
    /\ \A k \in Caller : call[k].from = c => stage[k] = "answered"
    /\ built' = [built EXCEPT ![c] = "resolved"]
    /\ UNCHANGED <<wrapper, call, discovered, stage, answer, notBegun>>

-------------------------------------------------------------------------------
(* The service *)

\* The host of a component that has no instance: Object.create of the prototype, or
\* nothing where a factory is to make it.
Unbuilt(c) == IF wrapper[c].factory THEN "nothing" ELSE "prototype"

\* The instance in the host of the static context when Nest is done with it.
StaticInstance(c) == IF c \in Singleton THEN "instance" ELSE Unbuilt(c)

\* Mutant: nothing is awaited.
TakesWhatIsThere(c) == IF built[c] = "resolved" THEN StaticInstance(c) ELSE Unbuilt(c)

\* Mutant: whatever is not resolved is awaited.
AwaitsAll(c) == IF built[c] = "resolved" THEN StaticInstance(c) ELSE "awaited"

\* What is found at once of a component; "awaited" while its donePromise is.  The host
\* of a transient one is asked for with its own id as the inquirer: nothing was ever
\* made for that, and a new, unbuilt one comes back.
toDiscoveredClass(c) ==
    CASE wrapper[c].scope = "transient" -> Unbuilt(c)
      [] wrapper[c].scope # "transient" ->
            CASE built[c] = "resolved" -> StaticInstance(c)
              [] built[c] = "pending"  -> "awaited"
              [] built[c] = "none"     -> Unbuilt(c)

\* Where the caller can be when it calls.
MayCall(from) ==
    CASE from = "anywhere"     -> TRUE
      [] from = "onModuleInit" -> \A c \in Started : built[c] = "resolved"
      [] OTHER                 -> built[from] = "pending"

\* Mutant: every call makes the list again.
DiscoversAgain(k) ==
    LET q == call[k].in
    IN  /\ stage[k] = "new"
        /\ MayCall(call[k].from)
        /\ stage' = [stage EXCEPT ![k] = "waiting"]
        /\ discovered' = [discovered EXCEPT ![q] = [c \in Listed(q) |-> toDiscoveredClass(c)]]
        /\ notBegun' = [notBegun EXCEPT ![q] = {c \in Listed(q) : built[c] = "none"}]
        /\ UNCHANGED <<wrapper, call, built, answer>>

\* providers and controllers, up to the await.
Discover(k) ==
    LET q == call[k].in
    IN  /\ stage[k] = "new"
        /\ MayCall(call[k].from)
        /\ stage' = [stage EXCEPT ![k] = "waiting"]
        /\ IF discovered[q] = NoList
             THEN /\ discovered' =
                       [discovered EXCEPT ![q] = [c \in Listed(q) |-> toDiscoveredClass(c)]]
                  /\ notBegun' =
                       [notBegun EXCEPT ![q] = {c \in Listed(q) : built[c] = "none"}]
             ELSE UNCHANGED <<discovered, notBegun>>
        /\ UNCHANGED <<wrapper, call, built, answer>>

\* A donePromise that was awaited resolves, and the instance is read.
Awaited(q, c) ==
    /\ c \in DOMAIN discovered[q]
    /\ discovered[q][c] = "awaited"
    /\ built[c] = "resolved"
    /\ discovered' = [discovered EXCEPT ![q][c] = StaticInstance(c)]
    /\ UNCHANGED <<wrapper, call, built, stage, answer, notBegun>>

\* withMetaAtKey: the key is looked for on the constructor of the instance, and on the
\* class of the provider, which a factory is not.
WithMetaAtKey(c, found) ==
    "class" \in wrapper[c].meta /\ (wrapper[c].factory => found = "instance")

\* classMethodsWithMetaAtKey: the methods on the prototype of the instance.
ClassMethodsWithMetaAtKey(c, found) ==
    "method" \in wrapper[c].meta /\ found # "nothing"

Matches(k, c, found) ==
    IF call[k].op = "class" THEN WithMetaAtKey(c, found)
                            ELSE ClassMethodsWithMetaAtKey(c, found)

\* The list is complete; the rest of the query runs on it.
Return(k) ==
    LET list == discovered[call[k].in]
    IN  /\ stage[k] = "waiting"
        /\ \A c \in DOMAIN list : list[c] # "awaited"
        /\ stage' = [stage EXCEPT ![k] = "answered"]
        /\ answer' = [answer EXCEPT ![k] =
              {<<c, list[c]>> : c \in {d \in DOMAIN list : Matches(k, d, list[d])}}]
        /\ UNCHANGED <<wrapper, call, built, discovered, notBegun>>

Next ==
    \/ \E c \in Component :
          \/ Begin(c) \/ Finish(c)
          \/ \E q \in Collection : Awaited(q, c)
    \/ \E k \in Caller : Discover(k) \/ Return(k)

\* The construction goes on, and with it the calls that a factory makes.
FairSpec ==
    /\ Init /\ [][Next]_vars
    /\ \A c \in Component :
          /\ WF_vars(Begin(c)) /\ WF_vars(Finish(c))
          /\ \A q \in Collection : WF_vars(Awaited(q, c))
    /\ \A k \in Caller :
          /\ WF_vars(call[k].from # "anywhere" /\ Discover(k))
          /\ WF_vars(Return(k))

-------------------------------------------------------------------------------
(* Properties *)

\* A call gets a component built if and only if Nest makes one instance of it at the
\* start (a transient component, or one with a dependency of scope REQUEST, passes the
\* filter of discover and is found unbuilt, for good), and its construction had begun
\* when the collection was listed for the first time, by whomever.  Where SqsRouter is the
\* first to ask, the handlers of all other components are bound to what was built.
BuiltIsFound ==
    \A k \in Caller : \A c \in Listed(call[k].in) :
        stage[k] = "answered" /\ call[k].op \in wrapper[c].meta =>
            (<<c, "instance">> \in answer[k] <=>
                c \in Singleton /\ c \notin notBegun[call[k].in])

\* Two calls that ask for the same get the same, whenever they were made: what the
\* first one found is never found out to have been built since.
SameForAll ==
    \A k, l \in Caller :
        /\ stage[k] = "answered" /\ stage[l] = "answered"
        /\ call[k].in = call[l].in /\ call[k].op = call[l].op
        => answer[k] = answer[l]

\* A list waits for a component whose factory waits for a list.
FactoryAwaited ==
    \E k \in Caller :
        /\ stage[k] = "waiting"
        /\ call[k].from \in Component
        /\ \E q \in Collection : /\ call[k].from \in DOMAIN discovered[q]
                                 /\ discovered[q][call[k].from] = "awaited"

\* Every call comes back, unless a factory that awaits a call is itself awaited for
\* good: then the start hangs without an error.
CallsComeBack ==
    \A k \in Caller :
        \/ <>[]FactoryAwaited
        \/ stage[k] = "waiting" ~> stage[k] = "answered"
================================================================================
