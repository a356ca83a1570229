---------------------------- MODULE DiscoveryProofs ----------------------------
(***************************************************************************)
(* Proofs about Discovery for any number of components and calls, in any   *)
(* order of construction.                                                  *)
(***************************************************************************)
EXTENDS Discovery, TLAPS

Finding == {"nothing", "prototype", "awaited", "instance"}

\* What a list may have of a component: of one that was not begun when the list was
\* made, and of one that Nest makes no instance of, never the instance; of any other
\* one the instance, now or when the wait for it is over.
EntryOK(q, c, found) ==
    IF c \in Singleton /\ c \notin notBegun[q] THEN found \in {"awaited", "instance"}
    ELSE IF c \in Singleton THEN found = Unbuilt(c)
    ELSE found \in {"awaited", Unbuilt(c)}

\* The list of a collection, once there is one, is of all its components.
ListOK(q) ==
    /\ discovered[q] = NoList \/ DOMAIN discovered[q] = Listed(q)
    /\ \A c \in DOMAIN discovered[q] : EntryOK(q, c, discovered[q][c])

\* What a query makes of the list.
Found(k) ==
    {<<c, discovered[call[k].in][c]>> :
        c \in {d \in DOMAIN discovered[call[k].in] :
                  Matches(k, d, discovered[call[k].in][d])}}

\* A call that was made has a list, and one that was answered had the whole list.
CallOK(k) ==
    LET q == call[k].in
    IN  /\ stage[k] \in {"waiting", "answered"} => DOMAIN discovered[q] = Listed(q)
        /\ stage[k] = "answered" =>
              /\ \A c \in Listed(q) : discovered[q][c] # "awaited"
              /\ answer[k] = Found(k)

Inv ==
    /\ call \in [Caller -> Calls]
    /\ discovered \in [Collection -> UNION {[S -> Finding] : S \in SUBSET Component}]
    /\ stage \in [Caller -> {"new", "waiting", "answered"}]
    /\ DOMAIN answer = Caller
    /\ built \in [Component -> {"none", "pending", "resolved"}]
    /\ DOMAIN notBegun = Collection
    /\ \A q \in Collection : ListOK(q)
    /\ \A k \in Caller : CallOK(k)

\* What is found at once of a component, if the list is made now.
LEMMA FoundAtOnce ==
    ASSUME Inv, NEW c \in Component
    PROVE  /\ toDiscoveredClass(c) \in Finding
           /\ IF c \in Singleton /\ built[c] # "none"
                THEN toDiscoveredClass(c) \in {"awaited", "instance"}
              ELSE IF c \in Singleton THEN toDiscoveredClass(c) = Unbuilt(c)
              ELSE toDiscoveredClass(c) \in {"awaited", Unbuilt(c)}
<1>1. StaticInstance(c) \in Finding /\ Unbuilt(c) \in Finding
  BY DEF StaticInstance, Unbuilt, Finding
<1>2. CASE wrapper[c].scope = "transient"
  BY <1>1, <1>2 DEF toDiscoveredClass, Singleton, Started
<1>3. CASE wrapper[c].scope # "transient" /\ built[c] = "none"
  BY <1>1, <1>3 DEF toDiscoveredClass
<1>4. CASE wrapper[c].scope # "transient" /\ built[c] = "pending"
  BY <1>4 DEF toDiscoveredClass, Finding
<1>5. CASE wrapper[c].scope # "transient" /\ built[c] = "resolved"
  BY <1>1, <1>5 DEF toDiscoveredClass, StaticInstance
<1> QED
  BY <1>2, <1>3, <1>4, <1>5 DEF Inv

LEMMA InitInv == Init => Inv
<1> SUFFICES ASSUME Init PROVE Inv
  OBVIOUS
<1>1. NoList \in [{} -> Finding] /\ DOMAIN NoList = {}
  BY DEF NoList, Finding
<1>2. discovered \in [Collection -> UNION {[S -> Finding] : S \in SUBSET Component}]
  BY <1>1 DEF Init
<1>3. \A q \in Collection : DOMAIN discovered[q] = {}
  BY <1>1 DEF Init
<1> QED
  BY <1>2, <1>3 DEF Init, Inv, ListOK, CallOK

\* A step that leaves the lists and the calls alone.
LEMMA QuietInv ==
    ASSUME Inv, UNCHANGED <<wrapper, call, discovered, stage, answer, notBegun>>,
           built' \in [Component -> {"none", "pending", "resolved"}]
    PROVE  Inv'
BY DEF Inv, ListOK, EntryOK, Singleton, Started, Unbuilt, CallOK, Found, Listed, Matches,
   WithMetaAtKey, ClassMethodsWithMetaAtKey

\* A step that leaves the lists alone keeps what is known of them.
LEMMA ListsStay ==
    ASSUME UNCHANGED <<wrapper, discovered, notBegun>>, NEW q \in Collection, ListOK(q)
    PROVE  ListOK(q)'
BY DEF ListOK, EntryOK, Singleton, Started, Unbuilt, Listed

\* A call makes the list, or finds it made.
LEMMA DiscoverInv ==
    ASSUME Inv, NEW k \in Caller, Discover(k)
    PROVE  Inv'
<1> DEFINE q == call[k].in
           list == [c \in Listed(q) |-> toDiscoveredClass(c)]
<1>1. /\ UNCHANGED <<wrapper, call, built, answer>>
      /\ stage' = [stage EXCEPT ![k] = "waiting"] /\ stage[k] = "new"
  BY DEF Discover
<1>2. q \in Collection
  BY ConstantsAssumption DEF Inv, Call
<1>3. list \in [Listed(q) -> Finding] /\ Listed(q) \subseteq Component
  BY FoundAtOnce DEF Listed
<1>4. \A p \in Collection : Listed(p)' = Listed(p)
  BY <1>1 DEF Listed
<1>5. CASE discovered[q] = NoList
  <2>1. /\ discovered' = [discovered EXCEPT ![q] = list]
        /\ notBegun' = [notBegun EXCEPT ![q] = {c \in Listed(q) : built[c] = "none"}]
    BY <1>5 DEF Discover
  <2>2. \A c \in Listed(q) :
           IF c \in Singleton /\ built[c] # "none" THEN list[c] \in {"awaited", "instance"}
           ELSE IF c \in Singleton THEN list[c] = Unbuilt(c)
           ELSE list[c] \in {"awaited", Unbuilt(c)}
    BY FoundAtOnce DEF Listed
  <2>3. DOMAIN list = Listed(q)
    OBVIOUS
  <2> HIDE DEF list, q
  <2>4. /\ discovered' \in [Collection -> UNION {[S -> Finding] : S \in SUBSET Component}]
        /\ DOMAIN notBegun' = Collection
    BY <1>3, <2>1 DEF Inv
  <2>5. ASSUME NEW p \in Collection PROVE ListOK(p)'
    <3>1. CASE p = q
      <4>1. discovered'[p] = list /\ notBegun'[p] = {c \in Listed(q) : built[c] = "none"}
        BY <1>2, <2>1, <3>1 DEF Inv
      <4>2. ASSUME NEW c \in Listed(q), NEW found, found = list[c]
            PROVE  EntryOK(p, c, found)'
        <5>1. (c \in Singleton /\ c \notin notBegun[p])' <=>
                  c \in Singleton /\ built[c] # "none"
          BY <1>1, <4>1 DEF Singleton, Started
        <5>2. (c \in Singleton)' <=> c \in Singleton
          BY <1>1 DEF Singleton, Started
        <5>3. Unbuilt(c)' = Unbuilt(c)
          BY <1>1 DEF Unbuilt
        <5> QED
          BY <2>2, <4>2, <5>1, <5>2, <5>3 DEF EntryOK
      <4> QED
        BY <1>2, <1>4, <2>3, <3>1, <4>1, <4>2 DEF ListOK
    <3>2. CASE p # q
      <4>1. discovered'[p] = discovered[p] /\ notBegun'[p] = notBegun[p]
        BY <2>1, <3>2 DEF Inv
      <4>2. \A c : EntryOK(p, c, discovered[p][c])' <=> EntryOK(p, c, discovered[p][c])
        BY <1>1, <4>1 DEF EntryOK, Singleton, Started, Unbuilt
      <4> QED
        BY <1>4, <4>1, <4>2 DEF Inv, ListOK
    <3> QED
      BY <3>1, <3>2
  <2>6. ASSUME NEW l \in Caller PROVE CallOK(l)'
    <3>1. CASE call[l].in = q
      <4>1. stage'[l] = "answered" => stage[l] = "answered" /\ Listed(q) = {}
        BY <1>1, <1>5, <3>1 DEF Inv, CallOK, NoList
      <4>2. discovered'[q] = list
        BY <1>2, <2>1 DEF Inv
      <4>3. stage'[l] = "answered" => answer[l] = {} /\ Found(l)' = {}
        BY <1>1, <2>3, <3>1, <4>1, <4>2 DEF Inv, CallOK, Found
      <4> QED
        BY <1>1, <1>2, <1>4, <2>3, <3>1, <4>1, <4>2, <4>3 DEF CallOK
    <3>2. CASE call[l].in # q
      <4>1. call[l].in \in Collection
        BY ConstantsAssumption DEF Inv, Call
      <4>2. discovered'[call[l].in] = discovered[call[l].in]
        BY <2>1, <3>2, <4>1 DEF Inv
      <4>3. l # k
        BY <3>2 DEF q
      <4>4. stage'[l] = stage[l] /\ Found(l)' = Found(l)
        BY <1>1, <4>2, <4>3 DEF Inv, Found, Matches, WithMetaAtKey,
           ClassMethodsWithMetaAtKey
      <4> QED
        BY <1>1, <1>4, <4>1, <4>2, <4>4 DEF Inv, CallOK
    <3> QED
      BY <3>1, <3>2
  <2> QED
    BY <1>1, <2>4, <2>5, <2>6 DEF Inv
<1>6. CASE discovered[q] # NoList
  <2>1. UNCHANGED <<discovered, notBegun>>
    BY <1>6 DEF Discover
  <2>2. DOMAIN discovered[q] = Listed(q)
    BY <1>2, <1>6 DEF Inv, ListOK, NoList
  <2>3. \A p \in Collection : ListOK(p)'
    BY <1>1, <1>4, <2>1, ListsStay DEF Inv
  <2>4. ASSUME NEW l \in Caller PROVE CallOK(l)'
    <3>1. Found(l)' = Found(l) /\ call[l].in \in Collection
      BY <1>1, <2>1, ConstantsAssumption DEF Inv, Call, Found, Matches, WithMetaAtKey,
         ClassMethodsWithMetaAtKey
    <3>2. CASE l = k
      BY <1>1, <1>2, <1>4, <2>1, <2>2, <3>2 DEF Inv, CallOK
    <3>3. CASE l # k
      BY <1>1, <1>4, <2>1, <3>1, <3>3 DEF Inv, CallOK
    <3> QED
      BY <3>2, <3>3
  <2> QED
    BY <1>1, <2>1, <2>3, <2>4 DEF Inv
<1> QED
  BY <1>5, <1>6

\* A component that was awaited is built.
LEMMA AwaitedInv ==
    ASSUME Inv, NEW q \in Collection, NEW c \in Component, Awaited(q, c)
    PROVE  Inv'
<1>1. /\ UNCHANGED <<wrapper, call, built, stage, answer, notBegun>>
      /\ discovered' = [discovered EXCEPT ![q][c] = StaticInstance(c)]
      /\ c \in DOMAIN discovered[q] /\ discovered[q][c] = "awaited"
  BY DEF Awaited
<1>2. PICK S \in SUBSET Component : discovered[q] \in [S -> Finding]
  BY DEF Inv
<1>3. /\ DOMAIN discovered'[q] = DOMAIN discovered[q]
      /\ discovered'[q] = [discovered[q] EXCEPT ![c] = StaticInstance(c)]
      /\ \A p \in Collection : p # q => discovered'[p] = discovered[p]
  BY <1>1, <1>2 DEF Inv
<1>4. \A p \in Collection : Listed(p)' = Listed(p)
  BY <1>1 DEF Listed
<1>5. discovered' \in [Collection -> UNION {[T -> Finding] : T \in SUBSET Component}]
  <2>1. discovered'[q] \in [S -> Finding]
    BY <1>2, <1>3 DEF Finding, StaticInstance, Unbuilt
  <2> QED
    BY <1>1, <2>1 DEF Inv
<1>6. ASSUME NEW p \in Collection PROVE ListOK(p)'
  <2>1. CASE p = q
    <3>1. DOMAIN discovered[q] = Listed(q)
      BY <1>1 DEF Inv, ListOK, NoList
    <3>2. \A d \in DOMAIN discovered[q] :
             \/ d = c /\ discovered'[q][d] = StaticInstance(c)
             \/ discovered'[q][d] = discovered[q][d]
      BY <1>2, <1>3
    <3>3. EntryOK(q, c, "awaited")
      BY <1>1 DEF Inv, ListOK
    <3>4. EntryOK(q, c, StaticInstance(c))
      BY <3>3 DEF EntryOK, StaticInstance, Unbuilt
    <3>5. \A d \in DOMAIN discovered[q] : EntryOK(q, d, discovered'[q][d])
      BY <3>2, <3>4 DEF Inv, ListOK
    <3>6. \A d : EntryOK(q, d, discovered[q][d])' <=> EntryOK(q, d, discovered'[q][d])
      BY <1>1 DEF EntryOK, Singleton, Started, Unbuilt
    <3> QED
      BY <1>3, <1>4, <2>1, <3>1, <3>5, <3>6 DEF ListOK
  <2>2. CASE p # q
    <3>1. \A d : EntryOK(p, d, discovered[p][d])' <=> EntryOK(p, d, discovered[p][d])
      BY <1>1, <1>3, <2>2 DEF EntryOK, Singleton, Started, Unbuilt
    <3> QED
      BY <1>3, <1>4, <2>2, <3>1 DEF Inv, ListOK
  <2> QED
    BY <2>1, <2>2
<1>7. ASSUME NEW k \in Caller PROVE CallOK(k)'
  <2>1. call[k].in \in Collection
    BY ConstantsAssumption DEF Inv, Call
  <2>2. CASE call[k].in = q
    <3>1. stage[k] # "answered"
      BY <1>1, <2>2 DEF Inv, CallOK
    <3> QED
      BY <1>1, <1>3, <1>4, <2>2, <3>1 DEF Inv, CallOK
  <2>3. CASE call[k].in # q
    <3>1. discovered'[call[k].in] = discovered[call[k].in]
      BY <1>3, <2>1, <2>3
    <3>2. Found(k)' = Found(k)
      BY <1>1, <3>1 DEF Found, Matches, WithMetaAtKey, ClassMethodsWithMetaAtKey
    <3> QED
      BY <1>1, <1>4, <2>1, <3>1, <3>2 DEF Inv, CallOK
  <2> QED
    BY <2>2, <2>3
<1> QED
  BY <1>1, <1>5, <1>6, <1>7 DEF Inv

\* A call comes back with the whole list.
LEMMA ReturnInv ==
    ASSUME Inv, NEW k \in Caller, Return(k)
    PROVE  Inv'
<1>1. /\ UNCHANGED <<wrapper, call, built, discovered, notBegun>>
      /\ stage[k] = "waiting" /\ stage' = [stage EXCEPT ![k] = "answered"]
      /\ answer' = [answer EXCEPT ![k] = Found(k)]
      /\ \A c \in DOMAIN discovered[call[k].in] : discovered[call[k].in][c] # "awaited"
  BY DEF Return, Found
<1>2. \A q \in Collection : Listed(q)' = Listed(q)
  BY <1>1 DEF Listed
<1>3. \A q \in Collection : ListOK(q)'
  BY <1>1, ListsStay DEF Inv
<1>4. ASSUME NEW l \in Caller PROVE CallOK(l)'
  <2>1. call[l].in \in Collection
    BY ConstantsAssumption DEF Inv, Call
  <2>2. Found(l)' = Found(l)
    BY <1>1 DEF Found, Matches, WithMetaAtKey, ClassMethodsWithMetaAtKey
  <2>3. CASE l = k
    BY <1>1, <1>2, <2>1, <2>2, <2>3 DEF Inv, CallOK
  <2>4. CASE l # k
    BY <1>1, <1>2, <2>1, <2>2, <2>4 DEF Inv, CallOK
  <2> QED
    BY <2>3, <2>4
<1> QED
  BY <1>1, <1>3, <1>4 DEF Inv

LEMMA NextInv == Inv /\ [Next]_vars => Inv'
<1> SUFFICES ASSUME Inv, [Next]_vars PROVE Inv'
  OBVIOUS
<1>1. ASSUME NEW c \in Component, Begin(c) \/ Finish(c) PROVE Inv'
  <2>1. built' \in [Component -> {"none", "pending", "resolved"}]
    BY <1>1 DEF Begin, Finish, Inv
  <2>2. UNCHANGED <<wrapper, call, discovered, stage, answer, notBegun>>
    BY <1>1 DEF Begin, Finish
  <2> QED
    BY <2>1, <2>2, QuietInv
<1>2. CASE UNCHANGED vars
  <2>1. built' \in [Component -> {"none", "pending", "resolved"}]
    BY <1>2 DEF vars, Inv
  <2> QED
    BY <1>2, <2>1, QuietInv DEF vars
<1> QED
  BY <1>1, <1>2, DiscoverInv, AwaitedInv, ReturnInv DEF Next

LEMMA InvHolds == FairSpec => []Inv
BY InitInv, NextInv, PTL DEF FairSpec

-------------------------------------------------------------------------------
\* However components are built and whoever calls first, a call gets exactly those
\* components built that Nest makes one instance of, and that had begun when their
\* collection was first listed (toDiscoveredClass awaits what is under way).
THEOREM BuiltIsFoundHolds == FairSpec => []BuiltIsFound
<1>1. ASSUME Inv PROVE BuiltIsFound
  <2> SUFFICES ASSUME NEW k \in Caller, NEW c \in Listed(call[k].in),
                      stage[k] = "answered", call[k].op \in wrapper[c].meta
               PROVE  <<c, "instance">> \in answer[k] <=>
                          c \in Singleton /\ c \notin notBegun[call[k].in]
    BY DEF BuiltIsFound
  <2> DEFINE q == call[k].in
  <2>1. q \in Collection /\ call[k].op \in {"class", "method"}
    BY <1>1, ConstantsAssumption DEF Inv, Call
  <2>2. /\ c \in DOMAIN discovered[q]
        /\ discovered[q][c] # "awaited"
        /\ EntryOK(q, c, discovered[q][c])
        /\ answer[k] = Found(k)
    BY <1>1, <2>1 DEF Inv, ListOK, CallOK
  <2>3. Matches(k, c, "instance")
    BY <2>1 DEF Matches, WithMetaAtKey, ClassMethodsWithMetaAtKey
  <2>4. discovered[q][c] = "instance" <=> c \in Singleton /\ c \notin notBegun[q]
    BY <2>2 DEF EntryOK, Unbuilt
  <2>5. <<c, "instance">> \in Found(k) <=> discovered[q][c] = "instance"
    BY <2>2, <2>3 DEF Found
  <2> QED
    BY <2>2, <2>4, <2>5
<1> QED
  BY <1>1, InvHolds, PTL

\* Calls that ask for the same get the same, however long after one another.
THEOREM SameForAllHolds == FairSpec => []SameForAll
<1>1. ASSUME Inv PROVE SameForAll
  <2> SUFFICES ASSUME NEW k \in Caller, NEW l \in Caller,
                      stage[k] = "answered", stage[l] = "answered",
                      call[k].in = call[l].in, call[k].op = call[l].op
               PROVE  answer[k] = answer[l]
    BY DEF SameForAll
  <2>1. answer[k] = Found(k) /\ answer[l] = Found(l)
    BY <1>1 DEF Inv, CallOK
  <2>2. Found(k) = Found(l)
    BY DEF Found, Matches
  <2> QED
    BY <2>1, <2>2
<1> QED
  BY <1>1, InvHolds, PTL
================================================================================
