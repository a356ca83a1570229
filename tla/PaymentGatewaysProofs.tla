------------------------ MODULE PaymentGatewaysProofs ------------------------
(***************************************************************************)
(* Theorems about PaymentGateways, for any number of calls and payments    *)
(* and any amounts.                                                        *)
(***************************************************************************)
EXTENDS PaymentGateways, FiniteSetTheorems, WellFoundedInduction, TLAPS

\* A request under way has had no effect, and its call waits or has given up.
UnderWay ==
    \A c \in network : stage[c] \in {"waiting", "rejected"} /\ c \notin done

\* A reply is the only one to its call, which waits for it, and it tells the truth.
Truthful(kind, c) ==
    /\ kind = "ok" => c \in done
    /\ kind = "refused" => c \notin done

Replies ==
    \A x \in replies :
        /\ stage[x[1]] = "waiting" /\ x[1] \notin network
        /\ Truthful(x[2], x[1])
        /\ \A y \in replies : y[1] = x[1] => y = x

\* So does an answer; a call that has one has nothing under way, and one that has
\* not made its request has had no effect.
Answered ==
    \A c \in Call :
        /\ answer[c] # "none" <=> stage[c] = "resolved"
        /\ Truthful(answer[c], c)
        /\ stage[c] = "new" => request[c] = NoRequest
        /\ stage[c] # "new" => request[c] \in Request
        /\ stage[c] \in {"new", "login"} => c \notin done

Inv == TypeOK /\ UnderWay /\ Replies /\ Answered

-------------------------------------------------------------------------------
LEMMA InitInv == Init => Inv
<1>1. ASSUME Init PROVE Inv
  BY <1>1 DEF Init, Inv, TypeOK, UnderWay, Replies, Answered, Truthful
<1> QED
  BY <1>1

\* The start of a call.
LEMMA CallStarts ==
    ASSUME Inv, NEW c \in Call, NEW r \in Request, CallPortone(c, r) \/ CallToss(c, r)
    PROVE  Inv'
<1>1. /\ stage[c] = "new" /\ c \notin done /\ answer[c] = "none"
      /\ c \notin network /\ \A x \in replies : x[1] # c
  BY DEF Inv, TypeOK, UnderWay, Replies, Answered, CallPortone, CallToss
<1>2. /\ request' = [request EXCEPT ![c] = r] /\ answer' = answer /\ token' = token
      /\ replies' = replies /\ done' = done /\ refunded' = refunded
      /\ \E s \in {"login", "waiting"} : stage' = [stage EXCEPT ![c] = s]
      /\ \/ network' = network
         \/ stage'[c] = "waiting" /\ network' = network \cup {c}
  <2>1. stage \in [Call -> {"new", "login", "waiting", "resolved", "rejected"}]
    BY DEF Inv, TypeOK
  <2>2. CASE CallPortone(c, r)
    BY <2>1, <2>2 DEF CallPortone, providerVars
  <2>3. CASE CallToss(c, r)
    BY <2>1, <2>3 DEF CallToss, providerVars
  <2> QED
    BY <2>2, <2>3
<1>3. TypeOK'
  BY <1>2 DEF Inv, TypeOK
<1>4. UnderWay'
  BY <1>1, <1>2 DEF Inv, TypeOK, UnderWay
<1>5. Replies'
  BY <1>1, <1>2 DEF Inv, TypeOK, Replies, Truthful
<1>6. Answered'
  BY <1>1, <1>2 DEF Inv, TypeOK, Answered, Truthful
<1> QED
  BY <1>3, <1>4, <1>5, <1>6 DEF Inv

\* The login.
LEMMA LoginEnds ==
    ASSUME Inv, NEW c \in Call, GetToken(c) \/ GetTokenFails(c)
    PROVE  Inv'
<1>1. /\ stage[c] = "login" /\ c \notin done /\ answer[c] = "none"
      /\ c \notin network /\ \A x \in replies : x[1] # c
  BY DEF Inv, TypeOK, UnderWay, Replies, Answered, GetToken, GetTokenFails
<1>2. /\ request' = request /\ answer' = answer
      /\ replies' = replies /\ done' = done /\ refunded' = refunded
      /\ token' \in [Call -> {"none", "valid", "undefined"}]
      /\ \E s \in {"rejected", "waiting"} : stage' = [stage EXCEPT ![c] = s]
      /\ \/ network' = network
         \/ stage'[c] = "waiting" /\ network' = network \cup {c}
  <2>1. /\ stage \in [Call -> {"new", "login", "waiting", "resolved", "rejected"}]
        /\ token \in [Call -> {"none", "valid", "undefined"}]
    BY DEF Inv, TypeOK
  <2>2. CASE GetToken(c)
    BY <2>1, <2>2 DEF GetToken, providerVars
  <2>3. CASE GetTokenFails(c)
    BY <2>1, <2>3 DEF GetTokenFails, providerVars
  <2> QED
    BY <2>2, <2>3
<1>3. TypeOK'
  BY <1>2 DEF Inv, TypeOK
<1>4. UnderWay'
  BY <1>1, <1>2 DEF Inv, TypeOK, UnderWay
<1>5. Replies'
  BY <1>1, <1>2 DEF Inv, TypeOK, Replies, Truthful
<1>6. Answered'
  BY <1>1, <1>2 DEF Inv, TypeOK, Answered, Truthful
<1> QED
  BY <1>3, <1>4, <1>5, <1>6 DEF Inv

\* The end of a call.
LEMMA CallEnds ==
    ASSUME Inv, NEW c \in Call, ReadAnswer(c) \/ CallFails(c)
    PROVE  Inv'
<1>1. stage[c] = "waiting" /\ answer[c] = "none"
  BY DEF Inv, Answered, ReadAnswer, CallFails
<1>2. /\ request' = request /\ token' = token /\ network' = network
      /\ done' = done /\ refunded' = refunded
  BY DEF ReadAnswer, CallFails, providerVars
<1>3. /\ replies' \subseteq replies
      /\ \A x \in replies' : x[1] # c
  BY DEF ReadAnswer, CallFails, Inv, Replies
<1>4. \/ \E x \in replies : /\ x[1] = c /\ answer' = [answer EXCEPT ![c] = x[2]]
                            /\ stage' = [stage EXCEPT ![c] = "resolved"]
      \/ answer' = answer /\ stage' = [stage EXCEPT ![c] = "rejected"]
  BY DEF ReadAnswer, CallFails
<1>5. TypeOK'
  BY <1>2, <1>3, <1>4 DEF Inv, TypeOK
<1>6. UnderWay'
  BY <1>2, <1>4 DEF Inv, TypeOK, UnderWay, Replies
<1>7. Replies'
  BY <1>2, <1>3, <1>4 DEF Inv, TypeOK, Replies, Truthful
<1>8. Answered'
  <2>1. CASE \E x \in replies : /\ x[1] = c /\ answer' = [answer EXCEPT ![c] = x[2]]
                                /\ stage' = [stage EXCEPT ![c] = "resolved"]
    BY <1>1, <1>2, <2>1 DEF Inv, TypeOK, Replies, Answered, Truthful, Kind
  <2>2. CASE answer' = answer /\ stage' = [stage EXCEPT ![c] = "rejected"]
    BY <1>1, <1>2, <2>2 DEF Inv, TypeOK, Answered, Truthful
  <2> QED
    BY <1>4, <2>1, <2>2
<1> QED
  BY <1>5, <1>6, <1>7, <1>8 DEF Inv

\* What a provider does for a call that it has not acted on.
LEMMA DoesKeeps ==
    ASSUME Inv, NEW c \in network, Does(c), request' = request
    PROVE  /\ done' = done \cup {c}
           /\ refunded' \in [Gateways \X Payment -> Nat]
<1>1. c \in Call /\ c \notin done /\ request[c] \in Request
  BY DEF Inv, TypeOK, UnderWay, Answered
<1>2. done' = done \cup {c}
  BY DEF Does
<1>3. refunded' \in [Gateways \X Payment -> Nat]
  <2>1. SentAmount(c) \in Nat
    BY <1>1, ConstantsAssumption DEF SentAmount, Request
  <2>2. refunded \in [Gateways \X Payment -> Nat]
    BY DEF Inv, TypeOK
  <2> DEFINE k == <<request[c].gateway, request[c].payment>>
  <2>3. k \in Gateways \X Payment
    BY <1>1 DEF Request
  <2>4. refunded' = refunded \/ refunded' = [refunded EXCEPT ![k] = @ + SentAmount(c)]
    BY DEF Does
  <2> HIDE DEF k
  <2> QED
    BY <2>1, <2>2, <2>3, <2>4
<1> QED
  BY <1>2, <1>3

\* A request reaches the provider, and is acted on or not; or it is lost.
LEMMA RequestEnds ==
    ASSUME Inv, NEW c \in Call,
           \/ ProviderAccepts(c) \/ ProviderErrs(c)
           \/ ProviderRefuses(c) \/ RequestLost(c)
    PROVE  Inv'
<1>0. c \in network /\ c \notin done
  BY DEF ProviderAccepts, ProviderErrs, ProviderRefuses, RequestLost, Inv, UnderWay
<1>1. /\ request' = request /\ answer' = answer /\ stage' = stage /\ token' = token
      /\ network' = network \ {c}
  BY DEF ProviderAccepts, ProviderErrs, ProviderRefuses, RequestLost, Answers, callVars
<1>2. /\ done' = done \cup {c} \/ done' = done
      /\ refunded' \in [Gateways \X Payment -> Nat]
  <2>1. CASE UNCHANGED providerVars
    BY <2>1, <1>1 DEF providerVars, Inv, TypeOK
  <2>2. CASE Does(c)
    BY <2>2, <1>0, <1>1, DoesKeeps
  <2> QED
    BY <2>1, <2>2 DEF ProviderAccepts, ProviderErrs, ProviderRefuses, RequestLost
<1>3. \/ replies' = replies
      \/ /\ stage[c] = "waiting"
         /\ \E kind \in Kind : /\ replies' = replies \cup {<<c, kind>>}
                               /\ kind = "ok" => done' = done \cup {c}
                               /\ kind = "refused" => done' = done
  BY DEF ProviderAccepts, ProviderErrs, ProviderRefuses, RequestLost, Answers, Does,
         Kind, providerVars
<1>4. \A x \in replies : x[1] # c
  BY <1>0 DEF Inv, Replies
<1>5. stage[c] \in {"waiting", "rejected"}
  BY <1>0 DEF Inv, UnderWay
<1>6. TypeOK'
  BY <1>0, <1>1, <1>2, <1>3 DEF Inv, TypeOK
<1>7. UnderWay'
  BY <1>1, <1>2 DEF Inv, UnderWay
<1>8. Replies'
  BY <1>0, <1>1, <1>2, <1>3, <1>4 DEF Inv, Replies, Truthful
<1>9. Answered'
  BY <1>0, <1>1, <1>2, <1>5 DEF Inv, Answered, Truthful
<1> QED
  BY <1>2, <1>6, <1>7, <1>8, <1>9 DEF Inv

LEMMA NextInv == Inv /\ [Next]_vars => Inv'
<1> SUFFICES ASSUME Inv, [Next]_vars PROVE Inv'
  OBVIOUS
<1>1. CASE UNCHANGED vars
  BY <1>1 DEF vars, callVars, providerVars, Inv, TypeOK, UnderWay, Replies, Answered,
     Truthful
<1>2. CASE Next
  BY <1>2, CallStarts, LoginEnds, CallEnds, RequestEnds DEF Next
<1> QED
  BY <1>1, <1>2

LEMMA InvHolds == Spec => []Inv
  BY InitInv, NextInv, PTL DEF Spec

-------------------------------------------------------------------------------
\* Every variable of PaymentGateways stays in its set of values.
THEOREM TypeHolds == Spec => []TypeOK
<1>1. Inv => TypeOK
  BY DEF Inv
<1> QED
  BY <1>1, InvHolds, PTL

-------------------------------------------------------------------------------
(* The refinement *)

LEMMA InitRefines == Init => Promise!OutcomeInit
BY DEF Init, Told, Means, Promise!OutcomeInit

\* Where one call's answer and stage change, one caller is told something.
LEMMA OneIsTold ==
    ASSUME NEW c \in Call,
           \A d \in Call : d # c => answer'[d] = answer[d] /\ stage'[d] = stage[d]
    PROVE  Told' = [Told EXCEPT ![c] = IF stage'[c] = "rejected" THEN "unknown"
                                                                 ELSE Means[answer'[c]]]
BY DEF Told

\* A call that comes back tells its caller something.
LEMMA BackRefines ==
    ASSUME Inv, NEW c \in Call, ReadAnswer(c) \/ CallFails(c) \/ GetTokenFails(c)
    PROVE  Promise!OutcomeNext
<1>1. stage[c] \in {"login", "waiting"} /\ answer[c] = "none" /\ done' = done
  BY DEF Inv, Answered, ReadAnswer, CallFails, GetTokenFails, providerVars
<1>2. Told[c] = "nothing"
  BY <1>1 DEF Told, Means
<1>3. \/ answer' = answer /\ stage' = [stage EXCEPT ![c] = "rejected"]
      \/ \E kind \in Kind :
            /\ answer' = [answer EXCEPT ![c] = kind]
            /\ stage' = [stage EXCEPT ![c] = "resolved"]
            /\ Truthful(kind, c)
  <2>1. CASE ReadAnswer(c)
    <3>1. PICK x \in replies : x[1] = c /\ answer' = [answer EXCEPT ![c] = x[2]]
      BY <2>1 DEF ReadAnswer
    <3>2. x[2] \in Kind /\ Truthful(x[2], c)
      BY <3>1 DEF Inv, TypeOK, Replies
    <3> QED
      BY <2>1, <3>1, <3>2 DEF ReadAnswer
  <2>2. CASE CallFails(c) \/ GetTokenFails(c)
    BY <2>2 DEF CallFails, GetTokenFails
  <2> QED
    BY <2>1, <2>2
<1>4. \E what \in {"done", "notDone", "unknown"} :
         /\ Told' = [Told EXCEPT ![c] = what]
         /\ what = "done" => c \in done
         /\ what = "notDone" => c \notin done
  <2>1. CASE answer' = answer /\ stage' = [stage EXCEPT ![c] = "rejected"]
    <3>1. Told' = [Told EXCEPT ![c] = "unknown"]
      <4>1. stage'[c] = "rejected"
        BY <1>1, <2>1 DEF Inv, TypeOK
      <4>2. \A d \in Call : d # c => answer'[d] = answer[d] /\ stage'[d] = stage[d]
        BY <2>1 DEF Inv, TypeOK
      <4> QED
        BY <4>1, <4>2, OneIsTold
    <3> QED
      BY <3>1
  <2>2. ASSUME NEW kind \in Kind,
               answer' = [answer EXCEPT ![c] = kind],
               stage' = [stage EXCEPT ![c] = "resolved"], Truthful(kind, c)
        PROVE  \E what \in {"done", "notDone", "unknown"} :
                  /\ Told' = [Told EXCEPT ![c] = what]
                  /\ what = "done" => c \in done
                  /\ what = "notDone" => c \notin done
    <3>1. Told' = [Told EXCEPT ![c] = Means[kind]]
      <4>1. answer'[c] = kind /\ stage'[c] = "resolved"
        BY <2>2 DEF Inv, TypeOK
      <4>2. \A d \in Call : d # c => answer'[d] = answer[d] /\ stage'[d] = stage[d]
        BY <2>2 DEF Inv, TypeOK
      <4> QED
        BY <4>1, <4>2, OneIsTold
    <3>2. /\ Means[kind] \in {"done", "notDone", "unknown"}
          /\ Means[kind] = "done" => c \in done
          /\ Means[kind] = "notDone" => c \notin done
      BY <2>2 DEF Kind, Truthful, Means
    <3> QED
      BY <3>1, <3>2
  <2> QED
    BY <1>3, <2>1, <2>2
<1>5. PICK what \in {"done", "notDone", "unknown"} : Promise!Tell(c, what)
  BY <1>1, <1>2, <1>4 DEF Promise!Tell
<1> QED
  BY <1>5 DEF Promise!OutcomeNext

\* A request that ends acts or changes nothing that CallOutcomes sees.
LEMMA RequestRefines ==
    ASSUME Inv, NEW c \in Call,
           \/ ProviderAccepts(c) \/ ProviderErrs(c)
           \/ ProviderRefuses(c) \/ RequestLost(c)
    PROVE  Promise!OutcomeNext \/ UNCHANGED Promise!outcomeVars
<1>1. c \in network /\ UNCHANGED <<stage, answer>>
  BY DEF ProviderAccepts, ProviderErrs, ProviderRefuses, RequestLost, callVars
<1>2. Told' = Told
  BY <1>1 DEF Told
<1>3. done' = done \cup {c} \/ done' = done
  BY DEF ProviderAccepts, ProviderErrs, ProviderRefuses, RequestLost, Does, providerVars
<1>4. CASE done' = done
  BY <1>2, <1>4 DEF Promise!outcomeVars
<1>5. CASE done' = done \cup {c}
  <2>1. c \notin done /\ answer[c] = "none"
    BY <1>1 DEF Inv, UnderWay, Answered
  <2>2. Told[c] \in {"nothing", "unknown"}
    BY <2>1 DEF Told, Means
  <2>3. Promise!Act(c)
    BY <1>2, <1>5, <2>1, <2>2 DEF Promise!Act
  <2> QED
    BY <2>3 DEF Promise!OutcomeNext
<1> QED
  BY <1>3, <1>4, <1>5

\* A call that starts, or has logged in, tells nothing.
LEMMA StartRefines ==
    ASSUME Inv, NEW c \in Call,
           GetToken(c) \/ \E r \in Request : CallPortone(c, r) \/ CallToss(c, r)
    PROVE  UNCHANGED Promise!outcomeVars
<1>1. stage[c] \in {"new", "login"} /\ UNCHANGED <<answer, done>>
  BY DEF GetToken, CallPortone, CallToss, providerVars
<1>2. PICK s \in {"login", "waiting"} : stage' = [stage EXCEPT ![c] = s]
  BY DEF GetToken, CallPortone, CallToss
<1>3. Told' = Told
  BY <1>1, <1>2 DEF Told, Inv, TypeOK
<1> QED
  BY <1>1, <1>3 DEF Promise!outcomeVars

LEMMA NextRefines ==
    ASSUME Inv, [Next]_vars
    PROVE  [Promise!OutcomeNext]_(Promise!outcomeVars)
<1>1. CASE UNCHANGED vars
  <2>1. Told' = Told
    BY <1>1 DEF vars, callVars, Told
  <2> QED
    BY <1>1, <2>1 DEF vars, providerVars, Promise!outcomeVars
<1>2. CASE Next
  BY <1>2, BackRefines, RequestRefines, StartRefines DEF Next
<1> QED
  BY <1>1, <1>2

\* PaymentGateways implements CallOutcomes: whatever request or answer is lost or late,
\* each call acts at most once, and what a status told its caller stays true.
THEOREM KeepsOutcomeHolds == Spec => KeepsOutcome
<1>1. Init => Promise!OutcomeInit
  BY InitRefines
<1>2. Inv /\ [Next]_vars => [Promise!OutcomeNext]_(Promise!outcomeVars)
  BY NextRefines
<1> QED
  BY <1>1, <1>2, InvHolds, PTL DEF Spec, KeepsOutcome, Promise!OutcomeSpec

-------------------------------------------------------------------------------
(* Sums.  Total is a recursive function on the subsets of a set of calls, given *)
(* by CHOOSE: that there is such a function, and that it is the same for every  *)
(* set it is taken on, has to be shown before anything follows from it.  The    *)
(* inductions are on a least counterexample.                                    *)

LEMMA LeastNumber ==
    ASSUME NEW T \in SUBSET Nat, T # {}
    PROVE  \E m \in T : \A k \in T : m <= k
<1> DEFINE R == {ss \in Nat \X Nat : ss[1] < ss[2]}
<1>1. IsWellFoundedOn(R, Nat)
  BY NatLessThanWellFounded DEF OpToRel
<1>2. PICK m \in T : \A k \in T : <<k, m>> \notin R
  <2> HIDE DEF R
  <2> QED
    BY <1>1, WFMin, Zenon
<1>3. \A k \in T : <<k, m>> \in Nat \X Nat /\ ~ k < m
  BY <1>2
<1>4. ASSUME NEW k \in T PROVE m <= k
  <2>1. k \in Nat /\ m \in Nat /\ ~ k < m
    BY <1>3
  <2> QED
    BY <2>1
<1> QED
  BY <1>4

LEMMA MinimalSet ==
    ASSUME NEW S, IsFiniteSet(S), NEW B \in SUBSET SUBSET S, B # {}
    PROVE  \E s \in B : \A u \in B : u \subseteq s => u = s
<1>1. IsWellFoundedOn(StrictSubsetOrdering(S), FiniteSubsetsOf(S))
  BY FS_StrictSubsetOrderingWellFounded
<1>2. B \subseteq FiniteSubsetsOf(S)
  BY FS_FiniteSubsetsOfFinite
<1>3. PICK s \in B : \A u \in B : <<u, s>> \notin StrictSubsetOrdering(S)
  BY <1>1, <1>2, WFMin, Zenon
<1>4. \A u \in B : u \subseteq s => u = s
  BY <1>3 DEF StrictSubsetOrdering
<1> QED
  BY <1>4

\* The element that the sum takes first.
FirstOf(calls) == CHOOSE c \in calls : TRUE

\* Function g sums the sets of calls in D.
Sums(g, asked, D) ==
    g = [s \in D |-> IF s = {} THEN 0
                               ELSE asked[FirstOf(s)].amount + g[s \ {FirstOf(s)}]]

SumOn(asked, calls) == CHOOSE g : Sums(g, asked, SUBSET calls)

LEMMA TotalIsSum ==
    ASSUME NEW asked, NEW calls
    PROVE  Total(asked, calls) = SumOn(asked, calls)[calls]
BY DEF Total, SumOn, MapThenSumSet, MapThenFoldSet, Sums, FirstOf

AtMost(n, calls) == {s \in SUBSET calls : Cardinality(s) <= n}

LEMMA SumsOneMore ==
    ASSUME NEW asked, NEW calls, IsFiniteSet(calls), NEW n \in Nat,
           NEW g, Sums(g, asked, AtMost(n, calls))
    PROVE  \E h : Sums(h, asked, AtMost(n + 1, calls))
<1> DEFINE D == AtMost(n + 1, calls)
           h == [s \in D |-> IF s = {} THEN 0
                                       ELSE asked[FirstOf(s)].amount + g[s \ {FirstOf(s)}]]
           hh == [s \in D |-> IF s = {} THEN 0
                                        ELSE asked[FirstOf(s)].amount + h[s \ {FirstOf(s)}]]
<1>1. ASSUME NEW s \in AtMost(n, calls)
      PROVE  h[s] = g[s]
  <2>1. s \in D
    BY FS_CardinalityType, FS_Subset DEF AtMost
  <2>2. h[s] = IF s = {} THEN 0 ELSE asked[FirstOf(s)].amount + g[s \ {FirstOf(s)}]
    BY <2>1
  <2>3. g[s] = IF s = {} THEN 0 ELSE asked[FirstOf(s)].amount + g[s \ {FirstOf(s)}]
    BY Zenon DEF Sums
  <2> QED
    BY <2>2, <2>3
<1>2. ASSUME NEW s \in D, s # {}
      PROVE  s \ {FirstOf(s)} \in AtMost(n, calls)
  BY <1>2, FS_CardinalityType, FS_RemoveElement, FS_Subset DEF AtMost, FirstOf
<1>3. ASSUME NEW s \in D PROVE h[s] = hh[s]
  <2>1. h[s] = IF s = {} THEN 0 ELSE asked[FirstOf(s)].amount + g[s \ {FirstOf(s)}]
    OBVIOUS
  <2>2. hh[s] = IF s = {} THEN 0 ELSE asked[FirstOf(s)].amount + h[s \ {FirstOf(s)}]
    OBVIOUS
  <2> HIDE DEF h, hh
  <2> QED
    BY <1>1, <1>2, <2>1, <2>2
<1>4. h = hh
  <2>1. /\ h = [s \in D |-> h[s]]
        /\ hh = [s \in D |-> hh[s]]
    OBVIOUS
  <2> HIDE DEF h, hh
  <2> QED
    BY <1>3, <2>1
<1>5. Sums(h, asked, D)
  BY <1>4 DEF Sums
<1> QED
  BY <1>5

LEMMA SumExists ==
    ASSUME NEW asked, NEW calls, IsFiniteSet(calls)
    PROVE  Sums(SumOn(asked, calls), asked, SUBSET calls)
<1> DEFINE T == {n \in Nat : ~ \E g : Sums(g, asked, AtMost(n, calls))}
<1>1. T = {}
  <2> SUFFICES ASSUME T # {} PROVE FALSE
    OBVIOUS
  <2>1. T \in SUBSET Nat
    OBVIOUS
  <2>2. PICK m \in T : \A k \in T : m <= k
    <3> HIDE DEF T
    <3> QED
      BY <2>1, LeastNumber
  <2>3. CASE m = 0
    <3> DEFINE g == [s \in {{}} |-> 0]
    <3>1. AtMost(0, calls) = {{}}
      BY FS_EmptySet, FS_Subset, FS_CardinalityType DEF AtMost
    <3>2. Sums(g, asked, AtMost(0, calls))
      BY <3>1 DEF Sums
    <3> QED
      BY <3>2, <2>3
  <2>4. CASE m # 0
    <3>1. m - 1 \in Nat /\ m - 1 \notin T
      BY <2>2, <2>4
    <3>2. PICK g : Sums(g, asked, AtMost(m - 1, calls))
      BY <3>1
    <3>3. \E h : Sums(h, asked, AtMost((m - 1) + 1, calls))
      BY <3>1, <3>2, SumsOneMore
    <3>4. (m - 1) + 1 = m
      BY <2>1
    <3> QED
      BY <3>3, <3>4
  <2> QED
    BY <2>3, <2>4
<1>2. AtMost(Cardinality(calls), calls) = SUBSET calls
  BY FS_Subset, FS_CardinalityType DEF AtMost
<1>3. Cardinality(calls) \in Nat /\ Cardinality(calls) \notin T
  BY <1>1, FS_CardinalityType
<1>4. \E g : Sums(g, asked, SUBSET calls)
  BY <1>2, <1>3
<1> QED
  BY <1>4, Zenon DEF SumOn

LEMMA SumsAgree ==
    ASSUME NEW asked, NEW A, NEW S \in SUBSET A, IsFiniteSet(S), NEW g, NEW h,
           Sums(g, asked, SUBSET A), Sums(h, asked, SUBSET S)
    PROVE  g[S] = h[S]
<1> DEFINE B == {s \in SUBSET S : g[s] # h[s]}
<1> SUFFICES ASSUME B # {} PROVE FALSE
  OBVIOUS
<1>1. PICK s \in B : \A u \in B : u \subseteq s => u = s
  <2>1. B \in SUBSET SUBSET S
    OBVIOUS
  <2> HIDE DEF B
  <2> QED
    BY <2>1, MinimalSet
<1>2. /\ g[s] = IF s = {} THEN 0 ELSE asked[FirstOf(s)].amount + g[s \ {FirstOf(s)}]
      /\ h[s] = IF s = {} THEN 0 ELSE asked[FirstOf(s)].amount + h[s \ {FirstOf(s)}]
  <2>1. s \in SUBSET A /\ s \in SUBSET S
    OBVIOUS
  <2> HIDE DEF B
  <2> QED
    BY <2>1, Zenon DEF Sums
<1>3. s # {}
  BY <1>2
<1>4. FirstOf(s) \in s
  BY <1>3 DEF FirstOf
<1>5. s \ {FirstOf(s)} \notin B
  BY <1>1, <1>4
<1> QED
  BY <1>2, <1>3, <1>5

LEMMA TotalEquation ==
    ASSUME NEW asked, NEW S, IsFiniteSet(S), S # {}
    PROVE  Total(asked, S) = asked[FirstOf(S)].amount + Total(asked, S \ {FirstOf(S)})
<1> DEFINE U == S \ {FirstOf(S)}
<1>1. IsFiniteSet(U)
  BY FS_RemoveElement
<1>2. SumOn(asked, S)[S] = asked[FirstOf(S)].amount + SumOn(asked, S)[U]
  <2>1. Sums(SumOn(asked, S), asked, SUBSET S) /\ S \in SUBSET S
    BY SumExists
  <2>2. SumOn(asked, S)[S] =
            IF S = {} THEN 0 ELSE asked[FirstOf(S)].amount + SumOn(asked, S)[U]
    BY <2>1, Zenon DEF Sums
  <2> QED
    BY <2>2
<1>3. SumOn(asked, S)[U] = SumOn(asked, U)[U]
  <2>1. Sums(SumOn(asked, S), asked, SUBSET S) /\ Sums(SumOn(asked, U), asked, SUBSET U)
    BY <1>1, SumExists
  <2>2. U \in SUBSET S
    OBVIOUS
  <2> HIDE DEF U
  <2> QED
    BY <1>1, <2>1, <2>2, SumsAgree
<1> QED
  BY <1>2, <1>3, TotalIsSum

LEMMA TotalEmpty == ASSUME NEW asked PROVE Total(asked, {}) = 0
<1>1. Sums(SumOn(asked, {}), asked, SUBSET {})
  BY SumExists, FS_EmptySet
<1>2. {} \in SUBSET {}
  OBVIOUS
<1>3. SumOn(asked, {})[{}] = 0
  BY <1>1, <1>2, Zenon DEF Sums
<1> QED
  BY <1>3, TotalIsSum

LEMMA TotalIsNat ==
    ASSUME NEW asked, NEW S, IsFiniteSet(S), \A c \in S : asked[c].amount \in Nat
    PROVE  Total(asked, S) \in Nat
<1> DEFINE B == {s \in SUBSET S : Total(asked, s) \notin Nat}
<1> SUFFICES ASSUME B # {} PROVE FALSE
  OBVIOUS
<1>1. PICK s \in B : \A u \in B : u \subseteq s => u = s
  <2>1. B \in SUBSET SUBSET S
    OBVIOUS
  <2> HIDE DEF B
  <2> QED
    BY <2>1, MinimalSet
<1>2. s # {}
  BY TotalEmpty
<1>3. FirstOf(s) \in s
  BY <1>2 DEF FirstOf
<1>4. s \ {FirstOf(s)} \notin B
  BY <1>1, <1>3
<1>5. Total(asked, s \ {FirstOf(s)}) \in Nat /\ asked[FirstOf(s)].amount \in Nat
  BY <1>3, <1>4
<1>6. Total(asked, s) = asked[FirstOf(s)].amount + Total(asked, s \ {FirstOf(s)})
  BY <1>2, FS_Subset, TotalEquation
<1> QED
  BY <1>5, <1>6

\* A sum does not depend on the order in which it is taken.
LEMMA TotalOfOneLess ==
    ASSUME NEW asked, NEW S, IsFiniteSet(S), \A c \in S : asked[c].amount \in Nat
    PROVE  \A c \in S : Total(asked, S) = asked[c].amount + Total(asked, S \ {c})
<1> DEFINE Holds(s) == \A c \in s : Total(asked, s) = asked[c].amount + Total(asked, s \ {c})
           B == {s \in SUBSET S : ~ Holds(s)}
<1> SUFFICES ASSUME B # {} PROVE FALSE
  OBVIOUS
<1>1. PICK s \in B : \A u \in B : u \subseteq s => u = s
  <2>1. B \in SUBSET SUBSET S
    OBVIOUS
  <2> HIDE DEF B
  <2> QED
    BY <2>1, MinimalSet
<1>2. PICK c \in s : Total(asked, s) # asked[c].amount + Total(asked, s \ {c})
  OBVIOUS
<1> DEFINE d == FirstOf(s)
<1>3. d \in s
  BY DEF FirstOf
<1>4. Holds(s \ {c}) /\ Holds(s \ {d})
  <2>1. s \ {c} \notin B /\ s \ {d} \notin B
    BY <1>1, <1>3
  <2>2. s \ {c} \in SUBSET S /\ s \ {d} \in SUBSET S
    OBVIOUS
  <2> QED
    BY <2>1, <2>2
<1>5. Total(asked, s) = asked[d].amount + Total(asked, s \ {d})
  BY FS_Subset, TotalEquation
<1>6. c # d
  BY <1>2, <1>5
<1>7. /\ Total(asked, s \ {d}) = asked[c].amount + Total(asked, (s \ {d}) \ {c})
      /\ Total(asked, s \ {c}) = asked[d].amount + Total(asked, (s \ {c}) \ {d})
  BY <1>3, <1>4, <1>6
<1>8. (s \ {d}) \ {c} = (s \ {c}) \ {d}
  OBVIOUS
<1>9. /\ asked[c].amount \in Nat /\ asked[d].amount \in Nat
      /\ Total(asked, (s \ {c}) \ {d}) \in Nat
  <2>1. (s \ {c}) \ {d} \in SUBSET S /\ c \in S /\ d \in S
    BY <1>3
  <2>2. IsFiniteSet((s \ {c}) \ {d})
    BY <2>1, FS_Subset
  <2> HIDE DEF d
  <2> QED
    BY <2>1, <2>2, TotalIsNat
<1>10. asked[d].amount + (asked[c].amount + Total(asked, (s \ {c}) \ {d})) =
          asked[c].amount + (asked[d].amount + Total(asked, (s \ {c}) \ {d}))
  BY <1>9
<1> HIDE DEF d, B, Holds
<1> QED
  BY <1>2, <1>5, <1>7, <1>8, <1>10

LEMMA TotalOfOneMore ==
    ASSUME NEW asked, NEW S, IsFiniteSet(S), \A c \in S : asked[c].amount \in Nat,
           NEW c, c \notin S, asked[c].amount \in Nat
    PROVE  Total(asked, S \cup {c}) = Total(asked, S) + asked[c].amount
<1>1. IsFiniteSet(S \cup {c}) /\ \A d \in S \cup {c} : asked[d].amount \in Nat
  BY FS_AddElement
<1>2. Total(asked, S \cup {c}) = asked[c].amount + Total(asked, (S \cup {c}) \ {c})
  BY <1>1, TotalOfOneLess
<1>3. (S \cup {c}) \ {c} = S
  OBVIOUS
<1>4. Total(asked, S \cup {c}) = asked[c].amount + Total(asked, S)
  BY <1>2, <1>3, Zenon
<1>5. Total(asked, S) \in Nat /\ asked[c].amount \in Nat
  BY TotalIsNat
<1>6. asked[c].amount + Total(asked, S) = Total(asked, S) + asked[c].amount
  BY <1>5
<1> QED
  BY <1>4, <1>6, Zenon

LEMMA TotalMonotone ==
    ASSUME NEW asked, NEW S, IsFiniteSet(S), \A c \in S : asked[c].amount \in Nat,
           NEW U \in SUBSET S
    PROVE  Total(asked, U) <= Total(asked, S)
<1> DEFINE B == {s \in SUBSET S : U \subseteq s /\ ~ Total(asked, U) <= Total(asked, s)}
<1> SUFFICES ASSUME B # {} PROVE FALSE
  OBVIOUS
<1>1. PICK s \in B : \A u \in B : u \subseteq s => u = s
  <2>1. B \in SUBSET SUBSET S
    OBVIOUS
  <2> HIDE DEF B
  <2> QED
    BY <2>1, MinimalSet
<1>2. \A u \in SUBSET S : IsFiniteSet(u) /\ \A c \in u : asked[c].amount \in Nat
  BY FS_Subset
<1>3. \A u \in SUBSET S : Total(asked, u) \in Nat
  BY <1>2, TotalIsNat
<1>4. s # U
  BY <1>3
<1>5. PICK c \in s : c \notin U
  BY <1>4
<1>6. s \ {c} \notin B
  BY <1>1, <1>5
<1>7. Total(asked, U) <= Total(asked, s \ {c})
  BY <1>5, <1>6
<1>8. Total(asked, s) = asked[c].amount + Total(asked, s \ {c})
  BY <1>2, TotalOfOneLess
<1>9. asked[c].amount \in Nat /\ Total(asked, s \ {c}) \in Nat
  BY <1>3
<1> QED
  BY <1>3, <1>7, <1>8, <1>9

LEMMA TotalSame ==
    ASSUME NEW asked, NEW other, NEW S, IsFiniteSet(S), \A c \in S : other[c] = asked[c]
    PROVE  Total(other, S) = Total(asked, S)
<1> DEFINE B == {s \in SUBSET S : Total(other, s) # Total(asked, s)}
<1> SUFFICES ASSUME B # {} PROVE FALSE
  OBVIOUS
<1>1. PICK s \in B : \A u \in B : u \subseteq s => u = s
  <2>1. B \in SUBSET SUBSET S
    OBVIOUS
  <2> HIDE DEF B
  <2> QED
    BY <2>1, MinimalSet
<1>2. s # {}
  BY TotalEmpty
<1>3. FirstOf(s) \in s
  BY <1>2 DEF FirstOf
<1>4. Total(other, s \ {FirstOf(s)}) = Total(asked, s \ {FirstOf(s)})
  BY <1>1, <1>3
<1>5. /\ Total(asked, s) = asked[FirstOf(s)].amount + Total(asked, s \ {FirstOf(s)})
      /\ Total(other, s) = other[FirstOf(s)].amount + Total(other, s \ {FirstOf(s)})
  BY <1>2, FS_Subset, TotalEquation
<1> QED
  BY <1>3, <1>4, <1>5

-------------------------------------------------------------------------------
(* The books *)

Started == {c \in Call : stage[c] # "new"}

\* What a provider has refunded of a payment are the refunds that it acted on, and no
\* more than it had charged; and it acts on no call to PortOne without a valid token.
Books ==
    /\ IsFiniteSet(Started)
    /\ \A c \in done : request[c].gateway = "portone" => token[c] = "valid"
    /\ \A g \in Gateways, p \in Payment :
          /\ refunded[<<g, p>>] = Total(request, RefundsOf(g, p) \cap done)
          /\ refunded[<<g, p>>] <= Total(request, ChargesOf(g, p))

\* The calls that have begun ask for amounts that can be summed.
LEMMA Summable ==
    ASSUME Inv, IsFiniteSet(Started), NEW S \in SUBSET Started
    PROVE  /\ IsFiniteSet(S)
           /\ \A c \in S : request[c].amount \in Nat
           /\ Total(request, S) \in Nat
<1>1. IsFiniteSet(S)
  BY FS_Subset
<1>2. ASSUME NEW c \in S PROVE request[c].amount \in Nat
  <2>1. request[c] \in Request
    BY DEF Started, Inv, Answered
  <2> QED
    BY <2>1, ConstantsAssumption DEF Request
<1> QED
  BY <1>1, <1>2, TotalIsNat

LEMMA DoneStarted == Inv => done \subseteq Started
BY DEF Inv, TypeOK, Answered, Started

LEMMA InitBooks == Init => Books
<1> SUFFICES ASSUME Init PROVE Books
  OBVIOUS
<1>1. Started = {} /\ done = {}
  BY DEF Init, Started
<1>2. ASSUME NEW g \in Gateways, NEW p \in Payment
      PROVE  /\ refunded[<<g, p>>] = 0
             /\ RefundsOf(g, p) \cap done = {} /\ ChargesOf(g, p) = {}
  BY <1>1 DEF Init, ChargesOf
<1>3. Total(request, {}) = 0
  BY TotalEmpty
<1> QED
  BY <1>1, <1>2, <1>3, FS_EmptySet DEF Books

\* At most one call begins in a step.
LEMMA StartedStaysFinite ==
    ASSUME Inv, IsFiniteSet(Started), [Next]_vars
    PROVE  IsFiniteSet(Started')
<1>1. CASE UNCHANGED vars
  BY <1>1 DEF vars, callVars, Started
<1>2. CASE Next
  <2>1. PICK c \in Call :
            \/ \E r \in Request : CallPortone(c, r) \/ CallToss(c, r)
            \/ GetToken(c) \/ GetTokenFails(c)
            \/ ReadAnswer(c) \/ CallFails(c)
            \/ ProviderAccepts(c) \/ ProviderErrs(c) \/ ProviderRefuses(c) \/ RequestLost(c)
    BY <1>2 DEF Next
  <2>2. \A d \in Call : d # c => stage'[d] = stage[d]
    BY <2>1 DEF Inv, TypeOK, CallPortone, CallToss, GetToken, GetTokenFails, ReadAnswer,
       CallFails, ProviderAccepts, ProviderErrs, ProviderRefuses, RequestLost, callVars
  <2>3. Started' \subseteq Started \cup {c}
    BY <2>2 DEF Started
  <2>4. IsFiniteSet(Started \cup {c})
    BY FS_AddElement
  <2> QED
    BY <2>3, <2>4, FS_Subset
<1> QED
  BY <1>1, <1>2

\* Where no provider acts, the books stay.
LEMMA BooksStay ==
    ASSUME Inv, Books, IsFiniteSet(Started'), UNCHANGED providerVars,
           \A c \in done : request'[c] = request[c] /\ token'[c] = token[c]
    PROVE  Books'
<1>1. done' = done /\ refunded' = refunded
  BY DEF providerVars
<1>2. \A c \in done : request'[c].gateway = "portone" => token'[c] = "valid"
  BY DEF Books
<1>3. ASSUME NEW g \in Gateways, NEW p \in Payment
      PROVE  /\ Total(request', RefundsOf(g, p)' \cap done) =
                    Total(request, RefundsOf(g, p) \cap done)
             /\ Total(request', ChargesOf(g, p)') = Total(request, ChargesOf(g, p))
  <2>1. /\ RefundsOf(g, p)' \cap done = RefundsOf(g, p) \cap done
        /\ ChargesOf(g, p)' = ChargesOf(g, p)
    BY <1>1 DEF RefundsOf, ChargesOf
  <2>2. IsFiniteSet(done)
    BY DoneStarted, FS_Subset DEF Books
  <2>3. IsFiniteSet(RefundsOf(g, p) \cap done) /\ IsFiniteSet(ChargesOf(g, p))
    BY <2>2, FS_Subset DEF ChargesOf
  <2>4. /\ \A c \in RefundsOf(g, p) \cap done : request'[c] = request[c]
        /\ \A c \in ChargesOf(g, p) : request'[c] = request[c]
    BY DEF ChargesOf
  <2> QED
    BY <2>1, <2>3, <2>4, TotalSame
<1> QED
  BY <1>1, <1>2, <1>3 DEF Books

\* A refund that a provider acts on is entered, and is no more than is left.
LEMMA RefundEntered ==
    ASSUME Inv, Books, NEW c \in network, Does(c), request' = request,
           request[c].op = "refund", NEW g \in Gateways, NEW p \in Payment
    PROVE  /\ refunded'[<<g, p>>] = Total(request', RefundsOf(g, p)' \cap done')
           /\ refunded'[<<g, p>>] <= Total(request', ChargesOf(g, p)')
<1> DEFINE k == <<request[c].gateway, request[c].payment>>
<1>1. c \in Call /\ c \notin done /\ request[c] \in Request /\ c \in Started
  BY DEF Inv, TypeOK, UnderWay, Answered, Started
<1>2. /\ done' = done \cup {c}
      /\ refunded' = [refunded EXCEPT ![k] = @ + request[c].amount]
      /\ request[c].amount <= Left(request[c].gateway, request[c].payment)
  BY DEF Does, SentAmount
<1>3. ChargesOf(g, p)' = ChargesOf(g, p)
  BY <1>2 DEF ChargesOf
<1>4. refunded \in [Gateways \X Payment -> Nat]
  BY DEF Inv, TypeOK
<1>5. /\ refunded[<<g, p>>] = Total(request, RefundsOf(g, p) \cap done)
      /\ refunded[<<g, p>>] <= Total(request, ChargesOf(g, p))
  BY DEF Books
<1>6. CASE k # <<g, p>>
  <2>1. refunded'[<<g, p>>] = refunded[<<g, p>>]
    BY <1>2, <1>4, <1>6
  <2>2. RefundsOf(g, p)' \cap done' = RefundsOf(g, p) \cap done
    BY <1>2, <1>6 DEF RefundsOf
  <2> QED
    BY <1>3, <1>5, <2>1, <2>2
<1>7. CASE k = <<g, p>>
  <2> DEFINE R == RefundsOf(g, p) \cap done
  <2>1. request[c].gateway = g /\ request[c].payment = p
    BY <1>7
  <2>2. RefundsOf(g, p)' \cap done' = R \cup {c}
    BY <1>1, <1>2, <2>1 DEF RefundsOf
  <2>3. R \in SUBSET Started /\ ChargesOf(g, p) \in SUBSET Started
    BY DoneStarted DEF ChargesOf
  <2>4. /\ IsFiniteSet(R) /\ \A d \in R : request[d].amount \in Nat
        /\ Total(request, R) \in Nat /\ Total(request, ChargesOf(g, p)) \in Nat
    BY <2>3, Summable DEF Books
  <2>5. request[c].amount \in Nat
    BY <1>1, ConstantsAssumption DEF Request
  <2>6. Total(request, R \cup {c}) = Total(request, R) + request[c].amount
    BY <1>1, <2>4, <2>5, TotalOfOneMore
  <2>7. refunded'[<<g, p>>] = refunded[<<g, p>>] + request[c].amount
    <3>1. <<g, p>> \in Gateways \X Payment
      OBVIOUS
    <3> HIDE DEF k
    <3> QED
      BY <1>2, <1>4, <1>7, <3>1
  <2>8. request[c].amount <= Total(request, ChargesOf(g, p)) - refunded[<<g, p>>]
    BY <1>2, <2>1 DEF Left
  <2>9. refunded[<<g, p>>] \in Nat
    BY <1>4
  <2> HIDE DEF R
  <2>10. refunded'[<<g, p>>] <= Total(request, ChargesOf(g, p))
    BY <2>4, <2>5, <2>7, <2>8, <2>9
  <2> QED
    BY <1>3, <1>5, <2>2, <2>6, <2>7, <2>10 DEF R
<1> QED
  BY <1>6, <1>7

\* A charge only adds to what can be refunded.
LEMMA ChargeEntered ==
    ASSUME Inv, Books, NEW c \in network, Does(c), request' = request,
           request[c].op # "refund", NEW g \in Gateways, NEW p \in Payment
    PROVE  /\ refunded'[<<g, p>>] = Total(request', RefundsOf(g, p)' \cap done')
           /\ refunded'[<<g, p>>] <= Total(request', ChargesOf(g, p)')
<1>1. c \in Call /\ c \in Started
  BY DEF Inv, TypeOK, UnderWay, Started
<1>2. done' = done \cup {c} /\ refunded' = refunded
  BY DEF Does
<1>3. RefundsOf(g, p)' \cap done' = RefundsOf(g, p) \cap done
  BY <1>2 DEF RefundsOf
<1>4. ChargesOf(g, p) \subseteq ChargesOf(g, p)' /\ ChargesOf(g, p)' \in SUBSET Started
  BY <1>1, <1>2, DoneStarted DEF ChargesOf
<1>5. /\ Total(request, ChargesOf(g, p)) \in Nat /\ Total(request, ChargesOf(g, p)') \in Nat
      /\ IsFiniteSet(ChargesOf(g, p)')
      /\ \A d \in ChargesOf(g, p)' : request[d].amount \in Nat
  BY <1>4, Summable DEF Books
<1>6. Total(request, ChargesOf(g, p)) <= Total(request, ChargesOf(g, p)')
  BY <1>4, <1>5, TotalMonotone
<1>7. /\ refunded[<<g, p>>] = Total(request, RefundsOf(g, p) \cap done)
      /\ refunded[<<g, p>>] <= Total(request, ChargesOf(g, p))
      /\ refunded[<<g, p>>] \in Nat
  BY DEF Books, Inv, TypeOK
<1>8. refunded'[<<g, p>>] <= Total(request, ChargesOf(g, p)')
  BY <1>2, <1>5, <1>6, <1>7
<1> QED
  BY <1>2, <1>3, <1>7, <1>8

LEMMA NextBooks == Inv /\ Books /\ [Next]_vars => Books'
<1> SUFFICES ASSUME Inv, Books, [Next]_vars PROVE Books'
  OBVIOUS
<1>1. IsFiniteSet(Started')
  BY StartedStaysFinite DEF Books
<1>2. CASE UNCHANGED vars
  BY <1>1, <1>2, BooksStay DEF vars, callVars
<1>3. CASE Next
  <2>1. PICK c \in Call :
            \/ \E r \in Request : CallPortone(c, r) \/ CallToss(c, r)
            \/ GetToken(c) \/ GetTokenFails(c)
            \/ ReadAnswer(c) \/ CallFails(c)
            \/ ProviderAccepts(c) \/ ProviderErrs(c) \/ ProviderRefuses(c) \/ RequestLost(c)
    BY <1>3 DEF Next
  <2>2. CASE \/ \E r \in Request : CallPortone(c, r) \/ CallToss(c, r)
             \/ GetToken(c) \/ GetTokenFails(c)
    <3>1. stage[c] \in {"new", "login"} /\ UNCHANGED providerVars
      BY <2>2 DEF CallPortone, CallToss, GetToken, GetTokenFails
    <3>2. c \notin done
      BY <3>1 DEF Inv, Answered
    <3>3. \A d \in done : request'[d] = request[d] /\ token'[d] = token[d]
      BY <2>2, <3>2 DEF CallPortone, CallToss, GetToken, GetTokenFails, Inv, TypeOK
    <3> QED
      BY <1>1, <3>1, <3>3, BooksStay
  <2>3. CASE ReadAnswer(c) \/ CallFails(c) \/ ProviderRefuses(c) \/ RequestLost(c)
    <3>1. UNCHANGED <<request, token, providerVars>>
      BY <2>3 DEF ReadAnswer, CallFails, ProviderRefuses, RequestLost, callVars
    <3> QED
      BY <1>1, <3>1, BooksStay
  <2>4. CASE ProviderAccepts(c) \/ ProviderErrs(c)
    <3>1. c \in network /\ UNCHANGED <<request, token>>
      BY <2>4 DEF ProviderAccepts, ProviderErrs, callVars
    <3>2. CASE UNCHANGED providerVars
      BY <1>1, <3>1, <3>2, BooksStay
    <3>3. CASE Does(c)
      <4>1. \A d \in done' : request'[d].gateway = "portone" => token'[d] = "valid"
        BY <3>1, <3>3 DEF Does, Books
      <4>2. \A g \in Gateways, p \in Payment :
               /\ refunded'[<<g, p>>] = Total(request', RefundsOf(g, p)' \cap done')
               /\ refunded'[<<g, p>>] <= Total(request', ChargesOf(g, p)')
        BY <3>1, <3>3, RefundEntered, ChargeEntered
      <4> QED
        BY <1>1, <4>1, <4>2 DEF Books
    <3> QED
      BY <2>4, <3>2, <3>3 DEF ProviderAccepts, ProviderErrs
  <2> QED
    BY <2>1, <2>2, <2>3, <2>4
<1> QED
  BY <1>2, <1>3

\* A caller that was told "ok" has been acted for, and one whose call was acted on
\* cannot be certain of the opposite.
LEMMA BooksBracket == Inv /\ Books => RefundsBracketed
<1> SUFFICES ASSUME Inv, Books, NEW g \in Gateways, NEW p \in Payment
             PROVE  LET R == RefundsOf(g, p)
                    IN  /\ Total(request, {c \in R : answer[c] = "ok"}) <= refunded[<<g, p>>]
                        /\ refunded[<<g, p>>] <= Total(request, {c \in R : ~Certain(c)})
                        /\ Left(g, p) >= 0
  BY DEF RefundsBracketed
<1> DEFINE R == RefundsOf(g, p)
           Told2xx == {c \in R : answer[c] = "ok"}
           Unsure == {c \in R : ~Certain(c)}
<1>1. Told2xx \subseteq R \cap done
  BY DEF Inv, Answered, Truthful, RefundsOf
<1>2. R \cap done \subseteq Unsure
  BY DEF RefundsOf, Inv, Answered, Truthful, Books, Certain
<1>3. /\ R \cap done \in SUBSET Started /\ Unsure \in SUBSET Started
      /\ Told2xx \in SUBSET Started /\ ChargesOf(g, p) \in SUBSET Started
  BY <1>1, DoneStarted DEF RefundsOf, ChargesOf, Certain, Started
<1>4. Total(request, Told2xx) <= Total(request, R \cap done)
  BY <1>1, <1>3, Summable, TotalMonotone DEF Books
<1>5. Total(request, R \cap done) <= Total(request, Unsure)
  BY <1>2, <1>3, Summable, TotalMonotone DEF Books
<1>6. /\ refunded[<<g, p>>] = Total(request, R \cap done)
      /\ refunded[<<g, p>>] <= Total(request, ChargesOf(g, p))
      /\ refunded[<<g, p>>] \in Nat
  BY DEF Books, Inv, TypeOK
<1>7. Total(request, ChargesOf(g, p)) \in Nat
  BY <1>3, Summable DEF Books
<1>8. Left(g, p) >= 0
  BY <1>6, <1>7 DEF Left
<1> QED
  BY <1>4, <1>5, <1>6, <1>8

\* The books of the callers bracket those of the providers, for any number of calls and
\* payments and whatever amounts, repetitions and losses: at least what the callers were
\* told is refunded, at most that and what is open or unsure, and no more than was charged.
THEOREM RefundsBracketedHolds == Spec => []RefundsBracketed
<1>1. Init => Inv /\ Books
  BY InitInv, InitBooks
<1>2. Inv /\ Books /\ [Next]_vars => (Inv /\ Books)'
  BY NextInv, NextBooks
<1>3. Inv /\ Books => RefundsBracketed
  BY BooksBracket
<1> QED
  BY <1>1, <1>2, <1>3, PTL DEF Spec
===============================================================================
