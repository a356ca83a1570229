--------------------------- MODULE PaymentGateways ---------------------------
(***************************************************************************)
(* The two payment gateways of src/infrastructure/payment-gateway.  Each    *)
(* method of PortoneBillingService logs in and makes one request; one of    *)
(* TossBillingService makes the request with its fixed key.  Nothing is     *)
(* repeated; a fetch that fails, or an answer that is no JSON, rejects, and *)
(* any answer, whatever its status, resolves.                               *)
(*                                                                          *)
(* A provider is external: it charges a payment (the paymentId of PortOne,  *)
(* the orderId of Toss) once, and refunds any part that is left; a request  *)
(* or an answer may be late or lost, and an internal error may come before  *)
(* or after the effect.  Who calls is not in the repository: callers are    *)
(* free to repeat a call, with the same payment or another.                 *)
(***************************************************************************)
EXTENDS Integers, FiniteSetsExt

CONSTANTS
    Call,      \* calls of the services
    Gateways,  \* the services in use
    Payment,   \* paymentIds and orderIds
    Amounts    \* amounts of charges and refunds

ASSUME ConstantsAssumption ==
    /\ Gateways \subseteq {"portone", "toss"}
    /\ Amounts \subseteq Nat \ {0}

VARIABLES
    stage,     \* of each call
    request,   \* what each call asks for
    token,     \* the access token that each call to PortOne got
    network,   \* calls whose request has not reached the provider
    replies,   \* answers that have not reached the caller: <<call, kind>>
    answer,    \* what each resolved call returned
    done,      \* the calls that a provider has acted on
    refunded   \* what the providers have refunded of each payment

callVars == <<stage, request, token, answer>>
providerVars == <<done, refunded>>
vars == <<callVars, network, replies, providerVars>>

Request == [gateway : Gateways, op : {"billingKey", "charge", "refund"},
            payment : Payment, amount : Amounts]

NoRequest == [op |-> "none"]

\* Classes of status: 2xx; 4xx; 5xx.
Kind == {"ok", "refused", "error"}

\* What the bodies and paths of the requests say.

\* The provider knows a charge again by the paymentId in the path, or the orderId.
ChargesOf(g, p) == {c \in done : /\ request[c].op = "charge"
                                 /\ request[c].gateway = g
                                 /\ request[c].payment = p}

\* The amounts that calls ask for, together.
Total(asked, calls) == MapThenSumSet(LAMBDA c : asked[c].amount, calls)

Left(g, p) == Total(request, ChargesOf(g, p)) - refunded[<<g, p>>]

\* Mutant: the amount is left out of the body, which asks for all that is left.
SentNoAmount(c) == Left(request[c].gateway, request[c].payment)

SentAmount(c) == request[c].amount

Init ==
    /\ stage = [c \in Call |-> "new"]
    /\ request = [c \in Call |-> NoRequest]
    /\ token = [c \in Call |-> "none"]
    /\ network = {}
    /\ replies = {}
    /\ answer = [c \in Call |-> "none"]
    /\ done = {}
    /\ refunded = [k \in Gateways \X Payment |-> 0]

-------------------------------------------------------------------------------
(* The services *)

\* A refund by Toss takes the paymentKey that the answer to the charge holds.
KnowsPaymentKey(r) ==
    \E d \in Call : /\ answer[d] = "ok" /\ request[d].op = "charge"
                    /\ request[d].gateway = r.gateway /\ request[d].payment = r.payment

CallPortone(c, r) ==
    /\ stage[c] = "new"
    /\ r.gateway = "portone"
    /\ stage' = [stage EXCEPT ![c] = "login"]
    /\ request' = [request EXCEPT ![c] = r]
    /\ UNCHANGED <<token, network, replies, answer, providerVars>>

CallToss(c, r) ==
    /\ stage[c] = "new"
    /\ r.gateway = "toss"
    /\ r.op = "refund" => KnowsPaymentKey(r)
    /\ stage' = [stage EXCEPT ![c] = "waiting"]
    /\ request' = [request EXCEPT ![c] = r]
    /\ network' = network \cup {c}
    /\ UNCHANGED <<token, replies, answer, providerVars>>

\* Mutant: what the login answers is taken for the token.
TokenIsAnswer(c) ==
    /\ stage[c] = "login"
    /\ token' = [token EXCEPT ![c] = "answer"]
    /\ stage' = [stage EXCEPT ![c] = "waiting"]
    /\ network' = network \cup {c}
    /\ UNCHANGED <<request, replies, answer, providerVars>>

\* getToken does not look at the status of the login: an answer without an access
\* token is no error, and the request goes out all the same.
GetToken(c) ==
    /\ stage[c] = "login"
    /\ \E t \in {"valid", "undefined"} : token' = [token EXCEPT ![c] = t]
    /\ stage' = [stage EXCEPT ![c] = "waiting"]
    /\ network' = network \cup {c}
    /\ UNCHANGED <<request, replies, answer, providerVars>>

GetTokenFails(c) ==
    /\ stage[c] = "login"
    /\ stage' = [stage EXCEPT ![c] = "rejected"]
    /\ UNCHANGED <<request, token, network, replies, answer, providerVars>>

\* Mutant: 5xx is reported like 4xx.
ErrorsAreRefusals(c) ==
    /\ stage[c] = "waiting"
    /\ \E x \in replies :
          /\ x[1] = c
          /\ replies' = replies \ {x}
          /\ answer' = [answer EXCEPT ![c] = IF x[2] = "error" THEN "refused" ELSE x[2]]
    /\ stage' = [stage EXCEPT ![c] = "resolved"]
    /\ UNCHANGED <<request, token, network, providerVars>>

\* The answer is returned with its status.  (Toss returns the answer to a billing
\* key request without it; its data tells the one from the other.)
ReadAnswer(c) ==
    /\ stage[c] = "waiting"
    /\ \E x \in replies :
          /\ x[1] = c
          /\ replies' = replies \ {x}
          /\ answer' = [answer EXCEPT ![c] = x[2]]
    /\ stage' = [stage EXCEPT ![c] = "resolved"]
    /\ UNCHANGED <<request, token, network, providerVars>>

\* fetch fails, or its answer is no JSON; the request may still arrive.
CallFails(c) ==
    /\ stage[c] = "waiting"
    /\ replies' = {x \in replies : x[1] # c}
    /\ stage' = [stage EXCEPT ![c] = "rejected"]
    /\ UNCHANGED <<request, token, network, answer, providerVars>>

-------------------------------------------------------------------------------
(* The providers and the network *)

\* The answer to a call that was given up reaches nobody.
Answers(c, kind) ==
    /\ network' = network \ {c}
    /\ replies' = IF stage[c] = "waiting" THEN replies \cup {<<c, kind>>} ELSE replies

\* What the provider does: it charges a payment that it has not charged, or refunds
\* no more than is left of it.
Does(c) ==
    LET r == request[c] k == <<r.gateway, r.payment>>
    IN  /\ r.gateway = "portone" => token[c] = "valid"
        /\ r.op = "charge" => ChargesOf(r.gateway, r.payment) = {}
        /\ r.op = "refund" => /\ SentAmount(c) > 0
                              /\ SentAmount(c) <= Left(r.gateway, r.payment)
        /\ done' = done \cup {c}
        /\ refunded' = IF r.op = "refund"
                         THEN [refunded EXCEPT ![k] = @ + SentAmount(c)] ELSE refunded

ProviderAccepts(c) ==
    /\ c \in network
    /\ Does(c)
    /\ Answers(c, "ok")
    /\ UNCHANGED callVars

ProviderErrs(c) ==
    /\ c \in network
    /\ Does(c) \/ UNCHANGED providerVars
    /\ Answers(c, "error")
    /\ UNCHANGED callVars

ProviderRefuses(c) ==
    /\ c \in network
    /\ Answers(c, "refused")
    /\ UNCHANGED <<callVars, providerVars>>

RequestLost(c) ==
    /\ c \in network
    /\ network' = network \ {c}
    /\ UNCHANGED <<callVars, replies, providerVars>>

Next ==
    \E c \in Call :
        \/ \E r \in Request : CallPortone(c, r) \/ CallToss(c, r)
        \/ GetToken(c) \/ GetTokenFails(c)
        \/ ReadAnswer(c) \/ CallFails(c)
        \/ ProviderAccepts(c) \/ ProviderErrs(c) \/ ProviderRefuses(c) \/ RequestLost(c)

Spec == Init /\ [][Next]_vars

-------------------------------------------------------------------------------
(* Properties *)

\* Every variable stays in its set of values.
TypeOK ==
    /\ stage \in [Call -> {"new", "login", "waiting", "resolved", "rejected"}]
    /\ request \in [Call -> Request \cup {NoRequest}]
    /\ token \in [Call -> {"none", "valid", "undefined"}]
    /\ network \subseteq Call
    /\ replies \subseteq Call \X Kind
    /\ answer \in [Call -> Kind \cup {"none"}]
    /\ done \subseteq Call
    /\ refunded \in [Gateways \X Payment -> Nat]

RefundsOf(g, p) == {c \in Call : /\ request[c].op = "refund"
                                 /\ request[c].gateway = g
                                 /\ request[c].payment = p}

\* The caller knows, or may be told, that call c had no effect.
Certain(c) ==
    \/ stage[c] \in {"new", "login"}
    \/ answer[c] = "refused"
    \/ stage[c] = "rejected" /\ request[c].gateway = "portone" /\ token[c] # "valid"

\* The books of the callers bracket those of the provider: it has refunded at least
\* what they were told, and at most that and what is open or unsure (a call that was
\* rejected after its login, or answered with an error).  So a refund that is repeated
\* after a lost answer can be executed twice, but only by its own amount.
RefundsBracketed ==
    \A g \in Gateways, p \in Payment :
        LET R == RefundsOf(g, p)
        IN  /\ Total(request, {c \in R : answer[c] = "ok"}) <= refunded[<<g, p>>]
            /\ refunded[<<g, p>>] <= Total(request, {c \in R : ~Certain(c)})
            /\ Left(g, p) >= 0

-------------------------------------------------------------------------------
(* Refinement *)

\* What a caller knows: a status is trusted, 4xx as much as 2xx; 5xx and a rejection
\* tell nothing.
Means == [ok |-> "done", refused |-> "notDone", error |-> "unknown", none |-> "nothing"]

Told == [c \in Call |-> IF stage[c] = "rejected" THEN "unknown" ELSE Means[answer[c]]]

Promise == INSTANCE CallOutcomes WITH acted <- done, told <- Told

\* Each call acts at most once, and a caller that was told how its call ended was told
\* the truth, for good: no request that is still under way acts on a call that was
\* answered with a 4xx.
KeepsOutcome == Promise!OutcomeSpec
===============================================================================
