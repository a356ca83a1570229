----------------------------- MODULE Messengers -----------------------------
(***************************************************************************)
(* The calls that the messengers make to their providers over HTTP: text   *)
(* messages (NCP, NHN), Alimtalk (NCP, NHN), push notifications (OneSignal) *)
(* and Slack; sent at once, reserved for later, or a reservation cancelled. *)
(* The text message services, and the client of Slack, repeat an attempt    *)
(* that fails (p-retry); nothing in a request tells the provider that it is *)
(* a repeat.                                                                *)
(***************************************************************************)
EXTENDS Naturals, FiniteSets

CONSTANTS
    Call,      \* calls of the messengers
    Channels,  \* the messengers in use
    retryCount \* of the text message services (for Slack's client, a bound)

\* Slack has a channel for settlements, of a bot of its own, and the application's.
SlackChannels == {"slackMrD", "slack"}

AllChannels ==
    {"ncpSms", "nhnSms", "ncpAlimtalk", "nhnAlimtalk", "oneSignal"} \cup SlackChannels

ASSUME ConstantsAssumption ==
    /\ Channels \subseteq AllChannels
    /\ retryCount \in Nat

VARIABLES
    stage,   \* "new", "waiting", "resolved" or "rejected", per call
    request, \* what each call asks for
    tries,   \* attempts of each call so far
    answer,  \* what a resolved call returned, and in which attempt
    network, \* attempts that have not reached the provider
    replies, \* answers that have not reached the caller
    job,     \* what the provider holds for each attempt
    unsure   \* history: attempts of each call whose fate the caller cannot know:
             \* they ended without an answer, or with an internal error

callVars == <<stage, request, tries, answer>>
vars == <<callVars, network, replies, job, unsure>>

Attempt == 1 .. (retryCount + 1)

\* What a call asks for; a cancellation names the attempt of the call that made the
\* reservation (the requestId in its answer), and the second post of Slack's
\* sendMessage the first, which it comes after.
Request == [channel : AllChannels, op : {"send", "reserve", "cancel"},
            of : (Call \X Attempt) \cup {<<>>}]

Kind == {"accepted", "refused", "429", "500"}

NoRequest == [channel |-> "ncpSms", op |-> "send", of |-> <<>>]

NoAnswer == [kind |-> "none", try |-> 0]

\* Each service: the operations that make a request (the others return a text and do
\* nothing), those whose input is checked before it, how often an attempt that fails is
\* repeated, and the answers that count as a failure.
NcpSmsService ==
    [requests |-> {"send"}, checks |-> {"send"},
     retries |-> retryCount, throwsOn |-> {"429", "500"}]

NhnSmsService ==
    [requests |-> {"send", "reserve", "cancel"}, checks |-> {"send", "reserve"},
     retries |-> retryCount, throwsOn |-> {}]

NcpAlimtalkService ==
    [requests |-> {"send", "reserve", "cancel"}, checks |-> {},
     retries |-> 0, throwsOn |-> {}]

NhnAlimtalkService ==
    [requests |-> {"send", "reserve", "cancel"}, checks |-> {},
     retries |-> 0, throwsOn |-> {}]

OneSignalService ==
    [requests |-> {"send", "reserve", "cancel"}, checks |-> {},
     retries |-> 0, throwsOn |-> {}]

\* The client repeats 429 and 5xx; an answer that is not ok makes the call reject, with
\* the answer in the error, so that its caller knows of it as of any other refusal.
SlackService ==
    [requests |-> {"send"}, checks |-> {},
     retries |-> retryCount, throwsOn |-> {"429", "500"}]

Service(r) ==
    [ncpSms |-> NcpSmsService, nhnSms |-> NhnSmsService,
     ncpAlimtalk |-> NcpAlimtalkService, nhnAlimtalk |-> NhnAlimtalkService,
     oneSignal |-> OneSignalService,
     slackMrD |-> SlackService, slack |-> SlackService][r.channel]

IsStub(r) == r.op \notin Service(r).requests

\* The caller can cancel what it was told of.
Cancellable(r) ==
    \E c \in Call :
        /\ stage[c] = "resolved" /\ answer[c].kind = "accepted"
        /\ request[c].op = "reserve" /\ request[c].channel = r.channel
        /\ r.of = <<c, answer[c].try>>

\* Mutant: sendMessage does not await the first post.
PostsAtOnce(r) ==
    /\ r.channel = "slack"
    /\ \E c \in Call : /\ stage[c] # "new" /\ request[c].channel = "slackMrD"
                       /\ r.of = <<c, tries[c]>>

\* sendMessage posts to the channel of the application after it has to the other.
SecondPost(r) ==
    /\ r.channel = "slack"
    /\ \E c \in Call :
          /\ stage[c] = "resolved" /\ answer[c].kind = "accepted"
          /\ request[c].channel = "slackMrD"
          /\ r.of = <<c, answer[c].try>>

Asks(r) ==
    /\ r.channel \in Channels
    /\ r.channel \in SlackChannels => r.op = "send"
    /\ IF r.op = "cancel" /\ ~IsStub(r) THEN Cancellable(r)
                                        ELSE r.of = <<>> \/ SecondPost(r)

Init ==
    /\ stage = [c \in Call |-> "new"]
    /\ request = [c \in Call |-> NoRequest]
    /\ tries = [c \in Call |-> 0]
    /\ answer = [c \in Call |-> NoAnswer]
    /\ network = {}
    /\ replies = {}
    /\ job = [c \in Call |-> [n \in Attempt |-> "none"]]
    /\ unsure = [c \in Call |-> {}]

-------------------------------------------------------------------------------
(* The start of a call *)

\* The text message services check the phone numbers, and that there is a time to
\* reserve for, before the request.  (A time of the wrong form passes.)
CheckFails(c, r) ==
    /\ stage[c] = "new" /\ Asks(r)
    /\ r.op \in Service(r).checks
    /\ stage' = [stage EXCEPT ![c] = "rejected"]
    /\ request' = [request EXCEPT ![c] = r]
    /\ UNCHANGED <<tries, answer, network, replies, job, unsure>>

ReturnsText(c, r) ==
    /\ stage[c] = "new" /\ Asks(r)
    /\ IsStub(r)
    /\ stage' = [stage EXCEPT ![c] = "resolved"]
    /\ request' = [request EXCEPT ![c] = r]
    /\ UNCHANGED <<tries, answer, network, replies, job, unsure>>

SendRequest(c, r) ==
    /\ stage[c] = "new" /\ Asks(r)
    /\ ~IsStub(r)
    /\ stage' = [stage EXCEPT ![c] = "waiting"]
    /\ request' = [request EXCEPT ![c] = r]
    /\ tries' = [tries EXCEPT ![c] = 1]
    /\ network' = network \cup {<<c, 1>>}
    /\ UNCHANGED <<answer, replies, job, unsure>>

-------------------------------------------------------------------------------
(* The provider and the network *)

\* The answer to an attempt that the caller has given up reaches nobody.
Answers(a, kind) ==
    /\ network' = network \ {a}
    /\ replies' = IF stage[a[1]] = "waiting" /\ tries[a[1]] = a[2]
                    THEN replies \cup {[call |-> a[1], try |-> a[2], kind |-> kind]}
                    ELSE replies

\* The provider does what an attempt asks for: it takes the message, or cancels a
\* reservation that is not due yet.
Does(a) ==
    LET r == request[a[1]]
    IN  IF r.op = "cancel"
          THEN /\ job[r.of[1]][r.of[2]] = "reserved"
               /\ job' = [job EXCEPT ![r.of[1]][r.of[2]] = "cancelled"]
          ELSE job' = [job EXCEPT ![a[1]][a[2]] =
                          IF r.op = "reserve" THEN "reserved" ELSE "queued"]

ProviderAccepts(a) ==
    /\ a \in network
    /\ Does(a)
    /\ Answers(a, "accepted")
    /\ UNCHANGED <<callVars, unsure>>

\* An internal error may come after the message was taken.
ProviderErrs(a) ==
    /\ a \in network
    /\ Does(a) \/ UNCHANGED job
    /\ Answers(a, "500")
    /\ UNCHANGED <<callVars, unsure>>

ProviderRefuses(a) ==
    /\ a \in network
    /\ \E kind \in {"refused", "429"} : Answers(a, kind)
    /\ UNCHANGED <<callVars, job, unsure>>

RequestLost(a) ==
    /\ a \in network
    /\ network' = network \ {a}
    /\ UNCHANGED <<callVars, replies, job, unsure>>

\* The recipient gets the message.
Deliver(c, n) ==
    /\ job[c][n] \in {"queued", "reserved"}
    /\ job' = [job EXCEPT ![c][n] = "sent"]
    /\ UNCHANGED <<callVars, network, replies, unsure>>

-------------------------------------------------------------------------------
(* The caller *)

\* Mutant: a repetition too many.
RetriesOnceMore(c) ==
    IF tries[c] <= Service(request[c]).retries + 1
      THEN /\ tries' = [tries EXCEPT ![c] = @ + 1]
           /\ network' = network \cup {<<c, tries[c] + 1>>}
           /\ UNCHANGED stage
      ELSE /\ stage' = [stage EXCEPT ![c] = "rejected"]
           /\ UNCHANGED <<tries, network>>

\* Mutant: the repetitions are not counted.
RetriesForever(c) ==
    IF Service(request[c]).retries > 0
      THEN /\ network' = network \cup {<<c, tries[c]>>}
           /\ UNCHANGED <<stage, tries>>
      ELSE /\ stage' = [stage EXCEPT ![c] = "rejected"]
           /\ UNCHANGED <<tries, network>>

\* p-retry starts the next attempt, or passes the error on after the last one.
RetryOrReject(c) ==
    IF tries[c] <= Service(request[c]).retries
      THEN /\ tries' = [tries EXCEPT ![c] = @ + 1]
           /\ network' = network \cup {<<c, tries[c] + 1>>}
           /\ UNCHANGED stage
      ELSE /\ stage' = [stage EXCEPT ![c] = "rejected"]
           /\ UNCHANGED <<tries, network>>

\* Mutant: whatever the answer to a cancellation, it counts as a success.
ResolveCancelsAsSuccess(c, kind) ==
    /\ stage' = [stage EXCEPT ![c] = "resolved"]
    /\ answer' = [answer EXCEPT ![c] =
                     [kind |-> IF request[c].op = "cancel" THEN "accepted" ELSE kind,
                      try |-> tries[c]]]
    /\ UNCHANGED <<tries, network>>

Resolve(c, kind) ==
    /\ stage' = [stage EXCEPT ![c] = "resolved"]
    /\ answer' = [answer EXCEPT ![c] = [kind |-> kind, try |-> tries[c]]]
    /\ UNCHANGED <<tries, network>>

\* Mutant: the text message services repeat after every answer.
RepeatsEveryAnswer(c) ==
    /\ stage[c] = "waiting"
    /\ \E x \in replies :
          /\ x.call = c /\ x.try = tries[c]
          /\ replies' = replies \ {x}
          /\ unsure' = [unsure EXCEPT ![c] =
                           IF x.kind = "500" THEN @ \cup {tries[c]} ELSE @]
          /\ IF Service(request[c]).retries > 0
               THEN RetryOrReject(c) /\ UNCHANGED answer
               ELSE Resolve(c, x.kind)
    /\ UNCHANGED <<request, job>>

\* The answer to the current attempt is read.  NcpSmsService and Slack's client throw
\* on 429 and 500, which p-retry repeats; the others return whatever the provider
\* answered.
ReadAnswer(c) ==
    /\ stage[c] = "waiting"
    /\ \E x \in replies :
          /\ x.call = c /\ x.try = tries[c]
          /\ replies' = replies \ {x}
          /\ unsure' = [unsure EXCEPT ![c] =
                           IF x.kind = "500" THEN @ \cup {tries[c]} ELSE @]
          /\ IF x.kind \in Service(request[c]).throwsOn
               THEN RetryOrReject(c) /\ UNCHANGED answer
               ELSE Resolve(c, x.kind)
    /\ UNCHANGED <<request, job>>

\* fetch rejects, or the answer is no JSON: the request may have arrived, and may
\* still do.  (p-retry may take the error for one that is not worth repeating.)
AttemptFails(c) ==
    /\ stage[c] = "waiting"
    /\ replies' = {x \in replies : ~(x.call = c /\ x.try = tries[c])}
    /\ unsure' = [unsure EXCEPT ![c] = @ \cup {tries[c]}]
    /\ \/ RetryOrReject(c)
       \/ /\ stage' = [stage EXCEPT ![c] = "rejected"]
          /\ UNCHANGED <<tries, network>>
    /\ UNCHANGED <<request, answer, job>>

Next ==
    \/ \E c \in Call, r \in Request :
          \/ CheckFails(c, r)
          \/ ReturnsText(c, r)
          \/ SendRequest(c, r)
    \/ \E a \in Call \X Attempt :
          \/ ProviderAccepts(a)
          \/ ProviderErrs(a)
          \/ ProviderRefuses(a)
          \/ RequestLost(a)
          \/ Deliver(a[1], a[2])
    \/ \E c \in Call : ReadAnswer(c) \/ AttemptFails(c)

Spec == Init /\ [][Next]_vars

\* The client of Slack is made without a timeout: a request may go unanswered for good.
MayHang(c) == request[c].channel \in SlackChannels

\* A fetch ends: with the answer, with an error, or by its timeout.  Of Slack's client
\* no more is assumed than that it reads an answer that has come.
FairSpec ==
    /\ Spec
    /\ \A c \in Call : /\ WF_vars(~MayHang(c) /\ (ReadAnswer(c) \/ AttemptFails(c)))
                       /\ WF_vars(MayHang(c) /\ ReadAnswer(c))

-------------------------------------------------------------------------------
(* Properties *)

\* Every variable stays in its set of values: no call makes more attempts than its
\* service allows, and the provider holds nothing for an attempt that cannot be.
TypeOK ==
    /\ stage \in [Call -> {"new", "waiting", "resolved", "rejected"}]
    /\ request \in [Call -> Request]
    /\ tries \in [Call -> 0 .. (retryCount + 1)]
    /\ answer \in [Call -> [kind : Kind \cup {"none"}, try : 0 .. (retryCount + 1)]]
    /\ network \subseteq Call \X Attempt
    /\ replies \subseteq [call : Call, try : Attempt, kind : Kind]
    /\ job \in [Call -> [Attempt -> {"none", "queued", "reserved", "sent", "cancelled"}]]
    /\ unsure \in [Call -> SUBSET Attempt]

\* A call makes the provider take one message: the one of the attempt it is
\* waiting for, or that was answered as accepted.  Whatever else the provider took
\* comes from an attempt that ended without an answer, or with an internal error
\* (requestToNcp and requestToNhn repeat it): only there is a duplicate possible.
JobsAccounted ==
    \A c \in Call : \A n \in Attempt :
        job[c][n] # "none" =>
            \/ n \in unsure[c]
            \/ stage[c] = "waiting" /\ n = tries[c]
            \/ answer[c] = [kind |-> "accepted", try |-> n]

\* After a cancellation that was reported as a success (cancelReserve and its kin)
\* the recipient gets nothing of the reserved message, except from an attempt of the
\* reservation whose reply was lost: the caller knows only the last one's requestId,
\* and the others stay reserved.
CancelHolds ==
    \A c \in Call :
        request[c].op = "cancel" /\ answer[c].kind = "accepted" =>
            LET b == request[c].of[1]
            IN  /\ job[b][request[c].of[2]] = "cancelled"
                /\ \A n \in Attempt :
                       job[b][n] \in {"queued", "reserved", "sent"} => n \in unsure[b]

\* What sendMessage puts into the application's channel of Slack is in that for
\* settlements too, whatever was repeated, refused or lost; only the converse may fail,
\* so that a caller that tries again repeats the first post.
SlackInOrder ==
    \A c \in Call :
        request[c].channel = "slack" /\ request[c].of # <<>> =>
            LET b == request[c].of[1]
            IN  (\E n \in Attempt : job[c][n] # "none") =>
                    job[b][request[c].of[2]] \in {"queued", "sent"}

\* The current attempt of a call of Slack is on its way, or gone, and unanswered.
Unanswered(c) ==
    /\ stage[c] = "waiting" /\ MayHang(c)
    /\ \A x \in replies : x.call # c \/ x.try # tries[c]

\* Every call comes back to its caller, after at most retryCount repetitions, unless
\* it is one of Slack, and an attempt of it is never answered: only that can keep its
\* caller waiting for good (and sendMessage from its second post).
Settles ==
    \A c \in Call :
        \/ <>[]Unanswered(c)
        \/ stage[c] = "waiting" ~> stage[c] \in {"resolved", "rejected"}
=============================================================================
