-------------------------- MODULE MessengersProofs --------------------------
(***************************************************************************)
(* Theorems about Messengers, for any number of calls and repetitions.     *)
(***************************************************************************)
EXTENDS Messengers, TLAPS

\* An attempt that has not been made has done nothing; one that is on its way has
\* done nothing yet, and its call waits for it or has given it up.
Attempts ==
    \A c \in Call, n \in Attempt :
        /\ n > tries[c] => job[c][n] = "none" /\ <<c, n>> \notin network
        /\ <<c, n>> \in network =>
              /\ job[c][n] = "none"
              /\ (stage[c] = "waiting" /\ n = tries[c]) \/ n \in unsure[c]

\* A reply is the only one to the attempt that its call waits for, and one that
\* refuses comes from an attempt that has done nothing.
Replies ==
    \A x \in replies :
        /\ stage[x.call] = "waiting" /\ x.try = tries[x.call]
        /\ <<x.call, x.try>> \notin network
        /\ x.kind \in {"refused", "429"} => job[x.call][x.try] = "none"
        /\ \A y \in replies : y.call = x.call => y = x

Calls ==
    \A c \in Call :
        /\ stage[c] = "new" => tries[c] = 0
        /\ stage[c] = "waiting" => tries[c] > 0
        /\ answer[c].kind # "none" => stage[c] = "resolved" /\ tries[c] > 0

\* The provider has said yes to call c.
Told(c) ==
    \/ answer[c].kind = "accepted"
    \/ \E x \in replies : x.call = c /\ x.kind = "accepted"

\* Call c is about attempt n of the reservation b, which was accepted.
Names(c, b, n) ==
    /\ request[c].of = <<b, n>>
    /\ request[b].op = "reserve" /\ stage[b] = "resolved"
    /\ answer[b] = [kind |-> "accepted", try |-> n]

\* A cancellation that was sent names the accepted attempt of a reservation, and once
\* the provider has said that it is cancelled, it is.
Cancellations ==
    \A c \in Call :
        request[c].op = "cancel" /\ tries[c] > 0 =>
           \E b \in Call, n \in Attempt :
              Names(c, b, n) /\ (Told(c) => job[b][n] = "cancelled")

Inv == TypeOK /\ Attempts /\ Replies /\ Calls /\ JobsAccounted /\ Cancellations

JobState == {"none", "queued", "reserved", "sent", "cancelled"}

-------------------------------------------------------------------------------
(* The parts of a step *)

\* No service repeats more often than retryCount, only the two errors make one
\* throw, and no cancellation is checked before it is sent.
LEMMA ServiceFacts ==
    ASSUME NEW r \in Request
    PROVE  /\ Service(r).retries \in Nat /\ Service(r).retries <= retryCount
           /\ Service(r).throwsOn \subseteq {"429", "500"}
           /\ "cancel" \notin Service(r).checks
<1>1. r.channel \in AllChannels
  BY DEF Request
<1>2. retryCount \in Nat
  BY ConstantsAssumption
<1> QED
  BY <1>1, <1>2 DEF AllChannels, Service, NcpSmsService, NhnSmsService,
       NcpAlimtalkService, NhnAlimtalkService, OneSignalService, SlackService, SlackChannels

LEMMA InitInv == Init => Inv
<1>1. NoRequest \in Request
  BY DEF NoRequest, Request, AllChannels
<1>2. ASSUME Init PROVE Inv
  BY <1>1, <1>2, ConstantsAssumption
     DEF Init, Inv, TypeOK, Attempts, Replies, Calls, JobsAccounted, Cancellations,
         NoAnswer, NoRequest, Attempt
<1> QED
  BY <1>2

\* The provider deals with an attempt: it may do what it asks for unless it refuses,
\* and a reservation that it says to have cancelled is cancelled.
LEMMA ProviderKeeps ==
    ASSUME Inv, NEW a \in network, NEW kind \in Kind, Answers(a, kind),
           UNCHANGED <<callVars, unsure>>,
           job' \in [Call -> [Attempt -> JobState]],
           \A c \in Call, n \in Attempt :
               job'[c][n] # job[c][n] =>
                  \/ <<c, n>> = a /\ kind \in {"accepted", "500"}
                  \/ job[c][n] \notin {"none", "cancelled"} /\ job'[c][n] # "none",
           \A b \in Call, n \in Attempt :
               /\ request[a[1]].op = "cancel" /\ request[a[1]].of = <<b, n>>
               /\ kind = "accepted"
               => job'[b][n] = "cancelled"
    PROVE  Inv'
<1> USE ConstantsAssumption
<1>0. PICK k \in Call, m \in Attempt : a = <<k, m>>
  BY DEF Inv, TypeOK
<1>1. TypeOK'
  BY <1>0 DEF Inv, TypeOK, Answers, callVars, JobState
<1>2. Attempts'
  <2> SUFFICES ASSUME NEW c \in Call, NEW n \in Attempt
               PROVE  /\ n > tries[c] => job'[c][n] = "none" /\ <<c, n>> \notin network'
                      /\ <<c, n>> \in network' =>
                            /\ job'[c][n] = "none"
                            /\ (stage[c] = "waiting" /\ n = tries[c]) \/ n \in unsure[c]
    BY DEF Attempts, callVars
  <2>1. network' = network \ {a}
    BY DEF Answers
  <2>2. ASSUME job[c][n] = "none", <<c, n>> # a PROVE job'[c][n] = "none"
    BY <2>2
  <2>3. CASE <<c, n>> = a
    BY <2>3, <2>1 DEF Inv, Attempts
  <2>4. CASE <<c, n>> # a
    BY <2>4, <2>1, <2>2 DEF Inv, Attempts
  <2> QED
    BY <2>3, <2>4
<1>3. Replies'
  <2> DEFINE new == [call |-> k, try |-> m, kind |-> kind]
  <2>1. ASSUME NEW x \in replies
        PROVE  x.kind \in {"refused", "429"} => job'[x.call][x.try] = "none"
    <3>1. x.call \in Call /\ x.try \in Attempt
      BY DEF Inv, TypeOK
    <3>2. <<x.call, x.try>> # a
      BY DEF Inv, Replies
    <3>3. x.kind \in {"refused", "429"} => job[x.call][x.try] = "none"
      BY DEF Inv, Replies
    <3> QED
      BY <3>1, <3>2, <3>3
  <2>2. CASE stage[k] = "waiting" /\ tries[k] = m
    <3>1. replies' = replies \cup {new} /\ network' = network \ {a}
      BY <2>2, <1>0 DEF Answers
    <3>2. \A x \in replies : x.call # k
      BY <2>2, <1>0 DEF Inv, Replies
    <3>3. kind \in {"refused", "429"} => job'[k][m] = "none"
      BY <1>0 DEF Inv, Attempts
    <3>4. SUFFICES ASSUME NEW x \in replies'
                   PROVE  /\ stage[x.call] = "waiting" /\ x.try = tries[x.call]
                          /\ <<x.call, x.try>> \notin network'
                          /\ x.kind \in {"refused", "429"} => job'[x.call][x.try] = "none"
                          /\ \A y \in replies' : y.call = x.call => y = x
      BY DEF Replies, callVars
    <3>5. CASE x = new
      BY <2>2, <3>1, <3>2, <3>3, <3>5, <1>0
    <3>6. CASE x \in replies
      BY <3>1, <3>2, <3>6, <2>1 DEF Inv, Replies
    <3> QED
      BY <3>1, <3>5, <3>6
  <2>3. CASE ~(stage[k] = "waiting" /\ tries[k] = m)
    <3>1. replies' = replies /\ network' = network \ {a}
      BY <2>3, <1>0 DEF Answers
    <3> QED
      BY <3>1, <2>1 DEF Inv, Replies, callVars
  <2> QED
    BY <2>2, <2>3
<1>4. Calls'
  BY DEF Inv, Calls, callVars
<1>5. JobsAccounted'
  <2> SUFFICES ASSUME NEW c \in Call, NEW n \in Attempt, job'[c][n] # "none",
                      n \notin unsure[c], ~(stage[c] = "waiting" /\ n = tries[c])
               PROVE  answer[c] = [kind |-> "accepted", try |-> n]
    BY DEF JobsAccounted, callVars
  <2>1. <<c, n>> # a
    BY DEF Inv, Attempts
  <2>2. job[c][n] # "none"
    BY <2>1
  <2> QED
    BY <2>2 DEF Inv, JobsAccounted
<1>6. Cancellations'
  <2> SUFFICES ASSUME NEW c \in Call, (request[c].op = "cancel")', (tries[c] > 0)'
               PROVE  \E b \in Call, n \in Attempt :
                         Names(c, b, n)' /\ (Told(c)' => job'[b][n] = "cancelled")
    BY Zenon DEF Cancellations
  <2>1. PICK b \in Call, n \in Attempt :
              Names(c, b, n) /\ (Told(c) => job[b][n] = "cancelled")
    BY DEF Inv, Cancellations, callVars
  <2>2. Names(c, b, n)'
    BY <2>1 DEF Names, callVars
  <2>3. ASSUME Told(c)' PROVE job'[b][n] = "cancelled"
    <3>1. CASE Told(c)
      <4>1. job[b][n] = "cancelled"
        BY <3>1, <2>1
      <4>2. <<b, n>> # a
        BY <4>1 DEF Inv, Attempts
      <4> QED
        BY <4>1, <4>2
    <3>2. CASE ~Told(c)
      <4>1. c = k /\ kind = "accepted"
        BY <3>2, <2>3, <1>0 DEF Told, Answers, callVars
      <4> QED
        BY <4>1, <2>1, <1>0 DEF Names, callVars
    <3> QED
      BY <3>1, <3>2
  <2> QED
    BY <2>2, <2>3
<1> QED
  BY <1>1, <1>2, <1>3, <1>4, <1>5, <1>6 DEF Inv

\* What an attempt does at the provider's satisfies the last two assumptions above.
LEMMA DoesEffect ==
    ASSUME Inv, NEW a \in network, Does(a)
    PROVE  /\ job' \in [Call -> [Attempt -> JobState]]
           /\ \A c \in Call, n \in Attempt :
                 job'[c][n] # job[c][n] =>
                    \/ <<c, n>> = a
                    \/ job[c][n] \notin {"none", "cancelled"} /\ job'[c][n] # "none"
           /\ \A b \in Call, n \in Attempt :
                 request[a[1]].op = "cancel" /\ request[a[1]].of = <<b, n>>
                 => job'[b][n] = "cancelled"
<1>1. PICK k \in Call, m \in Attempt : a = <<k, m>>
  BY DEF Inv, TypeOK
<1>2. job \in [Call -> [Attempt -> JobState]]
  BY DEF Inv, TypeOK, JobState
<1>3. CASE request[k].op = "cancel"
  <2>1. tries[k] > 0
    BY <1>1 DEF Inv, TypeOK, Attempts, Attempt
  <2>2. PICK b \in Call, n \in Attempt : Names(k, b, n)
    BY <1>3, <2>1 DEF Inv, Cancellations
  <2>3. /\ job[b][n] = "reserved"
        /\ job' = [job EXCEPT ![b][n] = "cancelled"]
    BY <1>1, <1>3, <2>2 DEF Does, Names
  <2> QED
    BY <1>1, <1>2, <1>3, <2>2, <2>3 DEF Names, JobState
<1>4. CASE request[k].op # "cancel"
  BY <1>1, <1>2, <1>4 DEF Does, JobState
<1> QED
  BY <1>3, <1>4

\* The current attempt of a call ends: with an answer to the caller, in another
\* attempt, or in an error.
Repeats(c) ==
    /\ tries[c] + 1 \in Attempt
    /\ tries' = [tries EXCEPT ![c] = @ + 1]
    /\ network' = network \cup {<<c, tries[c] + 1>>}
    /\ UNCHANGED <<stage, answer>>

Rejects(c) ==
    /\ stage' = [stage EXCEPT ![c] = "rejected"]
    /\ UNCHANGED <<tries, network, answer>>

Resolves(c, kind) ==
    /\ stage' = [stage EXCEPT ![c] = "resolved"]
    /\ answer' = [answer EXCEPT ![c] = [kind |-> kind, try |-> tries[c]]]
    /\ kind = "accepted" => Told(c)
    /\ UNCHANGED <<tries, network>>

LEMMA AttemptEndKeeps ==
    ASSUME Inv, NEW c \in Call, stage[c] = "waiting",
           UNCHANGED <<request, job>>,
           replies' \subseteq replies, \A x \in replies' : x.call # c,
           NEW U \in SUBSET {tries[c]},
           unsure' = [unsure EXCEPT ![c] = @ \cup U],
           \/ tries[c] \in U
           \/ /\ <<c, tries[c]>> \notin network
              /\ \/ job[c][tries[c]] = "none"
                 \/ answer'[c] = [kind |-> "accepted", try |-> tries[c]],
           Repeats(c) \/ Rejects(c) \/ \E kind \in Kind : Resolves(c, kind)
    PROVE  Inv'
<1> USE ConstantsAssumption
<1>1. tries[c] \in Attempt /\ answer[c].kind = "none"
  BY DEF Inv, TypeOK, Calls, Attempt
<1> DEFINE Effect ==
      /\ stage' \in [Call -> {"new", "waiting", "resolved", "rejected"}]
      /\ tries' \in [Call -> 0 .. (retryCount + 1)]
      /\ answer' \in [Call -> [kind : Kind \cup {"none"}, try : 0 .. (retryCount + 1)]]
      /\ network' \subseteq Call \X Attempt
      /\ \A d \in Call : d # c => /\ stage'[d] = stage[d]
                                 /\ tries'[d] = tries[d]
                                 /\ answer'[d] = answer[d]
      /\ \A d \in Call, n \in Attempt :
            <<d, n>> \in network' =>
               \/ <<d, n>> \in network
               \/ d = c /\ stage'[c] = "waiting" /\ n = tries'[c] /\ n = tries[c] + 1
      /\ stage'[c] = "waiting" => tries'[c] = tries[c] + 1
      /\ stage'[c] # "new" /\ tries'[c] > 0 /\ tries'[c] >= tries[c]
      /\ answer'[c].kind # "none" => stage'[c] = "resolved"
      /\ answer'[c].kind = "accepted" => Told(c)
<1>0. Effect
  <2>1. CASE Repeats(c)
    BY <2>1, <1>1 DEF Inv, TypeOK, Attempt, Repeats
  <2>2. CASE Rejects(c)
    BY <2>2, <1>1 DEF Inv, TypeOK, Attempt, Rejects
  <2>3. ASSUME NEW kind \in Kind, Resolves(c, kind) PROVE Effect
    BY <2>3, <1>1 DEF Inv, TypeOK, Attempt, Resolves
  <2> QED
    BY <2>1, <2>2, <2>3
<1>2. TypeOK'
  BY <1>1, <1>0 DEF Inv, TypeOK, Attempt
<1>3. Attempts'
  <2> SUFFICES ASSUME NEW d \in Call, NEW n \in Attempt
               PROVE  /\ n > tries'[d] => job[d][n] = "none" /\ <<d, n>> \notin network'
                      /\ <<d, n>> \in network' =>
                            /\ job[d][n] = "none"
                            /\ \/ stage'[d] = "waiting" /\ n = tries'[d]
                               \/ n \in unsure'[d]
    BY DEF Attempts
  <2>1. CASE d # c
    BY <2>1, <1>0 DEF Inv, TypeOK, Attempts
  <2>2. CASE d = c
    <3>1. tries[c] \in Nat /\ tries'[c] \in Nat /\ n \in Nat
      <4>1. tries'[c] \in 0 .. (retryCount + 1)
        BY <1>0
      <4> QED
        BY <1>1, <4>1 DEF Attempt
    <3>2. unsure'[c] = unsure[c] \cup U
      BY DEF Inv, TypeOK
    <3>3. n > tries'[c] => n > tries[c] /\ n # tries'[c]
      BY <3>1, <1>0
    <3>4. n = tries[c] + 1 => n > tries[c]
      BY <3>1
    <3> QED
      BY <2>2, <3>1, <3>2, <3>3, <3>4, <1>0 DEF Inv, Attempts
  <2> QED
    BY <2>1, <2>2
<1>4. Replies'
  <2> SUFFICES ASSUME NEW x \in replies'
               PROVE  /\ stage'[x.call] = "waiting" /\ x.try = tries'[x.call]
                      /\ <<x.call, x.try>> \notin network'
                      /\ x.kind \in {"refused", "429"} => job[x.call][x.try] = "none"
                      /\ \A y \in replies' : y.call = x.call => y = x
    BY DEF Replies
  <2>1. x \in replies /\ x.call \in Call /\ x.try \in Attempt /\ x.call # c
    BY DEF Inv, TypeOK
  <2> QED
    BY <2>1, <1>0 DEF Inv, Replies
<1>5. Calls'
  BY <1>1, <1>0 DEF Inv, TypeOK, Calls, Attempt
<1>6. JobsAccounted'
  BY <1>1, <1>0 DEF Inv, TypeOK, Attempts, JobsAccounted, Attempt
<1>7. Cancellations'
  <2> SUFFICES ASSUME NEW d \in Call, (request[d].op = "cancel")', (tries[d] > 0)'
               PROVE  \E b \in Call, n \in Attempt :
                         Names(d, b, n)' /\ (Told(d)' => job'[b][n] = "cancelled")
    BY Zenon DEF Cancellations
  <2>1. tries[d] > 0
    BY <1>1, <1>0 DEF Attempt
  <2>2. PICK b \in Call, n \in Attempt :
              Names(d, b, n) /\ (Told(d) => job[b][n] = "cancelled")
    BY <2>1 DEF Inv, Cancellations
  <2>3. b # c
    BY <2>2 DEF Names
  <2>4. Names(d, b, n)'
    BY <2>2, <2>3, <1>0 DEF Names
  <2>5. Told(d)' => Told(d)
    BY <1>0 DEF Told
  <2> QED
    BY <2>2, <2>4, <2>5
<1> QED
  BY <1>2, <1>3, <1>4, <1>5, <1>6, <1>7 DEF Inv

-------------------------------------------------------------------------------
(* The steps *)

LEMMA SameCancellations ==
    ASSUME Cancellations, UNCHANGED <<callVars, replies, job>>
    PROVE  Cancellations'
<1>1. \A c \in Call, b \in Call, n \in Attempt : Names(c, b, n)' <=> Names(c, b, n)
  BY DEF Names, callVars
<1>2. \A c \in Call : Told(c)' <=> Told(c)
  BY DEF Told, callVars
<1>3. request' = request /\ tries' = tries /\ job' = job
  BY DEF callVars
<1> SUFFICES ASSUME NEW c \in Call, (request[c].op = "cancel")', (tries[c] > 0)'
             PROVE  \E b \in Call, n \in Attempt :
                       Names(c, b, n)' /\ (Told(c)' => job'[b][n] = "cancelled")
  BY Zenon DEF Cancellations
<1>4. PICK b \in Call, n \in Attempt :
            Names(c, b, n) /\ (Told(c) => job[b][n] = "cancelled")
  BY <1>3 DEF Cancellations
<1> QED
  BY <1>1, <1>2, <1>3, <1>4

\* The start of a call leaves the cancellations that were sent before alone.
LEMMA StartKeepsCancellations ==
    ASSUME Inv, NEW c \in Call, stage[c] = "new", NEW r \in Request,
           \E s \in {"waiting", "resolved", "rejected"} : stage' = [stage EXCEPT ![c] = s],
           request' = [request EXCEPT ![c] = r],
           \/ tries' = tries
           \/ tries' = [tries EXCEPT ![c] = 1] /\ (r.op = "cancel" => Cancellable(r)),
           UNCHANGED <<answer, replies, job, unsure>>
    PROVE  Cancellations'
<1> SUFFICES ASSUME NEW d \in Call, (request[d].op = "cancel")', (tries[d] > 0)'
             PROVE  \E b \in Call, n \in Attempt :
                       Names(d, b, n)' /\ (Told(d)' => job'[b][n] = "cancelled")
  BY Zenon DEF Cancellations
<1>1. tries[c] = 0 /\ answer[c].kind = "none" /\ ~Told(c)'
  BY DEF Inv, TypeOK, Calls, Replies, Told
<1>2. CASE d # c
  <2>1. request[d].op = "cancel" /\ tries[d] > 0
    BY <1>2 DEF Inv, TypeOK
  <2>2. PICK b \in Call, n \in Attempt :
              Names(d, b, n) /\ (Told(d) => job[b][n] = "cancelled")
    BY <2>1 DEF Inv, Cancellations
  <2>3. b # c
    BY <2>2 DEF Names
  <2>4. Names(d, b, n)'
    BY <2>2, <2>3, <1>2 DEF Inv, TypeOK, Names
  <2>5. Told(d)' => Told(d)
    BY DEF Told
  <2> QED
    BY <2>2, <2>4, <2>5
<1>3. CASE d = c
  <2>1. request'[c] = r /\ Cancellable(r)
    BY <1>1, <1>3 DEF Inv, TypeOK
  <2>2. PICK b \in Call :
              /\ stage[b] = "resolved" /\ answer[b].kind = "accepted"
              /\ request[b].op = "reserve"
              /\ r.of = <<b, answer[b].try>>
    BY <2>1 DEF Cancellable
  <2>3. b # c
    BY <2>2
  <2>4. answer[b].try \in Attempt
    <3>1. r.of \in (Call \X Attempt) \cup {<<>>}
      BY DEF Request
    <3>2. <<b, answer[b].try>> # <<>>
      OBVIOUS
    <3>3. <<b, answer[b].try>> \in Call \X Attempt
      BY <2>2, <3>1, <3>2
    <3> QED
      BY <3>3
  <2>5. Names(c, b, answer[b].try)'
    BY <2>1, <2>2, <2>3 DEF Inv, TypeOK, Names
  <2> QED
    BY <2>4, <2>5, <1>1, <1>3
<1> QED
  BY <1>2, <1>3

LEMMA CheckFailsKeeps ==
    ASSUME Inv, NEW c \in Call, NEW r \in Request, CheckFails(c, r)
    PROVE  Inv'
<1>1. TypeOK'
  BY DEF Inv, TypeOK, CheckFails
<1>2. Attempts' /\ Replies' /\ Calls'
  BY DEF Inv, TypeOK, Attempts, Replies, Calls, CheckFails
<1>3. JobsAccounted'
  BY DEF Inv, TypeOK, JobsAccounted, CheckFails
<1>4. Cancellations'
  BY StartKeepsCancellations DEF CheckFails
<1> QED
  BY <1>1, <1>2, <1>3, <1>4 DEF Inv

LEMMA ReturnsTextKeeps ==
    ASSUME Inv, NEW c \in Call, NEW r \in Request, ReturnsText(c, r)
    PROVE  Inv'
<1>1. TypeOK'
  BY DEF Inv, TypeOK, ReturnsText
<1>2. Attempts' /\ Replies' /\ Calls'
  BY DEF Inv, TypeOK, Attempts, Replies, Calls, ReturnsText
<1>3. JobsAccounted'
  BY DEF Inv, TypeOK, JobsAccounted, ReturnsText
<1>4. Cancellations'
  BY StartKeepsCancellations DEF ReturnsText
<1> QED
  BY <1>1, <1>2, <1>3, <1>4 DEF Inv

LEMMA SendRequestKeeps ==
    ASSUME Inv, NEW c \in Call, NEW r \in Request, SendRequest(c, r)
    PROVE  Inv'
<1> USE ConstantsAssumption
<1>1. TypeOK'
  BY DEF Inv, TypeOK, SendRequest, Attempt
<1>2. Attempts'
  <2>1. tries[c] = 0 /\ 1 \in Attempt
    BY DEF Inv, Calls, SendRequest, Attempt
  <2>2. \A d \in Call : IF d = c THEN tries'[d] = 1 /\ stage'[d] = "waiting"
                                ELSE tries'[d] = tries[d] /\ stage'[d] = stage[d]
    BY DEF Inv, TypeOK, SendRequest
  <2>3. \A d \in Call, n \in Attempt :
           <<d, n>> \in network' => <<d, n>> \in network \/ (d = c /\ n = 1)
    <3>1. network' = network \cup {<<c, 1>>}
      BY DEF SendRequest
    <3>2. ASSUME NEW d \in Call, NEW n \in Attempt, <<d, n>> = <<c, 1>>
          PROVE  d = c /\ n = 1
      BY <3>2
    <3> QED
      BY <3>1, <3>2
  <2>4. ASSUME NEW n \in Attempt
        PROVE  job[c][n] = "none" /\ <<c, n>> \notin network
    <3>1. n > tries[c]
      BY <2>1 DEF Attempt
    <3> QED
      BY <3>1 DEF Inv, Attempts
  <2>5. UNCHANGED <<job, unsure>>
    BY DEF SendRequest
  <2> SUFFICES ASSUME NEW d \in Call, NEW n \in Attempt
               PROVE  /\ n > tries'[d] => job[d][n] = "none" /\ <<d, n>> \notin network'
                      /\ <<d, n>> \in network' =>
                            /\ job[d][n] = "none"
                            /\ (stage'[d] = "waiting" /\ n = tries'[d]) \/ n \in unsure[d]
    BY <2>5 DEF Attempts
  <2>6. CASE d = c
    BY <2>2, <2>3, <2>4, <2>6 DEF Attempt
  <2>7. CASE d # c
    BY <2>2, <2>3, <2>7 DEF Inv, Attempts
  <2> QED
    BY <2>6, <2>7
<1>3. Replies' /\ Calls'
  BY DEF Inv, TypeOK, Replies, Calls, SendRequest, Attempt
<1>4. JobsAccounted'
  BY DEF Inv, TypeOK, JobsAccounted, SendRequest
<1>5. Cancellations'
  BY StartKeepsCancellations DEF SendRequest, Asks, IsStub
<1> QED
  BY <1>1, <1>2, <1>3, <1>4, <1>5 DEF Inv

LEMMA ProviderStepKeeps ==
    ASSUME Inv, NEW a \in Call \X Attempt,
           ProviderAccepts(a) \/ ProviderErrs(a) \/ ProviderRefuses(a) \/ RequestLost(a)
    PROVE  Inv'
<1>1. job \in [Call -> [Attempt -> JobState]]
  BY DEF Inv, TypeOK, JobState
<1>2. CASE ProviderAccepts(a)
  BY <1>2, DoesEffect, ProviderKeeps DEF ProviderAccepts, Kind
<1>3. CASE ProviderErrs(a)
  BY <1>1, <1>3, DoesEffect, ProviderKeeps DEF ProviderErrs, Kind
<1>4. CASE ProviderRefuses(a)
  BY <1>1, <1>4, ProviderKeeps DEF ProviderRefuses, Kind
<1>5. CASE RequestLost(a)
  <2>1. TypeOK' /\ Attempts' /\ Replies' /\ Calls'
    BY <1>5 DEF Inv, TypeOK, Attempts, Replies, Calls, RequestLost, callVars
  <2>2. JobsAccounted'
    BY <1>5 DEF Inv, JobsAccounted, RequestLost, callVars
  <2>3. Cancellations'
    BY <1>5, SameCancellations DEF Inv, RequestLost
  <2> QED
    BY <2>1, <2>2, <2>3 DEF Inv
<1> QED
  BY <1>2, <1>3, <1>4, <1>5

LEMMA DeliverKeeps ==
    ASSUME Inv, NEW c \in Call, NEW n \in Attempt, Deliver(c, n)
    PROVE  Inv'
<1>1. TypeOK' /\ Attempts' /\ Replies' /\ Calls'
  BY DEF Inv, TypeOK, Attempts, Replies, Calls, Deliver, callVars
<1>2. JobsAccounted'
  BY DEF Inv, TypeOK, JobsAccounted, Deliver, callVars
<1>3. Cancellations'
  <2> SUFFICES ASSUME NEW d \in Call, (request[d].op = "cancel")', (tries[d] > 0)'
               PROVE  \E b \in Call, m \in Attempt :
                         Names(d, b, m)' /\ (Told(d)' => job'[b][m] = "cancelled")
    BY Zenon DEF Cancellations
  <2>1. PICK b \in Call, m \in Attempt :
              Names(d, b, m) /\ (Told(d) => job[b][m] = "cancelled")
    BY DEF Inv, Cancellations, Deliver, callVars
  <2>2. Names(d, b, m)' /\ (Told(d)' => Told(d))
    BY <2>1 DEF Names, Told, Deliver, callVars
  <2>3. job[b][m] = "cancelled" => job'[b][m] = "cancelled"
    BY DEF Inv, TypeOK, Deliver
  <2> QED
    BY <2>1, <2>2, <2>3
<1> QED
  BY <1>1, <1>2, <1>3 DEF Inv

LEMMA RetryOrRejectSplits ==
    ASSUME Inv, NEW c \in Call, RetryOrReject(c), answer' = answer
    PROVE  Repeats(c) \/ Rejects(c)
<1>1. Service(request[c]).retries \in Nat /\ Service(request[c]).retries <= retryCount
  BY ServiceFacts DEF Inv, TypeOK
<1>2. CASE tries[c] <= Service(request[c]).retries
  <2>1. tries[c] + 1 \in Attempt
    BY <1>1, <1>2, ConstantsAssumption DEF Inv, TypeOK, Attempt
  <2> QED
    BY <1>2, <2>1 DEF RetryOrReject, Repeats
<1>3. CASE ~(tries[c] <= Service(request[c]).retries)
  BY <1>3 DEF RetryOrReject, Rejects
<1> QED
  BY <1>2, <1>3

LEMMA ReadAnswerKeeps ==
    ASSUME Inv, NEW c \in Call, ReadAnswer(c)
    PROVE  Inv'
<1>1. PICK x \in replies :
        /\ x.call = c /\ x.try = tries[c]
        /\ replies' = replies \ {x}
        /\ unsure' = [unsure EXCEPT ![c] = IF x.kind = "500" THEN @ \cup {tries[c]} ELSE @]
        /\ IF x.kind \in Service(request[c]).throwsOn
             THEN RetryOrReject(c) /\ UNCHANGED answer
             ELSE Resolve(c, x.kind)
  BY DEF ReadAnswer
<1> DEFINE U == IF x.kind = "500" THEN {tries[c]} ELSE {}
<1>2. stage[c] = "waiting" /\ UNCHANGED <<request, job>>
  BY DEF ReadAnswer
<1>3. \A y \in replies' : y.call # c
  BY <1>1 DEF Inv, Replies
<1>4. unsure' = [unsure EXCEPT ![c] = @ \cup U]
  BY <1>1 DEF Inv, TypeOK
<1>5. /\ x.kind \in Kind /\ <<c, tries[c]>> \notin network
      /\ x.kind \in {"refused", "429"} => job[c][tries[c]] = "none"
  BY <1>1 DEF Inv, TypeOK, Replies
<1>6. Service(request[c]).throwsOn \subseteq {"429", "500"}
  BY ServiceFacts DEF Inv, TypeOK
<1>7. U \in SUBSET {tries[c]} /\ replies' \subseteq replies
  BY <1>1
<1>8. CASE x.kind \in Service(request[c]).throwsOn
  <2>1. Repeats(c) \/ Rejects(c)
    BY <1>1, <1>8, RetryOrRejectSplits
  <2>2. tries[c] \in U \/ (<<c, tries[c]>> \notin network /\ job[c][tries[c]] = "none")
    BY <1>5, <1>6, <1>8
  <2> HIDE DEF U
  <2> QED
    BY <1>2, <1>3, <1>4, <1>7, <2>1, <2>2, AttemptEndKeeps
<1>9. CASE x.kind \notin Service(request[c]).throwsOn
  <2>1. Resolves(c, x.kind)
    BY <1>1, <1>9 DEF Resolve, Resolves, Told
  <2>2. answer'[c] = [kind |-> x.kind, try |-> tries[c]]
    BY <2>1 DEF Resolves, Inv, TypeOK
  <2>3. \/ tries[c] \in U
        \/ /\ <<c, tries[c]>> \notin network
           /\ \/ job[c][tries[c]] = "none"
              \/ answer'[c] = [kind |-> "accepted", try |-> tries[c]]
    BY <1>5, <2>2 DEF Kind
  <2>4. \E kind \in Kind : Resolves(c, kind)
    BY <1>5, <2>1
  <2> HIDE DEF U
  <2> QED
    BY <1>2, <1>3, <1>4, <1>7, <2>3, <2>4, AttemptEndKeeps
<1> QED
  BY <1>8, <1>9

LEMMA AttemptFailsKeeps ==
    ASSUME Inv, NEW c \in Call, AttemptFails(c)
    PROVE  Inv'
<1>1. stage[c] = "waiting" /\ UNCHANGED <<request, answer, job>>
  BY DEF AttemptFails
<1>2. replies' \subseteq replies /\ \A y \in replies' : y.call # c
  BY DEF Inv, Replies, AttemptFails
<1>3. unsure' = [unsure EXCEPT ![c] = @ \cup {tries[c]}]
  BY DEF AttemptFails
<1>4. Repeats(c) \/ Rejects(c)
  BY <1>1, RetryOrRejectSplits DEF AttemptFails, Rejects
<1> QED
  BY <1>1, <1>2, <1>3, <1>4, AttemptEndKeeps

LEMMA StutterKeeps ==
    ASSUME Inv, UNCHANGED vars
    PROVE  Inv'
<1>1. TypeOK' /\ Attempts' /\ Replies' /\ Calls' /\ JobsAccounted'
  BY DEF Inv, TypeOK, Attempts, Replies, Calls, JobsAccounted, vars, callVars
<1>2. Cancellations'
  BY SameCancellations DEF Inv, vars
<1> QED
  BY <1>1, <1>2 DEF Inv

-------------------------------------------------------------------------------
(* The two posts of Slack *)

\* Call c is the second post of a sendMessage whose first one, b, was accepted.
PostedAfter(c, b, n) ==
    /\ request[c].of = <<b, n>>
    /\ request[b].channel = "slackMrD" /\ stage[b] = "resolved"
    /\ answer[b] = [kind |-> "accepted", try |-> n]

\* The message of an attempt that was accepted has been taken, only a reservation is
\* ever reserved or cancelled, and a second post names the first.
PostsOK(c) ==
    /\ request[c].channel \in SlackChannels => request[c].op = "send"
    /\ \A n \in Attempt : job[c][n] \in {"reserved", "cancelled"} => request[c].op = "reserve"
    /\ answer[c].kind = "accepted" /\ request[c].op # "cancel" =>
          answer[c].try \in Attempt /\ job[c][answer[c].try] # "none"
    /\ \A x \in replies :
          x.call = c /\ x.kind = "accepted" /\ request[c].op # "cancel" =>
              job[c][x.try] # "none"
    /\ request[c].channel = "slack" /\ request[c].of # <<>> =>
          \E b \in Call, n \in Attempt : PostedAfter(c, b, n)

Posts == \A c \in Call : PostsOK(c)

LEMMA InitPosts == Init => Posts
<1> SUFFICES ASSUME Init, NEW c \in Call PROVE PostsOK(c)
  BY DEF Posts
<1>1. request[c] = NoRequest /\ answer[c] = NoAnswer /\ replies = {}
  BY DEF Init
<1>2. \A n \in Attempt : job[c][n] = "none"
  BY DEF Init
<1> QED
  BY <1>1, <1>2 DEF PostsOK, NoRequest, NoAnswer, SlackChannels

LEMMA StartKeepsPosts ==
    ASSUME Inv, Posts, NEW c \in Call, stage[c] = "new", NEW r \in Request, Asks(r),
           \E s \in {"waiting", "resolved", "rejected"} : stage' = [stage EXCEPT ![c] = s],
           request' = [request EXCEPT ![c] = r],
           UNCHANGED <<answer, replies, job>>
    PROVE  Posts'
<1> SUFFICES ASSUME NEW d \in Call PROVE PostsOK(d)'
  BY DEF Posts
<1>1. \A b \in Call : stage[b] = "resolved" =>
          b # c /\ stage'[b] = "resolved" /\ request'[b] = request[b]
  BY DEF Inv, TypeOK
<1>2. CASE d # c
  <2>1. request'[d] = request[d] /\ PostsOK(d)
    BY <1>2 DEF Inv, TypeOK, Posts
  <2>2. ASSUME NEW b \in Call, NEW n \in Attempt, PostedAfter(d, b, n)
        PROVE  PostedAfter(d, b, n)'
    BY <1>1, <2>1, <2>2 DEF PostedAfter
  <2> QED
    BY <2>1, <2>2 DEF PostsOK
<1>3. CASE d = c
  <2>1. request'[c] = r
    BY DEF Inv, TypeOK
  <2>2. /\ tries[c] = 0 /\ answer[c].kind = "none"
        /\ \A x \in replies : x.call # c
    BY DEF Inv, Calls, Replies
  <2>3. \A n \in Attempt : job[c][n] = "none"
    <3>1. \A n \in Attempt : n > tries[c]
      BY <2>2, ConstantsAssumption DEF Attempt
    <3> QED
      BY <3>1 DEF Inv, Attempts
  <2>4. r.channel \in SlackChannels => r.op = "send"
    BY DEF Asks
  <2>5. ASSUME r.channel = "slack", r.of # <<>>
        PROVE  \E b \in Call, n \in Attempt : PostedAfter(c, b, n)'
    <3>1. SecondPost(r)
      BY <2>4, <2>5 DEF Asks, SlackChannels
    <3>2. PICK b \in Call : /\ stage[b] = "resolved" /\ answer[b].kind = "accepted"
                            /\ request[b].channel = "slackMrD"
                            /\ r.of = <<b, answer[b].try>>
      BY <3>1 DEF SecondPost
    <3>3. answer[b].try \in Attempt
      <4>1. r.of \in Call \X Attempt
        BY <2>5 DEF Request
      <4> QED
        BY <3>2, <4>1
    <3>4. answer[b] = [kind |-> "accepted", try |-> answer[b].try]
      BY <3>2 DEF Inv, TypeOK
    <3>5. PostedAfter(c, b, answer[b].try)'
      BY <1>1, <2>1, <3>2, <3>4 DEF PostedAfter
    <3> QED
      BY <3>3, <3>5
  <2> QED
    BY <1>3, <2>1, <2>2, <2>3, <2>4, <2>5 DEF PostsOK
<1> QED
  BY <1>2, <1>3

\* What the provider holds changes: nothing it took is forgotten, only a reservation
\* is reserved, and what it says to have taken it has.
LEMMA ProviderKeepsPosts ==
    ASSUME Posts, UNCHANGED callVars,
           \A d \in Call, n \in Attempt :
               /\ job[d][n] # "none" => job'[d][n] # "none"
               /\ job'[d][n] \in {"reserved", "cancelled"} =>
                     job[d][n] \in {"reserved", "cancelled"} \/ request[d].op = "reserve",
           \A x \in replies : x.try \in Attempt,
           \A x \in replies' \ replies :
               x.kind = "accepted" /\ request[x.call].op # "cancel" =>
                   job'[x.call][x.try] # "none"
    PROVE  Posts'
<1> SUFFICES ASSUME NEW c \in Call PROVE PostsOK(c)'
  BY DEF Posts
<1>1. PostsOK(c) /\ UNCHANGED <<stage, request, answer>>
  BY DEF Posts, callVars
<1>2. \A b \in Call, n \in Attempt : PostedAfter(c, b, n) => PostedAfter(c, b, n)'
  BY <1>1 DEF PostedAfter
<1>3. ASSUME NEW x \in replies', x.call = c, x.kind = "accepted", request[c].op # "cancel"
      PROVE  job'[c][x.try] # "none"
  <2>1. CASE x \in replies
    BY <1>1, <1>3, <2>1 DEF PostsOK
  <2>2. CASE x \notin replies
    BY <1>3, <2>2
  <2> QED
    BY <2>1, <2>2
<1> QED
  BY <1>1, <1>2, <1>3 DEF PostsOK

LEMMA AttemptEndKeepsPosts ==
    ASSUME Inv, Posts, NEW c \in Call, stage[c] = "waiting",
           UNCHANGED <<request, job>>, replies' \subseteq replies,
           \A d \in Call : d # c => stage'[d] = stage[d],
           \/ answer' = answer
           \/ \E x \in replies :
                 /\ x.call = c
                 /\ answer' = [answer EXCEPT ![c] = [kind |-> x.kind, try |-> x.try]]
    PROVE  Posts'
<1> SUFFICES ASSUME NEW d \in Call PROVE PostsOK(d)'
  BY DEF Posts
<1>1. PostsOK(d)
  BY DEF Posts
<1>2. \A b \in Call, n \in Attempt : PostedAfter(d, b, n) => PostedAfter(d, b, n)'
  BY DEF PostedAfter, Inv, TypeOK
<1>3. ASSUME answer'[d].kind = "accepted", request[d].op # "cancel"
      PROVE  answer'[d].try \in Attempt /\ job[d][answer'[d].try] # "none"
  <2>1. CASE answer'[d] = answer[d]
    BY <1>1, <1>3, <2>1 DEF PostsOK
  <2>2. CASE answer'[d] # answer[d]
    <3>1. PICK x \in replies : x.call = d /\ answer'[d] = [kind |-> x.kind, try |-> x.try]
      BY <2>2 DEF Inv, TypeOK
    <3>2. x.try \in Attempt
      BY DEF Inv, TypeOK
    <3> QED
      BY <1>1, <1>3, <3>1, <3>2 DEF PostsOK
  <2> QED
    BY <2>1, <2>2
<1> QED
  BY <1>1, <1>2, <1>3 DEF PostsOK

LEMMA ProviderStepKeepsPosts ==
    ASSUME Inv, Posts, NEW a \in Call \X Attempt,
           ProviderAccepts(a) \/ ProviderErrs(a) \/ ProviderRefuses(a) \/ RequestLost(a)
    PROVE  Posts'
<1>1. \A x \in replies : x.try \in Attempt
  BY DEF Inv, TypeOK
<1>2. PICK k \in Call, m \in Attempt : a = <<k, m>>
  OBVIOUS
<1>3. ASSUME NEW kind, Answers(a, kind), NEW x \in replies' \ replies
      PROVE  x = [call |-> k, try |-> m, kind |-> kind]
  BY <1>2, <1>3 DEF Answers
<1>4. ASSUME a \in network, Does(a)
      PROVE  /\ \A d \in Call, n \in Attempt :
                   /\ job[d][n] # "none" => job'[d][n] # "none"
                   /\ job'[d][n] \in {"reserved", "cancelled"} =>
                         job[d][n] \in {"reserved", "cancelled"} \/ request[d].op = "reserve"
             /\ request[k].op # "cancel" => job'[k][m] # "none"
  <2>1. job \in [Call -> [Attempt -> JobState]]
    BY DEF Inv, TypeOK, JobState
  <2>2. CASE request[k].op = "cancel"
    <3>1. tries[k] > 0
      BY <1>2, <1>4 DEF Inv, TypeOK, Attempts, Attempt
    <3>2. PICK b \in Call, n \in Attempt : Names(k, b, n)
      BY <2>2, <3>1 DEF Inv, Cancellations
    <3>3. /\ job[b][n] = "reserved"
          /\ job' = [job EXCEPT ![b][n] = "cancelled"]
      BY <1>2, <1>4, <2>2, <3>2 DEF Does, Names
    <3> QED
      BY <2>1, <2>2, <3>2, <3>3
  <2>3. CASE request[k].op # "cancel"
    <3>1. job' = [job EXCEPT ![k][m] =
                     IF request[k].op = "reserve" THEN "reserved" ELSE "queued"]
      BY <1>2, <1>4, <2>3 DEF Does
    <3> QED
      BY <2>1, <3>1
  <2> QED
    BY <2>2, <2>3
<1>5. CASE ProviderAccepts(a)
  BY <1>1, <1>3, <1>4, <1>5, ProviderKeepsPosts DEF ProviderAccepts
<1>6. CASE ProviderErrs(a)
  BY <1>1, <1>3, <1>4, <1>6, ProviderKeepsPosts DEF ProviderErrs
<1>7. CASE ProviderRefuses(a)
  BY <1>1, <1>3, <1>7, ProviderKeepsPosts DEF ProviderRefuses
<1>8. CASE RequestLost(a)
  BY <1>1, <1>8, ProviderKeepsPosts DEF RequestLost
<1> QED
  BY <1>5, <1>6, <1>7, <1>8

LEMMA NextKeepsPosts == Inv /\ Posts /\ [Next]_vars => Posts'
<1> SUFFICES ASSUME Inv, Posts, [Next]_vars PROVE Posts'
  OBVIOUS
<1>1. ASSUME NEW c \in Call, NEW r \in Request,
             CheckFails(c, r) \/ ReturnsText(c, r) \/ SendRequest(c, r)
      PROVE  Posts'
  BY <1>1, StartKeepsPosts DEF CheckFails, ReturnsText, SendRequest
<1>2. ASSUME NEW a \in Call \X Attempt,
             ProviderAccepts(a) \/ ProviderErrs(a) \/ ProviderRefuses(a) \/ RequestLost(a)
      PROVE  Posts'
  BY <1>2, ProviderStepKeepsPosts
<1>3. ASSUME NEW c \in Call, NEW n \in Attempt, Deliver(c, n) PROVE Posts'
  <2>1. \A x \in replies : x.try \in Attempt
    BY DEF Inv, TypeOK
  <2>2. \A d \in Call, k \in Attempt :
           /\ job[d][k] # "none" => job'[d][k] # "none"
           /\ job'[d][k] \in {"reserved", "cancelled"} => job[d][k] \in {"reserved", "cancelled"}
    BY <1>3 DEF Deliver, Inv, TypeOK
  <2> QED
    BY <1>3, <2>1, <2>2, ProviderKeepsPosts DEF Deliver
<1>4. ASSUME NEW c \in Call, ReadAnswer(c) PROVE Posts'
  <2>1. PICK x \in replies :
           /\ x.call = c /\ x.try = tries[c]
           /\ replies' = replies \ {x}
           /\ \/ RetryOrReject(c) /\ UNCHANGED answer
              \/ Resolve(c, x.kind)
    BY <1>4 DEF ReadAnswer
  <2>2. \A d \in Call : d # c => stage'[d] = stage[d]
    BY <2>1 DEF RetryOrReject, Resolve, Inv, TypeOK
  <2>3. answer' = answer \/ answer' = [answer EXCEPT ![c] = [kind |-> x.kind, try |-> x.try]]
    BY <2>1 DEF Resolve
  <2> QED
    BY <1>4, <2>1, <2>2, <2>3, AttemptEndKeepsPosts DEF ReadAnswer
<1>5. ASSUME NEW c \in Call, AttemptFails(c) PROVE Posts'
  <2>1. \A d \in Call : d # c => stage'[d] = stage[d]
    BY <1>5 DEF AttemptFails, RetryOrReject, Inv, TypeOK
  <2> QED
    BY <1>5, <2>1, AttemptEndKeepsPosts DEF AttemptFails
<1>6. CASE UNCHANGED vars
  <2>1. \A x \in replies : x.try \in Attempt
    BY DEF Inv, TypeOK
  <2> QED
    BY <1>6, <2>1, ProviderKeepsPosts DEF vars
<1> QED
  BY <1>1, <1>2, <1>3, <1>4, <1>5, <1>6 DEF Next

-------------------------------------------------------------------------------
(* The theorems *)

\* Types, the accounting of duplicates and the invariant they need: for any number of
\* calls and repetitions, whatever the network and the provider do, a message that the
\* provider took beyond the one its caller knows of comes from an attempt without an
\* answer or with an internal error.
THEOREM JobsAccountedHolds == Spec => [](TypeOK /\ JobsAccounted /\ Inv)
<1>1. Inv /\ [Next]_vars => Inv'
  BY CheckFailsKeeps, ReturnsTextKeeps, SendRequestKeeps, ProviderStepKeeps, DeliverKeeps,
     ReadAnswerKeeps, AttemptFailsKeeps, StutterKeeps DEF Next
<1>2. Inv => TypeOK /\ JobsAccounted
  BY DEF Inv
<1> QED
  BY <1>1, <1>2, InitInv, PTL DEF Spec

\* Every variable of the messengers stays in its set of values; in particular no call
\* makes more attempts than its service allows.
THEOREM TypeHolds == Spec => []TypeOK
BY JobsAccountedHolds, PTL

\* A cancellation that was reported as a success holds: the reservation is cancelled, and
\* only an attempt of the reservation with a lost reply can still reach the recipient.
THEOREM CancelHoldsAlways == Spec => []CancelHolds
<1>1. Inv => CancelHolds
  <2> SUFFICES ASSUME Inv, NEW c \in Call, request[c].op = "cancel",
                      answer[c].kind = "accepted"
               PROVE  LET b == request[c].of[1]
                      IN  /\ job[b][request[c].of[2]] = "cancelled"
                          /\ \A n \in Attempt :
                                job[b][n] \in {"queued", "reserved", "sent"} => n \in unsure[b]
    BY DEF CancelHolds
  <2>1. tries[c] > 0 /\ Told(c)
    BY DEF Inv, Calls, Told
  <2>2. PICK b \in Call, m \in Attempt : Names(c, b, m) /\ job[b][m] = "cancelled"
    BY <2>1 DEF Inv, Cancellations
  <2>3. ASSUME NEW n \in Attempt, job[b][n] \in {"queued", "reserved", "sent"}
        PROVE  n \in unsure[b]
    <3>1. stage[b] = "resolved" /\ answer[b] = [kind |-> "accepted", try |-> m]
      BY <2>2 DEF Names
    <3>2. answer[b] # [kind |-> "accepted", try |-> n]
      BY <3>1, <2>2, <2>3
    <3> QED
      BY <3>1, <3>2, <2>3 DEF Inv, JobsAccounted
  <2> QED
    BY <2>2, <2>3 DEF Names
<1> QED
  BY <1>1, JobsAccountedHolds, PTL

\* Whatever is repeated, refused or lost, what sendMessage puts into the application's
\* channel of Slack is in the other one, too: for any number of calls and repetitions.
THEOREM SlackInOrderHolds == Spec => []SlackInOrder
<1>1. Inv /\ Posts => SlackInOrder
  <2> SUFFICES ASSUME Inv, Posts, NEW c \in Call,
                      request[c].channel = "slack", request[c].of # <<>>
               PROVE  job[request[c].of[1]][request[c].of[2]] \in {"queued", "sent"}
    BY DEF SlackInOrder
  <2>1. PICK b \in Call, n \in Attempt : PostedAfter(c, b, n)
    BY DEF Posts, PostsOK
  <2>2. PostsOK(b) /\ request[b].op = "send"
    BY <2>1 DEF Posts, PostsOK, PostedAfter, SlackChannels
  <2>3. job[b][n] # "none" /\ job[b][n] \notin {"reserved", "cancelled"}
    BY <2>1, <2>2 DEF PostsOK, PostedAfter
  <2>4. job[b][n] \in {"none", "queued", "reserved", "sent", "cancelled"}
    BY DEF Inv, TypeOK
  <2> QED
    BY <2>1, <2>3, <2>4 DEF PostedAfter
<1>2. Inv /\ Inv' /\ Posts /\ [Next]_vars => Posts'
  BY NextKeepsPosts
<1> QED
  BY <1>1, <1>2, InitPosts, JobsAccountedHolds, PTL DEF Spec
=============================================================================
