---------------------------- MODULE TfsRemoteProofs ----------------------------
(***************************************************************************)
(* For any number of clients and workers, queues of any size and any       *)
(* number of faults: the answer a client gets is its own (AnswersOwn), and *)
(* its command takes effect while it waits (EffectWithinCall).  And until  *)
(* something goes wrong the clients see AtomicFs (AsIfLocal).              *)
(***************************************************************************)
EXTENDS TfsRemoteProps, TLAPS

\* What a call that has begun is: a command.
Begun == \A c \in Client : at[c] # "ready" => calling[c] \in Command

\* A worker that has no job has no command either.
Tasks ==
    /\ cmd \in [Worker -> Command \cup {NoCall}]
    /\ \A w \in Worker : job[w] = NoJob => cmd[w] = NoCall /\ outcome[w] = "none"

Inv == TypeOK /\ Begun /\ Tasks /\ AnswersOwn

\* AnswersOwn of one client, without sets.
Own(c) ==
    clean[c] =>
        /\ Single(c)
        /\ \A k \in RequestsOf(c) : at[c] = "recv" /\ requests[k].serial = serial[c]
        /\ \A w \in JobsOf(c) : at[c] = "recv" /\ job[w].serial = serial[c]
        /\ \A k \in AnswersOf(c) : at[c] = "recv" /\ answers[c][k].serial = serial[c]

LEMMA OwnSaysAnswersOwn ==
    /\ AnswersOwn <=> \A c \in Client : Own(c)
    /\ AnswersOwn' <=> \A c \in Client : Own(c)'
<1>1. \A c \in Client :
         Underway(c) \subseteq (IF at[c] = "recv" THEN {serial[c]} ELSE {}) <=>
            /\ \A k \in RequestsOf(c) : at[c] = "recv" /\ requests[k].serial = serial[c]
            /\ \A w \in JobsOf(c) : at[c] = "recv" /\ job[w].serial = serial[c]
            /\ \A k \in AnswersOf(c) : at[c] = "recv" /\ answers[c][k].serial = serial[c]
    BY DEF Underway
<1>2. \A c \in Client :
         (Underway(c) \subseteq (IF at[c] = "recv" THEN {serial[c]} ELSE {}))' <=>
            /\ \A k \in RequestsOf(c)' : at'[c] = "recv" /\ requests'[k].serial = serial'[c]
            /\ \A w \in JobsOf(c)' : at'[c] = "recv" /\ job'[w].serial = serial'[c]
            /\ \A k \in AnswersOf(c)' : at'[c] = "recv" /\ answers'[c][k].serial = serial'[c]
    BY DEF Underway
<1> QED
    BY <1>1, <1>2 DEF AnswersOwn, Own

\* The types of what moves, one by one.
AnswerType == [serial : Nat \ {0}, outcome : Outcome]

LEMMA Types ==
    ASSUME Inv
    PROVE  /\ at \in [Client -> {"ready", "send", "recv"}]
           /\ serial \in [Client -> Nat]
           /\ clean \in [Client -> BOOLEAN]
           /\ job \in [Worker -> Job] /\ outcome \in [Worker -> Outcome]
           /\ requests \in Seq(Request) /\ DOMAIN requests = 1 .. Len(requests)
           /\ Len(requests) \in Nat
           /\ answers \in [Client -> Seq(AnswerType)]
           /\ \A c \in Client :
                 /\ answers[c] \in Seq(AnswerType) /\ Len(answers[c]) \in Nat
                 /\ AnswersOf(c) = 1 .. Len(answers[c])
<1>1. answers \in [Client -> Seq(AnswerType)]
    BY DEF Inv, TypeOK, AnswerType
<1>2. serial \in [Client -> Nat]
    BY RemoteAssumption DEF Inv, TypeOK
<1> QED
    BY <1>1, <1>2 DEF Inv, TypeOK, AnswersOf

\* Behind the only element of a sequence there is nothing.
LEMMA NothingBehind ==
    ASSUME NEW S, NEW s \in Seq(S), s # <<>>, \A j, k \in DOMAIN s : j = k
    PROVE  DOMAIN Tail(s) = {}
<1>1. Len(s) \in Nat /\ DOMAIN s = 1 .. Len(s) /\ Len(s) # 0
    OBVIOUS
<1>2. 2 <= Len(s) => 1 \in DOMAIN s /\ 2 \in DOMAIN s
    BY <1>1
<1>3. Len(s) = 1
    BY <1>1, <1>2
<1> QED
    BY <1>3

\* The outcomes of commands are outcomes.
LEMMA ErrorsAreOutcomes ==
    ASSUME NEW c, c.op \in {"create", "remove", "search", "move", "print"}
    PROVE  Fs!Errors(c) \subseteq Outcome /\ Fs!Refusals(c) \subseteq Outcome
<1>1. CASE c.op = "create"
    BY <1>1 DEF Fs!Errors, Fs!Refusals, Outcome
<1>2. CASE c.op = "remove"
    BY <1>2 DEF Fs!Errors, Fs!Refusals, Outcome
<1>3. CASE c.op = "search"
    BY <1>3 DEF Fs!Errors, Fs!Refusals, Outcome
<1>4. CASE c.op = "move" /\ c.path = c.dest
    BY <1>4 DEF Fs!Errors, Fs!Refusals, Outcome
<1>5. CASE c.op = "move" /\ c.path # c.dest
    BY <1>5 DEF Fs!Errors, Fs!Refusals, Outcome
<1>6. CASE c.op = "print"
    BY <1>6 DEF Fs!Errors, Fs!Refusals, Outcome
<1> QED
    BY <1>1, <1>2, <1>3, <1>4, <1>5, <1>6

-----------------------------------------------------------------------------
\* Steps that touch neither requests nor jobs, and send no answer.
LEMMA ClientLetsGo ==
    ASSUME Inv, NEW c \in Client, UNCHANGED <<requests, job>>,
           \A d \in Client \ {c} :
               UNCHANGED <<at[d], serial[d], clean[d], answers[d]>>,
           answers'[c] \in {answers[c], <<>>},
           clean'[c] => clean[c] /\ at[c] # "recv"
    PROVE  \A d \in Client : Own(d)'
<1> SUFFICES ASSUME NEW d \in Client, clean'[d]
             PROVE  Own(d)'
    BY DEF Own
<1>1. Own(d)
    BY OwnSaysAnswersOwn DEF Inv
<1>2. CASE d # c
    BY <1>1, <1>2 DEF Own, Single, RequestsOf, JobsOf, AnswersOf
<1>3. CASE d = c
    <2>1. RequestsOf(c) = {} /\ JobsOf(c) = {} /\ AnswersOf(c) = {}
        BY <1>1, <1>3 DEF Own
    <2>2. RequestsOf(c)' = {} /\ JobsOf(c)' = {} /\ AnswersOf(c)' = {}
        BY <2>1 DEF RequestsOf, JobsOf, AnswersOf
    <2> QED
        BY <1>3, <2>2 DEF Own, Single
<1> QED
    BY <1>2, <1>3

LEMMA SendKeepsOwn ==
    ASSUME Inv, NEW c \in Client, Send(c)
    PROVE  \A d \in Client : Own(d)'
<1> SUFFICES ASSUME NEW d \in Client, clean'[d]
             PROVE  Own(d)'
    BY DEF Own
<1> DEFINE request == [from |-> c, serial |-> serial[c] + 1, cmd |-> calling[c]]
<1>1. /\ Own(d) /\ clean[d] /\ at \in [Client -> {"ready", "send", "recv"}]
      /\ serial \in [Client -> Nat] /\ requests \in Seq(Request) /\ at[c] = "send"
    BY OwnSaysAnswersOwn, Types DEF Inv, Send
<1>2. requests' = Append(requests, request) /\ UNCHANGED <<job, answers>>
    BY <1>1 DEF Send
<1>3. RequestsOf(d)' = RequestsOf(d) \cup (IF d = c THEN {Len(requests) + 1} ELSE {})
    BY <1>1, <1>2 DEF RequestsOf
<1>4. \A k \in RequestsOf(d) : requests'[k] = requests[k]
    BY <1>1, <1>2 DEF RequestsOf
<1>5. JobsOf(d)' = JobsOf(d) /\ AnswersOf(d)' = AnswersOf(d)
    BY <1>2 DEF JobsOf, AnswersOf
<1> HIDE DEF request
<1>6. CASE d # c
    <2>1. at'[d] = at[d] /\ serial'[d] = serial[d]
        BY <1>1, <1>6 DEF Send
    <2> QED
        BY <1>1, <1>2, <1>3, <1>4, <1>5, <1>6, <2>1 DEF Own, Single
<1>7. CASE d = c
    <2>1. RequestsOf(c) = {} /\ JobsOf(c) = {} /\ AnswersOf(c) = {}
        BY <1>1, <1>7 DEF Own
    <2>2. at'[c] = "recv" /\ serial'[c] = serial[c] + 1
        BY <1>1 DEF Send
    <2>3. requests'[Len(requests) + 1].serial = serial'[c]
        BY <1>1, <1>2, <2>2 DEF request
    <2> QED
        BY <1>3, <1>5, <1>7, <2>1, <2>2, <2>3 DEF Own, Single
<1> QED
    BY <1>6, <1>7

LEMMA ReceiveKeepsOwn ==
    ASSUME Inv, NEW c \in Client, Receive(c)
    PROVE  \A d \in Client : Own(d)'
<1> SUFFICES ASSUME NEW d \in Client, clean'[d]
             PROVE  Own(d)'
    BY DEF Own
<1>1. Own(d) /\ clean[d] /\ UNCHANGED <<requests, job, serial>>
    BY OwnSaysAnswersOwn DEF Inv, Receive, serverVars, history
<1>2. RequestsOf(d)' = RequestsOf(d) /\ JobsOf(d)' = JobsOf(d)
    BY <1>1 DEF RequestsOf, JobsOf
<1>3. CASE d # c
    <2>1. at'[d] = at[d] /\ answers'[d] = answers[d]
        BY <1>3 DEF Receive, Return, Inv, TypeOK
    <2> QED
        BY <1>1, <1>2, <2>1 DEF Own, Single, AnswersOf
<1>4. CASE d = c
    <2>1. /\ answers[c] \in Seq(AnswerType) /\ Len(answers[c]) \in Nat /\ answers[c] # <<>>
          /\ AnswersOf(c) = 1 .. Len(answers[c])
        BY Types DEF Receive
    <2>2. 1 \in AnswersOf(c)
        BY <2>1
    <2>3. RequestsOf(c) = {} /\ JobsOf(c) = {} /\ \A j, k \in AnswersOf(c) : j = k
        BY <1>1, <1>4, <2>2 DEF Own, Single
    <2>4. DOMAIN Tail(answers[c]) = {}
        BY <2>1, <2>3, NothingBehind DEF AnswersOf
    <2>5. answers'[c] = Tail(answers[c])
        BY DEF Receive, Inv, TypeOK
    <2>6. AnswersOf(c)' = {}
        BY <2>4, <2>5 DEF AnswersOf
    <2> QED
        BY <1>2, <1>4, <2>3, <2>6 DEF Own, Single
<1> QED
    BY <1>3, <1>4

LEMMA TakeKeepsOwn ==
    ASSUME Inv, NEW w \in Worker, Take(w)
    PROVE  \A d \in Client : Own(d)'
<1> SUFFICES ASSUME NEW d \in Client, clean'[d]
             PROVE  Own(d)'
    BY DEF Own
<1> DEFINE c == requests[1].from
           new == [from |-> c, serial |-> requests[1].serial]
<1>1. /\ clean[d] /\ UNCHANGED <<answers, at, serial>>
      /\ job[w] = NoJob /\ requests # <<>> /\ requests' = Tail(requests)
    BY DEF Take, clientVars, history
<1>2. /\ requests \in Seq(Request) /\ job \in [Worker -> Job]
      /\ 1 \in DOMAIN requests /\ Len(requests) \in Nat /\ DOMAIN requests = 1 .. Len(requests)
    BY <1>1, Types
<1>3. Head(requests) = requests[1]
    BY <1>1, <1>2
<1>4. job' = [job EXCEPT ![w] = new] /\ Own(d)
    BY <1>1, <1>3, OwnSaysAnswersOwn DEF Take, Inv
<1>5. requests[1] \in Request
    BY <1>2
<1>6. c \in Client /\ new \in Job /\ new.from = c /\ new.serial = requests[1].serial
    BY <1>5 DEF Request, Job
<1>7. \A k \in RequestsOf(d)' :
         k + 1 \in RequestsOf(d) /\ k + 1 # 1 /\ k \in Nat /\ requests'[k] = requests[k + 1]
    BY <1>1, <1>2 DEF RequestsOf
<1>8. AnswersOf(d)' = AnswersOf(d)
    BY <1>1 DEF AnswersOf
<1>9. w \notin JobsOf(d)
    BY <1>1, RemoteAssumption DEF JobsOf, NoJob
<1>10. \A v \in Worker \ {w} : job'[v] = job[v]
    BY <1>4, <1>2
<1>11. job'[w] = new
    BY <1>4, <1>2
<1> HIDE DEF new
<1>12. CASE d # c
    <2>1. JobsOf(d)' = JobsOf(d)
        BY <1>6, <1>9, <1>10, <1>11, <1>12 DEF JobsOf
    <2>2. \A j, k \in RequestsOf(d)' : j = k
        BY <1>1, <1>4, <1>7 DEF Own, Single
    <2>3. RequestsOf(d)' # {} => RequestsOf(d) # {}
        BY <1>7
    <2>4. \A v \in JobsOf(d)' : v \in JobsOf(d) /\ job'[v] = job[v]
        BY <1>9, <1>10, <2>1 DEF JobsOf
    <2>5. answers'[d] = answers[d] /\ at'[d] = at[d] /\ serial'[d] = serial[d]
        BY <1>1
    <2>6. \A k \in RequestsOf(d)' : at'[d] = "recv" /\ requests'[k].serial = serial'[d]
        BY <1>1, <1>4, <1>7, <2>5 DEF Own
    <2>7. Single(d)'
        BY <1>1, <1>4, <1>8, <2>1, <2>2, <2>3 DEF Own, Single
    <2> QED
        BY <1>1, <1>4, <1>8, <2>4, <2>5, <2>6, <2>7 DEF Own
<1>13. CASE d = c
    <2>1. 1 \in RequestsOf(d)
        BY <1>2, <1>13 DEF RequestsOf
    <2>2. JobsOf(d) = {} /\ AnswersOf(d) = {} /\ \A k \in RequestsOf(d) : k = 1
        BY <1>1, <1>4, <2>1 DEF Own, Single
    <2>3. RequestsOf(d)' = {}
        BY <1>7, <2>2
    <2>4. JobsOf(d)' = {w}
        BY <1>6, <1>10, <1>11, <1>13, <2>2 DEF JobsOf
    <2>5. at[d] = "recv" /\ requests[1].serial = serial[d]
        BY <1>1, <1>4, <2>1 DEF Own
    <2> QED
        BY <1>1, <1>6, <1>8, <1>11, <2>2, <2>3, <2>4, <2>5 DEF Own, Single
<1> QED
    BY <1>12, <1>13

LEMMA AnswerKeepsOwn ==
    ASSUME Inv, NEW w \in Worker, Answer(w)
    PROVE  \A d \in Client : Own(d)'
<1> SUFFICES ASSUME NEW d \in Client, clean'[d]
             PROVE  Own(d)'
    BY DEF Own
<1> DEFINE c == job[w].from
           new == [serial |-> job[w].serial, outcome |-> outcome[w]]
<1>1. Own(d) /\ clean[d] /\ UNCHANGED <<requests, at, serial>> /\ job' = [job EXCEPT ![w] = NoJob]
    BY OwnSaysAnswersOwn DEF Inv, Answer, history
<1>2. job \in [Worker -> Job] /\ outcome \in [Worker -> Outcome] /\ answers \in [Client -> Seq(AnswerType)]
    BY Types
<1>3. RequestsOf(d)' = RequestsOf(d)
    BY <1>1 DEF RequestsOf
<1>4. \A v \in Worker \ {w} : job'[v] = job[v]
    BY <1>1, <1>2
<1>5. JobsOf(d)' = JobsOf(d) \ {w}
    BY <1>1, <1>2, <1>4, RemoteAssumption DEF JobsOf, NoJob
<1>6. \/ answers' = answers
      \/ c \in Client /\ answers' = [answers EXCEPT ![c] = Append(@, new)]
    BY DEF Answer, AnsweredTo
<1>7. CASE answers'[d] = answers[d]
    BY <1>1, <1>3, <1>4, <1>5, <1>7 DEF Own, Single, JobsOf, AnswersOf
<1>8. CASE answers'[d] # answers[d]
    <2>1. d = c /\ answers'[d] = Append(answers[d], new)
        BY <1>2, <1>6, <1>8
    <2>2. w \in JobsOf(d)
        BY <2>1 DEF JobsOf
    <2>3. /\ RequestsOf(d) = {} /\ AnswersOf(d) = {} /\ \A v \in JobsOf(d) : v = w
          /\ at[d] = "recv" /\ job[w].serial = serial[d]
        BY <1>1, <2>2 DEF Own, Single
    <2>4. JobsOf(d)' = {}
        BY <1>5, <2>3
    <2>5. answers[d] \in Seq(AnswerType) /\ Len(answers[d]) = 0
        <3>1. /\ answers[d] \in Seq(AnswerType) /\ Len(answers[d]) \in Nat
              /\ AnswersOf(d) = 1 .. Len(answers[d])
            BY Types
        <3>2. ~(1 <= Len(answers[d]))
            BY <2>3, <3>1
        <3> QED
            BY <3>1, <3>2
    <2>6. new \in AnswerType
        BY <1>2, <2>1, RemoteAssumption DEF Job, NoJob, AnswerType
    <2>7. AnswersOf(d)' = {1} /\ answers'[d][1] = new
        BY <2>1, <2>5, <2>6 DEF AnswersOf
    <2> QED
        BY <1>1, <1>3, <2>3, <2>4, <2>7 DEF Own, Single
<1> QED
    BY <1>7, <1>8

-----------------------------------------------------------------------------
\* Types.
LEMMA ClientKeepsTypes ==
    ASSUME Inv, NEW c \in Client,
           \/ Mount(c) \/ MountFails(c) \/ Unmount(c) \/ CreateRefused(c) \/ Call(c)
           \/ SendFails(c) \/ ReceiveFails(c) \/ ClientEnds(c)
    PROVE  TypeOK' /\ Begun'
<1> USE DEF serverVars, fsVars, history
<1>1. /\ UNCHANGED <<up, requests, job, outcome, serial>>
      /\ answers' \in {answers, [answers EXCEPT ![c] = <<>>]}
    <2>1. CASE ClientEnds(c) \/ Mount(c)
        BY <2>1 DEF ClientEnds, Mount
    <2>2. CASE Unmount(c)
        <3>1. answers' = [answers EXCEPT ![c] = <<>>] \/ answers' = [answers EXCEPT ![c] = answers[c]]
            BY <2>2 DEF Unmount
        <3>2. answers = [answers EXCEPT ![c] = answers[c]]
            BY Types
        <3> QED
            BY <2>2, <3>1, <3>2 DEF Unmount
    <2>3. CASE MountFails(c) \/ CreateRefused(c) \/ Call(c) \/ SendFails(c) \/ ReceiveFails(c)
        BY <2>3 DEF MountFails, CreateRefused, Call, SendFails, ReceiveFails
    <2> QED
        BY <2>1, <2>2, <2>3
<1>2. answers' \in [Client -> Seq(AnswerType)] /\ \A d \in Client : Len(answers'[d]) <= QueueSize
    <2>1. <<>> \in Seq(AnswerType) /\ Len(<<>>) <= QueueSize
        BY RemoteAssumption
    <2> QED
        BY <1>1, <2>1, Types DEF Inv, TypeOK
<1>3. mounted' \in [Client -> BOOLEAN]
    BY DEF Mount, MountFails, Unmount, CreateRefused, Call, SendFails, ReceiveFails, ClientEnds, Inv, TypeOK
<1>4. bound' \in [Client -> BOOLEAN]
    BY DEF Mount, MountFails, Unmount, CreateRefused, Call, SendFails, ReceiveFails, ClientEnds, Inv, TypeOK
<1>5. initialized' \in [Client -> BOOLEAN]
    BY DEF Mount, MountFails, Unmount, CreateRefused, Call, SendFails, ReceiveFails, ClientEnds, Inv, TypeOK
<1>6. clean' \in [Client -> BOOLEAN]
    BY DEF Mount, MountFails, Unmount, CreateRefused, Call, SendFails, ReceiveFails, ClientEnds, Inv, TypeOK
<1>7. faults' \in 0 .. MaxFaults
    BY RemoteAssumption DEF Mount, MountFails, Unmount, CreateRefused, Call, SendFails, ReceiveFails, ClientEnds, Inv, TypeOK, Fault
<1>8. returned' \in [Client -> -1 .. 2]
    <2>1. returned' = returned \/ \E value \in -1 .. 2 : returned' = [returned EXCEPT ![c] = value]
        <3>1. -1 \in -1 .. 2 /\ 0 \in -1 .. 2 /\ 1 \in -1 .. 2
            OBVIOUS
        <3>2. CASE Unmount(c)
            BY <3>1, <3>2 DEF Unmount, Return
        <3>3. CASE ~Unmount(c)
            BY <3>1, <3>3 DEF Mount, MountFails, CreateRefused, Call, SendFails, ReceiveFails, ClientEnds, Return
        <3> QED
            BY <3>2, <3>3
    <2> QED
        BY <2>1 DEF Inv, TypeOK
<1>9. calling' \in [Client -> Command \cup {NoCall}]
    <2>1. calling' = calling \/ \E value \in Command \cup {NoCall} : calling' = [calling EXCEPT ![c] = value]
        BY DEF Mount, MountFails, Unmount, CreateRefused, Call, SendFails, ReceiveFails, ClientEnds, Return
    <2> QED
        BY <2>1 DEF Inv, TypeOK
<1>10. at' \in [Client -> {"ready", "send", "recv"}]
    <2>1. at' = at \/ \E value \in {"ready", "send", "recv"} : at' = [at EXCEPT ![c] = value]
        BY DEF Mount, MountFails, Unmount, CreateRefused, Call, SendFails, ReceiveFails, ClientEnds, Return
    <2> QED
        BY <2>1 DEF Inv, TypeOK
<1>11. Begun'
    BY DEF Mount, MountFails, Unmount, CreateRefused, Call, SendFails, ReceiveFails, ClientEnds, Return, Inv, TypeOK, Begun
<1>12. stranded' \subseteq Worker
    BY DEF Mount, MountFails, Unmount, CreateRefused, Call, SendFails, ReceiveFails, ClientEnds, Inv, TypeOK
<1>13. UNCHANGED <<up, requests, job, outcome>> /\ serial' = serial
    BY DEF Mount, MountFails, Unmount, CreateRefused, Call, SendFails, ReceiveFails, ClientEnds,
        serverVars, fsVars, history
<1> QED
    BY <1>1, <1>2, <1>3, <1>4, <1>5, <1>6, <1>7, <1>8, <1>9, <1>10, <1>11, <1>12, <1>13
        DEF Inv, TypeOK, AnswerType

LEMMA SendKeepsTypes ==
    ASSUME Inv, NEW c \in Client, Send(c)
    PROVE  TypeOK' /\ Begun'
<1>1. /\ calling[c] \in Command /\ serial[c] \in Nat
      /\ requests \in Seq(Request) /\ Len(requests) \in Nat
    BY Types DEF Inv, Begun, Send
<1>2. serial'[c] = serial[c] + 1 /\ serial'[c] \in Nat \ {0}
    BY <1>1, Types, RemoteAssumption DEF Send
<1>3. serial' \in [Client -> Nat]
    BY <1>1, Types, RemoteAssumption DEF Send
<1>4. [from |-> c, serial |-> serial'[c], cmd |-> calling[c]] \in Request
    BY <1>1, <1>2 DEF Request
<1>5. requests' \in Seq(Request) /\ Len(requests') <= QueueSize
    BY <1>1, <1>4, RemoteAssumption DEF Send, Full
<1>6. at' \in [Client -> {"ready", "send", "recv"}] /\ Begun'
    BY Types DEF Send, Inv, Begun
<1> QED
    BY <1>3, <1>5, <1>6 DEF Inv, TypeOK, Send, fsVars

LEMMA ReceiveKeepsTypes ==
    ASSUME Inv, NEW c \in Client, Receive(c)
    PROVE  TypeOK' /\ Begun'
<1>1. answers[c] \in Seq(AnswerType) /\ answers[c] # <<>> /\ Len(answers[c]) <= QueueSize
    BY Types DEF Inv, TypeOK, Receive
<1>2. Tail(answers[c]) \in Seq(AnswerType) /\ Len(Tail(answers[c])) <= QueueSize
    BY <1>1, RemoteAssumption
<1>3. answers' \in [Client -> Seq(AnswerType)] /\ \A d \in Client : Len(answers'[d]) <= QueueSize
    BY <1>2, Types DEF Receive, Inv, TypeOK
<1>4. /\ at' \in [Client -> {"ready", "send", "recv"}] /\ calling' \in [Client -> Command \cup {NoCall}]
      /\ returned' \in [Client -> -1 .. 2] /\ Begun'
    BY DEF Receive, Return, Inv, TypeOK, Begun, history
<1> QED
    BY <1>3, <1>4 DEF Inv, TypeOK, AnswerType, Receive, serverVars, fsVars, history

LEMMA TakeKeepsTypes ==
    ASSUME Inv, NEW w \in Worker, Take(w)
    PROVE  TypeOK' /\ Begun'
<1>1. /\ requests \in Seq(Request) /\ requests # <<>> /\ Len(requests) <= QueueSize
      /\ Head(requests) \in Request
    BY Types DEF Inv, TypeOK, Take
<1>2. requests' \in Seq(Request) /\ Len(requests') <= QueueSize
    BY <1>1, RemoteAssumption DEF Take
<1>3. job' \in [Worker -> Job]
    BY <1>1, Types DEF Take, Request, Job
<1>4. outcome' \in [Worker -> Outcome]
    <2>1. CASE outcome' = [outcome EXCEPT ![w] = "Unparsed"]
        BY <2>1, Types DEF Outcome
    <2>2. CASE Fs!Call(w)
        BY <2>2, Types DEF Fs!Call
    <2>3. CASE Fs!Refuse(w)
        BY <2>3, Types, ErrorsAreOutcomes, RemoteAssumption DEF Fs!Refuse
    <2> QED
        BY <2>1, <2>2, <2>3 DEF Take
<1> QED
    BY <1>2, <1>3, <1>4 DEF Inv, TypeOK, Begun, Take, clientVars, history

LEMMA ExecuteKeepsTypes ==
    ASSUME Inv, NEW w \in Worker, Execute(w)
    PROVE  TypeOK' /\ Begun' /\ Tasks'
<1>1. cmd[w] \in Command
    BY DEF Inv, Tasks, Execute, Fs!TakeEffect, Fs!Idle, NoCall
<1>2. \A e \in Fs!Errors(cmd[w]) : e \in Outcome
    BY <1>1, ErrorsAreOutcomes, RemoteAssumption
<1>3. outcome' \in [Worker -> Outcome]
    <2>1. \E e \in Outcome : outcome' = [outcome EXCEPT ![w] = e]
        BY <1>2 DEF Execute, Fs!TakeEffect, Outcome
    <2> QED
        BY <2>1, Types
<1>4. job[w] # NoJob /\ \A v \in Worker \ {w} : outcome'[v] = outcome[v]
    BY DEF Inv, Tasks, Execute, Fs!TakeEffect, Fs!Idle, NoCall, TypeOK
<1>5. UNCHANGED <<clientVars, up, requests, job, cmd, stranded, history>>
    BY DEF Execute, Fs!TakeEffect
<1> QED
    BY <1>3, <1>4, <1>5 DEF Inv, TypeOK, Begun, Tasks, clientVars, history

LEMMA AnswerKeepsTypes ==
    ASSUME Inv, NEW w \in Worker, Answer(w)
    PROVE  TypeOK' /\ Begun'
<1>1. job' \in [Worker -> Job]
    BY Types DEF Answer, Job
<1>2. outcome' \in [Worker -> Outcome]
    BY Types DEF Answer, Fs!Answer, Outcome
<1>3. answers' \in [Client -> Seq(AnswerType)] /\ \A d \in Client : Len(answers'[d]) <= QueueSize
    <2> DEFINE c == job[w].from
               new == [serial |-> job[w].serial, outcome |-> outcome[w]]
    <2>1. CASE UNCHANGED answers
        BY <2>1, Types DEF Inv, TypeOK
    <2>2. CASE c \in Client /\ ~Full(answers[c]) /\ answers' = [answers EXCEPT ![c] = Append(@, new)]
        <3>1. new \in AnswerType
            BY <2>2, Types, RemoteAssumption DEF Job, NoJob, AnswerType
        <3>2. answers[c] \in Seq(AnswerType) /\ Len(answers[c]) \in Nat /\ Len(answers[c]) < QueueSize
            BY <2>2, Types, RemoteAssumption DEF Full
        <3> HIDE DEF new
        <3>3. Append(answers[c], new) \in Seq(AnswerType) /\ Len(Append(answers[c], new)) <= QueueSize
            BY <3>1, <3>2, RemoteAssumption
        <3> QED
            BY <2>2, <3>3, Types DEF Inv, TypeOK
    <2> QED
        BY <2>1, <2>2 DEF Answer, AnsweredTo
<1> QED
    BY <1>1, <1>2, <1>3 DEF Inv, TypeOK, AnswerType, Begun, Answer, history

LEMMA ServerKeepsTypes ==
    ASSUME Inv, ServerEnds \/ ServerStarts
    PROVE  TypeOK' /\ Begun' /\ Tasks'
<1>1. CASE ServerEnds
    <2>1. job' \in [Worker -> Job] /\ outcome' \in [Worker -> Outcome] /\ Tasks'
        BY <1>1 DEF ServerEnds, Job, Outcome, Tasks
    <2>2. requests' \in Seq(Request) /\ Len(requests') <= QueueSize
        BY <1>1, RemoteAssumption DEF ServerEnds
    <2>3. faults' \in 0 .. MaxFaults
        <3>1. faults' = faults + 1 /\ faults < MaxFaults /\ faults \in 0 .. MaxFaults
            BY <1>1 DEF ServerEnds, Fault, Inv, TypeOK
        <3> QED
            BY <3>1, RemoteAssumption
    <2> QED
        BY <1>1, <2>1, <2>2, <2>3 DEF Inv, TypeOK, Begun, ServerEnds, clientVars
<1>2. CASE ServerStarts
    BY <1>2 DEF ServerStarts, Inv, TypeOK, Begun, Tasks, clientVars, fsVars, history
<1> QED
    BY <1>1, <1>2


LEMMA TakeKeepsTasks ==
    ASSUME Inv, NEW w \in Worker, Take(w)
    PROVE  Tasks'
<1>1. \A v \in Worker \ {w} : UNCHANGED <<job[v], cmd[v], outcome[v]>>
    BY Types DEF Take, Fs!Call, Fs!Refuse, Inv, Tasks
<1>2. job'[w] # NoJob
    <2>1. Head(requests) \in Request /\ job'[w].from = Head(requests).from
        BY Types DEF Take
    <2> QED
        BY <2>1, RemoteAssumption DEF Request, NoJob
<1>3. cmd' \in [Worker -> Command \cup {NoCall}]
    BY DEF Take, Fs!Call, Fs!Refuse, Inv, Tasks
<1> QED
    BY <1>1, <1>2, <1>3 DEF Inv, Tasks

LEMMA AnswerKeepsTasks ==
    ASSUME Inv, NEW w \in Worker, Answer(w)
    PROVE  Tasks'
<1>1. /\ job' = [job EXCEPT ![w] = NoJob] /\ cmd' = [cmd EXCEPT ![w] = NoCall]
      /\ outcome' = [outcome EXCEPT ![w] = "none"]
    BY DEF Answer, Fs!Answer, Fs!Idle, NoCall
<1> QED
    BY <1>1, Types DEF Inv, Tasks

LEMMA InitHolds == Init => Inv
<1> SUFFICES ASSUME Init
             PROVE  Inv
    OBVIOUS
<1>1. TypeOK /\ Begun
    BY RemoteAssumption DEF Init, ClientInit, ServerInit, Fs!AtomicInit, TypeOK, Begun, Job, Outcome
<1>2. Tasks
    BY DEF Init, ServerInit, Fs!AtomicInit, Fs!Idle, Tasks, NoCall
<1>3. \A c \in Client : RequestsOf(c) = {} /\ JobsOf(c) = {} /\ AnswersOf(c) = {}
    BY RemoteAssumption DEF Init, ClientInit, ServerInit, RequestsOf, JobsOf, AnswersOf, NoJob
<1>4. \A c \in Client : Own(c)
    BY <1>3 DEF Own, Single
<1> QED
    BY <1>1, <1>2, <1>4, OwnSaysAnswersOwn DEF Inv

\* Every step keeps all of it: an action at a time.
LEMMA StepKeeps == Inv /\ [Next]_vars => Inv'
<1> SUFFICES ASSUME Inv, [Next]_vars
             PROVE  TypeOK' /\ Begun' /\ Tasks' /\ \A d \in Client : Own(d)'
    BY OwnSaysAnswersOwn DEF Inv
<1>1. CASE UNCHANGED vars
    <2>1. TypeOK' /\ Begun' /\ Tasks'
        BY <1>1 DEF Inv, TypeOK, Begun, Tasks, vars, clientVars, serverVars, fsVars, history
    <2>2. \A d \in Client : Own(d)
        BY OwnSaysAnswersOwn DEF Inv
    <2> QED
        BY <1>1, <2>1, <2>2 DEF Own, Single, RequestsOf, JobsOf, AnswersOf, vars, clientVars, serverVars, history
<1>2. ASSUME NEW c \in Client,
             \/ Mount(c) \/ MountFails(c) \/ Unmount(c) \/ CreateRefused(c) \/ Call(c)
             \/ SendFails(c) \/ ReceiveFails(c) \/ ClientEnds(c)
      PROVE  TypeOK' /\ Begun' /\ Tasks' /\ \A d \in Client : Own(d)'
    <2>1. TypeOK' /\ Begun'
        BY <1>2, ClientKeepsTypes
    <2>2. UNCHANGED <<requests, job, cmd, outcome>>
        BY <1>2 DEF Mount, MountFails, Unmount, CreateRefused, Call, SendFails, ReceiveFails, ClientEnds, serverVars, fsVars
    <2>3. Tasks'
        BY <2>2 DEF Inv, Tasks
    <2>4. \A d \in Client \ {c} : UNCHANGED <<at[d], serial[d], clean[d], answers[d]>>
        BY <1>2, Types DEF Mount, MountFails, Unmount, CreateRefused, Call, SendFails, ReceiveFails, ClientEnds, Return, history
    <2>5. answers'[c] \in {answers[c], <<>>}
        BY <1>2, Types DEF Mount, MountFails, Unmount, CreateRefused, Call, SendFails, ReceiveFails, ClientEnds
    <2>6. clean'[c] => clean[c] /\ at[c] # "recv"
        BY <1>2, Types DEF Mount, MountFails, Unmount, CreateRefused, Call, SendFails, ReceiveFails, ClientEnds, history
    <2>7. \A d \in Client : Own(d)'
        BY <2>2, <2>4, <2>5, <2>6, ClientLetsGo
    <2> QED
        BY <2>1, <2>3, <2>7
<1>3. ASSUME NEW c \in Client, Send(c)
      PROVE  TypeOK' /\ Begun' /\ Tasks' /\ \A d \in Client : Own(d)'
    BY <1>3, SendKeepsTypes, SendKeepsOwn DEF Send, fsVars, Inv, Tasks
<1>4. ASSUME NEW c \in Client, Receive(c)
      PROVE  TypeOK' /\ Begun' /\ Tasks' /\ \A d \in Client : Own(d)'
    BY <1>4, ReceiveKeepsTypes, ReceiveKeepsOwn DEF Receive, serverVars, fsVars, Inv, Tasks
<1>5. ASSUME NEW w \in Worker, Take(w)
      PROVE  TypeOK' /\ Begun' /\ Tasks' /\ \A d \in Client : Own(d)'
    BY <1>5, TakeKeepsTypes, TakeKeepsTasks, TakeKeepsOwn
<1>6. ASSUME NEW w \in Worker, Execute(w)
      PROVE  TypeOK' /\ Begun' /\ Tasks' /\ \A d \in Client : Own(d)'
    <2>1. UNCHANGED <<requests, job, at, serial, clean, answers>>
        BY <1>6 DEF Execute, clientVars, history
    <2>2. \A d \in Client : Own(d)
        BY OwnSaysAnswersOwn DEF Inv
    <2>3. \A d \in Client : Own(d)'
        BY <2>1, <2>2 DEF Own, Single, RequestsOf, JobsOf, AnswersOf
    <2> QED
        BY <1>6, <2>3, ExecuteKeepsTypes
<1>7. ASSUME NEW w \in Worker, Answer(w)
      PROVE  TypeOK' /\ Begun' /\ Tasks' /\ \A d \in Client : Own(d)'
    BY <1>7, AnswerKeepsTypes, AnswerKeepsTasks, AnswerKeepsOwn
<1>8. ASSUME ServerEnds \/ ServerStarts
      PROVE  TypeOK' /\ Begun' /\ Tasks' /\ \A d \in Client : Own(d)'
    <2>1. TypeOK' /\ Begun' /\ Tasks'
        BY <1>8, ServerKeepsTypes
    <2>2. \A d \in Client : Own(d)
        BY OwnSaysAnswersOwn DEF Inv
    <2>3. UNCHANGED <<at, serial, clean, answers>>
        BY <1>8 DEF ServerEnds, ServerStarts, clientVars, history
    <2>4. \/ UNCHANGED <<requests, job>>
          \/ requests' = <<>> /\ job' = [w \in Worker |-> NoJob]
        BY <1>8 DEF ServerEnds, ServerStarts
    <2>5. CASE UNCHANGED <<requests, job>>
        BY <2>2, <2>3, <2>5, <2>1 DEF Own, Single, RequestsOf, JobsOf, AnswersOf
    <2>6. CASE requests' = <<>> /\ job' = [w \in Worker |-> NoJob]
        <3>1. \A d \in Client : RequestsOf(d)' = {} /\ JobsOf(d)' = {} /\ AnswersOf(d)' = AnswersOf(d)
            BY <2>3, <2>6, RemoteAssumption DEF RequestsOf, JobsOf, AnswersOf, NoJob
        <3> QED
            BY <2>1, <2>2, <2>3, <3>1 DEF Own, Single, AnswersOf
    <2> QED
        BY <2>1, <2>4, <2>5, <2>6
<1> QED
    BY <1>1, <1>2, <1>3, <1>4, <1>5, <1>6, <1>7, <1>8 DEF Next, ClientWork, ServerWork

-----------------------------------------------------------------------------
\* Inv is inductive: it holds initially, and every step keeps it.
THEOREM Invariance == Spec => []Inv
BY InitHolds, StepKeeps, PTL DEF Spec

\* Every variable keeps its type; no queue grows past its size.
THEOREM TypeCorrect == Spec => []TypeOK
<1>1. Inv => TypeOK
    BY DEF Inv
<1> QED
    BY Invariance, <1>1, PTL

\* What a client receives is the answer to the command it sent.
THEOREM AnswersAreOwn == Spec => []AnswersOwn
<1>1. Inv => AnswersOwn
    BY DEF Inv
<1> QED
    BY Invariance, <1>1, PTL

\* A client that gave up stays one that did.
LEMMA NeverCleanAgain ==
    ASSUME Inv, [Next]_vars
    PROVE  \A c \in Client : clean'[c] => clean[c]
<1>1. \/ clean' = clean
      \/ \E c \in Client : ReceiveFails(c) \/ ClientEnds(c)
    BY DEF Next, ServerWork, ClientWork, Mount, MountFails, Unmount, CreateRefused,
        Call, Send, SendFails, Receive, ServerStarts, ServerEnds, Take, Execute, Answer, history, vars
<1>2. ASSUME NEW c \in Client, ReceiveFails(c) \/ ClientEnds(c)
      PROVE  \A d \in Client : clean'[d] => clean[d]
    BY <1>2 DEF ReceiveFails, ClientEnds, Inv, TypeOK
<1> QED
    BY <1>1, <1>2

\* A worker that waits for room in a socket answers a client that gave up.
LEMMA WaitingIsForUnclean ==
    ASSUME Inv, NEW w \in Worker, Waiting(w)
    PROVE  job[w].from \in Client /\ ~clean[job[w].from]
<1>1. job[w] # NoJob /\ job[w] \in Job
    BY Types DEF Inv, Tasks, Waiting
<1>2. PICK c \in Client : job[w].from = c
    BY <1>1 DEF Job
<1>3. w \in JobsOf(c) /\ Own(c)
    BY <1>2, OwnSaysAnswersOwn DEF JobsOf, Inv
<1>4. AnswersOf(c) # {}
    <2>1. Len(answers[c]) \in Nat /\ AnswersOf(c) = 1 .. Len(answers[c])
        BY Types
    <2>2. Len(answers[c]) >= QueueSize
        BY <1>2 DEF Waiting, Full
    <2>3. 1 \in AnswersOf(c)
        BY <2>1, <2>2, RemoteAssumption
    <2> QED
        BY <2>3
<1> QED
    BY <1>2, <1>3, <1>4 DEF Own, Single

\* So does one that waits at a socket that its client has left behind.
StrandedByUnclean == \A w \in stranded : job[w].from \in Client /\ ~clean[job[w].from]

LEMMA StepKeepsStranded ==
    ASSUME Inv, StrandedByUnclean, [Next]_vars
    PROVE  StrandedByUnclean'
<1>1. CASE UNCHANGED vars
    BY <1>1 DEF vars, serverVars, history, StrandedByUnclean
<1>2. ASSUME NEW c \in Client, Mount(c)
      PROVE  StrandedByUnclean'
    <2>1. UNCHANGED <<job, clean>>
        BY <1>2 DEF Mount, serverVars, history
    <2>2. \A w \in stranded' : w \in stranded \/ (w \in Worker /\ Waiting(w))
        BY <1>2 DEF Mount
    <2> QED
        BY <2>1, <2>2, WaitingIsForUnclean DEF StrandedByUnclean
<1>3. ASSUME NEW c \in Client, ~Mount(c),
             \/ MountFails(c) \/ Unmount(c) \/ CreateRefused(c) \/ Call(c)
             \/ ClientWork(c) \/ ReceiveFails(c) \/ ClientEnds(c)
      PROVE  StrandedByUnclean'
    <2>1. job' = job /\ stranded' \subseteq stranded
        BY <1>3 DEF MountFails, Unmount, CreateRefused, Call, ClientWork, Send, SendFails, Receive,
            ReceiveFails, ClientEnds, serverVars
    <2>2. \A d \in Client : clean'[d] => clean[d]
        BY <1>3, NeverCleanAgain DEF Next
    <2> QED
        BY <2>1, <2>2 DEF StrandedByUnclean
<1>4. ASSUME NEW w \in Worker, ServerWork(w)
      PROVE  StrandedByUnclean'
    <2>1. UNCHANGED <<stranded, clean>>
        BY <1>4 DEF ServerWork, Take, Execute, Answer, history
    <2>2. \A v \in Worker \ {w} : job'[v] = job[v]
        BY <1>4, Types DEF ServerWork, Take, Execute, Answer
    <2>3. w \in stranded => job'[w] = job[w]
        <3>1. w \in stranded => job[w] # NoJob
            BY RemoteAssumption DEF StrandedByUnclean, NoJob
        <3> QED
            BY <1>4, <3>1 DEF ServerWork, Take, Execute, Answer
    <2>4. stranded \subseteq Worker
        BY DEF Inv, TypeOK
    <2> QED
        BY <2>1, <2>2, <2>3, <2>4 DEF StrandedByUnclean
<1>5. CASE ServerEnds \/ ServerStarts
    BY <1>5 DEF ServerEnds, ServerStarts, history, StrandedByUnclean
<1> QED
    BY <1>1, <1>2, <1>3, <1>4, <1>5 DEF Next

\* A client whose answers are all its own holds no worker up: only those that
\* gave up on a call can fill their socket and make a worker wait for room
\* (tecnicofs.c:286), or leave it waiting at a socket they have replaced,
\* whatever the others do.
THEOREM PatientClientsBlockNobody ==
    Spec => [](\A w \in Worker : Stuck(w) => ~clean[job[w].from])
<1>1. Init => StrandedByUnclean
    BY DEF Init, ServerInit, StrandedByUnclean
<1>2. Inv /\ StrandedByUnclean /\ [Next]_vars => StrandedByUnclean'
    BY StepKeepsStranded
<1>3. Inv /\ StrandedByUnclean => \A w \in Worker : Stuck(w) => ~clean[job[w].from]
    BY WaitingIsForUnclean DEF Stuck, StrandedByUnclean
<1> QED
    BY Invariance, <1>1, <1>2, <1>3, PTL DEF Spec

\* A command takes effect while its client waits for it.
THEOREM EffectsWithinCalls == Spec => EffectWithinCall
<1>1. ASSUME Inv, Next, NEW w \in Worker,
             outcome[w] = "none", outcome'[w] # "none", job'[w] # NoJob,
             clean[job'[w].from]
      PROVE  at[job'[w].from] = "recv" /\ serial[job'[w].from] = job'[w].serial
    <2> DEFINE c == job'[w].from
    <2>1. CASE Execute(w)
        <3>1. job' = job
            BY <2>1 DEF Execute
        <3>2. c \in Client /\ w \in JobsOf(c)
            BY <1>1, <3>1, Types DEF Job, JobsOf
        <3> QED
            BY <1>1, <3>1, <3>2, OwnSaysAnswersOwn DEF Inv, Own
    <2>2. CASE Take(w)
        <3>1. /\ requests \in Seq(Request) /\ requests # <<>> /\ Len(requests) \in Nat
              /\ DOMAIN requests = 1 .. Len(requests) /\ job \in [Worker -> Job]
            <4>1. requests # <<>>
                BY <2>2 DEF Take
            <4> QED
                BY <1>1, <4>1, Types
        <3>2. requests[1] \in Request /\ Head(requests) = requests[1] /\ 1 \in DOMAIN requests
            BY <3>1
        <3>3. c = requests[1].from /\ job'[w].serial = requests[1].serial
            <4>1. job' = [job EXCEPT ![w] =
                             [from |-> Head(requests).from, serial |-> Head(requests).serial]]
                BY <2>2 DEF Take
            <4> QED
                BY <3>1, <3>2, <4>1
        <3>4. c \in Client /\ 1 \in RequestsOf(c)
            BY <3>2, <3>3 DEF Request, RequestsOf
        <3> QED
            BY <1>1, <3>3, <3>4, OwnSaysAnswersOwn DEF Inv, Own
    <2>3. CASE ~Execute(w) /\ ~Take(w)
        <3>1. \A v \in Worker \ {w} : Take(v) \/ Execute(v) \/ Answer(v) => outcome'[w] = outcome[w]
            BY Types, <1>1 DEF Take, Execute, Answer, Fs!Call, Fs!Refuse, Fs!TakeEffect, Fs!Answer
        <3>2. ~Answer(w) /\ ~ServerEnds
            BY <1>1, Types DEF Answer, Fs!Answer, ServerEnds
        <3>3. outcome' = outcome \/ \E v \in Worker \ {w} : Take(v) \/ Execute(v) \/ Answer(v)
            BY <1>1, <2>3, <3>2 DEF Next, ServerWork, ClientWork, Mount, MountFails, Unmount, CreateRefused,
                Call, Send, SendFails, Receive, ReceiveFails, ClientEnds, ServerStarts, serverVars, fsVars
        <3> QED
            BY <1>1, <3>1, <3>3
    <2> QED
        BY <2>1, <2>2, <2>3
<1>2. Inv /\ [Next]_vars =>
         [\A w \in Worker : outcome[w] = "none" /\ outcome'[w] # "none" /\ job'[w] # NoJob =>
             LET c == job'[w].from IN
             clean[c] => at[c] = "recv" /\ serial[c] = job'[w].serial]_vars
    BY <1>1
<1> QED
    BY Invariance, <1>2, PTL DEF Spec, EffectWithinCall

-----------------------------------------------------------------------------
\* Nothing that is underway gets lost: where it goes in the two steps that
\* move it.
LEMMA TakeLosesNothing ==
    ASSUME Inv, NEW w \in Worker, Take(w), NEW c \in Client
    PROVE  Underway(c) \subseteq Underway(c)'
<1>1. /\ UNCHANGED answers /\ job[w] = NoJob /\ requests # <<>> /\ requests' = Tail(requests)
      /\ job' = [job EXCEPT ![w] = [from |-> Head(requests).from, serial |-> Head(requests).serial]]
    BY DEF Take, clientVars
<1>2. /\ requests \in Seq(Request) /\ job \in [Worker -> Job]
      /\ Len(requests) \in Nat /\ DOMAIN requests = 1 .. Len(requests)
    BY Types
<1>3. Head(requests) = requests[1]
    BY <1>1, <1>2
<1>4. ASSUME NEW k \in RequestsOf(c)
      PROVE  requests[k].serial \in Underway(c)'
    <2>1. CASE k = 1
        <3>1. w \in JobsOf(c)' /\ job'[w].serial = requests[k].serial
            BY <1>1, <1>2, <1>3, <1>4, <2>1 DEF RequestsOf, JobsOf
        <3> QED
            BY <3>1 DEF Underway
    <2>2. CASE k # 1
        <3>1. k - 1 \in DOMAIN requests' /\ requests'[k - 1] = requests[k]
            BY <1>1, <1>2, <1>4, <2>2 DEF RequestsOf
        <3>2. k - 1 \in RequestsOf(c)'
            BY <1>4, <3>1 DEF RequestsOf
        <3> QED
            BY <3>1, <3>2 DEF Underway
    <2> QED
        BY <2>1, <2>2
<1>5. ASSUME NEW v \in JobsOf(c)
      PROVE  job[v].serial \in Underway(c)'
    <2>1. v # w
        BY <1>1, <1>5, RemoteAssumption DEF JobsOf, NoJob
    <2>2. v \in JobsOf(c)' /\ job'[v].serial = job[v].serial
        BY <1>1, <1>2, <1>5, <2>1 DEF JobsOf
    <2> QED
        BY <2>2 DEF Underway
<1>6. ASSUME NEW k \in AnswersOf(c)
      PROVE  answers[c][k].serial \in Underway(c)'
    BY <1>1, <1>6 DEF AnswersOf, Underway
<1> QED
    BY <1>4, <1>5, <1>6 DEF Underway

LEMMA AnswerLosesNothing ==
    ASSUME Inv, NEW w \in Worker, Answer(w), NEW c \in Client, bound[c]
    PROVE  Underway(c) \subseteq Underway(c)'
<1> DEFINE new == [serial |-> job[w].serial, outcome |-> outcome[w]]
<1>1. /\ UNCHANGED requests /\ job' = [job EXCEPT ![w] = NoJob]
      /\ job \in [Worker -> Job] /\ answers \in [Client -> Seq(AnswerType)]
    BY Types DEF Answer
<1>2. \/ answers' = answers
      \/ job[w].from \in Client /\ answers' = [answers EXCEPT ![job[w].from] = Append(@, new)]
    BY DEF Answer, AnsweredTo
<1>3. answers'[c] \in {answers[c], Append(answers[c], new)}
    BY <1>1, <1>2
<1>4. answers[c] \in Seq(AnswerType) /\ Len(answers[c]) \in Nat /\ AnswersOf(c) = 1 .. Len(answers[c])
    BY Types
<1> HIDE DEF new
<1>5. ASSUME NEW k \in RequestsOf(c)
      PROVE  requests[k].serial \in Underway(c)'
    BY <1>1, <1>5 DEF RequestsOf, Underway
<1>6. ASSUME NEW k \in AnswersOf(c)
      PROVE  answers[c][k].serial \in Underway(c)'
    <2>1. k \in AnswersOf(c)' /\ answers'[c][k] = answers[c][k]
        BY <1>3, <1>4, <1>6 DEF AnswersOf
    <2> QED
        BY <2>1 DEF Underway
<1>7. ASSUME NEW v \in JobsOf(c)
      PROVE  job[v].serial \in Underway(c)'
    <2>1. CASE v # w
        <3>1. v \in JobsOf(c)' /\ job'[v].serial = job[v].serial
            BY <1>1, <1>7, <2>1 DEF JobsOf
        <3> QED
            BY <3>1 DEF Underway
    <2>2. CASE v = w
        <3>1. answers' = [answers EXCEPT ![c] = Append(@, new)]
            BY <1>7, <2>2 DEF JobsOf, Answer, AnsweredTo, new
        <3>2. answers'[c] = Append(answers[c], new)
            BY <1>1, <3>1
        <3>3. Len(answers[c]) + 1 \in AnswersOf(c)' /\ answers'[c][Len(answers[c]) + 1] = new
            BY <1>4, <3>2 DEF AnswersOf
        <3>4. new.serial = job[v].serial
            BY <2>2 DEF new
        <3> QED
            BY <3>3, <3>4 DEF Underway
    <2> QED
        BY <2>1, <2>2
<1> QED
    BY <1>5, <1>6, <1>7 DEF Underway

LEMMA SendLosesNothing ==
    ASSUME Inv, NEW d \in Client, Send(d), NEW c \in Client
    PROVE  Underway(c) \subseteq Underway(c)'
<1>1. /\ UNCHANGED <<job, answers>> /\ requests \in Seq(Request)
      /\ requests' = Append(requests, [from |-> d, serial |-> serial'[d], cmd |-> calling[d]])
    BY Types DEF Send
<1>2. \A k \in RequestsOf(c) : k \in RequestsOf(c)' /\ requests'[k] = requests[k]
    BY <1>1 DEF RequestsOf
<1> QED
    BY <1>1, <1>2 DEF Underway, JobsOf, AnswersOf

\* The answer a client waits for is neither dropped nor misdelivered.
THEOREM AnswersAreKept == Spec => AnswerKept
<1>1. ASSUME Inv, Next, NEW c \in Client, at[c] = "recv", at'[c] = "recv", up', bound[c]
      PROVE  Underway(c) \subseteq Underway(c)'
    <2>1. CASE UNCHANGED <<requests, job, answers[c]>>
        BY <2>1 DEF Underway, RequestsOf, JobsOf, AnswersOf
    <2>2. ASSUME NEW d \in Client, Send(d)
          PROVE  Underway(c) \subseteq Underway(c)'
        BY <1>1, <2>2, SendLosesNothing
    <2>3. ASSUME NEW d \in Client, ~Send(d),
                 \/ Mount(d) \/ MountFails(d) \/ Unmount(d) \/ CreateRefused(d) \/ Call(d)
                 \/ SendFails(d) \/ Receive(d) \/ ReceiveFails(d) \/ ClientEnds(d)
          PROVE  UNCHANGED <<requests, job, answers[c]>>
        <3>1. UNCHANGED <<requests, job>>
            BY <2>3 DEF Mount, MountFails, Unmount, CreateRefused, Call, SendFails, Receive, ReceiveFails,
                ClientEnds, serverVars
        <3>2. d = c => CreateRefused(d) \/ Call(d) \/ SendFails(d) \/ MountFails(d)
            BY <1>1, <2>3, Types DEF Mount, Unmount, Receive, ReceiveFails, ClientEnds, Return
        <3>3. answers'[c] = answers[c]
            BY <1>1, <2>3, <3>2, Types DEF Mount, MountFails, Unmount, CreateRefused, Call, SendFails, Receive,
                ReceiveFails, ClientEnds
        <3> QED
            BY <3>1, <3>3
    <2>4. ASSUME NEW w \in Worker, Take(w) \/ Execute(w) \/ Answer(w)
          PROVE  Underway(c) \subseteq Underway(c)'
        <3>1. Execute(w) => UNCHANGED <<requests, job, answers[c]>>
            BY DEF Execute, clientVars
        <3> QED
            BY <1>1, <2>1, <2>4, <3>1, TakeLosesNothing, AnswerLosesNothing
    <2>5. ~ServerEnds /\ (ServerStarts => UNCHANGED <<requests, job, answers[c]>>)
        BY <1>1 DEF ServerEnds, ServerStarts, clientVars
    <2> QED
        BY <1>1, <2>1, <2>2, <2>3, <2>4, <2>5 DEF Next, ClientWork, ServerWork
<1>2. Inv /\ [Next]_vars =>
         [\A c \in Client :
             /\ at[c] = "recv" /\ at'[c] = "recv"
             /\ serial[c] \in Underway(c) /\ serial[c] \notin Underway(c)'
             => ~up' \/ ~bound[c]]_vars
    BY <1>1
<1> QED
    BY Invariance, <1>2, PTL DEF Spec, AnswerKept

-----------------------------------------------------------------------------
\* Until something goes wrong the clients see AtomicFs.

\* What holds as long as nothing has gone wrong and no call was given up: a command that is underway
\* is the one its client has called, and nobody's socket is gone.
Smooth ==
    /\ up
    /\ \A c \in Client : clean[c] /\ (at[c] = "recv" => mounted[c]) /\ (mounted[c] => bound[c])
    /\ \A k \in DOMAIN requests : requests[k].cmd = calling[requests[k].from]
    /\ \A w \in Worker : job[w] # NoJob =>
          \/ calling[job[w].from] \in Garbled /\ cmd[w] = NoCall /\ outcome[w] # "none"
          \/ calling[job[w].from] \notin Garbled /\ cmd[w] = calling[job[w].from]
    /\ \A c \in Client : \A k \in DOMAIN answers[c] : answers[c][k].outcome # "none"
Faultless == Undisturbed => Smooth

LEMMA NoFaultBefore ==
    ASSUME Inv, Faultless, [Next]_vars, Undisturbed'
    PROVE  faults = 0 /\ Smooth
<1>1. faults \in Nat
    BY RemoteAssumption DEF Inv, TypeOK
<1>2. faults' = faults \/ faults' = faults + 1
    BY DEF Next, ServerWork, ClientWork, Mount, MountFails, Unmount, CreateRefused,
        Call, Send, SendFails, Receive, ReceiveFails, ClientEnds, ServerStarts, ServerEnds,
        Take, Execute, Answer, Fault, history, vars
<1>3. \A c \in Client : clean'[c] => clean[c]
    BY NeverCleanAgain
<1> QED
    BY <1>1, <1>2, <1>3 DEF Faultless, Undisturbed

\* What is underway for a client that does not wait: nothing.
LEMMA ReadyHasNothing ==
    ASSUME Inv, Smooth, NEW c \in Client, at[c] # "recv"
    PROVE  RequestsOf(c) = {} /\ JobsOf(c) = {} /\ AnswersOf(c) = {}
BY OwnSaysAnswersOwn DEF Inv, Own, Smooth

LEMMA NothingThere ==
    ASSUME NEW S, NEW s \in Seq(S), DOMAIN s = {}
    PROVE  s = <<>>
<1>1. Len(s) \in Nat /\ DOMAIN s = 1 .. Len(s)
    OBVIOUS
<1>2. ~(1 <= Len(s))
    BY <1>1
<1>3. Len(s) = 0
    BY <1>1, <1>2
<1> QED
    BY <1>3

\* The steps without faults.
SmoothStep ==
    \/ \E c \in Client :
          \/ Mount(c) \/ Unmount(c) \/ CreateRefused(c) \/ Call(c) \/ Send(c) \/ SendFails(c) \/ Receive(c)
    \/ \E w \in Worker : Take(w) \/ Execute(w) \/ Answer(w)
    \/ UNCHANGED vars

LEMMA OnlySmoothSteps ==
    ASSUME Inv, Faultless, [Next]_vars, Undisturbed'
    PROVE  SmoothStep
<1>1. faults = 0 /\ Smooth
    BY NoFaultBefore
<1>2. ~ServerStarts /\ ~ServerEnds /\ \A c \in Client : ~MountFails(c) /\ ~ClientEnds(c)
    BY <1>1 DEF ServerStarts, ServerEnds, MountFails, ClientEnds, Fault, Smooth, Undisturbed
<1>3. \A c \in Client : ~ReceiveFails(c)
    BY DEF ReceiveFails, Undisturbed, Inv, TypeOK
<1> QED
    BY <1>2, <1>3 DEF Next, ClientWork, ServerWork, SmoothStep

-----------------------------------------------------------------------------
\* Steps of a client that does not wait, or stops waiting.
LEMMA ClientKeepsSmooth ==
    ASSUME Inv, Smooth, Inv', NEW c \in Client,
           \/ Mount(c) \/ Unmount(c) \/ CreateRefused(c) \/ Call(c) \/ SendFails(c) \/ Receive(c)
    PROVE  Smooth'
<1> USE DEF serverVars, fsVars, history
<1>1. UNCHANGED <<up, requests, job, cmd, outcome, clean, tree>>
    BY DEF Mount, Unmount, CreateRefused, Call, SendFails, Receive
<1>2. \A d \in Client \ {c} : UNCHANGED <<at[d], calling[d], mounted[d], bound[d], answers[d]>>
    <2>1. /\ at \in [Client -> {"ready", "send", "recv"}] /\ mounted \in [Client -> BOOLEAN]
          /\ bound \in [Client -> BOOLEAN] /\ answers \in [Client -> Seq(AnswerType)]
          /\ calling \in [Client -> Command \cup {NoCall}]
        BY Types DEF Inv, TypeOK
    <2>2. /\ \A d \in Client \ {c} : at'[d] = at[d]
          /\ \A d \in Client \ {c} : calling'[d] = calling[d]
        BY <2>1 DEF Mount, Unmount, CreateRefused, Call, SendFails, Receive, Return
    <2>3. /\ \A d \in Client \ {c} : mounted'[d] = mounted[d]
          /\ \A d \in Client \ {c} : bound'[d] = bound[d]
        BY <2>1 DEF Mount, Unmount, CreateRefused, Call, SendFails, Receive
    <2>4. \A d \in Client \ {c} : answers'[d] = answers[d]
        BY <2>1 DEF Mount, Unmount, CreateRefused, Call, SendFails, Receive
    <2> QED
        BY <2>2, <2>3, <2>4
<1>3. at'[c] # "recv" /\ (mounted[c] => bound[c]) /\ clean'[c]
    BY <1>1, Types DEF Mount, Unmount, CreateRefused, Call, SendFails, Receive, Return, Smooth
<1>4. mounted'[c] => bound'[c]
    BY <1>3 DEF Mount, Unmount, CreateRefused, Call, SendFails, Receive, Return, Inv, TypeOK
<1>5. RequestsOf(c)' = {} /\ JobsOf(c)' = {} /\ AnswersOf(c)' = {}
    <2>1. Own(c)'
        BY OwnSaysAnswersOwn DEF Inv
    <2> QED
        BY <1>3, <2>1 DEF Own
<1>6. \A k \in DOMAIN requests' : requests'[k].from # c /\ requests'[k].from \in Client
    <2>1. \A k \in DOMAIN requests : requests[k] \in Request
        BY Types
    <2> QED
        BY <1>1, <1>5, <2>1 DEF RequestsOf, Request
<1>7. \A w \in Worker : job'[w] # NoJob => job'[w].from # c /\ job'[w].from \in Client
    BY <1>1, <1>5, Types DEF JobsOf, Job
<1>8. \A d \in Client : clean'[d] /\ (at'[d] = "recv" => mounted'[d]) /\ (mounted'[d] => bound'[d])
    BY <1>1, <1>2, <1>3, <1>4 DEF Smooth
<1>9. \A k \in DOMAIN requests' : requests'[k].cmd = calling'[requests'[k].from]
    BY <1>1, <1>2, <1>6 DEF Smooth
<1>10. \A w \in Worker : job'[w] # NoJob =>
          \/ calling'[job'[w].from] \in Garbled /\ cmd'[w] = NoCall /\ outcome'[w] # "none"
          \/ calling'[job'[w].from] \notin Garbled /\ cmd'[w] = calling'[job'[w].from]
    BY <1>1, <1>2, <1>7 DEF Smooth
<1>11. \A d \in Client : \A k \in DOMAIN answers'[d] : answers'[d][k].outcome # "none"
    BY <1>2, <1>5 DEF Smooth, AnswersOf
<1> QED
    BY <1>1, <1>8, <1>9, <1>10, <1>11 DEF Smooth

LEMMA SendKeepsSmooth ==
    ASSUME Inv, Smooth, NEW c \in Client, Send(c)
    PROVE  Smooth'
<1>1. /\ UNCHANGED <<up, job, cmd, outcome, clean, mounted, bound, calling, answers>>
      /\ mounted[c] /\ \A d \in Client \ {c} : at'[d] = at[d]
    BY Types DEF Send, fsVars
<1>2. requests' = Append(requests, [from |-> c, serial |-> serial'[c], cmd |-> calling[c]])
    BY DEF Send
<1>3. \A k \in DOMAIN requests' : requests'[k].cmd = calling[requests'[k].from]
    BY <1>2, Types DEF Smooth
<1> QED
    BY <1>1, <1>3 DEF Smooth

LEMMA TakeKeepsSmooth ==
    ASSUME Inv, Smooth, NEW w \in Worker, Take(w)
    PROVE  Smooth'
<1>1. /\ UNCHANGED <<up, clean, mounted, bound, calling, answers, at>>
      /\ job[w] = NoJob /\ requests # <<>> /\ requests' = Tail(requests)
    BY DEF Take, clientVars, history
<1>2. /\ requests \in Seq(Request) /\ job \in [Worker -> Job] /\ outcome \in [Worker -> Outcome]
      /\ 1 \in DOMAIN requests /\ Len(requests) \in Nat /\ DOMAIN requests = 1 .. Len(requests)
      /\ cmd \in [Worker -> Command \cup {NoCall}]
    BY <1>1, Types DEF Inv, Tasks
<1>3. Head(requests) = requests[1]
    BY <1>1, <1>2
<1>4. \A k \in DOMAIN requests' : k + 1 \in DOMAIN requests /\ requests'[k] = requests[k + 1]
    BY <1>1, <1>2
<1>5. job' = [job EXCEPT ![w] = [from |-> requests[1].from, serial |-> requests[1].serial]]
    BY <1>3 DEF Take
<1>6. \A v \in Worker \ {w} : UNCHANGED <<job[v], cmd[v], outcome[v]>>
    BY <1>2 DEF Take, Fs!Call, Fs!Refuse
<1>7. requests[1].cmd = calling[job'[w].from]
    BY <1>2, <1>5 DEF Smooth
<1>8. IF requests[1].cmd \in Garbled THEN cmd'[w] = NoCall /\ outcome'[w] = "Unparsed"
                                      ELSE cmd'[w] = requests[1].cmd
    BY <1>1, <1>2, <1>3 DEF Take, Inv, Tasks
<1>9. \A v \in Worker : job'[v] # NoJob =>
          \/ calling'[job'[v].from] \in Garbled /\ cmd'[v] = NoCall /\ outcome'[v] # "none"
          \/ calling'[job'[v].from] \notin Garbled /\ cmd'[v] = calling'[job'[v].from]
    BY <1>1, <1>6, <1>7, <1>8 DEF Smooth
<1> QED
    BY <1>1, <1>4, <1>9 DEF Smooth

LEMMA ExecuteKeepsSmooth ==
    ASSUME Inv, Smooth, NEW w \in Worker, Execute(w)
    PROVE  Smooth'
<1>1. UNCHANGED <<up, clean, mounted, bound, calling, answers, at, requests, job, cmd>>
    BY DEF Execute, clientVars, history, Fs!TakeEffect
<1>2. cmd[w] # NoCall /\ \A v \in Worker \ {w} : outcome'[v] = outcome[v]
    BY Types DEF Execute, Fs!TakeEffect, Fs!Idle, NoCall
<1> QED
    BY <1>1, <1>2 DEF Smooth

LEMMA AnswerKeepsSmooth ==
    ASSUME Inv, Smooth, NEW w \in Worker, Answer(w)
    PROVE  Smooth'
<1> DEFINE c == job[w].from
           new == [serial |-> job[w].serial, outcome |-> outcome[w]]
<1>1. /\ UNCHANGED <<up, clean, mounted, bound, calling, at, requests>> /\ outcome[w] # "none"
      /\ job' = [job EXCEPT ![w] = NoJob]
    BY DEF Answer, history, Fs!Answer
<1>2. \A v \in Worker \ {w} : UNCHANGED <<job[v], cmd[v], outcome[v]>>
    BY Types DEF Answer, Fs!Answer, Inv, Tasks
<1>3. job'[w] = NoJob
    BY <1>1, Types
<1>4. \A d \in Client : \A k \in DOMAIN answers'[d] : answers'[d][k].outcome # "none"
    <2>1. \/ answers' = answers
          \/ c \in Client /\ answers' = [answers EXCEPT ![c] = Append(@, new)]
        BY DEF Answer, AnsweredTo
    <2>2. \A d \in Client : answers'[d] = answers[d] \/ answers'[d] = Append(answers[d], new)
        BY <2>1, Types
    <2>3. new.outcome # "none"
        BY <1>1
    <2> HIDE DEF new
    <2>4. ASSUME NEW d \in Client, NEW k \in DOMAIN answers'[d]
          PROVE  \/ k \in DOMAIN answers[d] /\ answers'[d][k] = answers[d][k]
                 \/ answers'[d][k] = new
        <3>1. answers[d] \in Seq(AnswerType)
            BY Types
        <3>2. CASE answers'[d] = Append(answers[d], new)
            BY <2>4, <3>1, <3>2
        <3> QED
            BY <2>2, <2>4, <3>2
    <2> QED
        BY <2>3, <2>4 DEF Smooth
<1> QED
    BY <1>1, <1>2, <1>3, <1>4 DEF Smooth

LEMMA StepKeepsFaultless ==
    ASSUME Inv, Inv', Faultless, [Next]_vars
    PROVE  Faultless'
<1> SUFFICES ASSUME Undisturbed'
             PROVE  Smooth'
    BY DEF Faultless
<1>1. Smooth /\ SmoothStep
    BY NoFaultBefore, OnlySmoothSteps
<1>2. CASE UNCHANGED vars
    BY <1>1, <1>2 DEF Smooth, vars, clientVars, serverVars, fsVars, history
<1> QED
    BY <1>1, <1>2, ClientKeepsSmooth, SendKeepsSmooth, TakeKeepsSmooth, ExecuteKeepsSmooth,
        AnswerKeepsSmooth DEF SmoothStep

-----------------------------------------------------------------------------
\* The commands and outcomes that Local sees.
CmdOf(c) == IF Asking(c) THEN calling[c] ELSE NoCall

\* What a command does is the same for Local and for the server.
LEMMA SameEffects ==
    ASSUME NEW c
    PROVE  Fs!Errors(c) = Local!Errors(c) /\ Fs!Effect(c) = Local!Effect(c) /\ Fs!Refusals(c) = Local!Refusals(c)
<1>1. Fs!Refusals(c) = Local!Refusals(c)
    BY DEF Fs!Refusals, Local!Refusals
<1>2. Fs!Effect(c) = Local!Effect(c)
    BY Zenon DEF Fs!Effect, Local!Effect, Fs!Below, Local!Below, Fs!IsPrefix, Local!IsPrefix
<1>3. Fs!Errors(c) = Local!Errors(c)
    BY DEF Fs!Errors, Local!Errors, Fs!Below, Local!Below, Fs!IsPrefix, Local!IsPrefix,
        Fs!Exists, Local!Exists, Fs!IsDir, Local!IsDir, Fs!ParentPath, Local!ParentPath,
        Fs!CommonAncestor, Local!CommonAncestor, Fs!SharedLen, Local!SharedLen,
        Fs!IsStrictPrefix, Local!IsStrictPrefix
<1> QED
    BY <1>1, <1>2, <1>3

\* A step that Local does not see.
LEMMA LocalStutters ==
    ASSUME UNCHANGED tree, \A c \in Client : CmdOf(c)' = CmdOf(c) /\ OutcomeFor(c)' = OutcomeFor(c)
    PROVE  UNCHANGED Local!atomicVars
BY DEF Local!atomicVars, CmdOf

\* One that it sees of one client.
LEMMA LocalCalls ==
    ASSUME UNCHANGED tree, NEW c \in Client, CmdOf(c) = NoCall, CmdOf(c)' \in Command,
           \A d \in Client \ {c} : CmdOf(d)' = CmdOf(d),
           \A d \in Client : OutcomeFor(d)' = OutcomeFor(d)
    PROVE  Local!Call(c)
BY DEF Local!Call, Local!Idle, NoCall, CmdOf

LEMMA LocalAnswers ==
    ASSUME UNCHANGED tree, NEW c \in Client, CmdOf(c)' = NoCall, OutcomeFor(c) # "none", OutcomeFor(c)' = "none",
           \A d \in Client \ {c} : CmdOf(d)' = CmdOf(d) /\ OutcomeFor(d)' = OutcomeFor(d)
    PROVE  Local!Answer(c)
BY DEF Local!Answer, Local!Idle, NoCall, CmdOf

LEMMA LocalRefuses ==
    ASSUME UNCHANGED tree, NEW c \in Client, CmdOf(c) \in Command,
           OutcomeFor(c) = "none", OutcomeFor(c)' \in Fs!Refusals(CmdOf(c)),
           \A d \in Client : CmdOf(d)' = CmdOf(d),
           \A d \in Client \ {c} : OutcomeFor(d)' = OutcomeFor(d)
    PROVE  Local!Refuse(c)
<1> DEFINE command == CmdOf(c)
           Cmd == [d \in Client |-> CmdOf(d)]
           Out == [d \in Client |-> OutcomeFor(d)]
<1>1. Cmd' = [Cmd EXCEPT ![c] = command]
    OBVIOUS
<1>2. Out' = [Out EXCEPT ![c] = OutcomeFor(c)']
    OBVIOUS
<1>3. OutcomeFor(c)' \in Local!Refusals(command)
    BY SameEffects
<1>4. Cmd[c] = command /\ Out[c] = "none"
    OBVIOUS
<1> QED
    BY <1>1, <1>2, <1>3, <1>4 DEF Local!Refuse, CmdOf

LEMMA LocalTakesEffect ==
    ASSUME NEW c \in Client, CmdOf(c) \in Command, OutcomeFor(c) = "none",
           IF Fs!Errors(CmdOf(c)) = {}
           THEN tree' = Fs!Effect(CmdOf(c)) /\ OutcomeFor(c)' = "success"
           ELSE OutcomeFor(c)' \in Fs!Errors(CmdOf(c)) /\ UNCHANGED tree,
           \A d \in Client : CmdOf(d)' = CmdOf(d),
           \A d \in Client \ {c} : OutcomeFor(d)' = OutcomeFor(d)
    PROVE  Local!TakeEffect(c)
<1> DEFINE command == CmdOf(c)
           Cmd == [d \in Client |-> CmdOf(d)]
           Out == [d \in Client |-> OutcomeFor(d)]
<1>1. Cmd' = Cmd
    OBVIOUS
<1>2. Out' = [Out EXCEPT ![c] = OutcomeFor(c)']
    OBVIOUS
<1>3. Cmd[c] = command /\ Out[c] = "none" /\ command # Local!Idle
    BY RemoteAssumption DEF Local!Idle
<1>4. IF Local!Errors(command) = {}
      THEN tree' = Local!Effect(command) /\ OutcomeFor(c)' = "success"
      ELSE OutcomeFor(c)' \in Local!Errors(command) /\ UNCHANGED tree
    BY SameEffects
<1> QED
    BY <1>1, <1>2, <1>3, <1>4 DEF Local!TakeEffect, CmdOf

\* Of a client whom a step does not concern Local sees nothing new.
LEMMA Unseen ==
    ASSUME NEW d \in Client,
           UNCHANGED <<at[d], calling[d], answers[d]>>, JobsOf(d)' = JobsOf(d),
           \A w \in JobsOf(d) : outcome'[w] = outcome[w]
    PROVE  CmdOf(d)' = CmdOf(d) /\ OutcomeFor(d)' = OutcomeFor(d)
<1>1. Asking(d)' <=> Asking(d)
    BY DEF Asking
<1>2. JobsOf(d) # {} => (CHOOSE w \in JobsOf(d) : TRUE) \in JobsOf(d)
    OBVIOUS
<1>3. CmdOf(d)' = CmdOf(d)
    BY <1>1 DEF CmdOf
<1>4. OutcomeFor(d)' = OutcomeFor(d)
    BY <1>1, <1>2 DEF OutcomeFor
<1> QED
    BY <1>3, <1>4

\* What it sees of one with a single job.
LEMMA OneJob ==
    ASSUME NEW c \in Client, NEW w \in Worker, Asking(c)
    PROVE  JobsOf(c) = {w} => OutcomeFor(c) = outcome[w]
BY DEF OutcomeFor

LEMMA ReadyStepStutters ==
    ASSUME Inv, Smooth, NEW c \in Client,
           Mount(c) \/ Unmount(c) \/ CreateRefused(c) \/ Call(c) \/ SendFails(c)
    PROVE  UNCHANGED Local!atomicVars
<1> USE DEF serverVars, fsVars, history
<1>1. UNCHANGED <<job, outcome, tree>> /\ at[c] # "recv" /\ at'[c] # "recv"
    BY Types DEF Mount, Unmount, CreateRefused, Call, SendFails, Return
<1>2. \A d \in Client \ {c} : UNCHANGED <<at[d], calling[d], answers[d]>>
    BY Types DEF Mount, Unmount, CreateRefused, Call, SendFails, Return, Inv, TypeOK
<1>3. CmdOf(c)' = CmdOf(c) /\ OutcomeFor(c)' = OutcomeFor(c)
    BY <1>1 DEF CmdOf, OutcomeFor, Asking
<1>4. \A d \in Client \ {c} : CmdOf(d)' = CmdOf(d) /\ OutcomeFor(d)' = OutcomeFor(d)
    <2>1. \A d \in Client : JobsOf(d)' = JobsOf(d)
        BY <1>1 DEF JobsOf
    <2> QED
        BY <1>1, <1>2, <2>1, Unseen
<1> QED
    BY <1>1, <1>3, <1>4, LocalStutters

LEMMA SendCalls ==
    ASSUME Inv, Smooth, NEW c \in Client, Send(c)
    PROVE  Local!Call(c) \/ UNCHANGED Local!atomicVars
<1>1. /\ UNCHANGED <<job, outcome, tree, calling, answers>> /\ at[c] # "recv" /\ at'[c] = "recv"
      /\ calling[c] \in Command /\ \A d \in Client \ {c} : at'[d] = at[d]
    BY Types DEF Send, fsVars, Inv, Begun
<1>2. JobsOf(c)' = {} /\ answers'[c] = <<>>
    <2>1. JobsOf(c) = {} /\ AnswersOf(c) = {}
        BY <1>1, ReadyHasNothing
    <2>2. answers[c] \in Seq(AnswerType) /\ DOMAIN answers[c] = {}
        BY <2>1, Types DEF AnswersOf
    <2>3. answers[c] = <<>>
        BY <2>2, NothingThere
    <2> QED
        BY <1>1, <2>1, <2>3 DEF JobsOf
<1>3. CmdOf(c) = NoCall /\ OutcomeFor(c) = "none" /\ OutcomeFor(c)' = "none"
    BY <1>1, <1>2 DEF CmdOf, OutcomeFor, Asking
<1>4. \A d \in Client \ {c} : CmdOf(d)' = CmdOf(d) /\ OutcomeFor(d)' = OutcomeFor(d)
    <2>1. \A d \in Client : JobsOf(d)' = JobsOf(d)
        BY <1>1 DEF JobsOf
    <2> QED
        BY <1>1, <2>1, Unseen
<1>5. CASE calling[c] \in Garbled
    <2>1. CmdOf(c)' = NoCall
        BY <1>1, <1>5 DEF CmdOf, Asking
    <2> QED
        BY <1>1, <1>3, <1>4, <2>1, LocalStutters
<1>6. CASE calling[c] \notin Garbled
    <2>1. CmdOf(c)' \in Command
        BY <1>1, <1>6 DEF CmdOf, Asking
    <2> QED
        BY <1>1, <1>3, <1>4, <2>1, LocalCalls
<1> QED
    BY <1>5, <1>6

LEMMA ReceiveAnswers ==
    ASSUME Inv, Smooth, NEW c \in Client, Receive(c)
    PROVE  Local!Answer(c) \/ UNCHANGED Local!atomicVars
<1>1. UNCHANGED <<job, outcome, tree>> /\ at[c] = "recv" /\ answers[c] # <<>>
    BY DEF Receive, serverVars, fsVars
<1>2. at'[c] = "ready" /\ \A d \in Client \ {c} : UNCHANGED <<at[d], calling[d], answers[d]>>
    BY Types DEF Receive, Return, Inv, TypeOK
<1>3. JobsOf(c) = {} /\ Head(answers[c]).outcome # "none"
    <2>1. answers[c] \in Seq(AnswerType) /\ AnswersOf(c) = 1 .. Len(answers[c]) /\ Len(answers[c]) \in Nat
        BY Types
    <2>2. 1 \in AnswersOf(c) /\ Head(answers[c]) = answers[c][1]
        BY <1>1, <2>1
    <2>3. Own(c) /\ clean[c]
        BY OwnSaysAnswersOwn DEF Inv, Smooth
    <2>4. JobsOf(c) = {}
        BY <2>2, <2>3 DEF Own, Single
    <2> QED
        BY <2>2, <2>4 DEF Smooth, AnswersOf
<1>4. CmdOf(c)' = NoCall /\ OutcomeFor(c)' = "none"
    BY <1>2 DEF CmdOf, OutcomeFor, Asking
<1>5. \A d \in Client \ {c} : CmdOf(d)' = CmdOf(d) /\ OutcomeFor(d)' = OutcomeFor(d)
    <2>1. \A d \in Client : JobsOf(d)' = JobsOf(d)
        BY <1>1 DEF JobsOf
    <2> QED
        BY <1>1, <1>2, <2>1, Unseen
<1>6. CASE Asking(c)
    <2>1. OutcomeFor(c) # "none"
        BY <1>1, <1>3, <1>6 DEF OutcomeFor
    <2> QED
        BY <1>1, <1>4, <1>5, <2>1, LocalAnswers
<1>7. CASE ~Asking(c)
    <2>1. CmdOf(c) = NoCall /\ OutcomeFor(c) = "none"
        BY <1>7 DEF CmdOf, OutcomeFor
    <2> QED
        BY <1>1, <1>4, <1>5, <2>1, LocalStutters
<1> QED
    BY <1>6, <1>7

LEMMA TakeRefusesOrStutters ==
    ASSUME Inv, Smooth, NEW w \in Worker, Take(w)
    PROVE  (\E c \in Client : Local!Refuse(c)) \/ UNCHANGED Local!atomicVars
<1>1. UNCHANGED <<tree, calling, at, answers>> /\ job[w] = NoJob /\ requests # <<>>
    BY DEF Take, clientVars, Fs!Call, Fs!Refuse
<1>2. /\ requests \in Seq(Request) /\ job \in [Worker -> Job] /\ outcome \in [Worker -> Outcome]
      /\ cmd \in [Worker -> Command \cup {NoCall}] /\ 1 \in DOMAIN requests
      /\ Len(requests) \in Nat /\ DOMAIN requests = 1 .. Len(requests)
    BY <1>1, Types DEF Inv, Tasks
<1>3. requests[1] \in Request /\ Head(requests) = requests[1]
    BY <1>1, <1>2
<1>4. PICK c \in Client : requests[1].from = c
    BY <1>3 DEF Request
<1>5. 1 \in RequestsOf(c)
    BY <1>2, <1>4 DEF RequestsOf
<1>6. at[c] = "recv" /\ JobsOf(c) = {} /\ AnswersOf(c) = {}
    <2>1. Own(c) /\ clean[c]
        BY OwnSaysAnswersOwn DEF Inv, Smooth
    <2> QED
        BY <1>5, <2>1 DEF Own, Single
<1>7. answers[c] = <<>>
    BY <1>4, <1>6, Types, NothingThere DEF AnswersOf
<1>8. job' = [job EXCEPT ![w] = [from |-> c, serial |-> requests[1].serial]]
    BY <1>3, <1>4 DEF Take
<1>9. \A v \in Worker \ {w} : job'[v] = job[v] /\ outcome'[v] = outcome[v]
    BY <1>2, <1>8 DEF Take, Fs!Call, Fs!Refuse
<1>10. job'[w].from = c /\ job'[w] # NoJob
    BY <1>2, <1>4, <1>8, RemoteAssumption DEF NoJob
<1>11. JobsOf(c)' = {w}
    BY <1>6, <1>9, <1>10 DEF JobsOf
<1>12. \A d \in Client : CmdOf(d)' = CmdOf(d)
    BY <1>1 DEF CmdOf, Asking
<1>13. \A d \in Client \ {c} : OutcomeFor(d)' = OutcomeFor(d)
    <2>1. \A d \in Client \ {c} : JobsOf(d)' = JobsOf(d) /\ w \notin JobsOf(d)
        BY <1>1, <1>9, <1>10, RemoteAssumption DEF JobsOf, NoJob
    <2>2. \A d \in Client \ {c} : \A v \in JobsOf(d) : outcome'[v] = outcome[v]
        BY <1>9, <2>1 DEF JobsOf
    <2> QED
        BY <1>1, <2>1, <2>2, Unseen
<1>14. calling[c] = requests[1].cmd /\ calling[c] \in Command
    BY <1>2, <1>3, <1>4 DEF Smooth, Request
<1>15. CASE calling[c] \in Garbled
    <2>1. OutcomeFor(c)' = OutcomeFor(c)
        BY <1>1, <1>15 DEF OutcomeFor, Asking
    <2> QED
        BY <1>1, <1>12, <1>13, <2>1, LocalStutters
<1>16. CASE calling[c] \notin Garbled
    <2>1. Asking(c) /\ CmdOf(c) = calling[c] /\ OutcomeFor(c) = "none"
        BY <1>6, <1>7, <1>16 DEF Asking, CmdOf, OutcomeFor
    <2>2. Asking(c)'
        BY <1>1, <2>1 DEF Asking
    <2>3. OutcomeFor(c)' = outcome'[w]
        BY <1>11, <2>2 DEF OutcomeFor
    <2>4. outcome[w] = "none"
        BY <1>1 DEF Inv, Tasks
    <2>5. CASE Fs!Call(w)
        <3>1. OutcomeFor(c)' = OutcomeFor(c)
            BY <2>1, <2>3, <2>4, <2>5 DEF Fs!Call
        <3> QED
            BY <1>1, <1>12, <1>13, <3>1, LocalStutters
    <2>6. CASE Fs!Refuse(w) /\ cmd'[w] = requests[1].cmd
        <3>1. PICK command \in Command :
                 /\ cmd' = [cmd EXCEPT ![w] = command]
                 /\ \E e \in Fs!Refusals(command) : outcome' = [outcome EXCEPT ![w] = e]
            BY <2>6 DEF Fs!Refuse
        <3>2. command = calling[c]
            BY <1>2, <1>14, <2>6, <3>1
        <3>3. outcome'[w] \in Fs!Refusals(calling[c])
            BY <1>2, <3>1, <3>2
        <3> QED
            BY <1>1, <1>4, <1>12, <1>13, <1>14, <2>1, <2>3, <3>3, LocalRefuses
    <2>7. Fs!Call(w) \/ (Fs!Refuse(w) /\ cmd'[w] = requests[1].cmd)
        BY <1>3, <1>14, <1>16 DEF Take
    <2> QED
        BY <2>5, <2>6, <2>7
<1> QED
    BY <1>15, <1>16

LEMMA ExecuteTakesEffect ==
    ASSUME Inv, Smooth, NEW w \in Worker, Execute(w)
    PROVE  \E c \in Client : Local!TakeEffect(c)
<1>1. UNCHANGED <<job, calling, at, answers, cmd>> /\ cmd[w] # NoCall /\ outcome[w] = "none"
    BY DEF Execute, clientVars, Fs!TakeEffect, Fs!Idle, NoCall
<1>2. job[w] # NoJob /\ job[w] \in Job /\ cmd[w] \in Command
    BY <1>1, Types DEF Inv, Tasks
<1>3. PICK c \in Client : job[w].from = c
    BY <1>2 DEF Job
<1>4. calling[c] \notin Garbled /\ cmd[w] = calling[c]
    BY <1>1, <1>2, <1>3 DEF Smooth
<1>5. w \in JobsOf(c)
    BY <1>3 DEF JobsOf
<1>6. at[c] = "recv" /\ JobsOf(c) = {w}
    <2>1. Own(c) /\ clean[c]
        BY <1>4, OwnSaysAnswersOwn DEF Inv, Smooth
    <2> QED
        BY <1>5, <2>1 DEF Own, Single
<1>7. \A v \in Worker \ {w} : outcome'[v] = outcome[v]
    BY Types DEF Execute, Fs!TakeEffect
<1>8. \A d \in Client : CmdOf(d)' = CmdOf(d) /\ JobsOf(d)' = JobsOf(d)
    BY <1>1 DEF CmdOf, Asking, JobsOf
<1>9. \A d \in Client \ {c} : OutcomeFor(d)' = OutcomeFor(d)
    <2>1. \A d \in Client \ {c} : \A v \in JobsOf(d) : outcome'[v] = outcome[v]
        BY <1>7, <1>3 DEF JobsOf
    <2> QED
        BY <1>1, <1>8, <2>1, Unseen
<1>10. Asking(c) /\ CmdOf(c) = cmd[w] /\ OutcomeFor(c) = "none"
    BY <1>1, <1>4, <1>6 DEF Asking, CmdOf, OutcomeFor
<1>11. OutcomeFor(c)' = outcome'[w]
    <2>1. Asking(c)' /\ JobsOf(c)' = {w}
        BY <1>1, <1>4, <1>6, <1>8, <1>10 DEF Asking
    <2> QED
        BY <2>1 DEF OutcomeFor
<1>12. IF Fs!Errors(cmd[w]) = {}
       THEN tree' = Fs!Effect(cmd[w]) /\ outcome'[w] = "success"
       ELSE outcome'[w] \in Fs!Errors(cmd[w]) /\ UNCHANGED tree
    BY Types DEF Execute, Fs!TakeEffect
<1> QED
    BY <1>2, <1>4, <1>8, <1>9, <1>10, <1>11, <1>12, LocalTakesEffect

LEMMA AnswerStutters ==
    ASSUME Inv, Smooth, NEW w \in Worker, Answer(w)
    PROVE  UNCHANGED Local!atomicVars
<1> DEFINE new == [serial |-> job[w].serial, outcome |-> outcome[w]]
<1>1. UNCHANGED <<tree, calling, at, bound>> /\ outcome[w] # "none" /\ job' = [job EXCEPT ![w] = NoJob]
    BY DEF Answer, Fs!Answer
<1>2. job[w] # NoJob /\ job \in [Worker -> Job]
    BY <1>1, Types DEF Inv, Tasks
<1>3. PICK c \in Client : job[w].from = c
    BY <1>2 DEF Job
<1>4. w \in JobsOf(c)
    BY <1>3 DEF JobsOf
<1>5. at[c] = "recv" /\ JobsOf(c) = {w} /\ AnswersOf(c) = {}
    <2>1. Own(c) /\ clean[c]
        BY <1>4, OwnSaysAnswersOwn DEF Inv, Smooth
    <2> QED
        BY <1>4, <2>1 DEF Own, Single
<1>6. bound[c]
    BY <1>4, <1>5 DEF Smooth
<1>7. answers[c] = <<>>
    BY <1>4, <1>5, Types, NothingThere DEF AnswersOf
<1>8. answers' = [answers EXCEPT ![c] = Append(@, new)]
    BY <1>3, <1>6 DEF Answer, AnsweredTo
<1>9. Head(answers'[c]) = new /\ answers'[c] # <<>> /\ \A d \in Client \ {c} : answers'[d] = answers[d]
    BY <1>4, <1>7, <1>8, Types
<1>10. \A v \in Worker \ {w} : job'[v] = job[v] /\ outcome'[v] = outcome[v]
    BY <1>1, <1>2, Types DEF Answer, Fs!Answer
<1>11. \A d \in Client : JobsOf(d)' = JobsOf(d) \ {w}
    BY <1>1, <1>2, <1>10, RemoteAssumption DEF JobsOf, NoJob
<1>12. \A d \in Client : CmdOf(d)' = CmdOf(d)
    BY <1>1 DEF CmdOf, Asking
<1>13. \A d \in Client \ {c} : OutcomeFor(d)' = OutcomeFor(d)
    <2>1. \A d \in Client \ {c} : JobsOf(d)' = JobsOf(d) /\ w \notin JobsOf(d)
        BY <1>11, <1>3 DEF JobsOf
    <2>2. \A d \in Client \ {c} : \A v \in JobsOf(d) : outcome'[v] = outcome[v]
        BY <1>10, <2>1 DEF JobsOf
    <2> QED
        BY <1>1, <1>9, <2>1, <2>2, Unseen
<1>14. OutcomeFor(c)' = OutcomeFor(c)
    <2>1. JobsOf(c)' = {} /\ new.outcome = outcome[w]
        BY <1>4, <1>5, <1>11
    <2> HIDE DEF new
    <2>2. Asking(c)' <=> Asking(c)
        BY <1>1 DEF Asking
    <2> QED
        BY <1>5, <1>9, <2>1, <2>2 DEF OutcomeFor
<1> QED
    BY <1>1, <1>12, <1>13, <1>14, LocalStutters

-----------------------------------------------------------------------------
\* Faultless is what the refinement needs beside Inv.
THEOREM FaultlessHolds == Spec => []Faultless
<1>1. Init => Faultless
    BY DEF Init, ClientInit, ServerInit, Faultless, Smooth, Undisturbed
<1>2. Inv /\ Inv' /\ Faultless /\ [Next]_vars => Faultless'
    BY StepKeepsFaultless
<1> QED
    BY Invariance, <1>1, <1>2, PTL DEF Spec

\* Until something goes wrong, clients see a local file system.
THEOREM SeenAsLocal == Spec => AsIfLocal
<1>1. Init => Local!AtomicInit
    BY DEF Init, ClientInit, ServerInit, Fs!AtomicInit, Local!AtomicInit, Local!Idle, NoCall, Asking, OutcomeFor
<1>2. Inv /\ Faultless /\ [Next]_vars =>
         [Undisturbed' => Local!AtomicNext \/ UNCHANGED Local!atomicVars]_vars
    <2> SUFFICES ASSUME Inv, Faultless, [Next]_vars, Undisturbed'
                 PROVE  Local!AtomicNext \/ UNCHANGED Local!atomicVars
        OBVIOUS
    <2>1. Smooth /\ SmoothStep
        BY NoFaultBefore, OnlySmoothSteps
    <2>2. CASE UNCHANGED vars
        <3>1. \A c \in Client : CmdOf(c)' = CmdOf(c) /\ OutcomeFor(c)' = OutcomeFor(c)
            BY <2>2 DEF vars, clientVars, serverVars, fsVars, CmdOf, Asking, OutcomeFor, JobsOf
        <3> QED
            BY <2>2, <3>1, LocalStutters DEF vars, serverVars, fsVars
    <2> QED
        BY <2>1, <2>2, ReadyStepStutters, SendCalls, ReceiveAnswers, TakeRefusesOrStutters,
            ExecuteTakesEffect, AnswerStutters DEF SmoothStep, Local!AtomicNext
<1> QED
    BY Invariance, FaultlessHolds, <1>1, <1>2, PTL DEF Spec, AsIfLocal
=============================================================================
