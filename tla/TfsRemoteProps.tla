---------------------------- MODULE TfsRemoteProps ----------------------------
(***************************************************************************)
(* What clients of TfsRemote may rely on, and what they may not.           *)
(***************************************************************************)
EXTENDS TfsRemote

\* What a worker may answer: AtomicFs, and commands that cannot be parsed.
Outcome ==
    {"none", "success", "Unparsed", "Create", "InexistentParentDir", "ParentNotDir",
     "ParentsNotDir", "AddEntry", "NameNotFound", "RemoveNonEmptyDir",
     "InexistentCommonAncestor", "CommonAncestorNotDir", "InexistentOriginParentDir",
     "InexistentDestinationParentDir", "OriginParentNotDir", "DestinationParentNotDir",
     "OriginNotFound", "RenameEntry", "OriginDestinationParent", "DestinationOriginParent"}

\* Every variable has its type, and no socket holds more than it can.
TypeOK ==
    /\ mounted \in [Client -> BOOLEAN]
    /\ initialized \in [Client -> BOOLEAN]
    /\ bound \in [Client -> BOOLEAN]
    /\ at \in [Client -> {"ready", "send", "recv"}]
    /\ calling \in [Client -> Command \cup {NoCall}]
    /\ returned \in [Client -> -1 .. 2]
    /\ answers \in [Client -> Seq([serial : Nat \ {0}, outcome : Outcome])]
    /\ \A c \in Client : Len(answers[c]) <= QueueSize
    /\ up \in BOOLEAN
    /\ requests \in Seq(Request) /\ Len(requests) <= QueueSize
    /\ job \in [Worker -> Job]
    /\ outcome \in [Worker -> Outcome]
    /\ stranded \subseteq Worker
    /\ serial \in [Client -> Nat]
    /\ clean \in [Client -> BOOLEAN]
    /\ faults \in 0 .. MaxFaults

-----------------------------------------------------------------------------
\* Where the calls of a client are on their way: in the server's socket, with
\* a worker, in the client's own socket.
RequestsOf(c) == {k \in DOMAIN requests : requests[k].from = c}
JobsOf(c) == {w \in Worker : job[w].from = c}
AnswersOf(c) == DOMAIN answers[c]

\* The serial numbers found there.
Underway(c) ==
    {requests[k].serial : k \in RequestsOf(c)} \cup {job[w].serial : w \in JobsOf(c)}
        \cup {answers[c][k].serial : k \in AnswersOf(c)}

\* At most one thing is underway.
Single(c) ==
    /\ \A j, k \in RequestsOf(c) : j = k
    /\ \A v, w \in JobsOf(c) : v = w
    /\ \A j, k \in AnswersOf(c) : j = k
    /\ RequestsOf(c) # {} => JobsOf(c) = {} /\ AnswersOf(c) = {}
    /\ JobsOf(c) # {} => AnswersOf(c) = {}

\* A client that has waited for each of its answers has at most one call
\* underway, the one it is waiting for now: although nothing in a datagram
\* says so, the answer it gets is the answer to what it asked, however many
\* clients and workers there are.  (client-api.c:120: "Receive the response
\* from the server".)
AnswersOwn ==
    \A c \in Client : clean[c] =>
        /\ Single(c)
        /\ Underway(c) \subseteq (IF at[c] = "recv" THEN {serial[c]} ELSE {})

\* What AnswersOwn says, of every client: what a call returns is about the
\* command it sent.  (client-api.h:119: "@return `0` on success".)
ReturnsOwn ==
    \A c \in Client : at[c] = "recv" /\ answers[c] # <<>> => Head(answers[c]).serial = serial[c]

\* A command takes effect while the call that sent it waits for it: after the
\* call began and before it returned, unless it gave up.
EffectWithinCall ==
    [][\A w \in Worker : outcome[w] = "none" /\ outcome'[w] # "none" /\ job'[w] # NoJob =>
          LET c == job'[w].from IN
          clean[c] => at[c] = "recv" /\ serial[c] = job'[w].serial]_vars

\* A call that waits for its answer loses it only when the server ends, or
\* when a tfsMount that failed has taken away the address of the client: no
\* answer is misdelivered or dropped otherwise.
AnswerKept ==
    [][\A c \in Client :
          /\ at[c] = "recv" /\ at'[c] = "recv"
          /\ serial[c] \in Underway(c) /\ serial[c] \notin Underway(c)'
          => ~up' \/ ~bound[c]]_vars

\* The worker waits for room in a socket of a client.
Stuck(w) == w \in stranded \/ Waiting(w)

\* No call waits for ever for its answer, as long as the server runs, no
\* client has lost its address and not every worker is stuck for good; and none
\* waits for ever to be sent, if in the end no more are made.  (Nothing but
\* the server ends these waits: sendto and recv in client-api.c:105 and 123
\* have no timeout.)  Clients that give up and then do not read can make all
\* workers stuck, in the sendto of tecnicofs.c:286; other clients cannot.
Served == up /\ \A c \in Client : mounted[c] => bound[c]
NoNewCalls == <>[][\A c \in Client : at[c] # "send" => at'[c] # "send"]_at
EveryCallReturns ==
    []Served /\ []<>(\E w \in Worker : ~Stuck(w)) =>
        \A c \in Client :
            /\ []<>(at[c] # "recv")
            /\ NoNewCalls => []<>(at[c] # "send")

\* Seen from the clients, and until something goes wrong or a call is given
\* up, the server is the file system itself: each command takes effect at one
\* instant between its sending and the return of its call, and the call
\* reports what happened then.  A command that cannot be parsed is no call.
\* (client-api.h:116: "Sends a create command to the tfs server on the global
\* client connection".)
Asking(c) == at[c] = "recv" /\ calling[c] \notin Garbled
OutcomeFor(c) ==
    IF ~Asking(c) THEN "none"
    ELSE IF JobsOf(c) # {} THEN outcome[CHOOSE w \in JobsOf(c) : TRUE]
    ELSE IF answers[c] # <<>> THEN Head(answers[c]).outcome
    ELSE "none"
Local ==
    INSTANCE AtomicFs WITH
        Thread <- Client,
        cmd <- [c \in Client |-> IF Asking(c) THEN calling[c] ELSE NoCall],
        outcome <- [c \in Client |-> OutcomeFor(c)]
Undisturbed == faults = 0 /\ \A c \in Client : clean[c]
AsIfLocal ==
    /\ Local!AtomicInit
    /\ [][Undisturbed' => Local!AtomicNext \/ UNCHANGED Local!atomicVars]_vars
=============================================================================
