------------------------------- MODULE TfsRemote -------------------------------
(***************************************************************************)
(* Clients and server over datagram sockets: tfs/client-api.c on one side, *)
(* the loop of worker_thread_fn in bin/tecnicofs.c on the other, and the   *)
(* kernel's two queues in between.  What the server does with a command is *)
(* AtomicFs, which TfsFs implements: here its threads are the workers.     *)
(*                                                                         *)
(* Nothing in a datagram says which call it belongs to.  The serial number *)
(* of a request and of its answer is a history variable: no guard reads it *)
(* but the bound on calls.                                                 *)
(***************************************************************************)
EXTENDS TfsPath

CONSTANTS
    Client,       \* client processes; each has its own socket address
    Worker,       \* worker threads of the server
    Command,      \* what clients may call
    Garbled,      \* the commands among them whose text tfs_command_parse rejects
    QueueSize,    \* datagrams a socket holds (net.unix.max_dgram_qlen)
    MaxCalls,     \* bound: MaxCalls[c] calls of c reach the send
    MaxFaults     \* bound: failed binds, ends of a client, ends of the server

ASSUME RemoteAssumption ==
    /\ "nobody" \notin Client
    /\ Garbled \subseteq Command
    /\ \A c \in Command : c.op \in {"create", "remove", "search", "move", "print"}
    /\ QueueSize \in Nat \ {0} /\ MaxCalls \in [Client -> Nat] /\ MaxFaults \in Nat

VARIABLES
    mounted,      \* mounted[c]: global_client_connection has an open socket
    initialized,  \* initialized[c]: global_client_connection_initialized
    bound,        \* bound[c]: c's address leads to that socket
    at,           \* at[c]: where the process is: "ready", "send" or "recv"
    calling,      \* calling[c]: the command of the call in progress
    returned,     \* returned[c]: what the last call returned, -1 before the first and during one
    answers,      \* answers[c]: the datagrams in c's socket
    up,           \* the server runs
    requests,     \* the datagrams in the server's socket
    job,          \* job[w]: the request whose sender w has to answer
    tree, cmd, outcome,    \* AtomicFs, with the workers for threads
    stranded,     \* the workers in a sendto to a socket that nothing reads any more
    serial,       \* history: serial[c] counts the requests c has sent
    clean,        \* history: clean[c] unless c gave up waiting for an answer
    faults        \* history: faults so far

clientVars == <<mounted, initialized, bound, at, calling, returned, answers>>
fsVars == <<tree, cmd, outcome>>
serverVars == <<up, requests, job, fsVars>>
history == <<serial, clean, faults>>
vars == <<clientVars, serverVars, stranded, history>>

Fs == INSTANCE AtomicFs WITH Thread <- Worker

NoCall == [op |-> "none"]
NoJob == [from |-> "nobody", serial |-> 0]
Request == [from : Client, serial : Nat \ {0}, cmd : Command]
Job == [from : Client, serial : Nat \ {0}] \cup {NoJob}

ClientInit ==
    /\ mounted = [c \in Client |-> FALSE]
    /\ initialized = [c \in Client |-> FALSE]
    /\ bound = [c \in Client |-> FALSE]
    /\ at = [c \in Client |-> "ready"]
    /\ calling = [c \in Client |-> NoCall]
    /\ returned = [c \in Client |-> -1]
    /\ answers = [c \in Client |-> <<>>]

ServerInit ==
    /\ up = TRUE
    /\ requests = <<>>
    /\ job = [w \in Worker |-> NoJob]
    /\ stranded = {}
    /\ Fs!AtomicInit

Init ==
    /\ ClientInit /\ ServerInit
    /\ serial = [c \in Client |-> 0]
    /\ clean = [c \in Client |-> TRUE]
    /\ faults = 0

-----------------------------------------------------------------------------
Fault == faults < MaxFaults /\ faults' = faults + 1

\* A fault of Full, for the mutants of the runs: an off-by-one.
Full_OneMore(socket) == Len(socket) > QueueSize

\* A socket takes no more datagrams: who sends waits.
Full(socket) == Len(socket) >= QueueSize

Return(c, value) ==
    /\ returned' = [returned EXCEPT ![c] = value]
    /\ at' = [at EXCEPT ![c] = "ready"]
    /\ calling' = [calling EXCEPT ![c] = NoCall]

\* sendto in a worker waits for room in the socket of its client.
Waiting(w) == outcome[w] # "none" /\ bound[job[w].from] /\ Full(answers[job[w].from])

\* tfsMount: a connection that is initialized is destroyed first.  The new
\* socket takes the address of the process over from any other; it is empty.
\* The one it replaces stays open, and whoever is in a sendto to it stays
\* there.  (Its 0 is not kept in returned: nothing depends on it.)
Mount(c) ==
    /\ at[c] = "ready"
    /\ mounted' = [mounted EXCEPT ![c] = TRUE]
    /\ bound' = [bound EXCEPT ![c] = TRUE]
    /\ answers' = [answers EXCEPT ![c] = <<>>]
    /\ initialized' = [initialized EXCEPT ![c] = FALSE]
    /\ \E workers \in SUBSET {w \in Worker : job[w].from = c /\ Waiting(w) /\ ~initialized[c]} :
          stranded' = stranded \cup workers
    /\ UNCHANGED <<at, calling, returned, serverVars, history>>

\* socket() fails before, or bind() after, the address has been unlinked; the
\* connection there was stays, unless it was destroyed.
MountFails(c) ==
    /\ at[c] = "ready"
    /\ Fault
    /\ mounted' = [mounted EXCEPT ![c] = @ /\ ~initialized[c]]
    /\ \E unlinked \in BOOLEAN :
          bound' = [bound EXCEPT ![c] = @ /\ ~initialized[c] /\ ~unlinked]
    /\ initialized' = [initialized EXCEPT ![c] = FALSE]
    /\ Return(c, 1)
    /\ UNCHANGED <<answers, serverVars, stranded, serial, clean>>

\* tfsUnmount: without a connection that is initialized it only reports that.
Unmount(c) ==
    /\ at[c] = "ready"
    /\ mounted' = [mounted EXCEPT ![c] = @ /\ ~initialized[c]]
    /\ bound' = [bound EXCEPT ![c] = @ /\ ~initialized[c]]
    /\ answers' = [answers EXCEPT ![c] = IF initialized[c] THEN <<>> ELSE @]
    /\ initialized' = [initialized EXCEPT ![c] = FALSE]
    /\ Return(c, IF initialized[c] THEN 0 ELSE 1)
    /\ UNCHANGED <<serverVars, stranded, history>>

\* tfsCreate: a type that is neither 'f' nor 'd' is refused before anything
\* is sent.
CreateRefused(c) ==
    /\ at[c] = "ready"
    /\ Return(c, 1)
    /\ UNCHANGED <<mounted, initialized, bound, answers, serverVars, stranded, history>>

\* tfsCreate, tfsDelete, tfsLookup, tfsMove, tfsPrint: the command is built
\* and handed to tfs_client_server_connection_send_command.
Call(c) ==
    /\ at[c] = "ready" /\ serial[c] < MaxCalls[c]
    /\ \E command \in Command : calling' = [calling EXCEPT ![c] = command]
    /\ at' = [at EXCEPT ![c] = "send"]
    /\ returned' = [returned EXCEPT ![c] = -1]
    /\ UNCHANGED <<mounted, initialized, bound, answers, serverVars, stranded, history>>

\* sendto: it waits while the server's socket is full.
Send(c) ==
    /\ at[c] = "send" /\ mounted[c] /\ up /\ ~Full(requests)
    /\ serial' = [serial EXCEPT ![c] = @ + 1]
    /\ requests' = Append(requests, [from |-> c, serial |-> serial'[c], cmd |-> calling[c]])
    /\ at' = [at EXCEPT ![c] = "recv"]
    /\ UNCHANGED <<mounted, initialized, bound, calling, returned, answers,
                   up, job, fsVars, stranded, clean, faults>>

\* Nobody is at the server's address, or the connection was never made.
SendFails(c) ==
    /\ at[c] = "send" /\ ~(mounted[c] /\ up)
    /\ Return(c, 1)
    /\ UNCHANGED <<mounted, initialized, bound, answers, serverVars, stranded, history>>

\* recv: whatever datagram is first; it says if "the" command was successful.
Receive(c) ==
    /\ at[c] = "recv" /\ answers[c] # <<>>
    /\ answers' = [answers EXCEPT ![c] = Tail(@)]
    /\ Return(c, IF Head(answers[c]).outcome = "success" THEN 0 ELSE 2)
    /\ UNCHANGED <<mounted, initialized, bound, serverVars, stranded, history>>

\* recv is interrupted: the call gives up, its answer is still to come.  The
\* calls bound how often.
ReceiveFails(c) ==
    /\ at[c] = "recv"
    /\ Return(c, 1)
    /\ clean' = [clean EXCEPT ![c] = FALSE]
    /\ UNCHANGED <<mounted, initialized, bound, answers, serverVars, stranded, serial, faults>>

\* The process ends, wherever it is, and its sockets are closed; another one
\* gets its pid, and with it the address.
ClientEnds(c) ==
    /\ Fault
    /\ mounted' = [mounted EXCEPT ![c] = FALSE]
    /\ initialized' = [initialized EXCEPT ![c] = FALSE]
    /\ bound' = [bound EXCEPT ![c] = FALSE]
    /\ at' = [at EXCEPT ![c] = "ready"]
    /\ calling' = [calling EXCEPT ![c] = NoCall]
    /\ returned' = [returned EXCEPT ![c] = -1]
    /\ answers' = [answers EXCEPT ![c] = <<>>]
    /\ clean' = [clean EXCEPT ![c] = @ /\ at[c] # "recv"]
    /\ stranded' = {w \in stranded : job[w].from # c}
    /\ UNCHANGED <<serverVars, serial>>

-----------------------------------------------------------------------------
\* worker_thread_fn: recvfrom and tfs_command_parse.  A command that cannot
\* be parsed is refused at once.
Take(w) ==
    /\ up /\ job[w] = NoJob /\ requests # <<>>
    /\ LET request == Head(requests) IN
          /\ job' = [job EXCEPT ![w] = [from |-> request.from, serial |-> request.serial]]
          /\ IF request.cmd \in Garbled
             THEN outcome' = [outcome EXCEPT ![w] = "Unparsed"] /\ UNCHANGED <<tree, cmd>>
             ELSE (Fs!Call(w) \/ Fs!Refuse(w)) /\ cmd'[w] = request.cmd
    /\ requests' = Tail(requests)
    /\ UNCHANGED <<clientVars, up, stranded, history>>

\* The call of fs.c.
Execute(w) ==
    /\ up
    /\ Fs!TakeEffect(w)
    /\ UNCHANGED <<clientVars, up, requests, job, stranded, history>>

\* Faults of AnsweredTo, for the mutants of the runs: one address for all
\* workers; none at all.
AnsweredTo_Shared(w) == job[CHOOSE v \in Worker : job[v] # NoJob].from
AnsweredTo_Nobody(w) == "nobody"

\* client_address, which recvfrom has filled in.
AnsweredTo(w) == job[w].from

\* sendto: it waits while the client's socket is full; if there is none the
\* answer is lost, and nobody notices.
Answer(w) ==
    /\ up /\ w \notin stranded
    /\ Fs!Answer(w)
    /\ LET c == AnsweredTo(w) IN
          IF c \in Client /\ bound[c]
          THEN /\ ~Full(answers[c])
               /\ answers' = [answers EXCEPT ![c] =
                      Append(@, [serial |-> job[w].serial, outcome |-> outcome[w]])]
          ELSE UNCHANGED answers
    /\ job' = [job EXCEPT ![w] = NoJob]
    /\ UNCHANGED <<mounted, initialized, bound, at, calling, returned, up, requests, stranded, history>>

\* The server ends (an assertion, a failed recvfrom, a signal), and with it
\* its socket and the tree.
ServerEnds ==
    /\ up /\ Fault
    /\ up' = FALSE
    /\ requests' = <<>>
    /\ job' = [w \in Worker |-> NoJob]
    /\ tree' = [p \in {<<>>} |-> "dir"]
    /\ cmd' = [w \in Worker |-> NoCall]
    /\ outcome' = [w \in Worker |-> "none"]
    /\ stranded' = {}
    /\ UNCHANGED <<clientVars, serial, clean>>

\* main: the new server takes the address over.
ServerStarts ==
    /\ ~up
    /\ up' = TRUE
    /\ UNCHANGED <<clientVars, requests, job, fsVars, stranded, history>>

ClientWork(c) == Send(c) \/ SendFails(c) \/ Receive(c)
ServerWork(w) == Take(w) \/ Execute(w) \/ Answer(w)

Next ==
    \/ \E c \in Client :
          \/ Mount(c) \/ MountFails(c) \/ Unmount(c) \/ CreateRefused(c) \/ Call(c)
          \/ ClientWork(c) \/ ReceiveFails(c) \/ ClientEnds(c)
    \/ \E w \in Worker : ServerWork(w)
    \/ ServerEnds \/ ServerStarts

Spec == Init /\ [][Next]_vars

\* Threads that can run do.  Nothing is assumed of when clients call, of
\* faults, or of who restarts the server.
Fairness ==
    /\ \A c \in Client : WF_vars(ClientWork(c))
    /\ \A w \in Worker : WF_vars(ServerWork(w))
FairSpec == Spec /\ Fairness
=============================================================================
