----------------------------- MODULE HttpServer -----------------------------
(***************************************************************************)
(* http::HttpServer with its utils::ThreadPool: the main thread accepts    *)
(* connections and queues a task for each; a worker takes a task, receives *)
(* the request in whatever pieces it comes, has the router run the         *)
(* handler, sends the answer and closes the socket.                        *)
(*                                                                         *)
(* A request is what the framing looks at: where its head ends, the length *)
(* it announces, and how much of it the client sends.  Bytes are counted   *)
(* in units of which the constants are small multiples.  What a handler    *)
(* does is the subject of the other modules; here it is one step that ends *)
(* with an answer, since Router::dispatch turns any exception into one.    *)
(* Neither recv nor send has a time limit, so a client that does not send, *)
(* or does not read, holds a worker and a descriptor until it leaves.      *)
(***************************************************************************)
EXTENDS Integers, Sequences

CONSTANTS
    Workers,        \* the threads of the pool
    Descriptors,    \* what accept can give to a connection
    Clients,        \* each makes one connection
    NoClient,       \* whose descriptor is closed
    Requests,       \* the requests each client may make
    MaxBody,        \* maxBodyBytes_
    HeadRoom,       \* the 16384 bytes that handleClient has for a head
    Chunk           \* the size of its buffer, 4096 bytes

BadLength == -1     \* a Content-Length that is not a number

ASSUME HttpServerAssumption ==
    /\ Descriptors \subseteq Nat \ {0}
    /\ NoClient \notin Clients
    /\ MaxBody \in Nat /\ HeadRoom \in Nat /\ Chunk \in Nat \ {0}
    /\ Requests \in
          [Clients -> SUBSET [head : Nat \ {0},     \* it ends after the blank line
                              length : Nat \cup {BadLength},
                              total : Nat,          \* what the client sends
                              wellFormed : BOOLEAN,     \* the lines of the head
                              reads : BOOLEAN]]     \* the answer of the handler,
                                                    \* or it fits the buffers

VARIABLES
    main,       \* run(): before listen, in the accept loop, or left by an exception
    accepted,   \* the descriptor accept returned and enqueue has not taken; or 0
    sockets,    \* the client at the other end of each descriptor
    tasks,      \* tasks_, the descriptors their lambdas captured
    job,        \* what each worker is doing
    up,         \* is the process running?
    backlog,    \* connections nobody has accepted yet
    client,     \* each client's side of its connection
    request,    \* the request it makes
    answer      \* history variable: the answer sent to it

serverVars == <<main, accepted, sockets, tasks, job, up>>
clientVars == <<backlog, client, request>>
httpVars   == <<serverVars, clientVars, answer>>

Answers == {"400", "413", "handled"}

IdleJob == [pc |-> "idle", fd |-> 0, received |-> 0]

At(w, pc)    == up /\ job[w].pc = pc
Peer(w)      == sockets[job[w].fd]
Go(w, pc)    == job' = [job EXCEPT ![w].pc = pc]
Listening    == up /\ main = "accept"
Free         == {fd \in Descriptors : sockets[fd] = NoClient}

HttpInit ==
    /\ main = "socket" /\ accepted = 0
    /\ sockets = [fd \in Descriptors |-> NoClient]
    /\ tasks = <<>> /\ job = [w \in Workers |-> IdleJob]
    /\ up = TRUE
    /\ backlog = <<>> /\ client = [c \in Clients |-> "away"]
    /\ request \in [Clients -> UNION {Requests[c] : c \in Clients}]
    /\ \A c \in Clients : request[c] \in Requests[c]
    /\ answer = [c \in Clients |-> "none"]

----------------------------------------------------------------------------
(* The clients. *)

Connect(c) ==
    /\ Listening
    /\ client[c] = "away"
    /\ client' = [client EXCEPT ![c] = "connected"]
    /\ backlog' = Append(backlog, c)
    /\ UNCHANGED <<serverVars, request, answer>>

Leave(c) ==
    /\ client[c] = "connected"
    /\ client' = [client EXCEPT ![c] = "left"]
    /\ UNCHANGED <<serverVars, backlog, request, answer>>

----------------------------------------------------------------------------
(* run, on the main thread *)

Listen ==
    /\ up /\ main = "socket"
    /\ main' = "accept"
    /\ UNCHANGED <<accepted, sockets, tasks, job, up, clientVars, answer>>

(* The port is taken: run ends with an exception. *)
BindFails ==
    /\ up /\ main = "socket"
    /\ main' = "threw"
    /\ UNCHANGED <<accepted, sockets, tasks, job, up, clientVars, answer>>

(* accept gives the lowest descriptor.  When none is left it fails, and    *)
(* the loop tries again.  Who has left the backlog is still accepted.      *)
Accept ==
    /\ Listening /\ accepted = 0
    /\ backlog # <<>>
    /\ \E fd \in Free :
          /\ \A other \in Free : fd <= other
          /\ accepted' = fd
          /\ sockets' = [sockets EXCEPT ![fd] = Head(backlog)]
    /\ backlog' = Tail(backlog)
    /\ UNCHANGED <<main, tasks, job, up, client, request, answer>>

(* closeSocket: the client, if it is still there, sees the end. *)
Close(fd) ==
    /\ sockets' = [sockets EXCEPT ![fd] = NoClient]
    /\ client' = [client EXCEPT ![sockets[fd]] = IF @ = "left" THEN "left" ELSE "closed"]

Enqueue ==
    /\ up /\ accepted # 0
    /\ tasks' = Append(tasks, accepted)
    /\ accepted' = 0
    /\ UNCHANGED <<main, sockets, job, up, clientVars, answer>>

(* enqueue throws, for want of memory. *)
EnqueueFails ==
    /\ up /\ accepted # 0
    /\ Close(accepted)
    /\ accepted' = 0
    /\ UNCHANGED <<main, tasks, job, up, backlog, request, answer>>

----------------------------------------------------------------------------
(* workerLoop and handleClient *)

TakeTask(w) ==
    /\ At(w, "idle")
    /\ tasks # <<>>
    /\ job' = [job EXCEPT ![w] = [pc |-> "receive", fd |-> Head(tasks), received |-> 0]]
    /\ tasks' = Tail(tasks)
    /\ UNCHANGED <<main, accepted, sockets, up, clientVars, answer>>

(* The head is there, and announces a body that is refused at once. *)
Announced(r, received) == received >= r.head
Refused(r)             == r.length \notin 0 .. MaxBody
Refusal(r)             == IF r.length = BadLength THEN "400" ELSE "413"

(* parseRequest of a request that is whole *)
Parsed(r) == IF r.wellFormed THEN "dispatch" ELSE "400"

(* Mutant of AfterReceive: the loop forgets the room for the head. *)
AfterReceiveNarrow(r, received) ==
    IF Announced(r, received) /\ Refused(r) THEN Refusal(r)
    ELSE IF Announced(r, received) /\ received >= r.head + r.length THEN Parsed(r)
    ELSE IF received > MaxBody THEN "400" ELSE "receive"

(* Mutant of AfterReceive: the loop never gives up. *)
AfterReceiveForever(r, received) ==
    IF Announced(r, received) /\ Refused(r) THEN Refusal(r)
    ELSE IF Announced(r, received) /\ received >= r.head + r.length THEN Parsed(r)
    ELSE "receive"

(* What follows when so much of a request is there: the loop goes on as    *)
(* long as there is room for more; parseRequest refuses what is not whole. *)
AfterReceive(r, received) ==
    IF Announced(r, received) /\ Refused(r) THEN Refusal(r)
    ELSE IF Announced(r, received) /\ received >= r.head + r.length THEN Parsed(r)
    ELSE IF received > MaxBody + HeadRoom THEN "400" ELSE "receive"

(* recv returns as much as is there by then, at most a buffer. *)
Receive(w) ==
    /\ At(w, "receive")
    /\ \E size \in 1 .. Chunk :
          LET received == job[w].received + size
              r        == request[Peer(w)]
          IN /\ received <= r.total
             /\ job' = [job EXCEPT ![w].received = received,
                                   ![w].pc = AfterReceive(r, received)]
    /\ UNCHANGED <<main, accepted, sockets, tasks, up, clientVars, answer>>

(* Mutant of ReceiveEnds: the socket of a client that left is not closed.  *)
ReceiveEndsOpen(w) ==
    /\ At(w, "receive") /\ client[Peer(w)] = "left"
    /\ job' = [job EXCEPT ![w] = IdleJob]
    /\ UNCHANGED <<main, accepted, sockets, tasks, up, clientVars, answer>>

(* recv fails or finds the end: the client has left. *)
ReceiveEnds(w) ==
    /\ At(w, "receive") /\ client[Peer(w)] = "left"
    /\ Close(job[w].fd)
    /\ job' = [job EXCEPT ![w] = IdleJob]
    /\ UNCHANGED <<main, accepted, tasks, up, backlog, request, answer>>

Dispatch(w) ==
    /\ At(w, "dispatch")
    /\ Go(w, "handled")
    /\ UNCHANGED <<main, accepted, sockets, tasks, up, clientVars, answer>>

(* send waits for room in the buffers of the connection, as long as it     *)
(* takes; the short answers 400 and 413 of handleClient always have it.    *)
Sends(w) == job[w].pc = "handled" /\ ~request[Peer(w)].reads => client[Peer(w)] = "left"

(* Mutant of SendAnswer: the socket stays open after the answer. *)
SendAnswerOpen(w) ==
    /\ up /\ job[w].pc \in Answers
    /\ Sends(w)
    /\ answer' = [answer EXCEPT ![Peer(w)] = job[w].pc]
    /\ job' = [job EXCEPT ![w] = IdleJob]
    /\ UNCHANGED <<main, accepted, sockets, tasks, up, clientVars>>

(* sendAll, whose result nobody looks at, and closeSocket *)
SendAnswer(w) ==
    /\ up /\ job[w].pc \in Answers
    /\ Sends(w)
    /\ answer' = [answer EXCEPT ![Peer(w)] = job[w].pc]
    /\ Close(job[w].fd)
    /\ job' = [job EXCEPT ![w] = IdleJob]
    /\ UNCHANGED <<main, accepted, tasks, up, backlog, request>>

(* To send to a client that has left may raise SIGPIPE, which nothing      *)
(* handles (the flags of send are 0): on Linux it ends the process.        *)
KilledBySend(w) ==
    /\ up /\ job[w].pc \in Answers
    /\ client[Peer(w)] = "left"
    /\ up' = FALSE
    /\ UNCHANGED <<main, accepted, sockets, tasks, job, clientVars, answer>>

WorkerStep(w) ==
    TakeTask(w) \/ Receive(w) \/ ReceiveEnds(w) \/ Dispatch(w) \/ SendAnswer(w)

RunStep == Listen \/ BindFails \/ Accept \/ Enqueue \/ EnqueueFails

HttpNext ==
    \/ \E c \in Clients : Connect(c) \/ Leave(c)
    \/ RunStep
    \/ \E w \in Workers : WorkerStep(w) \/ KilledBySend(w)

HttpSpec == HttpInit /\ [][HttpNext]_httpVars

(* Who never sends the request whole, though there is room for it, or does *)
(* not read an answer that the buffers do not hold.                        *)
Stalls(r) == AfterReceive(r, r.total) = "receive" \/ ~r.reads

(* The threads run, what clients send arrives, and an answer that is read, *)
(* or is short, gets sent.  The code sets no limit to recv and send (lines *)
(* 229 and 347): that a client which holds one of them leaves some time is *)
(* an assumption about the clients; no other client needs to leave.        *)
HttpFairness ==
    /\ WF_httpVars(RunStep)
    /\ \A w \in Workers : WF_httpVars(WorkerStep(w))
    /\ WF_httpVars(\E c \in Clients : Stalls(request[c]) /\ Leave(c))

----------------------------------------------------------------------------
(* Properties. *)

Job == [pc : {"idle", "receive", "dispatch"} \cup Answers,
        fd : Descriptors \cup {0},
        received : 0 .. (MaxBody + HeadRoom + Chunk)]

(* With the bound of what a connection keeps in memory: the loop of        *)
(* handleClient (HttpServer.cpp:225) overshoots by less than a buffer.     *)
TypeOK ==
    /\ main \in {"socket", "accept", "threw"}
    /\ up \in BOOLEAN
    /\ accepted \in Descriptors \cup {0}
    /\ sockets \in [Descriptors -> Clients \cup {NoClient}]
    /\ tasks \in Seq(Descriptors)
    /\ job \in [Workers -> Job]
    /\ backlog \in Seq(Clients)
    /\ client \in [Clients -> {"away", "connected", "left", "closed"}]
    /\ \A c \in Clients : request[c] \in Requests[c]
    /\ answer \in [Clients -> Answers \cup {"none"}]

Queued(fd)      == \E i \in DOMAIN tasks : tasks[i] = fd
Serves(w, fd)   == job[w].pc # "idle" /\ job[w].fd = fd
Served(fd)      == \E w \in Workers : Serves(w, fd)

(* Every open descriptor is in the hands of exactly one: the main thread,  *)
(* one queued task or one worker; so none is lost, none is closed twice    *)
(* and no answer goes to a connection that has got the descriptor since    *)
(* (HttpServer.cpp:202-208 and every return of handleClient).              *)
DescriptorsOwned ==
    /\ \A fd \in Descriptors :
          /\ sockets[fd] # NoClient <=> accepted = fd \/ Queued(fd) \/ Served(fd)
          /\ accepted = fd => ~Queued(fd) /\ ~Served(fd)
          /\ Queued(fd) => ~Served(fd)
    /\ \A i, j \in DOMAIN tasks : tasks[i] = tasks[j] => i = j
    /\ \A v, w \in Workers : Serves(v, job[w].fd) /\ Serves(w, job[w].fd) => v = w

(* The answer of a request whose head has room, whatever its pieces. *)
Verdict(r) ==
    IF Refused(r) THEN Refusal(r) ELSE IF r.wellFormed THEN "handled" ELSE "400"

(* A handler runs for whole requests only.  If the head fits into the room *)
(* for it, the answer depends on the request and not on the pieces it came *)
(* in: neither where the head ends nor the limit of the loop (lines 225    *)
(* and 255) may cut a body off that parseContentLength let pass.           *)
Fits(r, a) ==
    /\ a = "handled" => r.wellFormed /\ r.length \in 0 .. MaxBody
                        /\ r.head + r.length <= r.total
    /\ r.head <= HeadRoom /\ r.head <= r.total => a = Verdict(r)

AnswerFitsRequest ==
    \A c \in Clients : answer[c] # "none" => Fits(request[c], answer[c])

(* Every connection ends, also of a client that waits as long as it takes: *)
(* neither clients that stall in recv or in send, and hold a worker until  *)
(* they leave, nor those that leave, and whose descriptors are few, keep   *)
(* the others from their answer (HttpServer.cpp:214-283, 341-355).  One    *)
(* that neither goes on nor leaves would, as HttpFairness says.            *)
(* (A client connects once, so all end when each does.)                    *)
RequestsEnd ==
    up /\ (\E c \in Clients : client[c] = "connected")
        ~> ~up \/ \A c \in Clients : client[c] # "connected"

============================================================================
