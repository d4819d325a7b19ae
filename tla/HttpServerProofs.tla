-------------------------- MODULE HttpServerProofs --------------------------
(***************************************************************************)
(* For any pool, any number of descriptors and clients, any requests and   *)
(* any sizes: the types of HttpServer with the bound of its buffers, that  *)
(* every open descriptor has one owner, and that the answer to a request   *)
(* does not depend on the pieces it came in.  And that the whole process   *)
(* of ServerProcess behaves as HttpServer says.                            *)
(***************************************************************************)
EXTENDS ServerProcess, TLAPS

USE HttpServerAssumption

RequestType == [head : Nat \ {0}, length : Nat \cup {BadLength}, total : Nat,
                wellFormed : BOOLEAN, reads : BOOLEAN]

----------------------------------------------------------------------------
(* The framing. *)

(* The loop goes on only while there is room, and what it ends with fits. *)
LEMMA AfterReceiveFits ==
    ASSUME NEW r \in RequestType, NEW received \in Nat, received <= r.total
    PROVE  LET after == AfterReceive(r, received) IN
           /\ after \in {"receive", "dispatch", "400", "413"}
           /\ after = "receive" => received <= MaxBody + HeadRoom
           /\ after = "dispatch" => Fits(r, "handled")
           /\ after \in {"400", "413"} => Fits(r, after)
<1>1. /\ r.head \in Nat \ {0} /\ r.length \in Nat \cup {-1} /\ r.total \in Nat
      /\ r.wellFormed \in BOOLEAN
  BY DEF RequestType, BadLength
<1>2. CASE Announced(r, received) /\ Refused(r)
  <2>1. AfterReceive(r, received) = Refusal(r) /\ Verdict(r) = Refusal(r)
    BY <1>2 DEF AfterReceive, Verdict
  <2>2. Refusal(r) \in {"400", "413"}
    BY DEF Refusal
  <2>3. QED  BY <2>1, <2>2 DEF Fits
<1>3. CASE Announced(r, received) /\ ~Refused(r) /\ received >= r.head + r.length
  <2>1. AfterReceive(r, received) = Parsed(r)
    BY <1>3 DEF AfterReceive
  <2>2. Verdict(r) = IF r.wellFormed THEN "handled" ELSE "400"
    BY <1>3 DEF Verdict
  <2>3. r.length \in 0 .. MaxBody /\ r.head + r.length <= r.total
    BY <1>1, <1>3 DEF Refused
  <2>4. QED  BY <2>1, <2>2, <2>3 DEF Fits, Parsed
<1>4. CASE /\ ~(Announced(r, received) /\ Refused(r))
           /\ ~(Announced(r, received) /\ received >= r.head + r.length)
  <2>1. AfterReceive(r, received)
           = IF received > MaxBody + HeadRoom THEN "400" ELSE "receive"
    BY <1>4 DEF AfterReceive
  <2>2. received > MaxBody + HeadRoom => ~(r.head <= HeadRoom /\ r.head <= r.total)
    <3> SUFFICES ASSUME received > MaxBody + HeadRoom, r.head <= HeadRoom
                 PROVE  FALSE
      OBVIOUS
    <3>1. received >= r.head
      BY <1>1
    <3>2. r.length \in 0 .. MaxBody /\ ~(received >= r.head + r.length)
      BY <1>4, <3>1 DEF Announced, Refused
    <3>3. QED  BY <1>1, <3>2
  <2>3. QED  BY <2>1, <2>2 DEF Fits
<1>5. QED  BY <1>2, <1>3, <1>4 DEF Announced, Refused

----------------------------------------------------------------------------
(* The inductive invariant. *)

Busy(w) == job[w].pc # "idle"

(* What a worker holds, and what it will answer, fits its request. *)
JobFits(w) ==
    /\ Busy(w) => job[w].fd \in Descriptors
    /\ job[w].pc = "receive" => job[w].received <= MaxBody + HeadRoom
    /\ job[w].pc = "dispatch" => Fits(request[Peer(w)], "handled")
    /\ job[w].pc \in Answers => Fits(request[Peer(w)], job[w].pc)

JobsFit == \A w \in Workers : JobFits(w)

IInv == TypeOK /\ DescriptorsOwned /\ JobsFit /\ AnswerFitsRequest

(* A busy worker has an open descriptor, which is the worker's alone. *)
LEMMA BusyWorker ==
    ASSUME IInv, NEW w \in Workers, Busy(w)
    PROVE  /\ job[w].fd \in Descriptors
           /\ Peer(w) \in Clients
           /\ request[Peer(w)] \in RequestType
           /\ job[w].fd # accepted /\ ~Queued(job[w].fd)
           /\ \A v \in Workers : Busy(v) /\ v # w => job[v].fd # job[w].fd
<1>1. job[w].fd \in Descriptors
  BY DEF IInv, JobsFit, JobFits
<1>2. Serves(w, job[w].fd) /\ Served(job[w].fd)
  BY DEF Served, Serves, Busy
<1>3. sockets[job[w].fd] # NoClient
  BY <1>1, <1>2 DEF IInv, DescriptorsOwned
<1>4. Peer(w) \in Clients
  BY <1>1, <1>3 DEF Peer, IInv, TypeOK
<1>5. request[Peer(w)] \in RequestType
  BY <1>4 DEF IInv, TypeOK, RequestType
<1>6. job[w].fd # accepted /\ ~Queued(job[w].fd)
  BY <1>1, <1>2 DEF IInv, DescriptorsOwned
<1>7. ASSUME NEW v \in Workers, Busy(v), job[v].fd = job[w].fd
      PROVE  v = w
  <2>1. Serves(v, job[w].fd)
    BY <1>7 DEF Serves, Busy
  <2>2. QED  BY <2>1, <1>2 DEF IInv, DescriptorsOwned
<1>8. QED  BY <1>1, <1>4, <1>5, <1>6, <1>7

(* A worker that waits has a well-typed job. *)
LEMMA IdleIsJob == IdleJob \in Job
  BY DEF IdleJob, Job

(* A server that starts has no connection, so nothing is owned or answered. *)
LEMMA InitIInv == HttpInit => IInv
<1> SUFFICES ASSUME HttpInit PROVE IInv
  OBVIOUS
<1>1. TypeOK
  BY IdleIsJob DEF HttpInit, TypeOK
<1>2. DescriptorsOwned
  BY DEF HttpInit, DescriptorsOwned, Queued, Served, Serves, IdleJob
<1>3. JobsFit /\ AnswerFitsRequest
  BY DEF HttpInit, JobsFit, JobFits, AnswerFitsRequest, IdleJob, Answers, Busy
<1>4. QED  BY <1>1, <1>2, <1>3 DEF IInv

----------------------------------------------------------------------------
(* Types. *)

(* A socket is closed: types remain, whoever was at its other end. *)
LEMMA CloseTypes ==
    ASSUME TypeOK, NEW fd \in Descriptors, Close(fd)
    PROVE  /\ sockets' \in [Descriptors -> Clients \cup {NoClient}]
           /\ client' \in [Clients -> {"away", "connected", "left", "closed"}]
BY DEF TypeOK, Close

(* Every step keeps the types; the one with something to show is Receive,  *)
(* which adds a piece to a buffer that has room for it.                    *)
LEMMA TypeStep == IInv /\ [HttpNext]_httpVars => TypeOK'
<1> SUFFICES ASSUME IInv, [HttpNext]_httpVars PROVE TypeOK'
  OBVIOUS
<1> USE DEF IInv
<1>1. ASSUME NEW c \in Clients, Connect(c) PROVE TypeOK'
  BY <1>1 DEF TypeOK, Connect, serverVars
<1>2. ASSUME NEW c \in Clients, Leave(c) PROVE TypeOK'
  BY <1>2 DEF TypeOK, Leave, serverVars
<1>3. CASE Listen
  BY <1>3 DEF TypeOK, Listen, clientVars
<1>4. CASE BindFails
  BY <1>4 DEF TypeOK, BindFails, clientVars
<1>5. CASE Accept
  <2>1. backlog \in Seq(Clients) /\ backlog # <<>>
    BY <1>5 DEF TypeOK, Accept
  <2>2. Head(backlog) \in Clients /\ Tail(backlog) \in Seq(Clients)
    BY <2>1
  <2>3. QED  BY <1>5, <2>2 DEF TypeOK, Accept, Free
<1>6. CASE Enqueue
  BY <1>6 DEF TypeOK, Enqueue, clientVars
<1>7. CASE EnqueueFails
  <2>1. accepted \in Descriptors
    BY <1>7 DEF TypeOK, EnqueueFails
  <2>2. QED  BY <1>7, <2>1, CloseTypes DEF TypeOK, EnqueueFails
<1>8. ASSUME NEW w \in Workers, TakeTask(w) PROVE TypeOK'
  <2>1. tasks \in Seq(Descriptors) /\ tasks # <<>>
    BY <1>8 DEF TypeOK, TakeTask
  <2>2. Head(tasks) \in Descriptors /\ Tail(tasks) \in Seq(Descriptors)
    BY <2>1
  <2>3. [pc |-> "receive", fd |-> Head(tasks), received |-> 0] \in Job
    BY <2>2 DEF Job
  <2>4. QED  BY <1>8, <2>2, <2>3 DEF TypeOK, TakeTask, clientVars
<1>9. ASSUME NEW w \in Workers, Receive(w) PROVE TypeOK'
  <2>1. Busy(w) /\ job[w].pc = "receive"
    BY <1>9 DEF Receive, At, Busy
  <2>2. PICK size \in 1 .. Chunk :
           LET received == job[w].received + size
               r        == request[Peer(w)]
           IN /\ received <= r.total
              /\ job' = [job EXCEPT ![w].received = received,
                                    ![w].pc = AfterReceive(r, received)]
    BY <1>9 DEF Receive
  <2> DEFINE received == job[w].received + size
             r == request[Peer(w)]
  <2>3. received \in 0 .. (MaxBody + HeadRoom + Chunk)
    BY <2>1 DEF TypeOK, Job, JobsFit, JobFits
  <2>4. AfterReceive(r, received) \in {"receive", "dispatch", "400", "413"}
    BY <2>1, <2>2, <2>3, BusyWorker, AfterReceiveFits
  <2> HIDE DEF received, r
  <2>5. job' = [job EXCEPT ![w].received = received, ![w].pc = AfterReceive(r, received)]
    BY <2>2 DEF received, r
  <2>6. job' \in [Workers -> Job]
    <3>1. job[w] \in Job
      BY DEF TypeOK
    <3>2. [job[w] EXCEPT !.received = received, !.pc = AfterReceive(r, received)] \in Job
      BY <2>3, <2>4, <3>1 DEF Job, Answers
    <3>3. QED  BY <2>5, <3>2 DEF TypeOK
  <2>7. QED  BY <1>9, <2>6 DEF TypeOK, Receive, clientVars
<1>10. ASSUME NEW w \in Workers, ReceiveEnds(w) PROVE TypeOK'
  <2>1. job[w].fd \in Descriptors
    BY <1>10, BusyWorker DEF ReceiveEnds, At, Busy
  <2>2. QED  BY <1>10, <2>1, CloseTypes, IdleIsJob DEF TypeOK, ReceiveEnds
<1>11. ASSUME NEW w \in Workers, Dispatch(w) PROVE TypeOK'
  <2>1. job' \in [Workers -> Job]
    <3>1. job \in [Workers -> Job] /\ job' = [job EXCEPT ![w].pc = "handled"]
      BY <1>11 DEF TypeOK, Dispatch, Go
    <3>2. [job[w] EXCEPT !.pc = "handled"] \in Job
      BY <3>1 DEF Job, Answers
    <3>3. QED  BY <3>1, <3>2
  <2>2. QED  BY <1>11, <2>1 DEF TypeOK, Dispatch, clientVars
<1>12. ASSUME NEW w \in Workers, SendAnswer(w) PROVE TypeOK'
  <2>1. job[w].fd \in Descriptors
    BY <1>12, BusyWorker DEF SendAnswer, Answers, Busy
  <2>2. QED  BY <1>12, <2>1, CloseTypes, IdleIsJob DEF TypeOK, SendAnswer
<1>13. ASSUME NEW w \in Workers, KilledBySend(w) PROVE TypeOK'
  BY <1>13 DEF TypeOK, KilledBySend, clientVars
<1>14. CASE UNCHANGED httpVars
  BY <1>14 DEF TypeOK, httpVars, serverVars, clientVars
<1>15. QED
  BY <1>1, <1>2, <1>3, <1>4, <1>5, <1>6, <1>7, <1>8, <1>9, <1>10, <1>11, <1>12,
     <1>13, <1>14 DEF HttpNext, RunStep, WorkerStep

----------------------------------------------------------------------------
(* Ownership. *)

(* Who holds what is as before when none of it changes. *)
LEMMA SameHolders ==
    ASSUME IInv, UNCHANGED <<accepted, tasks, sockets>>,
           \A w \in Workers : (job[w].pc = "idle" <=> job'[w].pc = "idle")
                              /\ job'[w].fd = job[w].fd
    PROVE  DescriptorsOwned'
BY DEF IInv, DescriptorsOwned, Queued, Served, Serves

(* The descriptor a worker closes becomes free, and the worker idle. *)
LEMMA WorkerCloses ==
    ASSUME IInv, NEW w \in Workers, Busy(w), Close(job[w].fd),
           job' = [job EXCEPT ![w] = IdleJob], UNCHANGED <<accepted, tasks>>
    PROVE  DescriptorsOwned'
<1> DEFINE fd == job[w].fd
<1>1. /\ fd \in Descriptors /\ fd # accepted /\ ~Queued(fd)
      /\ \A v \in Workers : Busy(v) /\ v # w => job[v].fd # fd
  BY BusyWorker
<1>2. \A g \in Descriptors : sockets'[g] = IF g = fd THEN NoClient ELSE sockets[g]
  BY DEF Close, IInv, TypeOK
<1>3. \A v \in Workers : \A g : Serves(v, g)' <=> Serves(v, g) /\ v # w
  BY DEF Serves, IdleJob, IInv, TypeOK
<1>4. \A g : Served(g)' <=> Served(g) /\ g # fd
  BY <1>1, <1>3 DEF Served, Serves, Busy
<1>5. \A g : Queued(g)' <=> Queued(g)
  BY DEF Queued
<1>6. /\ \A g \in Descriptors :
            /\ sockets'[g] # NoClient <=> accepted' = g \/ Queued(g)' \/ Served(g)'
            /\ accepted' = g => ~Queued(g)' /\ ~Served(g)'
            /\ Queued(g)' => ~Served(g)'
  BY <1>1, <1>2, <1>4, <1>5 DEF IInv, DescriptorsOwned
<1>7. \A i, j \in DOMAIN tasks' : tasks'[i] = tasks'[j] => i = j
  BY DEF IInv, DescriptorsOwned
<1>8. ASSUME NEW u \in Workers, NEW v \in Workers,
             Serves(u, job[v].fd)', Serves(v, job[v].fd)'
      PROVE  u = v
  <2>1. u # w /\ v # w
    BY <1>3, <1>8
  <2>2. job'[v] = job[v] /\ job'[u] = job[u]
    BY <2>1 DEF IInv, TypeOK
  <2>3. QED  BY <1>8, <2>2 DEF Serves, IInv, DescriptorsOwned
<1>9. QED  BY <1>6, <1>7, <1>8 DEF DescriptorsOwned

(* Every step keeps the owners of descriptors apart: they are handed from  *)
(* main to the queue and on to a worker, and closed by the one who has it. *)
LEMMA OwnedStep == IInv /\ [HttpNext]_httpVars => DescriptorsOwned'
<1> SUFFICES ASSUME IInv, [HttpNext]_httpVars PROVE DescriptorsOwned'
  OBVIOUS
<1>1. ASSUME NEW c \in Clients, Connect(c) PROVE DescriptorsOwned'
  BY <1>1, SameHolders DEF Connect, serverVars
<1>2. ASSUME NEW c \in Clients, Leave(c) PROVE DescriptorsOwned'
  BY <1>2, SameHolders DEF Leave, serverVars
<1>3. CASE Listen
  BY <1>3, SameHolders DEF Listen
<1>4. CASE BindFails
  BY <1>4, SameHolders DEF BindFails
<1>5. CASE Accept
  <2>1. PICK fd \in Free : /\ accepted' = fd
                           /\ sockets' = [sockets EXCEPT ![fd] = Head(backlog)]
    BY <1>5 DEF Accept
  <2>2. fd \in Descriptors /\ sockets[fd] = NoClient
    BY DEF Free
  <2>3. Head(backlog) # NoClient
    <3>1. backlog \in Seq(Clients) /\ backlog # <<>>
      BY <1>5 DEF Accept, IInv, TypeOK
    <3>2. QED  BY <3>1
  <2>4. ~Queued(fd) /\ ~Served(fd)
    BY <2>2 DEF IInv, DescriptorsOwned
  <2>5. \A g \in Descriptors : sockets'[g] # NoClient <=> g = fd \/ sockets[g] # NoClient
    BY <2>1, <2>2, <2>3 DEF IInv, TypeOK
  <2>6. accepted = 0 /\ 0 \notin Descriptors /\ UNCHANGED <<tasks, job>>
    BY <1>5 DEF Accept
  <2>7. QED
    BY <2>1, <2>4, <2>5, <2>6 DEF IInv, DescriptorsOwned, Queued, Served, Serves
<1>6. CASE Enqueue
  <2>1. /\ accepted \in Descriptors /\ tasks \in Seq(Descriptors)
        /\ tasks' = Append(tasks, accepted) /\ accepted' = 0
        /\ 0 \notin Descriptors /\ UNCHANGED <<sockets, job>>
    BY <1>6 DEF Enqueue, IInv, TypeOK
  <2>2. /\ DOMAIN tasks = 1 .. Len(tasks) /\ DOMAIN tasks' = 1 .. (Len(tasks) + 1)
        /\ Len(tasks) \in Nat
        /\ tasks'[Len(tasks) + 1] = accepted
        /\ \A i \in 1 .. Len(tasks) : tasks'[i] = tasks[i]
    BY <2>1
  <2>3. \A g : Queued(g)' <=> Queued(g) \/ g = accepted
    BY <2>2 DEF Queued
  <2>4. \A g : Served(g)' <=> Served(g)
    BY <2>1 DEF Served, Serves
  <2>5. ~Queued(accepted) /\ ~Served(accepted)
    BY <2>1 DEF IInv, DescriptorsOwned
  <2>6. \A i, j \in DOMAIN tasks' : tasks'[i] = tasks'[j] => i = j
    BY <2>2, <2>5 DEF IInv, DescriptorsOwned, Queued
  <2>7. \A v, w \in Workers : Serves(v, job[w].fd)' /\ Serves(w, job[w].fd)' => v = w
    BY <2>1 DEF IInv, DescriptorsOwned, Serves
  <2>8. QED
    BY <2>1, <2>3, <2>4, <2>5, <2>6, <2>7 DEF IInv, DescriptorsOwned
<1>7. CASE EnqueueFails
  <2>1. /\ accepted \in Descriptors /\ accepted' = 0 /\ 0 \notin Descriptors
        /\ UNCHANGED <<tasks, job>>
    BY <1>7 DEF EnqueueFails, IInv, TypeOK
  <2>2. \A g \in Descriptors : sockets'[g] = IF g = accepted THEN NoClient ELSE sockets[g]
    BY <1>7, <2>1 DEF EnqueueFails, Close, IInv, TypeOK
  <2>3. ~Queued(accepted) /\ ~Served(accepted)
    BY <2>1 DEF IInv, DescriptorsOwned
  <2>4. QED
    BY <2>1, <2>2, <2>3 DEF IInv, DescriptorsOwned, Queued, Served, Serves
<1>8. ASSUME NEW w \in Workers, TakeTask(w) PROVE DescriptorsOwned'
  <2>0. PICK fd : fd = Head(tasks)
    OBVIOUS
  <2>1. /\ tasks \in Seq(Descriptors) /\ tasks # <<>> /\ tasks' = Tail(tasks)
        /\ job' = [job EXCEPT ![w] = [pc |-> "receive", fd |-> fd, received |-> 0]]
        /\ job[w].pc = "idle" /\ UNCHANGED <<sockets, accepted>>
    BY <1>8, <2>0 DEF TakeTask, At, IInv, TypeOK
  <2>2. /\ Len(tasks) \in Nat \ {0} /\ fd = tasks[1]
        /\ DOMAIN tasks = 1 .. Len(tasks) /\ DOMAIN tasks' = 1 .. (Len(tasks) - 1)
        /\ \A i \in 1 .. (Len(tasks) - 1) : tasks'[i] = tasks[i + 1]
    BY <2>0, <2>1
  <2>3. fd \in Descriptors
    BY <2>0, <2>1
  <2>4. \A i, j \in DOMAIN tasks : tasks[i] = tasks[j] => i = j
    BY DEF IInv, DescriptorsOwned
  <2>5. \A i \in 2 .. Len(tasks) : tasks[i] # fd
    BY <2>2, <2>4
  <2>6. \A g : Queued(g) <=> g = fd \/ Queued(g)'
    <3>1. ASSUME NEW g, Queued(g), g # fd PROVE Queued(g)'
      <4>1. PICK i \in DOMAIN tasks : tasks[i] = g
        BY <3>1 DEF Queued
      <4>2. i - 1 \in DOMAIN tasks' /\ tasks'[i - 1] = g
        BY <2>2, <3>1, <4>1
      <4>3. QED  BY <4>2 DEF Queued
    <3>2. ASSUME NEW g, Queued(g)' PROVE Queued(g)
      <4>1. PICK i \in DOMAIN tasks' : tasks'[i] = g
        BY <3>2 DEF Queued
      <4>2. i + 1 \in DOMAIN tasks /\ tasks[i + 1] = g
        BY <2>2, <4>1
      <4>3. QED  BY <4>2 DEF Queued
    <3>3. Queued(fd)
      BY <2>2 DEF Queued
    <3>4. QED  BY <3>1, <3>2, <3>3
  <2>7. ~Queued(fd)'
    BY <2>2, <2>5 DEF Queued
  <2>8. ~Served(fd) /\ accepted # fd
    BY <2>3, <2>6 DEF IInv, DescriptorsOwned
  <2>9. \A v \in Workers : \A g : Serves(v, g)' <=> (v = w /\ g = fd) \/ Serves(v, g)
    BY <2>1 DEF Serves, IInv, TypeOK
  <2>10. \A g : Served(g)' <=> g = fd \/ Served(g)
    BY <2>9 DEF Served
  <2>11. \A g \in Descriptors :
            /\ sockets'[g] # NoClient <=> accepted' = g \/ Queued(g)' \/ Served(g)'
            /\ accepted' = g => ~Queued(g)' /\ ~Served(g)'
            /\ Queued(g)' => ~Served(g)'
    BY <2>1, <2>6, <2>7, <2>8, <2>10 DEF IInv, DescriptorsOwned
  <2>12. ASSUME NEW i \in DOMAIN tasks', NEW j \in DOMAIN tasks', tasks'[i] = tasks'[j]
         PROVE  i = j
    <3>1. /\ i \in Int /\ j \in Int
          /\ i + 1 \in DOMAIN tasks /\ j + 1 \in DOMAIN tasks
          /\ tasks[i + 1] = tasks[j + 1]
      BY <2>2, <2>12
    <3>2. i + 1 = j + 1
      BY <2>4, <3>1
    <3>3. QED  BY <3>1, <3>2
  <2>13. ASSUME NEW u \in Workers, NEW v \in Workers,
                Serves(u, job[v].fd)', Serves(v, job[v].fd)'
         PROVE  u = v
    <3>1. \A g : Serves(u, g) /\ Serves(v, g) => u = v
      BY DEF IInv, DescriptorsOwned, Serves
    <3>2. \A x \in Workers : ~Serves(x, fd)
      BY <2>8 DEF Served
    <3>3. QED  BY <2>9, <2>13, <3>1, <3>2
  <2>14. QED  BY <2>11, <2>12, <2>13 DEF DescriptorsOwned
<1>9. ASSUME NEW w \in Workers, Receive(w) PROVE DescriptorsOwned'
  <2>1. Busy(w)
    BY <1>9 DEF Receive, At, Busy
  <2>2. PICK size \in 1 .. Chunk :
           LET received == job[w].received + size
               r        == request[Peer(w)]
           IN /\ received <= r.total
              /\ job' = [job EXCEPT ![w].received = received,
                                    ![w].pc = AfterReceive(r, received)]
    BY <1>9 DEF Receive
  <2>3. job[w].received + size \in Nat
    BY DEF IInv, TypeOK, Job
  <2>4. AfterReceive(request[Peer(w)], job[w].received + size) # "idle"
    BY <2>1, <2>2, <2>3, BusyWorker, AfterReceiveFits
  <2>5. \A v \in Workers : (job[v].pc = "idle" <=> job'[v].pc = "idle")
                           /\ job'[v].fd = job[v].fd
    BY <2>1, <2>2, <2>4 DEF IInv, TypeOK, Job, Busy
  <2>6. QED  BY <1>9, <2>5, SameHolders DEF Receive
<1>10. ASSUME NEW w \in Workers, ReceiveEnds(w) PROVE DescriptorsOwned'
  BY <1>10, WorkerCloses DEF ReceiveEnds, At, Busy
<1>11. ASSUME NEW w \in Workers, Dispatch(w) PROVE DescriptorsOwned'
  <2>1. \A v \in Workers : (job[v].pc = "idle" <=> job'[v].pc = "idle")
                           /\ job'[v].fd = job[v].fd
    BY <1>11 DEF Dispatch, At, Go, IInv, TypeOK, Job
  <2>2. QED  BY <1>11, <2>1, SameHolders DEF Dispatch
<1>12. ASSUME NEW w \in Workers, SendAnswer(w) PROVE DescriptorsOwned'
  BY <1>12, WorkerCloses DEF SendAnswer, Answers, Busy
<1>13. ASSUME NEW w \in Workers, KilledBySend(w) PROVE DescriptorsOwned'
  BY <1>13, SameHolders DEF KilledBySend
<1>14. CASE UNCHANGED httpVars
  BY <1>14, SameHolders DEF httpVars, serverVars
<1>15. QED
  BY <1>1, <1>2, <1>3, <1>4, <1>5, <1>6, <1>7, <1>8, <1>9, <1>10, <1>11, <1>12,
     <1>13, <1>14 DEF HttpNext, RunStep, WorkerStep

----------------------------------------------------------------------------
(* What is answered fits what was asked. *)

(* Whatever a worker that takes no step holds still fits, if the socket of *)
(* a busy one keeps its client.                                            *)
LEMMA OthersFit ==
    ASSUME IInv, NEW v \in Workers, UNCHANGED <<job[v], request>>,
           Busy(v) => sockets'[job[v].fd] = sockets[job[v].fd]
    PROVE  JobFits(v)'
<1>1. CASE ~Busy(v)
  BY <1>1 DEF JobFits, Busy, Answers
<1>2. CASE Busy(v)
  <2>1. Peer(v)' = Peer(v)
    BY <1>2 DEF Peer
  <2>2. JobFits(v)
    BY DEF IInv, JobsFit
  <2>3. QED  BY <2>1, <2>2 DEF JobFits, Busy
<1>3. QED  BY <1>1, <1>2

(* An idle worker holds nothing. *)
LEMMA IdleFits ==
    ASSUME NEW v \in Workers, job'[v] = IdleJob
    PROVE  JobFits(v)'
BY DEF JobFits, Busy, Answers, IdleJob

(* Closing the descriptor of one worker leaves the others what they hold. *)
LEMMA CloseFits ==
    ASSUME IInv, NEW w \in Workers, Busy(w), Close(job[w].fd),
           job' = [job EXCEPT ![w] = IdleJob], UNCHANGED request
    PROVE  JobsFit'
<1>1. ASSUME NEW v \in Workers PROVE JobFits(v)'
  <2>1. CASE v = w
    BY <2>1, IdleFits DEF IInv, TypeOK
  <2>2. CASE v # w
    <3>1. job'[v] = job[v]
      BY <2>2 DEF IInv, TypeOK
    <3>2. Busy(v) => job[v].fd \in Descriptors /\ job[v].fd # job[w].fd
      BY <2>2, BusyWorker
    <3>3. Busy(v) => sockets'[job[v].fd] = sockets[job[v].fd]
      BY <3>2 DEF Close, IInv, TypeOK
    <3>4. QED  BY <3>1, <3>3, OthersFit
  <2>3. QED  BY <2>1, <2>2
<1>2. QED  BY <1>1 DEF JobsFit

(* Every step keeps what a worker is about to do in line with its request. *)
LEMMA JobStep == IInv /\ [HttpNext]_httpVars => JobsFit'
<1> SUFFICES ASSUME IInv, [HttpNext]_httpVars PROVE JobsFit'
  OBVIOUS
<1> DEFINE Kept == UNCHANGED <<sockets, job, request>>
<1>0. ASSUME Kept PROVE JobsFit'
  BY <1>0, OthersFit DEF JobsFit
<1>1. ASSUME NEW c \in Clients, Connect(c) \/ Leave(c) PROVE Kept
  BY <1>1 DEF Connect, Leave, serverVars
<1>2. CASE Listen \/ BindFails \/ Enqueue
  <2>1. Kept
    BY <1>2 DEF Listen, BindFails, Enqueue, clientVars
  <2>2. QED  BY <2>1, <1>0
<1>3. ASSUME NEW fd \in Descriptors, UNCHANGED <<job, request>>,
             ~Served(fd), \A g \in Descriptors \ {fd} : sockets'[g] = sockets[g]
      PROVE  JobsFit'
  <2>1. ASSUME NEW v \in Workers, Busy(v) PROVE sockets'[job[v].fd] = sockets[job[v].fd]
    <3>1. Serves(v, job[v].fd)
      BY <2>1 DEF Serves, Busy
    <3>2. job[v].fd \in Descriptors /\ job[v].fd # fd
      BY <1>3, <2>1, <3>1, BusyWorker DEF Served
    <3>3. QED  BY <1>3, <3>2
  <2>2. QED  BY <1>3, <2>1, OthersFit DEF JobsFit
<1>4. CASE Accept
  <2>1. PICK fd \in Free : sockets' = [sockets EXCEPT ![fd] = Head(backlog)]
    BY <1>4 DEF Accept
  <2>2. fd \in Descriptors /\ ~Served(fd)
    BY <2>1 DEF Free, IInv, DescriptorsOwned
  <2>3. \A g \in Descriptors \ {fd} : sockets'[g] = sockets[g]
    BY <2>1 DEF IInv, TypeOK
  <2>4. UNCHANGED <<job, request>>
    BY <1>4 DEF Accept
  <2>5. QED  BY <2>2, <2>3, <2>4, <1>3
<1>5. CASE EnqueueFails
  <2>1. accepted \in Descriptors
    BY <1>5 DEF EnqueueFails, IInv, TypeOK
  <2>2. ~Served(accepted)
    BY <2>1 DEF IInv, DescriptorsOwned
  <2>3. \A g \in Descriptors \ {accepted} : sockets'[g] = sockets[g]
    BY <1>5 DEF EnqueueFails, Close, IInv, TypeOK
  <2>4. UNCHANGED <<job, request>>
    BY <1>5 DEF EnqueueFails
  <2>5. QED  BY <2>1, <2>2, <2>3, <2>4, <1>3
<1>6. ASSUME NEW w \in Workers, UNCHANGED <<sockets, request>>,
             \A v \in Workers \ {w} : job'[v] = job[v],
             JobFits(w)'
      PROVE  JobsFit'
  BY <1>6, OthersFit DEF JobsFit
<1>7. ASSUME NEW w \in Workers, TakeTask(w) PROVE JobsFit'
  <2>1. tasks \in Seq(Descriptors) /\ tasks # <<>>
    BY <1>7 DEF TakeTask, IInv, TypeOK
  <2>2. job'[w] = [pc |-> "receive", fd |-> Head(tasks), received |-> 0]
    BY <1>7 DEF TakeTask, IInv, TypeOK
  <2>3. JobFits(w)'
    BY <2>1, <2>2 DEF JobFits, Busy, Answers
  <2>4. \A v \in Workers \ {w} : job'[v] = job[v]
    BY <1>7 DEF TakeTask, IInv, TypeOK
  <2>5. UNCHANGED <<sockets, request>>
    BY <1>7 DEF TakeTask, clientVars
  <2>6. QED  BY <2>3, <2>4, <2>5, <1>6
<1>8. ASSUME NEW w \in Workers, Receive(w) PROVE JobsFit'
  <2>1. Busy(w)
    BY <1>8 DEF Receive, At, Busy
  <2>2. PICK size \in 1 .. Chunk :
           LET received == job[w].received + size
               r        == request[Peer(w)]
           IN /\ received <= r.total
              /\ job' = [job EXCEPT ![w].received = received,
                                    ![w].pc = AfterReceive(r, received)]
    BY <1>8 DEF Receive
  <2>3. PICK received, r : received = job[w].received + size /\ r = request[Peer(w)]
    OBVIOUS
  <2>4. received \in Nat
    BY <2>3 DEF IInv, TypeOK, Job
  <2>5. /\ job'[w].received = received
        /\ job'[w].pc = AfterReceive(r, received)
        /\ job'[w].fd = job[w].fd
    BY <2>2, <2>3 DEF IInv, TypeOK, Job
  <2>6. UNCHANGED <<sockets, request>>
    BY <1>8 DEF Receive, clientVars
  <2>7. request'[Peer(w)'] = r
    BY <2>3, <2>5, <2>6 DEF Peer
  <2>8. r \in RequestType /\ received <= r.total
    BY <2>1, <2>2, <2>3, BusyWorker
  <2>9. JobFits(w)'
    BY <2>1, <2>4, <2>5, <2>7, <2>8, BusyWorker, AfterReceiveFits DEF JobFits, Answers
  <2>10. \A v \in Workers \ {w} : job'[v] = job[v]
    BY <2>2 DEF IInv, TypeOK
  <2>11. QED  BY <2>6, <2>9, <2>10, <1>6
<1>9. ASSUME NEW w \in Workers, ReceiveEnds(w) PROVE JobsFit'
  BY <1>9, CloseFits DEF ReceiveEnds, At, Busy
<1>10. ASSUME NEW w \in Workers, Dispatch(w) PROVE JobsFit'
  <2>1. job[w].pc = "dispatch" /\ Busy(w)
    BY <1>10 DEF Dispatch, At, Busy
  <2>2. job'[w].pc = "handled" /\ job'[w].fd = job[w].fd
    BY <1>10 DEF Dispatch, Go, IInv, TypeOK, Job
  <2>3. UNCHANGED <<sockets, request>>
    BY <1>10 DEF Dispatch, clientVars
  <2>4. Peer(w)' = Peer(w)
    BY <2>2, <2>3 DEF Peer
  <2>5. JobFits(w)
    BY DEF IInv, JobsFit
  <2>6. JobFits(w)'
    BY <2>1, <2>2, <2>3, <2>4, <2>5 DEF JobFits, Busy
  <2>7. \A v \in Workers \ {w} : job'[v] = job[v]
    BY <1>10 DEF Dispatch, Go, IInv, TypeOK
  <2>8. QED  BY <2>3, <2>6, <2>7, <1>6
<1>11. ASSUME NEW w \in Workers, SendAnswer(w) PROVE JobsFit'
  BY <1>11, CloseFits DEF SendAnswer, Answers, Busy
<1>12. ASSUME NEW w \in Workers, KilledBySend(w) PROVE Kept
  BY <1>12 DEF KilledBySend, clientVars
<1>13. CASE UNCHANGED httpVars
  <2>1. Kept
    BY <1>13 DEF httpVars, serverVars, clientVars
  <2>2. QED  BY <2>1, <1>0
<1> HIDE DEF Kept
<1>14. QED
  BY <1>0, <1>1, <1>2, <1>4, <1>5, <1>7, <1>8, <1>9, <1>10, <1>11, <1>12, <1>13
  DEF HttpNext, RunStep, WorkerStep

(* An answer is sent to the client whose request it fits, and stays. *)
LEMMA AnswerStep == IInv /\ [HttpNext]_httpVars => AnswerFitsRequest'
<1> SUFFICES ASSUME IInv, [HttpNext]_httpVars PROVE AnswerFitsRequest'
  OBVIOUS
<1>1. ASSUME UNCHANGED <<answer, request>> PROVE AnswerFitsRequest'
  BY <1>1 DEF IInv, AnswerFitsRequest
<1>2. ASSUME NEW w \in Workers, SendAnswer(w) PROVE AnswerFitsRequest'
  <2>1. Fits(request[Peer(w)], job[w].pc)
    BY <1>2 DEF SendAnswer, IInv, JobsFit, JobFits
  <2>2. /\ answer' = [answer EXCEPT ![Peer(w)] = job[w].pc]
        /\ request' = request
    BY <1>2 DEF SendAnswer
  <2>3. ASSUME NEW c \in Clients, answer'[c] # "none" PROVE Fits(request[c], answer'[c])
    BY <2>1, <2>2, <2>3 DEF IInv, TypeOK, AnswerFitsRequest
  <2>4. QED  BY <2>2, <2>3 DEF AnswerFitsRequest
<1>3. CASE \E c \in Clients : Connect(c) \/ Leave(c)
  BY <1>1, <1>3 DEF Connect, Leave
<1>4. CASE RunStep
  BY <1>1, <1>4 DEF RunStep, Listen, BindFails, Accept, Enqueue, EnqueueFails, clientVars
<1>5. ASSUME NEW w \in Workers,
             TakeTask(w) \/ Receive(w) \/ ReceiveEnds(w) \/ Dispatch(w) \/ KilledBySend(w)
      PROVE  AnswerFitsRequest'
  BY <1>1, <1>5 DEF TakeTask, Receive, ReceiveEnds, Dispatch, KilledBySend, clientVars
<1>6. CASE UNCHANGED httpVars
  BY <1>1, <1>6 DEF httpVars, clientVars
<1>7. QED
  BY <1>2, <1>3, <1>4, <1>5, <1>6 DEF HttpNext, WorkerStep

----------------------------------------------------------------------------
(* The results. *)

(* The inductive invariant of the server. *)
LEMMA HttpInvariant == HttpSpec => []IInv
<1>1. IInv /\ [HttpNext]_httpVars => IInv'
  BY TypeStep, OwnedStep, JobStep, AnswerStep DEF IInv
<1>2. QED  BY InitIInv, <1>1, PTL DEF HttpSpec

(* The process starts, stops and schedules beside its server, and leaves   *)
(* the server's variables to the server's own steps (main.cpp:36-43).      *)
THEOREM ProcessRunsServer == Spec => HttpSpec
<1>1. Init => HttpInit
  BY DEF Init
<1>2. [Next]_vars => [HttpNext]_httpVars
  BY DEF Next, MainStep, Start, Serve, Schedule, Unwind, Notify, Exit, vars
<1>3. QED  BY <1>1, <1>2, PTL DEF Spec, HttpSpec

(* The types, and with them the bound of each connection's buffer: what    *)
(* handleClient keeps is less than a buffer above its limit                *)
(* (HttpServer.cpp:225).                                                   *)
THEOREM BuffersBounded == Spec => []TypeOK
<1>1. IInv => TypeOK
  BY DEF IInv
<1>2. QED  BY <1>1, ProcessRunsServer, HttpInvariant, PTL

(* An open descriptor is always in the hands of exactly one of main, queue *)
(* and workers (HttpServer.cpp:184-206 and handleClient).                  *)
THEOREM DescriptorsAreOwned == Spec => []DescriptorsOwned
<1>1. IInv => DescriptorsOwned
  BY DEF IInv
<1>2. QED  BY <1>1, ProcessRunsServer, HttpInvariant, PTL

(* The answer to a request whose head has room depends on the request, not *)
(* on the pieces it came in, and handlers run for whole requests only      *)
(* (HttpServer.cpp:225-266).                                               *)
THEOREM AnswersFit == Spec => []AnswerFitsRequest
<1>1. IInv => AnswerFitsRequest
  BY DEF IInv
<1>2. QED  BY <1>1, ProcessRunsServer, HttpInvariant, PTL

============================================================================
