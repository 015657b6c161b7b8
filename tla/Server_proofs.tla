--------------------------- MODULE Server_proofs ----------------------------
(***************************************************************************)
(* Theorems about the server's descriptors, memory and packets, for any    *)
(* numbers of clients and of descriptors and whatever the clients say.     *)
(***************************************************************************)
EXTENDS Server, WellFoundedInduction, TLAPS

(***************************************************************************)
(* The table of open descriptors.                                          *)
(***************************************************************************)
LEMMA OpensOne ==
    ASSUME NEW n, NEW what, Opens(n, what)
    PROVE  /\ Open' = Open \cup {n}
           /\ files'[n] = what
           /\ \A f \in Open \ {n} : files'[f] = files[f]
  BY DEF Opens, Open

LEMMA ClosesOne ==
    ASSUME NEW n, srv_close_fd(n)
    PROVE  /\ Open' = Open \ {n}
           /\ \A f \in Open \ {n} : files'[f] = files[f]
  BY DEF srv_close_fd, Open

(***************************************************************************)
(* The first part of the inductive invariant: who has which descriptor and *)
(* which block, where main is and where the threads are.                   *)
(***************************************************************************)
Loop      == {"accept", "malloc", "create"}
Listening == {"reuseaddr", "bind", "listen"} \cup Loop
MainPcs   == {"resolve", "socket", "exit"} \cup Listening
ThreadPcs == {"none", "start", "lenient", "strict", "closing"}

Types ==
    /\ main \in MainPcs
    /\ sock_fd \in FDs \cup {NoFd} /\ new_fd \in FDs \cup {NoFd}
    /\ Open \subseteq FDs
    /\ \A f \in Open : files[f] \in Clients \cup {Listener}
    /\ heap \subseteq Clients \cup {"addrinfo"} /\ backlog \subseteq Clients
    /\ thread \in [Clients -> ThreadPcs]
    /\ fd \in [Clients -> FDs \cup {NoFd}]

Idle(c) == thread[c] = "none"

MainInv ==
    /\ sock_fd # NoFd <=> main \in Listening
    /\ sock_fd # NoFd => sock_fd \in Open /\ files[sock_fd] = Listener
    /\ new_fd # NoFd <=> main \in {"malloc", "create"}
    /\ new_fd # NoFd =>
          new_fd \in Open /\ files[new_fd] \in Clients /\ Idle(files[new_fd])

ThreadInv ==
    \A c \in Clients :
        /\ fd[c] # NoFd <=> ~ Idle(c)
        /\ fd[c] # NoFd => fd[c] \in Open /\ files[fd[c]] = c
        /\ c \in backlog => Idle(c) /\ (new_fd # NoFd => files[new_fd] # c)
        /\ main \notin Loop => Idle(c) /\ c \notin backlog

OpenInv ==
    \A f \in Open : f = sock_fd \/ f = new_fd \/ \E c \in Clients : fd[c] = f

HeapInv ==
    /\ "addrinfo" \in heap <=> main \in {"socket", "reuseaddr", "bind"}
    /\ \A c \in Clients :
          c \in heap <=> \/ thread[c] = "start"
                         \/ main = "create" /\ files[new_fd] = c

OwnerInv == Types /\ MainInv /\ ThreadInv /\ OpenInv /\ HeapInv

LEMMA OwnerInit == Init => OwnerInv
<1> SUFFICES ASSUME Init PROVE OwnerInv
  OBVIOUS
<1>1. Open = {}
  BY DEF Init, Open
<1> QED
  BY <1>1, ClientsAssumption
  DEF Init, OwnerInv, Types, MainInv, ThreadInv, OpenInv, HeapInv, Loop,
      Listening, MainPcs, ThreadPcs, Idle

\* Steps that leave main, the table and the heap alone, and of the threads
\* change only where a thread is between its start and its end.
LEMMA OwnerKept ==
    ASSUME OwnerInv,
           UNCHANGED <<mainVars, tableVars, backlog, fd>>,
           thread' \in [Clients -> ThreadPcs],
           \A c \in Clients : thread'[c] # thread[c] =>
               /\ thread[c] \in {"lenient", "strict"}
               /\ thread'[c] \in {"lenient", "strict", "closing"}
    PROVE  OwnerInv'
<1>1. /\ UNCHANGED <<main, sock_fd, new_fd, files, heap, backlog, fd>>
      /\ Open' = Open
  BY DEF mainVars, tableVars, Open
<1>2. \A c \in Clients : /\ Idle(c)' <=> Idle(c)
                         /\ thread'[c] = "start" <=> thread[c] = "start"
  BY DEF Idle
<1>3. Types' /\ OpenInv'
  BY <1>1 DEF OwnerInv, Types, OpenInv
<1>4. MainInv' /\ ThreadInv' /\ HeapInv'
  BY <1>1, <1>2 DEF OwnerInv, MainInv, ThreadInv, HeapInv, Types
<1> QED
  BY <1>3, <1>4 DEF OwnerInv

(***************************************************************************)
(* The start of the server: nobody has connected yet, and the table and    *)
(* the heap follow from where main is.                                     *)
(***************************************************************************)
Table(open, socket) ==
    IF socket = NoFd THEN open = {} ELSE open = {socket} /\ socket \in FDs

Heap(pc) == IF pc \in {"socket", "reuseaddr", "bind"} THEN {"addrinfo"} ELSE {}

LEMMA BeforeLoop ==
    ASSUME OwnerInv, main \notin Loop
    PROVE  /\ new_fd = NoFd /\ backlog = {}
           /\ \A c \in Clients : Idle(c) /\ fd[c] = NoFd
           /\ Table(Open, sock_fd) /\ heap = Heap(main)
<1>1. /\ new_fd = NoFd /\ backlog = {}
      /\ \A c \in Clients : Idle(c) /\ fd[c] = NoFd
  BY DEF OwnerInv, Types, MainInv, ThreadInv, Loop
<1>2. Table(Open, sock_fd)
  <2>1. Open \subseteq {sock_fd} /\ NoFd \notin Open
    BY <1>1, FDsAssumption DEF OwnerInv, OpenInv, Types
  <2> QED
    BY <2>1 DEF OwnerInv, MainInv, Types, Table
<1>3. heap = Heap(main)
  BY <1>1 DEF OwnerInv, Types, HeapInv, Heap, Idle, Loop
<1> QED
  BY <1>1, <1>2, <1>3

LEMMA ReachesLoop ==
    ASSUME OwnerInv, main \notin Loop,
           UNCHANGED <<new_fd, backlog, thread, fd>>,
           main' \in MainPcs, main' \notin {"malloc", "create"},
           sock_fd' # NoFd <=> main' \in Listening,
           Table(Open', sock_fd'), heap' = Heap(main'),
           sock_fd' # NoFd => files'[sock_fd'] = Listener
    PROVE  OwnerInv'
<1>1. /\ new_fd = NoFd /\ backlog = {}
      /\ \A c \in Clients : thread[c] = "none" /\ fd[c] = NoFd
  BY BeforeLoop DEF Idle
<1>2. Types'
  BY <1>1, FDsAssumption DEF OwnerInv, Types, Table, Heap
<1>3. MainInv' /\ ThreadInv' /\ OpenInv'
  BY <1>1, FDsAssumption DEF MainInv, ThreadInv, OpenInv, Table, Idle
<1>4. HeapInv'
  BY <1>1, ClientsAssumption DEF HeapInv, Heap
<1> QED
  BY <1>2, <1>3, <1>4 DEF OwnerInv

LEMMA ResolveOwner == ASSUME OwnerInv, Resolve PROVE OwnerInv'
<1>1. main = "resolve" /\ Open' = Open
  BY DEF Resolve, MainGoes, Open
<1>2. main \notin Loop /\ sock_fd = NoFd
  BY <1>1 DEF OwnerInv, MainInv, Loop, Listening
<1>3. /\ UNCHANGED <<sock_fd, new_fd, backlog, thread, fd>>
      /\ main' \in {"socket", "exit"} /\ heap' = Heap(main')
  BY <1>1, <1>2, BeforeLoop
  DEF Resolve, MainGoes, Allocates, Heap, KeepOthers, threadVars
<1> QED
  BY <1>1, <1>2, <1>3, BeforeLoop, ReachesLoop
  DEF MainPcs, Listening, Loop

LEMMA OpenSocketOwner == ASSUME OwnerInv, OpenSocket PROVE OwnerInv'
<1>1. main = "socket" /\ main \notin Loop /\ main \notin Listening
  BY DEF OpenSocket, MainGoes, Loop, Listening
<1>2. sock_fd = NoFd /\ Open = {} /\ heap = {"addrinfo"}
  BY <1>1, BeforeLoop DEF OwnerInv, MainInv, Table, Heap
<1>3. UNCHANGED <<new_fd, backlog, thread, fd>>
  BY DEF OpenSocket, KeepOthers, threadVars
<1>4. CASE main' = "reuseaddr"
  <2>1. PICK n \in FDs : sock_fd' = n /\ Opens(n, Listener)
    BY <1>4 DEF OpenSocket, MainGoes
  <2>2. Open' = {sock_fd'} /\ files'[sock_fd'] = Listener
    BY <2>1, <1>2, OpensOne
  <2>3. heap' = Heap(main')
    BY <1>2, <1>4 DEF OpenSocket, MainGoes, Heap
  <2> QED
    BY <1>1, <1>3, <1>4, <2>1, <2>2, <2>3, FDsAssumption, ReachesLoop
    DEF Table, MainPcs, Listening
<1>5. CASE main' = "exit"
  <2>1. /\ UNCHANGED <<sock_fd, files>> /\ heap' = {}
    BY <1>2, <1>5 DEF OpenSocket, MainGoes, Frees
  <2> QED
    BY <1>1, <1>2, <1>3, <1>5, <2>1, ReachesLoop
    DEF Table, Heap, MainPcs, Listening, Loop, Open
<1> QED
  BY <1>4, <1>5 DEF OpenSocket, MainGoes

LEMMA SetReuseaddrOrBindOwner ==
    ASSUME OwnerInv, SetReuseaddr \/ Bind PROVE OwnerInv'
<1>1. /\ main \in {"reuseaddr", "bind"}
      /\ main \notin Loop /\ main \in Listening
  BY DEF SetReuseaddr, Bind, MainGoes, Loop, Listening
<1>2. /\ sock_fd # NoFd /\ sock_fd \in FDs /\ Open = {sock_fd}
      /\ files[sock_fd] = Listener /\ heap = {"addrinfo"}
  BY <1>1, BeforeLoop DEF OwnerInv, MainInv, Table, Heap
<1>3. UNCHANGED <<new_fd, backlog, thread, fd>>
  BY DEF SetReuseaddr, Bind, KeepOthers, threadVars
<1>4. CASE main' \in {"bind", "listen"}
  <2>1. UNCHANGED <<sock_fd, files>> /\ heap' = Heap(main') /\ Open' = Open
    BY <1>2, <1>4
    DEF SetReuseaddr, Bind, MainGoes, Frees, Heap, tableVars, Open
  <2> QED
    BY <1>1, <1>2, <1>3, <1>4, <2>1, ReachesLoop
    DEF Table, MainPcs, Listening, Loop
<1>5. CASE main' = "exit"
  <2>1. GiveUpSocket
    BY <1>5 DEF SetReuseaddr, Bind, MainGoes
  <2>2. sock_fd' = NoFd /\ heap' = {} /\ Open' = {}
    BY <1>2, <2>1, ClosesOne DEF GiveUpSocket, Frees
  <2> QED
    BY <1>1, <1>3, <1>5, <2>2, ReachesLoop
    DEF Table, Heap, MainPcs, Listening, Loop
<1> QED
  BY <1>4, <1>5 DEF SetReuseaddr, Bind, MainGoes

LEMMA ListenOwner == ASSUME OwnerInv, Listen PROVE OwnerInv'
<1>1. main = "listen" /\ main \notin Loop /\ main \in Listening
  BY DEF Listen, MainGoes, Loop, Listening
<1>2. /\ sock_fd # NoFd /\ sock_fd \in FDs /\ Open = {sock_fd}
      /\ files[sock_fd] = Listener /\ heap = {}
  BY <1>1, BeforeLoop DEF OwnerInv, MainInv, Table, Heap
<1>3. UNCHANGED <<new_fd, backlog, thread, fd, heap>>
  BY DEF Listen, KeepOthers, threadVars
<1>4. CASE main' = "accept"
  <2>1. UNCHANGED <<sock_fd, files>> /\ Open' = Open
    BY <1>4 DEF Listen, MainGoes, Open
  <2> QED
    BY <1>1, <1>2, <1>3, <1>4, <2>1, ReachesLoop
    DEF Table, Heap, MainPcs, Listening, Loop
<1>5. CASE main' = "exit"
  <2>1. sock_fd' = NoFd /\ Open' = {}
    BY <1>2, <1>5, ClosesOne DEF Listen, MainGoes
  <2> QED
    BY <1>1, <1>2, <1>3, <1>5, <2>1, ReachesLoop
    DEF Table, Heap, MainPcs, Listening, Loop
<1> QED
  BY <1>4, <1>5 DEF Listen, MainGoes

(***************************************************************************)
(* The accept loop.                                                        *)
(***************************************************************************)
LEMMA Handled ==
    ASSUME OwnerInv, main \in {"malloc", "create"}
    PROVE  /\ new_fd \in Open /\ new_fd # sock_fd /\ new_fd \in FDs
           /\ files[new_fd] \in Clients /\ Idle(files[new_fd])
           /\ files[new_fd] \notin backlog
           /\ sock_fd \in Open /\ files[sock_fd] = Listener
           /\ \A c \in Clients : fd[c] # new_fd
<1>1. /\ new_fd # NoFd /\ sock_fd # NoFd
      /\ new_fd \in Open /\ files[new_fd] \in Clients
      /\ Idle(files[new_fd])
      /\ sock_fd \in Open /\ files[sock_fd] = Listener
  BY DEF OwnerInv, MainInv, Listening, Loop
<1>2. new_fd # sock_fd
  BY <1>1, ClientsAssumption DEF Listener
<1>3. \A c \in Clients : fd[c] # new_fd /\ (c \in backlog => files[new_fd] # c)
  BY <1>1 DEF OwnerInv, ThreadInv, Idle
<1> QED
  BY <1>1, <1>2, <1>3 DEF OwnerInv, Types

LEMMA AcceptOwner ==
    ASSUME OwnerInv, NEW c \in Clients, Accept(c) PROVE OwnerInv'
<1>1. /\ main = "accept" /\ main' = "malloc"
      /\ c \in backlog /\ backlog' = backlog \ {c}
      /\ UNCHANGED <<sock_fd, heap, thread, fd>>
  BY DEF Accept, MainGoes, threadVars
<1>2. PICK n \in FDs \ Open : new_fd' = n /\ Opens(n, c)
  BY DEF Accept
<1>3. /\ new_fd' = n /\ n # NoFd /\ Open' = Open \cup {n}
      /\ files'[n] = c /\ \A f \in Open : f # n /\ files'[f] = files[f]
  BY <1>2, OpensOne, FDsAssumption
<1>4. new_fd = NoFd /\ sock_fd \in Open /\ sock_fd # NoFd
  BY <1>1 DEF OwnerInv, MainInv, Listening, Loop
<1>5. Idle(c)
  BY <1>1 DEF OwnerInv, ThreadInv
<1>6. Types'
  BY <1>1, <1>2, <1>3 DEF OwnerInv, Types, MainPcs, Listening, Loop
<1>7. MainInv'
  BY <1>1, <1>3, <1>4, <1>5
  DEF OwnerInv, MainInv, Idle, Listening, Loop
<1>8. ThreadInv'
  BY <1>1, <1>3 DEF OwnerInv, ThreadInv, Idle, Loop
<1>9. OpenInv' /\ HeapInv'
  BY <1>1, <1>3, <1>4, FDsAssumption DEF OwnerInv, OpenInv, HeapInv, Types
<1> QED
  BY <1>6, <1>7, <1>8, <1>9 DEF OwnerInv

LEMMA MallocOwner == ASSUME OwnerInv, Malloc PROVE OwnerInv'
<1>1. /\ main = "malloc"
      /\ UNCHANGED <<sock_fd, backlog, thread, fd>>
  BY DEF Malloc, MainGoes, KeepOthers, threadVars
<1>2. CASE main' = "create"
  <2>1. /\ UNCHANGED <<new_fd, files>> /\ heap' = heap \cup {files[new_fd]}
        /\ Open' = Open
    BY <1>2 DEF Malloc, MainGoes, Allocates, Open
  <2>2. Types' /\ MainInv' /\ ThreadInv' /\ OpenInv'
    BY <1>1, <1>2, <2>1, Handled
    DEF OwnerInv, Types, MainInv, ThreadInv, OpenInv, Idle, MainPcs,
        Listening, Loop
  <2>3. HeapInv'
    BY <1>1, <1>2, <2>1, Handled, ClientsAssumption DEF OwnerInv, HeapInv
  <2> QED
    BY <2>2, <2>3 DEF OwnerInv
<1>3. CASE main' = "accept"
  <2>1. srv_close_fd(new_fd) /\ new_fd' = NoFd /\ heap' = heap
    BY <1>3 DEF Malloc, MainGoes
  <2>2. /\ Open' = Open \ {new_fd}
        /\ \A f \in Open \ {new_fd} : files'[f] = files[f]
    BY <2>1, ClosesOne
  <2>3. Types' /\ MainInv'
    BY <1>1, <1>3, <2>1, <2>2, Handled
    DEF OwnerInv, Types, MainInv, Idle, MainPcs, Listening, Loop
  <2>4. ThreadInv'
    BY <1>1, <1>3, <2>1, <2>2, Handled DEF OwnerInv, ThreadInv, Idle, Loop
  <2>5. OpenInv' /\ HeapInv'
    BY <1>1, <1>3, <2>1, <2>2 DEF OwnerInv, OpenInv, HeapInv
  <2> QED
    BY <2>3, <2>4, <2>5 DEF OwnerInv
<1> QED
  BY <1>2, <1>3 DEF Malloc, MainGoes

LEMMA CreateThreadOwner == ASSUME OwnerInv, CreateThread PROVE OwnerInv'
<1> DEFINE c == files[new_fd]
<1>1. /\ main = "create" /\ main' = "accept" /\ new_fd' = NoFd
      /\ UNCHANGED <<sock_fd, files, heap, backlog>> /\ Open' = Open
      /\ thread' = [thread EXCEPT ![c] = "start"]
      /\ fd' = [fd EXCEPT ![c] = new_fd]
  BY DEF CreateThread, MainGoes, tableVars, Open
<1> HIDE DEF c
<1>2. /\ new_fd \in Open /\ new_fd \in FDs /\ c \in Clients
      /\ thread[c] = "none" /\ c \notin backlog
  BY <1>1, Handled DEF c, Idle
<1>3. /\ thread \in [Clients -> ThreadPcs] /\ fd \in [Clients -> FDs \cup {NoFd}]
      /\ thread' \in [Clients -> ThreadPcs]
      /\ fd' \in [Clients -> FDs \cup {NoFd}]
  BY <1>1, <1>2 DEF OwnerInv, Types, ThreadPcs
<1>4. /\ thread'[c] = "start" /\ fd'[c] = new_fd
      /\ \A d \in Clients \ {c} : thread'[d] = thread[d] /\ fd'[d] = fd[d]
  BY <1>1, <1>2, <1>3
<1>5. fd[c] = NoFd
  BY <1>2 DEF OwnerInv, ThreadInv, Idle
<1>6. Types' /\ MainInv'
  BY <1>1, <1>3
  DEF OwnerInv, Types, MainInv, MainPcs, Listening, Loop
<1>7. ThreadInv'
  BY <1>1, <1>2, <1>4, FDsAssumption DEF OwnerInv, ThreadInv, Idle, Loop, c
<1>8. OpenInv'
  BY <1>1, <1>2, <1>4, <1>5, FDsAssumption DEF OwnerInv, OpenInv, Types
<1>9. HeapInv'
  BY <1>1, <1>2, <1>4 DEF OwnerInv, HeapInv, c
<1> QED
  BY <1>6, <1>7, <1>8, <1>9 DEF OwnerInv

LEMMA CreateFailsOwner == ASSUME OwnerInv, CreateFails PROVE OwnerInv'
<1>1. /\ main = "create" /\ main' = "accept" /\ new_fd' = NoFd
      /\ UNCHANGED <<sock_fd, backlog, thread, fd>>
      /\ heap' = heap \ {files[new_fd]}
  BY DEF CreateFails, MainGoes, Frees, KeepOthers, threadVars
<1>2. /\ Open' = Open \ {new_fd}
      /\ \A f \in Open \ {new_fd} : files'[f] = files[f]
  BY ClosesOne DEF CreateFails
<1>3. Types' /\ MainInv'
  BY <1>1, <1>2, Handled
  DEF OwnerInv, Types, MainInv, Idle, MainPcs, Listening, Loop
<1>4. ThreadInv'
  BY <1>1, <1>2, Handled DEF OwnerInv, ThreadInv, Idle, Loop
<1>5. OpenInv'
  BY <1>1, <1>2 DEF OwnerInv, OpenInv
<1>6. HeapInv'
  BY <1>1, Handled, ClientsAssumption DEF OwnerInv, HeapInv, Idle
<1> QED
  BY <1>3, <1>4, <1>5, <1>6 DEF OwnerInv

(***************************************************************************)
(* The threads and the clients.                                            *)
(***************************************************************************)
LEMMA StartThreadOwner ==
    ASSUME OwnerInv, NEW c \in Clients, StartThread(c) PROVE OwnerInv'
<1>1. /\ UNCHANGED <<main, sock_fd, new_fd, files, backlog, fd>>
      /\ Open' = Open
      /\ thread[c] = "start" /\ thread' = [thread EXCEPT ![c] = "lenient"]
      /\ heap' = heap \ {c}
  BY DEF StartThread, ThreadGoes, Frees, mainVars, Open
<1>2. /\ thread' \in [Clients -> ThreadPcs] /\ thread'[c] = "lenient"
      /\ \A d \in Clients \ {c} : thread'[d] = thread[d]
  BY <1>1 DEF OwnerInv, Types, ThreadPcs
<1>3. \A d \in Clients : Idle(d)' <=> Idle(d)
  BY <1>1, <1>2 DEF Idle
<1>4. main = "create" => files[new_fd] # c
  BY <1>1, Handled DEF Idle
<1>5. Types' /\ OpenInv'
  BY <1>1, <1>2 DEF OwnerInv, Types, OpenInv
<1>6. MainInv' /\ ThreadInv'
  BY <1>1, <1>3 DEF OwnerInv, MainInv, ThreadInv
<1>7. HeapInv'
  BY <1>1, <1>2, <1>4, ClientsAssumption DEF OwnerInv, HeapInv
<1> QED
  BY <1>5, <1>6, <1>7 DEF OwnerInv

LEMMA RecvOwner ==
    ASSUME OwnerInv, NEW c \in Clients, Recv(c) \/ RecvFails(c)
    PROVE  OwnerInv'
<1>1. /\ UNCHANGED <<mainVars, tableVars, backlog, fd>>
      /\ thread[c] \in {"lenient", "strict"}
      /\ \/ thread' = thread
         \/ \E next \in {"lenient", "strict", "closing"} :
               thread' = [thread EXCEPT ![c] = next]
  BY DEF Recv, RecvFails, Receiving, CallFails, CallReturns
<1> QED
  BY <1>1, OwnerKept DEF OwnerInv, Types, ThreadPcs

LEMMA CloseThreadOwner ==
    ASSUME OwnerInv, NEW c \in Clients, CloseThread(c) PROVE OwnerInv'
<1>1. /\ UNCHANGED <<main, sock_fd, new_fd, heap, backlog>>
      /\ thread[c] = "closing" /\ thread' = [thread EXCEPT ![c] = "none"]
      /\ srv_close_fd(fd[c]) /\ fd' = [fd EXCEPT ![c] = NoFd]
  BY DEF CloseThread, ThreadGoes, mainVars
<1>2. /\ thread' \in [Clients -> ThreadPcs] /\ thread'[c] = "none"
      /\ fd' \in [Clients -> FDs \cup {NoFd}] /\ fd'[c] = NoFd
      /\ \A d \in Clients \ {c} : thread'[d] = thread[d] /\ fd'[d] = fd[d]
  BY <1>1 DEF OwnerInv, Types, ThreadPcs
<1>3. /\ Open' = Open \ {fd[c]}
      /\ \A f \in Open \ {fd[c]} : files'[f] = files[f]
  BY <1>1, ClosesOne
<1>4. /\ main \in Loop /\ c \notin backlog
      /\ fd[c] # NoFd /\ fd[c] \in Open /\ files[fd[c]] = c
  BY <1>1 DEF OwnerInv, ThreadInv, Idle
<1>5. sock_fd # fd[c] /\ new_fd # fd[c]
  BY <1>1, <1>4, ClientsAssumption DEF OwnerInv, MainInv, Idle, Listener
<1>6. \A d \in Clients \ {c} : fd[d] # NoFd => fd[d] # fd[c]
  BY <1>4 DEF OwnerInv, ThreadInv
<1>7. Types'
  BY <1>1, <1>2, <1>3 DEF OwnerInv, Types
<1>8. MainInv'
  BY <1>1, <1>2, <1>3, <1>5 DEF OwnerInv, MainInv, Idle
<1>9. ThreadInv'
  BY <1>1, <1>2, <1>3, <1>4, <1>5, <1>6
  DEF OwnerInv, ThreadInv, MainInv, Idle
<1>10. OpenInv'
  BY <1>1, <1>2, <1>3 DEF OwnerInv, OpenInv
<1>11. HeapInv'
  <2>1. main = "create" => /\ new_fd \in Open \ {fd[c]}
                           /\ files'[new_fd] = files[new_fd]
    BY <1>3, <1>5, Handled
  <2> QED
    BY <1>1, <1>2, <2>1 DEF OwnerInv, HeapInv
<1> QED
  BY <1>7, <1>8, <1>9, <1>10, <1>11 DEF OwnerInv

LEMMA ConnectOwner ==
    ASSUME OwnerInv, NEW c \in Clients, Connect(c) PROVE OwnerInv'
<1>1. /\ UNCHANGED <<main, sock_fd, new_fd, files, heap, thread, fd>>
      /\ Open' = Open /\ main \in Loop
      /\ \A f \in Open : files[f] # c
      /\ backlog' = backlog \cup {c}
  BY DEF Connect, mainVars, tableVars, threadVars, Open, Loop
<1>2. Idle(c) /\ (new_fd # NoFd => files[new_fd] # c)
  BY <1>1 DEF OwnerInv, MainInv, ThreadInv
<1>3. Types' /\ MainInv' /\ OpenInv' /\ HeapInv'
  BY <1>1 DEF OwnerInv, Types, MainInv, OpenInv, HeapInv, Idle
<1>4. ThreadInv'
  BY <1>1, <1>2 DEF OwnerInv, ThreadInv, Idle
<1> QED
  BY <1>3, <1>4 DEF OwnerInv

LEMMA OwnerStep == OwnerInv /\ [Next]_vars => OwnerInv'
<1> SUFFICES ASSUME OwnerInv, [Next]_vars PROVE OwnerInv'
  OBVIOUS
<1>1. CASE UNCHANGED vars
  BY <1>1, OwnerKept DEF vars, threadVars, OwnerInv, Types
<1>2. CASE Resolve \/ OpenSocket \/ SetReuseaddr \/ Bind \/ Listen
  BY <1>2, ResolveOwner, OpenSocketOwner, SetReuseaddrOrBindOwner, ListenOwner
<1>3. CASE AcceptFails
  BY <1>3, OwnerKept
  DEF AcceptFails, KeepOthers, threadVars, OwnerInv, Types
<1>4. CASE Malloc \/ CreateThread \/ CreateFails
  BY <1>4, MallocOwner, CreateThreadOwner, CreateFailsOwner
<1>5. ASSUME NEW c \in Clients, Connect(c) \/ Accept(c) PROVE OwnerInv'
  BY <1>5, ConnectOwner, AcceptOwner
<1>6. ASSUME NEW c \in Clients, Say(c) PROVE OwnerInv'
  BY <1>6, OwnerKept DEF Say, threadVars, OwnerInv, Types
<1>7. ASSUME NEW c \in Clients,
             StartThread(c) \/ Recv(c) \/ RecvFails(c) \/ CloseThread(c)
      PROVE  OwnerInv'
  BY <1>7, StartThreadOwner, RecvOwner, CloseThreadOwner
<1> QED
  BY <1>1, <1>2, <1>3, <1>4, <1>5, <1>6, <1>7 DEF Next

LEMMA OwnerImplies == OwnerInv => OneOwner
<1> SUFFICES ASSUME OwnerInv PROVE OneOwner
  OBVIOUS
<1>1. /\ Number("sock_fd") = sock_fd /\ Number("new_fd") = new_fd
      /\ \A c \in Clients : Number(c) = fd[c]
  BY ClientsAssumption DEF Number
<1>2. \A k \in Keepers :
         k = "sock_fd" \/ k = "new_fd" \/ k \in Clients
  BY DEF Keepers
<1>3. \A f \in Open : \E k \in Keepers : Number(k) = f
  BY <1>1 DEF OwnerInv, OpenInv, Keepers
<1>4. /\ sock_fd # NoFd => sock_fd \in Open /\ files[sock_fd] = Listener
      /\ new_fd # NoFd => /\ new_fd \in Open /\ files[new_fd] \in Clients
                          /\ fd[files[new_fd]] = NoFd
      /\ \A c \in Clients : fd[c] # NoFd => fd[c] \in Open /\ files[fd[c]] = c
  BY DEF OwnerInv, MainInv, ThreadInv
<1>5. \A k \in Keepers : Number(k) \in Open \cup {NoFd}
  BY <1>1, <1>2, <1>4
<1>6. \A j, k \in Keepers : Number(j) = Number(k) => j = k \/ Number(k) = NoFd
  BY <1>1, <1>2, <1>4, ClientsAssumption DEF Listener
<1>7. heap \ {"addrinfo"} =
         {c \in Clients : \/ thread[c] = "start"
                          \/ main = "create" /\ files[new_fd] = c}
  BY ClientsAssumption DEF OwnerInv, Types, HeapInv
<1> QED
  BY <1>3, <1>4, <1>5, <1>6, <1>7 DEF OneOwner, OwnerInv, HeapInv

\* Every descriptor of the server has exactly one owner and every block is freed
\* by whoever has it last, on every path through main and the client threads
\* (server/src/main.c:61), with any number of clients and of descriptors.
THEOREM OneOwnerAlways == Spec => []OneOwner
<1>1. Spec => []OwnerInv
  BY OwnerInit, OwnerStep, PTL DEF Spec
<1> QED
  BY <1>1, OwnerImplies, PTL

(***************************************************************************)
(* Places in what a client says.                                           *)
(***************************************************************************)
Valid(i, k) ==
    /\ i \in 1..(Len(Talk) + 1) /\ k \in 1..3
    /\ IF i <= Len(Talk) THEN k <= Size(Talk, i) ELSE k = 1

IsPlace(c, u) ==
    \E i \in 1..(Len(Talk) + 1), k \in 1..3 : Valid(i, k) /\ u = Unit(c, i, k)

NotAfter(u, v) ==
    u.packet < v.packet \/ (u.packet = v.packet /\ u.part <= v.part)

LEMMA AfterIsNext ==
    ASSUME NEW c, NEW i \in 1..Len(Talk), NEW k \in 1..3, Valid(i, k)
    PROVE  /\ k < Size(Talk, i) => /\ Valid(i, k + 1)
                                  /\ After(Talk, Unit(c, i, k)) = Unit(c, i, k + 1)
           /\ k = Size(Talk, i) => /\ Valid(i + 1, 1)
                                  /\ After(Talk, Unit(c, i, k)) = Unit(c, i + 1, 1)
<1>1. Len(Talk) \in Nat
  BY TalkAssumption
<1>2. \A j : Size(Talk, j) \in 2..3
  BY DEF Size
<1> QED
  BY <1>1, <1>2 DEF Valid, After, Unit

\* A place that is not past another is there, or its successor is not past it.
LEMMA Catching ==
    ASSUME NEW c, NEW u, NEW v,
           IsPlace(c, u), IsPlace(c, v), NotAfter(u, v), u # v
    PROVE  u.packet \in 1..Len(Talk) /\ NotAfter(After(Talk, u), v)
<1>1. PICK i \in 1..(Len(Talk) + 1), k \in 1..3 : Valid(i, k) /\ u = Unit(c, i, k)
  BY DEF IsPlace
<1>2. PICK m \in 1..(Len(Talk) + 1), n \in 1..3 : Valid(m, n) /\ v = Unit(c, m, n)
  BY DEF IsPlace
<1>3. Len(Talk) \in Nat
  BY TalkAssumption
<1>4. i < m \/ (i = m /\ k < n)
  BY <1>1, <1>2 DEF NotAfter, Unit
<1>5. i \in 1..Len(Talk)
  BY <1>1, <1>2, <1>3, <1>4 DEF Valid
<1>6. Size(Talk, i) \in 2..3 /\ k <= Size(Talk, i)
  BY <1>1, <1>3, <1>5 DEF Size, Valid
<1>7. CASE k < Size(Talk, i)
  <2>1. After(Talk, u) = Unit(c, i, k + 1)
    BY <1>1, <1>5, <1>7, AfterIsNext
  <2> QED
    BY <1>1, <1>2, <1>4, <1>5, <1>7, <2>1 DEF NotAfter, Unit
<1>8. CASE k = Size(Talk, i)
  <2>1. After(Talk, u) = Unit(c, i + 1, 1)
    BY <1>1, <1>5, <1>8, AfterIsNext
  <2>2. i < m
    BY <1>2, <1>3, <1>4, <1>5, <1>6, <1>8 DEF Valid
  <2> QED
    BY <1>1, <1>2, <1>3, <1>5, <2>1, <2>2 DEF NotAfter, Unit
<1> QED
  BY <1>1, <1>5, <1>6, <1>7, <1>8 DEF Unit

LEMMA AfterIsPlace ==
    ASSUME NEW c, NEW u, IsPlace(c, u), u.packet \in 1..Len(Talk)
    PROVE  IsPlace(c, After(Talk, u)) /\ NotAfter(u, After(Talk, u))
<1>1. PICK i \in 1..(Len(Talk) + 1), k \in 1..3 : Valid(i, k) /\ u = Unit(c, i, k)
  BY DEF IsPlace
<1>2. Len(Talk) \in Nat
  BY TalkAssumption
<1>3. i \in 1..Len(Talk)
  BY <1>1 DEF Unit
<1>4. Size(Talk, i) \in 2..3 /\ k <= Size(Talk, i)
  BY <1>1, <1>2, <1>3 DEF Size, Valid
<1>5. CASE k < Size(Talk, i)
  <2>1. After(Talk, u) = Unit(c, i, k + 1) /\ Valid(i, k + 1)
    BY <1>1, <1>3, <1>5, AfterIsNext
  <2>2. IsPlace(c, After(Talk, u))
    BY <1>2, <1>3, <1>4, <1>5, <2>1 DEF IsPlace
  <2> QED
    BY <1>1, <1>2, <2>1, <2>2 DEF NotAfter, Unit
<1>6. CASE k = Size(Talk, i)
  <2>1. After(Talk, u) = Unit(c, i + 1, 1) /\ Valid(i + 1, 1)
    BY <1>1, <1>3, <1>6, AfterIsNext
  <2>2. IsPlace(c, After(Talk, u))
    BY <1>2, <1>3, <2>1 DEF IsPlace
  <2> QED
    BY <1>1, <1>2, <2>1, <2>2 DEF NotAfter, Unit
<1> QED
  BY <1>4, <1>5, <1>6

(***************************************************************************)
(* The second part: where the reader of a stream is in it.                 *)
(***************************************************************************)
Units(c, i, j) == [k \in 1..j |-> Unit(c, i, k)]
Packets(c, n)  == [i \in 1..n |-> Packet(c, Talk, i)]

\* What has been read is n packets and j units of the next one.
InStep(c) ==
    \E n \in Nat, j \in 0..2 :
        /\ taken[c] = Packets(c, n)
        /\ buf[c] = Units(c, n + 1, j)
        /\ heard[c] = Unit(c, n + 1, j + 1)

\* It is in the middle of a packet whose beginning it has not got.
Astray(c) ==
    \/ buf[c] = <<>> /\ heard[c].part # 1
    \/ \E u : IsPlace(c, u) /\ u.part # 1 /\ buf[c] = <<u>>

Waits(c) == c \in backlog \/ (new_fd # NoFd /\ files[new_fd] = c)
Fresh(c) == thread[c] \in {"start", "lenient"} \/ Waits(c)

StreamOf(c) ==
    /\ IsPlace(c, said[c]) /\ IsPlace(c, heard[c]) /\ NotAfter(heard[c], said[c])
    /\ \E n \in Nat : taken[c] = Packets(c, n)
    /\ ~ Receiving(c) => buf[c] = <<>>
    /\ Fresh(c) => InStep(c)
    /\ thread[c] = "strict" => InStep(c) \/ Astray(c)

Domains ==
    /\ DOMAIN said = Clients /\ DOMAIN heard = Clients
    /\ DOMAIN buf = Clients /\ DOMAIN taken = Clients

StreamInv == Domains /\ \A c \in Clients : StreamOf(c)

LEMMA PacketsGrow ==
    ASSUME NEW c, NEW n \in Nat
    PROVE  Append(Packets(c, n), Packet(c, Talk, n + 1)) = Packets(c, n + 1)
  BY DEF Packets

LEMMA UnitsGrow ==
    ASSUME NEW c, NEW i, NEW j \in Nat
    PROVE  Append(Units(c, i, j), Unit(c, i, j + 1)) = Units(c, i, j + 1)
  BY DEF Units

LEMMA AppendTwo ==
    ASSUME NEW u, NEW v
    PROVE  Len(Append(<<u>>, v)) = 2 /\ Append(<<u>>, v)[1] = u
  OBVIOUS

LEMMA StartInStep ==
    ASSUME NEW c, taken[c] = <<>>, buf[c] = <<>>, heard[c] = Start(c)
    PROVE  InStep(c)
  BY DEF InStep, Packets, Units, Start

LEMMA StartIsPlace == \A c : IsPlace(c, Start(c)) /\ NotAfter(Start(c), Start(c))
<1>1. Len(Talk) \in Nat /\ \A i : Size(Talk, i) \in 2..3
  BY TalkAssumption DEF Size
<1>2. Valid(1, 1)
  BY <1>1 DEF Valid
<1> QED
  BY <1>1, <1>2 DEF IsPlace, Start, NotAfter, Unit

LEMMA StreamInit == Init => StreamInv
<1> SUFFICES ASSUME Init PROVE StreamInv
  OBVIOUS
<1>1. Domains
  BY DEF Init, Domains
<1>2. ASSUME NEW c \in Clients PROVE StreamOf(c)
  <2>1. /\ taken[c] = <<>> /\ buf[c] = <<>> /\ thread[c] = "none"
        /\ said[c] = Start(c) /\ heard[c] = Start(c)
    BY DEF Init
  <2>2. <<>> = Packets(c, 0)
    BY DEF Packets
  <2> QED
    BY <2>1, <2>2, StartInStep, StartIsPlace DEF StreamOf
<1> QED
  BY <1>1, <1>2 DEF StreamInv

\* Nothing was read and nothing said, and the client is not the more awaited.
LEMMA StreamKept ==
    ASSUME NEW c \in Clients, StreamOf(c),
           said'[c] = said[c], heard'[c] = heard[c],
           buf'[c] = buf[c], taken'[c] = taken[c],
           Receiving(c) => Receiving(c)', Fresh(c)' => Fresh(c),
           thread'[c] = "strict" => thread[c] = "strict"
    PROVE  StreamOf(c)'
<1>1. InStep(c)' <=> InStep(c)
  BY DEF InStep
<1>2. Astray(c) => Astray(c)'
  BY DEF Astray, IsPlace
<1>3. IsPlace(c, said[c])' /\ IsPlace(c, heard[c])' /\ NotAfter(heard[c], said[c])'
  BY DEF StreamOf, IsPlace, NotAfter
<1> QED
  BY <1>1, <1>2, <1>3 DEF StreamOf

(***************************************************************************)
(* The steps of main and of the threads between the calls that read.       *)
(***************************************************************************)
LEMMA StreamElsewhere ==
    ASSUME StreamInv, UNCHANGED <<said, heard, buf, taken>>,
           \A c \in Clients : /\ Receiving(c) => Receiving(c)'
                              /\ Fresh(c)' => Fresh(c)
                              /\ thread'[c] = "strict" => thread[c] = "strict"
    PROVE  StreamInv'
<1>1. ASSUME NEW c \in Clients PROVE StreamOf(c)'
  BY StreamKept DEF StreamInv
<1> QED
  BY <1>1 DEF StreamInv, Domains

LEMMA StreamStarting ==
    ASSUME OwnerInv, StreamInv,
           Resolve \/ OpenSocket \/ SetReuseaddr \/ Bind \/ Listen
    PROVE  StreamInv'
<1>1. main \notin Loop
  BY DEF Resolve, OpenSocket, SetReuseaddr, Bind, Listen, MainGoes, Loop
<1>2. UNCHANGED <<new_fd, backlog, thread, said, heard, buf, taken>>
  BY DEF Resolve, OpenSocket, SetReuseaddr, Bind, Listen, KeepOthers,
         threadVars, streamVars
<1>3. \A c \in Clients : Fresh(c)' => Fresh(c)
  BY <1>1, <1>2, BeforeLoop DEF Fresh, Waits
<1> QED
  BY <1>2, <1>3, StreamElsewhere DEF Receiving

LEMMA StreamAccepting ==
    ASSUME OwnerInv, StreamInv,
           \/ Malloc \/ CreateThread \/ CreateFails
           \/ \E c \in Clients : Accept(c)
    PROVE  StreamInv'
<1>1. UNCHANGED <<said, heard, buf, taken>>
  BY DEF Malloc, CreateThread, CreateFails, Accept, KeepOthers,
         threadVars, streamVars
<1>2. CASE \E c \in Clients : Accept(c)
  <2>1. PICK c \in Clients : Accept(c)
    BY <1>2
  <2>2. PICK n \in FDs \ Open : new_fd' = n /\ Opens(n, c)
    BY <2>1 DEF Accept
  <2>3. files'[new_fd'] = c /\ c \in backlog /\ backlog' = backlog \ {c}
    BY <2>1, <2>2, OpensOne DEF Accept
  <2>4. thread' = thread
    BY <2>1 DEF Accept, threadVars
  <2> QED
    BY <1>1, <2>3, <2>4, StreamElsewhere DEF Fresh, Waits, Receiving
<1>3. CASE Malloc
  BY <1>1, <1>3, StreamElsewhere
  DEF Malloc, MainGoes, KeepOthers, threadVars, Fresh, Waits, Receiving
<1>4. CASE CreateFails
  BY <1>1, <1>4, StreamElsewhere
  DEF CreateFails, KeepOthers, threadVars, Fresh, Waits, Receiving
<1>5. CASE CreateThread
  <2> DEFINE c == files[new_fd]
  <2>1. /\ main = "create" /\ new_fd' = NoFd /\ UNCHANGED backlog
        /\ thread' = [thread EXCEPT ![c] = "start"]
    BY <1>5 DEF CreateThread, MainGoes
  <2>2. c \in Clients /\ thread[c] = "none"
    BY <2>1, Handled DEF Idle
  <2>3. Waits(c)
    BY <2>1 DEF Waits, OwnerInv, MainInv
  <2> HIDE DEF c
  <2>4. \A d \in Clients \ {c} : thread'[d] = thread[d]
    BY <2>1 DEF OwnerInv, Types
  <2>5. thread'[c] = "start"
    BY <2>1, <2>2 DEF OwnerInv, Types
  <2>6. \A d \in Clients : Fresh(d)' => Fresh(d)
    BY <2>1, <2>3, <2>4 DEF Fresh, Waits
  <2> QED
    BY <1>1, <2>2, <2>4, <2>5, <2>6, StreamElsewhere DEF Receiving
<1> QED
  BY <1>2, <1>3, <1>4, <1>5

LEMMA StreamOfThread ==
    ASSUME OwnerInv, StreamInv, NEW c \in Clients,
           StartThread(c) \/ CloseThread(c)
    PROVE  StreamInv'
<1>1. UNCHANGED <<said, heard, buf, taken>>
  BY DEF StartThread, CloseThread, streamVars
<1>2. CASE StartThread(c)
  <2>1. /\ thread[c] = "start" /\ thread' = [thread EXCEPT ![c] = "lenient"]
        /\ UNCHANGED <<new_fd, files, backlog>>
    BY <1>2 DEF StartThread, ThreadGoes, mainVars
  <2>2. \A d \in Clients : thread'[d] # thread[d] =>
            d = c /\ thread'[d] = "lenient"
    BY <2>1 DEF OwnerInv, Types
  <2> QED
    BY <1>1, <2>1, <2>2, StreamElsewhere DEF Fresh, Waits, Receiving
<1>3. CASE CloseThread(c)
  <2>1. /\ thread[c] = "closing" /\ thread' = [thread EXCEPT ![c] = "none"]
        /\ UNCHANGED <<new_fd, backlog>> /\ srv_close_fd(fd[c])
    BY <1>3 DEF CloseThread, ThreadGoes, mainVars
  <2>2. \A d \in Clients : thread'[d] # thread[d] => d = c /\ thread'[d] = "none"
    BY <2>1 DEF OwnerInv, Types
  <2>3. new_fd # NoFd => files'[new_fd] = files[new_fd]
    BY <2>1, ClosesOne DEF OwnerInv, MainInv, ThreadInv, Idle
  <2> QED
    BY <1>1, <2>1, <2>2, <2>3, StreamElsewhere DEF Fresh, Waits, Receiving
<1> QED
  BY <1>2, <1>3

(***************************************************************************)
(* A client connects, speaks, and is read.                                 *)
(***************************************************************************)
LEMMA StreamConnect ==
    ASSUME OwnerInv, StreamInv, NEW c \in Clients, Connect(c)
    PROVE  StreamInv'
<1>1. /\ said' = [said EXCEPT ![c] = Start(c)]
      /\ heard' = [heard EXCEPT ![c] = Start(c)]
      /\ taken' = [taken EXCEPT ![c] = <<>>]
      /\ UNCHANGED <<main, new_fd, files, thread, fd, buf>>
      /\ backlog' = backlog \cup {c}
  BY DEF Connect, mainVars, tableVars, threadVars
<1>2. thread[c] = "none"
  <2>1. \A f \in Open : files[f] # c
    BY DEF Connect
  <2> QED
    BY <2>1 DEF OwnerInv, ThreadInv, Idle
<1>3. StreamOf(c)'
  <2>1. /\ taken'[c] = <<>> /\ heard'[c] = Start(c) /\ said'[c] = Start(c)
        /\ buf'[c] = <<>>
    BY <1>1, <1>2 DEF StreamInv, StreamOf, Domains, Receiving
  <2>2. InStep(c)'
    BY <2>1 DEF InStep, Packets, Units, Start
  <2>3. \E n \in Nat : taken'[c] = Packets(c, n)
    BY <2>2 DEF InStep
  <2>4. IsPlace(c, said[c])' /\ IsPlace(c, heard[c])' /\ NotAfter(heard[c], said[c])'
    BY <2>1, StartIsPlace DEF IsPlace, NotAfter
  <2> QED
    BY <1>1, <1>2, <2>1, <2>2, <2>3, <2>4 DEF StreamOf
<1>4. ASSUME NEW d \in Clients \ {c} PROVE StreamOf(d)'
  BY <1>1, StreamKept DEF StreamInv, Domains, Receiving, Fresh, Waits
<1> QED
  BY <1>1, <1>3, <1>4 DEF StreamInv, Domains

LEMMA StreamSay ==
    ASSUME StreamInv, NEW c \in Clients, Say(c) PROVE StreamInv'
<1>1. /\ said' = [said EXCEPT ![c] = After(Talk, said[c])]
      /\ said[c].packet \in 1..Len(Talk)
      /\ UNCHANGED <<new_fd, files, backlog, thread, heard, buf, taken>>
  BY TalkAssumption DEF Say, mainVars, tableVars, threadVars
<1>2. StreamOf(c)'
  <2>1. said'[c] = After(Talk, said[c])
    BY <1>1 DEF StreamInv, Domains
  <2>2. /\ IsPlace(c, After(Talk, said[c])) /\ NotAfter(said[c], After(Talk, said[c]))
        /\ IsPlace(c, said[c]) /\ IsPlace(c, heard[c])
        /\ NotAfter(heard[c], said[c])
    BY <1>1, AfterIsPlace DEF StreamInv, StreamOf
  <2>3. NotAfter(heard[c], After(Talk, said[c]))
    BY <2>2, TalkAssumption DEF IsPlace, NotAfter, Unit
  <2>4. IsPlace(c, said[c])' /\ IsPlace(c, heard[c])' /\ NotAfter(heard[c], said[c])'
    BY <1>1, <2>1, <2>2, <2>3 DEF IsPlace, NotAfter
  <2>5. /\ InStep(c)' <=> InStep(c)
        /\ Astray(c)' <=> Astray(c)
        /\ Fresh(c)' <=> Fresh(c)
    BY <1>1 DEF InStep, Astray, Fresh, Waits, IsPlace
  <2> QED
    BY <1>1, <2>4, <2>5 DEF StreamInv, StreamOf, Receiving
<1>3. ASSUME NEW d \in Clients \ {c} PROVE StreamOf(d)'
  BY <1>1, StreamKept DEF StreamInv, Domains, Receiving, Fresh, Waits
<1> QED
  BY <1>1, <1>2, <1>3 DEF StreamInv, Domains

LEMMA Reader ==
    ASSUME OwnerInv, NEW c \in Clients, Receiving(c)
    PROVE  /\ Peer(c) = c /\ ~ Waits(c)
           /\ Fresh(c) <=> thread[c] = "lenient"
<1>1. /\ fd[c] # NoFd /\ files[fd[c]] = c /\ c \notin backlog
  BY DEF OwnerInv, ThreadInv, Idle, Receiving
<1>2. new_fd # NoFd => files[new_fd] # c
  BY DEF OwnerInv, MainInv, Idle, Receiving
<1> QED
  BY <1>1, <1>2 DEF Peer, Waits, Fresh, Receiving

\* A thread that is in step and reads on is in step.
LEMMA ReadInStep ==
    ASSUME OwnerInv, StreamInv, NEW c \in Clients, Recv(c), InStep(c)
    PROVE  InStep(c)' /\ (~ Receiving(c)' => buf'[c] = <<>>)
                      /\ (thread[c]' = "lenient" => Fresh(c)')
<1>1. Peer(c) = c
  BY Reader DEF Recv
<1>2. /\ heard[c] # said[c]
      /\ heard' = [heard EXCEPT ![c] = After(Talk, heard[c])]
  BY <1>1 DEF Recv
<1>3. PICK n \in Nat, j \in 0..2 : /\ taken[c] = Packets(c, n)
                                 /\ buf[c] = Units(c, n + 1, j)
                                 /\ heard[c] = Unit(c, n + 1, j + 1)
  BY DEF InStep
<1>4. n + 1 \in 1..Len(Talk) /\ Valid(n + 1, j + 1)
  <2>1. heard[c].packet \in 1..Len(Talk)
    BY <1>2, Catching DEF StreamInv, StreamOf
  <2>2. PICK i \in 1..(Len(Talk) + 1), k \in 1..3 :
          Valid(i, k) /\ heard[c] = Unit(c, i, k)
    BY DEF StreamInv, StreamOf, IsPlace
  <2> QED
    BY <1>3, <2>1, <2>2 DEF Unit
<1> DEFINE got == Append(buf[c], heard[c])
<1>5. got = Units(c, n + 1, j + 1)
  BY <1>3, UnitsGrow
<1>6. /\ heard'[c] = After(Talk, heard[c])
      /\ DOMAIN buf = Clients /\ DOMAIN taken = Clients
  BY <1>2 DEF StreamInv, Domains
<1>7. /\ Len(got) = j + 1 /\ got[1] = Unit(c, n + 1, 1)
      /\ j >= 1 => got[2] = Unit(c, n + 1, 2)
  BY <1>5 DEF Units
<1>8. Size(Talk, n + 1) \in 2..3 /\ j + 1 <= Size(Talk, n + 1)
  BY <1>4, TalkAssumption DEF Size, Valid
<1>9. ~ Refused(got)
  BY <1>7 DEF Refused, MagicMatches, Unit
<1>10. Complete(Talk, got) <=> j + 1 = Size(Talk, n + 1)
  <2>1. CASE j = 0
    BY <1>7, <1>8, <2>1 DEF Complete
  <2>2. CASE j >= 1
    BY <1>7, <1>8, <2>2 DEF Complete, MagicMatches, Announced, Unit
  <2> QED
    BY <2>1, <2>2
<1> HIDE DEF got
<1>11. CASE Complete(Talk, got)
  <2>1. /\ buf'[c] = <<>> /\ taken'[c] = Append(taken[c], got)
    BY <1>1, <1>6, <1>9, <1>11 DEF Recv, CallReturns, got
  <2>2. got = Packet(c, Talk, n + 1)
    BY <1>5, <1>10, <1>11 DEF Units, Packet
  <2>3. taken'[c] = Packets(c, n + 1)
    BY <1>3, <2>1, <2>2, PacketsGrow
  <2>4. heard'[c] = Unit(c, n + 2, 1)
    BY <1>3, <1>4, <1>6, <1>10, <1>11, AfterIsNext
  <2>5. buf'[c] = Units(c, n + 2, 0)
    BY <2>1 DEF Units
  <2> QED
    BY <2>1, <2>3, <2>4, <2>5 DEF InStep, Fresh
<1>12. CASE ~ Complete(Talk, got)
  <2>1. buf'[c] = got /\ UNCHANGED <<thread, taken>>
    BY <1>1, <1>6, <1>9, <1>12 DEF Recv, got
  <2>2. heard'[c] = Unit(c, n + 1, j + 2)
    BY <1>3, <1>4, <1>6, <1>8, <1>10, <1>12, AfterIsNext
  <2>3. j + 1 \in 0..2
    BY <1>8, <1>10, <1>12
  <2>4. Receiving(c)'
    BY <2>1 DEF Recv, Receiving
  <2> QED
    BY <1>3, <1>5, <2>1, <2>2, <2>3, <2>4 DEF InStep, Fresh
<1> QED
  BY <1>11, <1>12

\* A thread that is astray is refused at its second unit, and ends.
LEMMA ReadAstray ==
    ASSUME OwnerInv, StreamInv, NEW c \in Clients, Recv(c), Astray(c),
           thread[c] = "strict"
    PROVE  /\ taken'[c] = taken[c]
           /\ \/ thread'[c] = "strict" /\ Astray(c)'
              \/ thread'[c] = "closing" /\ buf'[c] = <<>>
<1>1. Peer(c) = c
  BY Reader DEF Recv
<1>2. DOMAIN buf = Clients /\ thread \in [Clients -> ThreadPcs]
  BY DEF StreamInv, Domains, OwnerInv, Types
<1> DEFINE got == Append(buf[c], heard[c])
<1>3. \/ /\ Refused(got) /\ CallFails(c)
      \/ /\ Complete(Talk, got) /\ CallReturns(c, got)
      \/ /\ ~ Refused(got) /\ ~ Complete(Talk, got)
         /\ buf' = [buf EXCEPT ![c] = got]
         /\ UNCHANGED <<thread, taken>>
  BY <1>1 DEF Recv
<1>4. CASE buf[c] = <<>> /\ heard[c].part # 1
  <2>1. got = <<heard[c]>> /\ Len(got) = 1
    BY <1>4
  <2>2. ~ Refused(got) /\ ~ Complete(Talk, got)
    BY <2>1 DEF Refused, Complete
  <2>3. buf'[c] = <<heard[c]>> /\ UNCHANGED <<thread, taken>>
    BY <1>2, <1>3, <2>1, <2>2
  <2>4. IsPlace(c, heard[c])
    BY DEF StreamInv, StreamOf
  <2> QED
    BY <1>4, <2>3, <2>4 DEF Astray, IsPlace
<1>5. CASE \E u : IsPlace(c, u) /\ u.part # 1 /\ buf[c] = <<u>>
  <2>1. PICK u : IsPlace(c, u) /\ u.part # 1 /\ buf[c] = <<u>>
    BY <1>5
  <2>2. Len(got) = 2 /\ got[1] = u
    BY <2>1, AppendTwo
  <2>3. Refused(got) /\ ~ Complete(Talk, got)
    BY <2>1, <2>2 DEF Refused, Complete, MagicMatches
  <2> QED
    BY <1>2, <1>3, <2>3 DEF CallFails
<1> QED
  BY <1>4, <1>5 DEF Astray

LEMMA StreamRecv ==
    ASSUME OwnerInv, StreamInv, NEW c \in Clients, Recv(c)
    PROVE  StreamInv'
<1>1. Peer(c) = c /\ Receiving(c) /\ ~ Waits(c)
  BY Reader DEF Recv
<1>2. /\ heard[c] # said[c] /\ said' = said
      /\ heard' = [heard EXCEPT ![c] = After(Talk, heard[c])]
      /\ UNCHANGED <<new_fd, files, backlog>>
  BY <1>1 DEF Recv, mainVars, tableVars
<1>3. /\ DOMAIN buf' = Clients /\ DOMAIN taken' = Clients
      /\ \A d \in Clients \ {c} : /\ buf'[d] = buf[d] /\ taken'[d] = taken[d]
                                 /\ thread'[d] = thread[d]
  BY DEF Recv, CallFails, CallReturns, StreamInv, Domains, OwnerInv, Types
<1>4. ~ Waits(c)'
  BY <1>1, <1>2 DEF Waits
<1>5. IsPlace(c, said[c])' /\ IsPlace(c, heard[c])' /\ NotAfter(heard[c], said[c])'
  <2>1. /\ heard[c].packet \in 1..Len(Talk)
        /\ NotAfter(After(Talk, heard[c]), said[c])
    BY <1>2, Catching DEF StreamInv, StreamOf
  <2>2. IsPlace(c, After(Talk, heard[c]))
    BY <2>1, AfterIsPlace DEF StreamInv, StreamOf
  <2>3. heard'[c] = After(Talk, heard[c]) /\ said'[c] = said[c]
    BY <1>2 DEF StreamInv, Domains
  <2> QED
    BY <2>1, <2>2, <2>3 DEF StreamInv, StreamOf, IsPlace, NotAfter
<1>6. StreamOf(c)'
  <2>1. CASE InStep(c)
    <3>1. InStep(c)' /\ (~ Receiving(c)' => buf'[c] = <<>>)
      BY <2>1, ReadInStep
    <3>2. \E n \in Nat : taken'[c] = Packets(c, n)
      BY <3>1 DEF InStep
    <3> QED
      BY <1>5, <3>1, <3>2 DEF StreamOf
  <2>2. CASE ~ InStep(c)
    <3>1. thread[c] = "strict" /\ Astray(c)
      BY <1>1, <2>2 DEF StreamInv, StreamOf, Fresh, Receiving
    <3>2. /\ taken'[c] = taken[c]
          /\ \/ thread'[c] = "strict" /\ Astray(c)'
             \/ thread'[c] = "closing" /\ buf'[c] = <<>>
      BY <3>1, ReadAstray
    <3>3. ~ Fresh(c)'
      BY <1>4, <3>2 DEF Fresh
    <3> QED
      BY <1>5, <3>2, <3>3 DEF StreamInv, StreamOf, Receiving
  <2> QED
    BY <2>1, <2>2
<1>7. ASSUME NEW d \in Clients \ {c} PROVE StreamOf(d)'
  BY <1>2, <1>3, StreamKept DEF StreamInv, Domains, Receiving, Fresh, Waits
<1> QED
  BY <1>2, <1>3, <1>6, <1>7 DEF StreamInv, Domains

LEMMA StreamRecvFails ==
    ASSUME OwnerInv, StreamInv, NEW c \in Clients, RecvFails(c)
    PROVE  StreamInv'
<1>1. Receiving(c) /\ ~ Waits(c) /\ (Fresh(c) <=> thread[c] = "lenient")
  BY Reader DEF RecvFails
<1>2. /\ UNCHANGED <<said, heard, taken, new_fd, files, backlog>>
      /\ buf' = [buf EXCEPT ![c] = <<>>]
      /\ thread' = [thread EXCEPT ![c] =
                      IF @ = "lenient" THEN "strict" ELSE "closing"]
  BY DEF RecvFails, CallFails, mainVars, tableVars
<1>3. /\ buf'[c] = <<>>
      /\ thread'[c] = IF thread[c] = "lenient" THEN "strict" ELSE "closing"
      /\ \A d \in Clients \ {c} : buf'[d] = buf[d] /\ thread'[d] = thread[d]
  BY <1>2 DEF StreamInv, Domains, OwnerInv, Types
<1>4. IsPlace(c, said[c])' /\ IsPlace(c, heard[c])' /\ NotAfter(heard[c], said[c])'
  BY <1>2 DEF StreamInv, StreamOf, IsPlace, NotAfter
<1>5. ~ Fresh(c)'
  BY <1>1, <1>2, <1>3 DEF Fresh, Waits
<1>6. thread'[c] = "strict" => InStep(c)' \/ Astray(c)'
  <2>1. SUFFICES ASSUME thread[c] = "lenient" PROVE InStep(c)' \/ Astray(c)'
    BY <1>3
  <2>2. PICK n \in Nat, j \in 0..2 : /\ taken[c] = Packets(c, n)
                                   /\ buf[c] = Units(c, n + 1, j)
                                   /\ heard[c] = Unit(c, n + 1, j + 1)
    BY <1>1, <2>1 DEF StreamInv, StreamOf, InStep
  <2>3. CASE j = 0
    <3>1. buf'[c] = Units(c, n + 1, 0)
      BY <1>3 DEF Units
    <3> QED
      BY <1>2, <2>2, <2>3, <3>1 DEF InStep
  <2>4. CASE j # 0
    BY <1>2, <1>3, <2>2, <2>4 DEF Astray, Unit
  <2> QED
    BY <2>3, <2>4
<1>7. StreamOf(c)'
  BY <1>2, <1>3, <1>4, <1>5, <1>6 DEF StreamInv, StreamOf
<1>8. ASSUME NEW d \in Clients \ {c} PROVE StreamOf(d)'
  BY <1>2, <1>3, StreamKept DEF StreamInv, Domains, Receiving, Fresh, Waits
<1> QED
  BY <1>2, <1>7, <1>8 DEF StreamInv, Domains

LEMMA StreamStep == OwnerInv /\ StreamInv /\ [Next]_vars => StreamInv'
<1> SUFFICES ASSUME OwnerInv, StreamInv, [Next]_vars PROVE StreamInv'
  OBVIOUS
<1>1. CASE UNCHANGED vars
  BY <1>1, StreamElsewhere
  DEF vars, mainVars, tableVars, threadVars, streamVars, Receiving, Fresh, Waits
<1>2. CASE Resolve \/ OpenSocket \/ SetReuseaddr \/ Bind \/ Listen
  BY <1>2, StreamStarting
<1>3. CASE AcceptFails
  BY <1>3, StreamElsewhere
  DEF AcceptFails, KeepOthers, mainVars, tableVars, threadVars, streamVars,
      Receiving, Fresh, Waits
<1>4. CASE \/ Malloc \/ CreateThread \/ CreateFails
           \/ \E c \in Clients : Accept(c)
  BY <1>4, StreamAccepting
<1>5. ASSUME NEW c \in Clients, StartThread(c) \/ CloseThread(c)
      PROVE  StreamInv'
  BY <1>5, StreamOfThread
<1>6. ASSUME NEW c \in Clients, Connect(c) \/ Say(c) PROVE StreamInv'
  BY <1>6, StreamConnect, StreamSay
<1>7. ASSUME NEW c \in Clients, Recv(c) \/ RecvFails(c) PROVE StreamInv'
  BY <1>7, StreamRecv, StreamRecvFails
<1> QED
  BY <1>1, <1>2, <1>3, <1>4, <1>5, <1>6, <1>7 DEF Next

LEMMA BothAlways == Spec => [](OwnerInv /\ StreamInv)
<1>1. Init => OwnerInv /\ StreamInv
  BY OwnerInit, StreamInit
<1>2. OwnerInv /\ StreamInv /\ [Next]_vars => OwnerInv' /\ StreamInv'
  BY OwnerStep, StreamStep
<1> QED
  BY <1>1, <1>2, PTL DEF Spec

\* A thread is given the packets of its own client, whole, in order and without
\* a gap, whatever the client says, however its bytes are cut up and wherever a
\* receive times out (emap_recv_packet, emap_low_level.c:82).
THEOREM OwnPacketsAlways == Spec => []OwnPackets
<1>1. StreamInv => OwnPackets
  <2> SUFFICES ASSUME StreamInv, NEW c \in Clients
               PROVE  taken[c] = [i \in DOMAIN taken[c] |-> Packet(c, Talk, i)]
    BY DEF OwnPackets
  <2>1. PICK n \in Nat : taken[c] = Packets(c, n)
    BY DEF StreamInv, StreamOf
  <2> QED
    BY <2>1 DEF Packets
<1> QED
  BY <1>1, BothAlways, PTL

\* The variables of the server have their types: main handles a connection
\* exactly while it has one, and no call of emap_recv_packet holds more than a
\* header before its payload (server/src/main.c:61).
THEOREM ServerTypes == Spec => []TypeOK
<1>1. OwnerInv /\ StreamInv => TypeOK
  <2> SUFFICES ASSUME OwnerInv, StreamInv PROVE TypeOK
    OBVIOUS
  <2>1. \A c \in Clients : \A u : IsPlace(c, u) => u \in Places(c)
    BY DEF IsPlace, Places
  <2>2. ASSUME NEW c \in Clients
        PROVE  buf[c] \in UNION {[1..n -> Places(c)] : n \in 0..2}
    <3>1. CASE buf[c] = <<>>
      BY <3>1
    <3>2. CASE InStep(c)
      <4>1. PICK n \in Nat, j \in 0..2 : /\ buf[c] = Units(c, n + 1, j)
                                       /\ heard[c] = Unit(c, n + 1, j + 1)
        BY <3>2 DEF InStep
      <4>2. n + 1 \in 1..(Len(Talk) + 1)
        <5>1. PICK i \in 1..(Len(Talk) + 1), k \in 1..3 : heard[c] = Unit(c, i, k)
          BY DEF StreamInv, StreamOf, IsPlace
        <5> QED
          BY <4>1, <5>1 DEF Unit
      <4>3. buf[c] \in [1..j -> Places(c)]
        BY <4>1, <4>2 DEF Units, Places
      <4> QED
        BY <4>1, <4>3
    <3>3. CASE \E u : IsPlace(c, u) /\ buf[c] = <<u>>
      <4>1. PICK u : IsPlace(c, u) /\ buf[c] = <<u>>
        BY <3>3
      <4>2. buf[c] \in [1..1 -> Places(c)]
        BY <2>1, <4>1
      <4> QED
        BY <4>2
    <3> QED
      BY <3>1, <3>2, <3>3 DEF StreamInv, StreamOf, Astray, Receiving, Fresh
  <2>3. \A c \in Clients : {said[c], heard[c]} \subseteq Places(c)
    BY <2>1 DEF StreamInv, StreamOf
  <2>4. main \in {"resolve", "socket", "reuseaddr", "bind", "listen", "accept",
                 "malloc", "create", "exit"}
    BY DEF OwnerInv, Types, MainPcs, Listening, Loop
  <2>5. main \in {"malloc", "create"} <=> new_fd # NoFd
    BY DEF OwnerInv, MainInv
  <2> QED
    BY <2>2, <2>3, <2>4, <2>5 DEF TypeOK, OwnerInv, Types, ThreadPcs
<1> QED
  BY <1>1, BothAlways, PTL
-----------------------------------------------------------------------------
(***************************************************************************)
(* What is read of server.ini, a file of any length.                       *)
(***************************************************************************)
\* Induction, for a set of numbers.
LEMMA EveryNumber ==
    ASSUME NEW S \in SUBSET Nat, 0 \in S, \A n \in S : n + 1 \in S
    PROVE  S = Nat
<1> DEFINE T == Nat \ S
<1>1. SUFFICES ASSUME T # {} PROVE FALSE
  OBVIOUS
<1>2. PICK m \in T : \A y \in T : ~ <<y, m>> \in OpToRel(<, Nat)
  <2>1. T \subseteq Nat
    OBVIOUS
  <2> QED
    BY ONLY <1>1, <2>1, WFMin, NatLessThanWellFounded, Zenon
<1>3. m - 1 \in Nat /\ m - 1 < m
  OBVIOUS
<1>4. m - 1 \in S
  BY <1>2, <1>3 DEF OpToRel
<1> QED
  BY <1>4

\* The line that is read last.
LEMMA GreatestIsMax ==
    ASSUME NEW s \in SUBSET Int, NEW m \in s, \A i \in s : i <= m
    PROVE  Max(s) = m
<1>1. \E x \in s : \A y \in s : x >= y
  OBVIOUS
<1>2. Max(s) \in s /\ \A y \in s : Max(s) >= y
  BY <1>1, Zenon DEF Max
<1>3. Max(s) \in Int /\ m \in Int /\ Max(s) <= m /\ Max(s) >= m
  BY <1>2
<1> QED
  BY <1>3

\* What FoldLeft defines: a function of the sets of lines that are still to be
\* read, for a file of which the first n lines count.
Folds(g, base, file, n) ==
    g = [s \in SUBSET (1..n) |->
           IF s = {} THEN base
           ELSE ReadLine(g[s \ {Max(s)}], file[Max(s)])]

\* There is such a function: a line more is read after the lines before it.
LEMMA FoldExists ==
    ASSUME NEW file, NEW base, NEW n \in Nat
    PROVE  \E g : Folds(g, base, file, n)
<1> DEFINE Body(g, s) == IF s = {} THEN base
                         ELSE ReadLine(g[s \ {Max(s)}], file[Max(s)])
           Reads(g, k) == g = [s \in SUBSET (1..k) |-> Body(g, s)]
           K == {k \in Nat : \E g : Reads(g, k)}
<1>1. 0 \in K
  <2> DEFINE g == [s \in {{}} |-> base]
  <2>1. SUBSET (1..0) = {{}}
    OBVIOUS
  <2>2. g = [s \in {{}} |-> Body(g, s)]
    OBVIOUS
  <2>3. Reads(g, 0)
    BY <2>1, <2>2, Zenon
  <2> QED
    BY <2>3
<1>2. ASSUME NEW k \in K PROVE k + 1 \in K
  <2>1. PICK g : Reads(g, k)
    OBVIOUS
  <2> DEFINE h == [s \in SUBSET (1..(k + 1)) |-> IF k + 1 \in s
                      THEN ReadLine(g[s \ {k + 1}], file[k + 1]) ELSE g[s]]
  <2>2. ASSUME NEW s \in SUBSET (1..(k + 1)) PROVE h[s] = Body(h, s)
    <3>1. CASE k + 1 \in s
      <4>1. Max(s) = k + 1
        BY <3>1, GreatestIsMax
      <4>2. s \ {k + 1} \in SUBSET (1..k)
        OBVIOUS
      <4>3. h[s \ {k + 1}] = g[s \ {k + 1}]
        BY <4>2
      <4> QED
        BY <3>1, <4>1, <4>3
    <3>2. CASE k + 1 \notin s
      <4>1. s \in SUBSET (1..k)
        BY <3>2
      <4>2. g[s] = Body(g, s)
        BY <2>1, <4>1
      <4>3. h[s \ {Max(s)}] = g[s \ {Max(s)}]
        BY <4>1, <3>2
      <4> QED
        BY <3>2, <4>2, <4>3
    <3> QED
      BY <3>1, <3>2
  <2>3. Reads(h, k + 1)
    BY <2>2
  <2>4. \E f : Reads(f, k + 1)
    BY <2>3, Zenon
  <2> HIDE DEF Reads
  <2> QED
    BY <2>4
<1>3. K = Nat
  <2>1. K \subseteq Nat
    OBVIOUS
  <2> HIDE DEF K
  <2> QED
    BY <1>1, <1>2, <2>1, EveryNumber
<1> QED
  BY <1>3 DEF Folds

\* What has been read after each line.
LEMMA ReadingStepwise ==
    ASSUME NEW n \in Nat, NEW file, DOMAIN file = 1..n
    PROVE  \E read :
             /\ read[0] = [config |-> config_init_defaults,
                           in_server_section |-> FALSE]
             /\ \A i \in 1..n : read[i] = ReadLine(read[i - 1], file[i])
             /\ config_load(file) = read[n].config
<1> DEFINE base == [config |-> config_init_defaults, in_server_section |-> FALSE]
           iter == CHOOSE g : Folds(g, base, file, n)
           read == [i \in 0..n |-> iter[1..i]]
<1>1. Folds(iter, base, file, n)
  <2>1. \E g : Folds(g, base, file, n)
    BY FoldExists, Zenon
  <2> QED
    BY <2>1, Zenon
<1>2. config_load(file) = iter[1..n].config
  BY DEF config_load, FoldLeft, MapThenFoldSet, Folds
<1> HIDE DEF iter
<1>3. iter[{}] = base
  BY <1>1 DEF Folds
<1>4. ASSUME NEW i \in 1..n PROVE iter[1..i] = ReadLine(iter[1..(i-1)], file[i])
  <2>1. Max(1..i) = i
    <3>1. 1..i \in SUBSET Int /\ i \in 1..i /\ \A j \in 1..i : j <= i
      OBVIOUS
    <3> QED
      BY <3>1, GreatestIsMax
  <2>2. (1..i) \ {i} = 1..(i - 1)
    <3>1. \A j : j \in (1..i) \ {i} <=> j \in 1..(i - 1)
      OBVIOUS
    <3> QED
      BY <3>1, Zenon
  <2>3. 1..i # {} /\ 1..i \in SUBSET (1..n)
    OBVIOUS
  <2> QED
    BY <1>1, <2>1, <2>2, <2>3 DEF Folds
<1>5. 1..0 = {}
  OBVIOUS
<1>6. read[0] = base
  <2>1. read[0] = iter[1..0]
    OBVIOUS
  <2> QED
    BY <1>3, <1>5, <2>1, Zenon
<1>7. ASSUME NEW i \in 1..n PROVE read[i] = ReadLine(read[i - 1], file[i])
  BY <1>4
<1>8. config_load(file) = read[n].config
  BY <1>2
<1> HIDE DEF read
<1> QED
  BY <1>6, <1>7, <1>8

(***************************************************************************)
(* What the first k lines of a file say.                                   *)
(***************************************************************************)
SettingsTo(file, key, k) == {i \in Settings(file, key) : i <= k}

LastTo(file, key, k) == file[Max(SettingsTo(file, key, k))].value

Ip(file, k) ==
    IF SettingsTo(file, "ip", k) = {} THEN "0.0.0.0"
    ELSE LastTo(file, "ip", k).text

Port(file, k) ==
    IF SettingsTo(file, "port", k) = {} THEN [text |-> "5001", cut |-> FALSE]
    ELSE [text |-> LastTo(file, "port", k).text,
          cut |-> LastTo(file, "port", k).length > 5]

Backlog(file, k) ==
    IF SettingsTo(file, "backlog", k) = {} THEN 2
    ELSE LastTo(file, "backlog", k).number

SaidTo(file, k) ==
    [ip |-> Ip(file, k), port |-> Port(file, k), backlog |-> Backlog(file, k)]

\* A file has n lines.
IsFile(file, n) == DOMAIN file = 1..n /\ \A i \in 1..n : file[i] \in Lines

\* The three kinds of lines.
LEMMA LineKinds ==
    ASSUME NEW line \in Lines
    PROVE  \/ line = Comment /\ line.kind = "comment"
           \/ /\ line.kind = "section" /\ line.name \in {"server", "game"}
              /\ line = Section(line.name)
           \/ /\ line.kind = "assign" /\ line.key \in {"ip", "port", "backlog"}
              /\ line.value \in Values
  BY DEF Lines, Comment, Section, Assign

\* A section is the one that counts until the next one begins.
LEMMA SectionStep ==
    ASSUME NEW n \in Nat, NEW file, IsFile(file, n), NEW k \in Nat, k + 1 \in 1..n
    PROVE  InServer(file, k + 2) <=>
             IF file[k + 1].kind = "section" THEN file[k + 1].name = "server"
             ELSE InServer(file, k + 1)
<1> DEFINE line == file[k + 1]
<1>1. line \in Lines
  BY DEF IsFile
<1>2. InServer(file, k + 2) <=>
        \E j \in 1..(k + 1) : /\ file[j] = Section("server")
                              /\ \A m \in (j + 1)..(k + 1) : file[m].kind # "section"
  BY DEF InServer
<1>3. InServer(file, k + 1) <=>
        \E j \in 1..k : /\ file[j] = Section("server")
                        /\ \A m \in (j + 1)..k : file[m].kind # "section"
  BY DEF InServer
<1>4. CASE line.kind = "section"
  <2>1. line.name = "server" => InServer(file, k + 2)
    <3> HAVE line.name = "server"
    <3>1. line = Section("server")
      BY <1>1, <1>4, LineKinds
    <3> QED
      BY <1>2, <3>1
  <2>2. InServer(file, k + 2) => line.name = "server"
    <3>1. SUFFICES ASSUME NEW j \in 1..(k + 1), file[j] = Section("server"),
                          \A m \in (j + 1)..(k + 1) : file[m].kind # "section"
                   PROVE  line.name = "server"
      BY <1>2
    <3>2. j = k + 1
      BY <1>4, <3>1
    <3> QED
      BY <3>1, <3>2 DEF Section
  <2> QED
    BY <1>4, <2>1, <2>2
<1>5. CASE line.kind # "section"
  <2>1. ASSUME NEW j \in 1..(k + 1), file[j] = Section("server")
        PROVE  j \in 1..k
    BY <1>5, <2>1 DEF Section
  <2>2. \A j \in 1..k : (\A m \in (j + 1)..(k + 1) : file[m].kind # "section")
                   <=> (\A m \in (j + 1)..k : file[m].kind # "section")
    BY <1>5
  <2> QED
    BY <1>2, <1>3, <1>5, <2>1, <2>2
<1> QED
  BY <1>4, <1>5

\* Line i sets the key.
Sets(file, key, i) ==
    /\ file[i].kind = "assign" /\ InServer(file, i)
    /\ file[i].key = key /\ Acceptable(key, file[i].value)

\* A line that sets a key is the last one so far that does.
LEMMA SettingsStep ==
    ASSUME NEW n \in Nat, NEW file, IsFile(file, n), NEW k \in Nat, k + 1 \in 1..n,
           NEW key
    PROVE  /\ Sets(file, key, k + 1) =>
                 /\ SettingsTo(file, key, k + 1) # {}
                 /\ LastTo(file, key, k + 1) = file[k + 1].value
           /\ ~ Sets(file, key, k + 1) =>
                 SettingsTo(file, key, k + 1) = SettingsTo(file, key, k)
<1>1. \A i : i \in Settings(file, key) <=> i \in 1..n /\ Sets(file, key, i)
  BY DEF Settings, Sets, IsFile
<1>2. \A i, l : i \in SettingsTo(file, key, l) <=> i \in Settings(file, key) /\ i <= l
  BY DEF SettingsTo
<1>3. ASSUME Sets(file, key, k + 1)
      PROVE  k + 1 \in SettingsTo(file, key, k + 1)
                /\ Max(SettingsTo(file, key, k + 1)) = k + 1
  <2>1. k + 1 \in SettingsTo(file, key, k + 1)
    BY <1>1, <1>2, <1>3
  <2>2. SettingsTo(file, key, k + 1) \in SUBSET Int
    BY <1>1, <1>2
  <2>3. \A i \in SettingsTo(file, key, k + 1) : i <= k + 1
    BY <1>2
  <2> QED
    BY <2>1, <2>2, <2>3, GreatestIsMax
<1>4. ASSUME ~ Sets(file, key, k + 1)
      PROVE  SettingsTo(file, key, k + 1) = SettingsTo(file, key, k)
  <2>1. \A i : i \in SettingsTo(file, key, k + 1) <=> i \in SettingsTo(file, key, k)
    BY <1>1, <1>2, <1>4
  <2> QED
    BY <2>1, Zenon DEF SettingsTo
<1> QED
  BY <1>3, <1>4 DEF LastTo

\* What set_ip, set_port and set_backlog accept.
LEMMA AcceptableMeans ==
    ASSUME NEW value, value.length \in Nat, value.number \in Int
    PROVE  /\ Acceptable("ip", value) <=> 0 < value.length /\ value.length < 46
           /\ Acceptable("port", value) <=> 0 < value.number /\ value.number <= 65535
           /\ Acceptable("backlog", value) <=> 0 < value.number /\ value.number <= 128
<1>1. Acceptable("ip", value) <=> 0 < value.length /\ value.length < 46
  BY DEF Acceptable
<1>2. Acceptable("port", value) <=> 0 < value.number /\ value.number <= 65535
  BY DEF Acceptable
<1>3. Acceptable("backlog", value) <=> 0 < value.number /\ value.number <= 128
  BY DEF Acceptable
<1> QED
  BY <1>1, <1>2, <1>3

\* A line that sets a key is taken, and any other is passed over.
LEMMA FieldStep ==
    ASSUME NEW n \in Nat, NEW file, IsFile(file, n), NEW k \in Nat, k + 1 \in 1..n,
           file[k + 1].kind = "assign", InServer(file, k + 1)
    PROVE  set(SaidTo(file, k), file[k + 1].key, file[k + 1].value)
             = SaidTo(file, k + 1)
<1> DEFINE line == file[k + 1]
           value == line.value
<1>1. /\ line.key \in {"ip", "port", "backlog"}
      /\ value.length \in Nat /\ value.number \in Int
  <2>1. line \in Lines
    BY DEF IsFile
  <2>2. value \in Values
    BY <2>1, LineKinds
  <2> QED
    BY <2>1, <2>2, LineKinds, ValuesAssumption
<1>2. /\ Sets(file, "ip", k + 1) <=>
           line.key = "ip" /\ 0 < value.length /\ value.length < 46
      /\ Sets(file, "port", k + 1) <=>
           line.key = "port" /\ 0 < value.number /\ value.number <= 65535
      /\ Sets(file, "backlog", k + 1) <=>
           line.key = "backlog" /\ 0 < value.number /\ value.number <= 128
  <2>1. \A key : Sets(file, key, k + 1) <=> line.key = key /\ Acceptable(key, value)
    BY DEF Sets
  <2> HIDE DEF line, value
  <2> QED
    BY <1>1, <2>1, AcceptableMeans
<1>3. ASSUME NEW key
      PROVE  /\ Sets(file, key, k + 1) =>
                 /\ SettingsTo(file, key, k + 1) # {}
                 /\ LastTo(file, key, k + 1) = value
             /\ ~ Sets(file, key, k + 1) =>
                 /\ SettingsTo(file, key, k + 1) = SettingsTo(file, key, k)
                 /\ LastTo(file, key, k + 1) = LastTo(file, key, k)
  BY SettingsStep DEF LastTo
<1> HIDE DEF line, value
<1>4. Ip(file, k + 1) = IF line.key = "ip" /\ 0 < value.length /\ value.length < 46
                        THEN value.text ELSE Ip(file, k)
  <2>1. Sets(file, "ip", k + 1) => Ip(file, k + 1) = value.text
    BY <1>3, Zenon DEF Ip
  <2>2. ~ Sets(file, "ip", k + 1) => Ip(file, k + 1) = Ip(file, k)
    BY <1>3, Zenon DEF Ip
  <2> QED
    BY <1>2, <2>1, <2>2
<1>5. Port(file, k + 1) =
         IF line.key = "port" /\ 0 < value.number /\ value.number <= 65535
         THEN [text |-> value.text, cut |-> value.length >= 6] ELSE Port(file, k)
  <2>1. (value.length > 5) = (value.length >= 6)
    BY <1>1
  <2>2. Sets(file, "port", k + 1) =>
          Port(file, k + 1) = [text |-> value.text, cut |-> value.length > 5]
    BY <1>3, Zenon DEF Port
  <2>3. ~ Sets(file, "port", k + 1) => Port(file, k + 1) = Port(file, k)
    BY <1>3, Zenon DEF Port
  <2> HIDE DEF Port
  <2> QED
    BY <1>2, <2>1, <2>2, <2>3
<1>6. Backlog(file, k + 1) =
         IF line.key = "backlog" /\ 0 < value.number /\ value.number <= 128
         THEN value.number ELSE Backlog(file, k)
  <2>1. Sets(file, "backlog", k + 1) => Backlog(file, k + 1) = value.number
    BY <1>3, Zenon DEF Backlog
  <2>2. ~ Sets(file, "backlog", k + 1) => Backlog(file, k + 1) = Backlog(file, k)
    BY <1>3, Zenon DEF Backlog
  <2> QED
    BY <1>2, <2>1, <2>2
<1>7. CASE line.key = "ip"
  <2>1. SaidTo(file, k + 1) = set_ip(SaidTo(file, k), value)
    BY <1>4, <1>5, <1>6, <1>7 DEF SaidTo, set_ip, CONFIG_IP_MAX_LEN
  <2> QED
    BY <1>7, <2>1 DEF set, line, value
<1>8. CASE line.key = "port"
  <2>1. /\ Ip(file, k + 1) = Ip(file, k) /\ Backlog(file, k + 1) = Backlog(file, k)
        /\ Port(file, k + 1) =
             IF 0 < value.number /\ value.number <= 65535
             THEN [text |-> value.text, cut |-> value.length >= 6]
             ELSE Port(file, k)
    BY <1>4, <1>5, <1>6, <1>8
  <2>2. SaidTo(file, k + 1) = set_port(SaidTo(file, k), value)
    BY <2>1 DEF SaidTo, set_port, CONFIG_PORT_MAX_LEN
  <2> QED
    BY <1>8, <2>2 DEF set, line, value
<1>9. CASE line.key = "backlog"
  <2>1. SaidTo(file, k + 1) = set_backlog(SaidTo(file, k), value)
    BY <1>4, <1>5, <1>6, <1>9 DEF SaidTo, set_backlog
  <2> QED
    BY <1>9, <2>1 DEF set, line, value
<1> QED
  BY <1>1, <1>7, <1>8, <1>9

\* One more line read is one more line that counts.
LEMMA LineStep ==
    ASSUME NEW n \in Nat, NEW file, IsFile(file, n), NEW k \in Nat, k + 1 \in 1..n
    PROVE  ReadLine([config |-> SaidTo(file, k),
                     in_server_section |-> InServer(file, k + 1)], file[k + 1])
             = [config |-> SaidTo(file, k + 1),
                in_server_section |-> InServer(file, k + 2)]
<1> DEFINE line == file[k + 1]
           read == [config |-> SaidTo(file, k),
                    in_server_section |-> InServer(file, k + 1)]
<1>1. line \in Lines
  BY DEF IsFile
<1>2. InServer(file, k + 2) = IF line.kind = "section" THEN line.name = "server"
                              ELSE InServer(file, k + 1)
  <2>1. InServer(file, k + 2) \in BOOLEAN /\ InServer(file, k + 1) \in BOOLEAN
    BY DEF InServer
  <2> QED
    BY <2>1, SectionStep
<1>3. ASSUME ~ (line.kind = "assign" /\ InServer(file, k + 1))
      PROVE  SaidTo(file, k + 1) = SaidTo(file, k)
  <2>1. \A key : /\ SettingsTo(file, key, k + 1) = SettingsTo(file, key, k)
                 /\ LastTo(file, key, k + 1) = LastTo(file, key, k)
    BY <1>3, SettingsStep DEF Sets, LastTo
  <2> QED
    BY <2>1, Zenon DEF SaidTo, Ip, Port, Backlog
<1>4. CASE line.kind = "section"
  <2>1. ReadLine(read, line) = [read EXCEPT !.in_server_section = line.name = "server"]
    BY <1>4 DEF ReadLine
  <2>2. SaidTo(file, k + 1) = SaidTo(file, k)
    BY <1>3, <1>4
  <2> HIDE DEF line
  <2> QED
    BY <1>2, <1>4, <2>1, <2>2 DEF line
<1>5. CASE line.kind = "assign" /\ InServer(file, k + 1)
  <2>1. ReadLine(read, line) = [read EXCEPT !.config = set(@, line.key, line.value)]
    BY <1>5 DEF ReadLine
  <2>2. SaidTo(file, k + 1) = set(SaidTo(file, k), line.key, line.value)
    BY <1>5, FieldStep
  <2> QED
    BY <1>2, <1>5, <2>1, <2>2
<1>6. CASE line.kind # "section" /\ ~ (line.kind = "assign" /\ InServer(file, k + 1))
  <2>1. ReadLine(read, line) = read
    BY <1>6 DEF ReadLine
  <2>2. SaidTo(file, k + 1) = SaidTo(file, k)
    BY <1>3, <1>6
  <2> QED
    BY <1>2, <1>6, <2>1, <2>2
<1> QED
  BY <1>4, <1>5, <1>6

(***************************************************************************)
(* config_load on a file of any length: each field has the last acceptable *)
(* value that a line of [server] sets it to, and else its default,         *)
(* whatever other lines stand before, between and after those.  After k    *)
(* lines the parser has what the first k lines say.                        *)
(***************************************************************************)
THEOREM ConfigRead ==
    ASSUME NEW n \in Nat, NEW file \in [1..n -> Lines]
    PROVE  AsWritten(config_load(file), file)
<1>1. IsFile(file, n) /\ DOMAIN file = 1..n
  BY DEF IsFile
<1>2. PICK read :
         /\ read[0] = [config |-> config_init_defaults, in_server_section |-> FALSE]
         /\ \A i \in 1..n : read[i] = ReadLine(read[i - 1], file[i])
         /\ config_load(file) = read[n].config
  BY <1>1, ReadingStepwise
<1> DEFINE Right(k) == read[k] = [config |-> SaidTo(file, k),
                                  in_server_section |-> InServer(file, k + 1)]
           K == {k \in Nat : k <= n => Right(k)}
<1>3. 0 \in K
  <2>1. \A key : SettingsTo(file, key, 0) = {}
    BY <1>1 DEF SettingsTo, Settings
  <2>2. SaidTo(file, 0) = config_init_defaults
    BY <2>1 DEF SaidTo, Ip, Port, Backlog, config_init_defaults
  <2>3. InServer(file, 0 + 1) = FALSE
    BY DEF InServer
  <2> QED
    BY <1>2, <2>2, <2>3
<1>4. ASSUME NEW k \in K PROVE k + 1 \in K
  <2>1. SUFFICES ASSUME k + 1 <= n PROVE Right(k + 1)
    OBVIOUS
  <2>2. k \in Nat /\ k + 1 \in 1..n /\ Right(k) /\ (k + 1) - 1 = k
    BY <2>1
  <2>3. read[k + 1] = ReadLine(read[k], file[k + 1])
    BY <1>2, <2>2
  <2> QED
    BY <1>1, <2>2, <2>3, LineStep
<1>5. K = Nat
  <2>1. K \subseteq Nat
    OBVIOUS
  <2> HIDE DEF K
  <2> QED
    BY <1>3, <1>4, <2>1, EveryNumber
<1>6. config_load(file) = SaidTo(file, n)
  <2>1. Right(n)
    BY <1>5
  <2> QED
    BY <1>2, <2>1
<1>7. \A key : SettingsTo(file, key, n) = Settings(file, key)
  BY <1>1 DEF SettingsTo, Settings
<1> QED
  BY <1>6, <1>7 DEF AsWritten, Says, SaidTo, Ip, Port, Backlog, LastTo

\* The address that main resolves is the one in server.ini.
THEOREM ConfigAsWrittenHolds == Spec => []ConfigAsWritten
<1>1. ConfigAsWritten
  BY ConfigRead DEF ConfigAsWritten, Files
<1> QED
  BY <1>1, PTL
=============================================================================
