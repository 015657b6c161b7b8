------------------------------- MODULE Server -------------------------------
(***************************************************************************)
(* The server's main.c over server_connection.c, and what a client thread  *)
(* does with its socket: who holds which file descriptor, and what is read *)
(* through it.                                                             *)
(*                                                                         *)
(* main resolves its address, listens, accepts, and hands each connection  *)
(* to a thread of its own, in a block of memory that the thread frees; the *)
(* thread closes the descriptor, whose number the next accept may return.  *)
(* Nothing but convention says who closes and who frees.                   *)
(*                                                                         *)
(* A client is known by its connection, and makes one; it says what Talk   *)
(* says, or stops anywhere in it.  The messages themselves, and what the   *)
(* server answers, are the business of Session and Lobby.                  *)
(***************************************************************************)
EXTENDS EmapStream, ServerConfig

CONSTANTS Clients, Talk,
          FDs,              \* the numbers a socket may get
          NoFd

ASSUME TalkAssumption == Talk \in Seq(BOOLEAN)
ASSUME FDsAssumption == NoFd \notin FDs
ASSUME ClientsAssumption ==
    Clients \cap {"sock_fd", "new_fd", "listener", "addrinfo"} = {}

VARIABLES
    main,           \* where main is
    sock_fd, new_fd,
    files,          \* the open descriptors, and what is behind each
    heap,           \* the blocks that are allocated
    backlog,        \* the connections that wait to be accepted
    thread, fd,     \* where the thread of a client is, and its descriptor
    said, heard,    \* how far a client has come, and how far it has been read
    buf,            \* what a call of emap_recv_packet has so far
    taken           \* the packets that it has returned to a thread

mainVars   == <<main, sock_fd, new_fd>>
tableVars  == <<files, heap>>
threadVars == <<thread, fd, buf>>
streamVars == <<said, heard, taken>>
vars == <<mainVars, tableVars, backlog, threadVars, streamVars>>

Open     == DOMAIN files
Listener == "listener"

Opens(n, what)  == files' = [f \in Open \cup {n} |->
                               IF f = n THEN what ELSE files[f]]
srv_close_fd(n) == files' = [f \in Open \ {n} |-> files[f]]
Allocates(block) == heap' = heap \cup {block}
Frees(block)     == heap' = heap \ {block}

Init ==
    /\ main = "resolve" /\ sock_fd = NoFd /\ new_fd = NoFd
    /\ files = <<>> /\ heap = {}
    /\ backlog = {}
    /\ thread = [c \in Clients |-> "none"] /\ fd = [c \in Clients |-> NoFd]
    /\ buf = [c \in Clients |-> <<>>] /\ taken = [c \in Clients |-> <<>>]
    /\ said = [c \in Clients |-> Start(c)]
    /\ heard = [c \in Clients |-> Start(c)]
-----------------------------------------------------------------------------
(***************************************************************************)
(* srv_create_listener.  A failure undoes what was done, and main exits.   *)
(***************************************************************************)
MainGoes(from, to) == main = from /\ main' = to

KeepOthers == UNCHANGED <<backlog, threadVars, streamVars>>

Resolve ==
    /\ \/ MainGoes("resolve", "socket") /\ Allocates("addrinfo")
       \/ MainGoes("resolve", "exit") /\ UNCHANGED heap
    /\ UNCHANGED <<sock_fd, new_fd, files>> /\ KeepOthers

OpenSocket ==
    /\ \/ /\ MainGoes("socket", "reuseaddr")
          /\ \E n \in FDs : sock_fd' = n /\ Opens(n, Listener)
          /\ UNCHANGED heap
       \/ /\ MainGoes("socket", "exit")
          /\ Frees("addrinfo") /\ UNCHANGED <<sock_fd, files>>
    /\ UNCHANGED new_fd /\ KeepOthers

\* setsockopt or bind has failed.
GiveUpSocket ==
    /\ Frees("addrinfo") /\ srv_close_fd(sock_fd) /\ sock_fd' = NoFd

SetReuseaddr ==
    /\ \/ MainGoes("reuseaddr", "bind") /\ UNCHANGED <<sock_fd, tableVars>>
       \/ MainGoes("reuseaddr", "exit") /\ GiveUpSocket
    /\ UNCHANGED new_fd /\ KeepOthers

Bind ==
    /\ \/ /\ MainGoes("bind", "listen")
          /\ Frees("addrinfo") /\ UNCHANGED <<sock_fd, files>>
       \/ MainGoes("bind", "exit") /\ GiveUpSocket
    /\ UNCHANGED new_fd /\ KeepOthers

Listen ==
    /\ \/ MainGoes("listen", "accept") /\ UNCHANGED <<sock_fd, files>>
       \/ /\ MainGoes("listen", "exit")
          /\ srv_close_fd(sock_fd) /\ sock_fd' = NoFd
    /\ UNCHANGED <<new_fd, heap>> /\ KeepOthers
-----------------------------------------------------------------------------
(***************************************************************************)
(* The loop of main.  The numbers that the database has open at the time   *)
(* are not known here: a socket gets any number that is not in use.        *)
(***************************************************************************)
Accept(c) ==
    /\ MainGoes("accept", "malloc")
    /\ c \in backlog /\ backlog' = backlog \ {c}
    /\ \E n \in FDs \ Open : new_fd' = n /\ Opens(n, c)
    /\ UNCHANGED <<sock_fd, heap, threadVars, streamVars>>

\* Faulty: the result of accept is not looked at.
AcceptFailsUnseen ==
    /\ MainGoes("accept", "malloc") /\ new_fd' = NoFd
    /\ UNCHANGED <<sock_fd, tableVars>> /\ KeepOthers

\* Out of descriptors, or a signal: try again.
AcceptFails ==
    /\ main = "accept"
    /\ UNCHANGED <<mainVars, tableVars>> /\ KeepOthers

Malloc ==
    /\ \/ MainGoes("malloc", "create") /\ Allocates(files[new_fd])
            /\ UNCHANGED <<new_fd, files>>
       \/ MainGoes("malloc", "accept") /\ srv_close_fd(new_fd)
            /\ new_fd' = NoFd /\ UNCHANGED heap
    /\ UNCHANGED sock_fd /\ KeepOthers

\* From here on the thread owns the descriptor and the block.
CreateThread ==
    /\ MainGoes("create", "accept")
    /\ thread' = [thread EXCEPT ![files[new_fd]] = "start"]
    /\ fd' = [fd EXCEPT ![files[new_fd]] = new_fd]
    /\ new_fd' = NoFd
    /\ UNCHANGED <<sock_fd, tableVars, backlog, buf, streamVars>>

\* Faulty: the descriptor is taken to belong to the thread already.
CreateFailsNoClose ==
    /\ MainGoes("create", "accept")
    /\ Frees(files[new_fd]) /\ UNCHANGED files
    /\ new_fd' = NoFd
    /\ UNCHANGED sock_fd /\ KeepOthers

CreateFails ==
    /\ MainGoes("create", "accept")
    /\ Frees(files[new_fd]) /\ srv_close_fd(new_fd)
    /\ new_fd' = NoFd
    /\ UNCHANGED sock_fd /\ KeepOthers
-----------------------------------------------------------------------------
(***************************************************************************)
(* server_client_thread.  The thread of c reads whatever connection is     *)
(* behind its descriptor.                                                  *)
(***************************************************************************)
Peer(c) == files[fd[c]]

ThreadGoes(c, from, to) ==
    /\ thread[c] = from
    /\ thread' = [thread EXCEPT ![c] = to]

\* The first call of emap_recv_packet is that for CONNECT.
StartThread(c) ==
    /\ ThreadGoes(c, "start", "lenient") /\ Frees(c)
    /\ UNCHANGED <<mainVars, files, backlog, fd, buf, streamVars>>

(***************************************************************************)
(* emap_recv_packet.  A thread waits for it strictly if it ends when the   *)
(* call fails.  It does not end in the connection phase (nothing reads     *)
(* connection_active), nor for the acknowledgement of GAME_END: the next   *)
(* call is then that of wait_for_game_join, which is strict.               *)
(***************************************************************************)
Receiving(c) == thread[c] \in {"lenient", "strict"}

CallFails(c) ==
    /\ buf' = [buf EXCEPT ![c] = <<>>]
    /\ thread' = [thread EXCEPT ![c] =
                    IF @ = "lenient" THEN "strict" ELSE "closing"]
    /\ UNCHANGED taken

CallReturns(c, packet) ==
    /\ buf' = [buf EXCEPT ![c] = <<>>]
    /\ taken' = [taken EXCEPT ![c] = Append(@, packet)]
    /\ \E next \in {"lenient", "strict", "closing"} :
          thread' = [thread EXCEPT ![c] = next]

Recv(c) ==
    /\ Receiving(c) /\ heard[Peer(c)] # said[Peer(c)]
    /\ heard' = [heard EXCEPT ![Peer(c)] = After(Talk, @)]
    /\ LET got == Append(buf[c], heard[Peer(c)])
       IN  \/ Refused(got) /\ CallFails(c)
           \/ Complete(Talk, got) /\ CallReturns(c, got)
           \/ /\ ~ Refused(got) /\ ~ Complete(Talk, got)
              /\ buf' = [buf EXCEPT ![c] = got]
              /\ UNCHANGED <<thread, taken>>
    /\ UNCHANGED <<mainVars, tableVars, backlog, fd, said>>

\* Nothing has come for a minute, or the client has hung up; or there is no
\* memory for the payload.
RecvFails(c) ==
    /\ Receiving(c)
    /\ heard[Peer(c)] = said[Peer(c)] \/ Len(buf[c]) = 2
    /\ CallFails(c)
    /\ UNCHANGED <<mainVars, tableVars, backlog, fd, said, heard>>

CloseThread(c) ==
    /\ ThreadGoes(c, "closing", "none")
    /\ srv_close_fd(fd[c]) /\ fd' = [fd EXCEPT ![c] = NoFd]
    /\ UNCHANGED <<mainVars, heap, backlog, buf, streamVars>>
-----------------------------------------------------------------------------
\* A client connects, when nothing is left of its last connection; it says the
\* next unit.  One that hangs up, or vanishes, says no more.
Connect(c) ==
    /\ main \in {"accept", "malloc", "create"}
    /\ c \notin backlog \cup {files[f] : f \in Open}
    /\ backlog' = backlog \cup {c}
    /\ said' = [said EXCEPT ![c] = Start(c)]
    /\ heard' = [heard EXCEPT ![c] = Start(c)]
    /\ taken' = [taken EXCEPT ![c] = <<>>]
    /\ UNCHANGED <<mainVars, tableVars, threadVars>>

Say(c) ==
    /\ c \in backlog \cup {files[f] : f \in Open}
    /\ said[c].packet \in DOMAIN Talk
    /\ said' = [said EXCEPT ![c] = After(Talk, @)]
    /\ UNCHANGED <<mainVars, tableVars, backlog, threadVars, heard, taken>>

Next ==
    \/ Resolve \/ OpenSocket \/ SetReuseaddr \/ Bind \/ Listen
    \/ AcceptFails \/ Malloc \/ CreateThread \/ CreateFails
    \/ \E c \in Clients :
         \/ Connect(c) \/ Say(c) \/ Accept(c)
         \/ StartThread(c) \/ Recv(c) \/ RecvFails(c) \/ CloseThread(c)

Spec == Init /\ [][Next]_vars
-----------------------------------------------------------------------------
Places(c) == {Unit(c, i, k) : i \in 1..(Len(Talk) + 1), k \in 1..3}

\* The types of the variables; while main handles a connection it has one.
TypeOK ==
    /\ main \in {"resolve", "socket", "reuseaddr", "bind", "listen", "accept",
                 "malloc", "create", "exit"}
    /\ sock_fd \in FDs \cup {NoFd} /\ new_fd \in FDs \cup {NoFd}
    /\ main \in {"malloc", "create"} <=> new_fd # NoFd
    /\ Open \subseteq FDs
    /\ \A f \in Open : files[f] \in Clients \cup {Listener}
    /\ heap \subseteq Clients \cup {"addrinfo"} /\ backlog \subseteq Clients
    /\ thread \in [Clients -> {"none", "start", "lenient", "strict", "closing"}]
    /\ fd \in [Clients -> FDs \cup {NoFd}]
    /\ \A c \in Clients :
         /\ {said[c], heard[c]} \subseteq Places(c)
         /\ buf[c] \in UNION {[1..n -> Places(c)] : n \in 0..2}

Keepers == {"sock_fd", "new_fd"} \cup Clients

Number(k) ==
    IF k = "sock_fd" THEN sock_fd ELSE IF k = "new_fd" THEN new_fd ELSE fd[k]

\* Every open descriptor has exactly one owner, main or the thread of the client
\* behind it, and nobody keeps a number that is closed and may be another's by
\* now; a block of memory is allocated until whoever has it last frees it. So it
\* is whichever call of the start or of the accept loop fails, and however many
\* connections have come and gone.
OneOwner ==
    /\ \A f \in Open : \E k \in Keepers : Number(k) = f
    /\ \A j, k \in Keepers : Number(j) = Number(k) => j = k \/ Number(k) = NoFd
    /\ \A k \in Keepers : Number(k) \in Open \cup {NoFd}
    /\ \A c \in Clients : fd[c] # NoFd => files[fd[c]] = c
    /\ "addrinfo" \in heap <=> main \in {"socket", "reuseaddr", "bind"}
    /\ heap \ {"addrinfo"} =
         {c \in Clients : \/ thread[c] = "start"
                          \/ main = "create" /\ files[new_fd] = c}

\* A thread is given the packets of its own client, whole, in order and without
\* a gap, although a receive that timed out within a packet loses what it had
\* read and the thread may go on to read in the middle of the packet.
OwnPackets ==
    \A c \in Clients :
        taken[c] = [i \in DOMAIN taken[c] |-> Packet(c, Talk, i)]

\* The address that main resolves is the one in server.ini, whatever other
\* sections, comments and unacceptable values stand before, between and after
\* the lines that say it.
ConfigAsWritten ==
    main = "resolve" => \A file \in Files : AsWritten(config_load(file), file)
=============================================================================
