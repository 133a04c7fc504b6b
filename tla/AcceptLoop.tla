------------------------------ MODULE AcceptLoop ------------------------------
(***************************************************************************)
(* What CinemaServer takes for granted: the hand-over of a connection from *)
(* the accept loop of main to the thread that serves it, and the life of   *)
(* the descriptors both use. main passes the thread the address of its     *)
(* local client_sockfd; a thread opens the database, serves whatever its   *)
(* descriptor refers to, closes it in recv_packet and again at the end of  *)
(* handle_client; the kernel gives out the lowest free descriptor.         *)
(*                                                                         *)
(* A thread carries the name of the connection it was created for. The     *)
(* loop variable lives in one stack slot: its lifetime ends with each      *)
(* iteration, and a late read of it gives the descriptor last stored.      *)
(***************************************************************************)
EXTENDS Integers, FiniteSets

CONSTANTS Conns,    \* the connections made to the server
          NoConn,   \* no connection
          MaxFd     \* descriptors left for connections and databases

ASSUME AcceptConnsAssumption == NoConn \notin Conns
ASSUME MaxFdAssumption == MaxFd \in Nat \ {0}

Fds == 1..MaxFd
NoFd == 0

(* What a descriptor refers to. *)
Sock(c) == [kind |-> "sock", of |-> c]
Db(t)   == [kind |-> "db", of |-> t]
Free    == [kind |-> "free", of |-> NoConn]
File    == {Sock(c) : c \in Conns} \cup {Db(t) : t \in Conns} \cup {Free}

VARIABLES
  up,        \* the process is alive
  peer,      \* the other end of each connection: "idle", "open", "closed"
  accepted,  \* the connections accept has returned
  arriving,  \* main is between accept and pthread_create with it, or NoConn
  slot,      \* client_sockfd, main's local variable
  table,     \* the descriptor table of the process
  tpc,       \* each thread: "none", "created", "opening", "idle", "recv" (the
             \*   header), "payload", "failed", "closing", "exiting", "done"
  sock,      \* the thread's client_socket
  file,      \* what its recv is blocked on
  dbfd,      \* the descriptor of its database handle, or NoFd
  pinned,    \* its handle has a statement that was not finalized
  readers,   \* the threads that took a packet from each connection
  disturbed  \* a thread has used a descriptor that was not its own

acceptVars == <<up, peer, accepted, arriving, slot, table, tpc, sock, file, dbfd,
                pinned, readers, disturbed>>

AcceptTypeOK ==
  /\ up \in BOOLEAN /\ disturbed \in BOOLEAN
  /\ peer \in [Conns -> {"idle", "open", "closed"}]
  /\ accepted \subseteq Conns
  /\ arriving \in Conns \cup {NoConn}
  /\ slot \in Fds \cup {NoFd}
  /\ table \in [Fds -> File]
  /\ tpc \in [Conns -> {"none", "created", "opening", "idle", "recv", "payload", "failed",
                         "closing", "exiting", "done"}]
  /\ sock \in [Conns -> Fds \cup {NoFd}]
  /\ file \in [Conns -> File]
  /\ dbfd \in [Conns -> Fds \cup {NoFd}]
  /\ pinned \in [Conns -> BOOLEAN]
  /\ readers \in [Conns -> SUBSET Conns]

AcceptInit ==
  /\ up = TRUE /\ disturbed = FALSE
  /\ peer = [c \in Conns |-> "idle"]
  /\ accepted = {} /\ arriving = NoConn /\ slot = NoFd
  /\ table = [fd \in Fds |-> Free]
  /\ tpc = [t \in Conns |-> "none"]
  /\ sock = [t \in Conns |-> NoFd]
  /\ file = [t \in Conns |-> Free]
  /\ dbfd = [t \in Conns |-> NoFd]
  /\ pinned = [t \in Conns |-> FALSE]
  /\ readers = [c \in Conns |-> {}]

FreeFds == {fd \in Fds : table[fd] = Free}
IsLowest(fd) == fd \in FreeFds /\ \A other \in FreeFds : fd <= other

-----------------------------------------------------------------------------
(* The peers. *)

PeerConnects(c) ==
  /\ up /\ peer[c] = "idle"
  /\ peer' = [peer EXCEPT ![c] = "open"]
  /\ UNCHANGED <<up, accepted, arriving, slot, table, tpc, sock, file, dbfd, pinned,
                 readers, disturbed>>

PeerLeaves(c) ==
  /\ peer[c] = "open"
  /\ peer' = [peer EXCEPT ![c] = "closed"]
  /\ UNCHANGED <<up, accepted, arriving, slot, table, tpc, sock, file, dbfd, pinned,
                 readers, disturbed>>

-----------------------------------------------------------------------------
(* The loop of main. *)

Pending(c) == up /\ arriving = NoConn /\ peer[c] # "idle" /\ c \notin accepted

(* Mutant: the descriptor stored is the next one. *)
AcceptReturnsNext(c) ==
  /\ Pending(c)
  /\ \E fd \in Fds :
       /\ IsLowest(fd)
       /\ slot' = fd + 1
       /\ table' = [table EXCEPT ![fd] = Sock(c)]
  /\ accepted' = accepted \cup {c}
  /\ arriving' = c
  /\ UNCHANGED <<up, peer, tpc, sock, file, dbfd, pinned, readers, disturbed>>

AcceptReturns(c) ==
  /\ Pending(c)
  /\ \E fd \in Fds :
       /\ IsLowest(fd)
       /\ slot' = fd
       /\ table' = [table EXCEPT ![fd] = Sock(c)]
  /\ accepted' = accepted \cup {c}
  /\ arriving' = c
  /\ UNCHANGED <<up, peer, tpc, sock, file, dbfd, pinned, readers, disturbed>>

(* No descriptor is left: accept returns -1 and main exits. *)
AcceptExhausted(c) ==
  /\ Pending(c) /\ FreeFds = {}
  /\ up' = FALSE
  /\ UNCHANGED <<peer, accepted, arriving, slot, table, tpc, sock, file, dbfd, pinned,
                 readers, disturbed>>

CreateThread ==
  /\ up /\ arriving # NoConn
  /\ tpc' = [tpc EXCEPT ![arriving] = "created"]
  /\ arriving' = NoConn
  /\ UNCHANGED <<up, peer, accepted, slot, table, sock, file, dbfd, pinned, readers, disturbed>>

CreateFails ==
  /\ up /\ arriving # NoConn
  /\ up' = FALSE
  /\ UNCHANGED <<peer, accepted, arriving, slot, table, tpc, sock, file, dbfd, pinned,
                 readers, disturbed>>

-----------------------------------------------------------------------------
(* handle_client. *)

At(t, pc) == up /\ tpc[t] = pc
Goto(t, pc) == tpc' = [tpc EXCEPT ![t] = pc]

(* handle_client copies the int its argument points to. *)
ReadArgument(t) ==
  /\ At(t, "created")
  /\ sock' = [sock EXCEPT ![t] = slot]
  /\ disturbed' = (disturbed \/ table[slot] # Sock(t))
  /\ Goto(t, "opening")
  /\ UNCHANGED <<up, peer, accepted, arriving, slot, table, file, dbfd, pinned, readers>>

OpenDatabase(t) ==
  /\ At(t, "opening")
  /\ \E fd \in Fds :
       /\ IsLowest(fd)
       /\ dbfd' = [dbfd EXCEPT ![t] = fd]
       /\ table' = [table EXCEPT ![fd] = Db(t)]
  /\ Goto(t, "idle")
  /\ UNCHANGED <<up, peer, accepted, arriving, slot, sock, file, pinned, readers, disturbed>>

(* The result of open_database is not looked at. *)
OpenDatabaseFails(t) ==
  /\ At(t, "opening")
  /\ Goto(t, "idle")
  /\ UNCHANGED <<up, peer, accepted, arriving, slot, table, sock, file, dbfd, pinned,
                 readers, disturbed>>

(* Mutant: the thread reads its descriptor through the argument each time. *)
CallRecvThroughArgument(t) ==
  /\ At(t, "idle")
  /\ file' = [file EXCEPT ![t] = table[slot]]
  /\ Goto(t, "recv")
  /\ UNCHANGED <<up, peer, accepted, arriving, slot, table, sock, dbfd, pinned, readers, disturbed>>

(* The first recv of a packet looks the descriptor up and blocks on the    *)
(* file it finds.                                                          *)
CallRecv(t) ==
  /\ At(t, "idle")
  /\ file' = [file EXCEPT ![t] = table[sock[t]]]
  /\ Goto(t, "recv")
  /\ UNCHANGED <<up, peer, accepted, arriving, slot, table, sock, dbfd, pinned, readers, disturbed>>

(* Part of a packet arrives: the next recv, of the header still or of the  *)
(* payload, looks the descriptor up again.                                 *)
RecvAgain(t) ==
  /\ up /\ tpc[t] \in {"recv", "payload"}
  /\ file[t].kind = "sock"
  /\ readers' = [readers EXCEPT ![file[t].of] = @ \cup {t}]
  /\ file' = [file EXCEPT ![t] = table[sock[t]]]
  /\ \E part \in {tpc[t], "payload"} : Goto(t, part)
  /\ UNCHANGED <<up, peer, accepted, arriving, slot, table, sock, dbfd, pinned, disturbed>>

(* The rest of a packet arrives, which the peer may have sent before it    *)
(* left, and is served; the handler may leave a statement behind.          *)
ServePacket(t) ==
  /\ up /\ tpc[t] \in {"recv", "payload"}
  /\ file[t].kind = "sock"
  /\ readers' = [readers EXCEPT ![file[t].of] = @ \cup {t}]
  /\ \E leaves \in BOOLEAN :
       pinned' = [pinned EXCEPT ![t] = @ \/ (leaves /\ dbfd[t] # NoFd)]
  /\ file' = [file EXCEPT ![t] = Free]
  /\ Goto(t, "idle")
  /\ UNCHANGED <<up, peer, accepted, arriving, slot, table, sock, dbfd, disturbed>>

(* The peer left, or the descriptor is not a socket. In the header         *)
(* recv_packet will close it; in the payload it returns NULL at once.      *)
RecvFails(t) ==
  /\ up
  /\ file[t].kind = "sock" => peer[file[t].of] = "closed"
  /\ file' = [file EXCEPT ![t] = Free]
  /\ \/ tpc[t] = "recv" /\ Goto(t, "failed")
     \/ tpc[t] = "payload" /\ Goto(t, "closing")
  /\ UNCHANGED <<up, peer, accepted, arriving, slot, table, sock, dbfd, pinned, readers, disturbed>>

(* close frees the descriptor, whatever it refers to by now. *)
CloseFd(fd, own) ==
  /\ table' = [table EXCEPT ![fd] = Free]
  /\ disturbed' = (disturbed \/ table[fd] \notin {own, Free})

(* close(socket) of recv_packet. *)
CloseInRecv(t) ==
  /\ At(t, "failed")
  /\ CloseFd(sock[t], Sock(t))
  /\ Goto(t, "closing")
  /\ UNCHANGED <<up, peer, accepted, arriving, slot, sock, file, dbfd, pinned, readers>>

(* Mutant: the second close was removed; recv_packet does not always close. *)
CloseAgainRemoved(t) ==
  /\ At(t, "closing")
  /\ Goto(t, "exiting")
  /\ UNCHANGED <<up, peer, accepted, arriving, slot, table, sock, file, dbfd, pinned, readers,
                 disturbed>>

(* close(client_socket) of handle_client. *)
CloseAgain(t) ==
  /\ At(t, "closing")
  /\ CloseFd(sock[t], Sock(t))
  /\ Goto(t, "exiting")
  /\ UNCHANGED <<up, peer, accepted, arriving, slot, sock, file, dbfd, pinned, readers>>

(* pthread_exit runs cleanup: sqlite3_close leaves a pinned handle open. *)
CleanUp(t) ==
  /\ At(t, "exiting")
  /\ IF dbfd[t] # NoFd /\ ~pinned[t]
       THEN CloseFd(dbfd[t], Db(t))
       ELSE UNCHANGED <<table, disturbed>>
  /\ Goto(t, "done")
  /\ UNCHANGED <<up, peer, accepted, arriving, slot, sock, file, dbfd, pinned, readers>>

ThreadStep(t) ==
  \/ ReadArgument(t) \/ OpenDatabase(t) \/ OpenDatabaseFails(t)
  \/ CallRecv(t) \/ RecvAgain(t) \/ ServePacket(t) \/ RecvFails(t)
  \/ CloseInRecv(t) \/ CloseAgain(t) \/ CleanUp(t)

AcceptNext ==
  \/ \E c \in Conns : PeerConnects(c) \/ PeerLeaves(c)
                      \/ AcceptReturns(c) \/ AcceptExhausted(c) \/ ThreadStep(c)
  \/ CreateThread \/ CreateFails

AcceptSpec == AcceptInit /\ [][AcceptNext]_acceptVars

-----------------------------------------------------------------------------
(* Properties. *)

(* Until the first time a thread uses a descriptor that is not its own,    *)
(* every descriptor in use is accounted for: a socket by main, by a thread *)
(* that has yet to copy it, or by the thread that will close it; a         *)
(* database file by a thread that runs or by a statement left on it.       *)
Ownership ==
  ~disturbed =>
    \A fd \in Fds, c \in Conns :
      /\ table[fd] = Sock(c) =>
           \/ arriving = c /\ slot = fd
           \/ tpc[c] = "created"
           \/ tpc[c] \in {"opening", "idle", "recv", "payload", "failed", "closing"} /\ sock[c] = fd
      /\ table[fd] = Db(c) => dbfd[c] = fd /\ (tpc[c] = "done" => pinned[c])

(* Then also, each connection is read by one thread, the one created for it. *)
OwnReader == ~disturbed => \A c \in Conns : readers[c] \subseteq {c}

(* server.c, "Define server handling of each client": a connection is read *)
(* by one thread. (Two threads may read the slot after the second accept.) *)
OneThreadPerConnection == \A c \in Conns : Cardinality(readers[c]) <= 1

(* TODO of recv_packet, "If a socket error happen automaticly close the    *)
(* socket and close the thread": the socket that is closed is the thread's *)
(* own, as long as no thread went astray before. (The second close hits    *)
(* whatever has got the number since the first one.)                       *)
ClosesItsOwn ==
  [][\A t \in Conns :
       CloseAgain(t) /\ ~disturbed => table[sock[t]] \in {Sock(t), Free}]_acceptVars
=============================================================================
