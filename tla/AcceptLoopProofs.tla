--------------------------- MODULE AcceptLoopProofs ---------------------------
(***************************************************************************)
(* The accept loop and its descriptors, for any connections and any size   *)
(* of the descriptor table.                                                *)
(***************************************************************************)
EXTENDS AcceptLoop, TLAPS

(* What holds whatever the threads do to each other: descriptors are set   *)
(* before they are used, and a connection is in the table once, from its   *)
(* accept on.                                                              *)
Copied == {"opening", "idle", "recv", "payload", "failed", "closing", "exiting", "done"}
TypeInv ==
  /\ AcceptTypeOK
  /\ arriving # NoConn => arriving \in accepted /\ tpc[arriving] = "none"
  /\ accepted # {} => slot \in Fds
  /\ \A t \in Conns : /\ tpc[t] # "none" => t \in accepted
                      /\ tpc[t] \in Copied => sock[t] \in Fds
                      /\ tpc[t] \in {"none", "created", "opening"} => dbfd[t] = NoFd
  /\ \A c \in Conns, fd \in Fds : table[fd] = Sock(c) => c \in accepted
  /\ \A c \in Conns, f, g \in Fds : table[f] = Sock(c) /\ table[g] = Sock(c) => f = g

(* What holds as long as no thread went astray: until it closes it, the    *)
(* descriptor of a thread refers to its own connection.                    *)
Holding == {"opening", "idle", "recv", "payload", "failed"}
OwnSockets == \A t \in Conns : tpc[t] \in Holding => table[sock[t]] = Sock(t)
OwnFiles == \A t \in Conns : file[t].kind = "sock" => file[t] = Sock(t)
OwnInv == ~disturbed => OwnSockets /\ OwnFiles /\ (\A c \in Conns : readers[c] \subseteq {c})

SockOwned(fd, c) ==
  \/ arriving = c /\ slot = fd
  \/ tpc[c] = "created"
  \/ tpc[c] \in {"opening", "idle", "recv", "payload", "failed", "closing"} /\ sock[c] = fd
DbOwned(fd, c) == dbfd[c] = fd /\ (tpc[c] = "done" => pinned[c])
TableInv ==
  ~disturbed => \A fd \in Fds, c \in Conns :
                  /\ table[fd] = Sock(c) => SockOwned(fd, c)
                  /\ table[fd] = Db(c) => DbOwned(fd, c)

(* What a descriptor refers to can be told apart. *)
LEMMA Kinds ==
  /\ \A c : Sock(c).kind = "sock" /\ Sock(c).of = c /\ Db(c).kind # "sock"
            /\ Sock(c) # Free /\ Db(c) # Free
  /\ \A c, d : Sock(c) # Db(d) /\ (Sock(c) = Sock(d) => c = d) /\ (Db(c) = Db(d) => c = d)
  /\ Free.kind # "sock" /\ Free \in File
  /\ \A c \in Conns : Sock(c) \in File /\ Db(c) \in File
  /\ \A f \in File : f.kind = "sock" => f.of \in Conns /\ f = Sock(f.of)
<1>1. \A c : Sock(c).kind = "sock" /\ Sock(c).of = c /\ Db(c).kind = "db" /\ Db(c).of = c
  BY DEF Sock, Db
<1>2. Free.kind = "free" BY DEF Free
<1>3. \A f \in File : f.kind = "sock" => f.of \in Conns /\ f = Sock(f.of)
  <2> SUFFICES ASSUME NEW f \in File, f.kind = "sock" PROVE f.of \in Conns /\ f = Sock(f.of)
    OBVIOUS
  <2>1. PICK c \in Conns : f = Sock(c) BY <1>1, <1>2 DEF File
  <2> QED BY <2>1, <1>1
<1>4. Free \in File /\ \A c \in Conns : Sock(c) \in File /\ Db(c) \in File BY DEF File
<1> QED BY <1>1, <1>2, <1>3, <1>4

LEMMA InitTypes == AcceptInit => TypeInv /\ OwnInv /\ TableInv
<1> SUFFICES ASSUME AcceptInit PROVE TypeInv /\ OwnInv /\ TableInv OBVIOUS
<1>1. /\ up = TRUE /\ disturbed = FALSE /\ accepted = {} /\ arriving = NoConn /\ slot = NoFd
      /\ peer = [c \in Conns |-> "idle"] /\ table = [fd \in Fds |-> Free]
      /\ tpc = [t \in Conns |-> "none"] /\ sock = [t \in Conns |-> NoFd]
      /\ file = [t \in Conns |-> Free] /\ dbfd = [t \in Conns |-> NoFd]
      /\ pinned = [t \in Conns |-> FALSE] /\ readers = [c \in Conns |-> {}]
  BY DEF AcceptInit
<1>2. AcceptTypeOK BY <1>1, Kinds DEF AcceptTypeOK
<1>3. TypeInv BY <1>1, <1>2, Kinds DEF TypeInv, Copied
<1>4. OwnInv BY <1>1, Kinds DEF OwnInv, OwnSockets, OwnFiles, Holding
<1>5. TableInv BY <1>1, Kinds DEF TableInv
<1> QED BY <1>3, <1>4, <1>5

-----------------------------------------------------------------------------
(* Two ways in which the table changes. *)

LEMMA Lowest == \A fd \in Fds : IsLowest(fd) => table[fd] = Free
BY DEF IsLowest, FreeFds

(* A descriptor that was free is given to a file. *)
LEMMA GiveOut ==
  ASSUME table \in [Fds -> File], NEW fd \in Fds, NEW f \in File, table' = [table EXCEPT ![fd] = f]
  PROVE  table' \in [Fds -> File] /\ \A g \in Fds : table'[g] = IF g = fd THEN f ELSE table[g]
OBVIOUS

LEMMA Closing ==
  ASSUME table \in [Fds -> File], NEW fd \in Fds, NEW own, CloseFd(fd, own)
  PROVE  /\ table' \in [Fds -> File] /\ disturbed' \in BOOLEAN
         /\ \A g \in Fds : table'[g] = IF g = fd THEN Free ELSE table[g]
         /\ disturbed \in BOOLEAN /\ ~disturbed' => ~disturbed /\ table[fd] \in {own, Free}
BY Kinds DEF CloseFd

-----------------------------------------------------------------------------
(* TypeInv, one lemma per action that has more to it than its types. *)

LEMMA TypesAccept ==
  ASSUME TypeInv, NEW c \in Conns, AcceptReturns(c)
  PROVE  TypeInv'
<1>t. AcceptTypeOK BY DEF TypeInv
<1>1. PICK fd \in Fds : IsLowest(fd) /\ slot' = fd /\ table' = [table EXCEPT ![fd] = Sock(c)]
  BY DEF AcceptReturns
<1>2. /\ Pending(c) /\ accepted' = accepted \cup {c} /\ arriving' = c
      /\ UNCHANGED <<up, peer, tpc, sock, file, dbfd, pinned, readers, disturbed>>
  BY DEF AcceptReturns
<1>3. arriving = NoConn /\ c \notin accepted BY <1>2 DEF Pending
<1>4. table' \in [Fds -> File] /\ \A g \in Fds : table'[g] = IF g = fd THEN Sock(c) ELSE table[g]
  BY <1>t, <1>1, Kinds, GiveOut DEF AcceptTypeOK
<1>5. AcceptTypeOK' BY <1>t, <1>1, <1>2, <1>4 DEF AcceptTypeOK
<1>6. tpc[c] = "none" BY <1>3 DEF TypeInv
<1>7. \A d \in Conns, g \in Fds : table'[g] = Sock(d) => d \in accepted'
  BY <1>4, <1>2, Kinds DEF TypeInv
<1>8. ASSUME NEW d \in Conns, NEW f \in Fds, NEW g \in Fds, table'[f] = Sock(d), table'[g] = Sock(d)
      PROVE  f = g
  <2>1. CASE d = c
    <3>1. table[f] # Sock(c) /\ table[g] # Sock(c) BY <1>3 DEF TypeInv
    <3> QED BY <3>1, <2>1, <1>8, <1>4
  <2>2. CASE d # c
    <3>1. Sock(d) # Sock(c) BY <2>2, Kinds
    <3>2. table[f] = Sock(d) /\ table[g] = Sock(d) BY <3>1, <1>8, <1>4
    <3> QED BY <3>2 DEF TypeInv
  <2> QED BY <2>1, <2>2
<1>9. \A t \in Conns : /\ tpc'[t] # "none" => t \in accepted'
                       /\ tpc'[t] \in Copied => sock'[t] \in Fds
                       /\ tpc'[t] \in {"none", "created", "opening"} => dbfd'[t] = NoFd
  BY <1>2 DEF TypeInv
<1> QED BY <1>1, <1>2, <1>5, <1>6, <1>7, <1>8, <1>9 DEF TypeInv

LEMMA TypesClose ==
  ASSUME TypeInv, NEW t \in Conns, NEW fd \in Fds, NEW own, CloseFd(fd, own),
         NEW pc \in Copied, tpc[t] \in Copied \ {"opening"}, pc # "opening", Goto(t, pc),
         UNCHANGED <<up, peer, accepted, arriving, slot, sock, file, dbfd, pinned, readers>>
  PROVE  TypeInv'
<1>t. AcceptTypeOK BY DEF TypeInv
<1>1. /\ table' \in [Fds -> File] /\ disturbed' \in BOOLEAN
      /\ \A g \in Fds : table'[g] = IF g = fd THEN Free ELSE table[g]
  BY <1>t, Closing DEF AcceptTypeOK
<1>2. tpc' = [tpc EXCEPT ![t] = pc] BY DEF Goto
<1>3. \A u \in Conns : tpc'[u] = IF u = t THEN pc ELSE tpc[u] BY <1>2, <1>t DEF AcceptTypeOK
<1>4. AcceptTypeOK' BY <1>1, <1>2, <1>t DEF AcceptTypeOK, Copied
<1>5. \A c \in Conns, g \in Fds : table'[g] = Sock(c) => table[g] = Sock(c) BY <1>1, Kinds
<1>6. \A u \in Conns : /\ tpc'[u] # "none" => u \in accepted'
                       /\ tpc'[u] \in Copied => sock'[u] \in Fds
                       /\ tpc'[u] \in {"none", "created", "opening"} => dbfd'[u] = NoFd
  BY <1>3 DEF TypeInv, Copied
<1>7. arriving' # NoConn => arriving' \in accepted' /\ tpc'[arriving'] = "none"
  BY <1>3, <1>t DEF TypeInv, Copied, AcceptTypeOK
<1> QED BY <1>4, <1>5, <1>6, <1>7 DEF TypeInv

(* A step that leaves the table, the hand-over and the counters alone. *)
LEMMA TypesStay ==
  ASSUME TypeInv, NEW t \in Conns, NEW pc \in Copied, tpc[t] \in Copied, Goto(t, pc),
         pc # "opening", AcceptTypeOK',
         UNCHANGED <<up, accepted, arriving, slot, table, sock, dbfd>>
  PROVE  TypeInv'
<1>t. AcceptTypeOK BY DEF TypeInv
<1>1. \A u \in Conns : tpc'[u] = IF u = t THEN pc ELSE tpc[u]
  BY <1>t DEF AcceptTypeOK, Goto
<1>2. \A u \in Conns : /\ tpc'[u] # "none" => u \in accepted'
                       /\ tpc'[u] \in Copied => sock'[u] \in Fds
                       /\ tpc'[u] \in {"none", "created", "opening"} => dbfd'[u] = NoFd
  BY <1>1 DEF TypeInv, Copied
<1>3. arriving' # NoConn => arriving' \in accepted' /\ tpc'[arriving'] = "none"
  BY <1>1, <1>t DEF TypeInv, Copied, AcceptTypeOK
<1> QED BY <1>2, <1>3 DEF TypeInv

LEMMA TypesCreate ==
  ASSUME TypeInv, CreateThread
  PROVE  TypeInv'
<1>t. AcceptTypeOK BY DEF TypeInv
<1>1. /\ arriving # NoConn /\ arriving' = NoConn /\ tpc' = [tpc EXCEPT ![arriving] = "created"]
      /\ UNCHANGED <<up, peer, accepted, slot, table, sock, file, dbfd, pinned, readers, disturbed>>
  BY DEF CreateThread
<1>2. arriving \in Conns /\ arriving \in accepted /\ tpc[arriving] = "none"
  BY <1>1, <1>t DEF TypeInv, AcceptTypeOK
<1>3. \A u \in Conns : tpc'[u] = IF u = arriving THEN "created" ELSE tpc[u]
  BY <1>1, <1>2, <1>t DEF AcceptTypeOK
<1>4. AcceptTypeOK' BY <1>1, <1>2, <1>t DEF AcceptTypeOK
<1>5. \A u \in Conns : /\ tpc'[u] # "none" => u \in accepted'
                       /\ tpc'[u] \in Copied => sock'[u] \in Fds
                       /\ tpc'[u] \in {"none", "created", "opening"} => dbfd'[u] = NoFd
  BY <1>1, <1>2, <1>3 DEF TypeInv, Copied
<1> QED BY <1>1, <1>4, <1>5 DEF TypeInv

LEMMA TypesReadArgument ==
  ASSUME TypeInv, NEW t \in Conns, ReadArgument(t)
  PROVE  TypeInv'
<1>t. AcceptTypeOK BY DEF TypeInv
<1>1. /\ tpc[t] = "created" /\ sock' = [sock EXCEPT ![t] = slot]
      /\ disturbed' = (disturbed \/ table[slot] # Sock(t)) /\ tpc' = [tpc EXCEPT ![t] = "opening"]
      /\ UNCHANGED <<up, peer, accepted, arriving, slot, table, file, dbfd, pinned, readers>>
  BY DEF ReadArgument, At, Goto
<1>2. slot \in Fds /\ t \in accepted BY <1>1 DEF TypeInv
<1>3. \A u \in Conns : /\ tpc'[u] = IF u = t THEN "opening" ELSE tpc[u]
                       /\ sock'[u] = IF u = t THEN slot ELSE sock[u]
  BY <1>1, <1>t DEF AcceptTypeOK
<1>4. AcceptTypeOK'
  <2>1. disturbed' \in BOOLEAN BY <1>1, <1>t DEF AcceptTypeOK
  <2> QED BY <1>1, <1>2, <1>t, <2>1 DEF AcceptTypeOK
<1>5. \A u \in Conns : /\ tpc'[u] # "none" => u \in accepted'
                       /\ tpc'[u] \in Copied => sock'[u] \in Fds
                       /\ tpc'[u] \in {"none", "created", "opening"} => dbfd'[u] = NoFd
  BY <1>1, <1>2, <1>3 DEF TypeInv, Copied
<1>6. arriving' # NoConn => arriving' \in accepted' /\ tpc'[arriving'] = "none"
  BY <1>1, <1>3, <1>t DEF TypeInv, AcceptTypeOK
<1> QED BY <1>1, <1>4, <1>5, <1>6 DEF TypeInv

LEMMA TypesOpen ==
  ASSUME TypeInv, NEW t \in Conns, OpenDatabase(t)
  PROVE  TypeInv'
<1>t. AcceptTypeOK BY DEF TypeInv
<1>1. PICK fd \in Fds : IsLowest(fd) /\ dbfd' = [dbfd EXCEPT ![t] = fd]
                        /\ table' = [table EXCEPT ![fd] = Db(t)]
  BY DEF OpenDatabase
<1>2. /\ tpc[t] = "opening" /\ tpc' = [tpc EXCEPT ![t] = "idle"]
      /\ UNCHANGED <<up, peer, accepted, arriving, slot, sock, file, pinned, readers, disturbed>>
  BY DEF OpenDatabase, At, Goto
<1>3. table' \in [Fds -> File] /\ \A g \in Fds : table'[g] = IF g = fd THEN Db(t) ELSE table[g]
  BY <1>t, <1>1, Kinds, GiveOut DEF AcceptTypeOK
<1>4. \A u \in Conns : /\ tpc'[u] = IF u = t THEN "idle" ELSE tpc[u]
                       /\ dbfd'[u] = IF u = t THEN fd ELSE dbfd[u]
  BY <1>1, <1>2, <1>t DEF AcceptTypeOK
<1>5. AcceptTypeOK' BY <1>1, <1>2, <1>3, <1>t DEF AcceptTypeOK
<1>6. \A c \in Conns, g \in Fds : table'[g] = Sock(c) => table[g] = Sock(c) BY <1>3, Kinds
<1>7. \A u \in Conns : /\ tpc'[u] # "none" => u \in accepted'
                       /\ tpc'[u] \in Copied => sock'[u] \in Fds
                       /\ tpc'[u] \in {"none", "created", "opening"} => dbfd'[u] = NoFd
  BY <1>2, <1>4 DEF TypeInv, Copied
<1>8. arriving' # NoConn => arriving' \in accepted' /\ tpc'[arriving'] = "none"
  BY <1>2, <1>4, <1>t DEF TypeInv, AcceptTypeOK
<1> QED BY <1>2, <1>5, <1>6, <1>7, <1>8 DEF TypeInv

LEMMA TypesOpenFails ==
  ASSUME TypeInv, NEW t \in Conns, OpenDatabaseFails(t)
  PROVE  TypeInv'
<1>t. AcceptTypeOK BY DEF TypeInv
<1>1. tpc[t] = "opening" /\ Goto(t, "idle")
      /\ UNCHANGED <<up, peer, accepted, arriving, slot, table, sock, file, dbfd, pinned, readers,
                     disturbed>>
  BY DEF OpenDatabaseFails, At
<1>2. AcceptTypeOK' BY <1>1, <1>t DEF AcceptTypeOK, Goto
<1> QED BY <1>1, <1>2, TypesStay DEF Copied

LEMMA TypesRecv ==
  ASSUME TypeInv, NEW t \in Conns, CallRecv(t) \/ RecvAgain(t) \/ ServePacket(t) \/ RecvFails(t)
  PROVE  TypeInv'
<1>t. AcceptTypeOK BY DEF TypeInv
<1>1. CASE CallRecv(t)
  <2>1. tpc[t] = "idle" /\ Goto(t, "recv") /\ file' = [file EXCEPT ![t] = table[sock[t]]]
        /\ UNCHANGED <<up, peer, accepted, arriving, slot, table, sock, dbfd, pinned, readers,
                       disturbed>>
    BY <1>1 DEF CallRecv, At
  <2>2. sock[t] \in Fds BY <2>1 DEF TypeInv, Copied
  <2>3. table[sock[t]] \in File BY <2>2, <1>t DEF AcceptTypeOK
  <2>4. AcceptTypeOK' BY <2>1, <2>3, <1>t DEF AcceptTypeOK, Goto
  <2> QED BY <2>1, <2>4, TypesStay DEF Copied
<1>2. CASE ServePacket(t)
  <2>1. /\ tpc[t] \in {"recv", "payload"} /\ Goto(t, "idle") /\ file' = [file EXCEPT ![t] = Free]
        /\ file[t].kind = "sock"
        /\ readers' = [readers EXCEPT ![file[t].of] = @ \cup {t}]
        /\ UNCHANGED <<up, peer, accepted, arriving, slot, table, sock, dbfd, disturbed>>
    BY <1>2 DEF ServePacket
  <2>2. pinned' \in [Conns -> BOOLEAN]
    <3>1. PICK leaves \in BOOLEAN :
            pinned' = [pinned EXCEPT ![t] = @ \/ (leaves /\ dbfd[t] # NoFd)]
      BY <1>2 DEF ServePacket
    <3>2. pinned \in [Conns -> BOOLEAN] BY <1>t DEF AcceptTypeOK
    <3> QED BY <3>1, <3>2
  <2>3. file[t].of \in Conns BY <2>1, <1>t, Kinds DEF AcceptTypeOK
  <2>4. readers' \in [Conns -> SUBSET Conns] BY <2>1, <2>3, <1>t DEF AcceptTypeOK
  <2>5. AcceptTypeOK' BY <2>1, <2>2, <2>4, <1>t, Kinds DEF AcceptTypeOK, Goto
  <2> QED BY <2>1, <2>5, TypesStay DEF Copied
<1>3. CASE RecvFails(t)
  <2>1. PICK pc \in {"failed", "closing"} : Goto(t, pc) BY <1>3 DEF RecvFails
  <2>2. tpc[t] \in {"recv", "payload"} /\ file' = [file EXCEPT ![t] = Free]
        /\ UNCHANGED <<up, peer, accepted, arriving, slot, table, sock, dbfd, pinned, readers,
                       disturbed>>
    BY <1>3 DEF RecvFails
  <2>3. AcceptTypeOK' BY <2>1, <2>2, <1>t, Kinds DEF AcceptTypeOK, Goto
  <2> QED BY <2>1, <2>2, <2>3, TypesStay DEF Copied
<1>4. CASE RecvAgain(t)
  <2>1. /\ tpc[t] \in {"recv", "payload"} /\ file[t].kind = "sock"
        /\ readers' = [readers EXCEPT ![file[t].of] = @ \cup {t}]
        /\ file' = [file EXCEPT ![t] = table[sock[t]]]
        /\ UNCHANGED <<up, peer, accepted, arriving, slot, table, sock, dbfd, pinned, disturbed>>
    BY <1>4 DEF RecvAgain
  <2>2. PICK pc \in {"recv", "payload"} : Goto(t, pc) BY <1>4, <2>1 DEF RecvAgain
  <2>3. sock[t] \in Fds BY <2>1 DEF TypeInv, Copied
  <2>4. table[sock[t]] \in File BY <2>3, <1>t DEF AcceptTypeOK
  <2>5. file[t].of \in Conns BY <2>1, <1>t, Kinds DEF AcceptTypeOK
  <2>6. readers' \in [Conns -> SUBSET Conns] BY <2>1, <2>5, <1>t DEF AcceptTypeOK
  <2>7. AcceptTypeOK' BY <2>1, <2>2, <2>4, <2>6, <1>t DEF AcceptTypeOK, Goto
  <2> QED BY <2>1, <2>2, <2>7, TypesStay DEF Copied
<1> QED BY <1>1, <1>2, <1>3, <1>4

(* The two steps that close the socket, and the end of the thread. *)
LEMMA TypesEnd ==
  ASSUME TypeInv, NEW t \in Conns, CloseInRecv(t) \/ CloseAgain(t) \/ CleanUp(t)
  PROVE  TypeInv'
<1>t. AcceptTypeOK BY DEF TypeInv
<1>0. tpc[t] \in Copied \ {"opening"} /\ sock[t] \in Fds
      /\ UNCHANGED <<up, peer, accepted, arriving, slot, sock, file, dbfd, pinned, readers>>
  BY DEF CloseInRecv, CloseAgain, CleanUp, At, TypeInv, Copied
<1>1. CASE CloseInRecv(t)
  BY <1>0, <1>1, TypesClose DEF CloseInRecv, Copied
<1>2. CASE CloseAgain(t)
  BY <1>0, <1>2, TypesClose DEF CloseAgain, Copied
<1>3. CASE CleanUp(t)
  <2>1. Goto(t, "done") BY <1>3 DEF CleanUp
  <2>2. CASE dbfd[t] # NoFd /\ ~pinned[t]
    <3>1. dbfd[t] \in Fds BY <2>2, <1>t DEF AcceptTypeOK
    <3>2. CloseFd(dbfd[t], Db(t)) BY <1>3, <2>2 DEF CleanUp
    <3> QED BY <1>0, <2>1, <3>1, <3>2, TypesClose DEF Copied
  <2>3. CASE ~(dbfd[t] # NoFd /\ ~pinned[t])
    <3>1. UNCHANGED <<table, disturbed>> BY <1>3, <2>3 DEF CleanUp
    <3>2. AcceptTypeOK' BY <1>0, <2>1, <3>1, <1>t DEF AcceptTypeOK, Goto
    <3> QED BY <1>0, <2>1, <3>1, <3>2, TypesStay DEF Copied
  <2> QED BY <2>2, <2>3
<1> QED BY <1>1, <1>2, <1>3

(* The other end of a connection, and the two ways in which main exits. *)
Outside == \/ \E c \in Conns : PeerConnects(c) \/ PeerLeaves(c) \/ AcceptExhausted(c)
           \/ CreateFails

LEMMA OutsideKeeps ==
  ASSUME AcceptTypeOK, Outside \/ UNCHANGED acceptVars
  PROVE  /\ AcceptTypeOK'
         /\ UNCHANGED <<accepted, arriving, slot, table, tpc, sock, file, dbfd, pinned, readers,
                        disturbed>>
<1>1. CASE UNCHANGED acceptVars BY <1>1 DEF acceptVars, AcceptTypeOK
<1>2. CASE CreateFails BY <1>2 DEF CreateFails, AcceptTypeOK
<1>3. ASSUME NEW c \in Conns, PeerConnects(c) \/ PeerLeaves(c) \/ AcceptExhausted(c)
      PROVE  /\ AcceptTypeOK'
             /\ UNCHANGED <<accepted, arriving, slot, table, tpc, sock, file, dbfd, pinned,
                            readers, disturbed>>
  BY <1>3 DEF PeerConnects, PeerLeaves, AcceptExhausted, AcceptTypeOK
<1> QED BY <1>1, <1>2, <1>3 DEF Outside

LEMMA NextCases ==
  ASSUME [AcceptNext]_acceptVars
  PROVE  \/ Outside \/ UNCHANGED acceptVars \/ CreateThread
         \/ \E c \in Conns : AcceptReturns(c)
         \/ \E t \in Conns : ReadArgument(t) \/ OpenDatabase(t) \/ OpenDatabaseFails(t)
                             \/ CallRecv(t) \/ RecvAgain(t) \/ ServePacket(t) \/ RecvFails(t)
                             \/ CloseInRecv(t) \/ CloseAgain(t) \/ CleanUp(t)
BY DEF AcceptNext, ThreadStep, Outside

LEMMA TypeStep == TypeInv /\ [AcceptNext]_acceptVars => TypeInv'
<1> SUFFICES ASSUME TypeInv, [AcceptNext]_acceptVars PROVE TypeInv' OBVIOUS
<1>1. CASE Outside \/ UNCHANGED acceptVars
  <2>1. AcceptTypeOK BY DEF TypeInv
  <2> QED BY <1>1, <2>1, OutsideKeeps DEF TypeInv
<1>2. CASE CreateThread BY <1>2, TypesCreate
<1>3. ASSUME NEW c \in Conns, AcceptReturns(c) PROVE TypeInv' BY <1>3, TypesAccept
<1>4. ASSUME NEW t \in Conns, \/ ReadArgument(t) \/ OpenDatabase(t) \/ OpenDatabaseFails(t)
                              \/ CallRecv(t) \/ RecvAgain(t) \/ ServePacket(t) \/ RecvFails(t)
                              \/ CloseInRecv(t) \/ CloseAgain(t) \/ CleanUp(t)
      PROVE  TypeInv'
  BY <1>4, TypesReadArgument, TypesOpen, TypesOpenFails, TypesRecv, TypesEnd
<1> QED BY <1>1, <1>2, <1>3, <1>4, NextCases

-----------------------------------------------------------------------------
(* OwnInv and TableInv. Both take the step apart in the same way: which    *)
(* descriptor it gives out or frees, and which thread it moves.            *)

(* A step that gives the table no new entry, and frees at most descriptors *)
(* no thread but t refers to, leaves the others what they hold.            *)
LEMMA OwnMove ==
  ASSUME TypeInv, OwnInv, ~disturbed', ~disturbed,
         NEW t \in Conns,
         \A u \in Conns \ {t} : tpc'[u] = tpc[u] /\ sock'[u] = sock[u],
         \A u \in Conns \ {t} : tpc[u] \in Holding =>
                                table'[sock[u]] = table[sock[u]],
         tpc'[t] \in Holding => table'[sock'[t]] = Sock(t),
         file' = file \/ file' = [file EXCEPT ![t] = Free] \/ file' = [file EXCEPT ![t] = Sock(t)],
         readers' = readers \/ readers' = [readers EXCEPT ![t] = @ \cup {t}]
  PROVE  OwnInv'
<1>t. AcceptTypeOK BY DEF TypeInv
<1>1. OwnSockets /\ OwnFiles /\ \A c \in Conns : readers[c] \subseteq {c} BY DEF OwnInv
<1>2. OwnSockets' BY <1>1 DEF OwnSockets
<1>3. OwnFiles'
  <2>1. \A u \in Conns : file'[u] \in {file[u], Free} \/ (u = t /\ file'[u] = Sock(t))
    BY <1>t DEF AcceptTypeOK
  <2> QED BY <2>1, <1>1, Kinds DEF OwnFiles
<1>4. \A c \in Conns : readers'[c] \subseteq {c} BY <1>1, <1>t DEF AcceptTypeOK
<1> QED BY <1>2, <1>3, <1>4 DEF OwnInv

(* The socket of a thread that still holds it is no other file. *)
LEMMA HeldApart ==
  ASSUME TypeInv, OwnInv, ~disturbed, NEW u \in Conns, tpc[u] \in Holding
  PROVE  sock[u] \in Fds /\ table[sock[u]] = Sock(u)
BY DEF TypeInv, OwnInv, OwnSockets, Holding, Copied

LEMMA OwnAccept ==
  ASSUME TypeInv, OwnInv, NEW c \in Conns, AcceptReturns(c)
  PROVE  OwnInv'
<1> SUFFICES ASSUME ~disturbed' PROVE OwnInv' BY DEF OwnInv
<1>t. AcceptTypeOK BY DEF TypeInv
<1>1. PICK fd \in Fds : IsLowest(fd) /\ table' = [table EXCEPT ![fd] = Sock(c)]
  BY DEF AcceptReturns
<1>2. /\ ~disturbed /\ UNCHANGED <<tpc, sock, file, readers>> BY DEF AcceptReturns
<1>3. \A g \in Fds : g # fd => table'[g] = table[g] BY <1>1, <1>t DEF AcceptTypeOK
<1>4. table[fd] = Free BY <1>1, Lowest
<1>5. \A u \in Conns : tpc[u] \in Holding => sock[u] \in Fds /\ table[sock[u]] = Sock(u)
  BY <1>2, HeldApart
<1>6. \A u \in Conns : tpc[u] \in Holding => sock[u] # fd BY <1>4, <1>5, Kinds
<1>7. OwnSockets' BY <1>2, <1>3, <1>5, <1>6 DEF OwnSockets
<1>8. OwnFiles' BY <1>2 DEF OwnInv, OwnFiles
<1> QED BY <1>2, <1>7, <1>8 DEF OwnInv

LEMMA OwnCreate ==
  ASSUME TypeInv, OwnInv, CreateThread
  PROVE  OwnInv'
<1>t. AcceptTypeOK BY DEF TypeInv
<1>1. /\ arriving # NoConn /\ tpc' = [tpc EXCEPT ![arriving] = "created"]
      /\ UNCHANGED <<table, sock, file, readers, disturbed>>
  BY DEF CreateThread
<1>2. \A u \in Conns : tpc'[u] \in Holding => tpc[u] \in Holding
  BY <1>1, <1>t DEF AcceptTypeOK, Holding
<1>3. OwnInv => OwnInv' BY <1>1, <1>2 DEF OwnInv, OwnSockets, OwnFiles
<1> QED BY <1>3

LEMMA OwnReadArgument ==
  ASSUME TypeInv, OwnInv, NEW t \in Conns, ReadArgument(t)
  PROVE  OwnInv'
<1> SUFFICES ASSUME ~disturbed' PROVE OwnInv' BY DEF OwnInv
<1>t. AcceptTypeOK BY DEF TypeInv
<1>1. /\ sock' = [sock EXCEPT ![t] = slot] /\ tpc' = [tpc EXCEPT ![t] = "opening"]
      /\ disturbed' = (disturbed \/ table[slot] # Sock(t))
      /\ UNCHANGED <<table, file, readers>>
  BY DEF ReadArgument, Goto
<1>2. ~disturbed /\ table[slot] = Sock(t) BY <1>1
<1>3. sock'[t] = slot BY <1>1, <1>t DEF AcceptTypeOK
<1>4. \A u \in Conns \ {t} : tpc'[u] = tpc[u] /\ sock'[u] = sock[u]
  BY <1>1, <1>t DEF AcceptTypeOK
<1>5. \A u \in Conns \ {t} : tpc[u] \in Holding => table'[sock[u]] = table[sock[u]] BY <1>1
<1> QED BY <1>1, <1>2, <1>3, <1>4, <1>5, OwnMove

LEMMA OwnOpen ==
  ASSUME TypeInv, OwnInv, NEW t \in Conns, OpenDatabase(t) \/ OpenDatabaseFails(t)
  PROVE  OwnInv'
<1> SUFFICES ASSUME ~disturbed' PROVE OwnInv' BY DEF OwnInv
<1>t. AcceptTypeOK BY DEF TypeInv
<1>1. /\ tpc[t] = "opening" /\ tpc' = [tpc EXCEPT ![t] = "idle"] /\ ~disturbed
      /\ UNCHANGED <<sock, file, readers>>
  BY DEF OpenDatabase, OpenDatabaseFails, At, Goto
<1>2. \A u \in Conns : tpc[u] \in Holding => sock[u] \in Fds /\ table[sock[u]] = Sock(u)
  BY <1>1, HeldApart
<1>3. \A g \in Fds : table[g] # Free => table'[g] = table[g]
  <2>1. CASE OpenDatabaseFails(t) BY <2>1 DEF OpenDatabaseFails
  <2>2. CASE OpenDatabase(t)
    <3>1. PICK fd \in Fds : IsLowest(fd) /\ table' = [table EXCEPT ![fd] = Db(t)]
      BY <2>2 DEF OpenDatabase
    <3>2. table[fd] = Free BY <3>1, Lowest
    <3> QED BY <3>1, <3>2, <1>t DEF AcceptTypeOK
  <2> QED BY <2>1, <2>2
<1>4. \A u \in Conns : tpc[u] \in Holding => table'[sock[u]] = table[sock[u]]
  BY <1>2, <1>3, Kinds
<1>5. \A u \in Conns \ {t} : tpc'[u] = tpc[u] /\ sock'[u] = sock[u]
  BY <1>1, <1>t DEF AcceptTypeOK
<1>6. tpc[t] \in Holding BY <1>1 DEF Holding
<1>7. table'[sock'[t]] = Sock(t) BY <1>1, <1>2, <1>4, <1>6
<1> QED BY <1>1, <1>4, <1>5, <1>7, OwnMove

LEMMA OwnRecv ==
  ASSUME TypeInv, OwnInv, NEW t \in Conns, CallRecv(t) \/ RecvAgain(t) \/ ServePacket(t) \/ RecvFails(t)
  PROVE  OwnInv'
<1> SUFFICES ASSUME ~disturbed' PROVE OwnInv' BY DEF OwnInv
<1>t. AcceptTypeOK BY DEF TypeInv
<1>1. tpc[t] \in {"idle", "recv", "payload"} /\ ~disturbed /\ UNCHANGED <<table, sock>>
  BY DEF CallRecv, RecvAgain, ServePacket, RecvFails, At
<1>2. sock[t] \in Fds /\ table[sock[t]] = Sock(t) BY <1>1, HeldApart DEF Holding
<1>3. \A u \in Conns \ {t} : tpc'[u] = tpc[u] /\ sock'[u] = sock[u]
  BY <1>1, <1>t DEF CallRecv, RecvAgain, ServePacket, RecvFails, Goto, AcceptTypeOK
<1>4. file' = [file EXCEPT ![t] = Free] \/ file' = [file EXCEPT ![t] = Sock(t)]
  BY <1>2 DEF CallRecv, RecvAgain, ServePacket, RecvFails
<1>5. readers' = readers \/ readers' = [readers EXCEPT ![t] = @ \cup {t}]
  <2>1. CASE RecvAgain(t) \/ ServePacket(t)
    <3>1. file[t].kind = "sock" /\ readers' = [readers EXCEPT ![file[t].of] = @ \cup {t}]
      BY <2>1 DEF RecvAgain, ServePacket
    <3>2. file[t] = Sock(t) BY <3>1, <1>1 DEF OwnInv, OwnFiles
    <3>3. file[t].of = t BY <3>2, Kinds
    <3> QED BY <3>1, <3>3
  <2>2. CASE CallRecv(t) \/ RecvFails(t) BY <2>2 DEF CallRecv, RecvFails
  <2> QED BY <2>1, <2>2
<1>6. table'[sock'[t]] = Sock(t) BY <1>1, <1>2
<1>7. \A u \in Conns \ {t} : tpc[u] \in Holding => table'[sock[u]] = table[sock[u]] BY <1>1
<1> QED BY <1>1, <1>3, <1>4, <1>5, <1>6, <1>7, OwnMove

LEMMA OwnEnd ==
  ASSUME TypeInv, OwnInv, NEW t \in Conns, CloseInRecv(t) \/ CloseAgain(t) \/ CleanUp(t)
  PROVE  OwnInv'
<1> SUFFICES ASSUME ~disturbed' PROVE OwnInv' BY DEF OwnInv
<1>t. AcceptTypeOK BY DEF TypeInv
<1>1. /\ tpc[t] \in {"failed", "closing", "exiting"} /\ UNCHANGED <<sock, file, readers>>
      /\ Goto(t, "closing") \/ Goto(t, "exiting") \/ Goto(t, "done")
  BY DEF CloseInRecv, CloseAgain, CleanUp, At
<1>2. tpc'[t] \notin Holding /\ \A u \in Conns \ {t} : tpc'[u] = tpc[u] /\ sock'[u] = sock[u]
  BY <1>1, <1>t DEF Goto, Holding, AcceptTypeOK
<1>3. ~disturbed /\ \A g \in Fds : table'[g] = table[g] \/ table[g] \in {Sock(t), Db(t), Free}
  <2>1. CASE CloseInRecv(t) \/ CloseAgain(t)
    <3>1. CloseFd(sock[t], Sock(t)) /\ sock[t] \in Fds
      BY <2>1, <1>1 DEF CloseInRecv, CloseAgain, TypeInv, Copied
    <3> QED BY <3>1, <1>t, Closing DEF AcceptTypeOK
  <2>2. CASE CleanUp(t)
    <3>1. CASE dbfd[t] # NoFd /\ ~pinned[t]
      <4>1. CloseFd(dbfd[t], Db(t)) /\ dbfd[t] \in Fds
        BY <2>2, <3>1, <1>t DEF CleanUp, AcceptTypeOK
      <4> QED BY <4>1, <1>t, Closing DEF AcceptTypeOK
    <3>2. CASE ~(dbfd[t] # NoFd /\ ~pinned[t]) BY <2>2, <3>2 DEF CleanUp
    <3> QED BY <3>1, <3>2
  <2> QED BY <2>1, <2>2
<1>4. \A u \in Conns \ {t} : tpc[u] \in Holding => sock[u] \in Fds /\ table[sock[u]] = Sock(u)
  BY <1>3, HeldApart
<1>5. \A u \in Conns \ {t} : tpc[u] \in Holding => table'[sock[u]] = table[sock[u]]
  BY <1>3, <1>4, Kinds
<1> QED BY <1>1, <1>2, <1>3, <1>5, OwnMove

LEMMA OwnStep == TypeInv /\ OwnInv /\ [AcceptNext]_acceptVars => OwnInv'
<1> SUFFICES ASSUME TypeInv, OwnInv, [AcceptNext]_acceptVars PROVE OwnInv' OBVIOUS
<1>1. CASE Outside \/ UNCHANGED acceptVars
  <2>1. UNCHANGED <<table, tpc, sock, file, readers, disturbed>>
    BY <1>1, OutsideKeeps DEF TypeInv
  <2>2. OwnInv => OwnInv' BY <2>1 DEF OwnInv, OwnSockets, OwnFiles
  <2> QED BY <2>2
<1>2. CASE CreateThread BY <1>2, OwnCreate
<1>3. ASSUME NEW c \in Conns, AcceptReturns(c) PROVE OwnInv' BY <1>3, OwnAccept
<1>4. ASSUME NEW t \in Conns, \/ ReadArgument(t) \/ OpenDatabase(t) \/ OpenDatabaseFails(t)
                              \/ CallRecv(t) \/ RecvAgain(t) \/ ServePacket(t) \/ RecvFails(t)
                              \/ CloseInRecv(t) \/ CloseAgain(t) \/ CleanUp(t)
      PROVE  OwnInv'
  BY <1>4, OwnReadArgument, OwnOpen, OwnRecv, OwnEnd
<1> QED BY <1>1, <1>2, <1>3, <1>4, NextCases

-----------------------------------------------------------------------------
(* TableInv. *)

(* A step after which every entry that remains has kept its owner. *)
LEMMA TableMove ==
  ASSUME TableInv,
         ~disturbed' => ~disturbed,
         \A fd \in Fds, c \in Conns :
           ~disturbed' => /\ table'[fd] = Sock(c) =>
                               \/ SockOwned(fd, c)'
                               \/ table[fd] = Sock(c) /\ (SockOwned(fd, c) => SockOwned(fd, c)')
                          /\ table'[fd] = Db(c) =>
                               \/ DbOwned(fd, c)'
                               \/ table[fd] = Db(c) /\ (DbOwned(fd, c) => DbOwned(fd, c)')
  PROVE  TableInv'
BY DEF TableInv

LEMMA TableAccept ==
  ASSUME TypeInv, TableInv, NEW c \in Conns, AcceptReturns(c)
  PROVE  TableInv'
<1>t. AcceptTypeOK BY DEF TypeInv
<1>1. PICK fd \in Fds : slot' = fd /\ table' = [table EXCEPT ![fd] = Sock(c)]
  BY DEF AcceptReturns
<1>2. /\ arriving = NoConn /\ arriving' = c /\ UNCHANGED <<tpc, sock, dbfd, pinned, disturbed>>
  BY DEF AcceptReturns, Pending
<1>3. \A g \in Fds : table'[g] = IF g = fd THEN Sock(c) ELSE table[g]
  BY <1>1, <1>t DEF AcceptTypeOK
<1>4. SockOwned(fd, c)' BY <1>1, <1>2 DEF SockOwned
<1>5. \A g \in Fds, d \in Conns : SockOwned(g, d) => SockOwned(g, d)'
  BY <1>2, AcceptConnsAssumption DEF SockOwned
<1>6. \A g \in Fds, d \in Conns : DbOwned(g, d) => DbOwned(g, d)' BY <1>2 DEF DbOwned
<1>7. \A g \in Fds, d \in Conns : table'[g] = Sock(d) =>
                                  table[g] = Sock(d) \/ (g = fd /\ d = c)
  BY <1>3, Kinds
<1>8. \A g \in Fds, d \in Conns : table'[g] = Db(d) => table[g] = Db(d) BY <1>3, Kinds
<1> QED BY <1>2, <1>4, <1>5, <1>6, <1>7, <1>8, TableMove

LEMMA TableCreate ==
  ASSUME TypeInv, TableInv, CreateThread
  PROVE  TableInv'
<1>t. AcceptTypeOK BY DEF TypeInv
<1>1. /\ arriving # NoConn /\ tpc' = [tpc EXCEPT ![arriving] = "created"]
      /\ UNCHANGED <<slot, table, sock, dbfd, pinned, disturbed>>
  BY DEF CreateThread
<1>2. arriving \in Conns /\ tpc[arriving] = "none" BY <1>1, <1>t DEF TypeInv, AcceptTypeOK
<1>3. \A u \in Conns : tpc'[u] = IF u = arriving THEN "created" ELSE tpc[u]
  BY <1>1, <1>2, <1>t DEF AcceptTypeOK
<1>4. \A g \in Fds, d \in Conns : SockOwned(g, d) => SockOwned(g, d)'
  BY <1>1, <1>3 DEF SockOwned
<1>5. \A g \in Fds, d \in Conns : DbOwned(g, d) => DbOwned(g, d)' BY <1>1, <1>3 DEF DbOwned
<1> QED BY <1>1, <1>4, <1>5, TableMove

LEMMA TableReadArgument ==
  ASSUME TypeInv, TableInv, NEW t \in Conns, ReadArgument(t)
  PROVE  TableInv'
<1>t. AcceptTypeOK BY DEF TypeInv
<1>1. /\ sock' = [sock EXCEPT ![t] = slot] /\ tpc' = [tpc EXCEPT ![t] = "opening"]
      /\ disturbed' = (disturbed \/ table[slot] # Sock(t)) /\ tpc[t] = "created"
      /\ UNCHANGED <<arriving, slot, table, dbfd, pinned>>
  BY DEF ReadArgument, At, Goto
<1>2. slot \in Fds BY <1>1 DEF TypeInv
<1>3. \A u \in Conns : /\ tpc'[u] = IF u = t THEN "opening" ELSE tpc[u]
                       /\ sock'[u] = IF u = t THEN slot ELSE sock[u]
  BY <1>1, <1>t DEF AcceptTypeOK
<1>4. ~disturbed' => ~disturbed /\ table[slot] = Sock(t) BY <1>1
<1>5. ASSUME NEW g \in Fds, NEW d \in Conns, ~disturbed', table'[g] = Sock(d)
      PROVE  SockOwned(g, d)' \/ (table[g] = Sock(d) /\ (SockOwned(g, d) => SockOwned(g, d)'))
  <2>1. CASE d = t
    <3>1. g = slot BY <2>1, <1>1, <1>2, <1>4, <1>5 DEF TypeInv
    <3> QED BY <3>1, <2>1, <1>3 DEF SockOwned
  <2>2. CASE d # t BY <2>2, <1>1, <1>3, <1>5 DEF SockOwned
  <2> QED BY <2>1, <2>2
<1>6. \A g \in Fds, d \in Conns : DbOwned(g, d) => DbOwned(g, d)' BY <1>1, <1>3 DEF DbOwned
<1> QED BY <1>1, <1>4, <1>5, <1>6, TableMove

LEMMA TableOpen ==
  ASSUME TypeInv, TableInv, NEW t \in Conns, OpenDatabase(t)
  PROVE  TableInv'
<1>t. AcceptTypeOK BY DEF TypeInv
<1>1. PICK fd \in Fds : dbfd' = [dbfd EXCEPT ![t] = fd] /\ table' = [table EXCEPT ![fd] = Db(t)]
  BY DEF OpenDatabase
<1>2. /\ tpc[t] = "opening" /\ tpc' = [tpc EXCEPT ![t] = "idle"]
      /\ UNCHANGED <<arriving, slot, sock, pinned, disturbed>>
  BY DEF OpenDatabase, At, Goto
<1>3. \A g \in Fds : table'[g] = IF g = fd THEN Db(t) ELSE table[g]
  BY <1>1, <1>t DEF AcceptTypeOK
<1>4. \A u \in Conns : /\ tpc'[u] = IF u = t THEN "idle" ELSE tpc[u]
                       /\ dbfd'[u] = IF u = t THEN fd ELSE dbfd[u]
  BY <1>1, <1>2, <1>t DEF AcceptTypeOK
<1>5. \A g \in Fds, d \in Conns : SockOwned(g, d) => SockOwned(g, d)'
  BY <1>2, <1>4 DEF SockOwned
<1>6. DbOwned(fd, t)' BY <1>4 DEF DbOwned
<1>7. dbfd[t] = NoFd BY <1>2 DEF TypeInv
<1>8. \A g \in Fds, d \in Conns : DbOwned(g, d) => DbOwned(g, d)'
  BY <1>2, <1>4, <1>7 DEF DbOwned, Fds, NoFd
<1>9. \A g \in Fds, d \in Conns : table'[g] = Sock(d) => table[g] = Sock(d) BY <1>3, Kinds
<1>10. \A g \in Fds, d \in Conns : table'[g] = Db(d) => table[g] = Db(d) \/ (g = fd /\ d = t)
  BY <1>3, Kinds
<1> QED BY <1>2, <1>5, <1>6, <1>8, <1>9, <1>10, TableMove

LEMMA TableStays ==
  ASSUME TypeInv, TableInv, NEW t \in Conns,
         OpenDatabaseFails(t) \/ CallRecv(t) \/ RecvAgain(t) \/ ServePacket(t) \/ RecvFails(t)
  PROVE  TableInv'
<1>t. AcceptTypeOK BY DEF TypeInv
<1>1. tpc[t] \in {"opening", "idle", "recv", "payload"}
      /\ UNCHANGED <<arriving, slot, table, sock, dbfd, disturbed>>
  BY DEF OpenDatabaseFails, CallRecv, RecvAgain, ServePacket, RecvFails, At
<1>2. PICK pc \in {"idle", "recv", "payload", "failed", "closing"} : Goto(t, pc)
  <2>1. CASE RecvAgain(t)
    <3>1. tpc[t] \in {"recv", "payload"} BY <2>1 DEF RecvAgain
    <3> QED BY <3>1, <2>1 DEF RecvAgain
  <2>2. CASE ~RecvAgain(t)
    BY <2>2 DEF OpenDatabaseFails, CallRecv, ServePacket, RecvFails
  <2> QED BY <2>1, <2>2
<1>3. \A u \in Conns : tpc'[u] = IF u = t THEN pc ELSE tpc[u]
  BY <1>2, <1>t DEF AcceptTypeOK, Goto
<1>4. \A g \in Fds, d \in Conns : SockOwned(g, d) => SockOwned(g, d)'
  BY <1>1, <1>3 DEF SockOwned
<1>5. \A u \in Conns \ {t} : pinned'[u] = pinned[u]
  <2>1. CASE ServePacket(t)
    <3>1. PICK leaves \in BOOLEAN :
            pinned' = [pinned EXCEPT ![t] = @ \/ (leaves /\ dbfd[t] # NoFd)]
      BY <2>1 DEF ServePacket
    <3> QED BY <3>1, <1>t DEF AcceptTypeOK
  <2>2. CASE OpenDatabaseFails(t) \/ CallRecv(t) \/ RecvAgain(t) \/ RecvFails(t)
    BY <2>2 DEF OpenDatabaseFails, CallRecv, RecvAgain, RecvFails
  <2> QED BY <2>1, <2>2
<1>6. \A g \in Fds, d \in Conns : DbOwned(g, d) => DbOwned(g, d)'
  <2> SUFFICES ASSUME NEW g \in Fds, NEW d \in Conns, DbOwned(g, d) PROVE DbOwned(g, d)'
    OBVIOUS
  <2>1. CASE d = t BY <2>1, <1>1, <1>3 DEF DbOwned
  <2>2. CASE d # t
    <3>1. pinned'[d] = pinned[d] BY <2>2, <1>5
    <3>2. tpc'[d] = tpc[d] BY <2>2, <1>3
    <3>3. dbfd'[d] = g BY <1>1 DEF DbOwned
    <3>4. tpc'[d] = "done" => pinned'[d] BY <3>1, <3>2, Zenon DEF DbOwned
    <3> QED BY <3>3, <3>4 DEF DbOwned
  <2> QED BY <2>1, <2>2
<1> QED BY <1>1, <1>4, <1>6, TableMove

LEMMA TableCloses ==
  ASSUME TypeInv, TableInv, NEW t \in Conns, CloseInRecv(t) \/ CloseAgain(t)
  PROVE  TableInv'
<1>t. AcceptTypeOK BY DEF TypeInv
<1>1. PICK pc \in {"closing", "exiting"} : Goto(t, pc) BY DEF CloseInRecv, CloseAgain
<1>2. /\ tpc[t] \in {"failed", "closing"} /\ CloseFd(sock[t], Sock(t)) /\ sock[t] \in Fds
      /\ UNCHANGED <<arriving, slot, sock, dbfd, pinned>>
  BY DEF CloseInRecv, CloseAgain, At, TypeInv, Copied
<1>3. \A u \in Conns : tpc'[u] = IF u = t THEN pc ELSE tpc[u]
  BY <1>1, <1>t DEF AcceptTypeOK, Goto
<1>4. /\ \A g \in Fds : table'[g] = IF g = sock[t] THEN Free ELSE table[g]
      /\ ~disturbed' => ~disturbed
  BY <1>2, <1>t, Closing DEF AcceptTypeOK
<1>5. arriving # t BY <1>2, <1>t, AcceptConnsAssumption DEF TypeInv
<1>6. \A g \in Fds, d \in Conns : (d # t \/ g # sock[t]) /\ SockOwned(g, d) => SockOwned(g, d)'
  BY <1>2, <1>3, <1>5 DEF SockOwned
<1>7. \A g \in Fds, d \in Conns : table'[g] = Sock(d) => table[g] = Sock(d) /\ g # sock[t]
  BY <1>4, Kinds
<1>8. \A g \in Fds, d \in Conns : table'[g] = Db(d) => table[g] = Db(d) BY <1>4, Kinds
<1>9. \A g \in Fds, d \in Conns : DbOwned(g, d) => DbOwned(g, d)' BY <1>2, <1>3 DEF DbOwned
<1> QED BY <1>4, <1>6, <1>7, <1>8, <1>9, TableMove

LEMMA TableCleanUp ==
  ASSUME TypeInv, TableInv, NEW t \in Conns, CleanUp(t)
  PROVE  TableInv'
<1>t. AcceptTypeOK BY DEF TypeInv
<1>1. /\ tpc[t] = "exiting" /\ Goto(t, "done")
      /\ UNCHANGED <<arriving, slot, sock, dbfd, pinned>>
  BY DEF CleanUp, At
<1>2. \A u \in Conns : tpc'[u] = IF u = t THEN "done" ELSE tpc[u]
  BY <1>1, <1>t DEF AcceptTypeOK, Goto
<1>3. \A g \in Fds, d \in Conns : SockOwned(g, d) => SockOwned(g, d)'
  BY <1>1, <1>2 DEF SockOwned
<1>4. CASE dbfd[t] # NoFd /\ ~pinned[t]
  <2>1. dbfd[t] \in Fds BY <1>4, <1>t DEF AcceptTypeOK
  <2>2. /\ \A g \in Fds : table'[g] = IF g = dbfd[t] THEN Free ELSE table[g]
        /\ ~disturbed' => ~disturbed
    <3>1. CloseFd(dbfd[t], Db(t)) BY <1>4 DEF CleanUp
    <3> QED BY <3>1, <2>1, <1>t, Closing DEF AcceptTypeOK
  <2>3. \A g \in Fds, d \in Conns : /\ table'[g] = Sock(d) => table[g] = Sock(d)
                                    /\ table'[g] = Db(d) => table[g] = Db(d) /\ g # dbfd[t]
    BY <2>2, Kinds
  <2>4. \A g \in Fds, d \in Conns : g # dbfd[t] /\ DbOwned(g, d) => DbOwned(g, d)'
    BY <1>1, <1>2 DEF DbOwned
  <2> QED BY <2>2, <2>3, <2>4, <1>3, TableMove
<1>5. CASE ~(dbfd[t] # NoFd /\ ~pinned[t])
  <2>1. UNCHANGED <<table, disturbed>> BY <1>5 DEF CleanUp
  <2>2. dbfd[t] \in Fds => pinned[t] BY <1>5 DEF Fds, NoFd
  <2>3. \A g \in Fds, d \in Conns : DbOwned(g, d) => DbOwned(g, d)'
    <3> SUFFICES ASSUME NEW g \in Fds, NEW d \in Conns, DbOwned(g, d) PROVE DbOwned(g, d)'
      OBVIOUS
    <3>1. dbfd'[d] = g BY <1>1 DEF DbOwned
    <3>2. tpc'[d] = "done" => pinned'[d]
      <4>1. CASE d = t
        <5>1. dbfd[t] \in Fds BY <4>1, <3>1, <1>1
        <5>2. pinned[t] BY <5>1, <2>2
        <5>3. pinned' = pinned BY <1>1
        <5> QED BY <5>2, <5>3, <4>1
      <4>2. CASE d # t
        <5>1. tpc'[d] = tpc[d] BY <4>2, <1>2
        <5> QED BY <5>1, <1>1, Zenon DEF DbOwned
      <4> QED BY <4>1, <4>2
    <3> QED BY <3>1, <3>2 DEF DbOwned
  <2> QED BY <2>1, <2>3, <1>3, TableMove
<1> QED BY <1>4, <1>5

LEMMA TableStep == TypeInv /\ TableInv /\ [AcceptNext]_acceptVars => TableInv'
<1> SUFFICES ASSUME TypeInv, TableInv, [AcceptNext]_acceptVars PROVE TableInv' OBVIOUS
<1>1. CASE Outside \/ UNCHANGED acceptVars
  <2>1. UNCHANGED <<arriving, slot, table, tpc, sock, dbfd, pinned, disturbed>>
    BY <1>1, OutsideKeeps DEF TypeInv
  <2>2. TableInv => TableInv' BY <2>1 DEF TableInv, SockOwned, DbOwned
  <2> QED BY <2>2
<1>2. CASE CreateThread BY <1>2, TableCreate
<1>3. ASSUME NEW c \in Conns, AcceptReturns(c) PROVE TableInv' BY <1>3, TableAccept
<1>4. ASSUME NEW t \in Conns, \/ ReadArgument(t) \/ OpenDatabase(t) \/ OpenDatabaseFails(t)
                              \/ CallRecv(t) \/ RecvAgain(t) \/ ServePacket(t) \/ RecvFails(t)
                              \/ CloseInRecv(t) \/ CloseAgain(t) \/ CleanUp(t)
      PROVE  TableInv'
  BY <1>4, TableReadArgument, TableOpen, TableStays, TableCloses, TableCleanUp
<1> QED BY <1>1, <1>2, <1>3, <1>4, NextCases

-----------------------------------------------------------------------------
(* The theorems. *)

(* Every variable of the accept loop keeps its type, whatever the race on  *)
(* the descriptor handed over and the second close do to the threads.      *)
THEOREM AcceptTypeCorrect == AcceptSpec => []AcceptTypeOK
<1>1. AcceptInit => TypeInv BY InitTypes
<1>2. TypeInv /\ [AcceptNext]_acceptVars => TypeInv' BY TypeStep
<1>3. TypeInv => AcceptTypeOK BY DEF TypeInv
<1> QED BY <1>1, <1>2, <1>3, PTL DEF AcceptSpec

(* Until the first descriptor is used by a thread it does not belong to,   *)
(* every descriptor in use is accounted for: main's, a thread's, or a      *)
(* statement's that keeps the database open.                               *)
THEOREM OwnershipHolds == AcceptSpec => []Ownership
<1>1. AcceptInit => TypeInv /\ TableInv BY InitTypes
<1>2. TypeInv /\ TableInv /\ [AcceptNext]_acceptVars => TypeInv' /\ TableInv'
  BY TypeStep, TableStep
<1>3. TableInv => Ownership BY DEF TableInv, Ownership, SockOwned, DbOwned
<1> QED BY <1>1, <1>2, <1>3, PTL DEF AcceptSpec

(* Until then, too, a connection is read only by the thread handle_client  *)
(* created for it.                                                         *)
THEOREM OwnReaderHolds == AcceptSpec => []OwnReader
<1>1. AcceptInit => TypeInv /\ OwnInv BY InitTypes
<1>2. TypeInv /\ OwnInv /\ [AcceptNext]_acceptVars => TypeInv' /\ OwnInv'
  BY TypeStep, OwnStep
<1>3. OwnInv => OwnReader BY DEF OwnInv, OwnReader
<1> QED BY <1>1, <1>2, <1>3, PTL DEF AcceptSpec

=============================================================================
