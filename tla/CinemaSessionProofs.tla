------------------------- MODULE CinemaSessionProofs --------------------------
(***************************************************************************)
(* Proofs about CinemaSession: the clients of client.c against the threads *)
(* of server.c, for every set of clients and every bound on the requests.  *)
(***************************************************************************)
EXTENDS CinemaSession, CinemaServerProofs

(* A client acts on its end of the socket only. *)
LEMMA ClientIsPeer ==
  ASSUME NEW c \in Conns, Client(c)
  PROVE  Peer(c) \/ UNCHANGED vars
BY DEF Client, ClientConnect, ClientDisconnect, ClientAddMovie, ClientTakes, ClientExit,
       ClientAsk, ClientReserve, Peer

(* The session runs the server: what is proved of Next holds of it. *)
LEMMA SessionRunsServer ==
  /\ SessionInit => Init
  /\ [SessionNext]_sessionVars => [Next]_vars
<1>1. SessionInit => Init
  BY DEF SessionInit
<1>2. ASSUME [SessionNext]_sessionVars PROVE [Next]_vars
  <2>1. CASE UNCHANGED sessionVars BY <2>1 DEF sessionVars
  <2>2. ASSUME NEW c \in Conns, Client(c) PROVE [Next]_vars
    BY <2>2, ClientIsPeer DEF Next
  <2>3. ASSUME NEW c \in Conns, Server(c) PROVE [Next]_vars
    BY <2>3 DEF Server, Next
  <2> QED BY <1>2, <2>1, <2>2, <2>3 DEF SessionNext
<1> QED BY <1>1, <1>2

Inv == TypeInv /\ HandlerInv

LEMMA InvNext == Inv /\ [SessionNext]_sessionVars => Inv'
BY SessionRunsServer, TypeInvNext, HandlerInvNext DEF Inv

LEMMA InvInit == SessionInit => Inv
BY SessionRunsServer, TypeInvInit, HandlerInvInit DEF Inv

(* The socket of a client whose flag is set stays connected or is closed.  *)
LEMMA FlagsFitNext == Inv /\ SessionTypeOK /\ [SessionNext]_sessionVars => FlagsFit'
<1> SUFFICES ASSUME Inv, SessionTypeOK, [SessionNext]_sessionVars, NEW d \in Conns
             PROVE  (connected[d] => conn[d] # "idle")' /\ (cpc[d] = "wait" <=> asked[d] # NoRequest)'
  BY DEF FlagsFit
<1>t. /\ cpc \in [Conns -> {"menu", "wait", "wizard", "dead"}]
      /\ asked \in [Conns -> Requests \cup {NoRequest}]
      /\ connected \in [Conns -> BOOLEAN] /\ conn \in [Conns -> {"idle", "open", "closed"}]
      /\ connected[d] => conn[d] # "idle"
      /\ cpc[d] = "wait" <=> asked[d] # NoRequest
  BY DEF SessionTypeOK, FlagsFit, Inv, TypeInv, TypeOK
<1>1. CASE UNCHANGED sessionVars
  BY <1>1, <1>t DEF sessionVars, vars, peerVars, clientVars
<1>2. ASSUME NEW c \in Conns, Server(c) PROVE conn' = conn
  <2>1. CASE Accept(c) BY <2>1 DEF Accept, StartThread, AcceptFails, peerVars
  <2>2. CASE Thread(c)
    BY <2>2 DEF Thread, Receive, RecvEnd, RefuseRequest, ShortPayloadFault, HandleRead,
       NullColumnFault, ReadNotPrepared, HandleWrite, HandleLogout, HandleLogin, LoginLock,
       LoginMatch, LoginMiss, LoginReturns, AccountsFault, SendReply, SendLost, SigPipe,
       PayloadFault, NextCommand, peerVars
  <2> QED BY <1>2, <2>1, <2>2 DEF Server
<1>3. ASSUME NEW c \in Conns, Server(c)
      PROVE  (connected[d] => conn[d] # "idle")' /\ (cpc[d] = "wait" <=> asked[d] # NoRequest)'
  BY <1>2, <1>3, <1>t DEF Server, clientVars
<1>4. ASSUME NEW c \in Conns, Client(c)
      PROVE  (connected[d] => conn[d] # "idle")' /\ (cpc[d] = "wait" <=> asked[d] # NoRequest)'
  <2>1. CASE ClientConnect(c) BY <2>1, <1>t DEF ClientConnect, PeerConnect
  <2>2. CASE ClientDisconnect(c) BY <2>2, <1>t DEF ClientDisconnect, vars, peerVars
  <2>3. CASE ClientAddMovie(c) BY <2>3, <1>t DEF ClientAddMovie, vars, peerVars
  <2>4. CASE ClientTakes(c) BY <2>4, <1>t DEF ClientTakes, PeerRead
  <2>5. CASE ClientExit(c) BY <2>5, <1>t DEF ClientExit, PeerClose, vars, peerVars
  <2>6. ASSUME NEW r \in Requests, ClientAsk(c, r) \/ ClientReserve(c, r)
        PROVE  (connected[d] => conn[d] # "idle")' /\ (cpc[d] = "wait" <=> asked[d] # NoRequest)'
    BY <2>6, <1>t, RequestsAssumption DEF ClientAsk, ClientReserve, MayAsk, PeerSend
  <2> QED BY <1>4, <2>1, <2>2, <2>3, <2>4, <2>5, <2>6 DEF Client
<1> QED BY <1>1, <1>3, <1>4 DEF SessionNext

LEMMA SessionTypeNext == Inv /\ SessionTypeOK /\ [SessionNext]_sessionVars => SessionTypeOK'
<1> SUFFICES ASSUME Inv, SessionTypeOK, [SessionNext]_sessionVars PROVE SessionTypeOK'
  OBVIOUS
<1>0. FlagsFit' BY FlagsFitNext
<1> USE <1>0 DEF SessionTypeOK
<1>1. CASE UNCHANGED sessionVars BY <1>1 DEF sessionVars, clientVars
<1>2. ASSUME NEW c \in Conns, Server(c) PROVE SessionTypeOK'
  BY <1>2 DEF Server, clientVars
<1>3. ASSUME NEW c \in Conns, Client(c) PROVE SessionTypeOK'
  <2>1. CASE ClientConnect(c) BY <2>1 DEF ClientConnect
  <2>2. CASE ClientDisconnect(c) BY <2>2 DEF ClientDisconnect
  <2>3. CASE ClientAddMovie(c) BY <2>3 DEF ClientAddMovie
  <2>4. CASE ClientTakes(c)
    <3>1. Head(resps[c]).ok \in BOOLEAN
      <4>1. resps[c] \in Seq(Answer) /\ resps[c] # <<>>
        BY <2>4 DEF ClientTakes, PeerRead, Inv, TypeInv, TypeOK
      <4>2. Head(resps[c]) \in Answer BY <4>1
      <4> QED BY <4>2 DEF Answer
    <3>2. CASE asked[c].type \in {"login", "logout"}
      BY <2>4, <3>1, <3>2 DEF ClientTakes
    <3>3. CASE asked[c].type \notin {"login", "logout"}
      BY <2>4, <3>3 DEF ClientTakes
    <3> QED BY <3>2, <3>3
  <2>5. CASE ClientExit(c) BY <2>5 DEF ClientExit
  <2>6. ASSUME NEW r \in Requests, ClientAsk(c, r) \/ ClientReserve(c, r)
        PROVE SessionTypeOK'
    BY <2>6 DEF ClientAsk, ClientReserve
  <2> QED BY <1>3, <2>1, <2>2, <2>3, <2>4, <2>5, <2>6 DEF Client
<1> QED BY <1>1, <1>2, <1>3 DEF SessionNext

(* The variables of the clients keep their types; connected is only set    *)
(* over a socket that was connected, and a client waits exactly while it   *)
(* has asked.                                                              *)
THEOREM SessionTypeCorrect == SessionSpec => []SessionTypeOK
<1>1. SessionInit => SessionTypeOK BY DEF SessionInit, SessionTypeOK, FlagsFit
<1> QED BY InvInit, InvNext, SessionTypeNext, <1>1, PTL DEF SessionSpec

-----------------------------------------------------------------------------
(* The lag of a client. *)

Load(c) == Len(reqs[c]) + Count(tpc[c] \in Busy) + Len(resps[c]) + silent[c]

LagInvAt(c) ==
  /\ conn[c] = "open" => Load(c) = reserved[c] + Count(Waiting(c))
  /\ conn[c] = "idle" => tpc[c] = "none" /\ Load(c) = 0 /\ reserved[c] = 0 /\ ~Waiting(c)

LagInv == \A c \in Conns : LagInvAt(c)

(* The server moves packets from one place to the next. *)
LEMMA ServerKeepsLoad ==
  ASSUME TypeInv, NEW c \in Conns, Accept(c) \/ Thread(c), conn[c] = "open"
  PROVE  Load(c)' = Load(c)
<1> USE DEF TypeInv, TypeOK, Load, Count, diskVars, peerVars, handlerVars, Busy
<1>0. /\ Len(reqs[c]) \in Nat /\ Len(resps[c]) \in Nat
      /\ reqs[c] # <<>> => Len(Tail(reqs[c])) = Len(reqs[c]) - 1
      /\ Len(Append(resps[c], ans[c])) = Len(resps[c]) + 1
  OBVIOUS
<1>1. CASE Accept(c) BY <1>1 DEF Accept, StartThread, AcceptFails
<1>2. CASE Receive(c) BY <1>0, <1>2 DEF Receive
<1>3. CASE RecvEnd(c) BY <1>3 DEF RecvEnd
<1>4. CASE ReadNotPrepared(c) BY <1>0, <1>4 DEF ReadNotPrepared, Taken
<1>5. CASE RefuseRequest(c) \/ HandleLogin(c) \/ HandleLogout(c)
  BY <1>5 DEF RefuseRequest, HandleLogin, HandleLogout, Taken, Reply
<1>6. CASE HandleRead(c) BY <1>6 DEF HandleRead, Taken, Reply
<1>7. CASE HandleWrite(c) BY <1>7 DEF HandleWrite, Taken, Reply
<1>8. CASE LoginLock(c) \/ LoginMatch(c) \/ LoginMiss(c)
  BY <1>8 DEF LoginLock, LoginMatch, LoginMiss, LoginReturns, Reply
<1>9. CASE \/ ShortPayloadFault(c) \/ NullColumnFault(c) \/ AccountsFault(c) \/ SigPipe(c)
  BY <1>9 DEF ShortPayloadFault, NullColumnFault, AccountsFault, SigPipe
<1>10. CASE SendReply(c)
  BY <1>0, <1>10 DEF SendReply, NextCommand
<1>11. CASE SendLost(c) BY <1>11 DEF SendLost
<1>12. CASE PayloadFault(c)
  <2>1. CASE UNCHANGED <<diskVars, password_mutex, peerVars, tpc, handlerVars>> BY <2>1
  <2>2. CASE NextCommand(c) /\ resps' = [resps EXCEPT ![c] = Append(@, ans[c])]
    <3>1. tpc[c] = "reply" BY <1>12 DEF PayloadFault
    <3> QED BY <1>0, <2>2, <3>1 DEF NextCommand
  <2> QED BY <1>12, <2>1, <2>2 DEF PayloadFault
<1> QED BY <1>1, <1>2, <1>3, <1>4, <1>5, <1>6, <1>7, <1>8, <1>9, <1>10, <1>11, <1>12 DEF Thread

(* A step of one client, or for one, leaves the other clients as they are. *)
LEMMA SessionIsolation ==
  ASSUME TypeInv, SessionTypeOK, NEW c \in Conns, NEW d \in Conns \ {c}, Client(c) \/ Server(c)
  PROVE  /\ conn'[d] = conn[d] /\ reqs'[d] = reqs[d] /\ resps'[d] = resps[d]
         /\ tpc'[d] = tpc[d] /\ cur'[d] = cur[d] /\ ans'[d] = ans[d]
         /\ connected_flag'[d] = connected_flag[d] /\ silent'[d] = silent[d]
         /\ cpc'[d] = cpc[d] /\ asked'[d] = asked[d] /\ logged'[d] = logged[d]
         /\ tried'[d] = tried[d] /\ reserved'[d] = reserved[d]
<1>1. Step(c) \/ UNCHANGED vars
  BY ClientIsPeer DEF Server, Step
<1>2. /\ conn'[d] = conn[d] /\ reqs'[d] = reqs[d] /\ resps'[d] = resps[d]
      /\ tpc'[d] = tpc[d] /\ cur'[d] = cur[d] /\ ans'[d] = ans[d]
      /\ connected_flag'[d] = connected_flag[d] /\ silent'[d] = silent[d]
  BY <1>1, Isolation DEF vars, peerVars, handlerVars
<1>3. cpc'[d] = cpc[d] /\ asked'[d] = asked[d] /\ reserved'[d] = reserved[d]
  <2>1. CASE Server(c) BY <2>1 DEF Server, clientVars
  <2>2. CASE ClientTakes(c) BY <2>2 DEF ClientTakes, SessionTypeOK
  <2>3. CASE ClientConnect(c) \/ ClientDisconnect(c) \/ ClientAddMovie(c) \/ ClientExit(c)
    BY <2>3 DEF ClientConnect, ClientDisconnect, ClientAddMovie, ClientExit, SessionTypeOK
  <2>4. ASSUME NEW r \in Requests, ClientAsk(c, r) \/ ClientReserve(c, r)
        PROVE  cpc'[d] = cpc[d] /\ asked'[d] = asked[d] /\ reserved'[d] = reserved[d]
    BY <2>4 DEF ClientAsk, ClientReserve, SessionTypeOK
  <2> QED BY <2>1, <2>2, <2>3, <2>4 DEF Client
<1>4. logged'[d] = logged[d] /\ tried'[d] = tried[d]
  <2>1. CASE ClientTakes(c)
    <3>1. CASE asked[c].type \in {"login", "logout"}
      BY <2>1, <3>1 DEF ClientTakes, SessionTypeOK
    <3>2. CASE asked[c].type \notin {"login", "logout"}
      BY <2>1, <3>2 DEF ClientTakes
    <3> QED BY <3>1, <3>2
  <2>2. CASE ~ClientTakes(c)
    BY <2>2 DEF Client, ClientConnect, ClientDisconnect, ClientAddMovie, ClientExit,
         ClientAsk, ClientReserve, Server, clientVars
  <2> QED BY <2>1, <2>2
<1> QED BY <1>2, <1>3, <1>4

(* Sending adds a packet to the load, reading takes one off. *)
LEMMA PeerMovesLoad ==
  ASSUME TypeInv, NEW c \in Conns
  PROVE  /\ Load(c) \in Nat
         /\ PeerConnect(c) => Load(c)' = Load(c)
         /\ \A r \in Requests : PeerSend(c, r) => Load(c)' = Load(c) + 1
         /\ PeerRead(c) => Load(c)' = Load(c) - 1 /\ Load(c) > 0
<1> USE DEF TypeInv, TypeOK, Load, Count, handlerVars
<1>0. /\ Len(reqs[c]) \in Nat /\ Len(resps[c]) \in Nat
      /\ resps[c] # <<>> => Len(Tail(resps[c])) = Len(resps[c]) - 1 /\ Len(resps[c]) > 0
      /\ \A r \in Requests : Len(Append(reqs[c], r)) = Len(reqs[c]) + 1
  OBVIOUS
<1>1. Load(c) \in Nat BY <1>0
<1>2. ASSUME PeerConnect(c) PROVE Load(c)' = Load(c) BY <1>2 DEF PeerConnect
<1>3. ASSUME NEW r \in Requests, PeerSend(c, r) PROVE Load(c)' = Load(c) + 1
  <2> DEFINE n == Len(reqs[c])   m == Len(resps[c])
             b == Count(tpc[c] \in Busy)   s == silent[c]
  <2>1. Len(reqs'[c]) = n + 1 /\ UNCHANGED <<resps, tpc, silent>>
    BY <1>0, <1>3 DEF PeerSend
  <2>2. Load(c)' = (n + 1) + b + m + s /\ Load(c) = n + b + m + s
    BY <2>1
  <2>3. n \in Nat /\ m \in Nat /\ b \in Nat /\ s \in Nat
    BY <1>0
  <2> HIDE DEF n, m, b, s, Load, Count, TypeInv, TypeOK
  <2> QED BY <2>2, <2>3
<1>4. ASSUME PeerRead(c) PROVE Load(c)' = Load(c) - 1 /\ Load(c) > 0
  BY <1>0, <1>4 DEF PeerRead
<1> QED BY <1>1, <1>2, <1>3, <1>4

LEMMA LagStep ==
  ASSUME TypeInv, SessionTypeOK, NEW c \in Conns, LagInvAt(c), Client(c) \/ Server(c)
  PROVE  LagInvAt(c)'
<1> USE DEF LagInvAt, Waiting, Count, SessionTypeOK
<1>0. Load(c) \in Nat BY PeerMovesLoad
<1>1. CASE Server(c)
  <2>1. conn'[c] = conn[c] /\ UNCHANGED clientVars
    BY <1>1 DEF Server, Accept, StartThread, AcceptFails, Thread, Receive, RecvEnd,
         RefuseRequest, ShortPayloadFault, HandleRead, NullColumnFault, ReadNotPrepared,
         HandleWrite, HandleLogout, HandleLogin, LoginLock, LoginMatch, LoginMiss,
         LoginReturns, AccountsFault, SendReply, SendLost, SigPipe, PayloadFault,
         NextCommand, peerVars
  <2>2. CASE conn[c] = "open"
    <3>1. Load(c)' = Load(c) BY <1>1, <2>2, ServerKeepsLoad DEF Server
    <3> QED BY <2>1, <2>2, <3>1 DEF clientVars
  <2>3. CASE conn[c] = "idle"
    BY <1>1, <2>3 DEF Server, Accept, StartThread, AcceptFails, Thread, Receive, RecvEnd,
         RefuseRequest, ShortPayloadFault, HandleRead, NullColumnFault, ReadNotPrepared,
         HandleWrite, HandleLogout, HandleLogin, LoginLock, LoginMatch, LoginMiss,
         AccountsFault, SendReply, SendLost, SigPipe, PayloadFault, Taken
  <2>4. CASE conn[c] \notin {"open", "idle"}
    BY <2>1, <2>4
  <2> QED BY <2>2, <2>3, <2>4
<1>2. CASE ClientConnect(c)
  <2>1. /\ conn[c] = "idle" /\ conn'[c] = "open" /\ UNCHANGED <<cpc, reserved>>
    BY <1>2 DEF ClientConnect, PeerConnect, TypeInv, TypeOK
  <2>2. Load(c)' = Load(c) BY <1>2, PeerMovesLoad DEF ClientConnect
  <2> QED BY <2>1, <2>2
<1>3. CASE ClientDisconnect(c)
  BY <1>3 DEF ClientDisconnect, vars, peerVars, handlerVars, Load
<1>4. CASE ClientAddMovie(c)
  BY <1>4 DEF ClientAddMovie, vars, peerVars, handlerVars, Load
<1>5. CASE ClientTakes(c)
  <2>1. /\ cpc[c] = "wait" /\ cpc'[c] = "menu" /\ UNCHANGED <<conn, reserved>> /\ conn[c] = "open"
        /\ Load(c)' = Load(c) - 1
    BY <1>5, PeerMovesLoad DEF ClientTakes, PeerRead
  <2> QED BY <1>0, <2>1
<1>6. CASE ClientExit(c)
  <2>1. cpc'[c] = "dead" /\ UNCHANGED reserved BY <1>6 DEF ClientExit
  <2>2. CASE conn[c] = "open"
    <3>1. conn'[c] = "closed" BY <1>6, <2>2 DEF ClientExit, PeerClose, TypeInv, TypeOK
    <3> QED BY <3>1
  <2>3. CASE conn[c] # "open"
    BY <1>6, <2>1, <2>3 DEF ClientExit, vars, peerVars, handlerVars, Load
  <2> QED BY <2>2, <2>3
<1>7. ASSUME NEW r \in Requests, ClientAsk(c, r) PROVE LagInvAt(c)'
  <2>1. /\ cpc[c] = "menu" /\ cpc'[c] = "wait" /\ UNCHANGED <<conn, reserved>> /\ conn[c] = "open"
        /\ Load(c)' = Load(c) + 1
    BY <1>7, PeerMovesLoad DEF ClientAsk, MayAsk, PeerSend
  <2> QED BY <1>0, <2>1
<1>8. ASSUME NEW r \in Requests, ClientReserve(c, r) PROVE LagInvAt(c)'
  <2>1. /\ cpc[c] = "menu" /\ cpc' = cpc /\ conn' = conn /\ conn[c] = "open"
        /\ reserved'[c] = reserved[c] + 1 /\ Load(c)' = Load(c) + 1
    BY <1>8, PeerMovesLoad DEF ClientReserve, MayAsk, PeerSend
  <2> QED BY <1>0, <2>1
<1> QED BY <1>1, <1>2, <1>3, <1>4, <1>5, <1>6, <1>7, <1>8 DEF Client

LEMMA LagInvNext == Inv /\ SessionTypeOK /\ LagInv /\ [SessionNext]_sessionVars => LagInv'
<1> SUFFICES ASSUME Inv, SessionTypeOK, LagInv, [SessionNext]_sessionVars, NEW d \in Conns
             PROVE  LagInvAt(d)'
  BY DEF LagInv
<1>0. TypeInv /\ LagInvAt(d) BY DEF Inv, LagInv
<1>1. CASE UNCHANGED sessionVars
  BY <1>0, <1>1 DEF sessionVars, vars, peerVars, handlerVars, clientVars, LagInvAt, Load, Waiting
<1>2. ASSUME NEW c \in Conns, Client(c) \/ Server(c) PROVE LagInvAt(d)'
  <2>1. CASE c = d BY <1>0, <1>2, <2>1, LagStep
  <2>2. CASE c # d
    BY <1>0, <1>2, <2>2, SessionIsolation DEF LagInvAt, Load, Waiting
  <2> QED BY <2>1, <2>2
<1> QED BY <1>1, <1>2 DEF SessionNext

(* No packet is lost, duplicated or made up between a client and its       *)
(* thread, however their steps interleave and wherever the process dies:   *)
(* the client is behind by its reservations and by nothing else.           *)
THEOREM ExactLagHolds == SessionSpec => []ExactLag
<1>1. SessionInit => LagInv
  BY DEF SessionInit, Init, LagInv, LagInvAt, Load, Count, Waiting, Busy
<1>2. SessionInit => SessionTypeOK BY DEF SessionInit, SessionTypeOK, FlagsFit
<1>3. LagInv => ExactLag BY DEF LagInv, LagInvAt, Load, ExactLag
<1> QED BY InvInit, InvNext, SessionTypeNext, LagInvNext, <1>1, <1>2, <1>3, PTL DEF SessionSpec

-----------------------------------------------------------------------------
(* Which answer a client reads, as long as it reserved nothing. *)

Plain(c) == conn[c] = "open" /\ reserved[c] = 0

LEMMA EmptySeq ==
  ASSUME NEW S, NEW q \in Seq(S), Len(q) = 0
  PROVE  q = <<>>
OBVIOUS

LEMMA ShortSeq ==
  ASSUME NEW S, NEW q \in Seq(S)
  PROVE  (Len(q) = 0 => q = <<>>) /\ (Len(q) = 1 => Tail(q) = <<>>)
<1>1. ASSUME Len(q) = 1 PROVE Tail(q) = <<>>
  <2>1. q # <<>> BY <1>1
  <2>2. Tail(q) \in Seq(S) BY <2>1
  <2>3. Len(Tail(q)) = 0 BY <1>1, <2>1
  <2> QED BY <2>2, <2>3, EmptySeq
<1> QED BY <1>1, EmptySeq

(* A client at its menu has nothing under way. *)
LEMMA QuietAtMenu ==
  ASSUME TypeInv, NEW c \in Conns, LagInvAt(c), Plain(c), ~Waiting(c)
  PROVE  reqs[c] = <<>> /\ resps[c] = <<>> /\ tpc[c] \notin Busy
<1>1. Load(c) = 0 BY DEF LagInvAt, Plain, Count
<1>2. Len(reqs[c]) = 0 /\ Len(resps[c]) = 0 /\ Count(tpc[c] \in Busy) = 0
  BY <1>1 DEF Load, Count, TypeInv, TypeOK
<1> QED BY <1>2 DEF Count, TypeInv, TypeOK

(* A client that waits has at most one packet under way. *)
LEMMA OneUnderWay ==
  ASSUME TypeInv, NEW c \in Conns, LagInvAt(c), Plain(c)
  PROVE  /\ tpc[c] \in Busy => reqs[c] = <<>> /\ resps[c] = <<>>
         /\ reqs[c] # <<>> => Tail(reqs[c]) = <<>> /\ resps[c] = <<>>
<1> DEFINE n == Len(reqs[c])   m == Len(resps[c])
           b == Count(tpc[c] \in Busy)   s == silent[c]
<1>1. Load(c) = 0 + Count(Waiting(c)) BY DEF LagInvAt, Plain
<1>5. Load(c) = n + b + m + s BY DEF Load
<1>6. Count(Waiting(c)) \in {0, 1} BY DEF Count
<1>2. n \in Nat /\ m \in Nat /\ b \in Nat /\ s \in Nat
  BY DEF TypeInv, TypeOK, Count
<1>3. (n = 0 => reqs[c] = <<>>) /\ (m = 0 => resps[c] = <<>>) /\ (n = 1 => Tail(reqs[c]) = <<>>)
  BY ShortSeq DEF TypeInv, TypeOK
<1>4. (tpc[c] \in Busy => b = 1) /\ (reqs[c] # <<>> => n # 0)
  BY DEF Count, TypeInv, TypeOK
<1>7. n + b + m + s \in {0, 1} BY <1>1, <1>5, <1>6
<1> HIDE DEF n, m, b, s
<1> QED BY <1>2, <1>3, <1>4, <1>7

StepInvAt(c) ==
  /\ Waiting(c) => conn[c] = "open"
  /\ Plain(c) /\ Waiting(c) =>
       /\ asked[c] \in Requests
       /\ reqs[c] # <<>> => Head(reqs[c]) = asked[c]
       /\ tpc[c] \in Busy => cur[c] = asked[c]
       /\ resps[c] # <<>> => Answers(Head(resps[c]), asked[c])

(* logged = 0 after a try means that the thread refuses, except while the  *)
(* answer to the next login or logout is under way.                        *)
AsksAccess(c) == Waiting(c) /\ asked[c].type \in {"login", "logout"}

ToldInvAt(c) ==
  /\ conn[c] = "idle" => ~tried[c]
  /\ Plain(c) /\ tried[c] /\ ~logged[c] /\ ~AsksAccess(c) => ~connected_flag[c]
  /\ Plain(c) /\ AsksAccess(c) /\ resps[c] # <<>> /\ ~Head(resps[c]).ok
       => ~connected_flag[c]

LEMMA FittingAnswers ==
  ASSUME NEW a, NEW r \in Requests, NEW f, Fits(a, r, f)
  PROVE  /\ Answers(a, r)
         /\ r.type \in {"login", "logout"} /\ ~a.ok => ~FlagAfter(r.type, f, a)
         /\ r.type \notin {"login", "logout"} => FlagAfter(r.type, f, a) = f
<1>1. Answers(a, r) BY DEF Fits, Answers
<1>2. r.type \in {"login", "logout"} /\ ~a.ok => ~FlagAfter(r.type, f, a)
  BY DEF FlagAfter
<1>3. r.type \notin {"login", "logout"} => FlagAfter(r.type, f, a) = f
  BY DEF FlagAfter
<1> QED BY <1>1, <1>2, <1>3

(* What a thread does to the sequences of its connection. *)
LEMMA ThreadMoves ==
  ASSUME TypeInv, NEW c \in Conns, HandlerInvAt(c), Accept(c) \/ Thread(c), conn[c] = "open"
  PROVE  /\ conn'[c] = "open"
         /\ \/ /\ tpc'[c] \in Busy => tpc[c] \in Busy
               /\ UNCHANGED <<reqs, resps>>
               /\ tpc'[c] \in Busy => cur'[c] = cur[c]
               /\ connected_flag'[c] = connected_flag[c]
            \/ /\ reqs[c] # <<>> /\ cur'[c] = Head(reqs[c]) /\ reqs'[c] = Tail(reqs[c])
               /\ UNCHANGED <<resps, connected_flag>>
            \/ /\ tpc[c] = "reply" /\ tpc'[c] = "recv" /\ reqs' = reqs
               /\ resps'[c] = Append(resps[c], ans[c])
               /\ connected_flag'[c] = FlagAfter(cur[c].type, connected_flag[c], ans[c])
<1> USE DEF diskVars, peerVars, handlerVars
<1>0. Step(c) BY DEF Step
<1>1. CASE Accept(c)
  <2>1. tpc[c] # "reply" BY <1>1 DEF Accept, StartThread, AcceptFails
  <2>2. connected_flag'[c] = connected_flag[c] BY <1>0, <2>1, FlagFrame
  <2> QED BY <1>1, <2>2 DEF Accept, StartThread, AcceptFails, TypeInv, TypeOK, Busy
<1>2. CASE Receive(c) BY <1>2 DEF Receive, TypeInv, TypeOK
<1>3. CASE RecvEnd(c) BY <1>3 DEF RecvEnd
<1>4. CASE SendReply(c)
  BY <1>4 DEF SendReply, NextCommand, TypeInv, TypeOK
<1>5. CASE PayloadFault(c)
  BY <1>5 DEF PayloadFault, NextCommand, TypeInv, TypeOK
<1>6. CASE SendLost(c) BY <1>6 DEF SendLost
<1>7. CASE RefuseRequest(c) \/ HandleLogout(c) \/ HandleLogin(c) \/ ReadNotPrepared(c)
  BY <1>7 DEF RefuseRequest, HandleLogout, HandleLogin, ReadNotPrepared, Taken, Reply, Busy,
              TypeInv, TypeOK
<1>8. CASE HandleRead(c) BY <1>8 DEF HandleRead, Taken, Reply, Busy
<1>9. CASE HandleWrite(c) BY <1>9 DEF HandleWrite, Taken, Reply, Busy
<1>10. CASE LoginLock(c) \/ LoginMatch(c) \/ LoginMiss(c)
  BY <1>10 DEF LoginLock, LoginMatch, LoginMiss, LoginReturns, Reply, Busy
<1>11. CASE \/ ShortPayloadFault(c) \/ NullColumnFault(c) \/ AccountsFault(c) \/ SigPipe(c)
  BY <1>11 DEF ShortPayloadFault, NullColumnFault, AccountsFault, SigPipe
<1> QED BY <1>1, <1>2, <1>3, <1>4, <1>5, <1>6, <1>7, <1>8, <1>9, <1>10, <1>11 DEF Thread

LEMMA ServerKeepsPeer ==
  ASSUME NEW c \in Conns, Server(c)
  PROVE  UNCHANGED <<conn, clientVars>>
BY DEF Server, Accept, StartThread, AcceptFails, Thread, Receive, RecvEnd,
       RefuseRequest, ShortPayloadFault, HandleRead, NullColumnFault, ReadNotPrepared,
       HandleWrite, HandleLogout, HandleLogin, LoginLock, LoginMatch, LoginMiss,
       LoginReturns, AccountsFault, SendReply, SendLost, SigPipe, PayloadFault,
       NextCommand, peerVars

(* The last packet under way goes out: it is the head of what the client   *)
(* reads, and it fits what the client asked.                               *)
LEMMA ServerStepInv ==
  ASSUME TypeInv, NEW c \in Conns, HandlerInvAt(c), LagInvAt(c), StepInvAt(c), Server(c)
  PROVE  StepInvAt(c)'
<1> SUFFICES ASSUME Plain(c)', Waiting(c)'
             PROVE  /\ asked'[c] \in Requests
                    /\ reqs'[c] # <<>> => Head(reqs'[c]) = asked'[c]
                    /\ tpc'[c] \in Busy => cur'[c] = asked'[c]
                    /\ resps'[c] # <<>> => Answers(Head(resps'[c]), asked'[c])
  BY ServerKeepsPeer DEF StepInvAt, Waiting, clientVars
<1>1. Plain(c) /\ Waiting(c) /\ asked' = asked
  BY ServerKeepsPeer DEF Plain, Waiting, clientVars
<1>2. /\ asked[c] \in Requests
      /\ reqs[c] # <<>> => Head(reqs[c]) = asked[c]
      /\ tpc[c] \in Busy => cur[c] = asked[c]
      /\ resps[c] # <<>> => Answers(Head(resps[c]), asked[c])
  BY <1>1 DEF StepInvAt
<1>3. Accept(c) \/ Thread(c) BY DEF Server
<1>4. conn[c] = "open" BY <1>1 DEF Plain
<1>5. /\ tpc[c] \in Busy => reqs[c] = <<>> /\ resps[c] = <<>>
      /\ reqs[c] # <<>> => Tail(reqs[c]) = <<>> /\ resps[c] = <<>>
  BY <1>1, OneUnderWay
<1>6. CASE /\ tpc'[c] \in Busy => tpc[c] \in Busy
           /\ UNCHANGED <<reqs, resps>>
           /\ tpc'[c] \in Busy => cur'[c] = cur[c]
  BY <1>1, <1>2, <1>6
<1>7. CASE /\ reqs[c] # <<>> /\ cur'[c] = Head(reqs[c]) /\ reqs'[c] = Tail(reqs[c])
           /\ resps' = resps
  BY <1>1, <1>2, <1>5, <1>7
<1>8. CASE /\ tpc[c] = "reply" /\ tpc'[c] = "recv" /\ reqs' = reqs
           /\ resps'[c] = Append(resps[c], ans[c])
  <2>1. tpc[c] \in Busy /\ tpc'[c] \notin Busy BY <1>8 DEF Busy
  <2>2. reqs'[c] = <<>> /\ Head(resps'[c]) = ans[c] BY <1>5, <1>8, <2>1
  <2>3. Fits(ans[c], asked[c], connected_flag[c]) BY <1>2, <1>8, <2>1 DEF HandlerInvAt
  <2>4. Answers(ans[c], asked[c]) BY <1>2, <2>3, FittingAnswers
  <2> QED BY <1>1, <1>2, <2>1, <2>2, <2>4
<1> QED BY <1>3, <1>4, <1>6, <1>7, <1>8, ThreadMoves

LEMMA ServerToldInv ==
  ASSUME TypeInv, NEW c \in Conns, HandlerInvAt(c), LagInvAt(c), StepInvAt(c), ToldInvAt(c),
         Server(c)
  PROVE  ToldInvAt(c)'
<1>0. UNCHANGED <<conn, clientVars>> BY ServerKeepsPeer
<1>1. /\ conn[c] = "idle" => ~tried[c]
      /\ conn'[c] = conn[c] /\ tried'[c] = tried[c] /\ logged'[c] = logged[c]
      /\ Plain(c)' = Plain(c) /\ AsksAccess(c)' = AsksAccess(c)
      /\ Waiting(c)' = Waiting(c)
  BY <1>0 DEF ToldInvAt, Plain, AsksAccess, Waiting, clientVars
<1>2. CASE ~Plain(c) BY <1>1, <1>2 DEF ToldInvAt
<1>3. CASE Plain(c)
  <2>1. Accept(c) \/ Thread(c) BY DEF Server
  <2>2. conn[c] = "open" BY <1>3 DEF Plain
  <2>3. CASE UNCHANGED resps /\ connected_flag'[c] = connected_flag[c]
    BY <1>1, <2>3 DEF ToldInvAt
  <2>4. CASE /\ tpc[c] = "reply" /\ resps'[c] = Append(resps[c], ans[c])
             /\ connected_flag'[c] = FlagAfter(cur[c].type, connected_flag[c], ans[c])
    <3>1. tpc[c] \in Busy BY <2>4 DEF Busy
    <3>2. resps[c] = <<>> BY <1>3, <3>1, OneUnderWay
    <3>3. Head(resps'[c]) = ans[c] BY <2>4, <3>2
    <3>4. Waiting(c)
      <4> SUFFICES ASSUME ~Waiting(c) PROVE FALSE OBVIOUS
      <4> QED BY <1>3, <3>1, QuietAtMenu
    <3>5. asked[c] \in Requests /\ cur[c] = asked[c] BY <1>3, <3>1, <3>4 DEF StepInvAt
    <3>6. Fits(ans[c], asked[c], connected_flag[c]) BY <2>4, <3>5 DEF HandlerInvAt
    <3>7. CASE AsksAccess(c)
      <4>1. asked[c].type \in {"login", "logout"} BY <3>7 DEF AsksAccess
      <4>2. ~ans[c].ok => ~FlagAfter(asked[c].type, connected_flag[c], ans[c])
        BY <3>5, <3>6, <4>1, FittingAnswers
      <4>3. ~Head(resps'[c]).ok => ~connected_flag'[c] BY <2>4, <3>3, <3>5, <4>2
      <4> QED BY <1>1, <3>7, <4>3 DEF ToldInvAt
    <3>8. CASE ~AsksAccess(c)
      <4>1. asked[c].type \notin {"login", "logout"} BY <3>4, <3>8 DEF AsksAccess
      <4>3. FlagAfter(asked[c].type, connected_flag[c], ans[c]) = connected_flag[c]
        BY <4>1 DEF FlagAfter
      <4>2. connected_flag'[c] = connected_flag[c]
        BY <2>4, <3>5, <4>3
      <4> QED BY <1>1, <3>8, <4>2 DEF ToldInvAt
    <3> QED BY <3>7, <3>8
  <2> QED BY <2>1, <2>2, <2>3, <2>4, ThreadMoves
<1> QED BY <1>2, <1>3

LEMMA ClientStepInv ==
  ASSUME TypeInv, SessionTypeOK, NEW c \in Conns, LagInvAt(c), StepInvAt(c), Client(c)
  PROVE  StepInvAt(c)'
<1> USE DEF Waiting, StepInvAt, SessionTypeOK
<1>1. CASE ClientTakes(c) BY <1>1 DEF ClientTakes
<1>2. CASE ClientExit(c) BY <1>2 DEF ClientExit
<1>3. CASE ClientConnect(c) \/ ClientDisconnect(c) \/ ClientAddMovie(c)
  BY <1>3 DEF ClientConnect, ClientDisconnect, ClientAddMovie
<1>4. ASSUME NEW r \in Requests, ClientReserve(c, r) PROVE StepInvAt(c)'
  BY <1>4 DEF ClientReserve, MayAsk
<1>6. ASSUME NEW r \in Requests, ClientAsk(c, r) PROVE Waiting(c)' => conn'[c] = "open"
  BY <1>6 DEF ClientAsk, PeerSend
<1>5. ASSUME NEW r \in Requests, ClientAsk(c, r), Plain(c)' PROVE StepInvAt(c)'
  <2>1. Plain(c) /\ ~Waiting(c) BY <1>5 DEF ClientAsk, MayAsk, PeerSend, Plain
  <2>2. reqs[c] = <<>> /\ resps[c] = <<>> /\ tpc[c] \notin Busy BY <2>1, QuietAtMenu
  <2>3. /\ asked'[c] = r /\ reqs'[c] = Append(reqs[c], r) /\ resps' = resps /\ tpc' = tpc
    BY <1>5 DEF ClientAsk, PeerSend, TypeInv, TypeOK
  <2>4. reqs'[c] # <<>> => Head(reqs'[c]) = r BY <2>2, <2>3
  <2> QED BY <1>6, <1>5, <2>2, <2>3, <2>4
<1> QED BY <1>1, <1>2, <1>3, <1>4, <1>5, <1>6 DEF Client

LEMMA ClientToldInv ==
  ASSUME TypeInv, SessionTypeOK, NEW c \in Conns, LagInvAt(c), StepInvAt(c), ToldInvAt(c),
         Client(c)
  PROVE  ToldInvAt(c)'
<1> USE DEF Waiting, AsksAccess, ToldInvAt, Plain
<1>1. CASE ClientConnect(c)
  <2>1. conn[c] = "idle" /\ conn'[c] = "open" /\ UNCHANGED <<cpc, asked, tried, logged>>
    BY <1>1 DEF ClientConnect, PeerConnect, TypeInv, TypeOK
  <2>2. cpc[c] = "menu" BY <1>1 DEF ClientConnect
  <2> QED BY <2>1, <2>2
<1>2. CASE ClientDisconnect(c)
  BY <1>2 DEF ClientDisconnect, vars, peerVars, handlerVars
<1>3. CASE ClientAddMovie(c)
  <2>1. cpc[c] = "menu" /\ cpc'[c] = "wizard" /\ UNCHANGED <<vars, asked, tried, logged, reserved>>
    BY <1>3 DEF ClientAddMovie, SessionTypeOK
  <2> QED BY <2>1 DEF vars, peerVars, handlerVars
<1>4. CASE ClientTakes(c)
  <2>1. /\ cpc[c] = "wait" /\ cpc'[c] = "menu" /\ resps[c] # <<>> /\ conn[c] = "open"
        /\ UNCHANGED <<conn, reserved, connected_flag>>
    BY <1>4 DEF ClientTakes, PeerRead, SessionTypeOK, handlerVars
  <2>2. CASE asked[c].type \in {"login", "logout"}
    <3>1. logged'[c] = Head(resps[c]).ok
      BY <1>4, <2>2 DEF ClientTakes, SessionTypeOK
    <3> QED BY <2>1, <2>2, <3>1
  <2>3. CASE asked[c].type \notin {"login", "logout"}
    <3>1. UNCHANGED <<logged, tried>> BY <1>4, <2>3 DEF ClientTakes
    <3> QED BY <2>1, <2>3, <3>1
  <2> QED BY <2>2, <2>3
<1>5. CASE ClientExit(c)
  <2>1. cpc'[c] = "dead" /\ UNCHANGED tried BY <1>5 DEF ClientExit, SessionTypeOK
  <2>2. CASE conn[c] = "open"
    <3>1. conn'[c] = "closed" BY <1>5, <2>2 DEF ClientExit, PeerClose, TypeInv, TypeOK
    <3> QED BY <3>1
  <2>3. CASE conn[c] # "open"
    <3>1. UNCHANGED conn BY <1>5, <2>3 DEF ClientExit, vars, peerVars
    <3> QED BY <2>1, <2>3, <3>1
  <2> QED BY <2>2, <2>3
<1>6. ASSUME NEW r \in Requests, ClientAsk(c, r) PROVE ToldInvAt(c)'
  <2>1. /\ conn[c] = "open" /\ cpc[c] = "menu"
        /\ UNCHANGED <<conn, resps, connected_flag, logged, tried, reserved>>
    BY <1>6 DEF ClientAsk, MayAsk, PeerSend, handlerVars
  <2>2. Plain(c) => resps[c] = <<>> BY <2>1, QuietAtMenu
  <2> QED BY <2>1, <2>2
<1>7. ASSUME NEW r \in Requests, ClientReserve(c, r) PROVE ToldInvAt(c)'
  <2>1. conn[c] = "open" /\ conn' = conn /\ reserved'[c] = reserved[c] + 1
    BY <1>7 DEF ClientReserve, PeerSend, SessionTypeOK
  <2>2. reserved'[c] # 0 BY <2>1 DEF SessionTypeOK
  <2> QED BY <2>1, <2>2
<1> QED BY <1>1, <1>2, <1>3, <1>4, <1>5, <1>6, <1>7 DEF Client

AnswerInv == \A c \in Conns : StepInvAt(c) /\ ToldInvAt(c)

LEMMA AnswerInvNext ==
  Inv /\ SessionTypeOK /\ LagInv /\ AnswerInv /\ [SessionNext]_sessionVars => AnswerInv'
<1> SUFFICES ASSUME Inv, SessionTypeOK, LagInv, AnswerInv, [SessionNext]_sessionVars,
                    NEW d \in Conns
             PROVE  StepInvAt(d)' /\ ToldInvAt(d)'
  BY DEF AnswerInv
<1>0. TypeInv /\ HandlerInvAt(d) /\ LagInvAt(d) /\ StepInvAt(d) /\ ToldInvAt(d)
  BY DEF Inv, HandlerInv, LagInv, AnswerInv
<1>1. CASE UNCHANGED sessionVars
  BY <1>0, <1>1 DEF sessionVars, vars, peerVars, handlerVars, clientVars, StepInvAt,
     ToldInvAt, Plain, Waiting, AsksAccess
<1>2. ASSUME NEW c \in Conns, Client(c) \/ Server(c) PROVE StepInvAt(d)' /\ ToldInvAt(d)'
  <2>1. CASE c = d
    <3>1. CASE Client(d) BY <1>0, <3>1, ClientStepInv, ClientToldInv
    <3>2. CASE Server(d) BY <1>0, <3>2, ServerStepInv, ServerToldInv
    <3> QED BY <1>2, <2>1, <3>1, <3>2
  <2>2. CASE c # d
    <3>1. /\ conn'[d] = conn[d] /\ reqs'[d] = reqs[d] /\ resps'[d] = resps[d]
          /\ tpc'[d] = tpc[d] /\ cur'[d] = cur[d] /\ connected_flag'[d] = connected_flag[d]
          /\ cpc'[d] = cpc[d] /\ asked'[d] = asked[d] /\ logged'[d] = logged[d]
          /\ tried'[d] = tried[d] /\ reserved'[d] = reserved[d]
      BY <1>0, <1>2, <2>2, SessionIsolation
    <3> QED BY <1>0, <3>1 DEF StepInvAt, ToldInvAt, Plain, Waiting, AsksAccess
  <2> QED BY <2>1, <2>2
<1> QED BY <1>1, <1>2 DEF SessionNext

LEMMA LagInvInit == SessionInit => SessionTypeOK /\ LagInv
BY DEF SessionInit, SessionTypeOK, FlagsFit, Init, LagInv, LagInvAt, Load, Count, Waiting, Busy

LEMMA AnswerInvInit == SessionInit => AnswerInv
BY DEF SessionInit, Init, AnswerInv, StepInvAt, ToldInvAt, Plain, Waiting, AsksAccess

(* What a client that reserved nothing reads is the answer to what it      *)
(* asked, whatever the other clients do and wherever their steps fall.     *)
THEOREM InStepHolds == SessionSpec => []InStep
<1>1. SessionTypeOK /\ Inv /\ LagInv /\ AnswerInv => InStep
  <2> SUFFICES ASSUME SessionTypeOK, Inv, LagInv, AnswerInv, NEW c \in Conns,
                      Waiting(c), resps[c] # <<>>, reserved[c] = 0
               PROVE  Answers(Head(resps[c]), asked[c])
    BY DEF InStep
  <2>1. conn[c] = "open" BY DEF AnswerInv, StepInvAt
  <2> QED BY <2>1 DEF AnswerInv, StepInvAt, Plain
<1> QED BY InvInit, InvNext, SessionTypeNext, LagInvInit, LagInvNext, AnswerInvInit,
        AnswerInvNext, <1>1, PTL DEF SessionSpec

(* A client that shows logged: 0 after a try is refused what only an       *)
(* administrator may ask.                                                  *)
THEOREM ToldNoHolds == SessionSpec => []ToldNoIsRefused
<1>1. AnswerInv => ToldNoIsRefused
  BY DEF AnswerInv, ToldInvAt, ToldNoIsRefused, Plain, AsksAccess, Waiting
<1> QED BY InvInit, InvNext, SessionTypeNext, LagInvInit, LagInvNext, AnswerInvInit,
        AnswerInvNext, <1>1, PTL DEF SessionSpec
=============================================================================
