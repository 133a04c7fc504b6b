-------------------------- MODULE CinemaServerProofs --------------------------
(***************************************************************************)
(* Proofs about CinemaServer, for every set of connections, every set of   *)
(* requests and every bound on their number.                               *)
(***************************************************************************)
EXTENDS CinemaServer, TLAPS

USE ConnsAssumption, RequestsAssumption, MaxRequestsAssumption

(* The answers the handlers make are answers of the protocol. *)
LEMMA AnswerType ==
  /\ GeneralError \in Answer
  /\ \A t \in Types, b \in BOOLEAN, y \in {"none", "rows", "stray"} :
       [code |-> AnswerCode[t], ok |-> b, body |-> y] \in Answer
BY DEF GeneralError, Answer, AnswerCode, Types, Reads, Writes

(* The flag after an answer is again a flag. *)
LEMMA FlagType ==
  ASSUME NEW t \in Types, NEW f \in BOOLEAN, NEW a \in Answer
  PROVE  FlagAfter(t, f, a) \in BOOLEAN
BY DEF FlagAfter, Answer

(* A packet in hand is a request. *)
CurIsRequest == \A c \in Conns : tpc[c] \in Busy => cur[c] \in Requests

LEMMA RequestFields ==
  ASSUME NEW r \in Requests
  PROVE  r.type \in Types /\ r.text \in {"good", "bad", "short"}
BY DEF Request

TypeInv == TypeOK /\ CurIsRequest

LEMMA TypeInvInit == Init => TypeInv
BY AnswerType DEF Init, TypeInv, TypeOK, CurIsRequest, Busy

LEMMA TypeInvNext == TypeInv /\ [Next]_vars => TypeInv'
<1> SUFFICES ASSUME TypeInv, [Next]_vars PROVE TypeInv'
  OBVIOUS
<1> USE AnswerType DEF TypeInv, TypeOK, CurIsRequest, Busy, diskVars, peerVars, handlerVars
<1>1. CASE UNCHANGED vars
  BY <1>1 DEF vars
<1>2. ASSUME NEW c \in Conns, Peer(c) PROVE TypeInv'
  <2>1. CASE PeerConnect(c) BY <2>1 DEF PeerConnect
  <2>2. CASE PeerRead(c) BY <2>2 DEF PeerRead
  <2>3. CASE PeerClose(c) BY <2>3 DEF PeerClose
  <2>4. ASSUME NEW r \in Requests, PeerSend(c, r) PROVE TypeInv'
    BY <2>4 DEF PeerSend
  <2> QED BY <1>2, <2>1, <2>2, <2>3, <2>4 DEF Peer
<1>3. ASSUME NEW c \in Conns, Accept(c) PROVE TypeInv'
  <2>1. CASE StartThread(c)
    <3>1. PICK h \in {"none", "open"} : dbh' = [dbh EXCEPT ![c] = h]
      BY <2>1 DEF StartThread
    <3> QED BY <2>1, <3>1 DEF StartThread
  <2>2. CASE AcceptFails(c) BY <2>2 DEF AcceptFails
  <2> QED BY <1>3, <2>1, <2>2 DEF Accept
<1>4. ASSUME NEW c \in Conns, Thread(c) PROVE TypeInv'
  <2>0. tpc[c] \in Busy => cur[c] \in Requests /\ cur[c].type \in Types
    BY RequestFields
  <2>1. CASE Receive(c) BY <2>1 DEF Receive
  <2>2. CASE RecvEnd(c) BY <2>2 DEF RecvEnd
  <2>3. CASE RefuseRequest(c) BY <2>3 DEF RefuseRequest, Reply
  <2>4. CASE ShortPayloadFault(c) BY <2>4 DEF ShortPayloadFault
  <2>5. CASE HandleRead(c)
    <3>1. PICK b \in {"none", "rows"} :
            Reply(c, [code |-> AnswerCode[cur[c].type], ok |-> TRUE, body |-> b])
      BY <2>5 DEF HandleRead
    <3>2. ans' \in [Conns -> Answer] /\ tpc' = [tpc EXCEPT ![c] = "reply"]
      BY <2>0, <2>5, <3>1 DEF HandleRead, Taken, Reply
    <3> QED BY <2>5, <3>2 DEF HandleRead, Taken, Prepare
  <2>6. CASE NullColumnFault(c) BY <2>6 DEF NullColumnFault
  <2>7. CASE ReadNotPrepared(c) BY <2>7 DEF ReadNotPrepared, Taken
  <2>8. CASE HandleWrite(c)
    <3>1. PICK b \in {"none", "stray"} :
            Reply(c, [code |-> AnswerCode[cur[c].type], ok |-> CanPrepare(c), body |-> b])
      BY <2>8 DEF HandleWrite
    <3>2. CanPrepare(c) \in BOOLEAN BY DEF CanPrepare
    <3>3. ans' \in [Conns -> Answer] /\ tpc' = [tpc EXCEPT ![c] = "reply"]
      BY <2>0, <2>8, <3>1, <3>2 DEF HandleWrite, Taken, Reply
    <3> QED BY <2>8, <3>3 DEF HandleWrite, Taken, Prepare
  <2>9. CASE HandleLogout(c)
    BY <2>0, <2>9 DEF HandleLogout, Taken, Reply
  <2>10. CASE HandleLogin(c) BY <2>0, <2>10 DEF HandleLogin, Taken
  <2>11. CASE LoginLock(c) BY <2>11 DEF LoginLock
  <2>12. CASE LoginMatch(c)
    BY <2>12 DEF LoginMatch, LoginReturns, Reply, Types
  <2>13. CASE LoginMiss(c)
    BY <2>13 DEF LoginMiss, LoginReturns, Reply, Types
  <2>14. CASE AccountsFault(c) BY <2>14 DEF AccountsFault
  <2>15. tpc[c] = "reply" => FlagAfter(cur[c].type, connected_flag[c], ans[c]) \in BOOLEAN
    BY <2>0, FlagType
  <2>16. ASSUME tpc[c] = "reply", NextCommand(c), up' \in BOOLEAN,
                resps' \in [Conns -> Seq(Answer)]
         PROVE  TypeInv'
    BY <2>15, <2>16 DEF NextCommand
  <2>17. [resps EXCEPT ![c] = Append(@, ans[c])] \in [Conns -> Seq(Answer)]
    OBVIOUS
  <2>18. CASE SendReply(c) BY <2>16, <2>17, <2>18 DEF SendReply
  <2>19. CASE SendLost(c) BY <2>16, <2>19 DEF SendLost
  <2>20. CASE SigPipe(c) BY <2>20 DEF SigPipe
  <2>21. CASE PayloadFault(c)
    <3>1. tpc[c] = "reply" /\ up' \in BOOLEAN BY <2>21 DEF PayloadFault
    <3>2. CASE NextCommand(c) /\ resps' = [resps EXCEPT ![c] = Append(@, ans[c])]
      BY <2>16, <2>17, <3>1, <3>2
    <3>3. CASE UNCHANGED <<diskVars, password_mutex, peerVars, tpc, handlerVars>>
      BY <3>1, <3>3
    <3> QED BY <2>21, <3>2, <3>3 DEF PayloadFault
  <2> QED
    BY <1>4, <2>1, <2>2, <2>3, <2>4, <2>5, <2>6, <2>7, <2>8, <2>9, <2>10, <2>11, <2>12,
       <2>13, <2>14, <2>18, <2>19, <2>20, <2>21 DEF Thread
<1> QED BY <1>1, <1>2, <1>3, <1>4 DEF Next

(* Every behaviour of the server keeps its variables in their types. *)
THEOREM TypeCorrect == Spec => []TypeOK
<1>1. TypeInv => TypeOK BY DEF TypeInv
<1> QED BY TypeInvInit, TypeInvNext, <1>1, PTL DEF Spec

-----------------------------------------------------------------------------
(* The password mutex. *)

(* Only the three steps of login touch the mutex or a thread at "scan". *)
LEMMA MutexFrame ==
  ASSUME TypeInv, NEW c \in Conns, Thread(c) \/ Accept(c) \/ Peer(c)
  PROVE  \/ LoginLock(c) \/ LoginMatch(c) \/ LoginMiss(c)
         \/ /\ password_mutex' = password_mutex
            /\ \A d \in Conns : tpc'[d] = "scan" <=> tpc[d] = "scan"
<1> USE DEF TypeInv, TypeOK, Busy, diskVars, peerVars, handlerVars
<1>1. CASE Peer(c)
  BY <1>1 DEF Peer, PeerConnect, PeerRead, PeerClose, PeerSend
<1>2. CASE Accept(c)
  BY <1>2 DEF Accept, StartThread, AcceptFails
<1>3. CASE \/ Receive(c) \/ RecvEnd(c) \/ RefuseRequest(c) \/ HandleLogin(c)
           \/ HandleLogout(c) \/ ReadNotPrepared(c)
  BY <1>3 DEF Receive, RecvEnd, RefuseRequest, HandleLogin, HandleLogout, ReadNotPrepared,
              Taken, Reply
<1>4. CASE HandleRead(c) BY <1>4 DEF HandleRead, Taken, Reply
<1>5. CASE HandleWrite(c) BY <1>5 DEF HandleWrite, Taken, Reply
<1>6. CASE \/ ShortPayloadFault(c) \/ NullColumnFault(c) \/ AccountsFault(c) \/ SigPipe(c)
  BY <1>6 DEF ShortPayloadFault, NullColumnFault, AccountsFault, SigPipe
<1>7. CASE SendReply(c) \/ SendLost(c) \/ PayloadFault(c)
  BY <1>7 DEF SendReply, SendLost, PayloadFault, NextCommand
<1> QED BY <1>1, <1>2, <1>3, <1>4, <1>5, <1>6, <1>7 DEF Thread

LEMMA MutexNext == TypeInv /\ MutexDiscipline /\ [Next]_vars => MutexDiscipline'
<1> SUFFICES ASSUME TypeInv, MutexDiscipline, [Next]_vars PROVE MutexDiscipline'
  OBVIOUS
<1> USE DEF MutexDiscipline, TypeInv, TypeOK
<1>1. CASE UNCHANGED vars
  BY <1>1 DEF vars
<1>2. ASSUME NEW c \in Conns, Thread(c) \/ Accept(c) \/ Peer(c) PROVE MutexDiscipline'
  <2>1. CASE LoginLock(c)
    BY <2>1 DEF LoginLock
  <2>2. CASE LoginMatch(c) \/ LoginMiss(c)
    <3>1. tpc[c] = "scan" /\ password_mutex' = NoConn /\ tpc' = [tpc EXCEPT ![c] = "reply"]
      BY <2>2 DEF LoginMatch, LoginMiss, LoginReturns, Reply
    <3>2. \A d \in Conns : tpc[d] = "scan" => d = c
      BY <3>1
    <3> QED BY <3>1, <3>2
  <2> QED BY <1>2, <2>1, <2>2, MutexFrame
<1> QED BY <1>1, <1>2 DEF Next

(* At any time at most one thread is inside login, the one that holds      *)
(* password_mutex, and a mutex that is held has its owner inside login.    *)
THEOREM MutexCorrect == Spec => []MutexDiscipline
<1>1. Init => MutexDiscipline BY DEF Init, MutexDiscipline
<1> QED BY TypeInvInit, TypeInvNext, MutexNext, <1>1, PTL DEF Spec

-----------------------------------------------------------------------------
(* What the handlers leave in the variables of their thread. *)

Step(c) == Peer(c) \/ Accept(c) \/ Thread(c)

(* A step for one connection leaves everything another connection has. *)
LEMMA Isolation ==
  ASSUME TypeInv, NEW c \in Conns, NEW d \in Conns \ {c}, Step(c)
  PROVE  /\ conn'[d] = conn[d] /\ reqs'[d] = reqs[d] /\ resps'[d] = resps[d]
         /\ tpc'[d] = tpc[d] /\ cur'[d] = cur[d] /\ ans'[d] = ans[d] /\ dbh'[d] = dbh[d]
         /\ connected_flag'[d] = connected_flag[d] /\ silent'[d] = silent[d]
<1> USE DEF TypeInv, TypeOK, diskVars, peerVars, handlerVars
<1>1. CASE Peer(c)
  BY <1>1 DEF Peer, PeerConnect, PeerRead, PeerClose, PeerSend
<1>2. CASE Accept(c)
  BY <1>2 DEF Accept, StartThread, AcceptFails
<1>3. CASE Receive(c) \/ RecvEnd(c) \/ RefuseRequest(c)
  BY <1>3 DEF Receive, RecvEnd, RefuseRequest, Reply
<1>4. CASE HandleLogin(c) \/ HandleLogout(c) \/ ReadNotPrepared(c)
  BY <1>4 DEF HandleLogin, HandleLogout, ReadNotPrepared, Reply
<1>5. CASE HandleRead(c) BY <1>5 DEF HandleRead, Reply, Prepare
<1>6. CASE HandleWrite(c) BY <1>6 DEF HandleWrite, Reply, Prepare
<1>7. CASE LoginLock(c) \/ LoginMatch(c) \/ LoginMiss(c)
  BY <1>7 DEF LoginLock, LoginMatch, LoginMiss, LoginReturns, Reply
<1>8. CASE \/ ShortPayloadFault(c) \/ NullColumnFault(c) \/ AccountsFault(c) \/ SigPipe(c)
  BY <1>8 DEF ShortPayloadFault, NullColumnFault, AccountsFault, SigPipe
<1>9. CASE SendReply(c) \/ SendLost(c) \/ PayloadFault(c)
  BY <1>9 DEF SendReply, SendLost, PayloadFault, NextCommand
<1> QED BY <1>1, <1>2, <1>3, <1>4, <1>5, <1>6, <1>7, <1>8, <1>9 DEF Thread, Step

(* A thread that does not exist yet takes its peer for logged in and has   *)
(* sent nothing; inside login there is a login in hand; an answer about to *)
(* be sent fits the request in hand.                                       *)
HandlerInvAt(c) ==
  /\ tpc[c] = "none" => connected_flag[c] /\ resps[c] = <<>>
  /\ tpc[c] \in {"lock", "scan"} => cur[c].type = "login"
  /\ tpc[c] = "reply" => Fits(ans[c], cur[c], connected_flag[c])

HandlerInv == \A c \in Conns : HandlerInvAt(c)

LEMMA HandlerStep ==
  ASSUME TypeInv, NEW c \in Conns, HandlerInvAt(c), Step(c)
  PROVE  HandlerInvAt(c)'
<1> USE DEF TypeInv, TypeOK, HandlerInvAt, diskVars, peerVars, handlerVars, Busy, CurIsRequest
<1>1. CASE Peer(c)
  BY <1>1 DEF Peer, PeerConnect, PeerRead, PeerClose, PeerSend
<1>2. CASE Accept(c)
  BY <1>2 DEF Accept, StartThread, AcceptFails
<1>3. CASE Receive(c) \/ RecvEnd(c) \/ HandleLogin(c) \/ ReadNotPrepared(c) \/ LoginLock(c)
  BY <1>3 DEF Receive, RecvEnd, HandleLogin, ReadNotPrepared, LoginLock, Taken
<1>4. CASE RefuseRequest(c)
  BY <1>4 DEF RefuseRequest, Reply, Fits
<1>5. CASE HandleRead(c)
  <2>1. PICK b \in {"none", "rows"} :
          Reply(c, [code |-> AnswerCode[cur[c].type], ok |-> TRUE, body |-> b])
    BY <1>5 DEF HandleRead
  <2>2. Fits(ans'[c], cur[c], connected_flag[c])
    BY <1>5, <2>1 DEF HandleRead, Reply, Taken, Fits, Reads, Writes
  <2> QED BY <1>5, <2>1, <2>2 DEF HandleRead, Reply
<1>6. CASE HandleWrite(c)
  <2>1. PICK b \in {"none", "stray"} :
          Reply(c, [code |-> AnswerCode[cur[c].type], ok |-> CanPrepare(c), body |-> b])
    BY <1>6 DEF HandleWrite
  <2>2. Fits(ans'[c], cur[c], connected_flag[c])
    BY <1>6, <2>1 DEF HandleWrite, Reply, Taken, CanPrepare, Fits, Reads, Writes
  <2> QED BY <1>6, <2>1, <2>2 DEF HandleWrite, Reply
<1>7. CASE HandleLogout(c)
  BY <1>7, RequestFields DEF HandleLogout, Reply, Taken, Fits, Reads, Writes, Request, Parameterised
<1>8. CASE LoginMatch(c) \/ LoginMiss(c)
  <2>1. tpc[c] = "scan" /\ cur[c].type = "login"
    BY <1>8 DEF LoginMatch, LoginMiss
  <2>2. PICK found \in BOOLEAN :
          LoginReturns(c, found) /\ cur[c].text = (IF found THEN "good" ELSE "bad")
    BY <1>8 DEF LoginMatch, LoginMiss
  <2>3. ans'[c] = [code |-> AnswerCode["login"], ok |-> found, body |-> "none"]
    BY <2>2 DEF LoginReturns, Reply
  <2>4. ans'[c].code = AnswerCode["login"] /\ ans'[c].ok = found /\ ans'[c].body = "none"
    BY <2>3
  <2>5. found = (cur[c].text = "good")
    BY <2>2
  <2>6. Fits(ans'[c], cur[c], connected_flag[c])
    BY <2>1, <2>4, <2>5 DEF Fits, Reads, Writes, Refused, Guarded
  <2> QED BY <2>1, <2>2, <2>6 DEF LoginReturns, Reply
<1>9. CASE \/ ShortPayloadFault(c) \/ NullColumnFault(c) \/ AccountsFault(c) \/ SigPipe(c)
  BY <1>9 DEF ShortPayloadFault, NullColumnFault, AccountsFault, SigPipe
<1>10. CASE SendReply(c) \/ SendLost(c) \/ PayloadFault(c)
  BY <1>10 DEF SendReply, SendLost, PayloadFault, NextCommand
<1> QED BY <1>1, <1>2, <1>3, <1>4, <1>5, <1>6, <1>7, <1>8, <1>9, <1>10 DEF Thread, Step

LEMMA HandlerInvInit == Init => HandlerInv
BY DEF Init, HandlerInv, HandlerInvAt, Busy

LEMMA HandlerInvNext == TypeInv /\ HandlerInv /\ [Next]_vars => HandlerInv'
<1> SUFFICES ASSUME TypeInv, HandlerInv, [Next]_vars, NEW d \in Conns
             PROVE  HandlerInvAt(d)'
  BY DEF HandlerInv
<1>0. HandlerInvAt(d) BY DEF HandlerInv
<1>1. CASE UNCHANGED vars
  BY <1>0, <1>1 DEF vars, peerVars, handlerVars, HandlerInvAt
<1>2. ASSUME NEW c \in Conns, Step(c) PROVE HandlerInvAt(d)'
  <2>1. CASE c = d BY <1>0, <1>2, <2>1, HandlerStep
  <2>2. CASE c # d BY <1>0, <1>2, <2>2, Isolation DEF HandlerInvAt
  <2> QED BY <2>1, <2>2
<1> QED BY <1>1, <1>2 DEF Next, Step

(* A flag changes only when an answer goes out, or is lost. *)
LEMMA FlagFrame ==
  ASSUME TypeInv, NEW c \in Conns, HandlerInvAt(c), Step(c)
  PROVE  \/ connected_flag'[c] = connected_flag[c]
         \/ /\ tpc[c] = "reply"
            /\ connected_flag'[c] = FlagAfter(cur[c].type, connected_flag[c], ans[c])
<1> USE DEF TypeInv, TypeOK, diskVars, peerVars, handlerVars
<1>1. CASE Peer(c)
  BY <1>1 DEF Peer, PeerConnect, PeerRead, PeerClose, PeerSend
<1>2. CASE Accept(c)
  BY <1>2 DEF Accept, StartThread, AcceptFails, HandlerInvAt
<1>3. CASE SendReply(c) \/ SendLost(c) \/ PayloadFault(c)
  BY <1>3 DEF SendReply, SendLost, PayloadFault, NextCommand
<1>4. CASE \/ Receive(c) \/ RecvEnd(c) \/ HandleLogin(c) \/ ReadNotPrepared(c)
           \/ RefuseRequest(c) \/ HandleRead(c) \/ HandleWrite(c) \/ HandleLogout(c)
  BY <1>4 DEF Receive, RecvEnd, HandleLogin, ReadNotPrepared, RefuseRequest, HandleRead,
              HandleWrite, HandleLogout
<1>5. CASE LoginLock(c) \/ LoginMatch(c) \/ LoginMiss(c)
  BY <1>5 DEF LoginLock, LoginMatch, LoginMiss, LoginReturns
<1>6. CASE \/ ShortPayloadFault(c) \/ NullColumnFault(c) \/ AccountsFault(c) \/ SigPipe(c)
  BY <1>6 DEF ShortPayloadFault, NullColumnFault, AccountsFault, SigPipe
<1> QED BY <1>1, <1>2, <1>3, <1>4, <1>5, <1>6 DEF Thread, Step

(* A step that turns a connection's flag on is the answer to a login whose *)
(* name and password are in the file.                                      *)
RaisedByMatch ==
  \A c \in Conns : ~connected_flag[c] /\ connected_flag'[c] =>
     cur[c].type = "login" /\ cur[c].text = "good"

LEMMA RaisedStep == TypeInv /\ HandlerInv /\ [Next]_vars => RaisedByMatch
<1> SUFFICES ASSUME TypeInv, HandlerInv, [Next]_vars, NEW d \in Conns,
                    ~connected_flag[d], connected_flag'[d]
             PROVE  cur[d].type = "login" /\ cur[d].text = "good"
  BY DEF RaisedByMatch
<1>0. HandlerInvAt(d) BY DEF HandlerInv
<1>1. CASE UNCHANGED vars
  BY <1>1 DEF vars, handlerVars
<1>2. ASSUME NEW c \in Conns, Step(c)
      PROVE  cur[d].type = "login" /\ cur[d].text = "good"
  <2>1. c = d
    BY <1>2, Isolation
  <2>2. tpc[d] = "reply" /\ FlagAfter(cur[d].type, connected_flag[d], ans[d])
    BY <1>0, <1>2, <2>1, FlagFrame
  <2>3. Fits(ans[d], cur[d], connected_flag[d])
    BY <1>0, <2>2 DEF HandlerInvAt
  <2>4. cur[d].type = "login" /\ ans[d].ok
    BY <2>2 DEF FlagAfter
  <2> QED BY <2>3, <2>4 DEF Fits, Refused, Guarded, Writes
<1> QED BY <1>1, <1>2 DEF Next, Step

(* No sequence of requests, and no interleaving with other connections,    *)
(* makes a connection that is not logged in become so but a login with a   *)
(* name and password of the file.                                          *)
THEOREM LoggedInOnlyByMatchHolds == Spec => LoggedInOnlyByMatch
<1>1. RaisedByMatch <=>
        \A c \in Conns : ~connected_flag[c] /\ connected_flag'[c] =>
           cur[c].type = "login" /\ cur[c].text = "good"
  BY DEF RaisedByMatch
<1> QED BY TypeInvInit, TypeInvNext, HandlerInvInit, HandlerInvNext, RaisedStep, <1>1, PTL
        DEF Spec, LoggedInOnlyByMatch

-----------------------------------------------------------------------------
(* Answers and database handles. *)

Claims(a) == a.ok /\ a.code \in SqlCodes
Kept(c) == dbh[c] \in {"pinned", "leaked"}

PinInvAt(c) ==
  /\ tpc[c] = "reply" /\ Claims(ans[c]) => Kept(c)
  /\ \A i \in 1..Len(resps[c]) : Claims(resps[c][i]) => Kept(c)

LEMMA PinInvIsSuccessPins == SuccessPinsHandle <=> \A c \in Conns : PinInvAt(c)
<1>1. ASSUME NEW c \in Conns
      PROVE  PinInvAt(c) <=>
               \A a \in (IF tpc[c] = "reply" THEN {ans[c]} ELSE {})
                        \cup {resps[c][i] : i \in 1..Len(resps[c])} :
                 a.ok /\ a.code \in SqlCodes => dbh[c] \in {"pinned", "leaked"}
  BY DEF PinInvAt, Claims, Kept
<1> QED BY <1>1 DEF SuccessPinsHandle

LEMMA SessionAnswersClaimNothing ==
  /\ ~Claims(GeneralError)
  /\ \A b \in BOOLEAN, t \in {"login", "logout"} :
       ~Claims([code |-> AnswerCode[t], ok |-> b, body |-> "none"])
BY DEF Claims, GeneralError, SqlCodes, AnswerCode, Reads, Writes

LEMMA PinStep ==
  ASSUME TypeInv, NEW c \in Conns, HandlerInvAt(c), PinInvAt(c), Step(c)
  PROVE  PinInvAt(c)'
<1> USE DEF TypeInv, TypeOK, PinInvAt, Kept, diskVars, peerVars, handlerVars
<1>1. CASE PeerConnect(c) \/ (\E r \in Requests : PeerSend(c, r))
  BY <1>1 DEF PeerConnect, PeerSend, Claims
<1>2. CASE PeerRead(c)
  <2>1. /\ resps[c] \in Seq(Answer) /\ resps[c] # <<>>
        /\ resps'[c] = Tail(resps[c]) /\ tpc' = tpc /\ ans' = ans /\ dbh' = dbh
    BY <1>2 DEF PeerRead
  <2>2. \A i \in 1..Len(resps'[c]) :
          i + 1 \in 1..Len(resps[c]) /\ resps'[c][i] = resps[c][i + 1]
    BY <2>1
  <2> QED BY <2>1, <2>2 DEF Claims
<1>3. CASE PeerClose(c)
  BY <1>3 DEF PeerClose, Claims
<1>4. CASE Accept(c)
  BY <1>4 DEF Accept, StartThread, AcceptFails, HandlerInvAt, Claims
<1>5. CASE Receive(c) \/ RecvEnd(c) \/ HandleLogin(c) \/ ReadNotPrepared(c) \/ LoginLock(c)
  BY <1>5 DEF Receive, RecvEnd, HandleLogin, ReadNotPrepared, LoginLock, Taken, Claims
<1>6. CASE RefuseRequest(c)
  BY <1>6, SessionAnswersClaimNothing DEF RefuseRequest, Reply, Claims
<1>7. CASE HandleRead(c)
  BY <1>7 DEF HandleRead, Reply, Prepare, Claims
<1>8. CASE HandleWrite(c)
  <2>1. PICK b \in {"none", "stray"} :
          Reply(c, [code |-> AnswerCode[cur[c].type], ok |-> CanPrepare(c), body |-> b])
    BY <1>8 DEF HandleWrite
  <2>2. ans'[c].ok <=> CanPrepare(c)
    BY <2>1 DEF Reply, CanPrepare
  <2>3. CASE CanPrepare(c)
    BY <1>8, <2>3 DEF HandleWrite, Prepare, Claims
  <2>4. CASE ~CanPrepare(c)
    BY <1>8, <2>2, <2>4 DEF HandleWrite, Claims
  <2> QED BY <2>3, <2>4
<1>9. CASE HandleLogout(c)
  BY <1>9, SessionAnswersClaimNothing DEF HandleLogout, Reply, Claims
<1>10. CASE LoginMatch(c) \/ LoginMiss(c)
  <2>1. PICK found \in BOOLEAN : LoginReturns(c, found)
    BY <1>10 DEF LoginMatch, LoginMiss
  <2>2. ~Claims(ans'[c])
    BY <2>1, SessionAnswersClaimNothing DEF LoginReturns, Reply
  <2> QED BY <2>1, <2>2 DEF LoginReturns, Claims
<1>11. CASE \/ ShortPayloadFault(c) \/ NullColumnFault(c) \/ AccountsFault(c) \/ SigPipe(c)
  BY <1>11 DEF ShortPayloadFault, NullColumnFault, AccountsFault, SigPipe, Claims
<1>12. CASE SendReply(c) \/ SendLost(c) \/ PayloadFault(c)
  <2>1. CASE resps' = resps
    BY <1>12, <2>1 DEF SendReply, SendLost, PayloadFault, NextCommand, Claims
  <2>2. CASE /\ tpc[c] = "reply" /\ NextCommand(c)
             /\ resps' = [resps EXCEPT ![c] = Append(@, ans[c])]
    <3>1. resps[c] \in Seq(Answer) /\ resps'[c] = Append(resps[c], ans[c])
      BY <2>2
    <3>2. \A i \in 1..Len(resps'[c]) :
            resps'[c][i] = ans[c] \/ (i \in 1..Len(resps[c]) /\ resps'[c][i] = resps[c][i])
      BY <3>1
    <3> QED BY <2>2, <3>2 DEF NextCommand, Claims
  <2> QED
    BY <1>12, <2>1, <2>2 DEF SendReply, SendLost, PayloadFault
<1> QED
  BY <1>1, <1>2, <1>3, <1>4, <1>5, <1>6, <1>7, <1>8, <1>9, <1>10, <1>11, <1>12
     DEF Thread, Peer, Step

LEMMA PinNext ==
  TypeInv /\ HandlerInv /\ (\A c \in Conns : PinInvAt(c)) /\ [Next]_vars
    => (\A c \in Conns : PinInvAt(c))'
<1> SUFFICES ASSUME TypeInv, HandlerInv, \A c \in Conns : PinInvAt(c), [Next]_vars,
                    NEW d \in Conns
             PROVE  PinInvAt(d)'
  OBVIOUS
<1>1. CASE UNCHANGED vars
  BY <1>1 DEF vars, peerVars, handlerVars, PinInvAt, Claims, Kept
<1>2. ASSUME NEW c \in Conns, Step(c) PROVE PinInvAt(d)'
  <2>1. CASE c = d BY <1>2, <2>1, PinStep DEF HandlerInv
  <2>2. CASE c # d
    <3>1. PinInvAt(d) OBVIOUS
    <3>2. /\ resps'[d] = resps[d] /\ tpc'[d] = tpc[d]
          /\ ans'[d] = ans[d] /\ dbh'[d] = dbh[d]
      BY <1>2, <2>2, Isolation
    <3> QED BY <3>1, <3>2 DEF PinInvAt, Claims, Kept
  <2> QED BY <2>1, <2>2
<1> QED BY <1>1, <1>2 DEF Next, Step

(* Whoever has been told that a query or a change succeeded talks to a     *)
(* thread whose database handle will never be closed.                      *)
THEOREM SuccessPinsHandleHolds == Spec => []SuccessPinsHandle
<1>1. Init => \A c \in Conns : PinInvAt(c)
  BY DEF Init, PinInvAt, Claims
<1> QED BY TypeInvInit, TypeInvNext, HandlerInvInit, HandlerInvNext, PinNext,
           PinInvIsSuccessPins, <1>1, PTL DEF Spec
=============================================================================
