------------------------ MODULE CinemaRefinementProofs ------------------------
(***************************************************************************)
(* CinemaServer implements CinemaService: the initial states map to        *)
(* initial states and every step maps to one step of the service, or to    *)
(* none.                                                                   *)
(***************************************************************************)
EXTENDS CinemaServerProofs

(* The instance has its own copy of the protocol's operators. *)
LEMMA SameProtocol ==
  /\ Service!Answer = Answer
  /\ Service!Reads = Reads
  /\ \A a, r, f : Service!Fits(a, r, f) <=> Fits(a, r, f)
  /\ \A t, f, a : Service!FlagAfter(t, f, a) = FlagAfter(t, f, a)
<1>1. Service!Answer = Answer BY DEF Service!Answer, Answer
<1>2. Service!Reads = Reads BY DEF Service!Reads, Reads
<1>3. ASSUME NEW a, NEW r, NEW f PROVE Service!Fits(a, r, f) <=> Fits(a, r, f)
  BY DEF Service!Fits, Fits, Service!Refused, Refused, Service!Guarded, Guarded,
         Service!Writes, Writes, Service!Reads, Reads, Service!GeneralError, GeneralError,
         Service!AnswerCode, AnswerCode
<1>4. ASSUME NEW t, NEW f, NEW a PROVE Service!FlagAfter(t, f, a) = FlagAfter(t, f, a)
  BY DEF Service!FlagAfter, FlagAfter
<1> QED BY <1>1, <1>2, <1>3, <1>4

(* A packet in hand in front of the packets under way. *)
LEMMA InFront ==
  ASSUME NEW S, NEW x \in S, NEW s \in Seq(S)
  PROVE  /\ <<x>> \o s \in Seq(S) /\ <<x>> \o s # <<>>
         /\ Head(<<x>> \o s) = x /\ Tail(<<x>> \o s) = s
         /\ \A y \in S : <<x>> \o Append(s, y) = Append(<<x>> \o s, y)
OBVIOUS

LEMMA HeadInFront ==
  ASSUME NEW S, NEW s \in Seq(S), s # <<>>
  PROVE  <<Head(s)>> \o Tail(s) = s
OBVIOUS

(* What a step for c does to the service, connection by connection. *)
LEMMA MappedStep ==
  ASSUME TypeInv, TypeInv', NEW c \in Conns, Step(c)
  PROVE  /\ Serving' = [Serving EXCEPT ![c] = ServingAt(tpc'[c])]
         /\ Inbox' = [Inbox EXCEPT ![c] = Pending(c)']
         /\ conn' = [conn EXCEPT ![c] = conn'[c]]
         /\ resps' = [resps EXCEPT ![c] = resps'[c]]
         /\ connected_flag' = [connected_flag EXCEPT ![c] = connected_flag'[c]]
<1>1. \A d \in Conns \ {c} :
        /\ conn'[d] = conn[d] /\ reqs'[d] = reqs[d] /\ resps'[d] = resps[d]
        /\ tpc'[d] = tpc[d] /\ cur'[d] = cur[d] /\ connected_flag'[d] = connected_flag[d]
  BY Isolation
<1>2. Serving' = [Serving EXCEPT ![c] = ServingAt(tpc'[c])]
  BY <1>1 DEF Serving
<1>3. \A d \in Conns \ {c} : Pending(d)' = Pending(d)
  BY <1>1 DEF Pending
<1>4. Inbox' = [Inbox EXCEPT ![c] = Pending(c)']
  BY <1>3 DEF Inbox
<1>5. conn' = [conn EXCEPT ![c] = conn'[c]]
  BY <1>1 DEF TypeInv, TypeOK
<1>6. resps' = [resps EXCEPT ![c] = resps'[c]]
  BY <1>1 DEF TypeInv, TypeOK
<1>7. connected_flag' = [connected_flag EXCEPT ![c] = connected_flag'[c]]
  BY <1>1 DEF TypeInv, TypeOK
<1> QED BY <1>2, <1>4, <1>5, <1>6, <1>7

(* The service's view of connection c. *)
LEMMA View ==
  ASSUME TypeInv, NEW c \in Conns
  PROVE  /\ Serving[c] = ServingAt(tpc[c]) /\ Inbox[c] = Pending(c)
         /\ tpc[c] \in Busy =>
              /\ Serving[c] = "during" /\ Inbox[c] # <<>>
              /\ Head(Inbox[c]) = cur[c] /\ Tail(Inbox[c]) = reqs[c]
<1>1. Serving[c] = ServingAt(tpc[c]) /\ Inbox[c] = Pending(c)
  BY DEF Serving, Inbox
<1>2. ASSUME tpc[c] \in Busy
      PROVE  /\ Inbox[c] # <<>> /\ Head(Inbox[c]) = cur[c] /\ Tail(Inbox[c]) = reqs[c]
             /\ Serving[c] = "during"
  <2>1. cur[c] \in Requests /\ reqs[c] \in Seq(Requests)
    BY <1>2 DEF TypeInv, TypeOK, CurIsRequest
  <2>2. Inbox[c] = <<cur[c]>> \o reqs[c]
    BY <1>1, <1>2 DEF Pending
  <2>3. Serving[c] = "during"
    BY <1>1, <1>2 DEF ServingAt, Busy
  <2> QED BY <2>1, <2>2, <2>3, InFront
<1> QED BY <1>1, <1>2

(* A step that the service does not see. *)
LEMMA Hidden ==
  ASSUME TypeInv, TypeInv', NEW c \in Conns, Step(c), up' = up,
         conn'[c] = conn[c], resps'[c] = resps[c], connected_flag'[c] = connected_flag[c],
         ServingAt(tpc'[c]) = ServingAt(tpc[c]), Pending(c)' = Pending(c)
  PROVE  UNCHANGED Service!serviceVars
<1>1. Serving \in [Conns -> {"before", "during", "after"}] /\ Serving' = Serving
  <2>1. Serving' = [Serving EXCEPT ![c] = Serving[c]]
    BY MappedStep, View
  <2> QED BY <2>1 DEF Serving, ServingAt
<1>2. Inbox' = Inbox
  <2>1. Inbox' = [Inbox EXCEPT ![c] = Inbox[c]]
    BY MappedStep, View
  <2> QED BY <2>1 DEF Inbox
<1>3. conn' = conn
  <2>1. conn' = [conn EXCEPT ![c] = conn[c]] BY MappedStep
  <2> QED BY <2>1 DEF TypeInv, TypeOK
<1>4. resps' = resps
  <2>1. resps' = [resps EXCEPT ![c] = resps[c]] BY MappedStep
  <2> QED BY <2>1 DEF TypeInv, TypeOK
<1>5. connected_flag' = connected_flag
  <2>1. connected_flag' = [connected_flag EXCEPT ![c] = connected_flag[c]] BY MappedStep
  <2> QED BY <2>1 DEF TypeInv, TypeOK
<1> QED BY <1>1, <1>2, <1>3, <1>4, <1>5 DEF Service!serviceVars

(* The process dies over a request in hand, or over a connection it has    *)
(* not started to serve.                                                   *)
LEMMA Dying ==
  ASSUME TypeInv, NEW c \in Conns, up, up' = FALSE,
         UNCHANGED <<conn, reqs, resps, tpc, cur, connected_flag>>,
         tpc[c] \in Busy \/ (tpc[c] = "none" /\ conn[c] # "idle")
  PROVE  Service!Fail(c)
<1>1. Serving' = Serving BY DEF Serving
<1>2. Inbox' = Inbox BY DEF Inbox, Pending
<1>3. tpc[c] = "none" => Serving[c] = "before" BY View DEF ServingAt
<1> QED BY <1>1, <1>2, <1>3, View DEF Service!Fail

LEMMA MappedPeer ==
  ASSUME TypeInv, TypeInv', NEW c \in Conns, Peer(c)
  PROVE  \/ Service!Connect(c) \/ Service!Collect(c) \/ Service!Leave(c)
         \/ \E r \in Requests : Service!Submit(c, r)
<1>0. Step(c) BY DEF Step
<1>1. UNCHANGED <<tpc, cur, connected_flag, up>> =>
        Serving' = Serving /\ (reqs' = reqs => Inbox' = Inbox)
  BY DEF Serving, Inbox, Pending
<1>2. CASE PeerConnect(c)
  BY <1>1, <1>2 DEF PeerConnect, handlerVars, Service!Connect
<1>3. CASE PeerRead(c)
  BY <1>1, <1>3 DEF PeerRead, handlerVars, Service!Collect
<1>4. CASE PeerClose(c)
  BY <1>1, <1>4 DEF PeerClose, handlerVars, Service!Leave
<1>5. ASSUME NEW r \in Requests, PeerSend(c, r) PROVE Service!Submit(c, r)
  <2>1. /\ UNCHANGED <<tpc, cur, connected_flag, up, conn, resps>> /\ conn[c] = "open"
        /\ reqs'[c] = Append(reqs[c], r)
    BY <1>5 DEF PeerSend, handlerVars, TypeInv, TypeOK
  <2>2. reqs[c] \in Seq(Requests) /\ (tpc[c] \in Busy => cur[c] \in Requests)
    BY DEF TypeInv, TypeOK, CurIsRequest
  <2>3. Pending(c)' = Append(Pending(c), r)
    BY <2>1, <2>2, InFront DEF Pending
  <2>4. Inbox' = [Inbox EXCEPT ![c] = Append(Inbox[c], r)]
    BY <1>0, <2>3, MappedStep, View
  <2> QED BY <1>1, <2>1, <2>4 DEF Service!Submit
<1> QED BY <1>2, <1>3, <1>4, <1>5 DEF Peer

LEMMA MappedAccept ==
  ASSUME TypeInv, TypeInv', NEW c \in Conns, HandlerInvAt(c), Accept(c)
  PROVE  Service!Begin(c) \/ Service!Fail(c)
<1>0. Step(c) BY DEF Step
<1>1. CASE StartThread(c)
  <2>1. /\ up /\ up' = up /\ conn[c] # "idle" /\ tpc[c] = "none" /\ tpc'[c] = "recv"
        /\ UNCHANGED <<conn, reqs, resps, cur>>
    BY <1>1 DEF StartThread, peerVars, TypeInv, TypeOK
  <2>2. connected_flag' = connected_flag
    <3>1. connected_flag[c] = TRUE /\ connected_flag' = [connected_flag EXCEPT ![c] = TRUE]
      BY <1>1, <2>1 DEF StartThread, HandlerInvAt, TypeInv, TypeOK
    <3> QED BY <3>1 DEF TypeInv, TypeOK
  <2>3. ServingAt(tpc[c]) = "before" /\ ServingAt(tpc'[c]) = "during"
    BY <2>1 DEF ServingAt
  <2>4. Serving[c] = "before" /\ Serving' = [Serving EXCEPT ![c] = "during"]
    BY <1>0, <2>3, MappedStep, View
  <2>5. Pending(c)' = Pending(c)
    BY <2>1 DEF Pending, Busy
  <2>6. Inbox' = Inbox
    <3>1. Inbox' = [Inbox EXCEPT ![c] = Inbox[c]]
      BY <1>0, <2>5, MappedStep, View
    <3> QED BY <3>1 DEF Inbox
  <2> QED BY <2>1, <2>2, <2>4, <2>6 DEF Service!Begin
<1>2. CASE AcceptFails(c)
  BY <1>2, Dying DEF AcceptFails, peerVars, handlerVars
<1> QED BY <1>1, <1>2 DEF Accept

(* The steps between the arrival of a packet and its answer are hidden. *)
LEMMA MappedHandling ==
  ASSUME TypeInv, TypeInv', NEW c \in Conns,
         \/ Receive(c) \/ RefuseRequest(c) \/ HandleRead(c) \/ HandleWrite(c) \/ HandleLogout(c)
         \/ HandleLogin(c) \/ LoginLock(c) \/ LoginMatch(c) \/ LoginMiss(c)
  PROVE  UNCHANGED Service!serviceVars
<1>0. Step(c) BY DEF Step, Thread
<1> USE DEF TypeInv, TypeOK, Busy
<1>1. CASE Receive(c)
  <2>1. /\ tpc[c] = "recv" /\ tpc'[c] = "dispatch" /\ cur'[c] = Head(reqs[c])
        /\ reqs[c] \in Seq(Requests) /\ reqs[c] # <<>> /\ reqs'[c] = Tail(reqs[c])
        /\ UNCHANGED <<up, conn, resps, connected_flag>>
    BY <1>1 DEF Receive
  <2>2. Pending(c)' = Pending(c)
    BY <2>1, HeadInFront DEF Pending
  <2>3. ServingAt(tpc'[c]) = ServingAt(tpc[c])
    BY <2>1 DEF ServingAt
  <2> QED BY <1>0, <2>1, <2>2, <2>3, Hidden
<1>2. ASSUME tpc[c] \in Busy, tpc'[c] \in Busy,
             UNCHANGED <<up, conn, reqs, resps, cur, connected_flag>>
      PROVE  UNCHANGED Service!serviceVars
  <2>1. Pending(c)' = Pending(c) BY <1>2 DEF Pending
  <2>2. ServingAt(tpc'[c]) = ServingAt(tpc[c]) BY <1>2 DEF ServingAt
  <2> QED BY <1>0, <1>2, <2>1, <2>2, Hidden
<1>3. CASE RefuseRequest(c) \/ HandleLogout(c) \/ HandleLogin(c)
  BY <1>2, <1>3 DEF RefuseRequest, HandleLogout, HandleLogin, Taken, Reply, peerVars, handlerVars
<1>4. CASE HandleRead(c)
  BY <1>2, <1>4 DEF HandleRead, Taken, Reply, peerVars
<1>5. CASE HandleWrite(c)
  BY <1>2, <1>5 DEF HandleWrite, Taken, Reply, peerVars
<1>6. CASE LoginLock(c) \/ LoginMatch(c) \/ LoginMiss(c)
  BY <1>2, <1>6 DEF LoginLock, LoginMatch, LoginMiss, LoginReturns, Reply, peerVars, handlerVars
<1> QED BY <1>1, <1>3, <1>4, <1>5, <1>6

(* The return to the loop after an answer, sent or lost, is Serve. *)
LEMMA MappedAnswer ==
  ASSUME TypeInv, TypeInv', NEW c \in Conns, HandlerInvAt(c), Step(c),
         up, up' \in BOOLEAN, tpc[c] = "reply", NextCommand(c),
         resps' = IF conn[c] = "open" THEN [resps EXCEPT ![c] = Append(@, ans[c])] ELSE resps
  PROVE  Service!Serve(c)
<1>1. /\ tpc[c] \in Busy /\ tpc'[c] = "recv" /\ UNCHANGED <<conn, reqs>> /\ ans[c] \in Answer
      /\ connected_flag' = [connected_flag EXCEPT ![c] = FlagAfter(cur[c].type, @, ans[c])]
  BY DEF NextCommand, Busy, TypeInv, TypeOK
<1>2. Fits(ans[c], cur[c], connected_flag[c])
  BY DEF HandlerInvAt
<1>3. ServingAt(tpc'[c]) = "during" /\ ServingAt(tpc[c]) = "during"
  BY <1>1 DEF ServingAt
<1>4. Serving' = Serving
  <2>1. ServingAt(tpc'[c]) = Serving[c]
    BY <1>3, View
  <2>2. Serving' = [Serving EXCEPT ![c] = ServingAt(tpc'[c])]
    BY MappedStep
  <2> QED BY <2>1, <2>2 DEF Serving
<1>5. Inbox' = [Inbox EXCEPT ![c] = Tail(Inbox[c])]
  <2>1. Pending(c)' = reqs[c]
    BY <1>1 DEF Pending, Busy
  <2> QED BY <1>1, <2>1, MappedStep, View
<1>6. /\ ans[c] \in Service!Answer /\ Service!Fits(ans[c], Head(Inbox[c]), connected_flag[c])
      /\ Service!FlagAfter(Head(Inbox[c]).type, connected_flag[c], ans[c])
           = FlagAfter(cur[c].type, connected_flag[c], ans[c])
  BY <1>1, <1>2, SameProtocol, View
<1>7. connected_flag' =
        [connected_flag EXCEPT ![c] = Service!FlagAfter(Head(Inbox[c]).type, @, ans[c])]
  BY <1>1, <1>6
<1> QED BY <1>1, <1>4, <1>5, <1>6, <1>7, View DEF Service!Serve

LEMMA MappedThread ==
  ASSUME TypeInv, TypeInv', NEW c \in Conns, HandlerInvAt(c), Thread(c)
  PROVE  \/ Service!Serve(c) \/ Service!Skip(c) \/ Service!End(c) \/ Service!Fail(c)
         \/ UNCHANGED Service!serviceVars
<1>0. Step(c) BY DEF Step
<1>1. CASE \/ Receive(c) \/ RefuseRequest(c) \/ HandleRead(c) \/ HandleWrite(c)
           \/ HandleLogout(c) \/ HandleLogin(c) \/ LoginLock(c) \/ LoginMatch(c) \/ LoginMiss(c)
  BY <1>1, MappedHandling
<1>2. CASE \/ ShortPayloadFault(c) \/ NullColumnFault(c) \/ AccountsFault(c) \/ SigPipe(c)
  BY <1>2, Dying DEF ShortPayloadFault, NullColumnFault, AccountsFault, SigPipe, Taken,
                     Busy, peerVars, handlerVars
<1>3. CASE SendReply(c)
  BY <1>0, <1>3, MappedAnswer DEF SendReply
<1>4. CASE SendLost(c)
  BY <1>0, <1>4, MappedAnswer DEF SendLost
<1>5. CASE PayloadFault(c)
  <2>1. up /\ up' = FALSE /\ up' \in BOOLEAN /\ tpc[c] = "reply"
    BY <1>5 DEF PayloadFault
  <2>2. CASE UNCHANGED <<diskVars, password_mutex, peerVars, tpc, handlerVars>>
    BY <2>1, <2>2, Dying DEF Busy, peerVars, handlerVars
  <2>3. CASE /\ conn[c] = "open" /\ NextCommand(c)
             /\ resps' = [resps EXCEPT ![c] = Append(@, ans[c])]
    BY <1>0, <2>1, <2>3, MappedAnswer
  <2> QED BY <1>5, <2>2, <2>3 DEF PayloadFault
<1>6. CASE ReadNotPrepared(c)
  <2>1. /\ up /\ tpc[c] = "dispatch" /\ cur[c].type \in Reads /\ tpc'[c] = "recv"
        /\ UNCHANGED <<up, conn, reqs, resps, connected_flag>>
    BY <1>6 DEF ReadNotPrepared, Taken, peerVars, TypeInv, TypeOK
  <2>2. Serving' = Serving
    <3>1. ServingAt(tpc'[c]) = ServingAt(tpc[c]) BY <2>1 DEF ServingAt
    <3>2. Serving' = [Serving EXCEPT ![c] = Serving[c]]
      BY <1>0, <3>1, MappedStep, View
    <3> QED BY <3>2 DEF Serving
  <2>3. Inbox' = [Inbox EXCEPT ![c] = Tail(Inbox[c])]
    <3>1. Pending(c)' = reqs[c] /\ tpc[c] \in Busy BY <2>1 DEF Pending, Busy
    <3> QED BY <1>0, <3>1, MappedStep, View
  <2> QED BY <2>1, <2>2, <2>3, View, SameProtocol DEF Service!Skip, Busy
<1>7. CASE RecvEnd(c)
  <2>1. /\ up /\ tpc[c] = "recv" /\ conn[c] = "closed" /\ tpc'[c] = "done" /\ reqs'[c] = <<>>
        /\ UNCHANGED <<up, conn, resps, connected_flag>>
    BY <1>7 DEF RecvEnd, TypeInv, TypeOK
  <2>2. Serving[c] = "during" /\ Serving' = [Serving EXCEPT ![c] = "after"]
    <3>1. ServingAt(tpc[c]) = "during" /\ ServingAt(tpc'[c]) = "after" BY <2>1 DEF ServingAt
    <3> QED BY <1>0, <3>1, MappedStep, View
  <2>3. Inbox' = [Inbox EXCEPT ![c] = <<>>]
    <3>1. Pending(c)' = <<>> BY <2>1 DEF Pending, Busy
    <3> QED BY <1>0, <3>1, MappedStep
  <2> QED BY <2>1, <2>2, <2>3 DEF Service!End
<1> QED BY <1>1, <1>2, <1>3, <1>4, <1>5, <1>6, <1>7 DEF Thread

-----------------------------------------------------------------------------

LEMMA MappedInit == Init => Service!ServiceInit
<1> SUFFICES ASSUME Init PROVE Service!ServiceInit
  OBVIOUS
<1>1. Serving = [c \in Conns |-> "before"] BY DEF Init, Serving, ServingAt
<1>2. Inbox = [c \in Conns |-> <<>>] BY DEF Init, Inbox, Pending, Busy
<1> QED BY <1>1, <1>2 DEF Init, Service!ServiceInit

LEMMA MappedNext ==
  TypeInv /\ TypeInv' /\ HandlerInv /\ [Next]_vars => [Service!ServiceNext]_(Service!serviceVars)
<1> SUFFICES ASSUME TypeInv, TypeInv', HandlerInv, [Next]_vars
             PROVE  Service!ServiceNext \/ UNCHANGED Service!serviceVars
  OBVIOUS
<1>1. CASE UNCHANGED vars
  BY <1>1 DEF vars, peerVars, handlerVars, Service!serviceVars, Serving, Inbox, Pending
<1>2. ASSUME NEW c \in Conns, Step(c)
      PROVE  Service!ServiceNext \/ UNCHANGED Service!serviceVars
  <2>0. HandlerInvAt(c) BY DEF HandlerInv
  <2>1. CASE Peer(c) BY <2>1, MappedPeer DEF Service!ServiceNext
  <2>2. CASE Accept(c) BY <2>0, <2>2, MappedAccept DEF Service!ServiceNext
  <2>3. CASE Thread(c) BY <2>0, <2>3, MappedThread DEF Service!ServiceNext
  <2> QED BY <1>2, <2>1, <2>2, <2>3 DEF Step
<1> QED BY <1>1, <1>2 DEF Next, Step

(* Threads, handles, faults and the mutex implement the service: requests  *)
(* in order, each answered at most once and by an answer that fits it and  *)
(* the log-in state, silence for reads only, no death of an idle server.   *)
THEOREM ServerImplementsService == Spec => ImplementsService
<1> QED BY TypeInvInit, TypeInvNext, HandlerInvInit, HandlerInvNext, MappedInit, MappedNext, PTL
        DEF Spec, ImplementsService, Service!ServiceSpec
=============================================================================
