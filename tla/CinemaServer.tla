----------------------------- MODULE CinemaServer -----------------------------
(***************************************************************************)
(* src/c_server/server.c: one thread per connection, running handle_client *)
(* over the shared password mutex, one SQLite handle of its own and the    *)
(* socket of its peer. recv_packet and send_packet move whole packets      *)
(* here; the peers (PeerConnect, PeerSend, PeerRead, PeerClose) are the    *)
(* other end of the socket and may do anything a TCP peer may do.          *)
(*                                                                         *)
(* The hand-over of the socket from the accept loop to the thread is taken *)
(* to work: each connection gets a thread that reads its own socket.       *)
(***************************************************************************)
EXTENDS CinemaProtocol, Naturals, Sequences

CONSTANTS Conns,        \* the connections made to the server
          Requests,     \* the requests the peers send
          MaxRequests,  \* bound: requests sent in one behaviour
          NoConn,       \* nobody holds password_mutex
          NoRequest     \* a thread has no packet in hand

ASSUME ConnsAssumption == NoConn \notin Conns
ASSUME RequestsAssumption == Requests \subseteq Request /\ NoRequest \notin Requests
ASSUME MaxRequestsAssumption == MaxRequests \in Nat

VARIABLES
  up,              \* the server process is alive
  catalogue,       \* the tables: "missing", "clean", or "holes" (NULL columns)
  accounts,        \* data/passwords.csv: "missing", "clean" or "damaged"
  password_mutex,  \* the connection whose thread holds it, or NoConn
  conn,            \* the peer's end: "idle", "open" or "closed"
  reqs,            \* packets sent by the peer and not yet received
  resps,           \* packets sent by the server and not yet read
  tpc,             \* where the thread of the connection is
  cur,             \* payload_buff: the packet in hand
  ans,             \* packet_buff: the answer about to be sent (else GeneralError)
  dbh,             \* the thread's handle: "none", "open", "pinned" (it has
                   \*   statements that were not finalized), "closed", "leaked"
  connected_flag,  \* the thread takes its peer for logged in
  silent,          \* requests that were dropped without an answer
  requests         \* requests sent so far

peerVars   == <<conn, reqs, resps, requests>>
diskVars   == <<catalogue, accounts>>
handlerVars == <<cur, ans, dbh, connected_flag, silent>>
vars == <<up, diskVars, password_mutex, peerVars, tpc, handlerVars>>

Busy == {"dispatch", "lock", "scan", "reply"}    \* it has a packet in hand

TypeOK ==
  /\ up \in BOOLEAN
  /\ catalogue \in {"missing", "clean", "holes"}
  /\ accounts \in {"missing", "clean", "damaged"}
  /\ password_mutex \in Conns \cup {NoConn}
  /\ conn \in [Conns -> {"idle", "open", "closed"}]
  /\ reqs \in [Conns -> Seq(Requests)]
  /\ resps \in [Conns -> Seq(Answer)]
  /\ tpc \in [Conns -> Busy \cup {"none", "recv", "done"}]
  /\ cur \in [Conns -> Requests \cup {NoRequest}]
  /\ ans \in [Conns -> Answer]
  /\ dbh \in [Conns -> {"none", "open", "pinned", "closed", "leaked"}]
  /\ connected_flag \in [Conns -> BOOLEAN]
  /\ silent \in [Conns -> Nat]
  /\ requests \in Nat

Init ==
  /\ up = TRUE
  /\ catalogue \in {"missing", "clean", "holes"}
  /\ accounts \in {"missing", "clean", "damaged"}
  /\ password_mutex = NoConn
  /\ conn = [c \in Conns |-> "idle"]
  /\ reqs = [c \in Conns |-> <<>>]
  /\ resps = [c \in Conns |-> <<>>]
  /\ tpc = [c \in Conns |-> "none"]
  /\ cur = [c \in Conns |-> NoRequest]
  /\ ans = [c \in Conns |-> GeneralError]
  /\ dbh = [c \in Conns |-> "none"]
  /\ connected_flag = [c \in Conns |-> TRUE]
  /\ silent = [c \in Conns |-> 0]
  /\ requests = 0

-----------------------------------------------------------------------------
(* The other end of the socket. *)

PeerConnect(c) ==
  /\ up /\ conn[c] = "idle"
  /\ conn' = [conn EXCEPT ![c] = "open"]
  /\ UNCHANGED <<up, diskVars, password_mutex, reqs, resps, requests, tpc, handlerVars>>

PeerSend(c, r) ==
  /\ conn[c] = "open" /\ requests < MaxRequests
  /\ reqs' = [reqs EXCEPT ![c] = Append(@, r)]
  /\ requests' = requests + 1
  /\ UNCHANGED <<up, diskVars, password_mutex, conn, resps, tpc, handlerVars>>

PeerRead(c) ==
  /\ conn[c] = "open" /\ resps[c] # <<>>
  /\ resps' = [resps EXCEPT ![c] = Tail(@)]
  /\ UNCHANGED <<up, diskVars, password_mutex, conn, reqs, requests, tpc, handlerVars>>

PeerClose(c) ==
  /\ conn[c] = "open"
  /\ conn' = [conn EXCEPT ![c] = "closed"]
  /\ resps' = [resps EXCEPT ![c] = <<>>]
  /\ UNCHANGED <<up, diskVars, password_mutex, reqs, requests, tpc, handlerVars>>

-----------------------------------------------------------------------------
(* main and the beginning of handle_client. *)

(* accept returns the connection and its thread starts: open_database may  *)
(* fail, its result is not looked at, and init_table works on the global   *)
(* db, which is NULL, so the tables stay as they are.                      *)
StartThread(c) ==
  /\ up /\ conn[c] # "idle" /\ tpc[c] = "none"
  /\ tpc' = [tpc EXCEPT ![c] = "recv"]
  /\ \E h \in {"none", "open"} : dbh' = [dbh EXCEPT ![c] = h]
  /\ connected_flag' = [connected_flag EXCEPT ![c] = TRUE]
  /\ UNCHANGED <<up, diskVars, password_mutex, peerVars, cur, ans, silent>>

(* accept returns -1, or the thread cannot be created: main ends the process. *)
AcceptFails(c) ==
  /\ up /\ conn[c] # "idle" /\ tpc[c] = "none"
  /\ up' = FALSE
  /\ UNCHANGED <<diskVars, password_mutex, peerVars, tpc, handlerVars>>

(* recv_packet returns the next packet. *)
Receive(c) ==
  /\ up /\ tpc[c] = "recv" /\ reqs[c] # <<>>
  /\ tpc' = [tpc EXCEPT ![c] = "dispatch"]
  /\ cur' = [cur EXCEPT ![c] = Head(reqs[c])]
  /\ reqs' = [reqs EXCEPT ![c] = Tail(@)]
  /\ UNCHANGED <<up, diskVars, password_mutex, conn, resps, requests, ans, dbh,
                 connected_flag, silent>>

(* Mutants: recv_packet returns NULL for a peer that is still there; the   *)
(* thread ends only when there is a handle to clean up.                    *)
RecvEndEarly(c) ==
  /\ up /\ tpc[c] = "recv" /\ conn[c] # "idle"
  /\ tpc' = [tpc EXCEPT ![c] = "done"]
  /\ reqs' = [reqs EXCEPT ![c] = <<>>]
  /\ UNCHANGED <<up, diskVars, password_mutex, conn, resps, requests, handlerVars>>
RecvEndWithHandle(c) ==
  /\ up /\ tpc[c] = "recv" /\ conn[c] = "closed" /\ dbh[c] # "none"
  /\ tpc' = [tpc EXCEPT ![c] = "done"]
  /\ reqs' = [reqs EXCEPT ![c] = <<>>]
  /\ UNCHANGED <<up, diskVars, password_mutex, conn, resps, requests, handlerVars>>

(* recv_packet returns NULL once the peer closed; what it had sent may be  *)
(* lost to a reset. The thread exits and cleanup closes its handle, which  *)
(* SQLite refuses while statements are left on it.                         *)
RecvEnd(c) ==
  /\ up /\ tpc[c] = "recv" /\ conn[c] = "closed"
  /\ tpc' = [tpc EXCEPT ![c] = "done"]
  /\ reqs' = [reqs EXCEPT ![c] = <<>>]
  /\ dbh' = [dbh EXCEPT ![c] = CASE @ = "open"   -> "closed"
                                 [] @ = "pinned" -> "leaked"
                                 [] OTHER        -> @]
  /\ UNCHANGED <<up, diskVars, password_mutex, conn, resps, requests, cur, ans,
                 connected_flag, silent>>

-----------------------------------------------------------------------------
(* The handlers. A handler prepares its answer and goes to "reply". *)

Taken(c, types) ==
  /\ up /\ tpc[c] = "dispatch" /\ cur[c].type \in types
  /\ ~Refused(cur[c].type, connected_flag[c])

(* sqlite3_prepare_v2 compiles the first statement of the request's text.  *)
(* The text that handle_add_show builds ends in a comma: it is good only   *)
(* if a field of the request ends the statement before.                    *)
CanPrepare(c) ==
  /\ dbh[c] \in {"open", "pinned"} /\ catalogue # "missing"
  /\ cur[c].text = "good"

(* The statement is left on the handle: no handler finalizes it. *)
Prepare(c) == dbh' = [dbh EXCEPT ![c] = "pinned"]

Reply(c, a) ==
  /\ ans' = [ans EXCEPT ![c] = a]
  /\ tpc' = [tpc EXCEPT ![c] = "reply"]

RefuseRequest(c) ==
  /\ up /\ tpc[c] = "dispatch" /\ Refused(cur[c].type, connected_flag[c])
  /\ Reply(c, GeneralError)
  /\ UNCHANGED <<up, diskVars, password_mutex, peerVars, cur, dbh, connected_flag, silent>>

(* The handler follows the parameter list past its end. *)
ShortPayloadFault(c) ==
  /\ Taken(c, Parameterised) /\ cur[c].text = "short"
  /\ up' = FALSE
  /\ UNCHANGED <<diskVars, password_mutex, peerVars, tpc, handlerVars>>

(* handle_get_movie_list and handle_get_shows run the query to its end. *)
HandleRead(c) ==
  /\ Taken(c, Reads) /\ cur[c].text # "short" /\ CanPrepare(c)
  /\ Prepare(c)
  /\ \E b \in {"none", "rows"} :
       Reply(c, [code |-> AnswerCode[cur[c].type], ok |-> TRUE, body |-> b])
  /\ UNCHANGED <<up, diskVars, password_mutex, peerVars, cur, connected_flag, silent>>

(* createParameter takes the length of a column that is NULL. *)
NullColumnFault(c) ==
  /\ Taken(c, Reads) /\ cur[c].text # "short" /\ CanPrepare(c) /\ catalogue = "holes"
  /\ up' = FALSE
  /\ UNCHANGED <<diskVars, password_mutex, peerVars, tpc, handlerVars>>

(* They return without an answer when the query does not compile. *)
ReadNotPrepared(c) ==
  /\ Taken(c, Reads) /\ cur[c].text # "short" /\ ~CanPrepare(c)
  /\ tpc' = [tpc EXCEPT ![c] = "recv"]
  /\ cur' = [cur EXCEPT ![c] = NoRequest]
  /\ silent' = [silent EXCEPT ![c] = @ + 1]
  /\ UNCHANGED <<up, diskVars, password_mutex, peerVars, ans, dbh, connected_flag>>

(* Mutant: the result of sqlite3_prepare_v2 is not tested. *)
HandleWriteUntested(c) ==
  /\ Taken(c, Writes) /\ cur[c].text # "short"
  /\ IF CanPrepare(c) THEN Prepare(c) ELSE UNCHANGED dbh
  /\ Reply(c, [code |-> AnswerCode[cur[c].type], ok |-> TRUE, body |-> "none"])
  /\ UNCHANGED <<up, diskVars, password_mutex, peerVars, cur, connected_flag, silent>>

(* handle_reserve_seats, handle_add_movie and handle_add_show compile the  *)
(* statement, never step it, and leave the payload pointer of the answer   *)
(* as malloc returned it.                                                  *)
HandleWrite(c) ==
  /\ Taken(c, Writes) /\ cur[c].text # "short"
  /\ IF CanPrepare(c) THEN Prepare(c) ELSE UNCHANGED dbh
  /\ \E b \in {"none", "stray"} :
       Reply(c, [code |-> AnswerCode[cur[c].type], ok |-> CanPrepare(c), body |-> b])
  /\ UNCHANGED <<up, diskVars, password_mutex, peerVars, cur, connected_flag, silent>>

(* Mutants: handle_logout answers with the type byte of the request; it    *)
(* was copied from handle_login with its type byte.                        *)
HandleLogoutEchoesType(c) ==
  /\ Taken(c, {"logout"})
  /\ Reply(c, [code |-> cur[c].type, ok |-> TRUE, body |-> "none"])
  /\ UNCHANGED <<up, diskVars, password_mutex, peerVars, cur, dbh, connected_flag, silent>>
HandleLogoutAsLogin(c) ==
  /\ Taken(c, {"logout"})
  /\ Reply(c, [code |-> AnswerCode["login"], ok |-> TRUE, body |-> "none"])
  /\ UNCHANGED <<up, diskVars, password_mutex, peerVars, cur, dbh, connected_flag, silent>>

HandleLogout(c) ==
  /\ Taken(c, {"logout"})
  /\ Reply(c, [code |-> AnswerCode["logout"], ok |-> TRUE, body |-> "none"])
  /\ UNCHANGED <<up, diskVars, password_mutex, peerVars, cur, dbh, connected_flag, silent>>

(* handle_login finds the two parameters and calls login. *)
HandleLogin(c) ==
  /\ Taken(c, {"login"}) /\ cur[c].text # "short"
  /\ tpc' = [tpc EXCEPT ![c] = "lock"]
  /\ UNCHANGED <<up, diskVars, password_mutex, peerVars, handlerVars>>

LoginLock(c) ==
  /\ up /\ tpc[c] = "lock" /\ password_mutex = NoConn
  /\ password_mutex' = c
  /\ tpc' = [tpc EXCEPT ![c] = "scan"]
  /\ UNCHANGED <<up, diskVars, peerVars, handlerVars>>

(* Mutant: login unlocks on one of its returns only. *)
LoginReturnsLocked(c, found) ==
  /\ password_mutex' = IF found THEN password_mutex ELSE NoConn
  /\ Reply(c, [code |-> AnswerCode["login"], ok |-> found, body |-> "none"])
  /\ UNCHANGED <<up, diskVars, peerVars, cur, dbh, connected_flag, silent>>

(* The two returns of login, and the answer handle_login makes of each. *)
LoginReturns(c, found) ==
  /\ password_mutex' = NoConn
  /\ Reply(c, [code |-> AnswerCode["login"], ok |-> found, body |-> "none"])
  /\ UNCHANGED <<up, diskVars, peerVars, cur, dbh, connected_flag, silent>>

LoginMatch(c) ==
  /\ up /\ tpc[c] = "scan" /\ accounts # "missing" /\ cur[c].text = "good"
  /\ LoginReturns(c, TRUE)

LoginMiss(c) ==
  /\ up /\ tpc[c] = "scan" /\ accounts = "clean" /\ cur[c].text = "bad"
  /\ LoginReturns(c, FALSE)

(* There is no file, or the scan meets a line without a comma. *)
AccountsFault(c) ==
  /\ up /\ tpc[c] = "scan" /\ accounts # "clean"
  /\ up' = FALSE
  /\ UNCHANGED <<diskVars, password_mutex, peerVars, tpc, handlerVars>>

-----------------------------------------------------------------------------
(* send_packet, the return to the loop of handle_client, and the free of   *)
(* both packets.                                                           *)

NextCommand(c) ==
  /\ tpc' = [tpc EXCEPT ![c] = "recv"]
  /\ cur' = [cur EXCEPT ![c] = NoRequest]
  /\ ans' = [ans EXCEPT ![c] = GeneralError]
  /\ connected_flag' = [connected_flag EXCEPT ![c] = FlagAfter(cur[c].type, @, ans[c])]
  /\ UNCHANGED <<diskVars, password_mutex, conn, reqs, requests, dbh, silent>>

(* Mutants: a case without its break also sends the general error; an      *)
(* answer without payload is not sent.                                     *)
SendReplyAndError(c) ==
  /\ up /\ tpc[c] = "reply" /\ conn[c] = "open"
  /\ resps' = [resps EXCEPT ![c] = @ \o <<ans[c], GeneralError>>]
  /\ NextCommand(c)
  /\ UNCHANGED up
SendReplyWithPayload(c) ==
  /\ up /\ tpc[c] = "reply" /\ conn[c] = "open"
  /\ resps' = IF ans[c].body = "none" THEN resps ELSE [resps EXCEPT ![c] = Append(@, ans[c])]
  /\ NextCommand(c)
  /\ UNCHANGED up

SendReply(c) ==
  /\ up /\ tpc[c] = "reply" /\ conn[c] = "open"
  /\ resps' = [resps EXCEPT ![c] = Append(@, ans[c])]
  /\ NextCommand(c)
  /\ UNCHANGED up

(* The peer is gone; send_packet's result is not looked at. *)
SendLost(c) ==
  /\ up /\ tpc[c] = "reply" /\ conn[c] = "closed"
  /\ NextCommand(c)
  /\ UNCHANGED <<up, resps>>

(* The peer is gone and has reset the connection: SIGPIPE. *)
SigPipe(c) ==
  /\ up /\ tpc[c] = "reply" /\ conn[c] = "closed"
  /\ up' = FALSE
  /\ UNCHANGED <<diskVars, password_mutex, peerVars, tpc, handlerVars>>

(* The stray payload pointer is not a parameter list: the process dies in  *)
(* send_packet, or in deletePayload after the answer went out. A list of   *)
(* rows is written past its buffer (see ParamCodec): the allocator may end *)
(* the process at the next realloc, or at the free after the send.         *)
PayloadFault(c) ==
  /\ up /\ tpc[c] = "reply" /\ ans[c].body # "none"
  /\ up' = FALSE
  /\ \/ UNCHANGED <<diskVars, password_mutex, peerVars, tpc, handlerVars>>
     \/ /\ conn[c] = "open"
        /\ resps' = [resps EXCEPT ![c] = Append(@, ans[c])]
        /\ NextCommand(c)

-----------------------------------------------------------------------------

Accept(c) == StartThread(c) \/ AcceptFails(c)

Thread(c) ==
  \/ Receive(c) \/ RecvEnd(c)
  \/ RefuseRequest(c) \/ ShortPayloadFault(c)
  \/ HandleRead(c) \/ NullColumnFault(c) \/ ReadNotPrepared(c)
  \/ HandleWrite(c) \/ HandleLogout(c) \/ HandleLogin(c)
  \/ LoginLock(c) \/ LoginMatch(c) \/ LoginMiss(c) \/ AccountsFault(c)
  \/ SendReply(c) \/ SendLost(c) \/ SigPipe(c) \/ PayloadFault(c)

Peer(c) ==
  \/ PeerConnect(c) \/ PeerRead(c) \/ PeerClose(c)
  \/ \E r \in Requests : PeerSend(c, r)

Next == \E c \in Conns : Peer(c) \/ Accept(c) \/ Thread(c)

Spec == Init /\ [][Next]_vars

-----------------------------------------------------------------------------
(* Properties. *)

(* password_mutex is held exactly by the thread that is scanning the       *)
(* password file: both returns of login release it, no thread leaves login *)
(* or dies of its connection with it, and the unsynchronised strtok of the *)
(* scan never runs in two threads.                                         *)
MutexDiscipline == \A c \in Conns : password_mutex = c <=> tpc[c] = "scan"

(* A client that is told that its query or change succeeded has made the   *)
(* thread leave a statement on its database handle: whatever the peer does *)
(* next, cleanup will not close that handle.                               *)
SqlCodes == {AnswerCode[t] : t \in Reads \cup Writes}
SuccessPinsHandle ==
  \A c \in Conns :
    \A a \in (IF tpc[c] = "reply" THEN {ans[c]} ELSE {})
             \cup {resps[c][i] : i \in 1..Len(resps[c])} :
      a.ok /\ a.code \in SqlCodes => dbh[c] \in {"pinned", "leaked"}

(* A connection that is not logged in becomes so only by the answer to a   *)
(* login whose name and password are in the file.                          *)
LoggedInOnlyByMatch ==
  [][\A c \in Conns : ~connected_flag[c] /\ connected_flag'[c] =>
        cur[c].type = "login" /\ cur[c].text = "good"]_vars

(* Threads, handles and the mutex implement the service a connection can   *)
(* count on (see CinemaService): a packet stays in the inbox from the send *)
(* of the peer to the return of its handler.                               *)
ServingAt(pc) == CASE pc = "none" -> "before"
                   [] pc = "done" -> "after"
                   [] OTHER       -> "during"
Serving == [c \in Conns |-> ServingAt(tpc[c])]

Pending(c) == IF tpc[c] \in Busy THEN <<cur[c]>> \o reqs[c] ELSE reqs[c]
Inbox == [c \in Conns |-> Pending(c)]

Service == INSTANCE CinemaService
             WITH serving <- Serving, auth <- connected_flag, inbox <- Inbox, outbox <- resps

ImplementsService == Service!ServiceSpec
=============================================================================
