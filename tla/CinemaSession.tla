---------------------------- MODULE CinemaSession -----------------------------
(***************************************************************************)
(* src/c_client/client.c at the other end of every connection of           *)
(* CinemaServer: a menu, a socket, and the flags connected and logged. The *)
(* client sends one packet and, except after a reservation, waits for one  *)
(* packet, which it takes for the answer.                                  *)
(***************************************************************************)
EXTENDS CinemaServer

VARIABLES
  cpc,        \* the client: "menu", "wait" (in recv_packet), "wizard" (it
              \*   cannot leave the dialogue of handle_add_movie) or "dead"
  asked,      \* the request it is waiting for, or NoRequest
  connected,  \* main's flag connected
  logged,     \* main's flag logged
  tried,      \* it has been given an answer to a login or a logout
  reserved    \* reservations it sent; it reads no answer to them

clientVars == <<cpc, asked, connected, logged, tried, reserved>>
sessionVars == <<vars, clientVars>>

(* A client whose main has connected set has a socket that was connected,  *)
(* and it waits exactly while it has asked for something.                  *)
FlagsFit ==
  \A c \in Conns : /\ connected[c] => conn[c] # "idle"
                   /\ cpc[c] = "wait" <=> asked[c] # NoRequest

SessionTypeOK ==
  /\ cpc \in [Conns -> {"menu", "wait", "wizard", "dead"}]
  /\ asked \in [Conns -> Requests \cup {NoRequest}]
  /\ connected \in [Conns -> BOOLEAN]
  /\ logged \in [Conns -> BOOLEAN]
  /\ tried \in [Conns -> BOOLEAN]
  /\ reserved \in [Conns -> Nat]
  /\ FlagsFit

SessionInit ==
  /\ Init
  /\ cpc = [c \in Conns |-> "menu"]
  /\ asked = [c \in Conns |-> NoRequest]
  /\ connected = [c \in Conns |-> FALSE]
  /\ logged = [c \in Conns |-> FALSE]
  /\ tried = [c \in Conns |-> FALSE]
  /\ reserved = [c \in Conns |-> 0]

-----------------------------------------------------------------------------
(* The menu. *)

(* Mutant: main sets connected whether connect succeeded or not. *)
ClientConnectUntested(c) ==
  /\ cpc[c] = "menu" /\ (PeerConnect(c) \/ UNCHANGED vars)
  /\ connected' = [connected EXCEPT ![c] = TRUE]
  /\ UNCHANGED <<cpc, asked, logged, tried, reserved>>

(* 8: Connect. A socket connects once; every later attempt ends the client *)
(* (see ClientExit).                                                       *)
ClientConnect(c) ==
  /\ cpc[c] = "menu" /\ PeerConnect(c)
  /\ connected' = [connected EXCEPT ![c] = TRUE]
  /\ UNCHANGED <<cpc, asked, logged, tried, reserved>>

(* 9: Disconnect closes the descriptor that Connect "returned", 1, and     *)
(* leaves the socket as it is.                                             *)
ClientDisconnect(c) ==
  /\ cpc[c] = "menu"
  /\ connected' = [connected EXCEPT ![c] = FALSE]
  /\ UNCHANGED <<vars, cpc, asked, logged, tried, reserved>>

MayAsk(c, r) ==
  /\ cpc[c] = "menu" /\ connected[c]
  /\ r.type \in Writes => logged[c]

(* 1, 2, 5, 6, 7: send the request and wait in recv_packet. *)
ClientAsk(c, r) ==
  /\ MayAsk(c, r)
  /\ r.type \in {"movies", "shows", "add_show", "login", "logout"}
  /\ PeerSend(c, r)
  /\ cpc' = [cpc EXCEPT ![c] = "wait"]
  /\ asked' = [asked EXCEPT ![c] = r]
  /\ UNCHANGED <<connected, logged, tried, reserved>>

(* 3: send the reservation and go back to the menu. *)
ClientReserve(c, r) ==
  /\ MayAsk(c, r) /\ r.type = "reserve"
  /\ PeerSend(c, r)
  /\ reserved' = [reserved EXCEPT ![c] = @ + 1]
  /\ UNCHANGED <<cpc, asked, connected, logged, tried>>

(* 4: the dialogue sets an inner entry_ok and tests the outer one: it asks *)
(* for the movie again and again, and nothing is sent.                     *)
ClientAddMovie(c) ==
  /\ cpc[c] = "menu" /\ connected[c] /\ logged[c]
  /\ cpc' = [cpc EXCEPT ![c] = "wizard"]
  /\ UNCHANGED <<vars, asked, connected, logged, tried, reserved>>

(* recv_packet returns the next packet; handle_login and handle_logout     *)
(* return its Status, whatever its type, and main stores it in logged.     *)
ClientTakes(c) ==
  /\ cpc[c] = "wait" /\ PeerRead(c)
  /\ cpc' = [cpc EXCEPT ![c] = "menu"]
  /\ asked' = [asked EXCEPT ![c] = NoRequest]
  /\ IF asked[c].type \in {"login", "logout"}
       THEN /\ logged' = [logged EXCEPT ![c] = Head(resps[c]).ok]
            /\ tried' = [tried EXCEPT ![c] = TRUE]
       ELSE UNCHANGED <<logged, tried>>
  /\ UNCHANGED <<connected, reserved>>

(* The client ends: 0, a failed connect, a NULL packet from recv_packet    *)
(* once the server is gone, a signal. The kernel closes its socket.        *)
ClientExit(c) ==
  /\ cpc[c] # "dead"
  /\ IF conn[c] = "open" THEN PeerClose(c) ELSE UNCHANGED vars
  /\ cpc' = [cpc EXCEPT ![c] = "dead"]
  /\ asked' = [asked EXCEPT ![c] = NoRequest]
  /\ UNCHANGED <<connected, logged, tried, reserved>>

-----------------------------------------------------------------------------

Client(c) ==
  \/ ClientConnect(c) \/ ClientDisconnect(c) \/ ClientAddMovie(c)
  \/ ClientTakes(c) \/ ClientExit(c)
  \/ \E r \in Requests : ClientAsk(c, r) \/ ClientReserve(c, r)

Server(c) == (Accept(c) \/ Thread(c)) /\ UNCHANGED clientVars

SessionNext == \E c \in Conns : Client(c) \/ Server(c)

SessionSpec == SessionInit /\ [][SessionNext]_sessionVars

(* The scheduler runs every thread and the accept loop; a client that is   *)
(* waiting in recv gets what arrived, or NULL once the server is gone. No  *)
(* fairness on what a user chooses.                                        *)
Fairness ==
  \A c \in Conns :
    /\ WF_sessionVars(Accept(c) /\ UNCHANGED clientVars)
    /\ WF_sessionVars(Thread(c) /\ UNCHANGED clientVars)
    /\ WF_sessionVars(ClientTakes(c))
    /\ WF_sessionVars(~up /\ cpc[c] = "wait" /\ ClientExit(c))

FairSessionSpec == SessionSpec /\ Fairness

-----------------------------------------------------------------------------
(* Properties. *)

Waiting(c) == cpc[c] = "wait"
Count(b) == IF b THEN 1 ELSE 0

(* How far a client is behind the server: the packets under way between    *)
(* them, in either direction or in the hands of the thread, together with  *)
(* the requests dropped in silence are exactly the reservations whose      *)
(* answers nobody reads and the request the client waits for.              *)
ExactLag ==
  \A c \in Conns :
    conn[c] = "open" =>
      Len(reqs[c]) + Count(tpc[c] \in Busy) + Len(resps[c]) + silent[c]
        = reserved[c] + Count(Waiting(c))

(* Comments "Wait to recv the packet" of client.c: a client that waits and *)
(* has a packet before it has the answer to what it asked. Holds as long   *)
(* as it never sent a reservation.                                         *)
Answers(a, r) == a = GeneralError \/ a.code = AnswerCode[r.type]
InStep ==
  \A c \in Conns :
    Waiting(c) /\ resps[c] # <<>> /\ reserved[c] = 0 => Answers(Head(resps[c]), asked[c])

(* The same without the reservation clause: the answer that confirms a     *)
(* reservation is never read, so the next packet read is that one.         *)
AnswerMatches ==
  \A c \in Conns : Waiting(c) /\ resps[c] # <<>> => Answers(Head(resps[c]), asked[c])

(* A client that was told Status 0 for its log-in, and shows logged: 0, is *)
(* one whose thread refuses every administrator's request.                 *)
ToldNoIsRefused ==
  \A c \in Conns :
    conn[c] = "open" /\ cpc[c] = "menu" /\ tried[c] /\ ~logged[c] /\ reserved[c] = 0
      => ~connected_flag[c]

(* A client that waits gets its packet, unless its server thread dropped a *)
(* request in silence.                                                     *)
WaitEndsUnlessSilent ==
  \A c \in Conns : Waiting(c) ~> ~Waiting(c) \/ silent[c] > 0

(* doc/protocol.md, "A response message is sent by the server to provide   *)
(* the requested information": every wait ends.                            *)
EveryWaitEnds == \A c \in Conns : Waiting(c) ~> ~Waiting(c)

(* A thread that asks for password_mutex gets it, whatever other clients   *)
(* do, as long as the process lives.                                       *)
LoginsGetTheMutex == \A c \in Conns : tpc[c] = "lock" ~> tpc[c] # "lock" \/ ~up

(* The thread of a client that left ends: no connection keeps its thread.  *)
LeftConnectionsEnd == \A c \in Conns : conn[c] = "closed" ~> tpc[c] = "done" \/ ~up
=============================================================================
