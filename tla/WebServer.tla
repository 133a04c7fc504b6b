------------------------------ MODULE WebServer -------------------------------
(***************************************************************************)
(* The Java web server (customHttpServer, socket, cServerConnector): two   *)
(* listeners, each handing the connections it accepts to a pool of worker  *)
(* threads, and pages that ask the C server for its movies from inside a   *)
(* worker. The C server is CinemaService, the specification that           *)
(* CinemaServer was shown to implement; a page makes one connection to it, *)
(* which bears the name of the visitor.                                    *)
(***************************************************************************)
EXTENDS Naturals, Sequences, FiniteSets

CONSTANTS Visitors,   \* the connections made to the web server, numbered as they come
          PoolSize,   \* 4: threads of each pool
          MaxLocks    \* 101: log files that can be open on one name

ASSUME VisitorsAssumption == Visitors \subseteq Nat /\ IsFiniteSet(Visitors)
ASSUME PoolAssumption == PoolSize \in Nat \ {0} /\ MaxLocks \in Nat

Listeners == {"plain", "tls"}

(* "movies", "shows": a page with that marker. "broken": a file that does  *)
(* not exist, a path without a dot or a request the parser trips over.     *)
Pages == {"static", "movies", "shows", "broken"}

VARIABLES
  up, conn, serving, auth, inbox, outbox,   \* the C server, see CinemaService
  listener,  \* "up", or "ended" once its thread has left its loop
  backlog,   \* connections the kernel holds for a listener
  queue,     \* handlers that wait for a thread of the listener's pool
  limit,     \* log files that were free at the start: a second server in the
             \*   same directory holds locks of its own
  locks,     \* log files opened by handlers, none of which is ever closed
  via,       \* the listener a visitor connected to
  want,      \* the page it asks for
  asked,     \* its request has arrived
  gone,      \* it has closed its end
  takes,     \* its page can be written to the end: the browser reads it, or
             \*   the buffers of the socket hold what it does not read
  visit      \* how far its connection is, see Working

cServerVars  == <<up, conn, serving, auth, inbox, outbox>>
poolVars     == <<listener, backlog, queue, limit, locks>>
visitorVars  == <<via, want, asked, gone, takes>>
vars == <<cServerVars, poolVars, visitorVars, visit>>

MoviesRequest == [type |-> "movies", text |-> "good"]
CServer == INSTANCE CinemaService WITH Conns <- Visitors, Requests <- {MoviesRequest}

(* In run of httpClientHandlerThread: reading the request, connecting to   *)
(* the C server, sending to it, waiting for its answer, writing the page.  *)
Working == {"reading", "connecting", "sending", "waiting", "writing"}

(* The ends of a visit: the socket was closed after the page; an exception *)
(* left it open; the listener ended over it.                               *)
Over == {"answered", "dropped", "refused"}

WebTypeOK ==
  /\ listener \in [Listeners -> {"up", "ended"}]
  /\ backlog \in [Listeners -> Seq(Visitors)]
  /\ queue \in [Listeners -> Seq(Visitors)]
  /\ limit \in 0..MaxLocks /\ locks \in 0..limit
  /\ via \in [Visitors -> Listeners] /\ want \in [Visitors -> Pages]
  /\ asked \in [Visitors -> BOOLEAN] /\ gone \in [Visitors -> BOOLEAN]
  /\ takes \in [Visitors -> BOOLEAN]
  /\ visit \in [Visitors -> {"away", "backlog", "queued"} \cup Working \cup Over]

Init ==
  /\ CServer!ServiceInit
  /\ listener = [l \in Listeners |-> "up"]
  /\ backlog = [l \in Listeners |-> <<>>] /\ queue = [l \in Listeners |-> <<>>]
  /\ limit \in 0..MaxLocks /\ locks = 0
  /\ via = [v \in Visitors |-> "plain"] /\ want = [v \in Visitors |-> "static"]
  /\ asked = [v \in Visitors |-> FALSE] /\ gone = [v \in Visitors |-> FALSE]
  /\ takes = [v \in Visitors |-> TRUE]
  /\ visit = [v \in Visitors |-> "away"]

Go(v, place) == visit' = [visit EXCEPT ![v] = place]

-----------------------------------------------------------------------------
(* The browsers. The kernel goes on accepting for a listener that ended,   *)
(* whose socket nobody closes. What a browser does once its visit is over  *)
(* changes nothing any more.                                               *)

Visit(v, l, page) ==
  /\ visit[v] = "away" /\ \A u \in Visitors : u < v => visit[u] # "away"
  /\ Go(v, "backlog")
  /\ via' = [via EXCEPT ![v] = l] /\ want' = [want EXCEPT ![v] = page]
  /\ \E t \in BOOLEAN : takes' = [takes EXCEPT ![v] = t]
  /\ backlog' = [backlog EXCEPT ![l] = Append(@, v)]
  /\ UNCHANGED <<cServerVars, listener, queue, limit, locks, asked, gone>>

SendRequest(v) ==
  /\ visit[v] \in {"backlog", "queued", "reading"} /\ ~asked[v] /\ ~gone[v]
  /\ asked' = [asked EXCEPT ![v] = TRUE]
  /\ UNCHANGED <<cServerVars, poolVars, via, want, gone, takes, visit>>

LeaveSite(v) ==
  /\ visit[v] \notin {"away"} \cup Over /\ ~gone[v]
  /\ gone' = [gone EXCEPT ![v] = TRUE]
  /\ UNCHANGED <<cServerVars, poolVars, via, want, asked, takes, visit>>

(* A browser that did not read its page does after all. *)
ReadOn(v) ==
  /\ visit[v] = "writing" /\ ~takes[v] /\ ~gone[v]
  /\ takes' = [takes EXCEPT ![v] = TRUE]
  /\ UNCHANGED <<cServerVars, poolVars, via, want, asked, gone, visit>>

-----------------------------------------------------------------------------
(* The listeners. *)

Accepted(l) ==
  /\ listener[l] = "up" /\ backlog[l] # <<>>
  /\ backlog' = [backlog EXCEPT ![l] = Tail(@)]

(* Mutant: a handler is made whether a log file is free or not. *)
AcceptVisitorAnyway(l) ==
  /\ Accepted(l)
  /\ locks' = locks + 1
  /\ queue' = [queue EXCEPT ![l] = Append(@, Head(backlog[l]))]
  /\ Go(Head(backlog[l]), "queued")
  /\ UNCHANGED <<cServerVars, listener, limit, visitorVars>>

(* accept, then the constructor of the handler opens a log file of its     *)
(* own, in the listener's thread; then the handler is handed to the pool.  *)
AcceptVisitor(l) ==
  /\ Accepted(l) /\ locks < limit
  /\ locks' = locks + 1
  /\ queue' = [queue EXCEPT ![l] = Append(@, Head(backlog[l]))]
  /\ Go(Head(backlog[l]), "queued")
  /\ UNCHANGED <<cServerVars, listener, limit, visitorVars>>

(* Mutant: the loop goes on after the exception. *)
ConstructorThrowsInside(l) ==
  /\ Accepted(l) /\ locks = limit
  /\ Go(Head(backlog[l]), "refused")
  /\ UNCHANGED <<cServerVars, listener, queue, limit, locks, visitorVars>>

(* The constructor finds no free log file and throws: neither listener has *)
(* a handler for it inside its loop.                                       *)
ConstructorThrows(l) ==
  /\ Accepted(l) /\ locks = limit
  /\ listener' = [listener EXCEPT ![l] = "ended"]
  /\ Go(Head(backlog[l]), "refused")
  /\ UNCHANGED <<cServerVars, queue, limit, locks, visitorVars>>

(* accept throws: the plain listener logs it and goes on, the TLS listener *)
(* has its try around the loop.                                            *)
AcceptThrows ==
  /\ listener["tls"] = "up" /\ backlog["tls"] # <<>>
  /\ listener' = [listener EXCEPT !["tls"] = "ended"]
  /\ UNCHANGED <<cServerVars, backlog, queue, limit, locks, visitorVars, visit>>

-----------------------------------------------------------------------------
(* The pools. *)

Workers(l) == {v \in Visitors : via[v] = l /\ visit[v] \in Working}

(* Mutant: a thread is started for every handler. *)
StartWorkUnpooled(l) ==
  /\ queue[l] # <<>>
  /\ queue' = [queue EXCEPT ![l] = Tail(@)]
  /\ Go(Head(queue[l]), "reading")
  /\ UNCHANGED <<cServerVars, listener, backlog, limit, locks, visitorVars>>

(* A free thread takes the oldest handler. *)
StartWork(l) ==
  /\ queue[l] # <<>> /\ Cardinality(Workers(l)) < PoolSize
  /\ queue' = [queue EXCEPT ![l] = Tail(@)]
  /\ Go(Head(queue[l]), "reading")
  /\ UNCHANGED <<cServerVars, listener, backlog, limit, locks, visitorVars>>

(* The request is read up to its blank line, without a time limit. A       *)
(* missing file throws before the page for it could be chosen.             *)
ReadRequest(v) ==
  /\ visit[v] = "reading" /\ asked[v]
  /\ Go(v, CASE want[v] = "static" -> "writing"
             [] want[v] \in {"movies", "shows"} -> "connecting"
             [] want[v] = "broken" -> "dropped")
  /\ UNCHANGED <<cServerVars, poolVars, visitorVars>>

(* The stream ends, or is reset, before a request could be read: the       *)
(* request line is empty and its parts are missing.                        *)
ReadFails(v) ==
  /\ visit[v] = "reading" /\ gone[v]
  /\ Go(v, "dropped")
  /\ UNCHANGED <<cServerVars, poolVars, visitorVars>>

(* displayMovieList, displayShowList: a connection of its own for each     *)
(* page. getShowList then adds to a payload that nobody made and throws    *)
(* what only run catches.                                                  *)
ConnectServer(v) ==
  /\ visit[v] = "connecting" /\ up
  /\ CServer!Connect(v)
  /\ Go(v, IF want[v] = "movies" THEN "sending" ELSE "dropped")
  /\ UNCHANGED <<poolVars, visitorVars>>

SendToServer(v) ==
  /\ visit[v] = "sending"
  /\ CServer!Submit(v, MoviesRequest)
  /\ Go(v, "waiting")
  /\ UNCHANGED <<poolVars, visitorVars>>

(* There is no C server any more: an IOException, and a page that says so. *)
ServerUnreachable(v) ==
  /\ visit[v] \in {"connecting", "sending"} /\ ~up
  /\ Go(v, "writing")
  /\ UNCHANGED <<cServerVars, poolVars, visitorVars>>

ReceiveMovies(v) ==
  /\ visit[v] = "waiting"
  /\ CServer!Collect(v)
  /\ Go(v, "writing")
  /\ UNCHANGED <<poolVars, visitorVars>>

(* Mutant: the end of the stream is waited through. *)
ReceiveFailsOnReset(v) ==
  /\ visit[v] = "waiting" /\ ~up /\ outbox[v] = <<>> /\ gone[v]
  /\ Go(v, "writing")
  /\ UNCHANGED <<cServerVars, poolVars, visitorVars>>

(* The C server dies before it answers: an end of stream becomes a         *)
(* negative array size, which nobody catches before run does; a reset is   *)
(* an IOException and gives the page that says so.                         *)
ReceiveFails(v) ==
  /\ visit[v] = "waiting" /\ ~up /\ outbox[v] = <<>>
  /\ \E end \in {"dropped", "writing"} : Go(v, end)
  /\ UNCHANGED <<cServerVars, poolVars, visitorVars>>

(* The response is written to a blocking socket without a time limit, and  *)
(* the socket is closed; a browser that has gone may make the write throw, *)
(* and does if the page cannot be written to its end.                      *)
WritePage(v) ==
  /\ visit[v] = "writing"
  /\ \/ takes[v] /\ Go(v, "answered")
     \/ gone[v] /\ Go(v, "dropped")
  /\ UNCHANGED <<cServerVars, poolVars, visitorVars>>

(* Nobody closes the connection to the C server; the collector may, once   *)
(* the page is made.                                                       *)
CollectSocket(v) ==
  /\ visit[v] \notin {"connecting", "sending", "waiting"}
  /\ CServer!Leave(v)
  /\ UNCHANGED <<poolVars, visitorVars, visit>>

-----------------------------------------------------------------------------
(* The C server; its other clients may end it at any time. *)

CServerStep(v) ==
  /\ CServer!Begin(v) \/ CServer!Serve(v) \/ CServer!Skip(v) \/ CServer!End(v)
  /\ UNCHANGED <<poolVars, visitorVars, visit>>

CServerDies ==
  /\ up /\ up' = FALSE
  /\ UNCHANGED <<conn, serving, auth, inbox, outbox, poolVars, visitorVars, visit>>

-----------------------------------------------------------------------------

Browser(v) ==
  \/ \E l \in Listeners, page \in Pages : Visit(v, l, page)
  \/ SendRequest(v) \/ LeaveSite(v) \/ ReadOn(v)
Listener(l) == AcceptVisitor(l) \/ ConstructorThrows(l)
Worker(v) ==
  \/ ReadRequest(v) \/ ReadFails(v)
  \/ ConnectServer(v) \/ SendToServer(v) \/ ServerUnreachable(v)
  \/ ReceiveMovies(v) \/ ReceiveFails(v) \/ WritePage(v)

Next ==
  \/ \E v \in Visitors : Browser(v) \/ Worker(v) \/ CollectSocket(v) \/ CServerStep(v)
  \/ \E l \in Listeners : Listener(l) \/ StartWork(l)
  \/ AcceptThrows \/ CServerDies

Spec == Init /\ [][Next]_vars

(* Threads run: listeners, pools, workers, and the threads of the C server.*)
(* Browsers, the collector and the end of the C server are not scheduled   *)
(* by anybody.                                                             *)
Fairness ==
  /\ \A l \in Listeners : WF_vars(Listener(l)) /\ WF_vars(StartWork(l))
  /\ \A v \in Visitors : WF_vars(Worker(v)) /\ WF_vars(CServerStep(v))
FairSpec == Spec /\ Fairness

-----------------------------------------------------------------------------
(* Properties. *)

Holds(line, v) == \E i \in DOMAIN line : line[i] = v
NoRepeats(line) == \A i, j \in DOMAIN line : line[i] = line[j] => i = j

(* A connection is in one hand at a time: it waits in the backlog or in    *)
(* the queue of its own listener, once, or a worker of its pool has it,    *)
(* and the workers are never more than the threads of the pool.            *)
InOneHand ==
  \A l \in Listeners :
    /\ NoRepeats(backlog[l]) /\ NoRepeats(queue[l])
    /\ \A v \in Visitors : /\ Holds(backlog[l], v) <=> visit[v] = "backlog" /\ via[v] = l
                           /\ Holds(queue[l], v) <=> visit[v] = "queued" /\ via[v] = l
    /\ Cardinality(Workers(l)) <= PoolSize

(* The web server can handle as many connections in its life as log files  *)
(* were free when it started, over both listeners together and whatever    *)
(* became of them; the next connection of each listener is its last one    *)
(* and gets no answer, and the plain listener ends in no other way.        *)
Handled == {v \in Visitors : visit[v] \notin {"away", "backlog", "refused"}}
LockBudget ==
  /\ locks = Cardinality(Handled) /\ locks <= limit
  /\ \A v \in Visitors : visit[v] = "refused" => locks = limit /\ listener[via[v]] = "ended"
  /\ \A u, v \in Visitors : visit[u] = "refused" /\ visit[v] = "refused" /\ u # v => via[u] # via[v]
  /\ listener["plain"] = "ended" => \E v \in Visitors : visit[v] = "refused" /\ via[v] = "plain"

(* What can hold a worker for ever: a browser that neither asks nor        *)
(* leaves, a request that the C server dropped in silence, or a browser    *)
(* that stays and does not read a page the socket cannot hold.             *)
Held(v) ==
  \/ visit[v] = "reading" /\ ~asked[v] /\ ~gone[v]
  \/ visit[v] = "waiting" /\ up /\ inbox[v] = <<>> /\ outbox[v] = <<>>
  \/ visit[v] = "writing" /\ ~takes[v] /\ ~gone[v]
PoolHeld(l) == Cardinality({v \in Workers(l) : Held(v)}) = PoolSize

(* A visit comes to its end, or it holds a worker in one of these three    *)
(* ways, or every thread of its own pool is held so, or its listener has   *)
(* ended. Nothing the other listener's visitors do, and no death of the C  *)
(* server, keeps it waiting.                                               *)
Pending(v) == visit[v] \notin {"away"} \cup Over
Excused(v) ==
  \/ Held(v)
  \/ visit[v] = "queued" /\ PoolHeld(via[v])
  \/ visit[v] = "backlog" /\ listener[via[v]] = "ended"
VisitsEndUnlessHeld == \A v \in Visitors : <>[]Pending(v) => <>[]Excused(v)
=============================================================================
