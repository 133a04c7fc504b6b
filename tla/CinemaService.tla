---------------------------- MODULE CinemaService -----------------------------
(***************************************************************************)
(* What one connection to the cinema server can count on, without threads, *)
(* database handles or the password mutex: its requests are taken in order *)
(* and each is answered at most once, by an answer that fits the request   *)
(* and the log-in state the connection had reached by then; only a read    *)
(* may get no answer from a live server; the service of a connection ends  *)
(* only after its peer left; and a server that nobody asks anything stays  *)
(* up.                                                                     *)
(***************************************************************************)
EXTENDS CinemaProtocol, Sequences

CONSTANTS Conns,      \* the connections made to the server
          Requests    \* the requests the peers send

VARIABLES up,        \* the server process is alive
          conn,      \* what each peer did: "idle", "open", "closed"
          serving,   \* "before", "during" or "after" the life of its thread
          auth,      \* the server takes the connection for logged in
          inbox,     \* requests sent and not yet dealt with
          outbox     \* answers sent and not yet read

serviceVars == <<up, conn, serving, auth, inbox, outbox>>

ServiceInit ==
  /\ up = TRUE
  /\ conn = [c \in Conns |-> "idle"]
  /\ serving = [c \in Conns |-> "before"]
  /\ auth = [c \in Conns |-> TRUE]
  /\ inbox = [c \in Conns |-> <<>>]
  /\ outbox = [c \in Conns |-> <<>>]

-----------------------------------------------------------------------------
(* The peers. *)

Connect(c) ==
  /\ up /\ conn[c] = "idle"
  /\ conn' = [conn EXCEPT ![c] = "open"]
  /\ UNCHANGED <<up, serving, auth, inbox, outbox>>

Submit(c, r) ==
  /\ conn[c] = "open"
  /\ inbox' = [inbox EXCEPT ![c] = Append(@, r)]
  /\ UNCHANGED <<up, conn, serving, auth, outbox>>

Collect(c) ==
  /\ conn[c] = "open" /\ outbox[c] # <<>>
  /\ outbox' = [outbox EXCEPT ![c] = Tail(@)]
  /\ UNCHANGED <<up, conn, serving, auth, inbox>>

Leave(c) ==
  /\ conn[c] = "open"
  /\ conn' = [conn EXCEPT ![c] = "closed"]
  /\ outbox' = [outbox EXCEPT ![c] = <<>>]
  /\ UNCHANGED <<up, serving, auth, inbox>>

-----------------------------------------------------------------------------
(* The server. *)

Begin(c) ==
  /\ up /\ conn[c] # "idle" /\ serving[c] = "before"
  /\ serving' = [serving EXCEPT ![c] = "during"]
  /\ UNCHANGED <<up, conn, auth, inbox, outbox>>

(* The answer to the oldest request. A peer that left does not get it, and *)
(* the process may die of having sent it.                                  *)
Serve(c) ==
  /\ up /\ serving[c] = "during" /\ inbox[c] # <<>>
  /\ \E a \in Answer :
       /\ Fits(a, Head(inbox[c]), auth[c])
       /\ auth' = [auth EXCEPT ![c] = FlagAfter(Head(inbox[c]).type, @, a)]
       /\ outbox' = IF conn[c] = "open" THEN [outbox EXCEPT ![c] = Append(@, a)] ELSE outbox
  /\ inbox' = [inbox EXCEPT ![c] = Tail(@)]
  /\ up' \in BOOLEAN
  /\ UNCHANGED <<conn, serving>>

(* A read the database rejects is dropped without a word. *)
Skip(c) ==
  /\ up /\ serving[c] = "during" /\ inbox[c] # <<>>
  /\ Head(inbox[c]).type \in Reads
  /\ inbox' = [inbox EXCEPT ![c] = Tail(@)]
  /\ UNCHANGED <<up, conn, serving, auth, outbox>>

End(c) ==
  /\ up /\ serving[c] = "during" /\ conn[c] = "closed"
  /\ serving' = [serving EXCEPT ![c] = "after"]
  /\ inbox' = [inbox EXCEPT ![c] = <<>>]
  /\ UNCHANGED <<up, conn, auth, outbox>>

(* The process dies only over a connection that is not yet served or over  *)
(* a request it took.                                                      *)
Fail(c) ==
  /\ up
  /\ \/ conn[c] # "idle" /\ serving[c] = "before"
     \/ serving[c] = "during" /\ inbox[c] # <<>>
  /\ up' = FALSE
  /\ UNCHANGED <<conn, serving, auth, inbox, outbox>>

ServiceNext ==
  \E c \in Conns :
    \/ Connect(c) \/ Collect(c) \/ Leave(c)
    \/ \E r \in Requests : Submit(c, r)
    \/ Begin(c) \/ Serve(c) \/ Skip(c) \/ End(c) \/ Fail(c)

ServiceSpec == ServiceInit /\ [][ServiceNext]_serviceVars
=============================================================================
