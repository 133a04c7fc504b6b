------------------------------ MODULE MCSession -------------------------------
(* Values of the constants of CinemaSession for TLC. *)
EXTENDS CinemaSession, TLC

Req(type, text) == [type |-> type, text |-> text]

(* What the menu can send, with the outcomes that change a session. *)
MenuRequests ==
  {Req("movies", "good"), Req("shows", "bad"), Req("reserve", "good"),
   Req("login", "good"), Req("login", "bad"), Req("logout", "good")}

(* One request for each way a wait may end. *)
WaitRequests ==
  {Req("movies", "good"), Req("login", "good"), Req("reserve", "good")}

Symmetry == Permutations(Conns)
=============================================================================
