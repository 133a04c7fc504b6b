------------------------------- MODULE MCServer -------------------------------
(* Values of the constants of CinemaServer for TLC: one request of every    *)
(* kind that takes a different path through handle_client.                  *)
EXTENDS CinemaServer, TLC

Req(type, text) == [type |-> type, text |-> text]

(* Every handler and every way it may end. *)
EveryPath ==
  {Req("movies", "good"), Req("shows", "bad"), Req("shows", "short"),
   Req("reserve", "good"), Req("add_show", "bad"), Req("login", "good"),
   Req("login", "bad"), Req("logout", "good"), Req("unknown", "good")}

Symmetry == Permutations(Conns)
=============================================================================
