---------------------------- MODULE CinemaProtocol ----------------------------
(***************************************************************************)
(* The packets that a client and the cinema server exchange, at the        *)
(* granularity of src/protocol_lib and of the handlers of                  *)
(* src/c_server/server.c.                                                  *)
(*                                                                         *)
(* A request is its type byte and an abstraction of its parameter list:    *)
(*   "good"   the SQL text the handler builds from it compiles (for a      *)
(*            login: the pair is in data/passwords.csv);                   *)
(*   "bad"    it does not compile (for a login: no line matches);          *)
(*   "short"  the list has fewer parameters than the handler dereferences. *)
(* An answer is its type byte, its Status byte and what its payload holds: *)
(* nothing, the rows of a query, or whatever an uninitialised payload      *)
(* pointer happened to point to.                                           *)
(***************************************************************************)

Reads  == {"movies", "shows"}                      \* 0x01, 0x02
Writes == {"reserve", "add_movie", "add_show"}     \* 0x03, 0x04, 0x05
Types  == Reads \cup Writes \cup {"login", "logout", "unknown"}

(* The requests the server serves only while connected_flag is set. *)
Guarded == Writes \cup {"logout"}

(* The requests whose handler dereferences the parameter list. *)
Parameterised == Writes \cup {"shows", "login"}

Request == {r \in [type : Types, text : {"good", "bad", "short"}] :
              r.type \in Parameterised \/ r.text = "good"}

(* The type byte each handler writes in its answer. *)
AnswerCode == [movies    |-> "0x81", shows    |-> "0x82", reserve |-> "0x86",
               add_movie |-> "0x85", add_show |-> "0x87",
               login     |-> "0x83", logout   |-> "0x84", unknown |-> "0x88"]

Answer == [code : {"0x81", "0x82", "0x83", "0x84", "0x85", "0x86", "0x87", "0x88"},
           ok   : BOOLEAN,
           body : {"none", "rows", "stray"}]

GeneralError == [code |-> "0x88", ok |-> FALSE, body |-> "none"]

(* The server refuses a request it does not know, and a guarded one from a *)
(* connection that is not logged in.                                       *)
Refused(type, flag) == type = "unknown" \/ (type \in Guarded /\ ~flag)

(* Mutants: a failed login leaves an earlier one in force; any login does. *)
FlagKeptByMiss(type, flag, ans) ==
  CASE type = "login"  -> flag \/ ans.ok
    [] type = "logout" -> FALSE
    [] OTHER           -> flag
FlagSetByLogin(type, flag, ans) == type # "logout" /\ (type = "login" \/ flag)

(* connected_flag after a request of this type was answered with ans. *)
FlagAfter(type, flag, ans) ==
  CASE type = "login"  -> ans.ok
    [] type = "logout" -> FALSE
    [] OTHER           -> flag

(* The answers that fit a request of a connection whose flag is flag. *)
Fits(a, r, flag) ==
  IF Refused(r.type, flag)
    THEN a = GeneralError
    ELSE /\ a.code = AnswerCode[r.type]
         /\ r.type \in Reads => a.ok /\ a.body # "stray"
         /\ r.type \in Writes => a.body # "rows" /\ (a.ok => r.text = "good")
         /\ r.type \in {"login", "logout"} => a.body = "none" /\ a.ok = (r.text = "good")
=============================================================================
