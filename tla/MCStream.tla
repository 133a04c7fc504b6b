------------------------------- MODULE MCStream -------------------------------
(* Values of the constants of PacketStream for TLC: bytes of two bits and   *)
(* sizes of two bytes, with payloads whose size is below, at and above Base.*)
EXTENDS PacketStream

Call(type, text) == [type |-> type, status |-> 1, payload |-> text]

(* No payload, an empty string, and texts of one, three and four letters,  *)
(* each with the NUL that send_packet sends with it.                       *)
Texts == {<<>>, <<0>>, <<1, 0>>, <<1, 2, 3, 0>>, <<3, 2, 1, 2, 0>>}

SomePackets == {Call(1, t) : t \in Texts} \cup {Call(3, <<2, 0>>)}
=============================================================================
