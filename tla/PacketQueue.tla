----------------------------- MODULE PacketQueue ------------------------------
(***************************************************************************)
(* One direction of a connection as the handlers of server.c and client.c  *)
(* see it, whatever TCP does with the bytes: packets put by send_packet    *)
(* are taken by recv_packet whole, in order and once; recv_packet returns  *)
(* NULL only after the sending side is gone, and when that side left in    *)
(* order, only after everything it had put was taken. The queues reqs and  *)
(* resps of CinemaServer are such queues.                                  *)
(***************************************************************************)
EXTENDS Naturals, Sequences

CONSTANT Packets

VARIABLES put,      \* the packets that were sent
          taken,    \* the packets that were received
          writer,   \* "up", "left" or "reset"
          reader    \* "up", "ended" (recv_packet returned NULL) or "left"

queueVars == <<put, taken, writer, reader>>

QueueInit == put = <<>> /\ taken = <<>> /\ writer = "up" /\ reader = "up"

Put(p) ==
  /\ writer = "up"
  /\ put' = Append(put, p)
  /\ UNCHANGED <<taken, writer, reader>>

Take ==
  /\ reader = "up" /\ Len(taken) < Len(put)
  /\ taken' = Append(taken, put[Len(taken) + 1])
  /\ UNCHANGED <<put, writer, reader>>

Stop ==
  /\ writer = "up"
  /\ writer' \in {"left", "reset"}
  /\ UNCHANGED <<put, taken, reader>>

End ==
  /\ reader = "up"
  /\ writer = "reset" \/ (writer = "left" /\ taken = put)
  /\ reader' = "ended"
  /\ UNCHANGED <<put, taken, writer>>

Leave ==
  /\ reader = "up"
  /\ reader' = "left"
  /\ UNCHANGED <<put, taken, writer>>

QueueNext == (\E p \in Packets : Put(p)) \/ Take \/ Stop \/ End \/ Leave

QueueSpec == QueueInit /\ [][QueueNext]_queueVars
=============================================================================
