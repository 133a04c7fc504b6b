----------------------------- MODULE PacketStream -----------------------------
(***************************************************************************)
(* One direction of a TCP connection, byte by byte. The sending side is    *)
(* send_packet of src/protocol_lib: one send for the header, one for the   *)
(* payload. The receiving side is recv_packet, called again and again by   *)
(* callers that take their time, or the receive of the Java connector      *)
(* (cServerSocket.java), called once on a connection. The kernel takes and gives any number of bytes at a time  *)
(* and holds at most Window of them. A byte is a number below Base, and a  *)
(* size_t has SizeBytes of them, the lowest first.                         *)
(***************************************************************************)
EXTENDS Naturals, Sequences, SequencesExt

CONSTANTS Base,        \* 256
          SizeBytes,   \* 8: sizeof(size_t)
          Window,      \* bound: bytes under way
          MaxPackets,  \* bound: packets sent
          Packets      \* the packets, their payload as ParamCodec makes it

Byte == 0..(Base - 1)

Packet == [type : Byte, status : Byte, payload : Seq(Byte)]

Power[i \in Nat] == IF i = 0 THEN 1 ELSE Base * Power[i - 1]

ASSUME BaseAssumption == Base \in Nat \ {0, 1} /\ SizeBytes \in Nat \ {0, 1}
ASSUME WindowAssumption == Window \in Nat \ {0} /\ MaxPackets \in Nat
ASSUME PacketsAssumption ==
  \A p \in Packets : p \in Packet /\ Len(p.payload) < Power[SizeBytes]

VARIABLES
  wpc,       \* the sending side: "idle", in send of the "header" or of the
             \*   "payload", "failed" (send returned -1), or "gone"
  given,     \* the packets send_packet was called with
  unsent,    \* what the kernel has not taken of the current send
  sent,      \* the packets it took to the last byte
  pipe,      \* the bytes under way
  ending,    \* how the sending side ended: "no", "fin" or "reset"
  kind,      \* who receives: "recv_packet" or "connector"
  rpc,       \* the receiving side: "elsewhere" (not in recv_packet), in
             \*   "header" or "payload", or at its end
  head,      \* the header bytes read so far
  body,      \* the payload bytes read so far
  received   \* the packets returned to the caller

senderVars   == <<wpc, given, unsent, sent>>
receiverVars == <<kind, rpc, head, body, received>>
vars == <<senderVars, pipe, ending, receiverVars>>

Sending == wpc \in {"header", "payload"}
Reading == rpc \in {"header", "payload"}

StreamTypeOK ==
  /\ wpc \in {"idle", "header", "payload", "failed", "gone"}
  /\ given \in Seq(Packets) /\ sent \in Seq(Packets)
  /\ unsent \in Seq(Byte) /\ Sending = (unsent # <<>>)
  /\ pipe \in Seq(Byte) /\ Len(pipe) <= Window
  /\ ending \in {"no", "fin", "reset"}
  /\ kind \in {"recv_packet", "connector"}
  /\ rpc \in {"elsewhere", "header", "payload", "closed", "null", "returned", "thrown", "left"}
  /\ head \in Seq(Byte) /\ Len(head) <= 2 + SizeBytes /\ body \in Seq(Byte)
  /\ received \in Seq(Packet)

Init ==
  /\ wpc = "idle" /\ given = <<>> /\ unsent = <<>> /\ sent = <<>>
  /\ pipe = <<>> /\ ending = "no"
  /\ \/ kind = "recv_packet" /\ rpc = "elsewhere"
     \/ kind = "connector" /\ rpc = "header"
  /\ head = <<>> /\ body = <<>> /\ received = <<>>

-----------------------------------------------------------------------------
(* The sending side. *)

SizeField(n) == [i \in 1..SizeBytes |-> (n \div Power[i - 1]) % Base]
(* Mutant: the size is written with the highest byte first. *)
HeaderBigEndian(p) == <<p.type, p.status>> \o Reverse(SizeField(Len(p.payload)))

Header(p) == <<p.type, p.status>> \o SizeField(Len(p.payload))

CallSend(p) ==
  /\ wpc = "idle" /\ Len(given) < MaxPackets
  /\ wpc' = "header" /\ unsent' = Header(p)
  /\ given' = Append(given, p)
  /\ UNCHANGED <<sent, pipe, ending, receiverVars>>

(* send returned all of the bytes: send_packet goes on to the payload, if  *)
(* there is one, or returns.                                               *)
SendDone ==
  LET p == Last(given)
  IN IF wpc = "header" /\ p.payload # <<>>
       THEN wpc' = "payload" /\ unsent' = p.payload /\ UNCHANGED sent
       ELSE wpc' = "idle" /\ unsent' = <<>> /\ sent' = Append(sent, p)

AtMost(a, b) == IF a < b THEN a ELSE b

(* The socket buffers take some of it; nothing tells the sender that the   *)
(* other side has stopped reading, or at once that it is gone.             *)
KernelTakes ==
  /\ Sending
  /\ \E n \in 1..AtMost(Len(unsent), Window - Len(pipe)) :
       /\ pipe' = pipe \o SubSeq(unsent, 1, n)
       /\ IF n = Len(unsent)
            THEN SendDone
            ELSE unsent' = SubSeq(unsent, n + 1, Len(unsent)) /\ UNCHANGED <<wpc, sent>>
  /\ UNCHANGED <<given, ending, receiverVars>>

(* The other side is gone: send returns -1 and send_packet gives up. (In   *)
(* CinemaServer the process may die of SIGPIPE instead.)                   *)
SendFails ==
  /\ Sending /\ rpc = "left"
  /\ wpc' = "failed" /\ unsent' = <<>>
  /\ UNCHANGED <<given, sent, pipe, ending, receiverVars>>

(* The process ends or closes the socket, perhaps in the middle of a       *)
(* packet; a reset loses what the other side had not got yet.              *)
SenderEnds ==
  /\ wpc # "gone" /\ ending = "no"
  /\ wpc' = "gone" /\ unsent' = <<>>
  /\ \/ ending' = "fin" /\ UNCHANGED pipe
     \/ ending' = "reset" /\ \E k \in 0..Len(pipe) : pipe' = SubSeq(pipe, 1, k)
  /\ UNCHANGED <<given, sent, receiverVars>>

-----------------------------------------------------------------------------
(* recv_packet. *)

HeaderSize == 2 + SizeBytes

(* The bytes are received into a size_t. *)
PayloadSize(h) ==
  CHOOSE n \in 0..(Power[SizeBytes] - 1) : SizeField(n) = SubSeq(h, 3, HeaderSize)

(* The caller is a client, which asks its user first and does not call at  *)
(* all after a reservation, or a thread of the server, which handles what  *)
(* it got and may block in a send of its own: whether and when recv_packet *)
(* is called is theirs.                                                    *)
CallRecvPacket ==
  /\ rpc = "elsewhere" /\ rpc' = "header"
  /\ UNCHANGED <<senderVars, pipe, ending, kind, head, body, received>>

(* A call returns its packet. *)
Return(payload) ==
  /\ received' = Append(received, [type |-> head'[1], status |-> head'[2], payload |-> payload])
  /\ rpc' = "elsewhere"

(* Mutants: recv may take a whole header whatever was read before; the     *)
(* payload loop is entered for an empty payload too.                       *)
RecvHeaderTooMuch ==
  /\ kind = "recv_packet" /\ rpc = "header"
  /\ \E k \in 1..AtMost(Len(pipe), HeaderSize) :
       /\ pipe' = SubSeq(pipe, k + 1, Len(pipe))
       /\ head' = (IF Len(head) = HeaderSize THEN <<>> ELSE head) \o SubSeq(pipe, 1, k)
  /\ IF Len(head') < HeaderSize \/ PayloadSize(head') # 0
       THEN rpc' = (IF Len(head') < HeaderSize THEN "header" ELSE "payload") /\ UNCHANGED received
       ELSE Return(<<>>)
  /\ body' = <<>>
  /\ UNCHANGED <<senderVars, ending, kind>>
RecvHeaderThenPayload ==
  /\ kind = "recv_packet" /\ rpc = "header"
  /\ LET got == IF Len(head) = HeaderSize THEN <<>> ELSE head
     IN \E k \in 1..AtMost(Len(pipe), HeaderSize - Len(got)) :
          /\ pipe' = SubSeq(pipe, k + 1, Len(pipe))
          /\ head' = got \o SubSeq(pipe, 1, k)
  /\ rpc' = IF Len(head') < HeaderSize THEN "header" ELSE "payload"
  /\ body' = <<>>
  /\ UNCHANGED <<senderVars, ending, kind, received>>

(* The loop over the header; a header of a packet that was returned is     *)
(* forgotten with the first byte of the next one.                          *)
RecvHeader ==
  /\ kind = "recv_packet" /\ rpc = "header"
  /\ LET got == IF Len(head) = HeaderSize THEN <<>> ELSE head
     IN \E k \in 1..AtMost(Len(pipe), HeaderSize - Len(got)) :
          /\ pipe' = SubSeq(pipe, k + 1, Len(pipe))
          /\ head' = got \o SubSeq(pipe, 1, k)
  /\ IF Len(head') < HeaderSize \/ PayloadSize(head') # 0
       THEN rpc' = (IF Len(head') < HeaderSize THEN "header" ELSE "payload") /\ UNCHANGED received
       ELSE Return(<<>>)
  /\ body' = <<>>
  /\ UNCHANGED <<senderVars, ending, kind>>

(* Mutant: one recv is taken for the whole payload. *)
RecvPayloadOnce ==
  /\ kind = "recv_packet" /\ rpc = "payload"
  /\ \E k \in 1..AtMost(Len(pipe), PayloadSize(head)) :
       /\ pipe' = SubSeq(pipe, k + 1, Len(pipe))
       /\ body' = SubSeq(pipe, 1, k)
  /\ head' = head /\ Return(body')
  /\ UNCHANGED <<senderVars, ending, kind>>

RecvPayload ==
  /\ kind = "recv_packet" /\ rpc = "payload"
  /\ \E k \in 1..AtMost(Len(pipe), PayloadSize(head) - Len(body)) :
       /\ pipe' = SubSeq(pipe, k + 1, Len(pipe))
       /\ body' = body \o SubSeq(pipe, 1, k)
  /\ head' = head
  /\ IF Len(body') < PayloadSize(head) THEN UNCHANGED <<rpc, received>> ELSE Return(body')
  /\ UNCHANGED <<senderVars, ending, kind>>

(* recv returns 0 or -1: in the header the socket is closed, in the        *)
(* payload it is not; the caller gets NULL and does not call again.        *)
RecvFails ==
  /\ kind = "recv_packet" /\ Reading
  /\ pipe = <<>> /\ ending # "no"
  /\ rpc' = IF rpc = "header" THEN "closed" ELSE "null"
  /\ UNCHANGED <<senderVars, pipe, ending, kind, head, body, received>>

-----------------------------------------------------------------------------
(* cServerSocket.receive: three single bytes, of which the last is taken   *)
(* for the size of the payload, and that many bytes more.                  *)

ConnectorReturns(payload) ==
  /\ received' = Append(received, [type |-> head'[1], status |-> head'[2], payload |-> payload])
  /\ rpc' = "returned"

ConnectorReadsHeader ==
  /\ kind = "connector" /\ rpc = "header" /\ pipe # <<>>
  /\ head' = Append(head, pipe[1]) /\ pipe' = Tail(pipe)
  /\ CASE Len(head') < 3 -> UNCHANGED <<rpc, received>>
       [] Len(head') = 3 /\ head'[3] # 0 -> rpc' = "payload" /\ UNCHANGED received
       [] OTHER -> ConnectorReturns(<<>>)
  /\ UNCHANGED <<senderVars, ending, kind, body>>

ConnectorReadsPayload ==
  /\ kind = "connector" /\ rpc = "payload"
  /\ \E k \in 1..AtMost(Len(pipe), head[3] - Len(body)) :
       /\ pipe' = SubSeq(pipe, k + 1, Len(pipe))
       /\ body' = body \o SubSeq(pipe, 1, k)
  /\ head' = head
  /\ IF Len(body') < head[3] THEN UNCHANGED <<rpc, received>> ELSE ConnectorReturns(body')
  /\ UNCHANGED <<senderVars, ending, kind>>

(* read returns -1, which ends as a negative array size or index, or it    *)
(* throws.                                                                 *)
ConnectorFails ==
  /\ kind = "connector" /\ Reading
  /\ pipe = <<>> /\ ending # "no"
  /\ rpc' = "thrown"
  /\ UNCHANGED <<senderVars, pipe, ending, kind, head, body, received>>

(* The receiving process ends, or closes its socket. *)
ReceiverLeaves ==
  /\ rpc \in {"elsewhere", "header", "payload", "returned"}
  /\ rpc' = "left"
  /\ UNCHANGED <<senderVars, pipe, ending, kind, head, body, received>>

-----------------------------------------------------------------------------

Kernel  == KernelTakes \/ SendFails
Receive == \/ RecvHeader \/ RecvPayload \/ RecvFails
           \/ ConnectorReadsHeader \/ ConnectorReadsPayload \/ ConnectorFails

Next == (\E p \in Packets : CallSend(p)) \/ Kernel \/ SenderEnds
        \/ CallRecvPacket \/ Receive \/ ReceiverLeaves

Spec == Init /\ [][Next]_vars

(* The kernel moves bytes and a blocked recv returns; nobody has to send,  *)
(* to call recv_packet, to leave or to stay.                               *)
Fairness == WF_vars(Kernel) /\ WF_vars(Receive)
FairSpec == Spec /\ Fairness

-----------------------------------------------------------------------------
(* Properties. *)

Taken == IF kind = "recv_packet" THEN received ELSE <<>>
WriterSide == CASE ending = "no" -> "up" [] ending = "fin" -> "left" [] OTHER -> "reset"
ReaderSide == CASE kind = "recv_packet" /\ rpc \in {"closed", "null"} -> "ended"
                [] rpc = "left" -> "left"
                [] OTHER -> "up"

Queue == INSTANCE PacketQueue
           WITH put <- sent, taken <- Taken, writer <- WriterSide, reader <- ReaderSide

(* However the kernel cuts the stream and wherever the other side stops,   *)
(* recv_packet returns the packets of send_packet, whole, in order and     *)
(* once, and NULL only when there are no more: the byte stream implements  *)
(* the packet queue.                                                       *)
ImplementsQueue == Queue!QueueSpec

(* What was sent whole to a peer that keeps calling recv_packet and is not *)
(* cut off by a reset is received, in whatever pieces it comes.            *)
PacketsArrive ==
  []<>(rpc # "elsewhere") =>
    \A n \in 1..MaxPackets :
      Len(sent) >= n /\ kind = "recv_packet" ~>
        Len(received) >= n \/ ending = "reset" \/ rpc = "left"

(* A send_packet that blocks for ever has filled the socket buffers of a   *)
(* peer that stays and never reads again: a connector that has all it ever *)
(* asks for, or a caller that does not come back to recv_packet, as the    *)
(* client after its reservations. Nothing else blocks it, however small    *)
(* the buffers are.                                                        *)
SendEnds ==
  <>[]Sending => <>[](Len(pipe) = Window /\ rpc \in {"elsewhere", "returned"})

(* What the connector takes for the text of an answer is the upper bytes   *)
(* of the size and then the start of the text, as many as the lowest byte  *)
(* of the size says: a text that is not empty is never what it returns.    *)
ConnectorGets ==
  kind = "connector" /\ received # <<>> =>
    LET p == given[1]
        n == Len(p.payload)
    IN /\ received[1].type = p.type /\ received[1].status = p.status
       /\ received[1].payload = SubSeq(Tail(SizeField(n)) \o p.payload, 1, n % Base)
       /\ n > 0 /\ p.payload[1] # 0 => received[1].payload # p.payload
=============================================================================
