------------------------------ MODULE ParamCodec ------------------------------
(***************************************************************************)
(* The parameter list of a packet, from the list that send_packet is given *)
(* to the list that recv_packet returns (src/protocol_lib): the loop that  *)
(* joins the parameters in a heap buffer that it grows as it goes, the     *)
(* bytes that are handed to send, and the tokens that strtok_r finds in    *)
(* them. A parameter is a sequence of characters; the buffer is the C      *)
(* string in it, with its NUL left out. The packet around the payload is   *)
(* PacketStream's; malloc is taken to succeed.                             *)
(***************************************************************************)
EXTENDS Naturals, Sequences, SequencesExt

CONSTANTS Chars,         \* the characters of parameters
          Comma,         \* the separator, which parameters may contain as well
          NUL,           \* the byte that ends a C string
          CountModulus,  \* 256: count is a u_int8_t
          Leftovers,     \* what the heap may hold before its next zero byte
          Inputs         \* the lists that are sent

ASSUME CharsAssumption == Comma \in Chars /\ NUL \notin Chars
ASSUME ModulusAssumption == CountModulus \in Nat \ {0}
ASSUME LeftoversAssumption == <<>> \in Leftovers /\ Leftovers \subseteq Seq(Chars)
ASSUME InputsAssumption == Inputs \subseteq Seq(Seq(Chars))

VARIABLES
  input,    \* msg->payload: the list to send
  pc,       \* where the two ends are
  current,  \* the parameter the loop of send_packet is at
  count,    \* its one-byte counter
  buf,      \* the string in string_buffer
  alloc,    \* the bytes allocated for string_buffer
  size,     \* string_size, sent as payload_size
  overrun,  \* the most bytes a strcat has written past the allocation so far
  stray,    \* the heap bytes that became part of the string so far
  wire,     \* the payload as it arrives: size bytes
  rest,     \* what strtok_r has not looked at
  out       \* the list recv_packet builds

vars == <<input, pc, current, count, buf, alloc, size, overrun, stray, wire, rest, out>>
receiverVars == <<wire, rest, out>>

Places == {"start", "turn", "grow", "copy", "send", "arrived", "tokens", "done", "aborted"}

TypeOK ==
  /\ input \in Inputs
  /\ pc \in Places
  /\ current \in Nat \ {0}
  /\ count \in 0..(CountModulus - 1)
  /\ buf \in Seq(Chars) /\ rest \in Seq(Chars)
  /\ alloc \in Nat /\ size \in Nat /\ overrun \in Nat /\ stray \in Nat
  /\ wire \in Seq(Chars \cup {NUL})
  /\ out \in Seq(Seq(Chars))

Init ==
  /\ input \in Inputs
  /\ pc = "start" /\ current = 1 /\ count = 0
  /\ buf = <<>> /\ alloc = 0 /\ size = 0 /\ overrun = 0 /\ stray = 0
  /\ wire = <<>> /\ rest = <<>> /\ out = <<>>

-----------------------------------------------------------------------------
(* send_packet. *)

(* Mutant: no byte for the NUL. *)
AllocateWithoutNul ==
  /\ pc = "start"
  /\ IF input = <<>>
       THEN pc' = "send" /\ UNCHANGED <<alloc, size>>
       ELSE pc' = "turn" /\ size' = Len(input[1]) /\ alloc' = Len(input[1])
  /\ UNCHANGED <<input, current, count, buf, overrun, stray, receiverVars>>

(* The buffer is as long as the first parameter and its NUL. *)
Allocate ==
  /\ pc = "start"
  /\ IF input = <<>>
       THEN pc' = "send" /\ UNCHANGED <<alloc, size>>
       ELSE pc' = "turn" /\ size' = Len(input[1]) + 1 /\ alloc' = Len(input[1]) + 1
  /\ UNCHANGED <<input, current, count, buf, overrun, stray, receiverVars>>

(* strcat writes the string and its NUL, wherever the allocation ends. *)
Excess(used) == IF used > alloc THEN used - alloc ELSE 0
Strcat(s) ==
  /\ buf' = buf \o s
  /\ overrun' = IF Excess(Len(buf) + Len(s) + 1) > overrun
                  THEN Excess(Len(buf) + Len(s) + 1) ELSE overrun

(* Mutant: the counter is not looked at. *)
SeparateAlways ==
  /\ pc = "turn"
  /\ pc' = "grow" /\ Strcat(<<Comma>>)
  /\ UNCHANGED <<input, current, count, alloc, size, stray, receiverVars>>

(* The comma goes into the buffer before the buffer is grown for it; the   *)
(* turn whose counter is 0 has neither.                                    *)
Separate ==
  /\ pc = "turn"
  /\ IF count # 0
       THEN pc' = "grow" /\ Strcat(<<Comma>>)
       ELSE pc' = "copy" /\ UNCHANGED <<buf, overrun>>
  /\ UNCHANGED <<input, current, count, alloc, size, stray, receiverVars>>

(* realloc keeps the bytes of the old allocation. Of what strcat wrote     *)
(* behind it, the NUL and all, it keeps as much as the block had to spare; *)
(* where the NUL is lost the string goes on with what is in the heap.      *)
Realloc == \E kept \in 0..Len(buf), found \in Leftovers :
  /\ kept >= alloc \/ (kept = Len(buf) /\ found = <<>>)
  /\ buf' = SubSeq(buf, 1, kept) \o found
  /\ stray' = stray + Len(found)

(* Mutant: no byte is added for the comma. *)
GrowWithoutComma ==
  /\ pc = "grow"
  /\ size' = size + Len(input[current])
  /\ alloc' = size' /\ Realloc
  /\ pc' = "copy"
  /\ UNCHANGED <<input, current, count, overrun, receiverVars>>

Grow ==
  /\ pc = "grow"
  /\ size' = size + Len(input[current]) + 1
  /\ alloc' = size' /\ Realloc
  /\ pc' = "copy"
  /\ UNCHANGED <<input, current, count, overrun, receiverVars>>

(* Mutant: a wider counter. *)
CopyParameterWide ==
  /\ pc = "copy"
  /\ Strcat(input[current])
  /\ count' = count + 1
  /\ IF current = Len(input)
       THEN pc' = "send" /\ UNCHANGED current
       ELSE pc' = "turn" /\ current' = current + 1
  /\ UNCHANGED <<input, alloc, size, stray, receiverVars>>

CopyParameter ==
  /\ pc = "copy"
  /\ Strcat(input[current])
  /\ count' = (count + 1) % CountModulus
  /\ IF current = Len(input)
       THEN pc' = "send" /\ UNCHANGED current
       ELSE pc' = "turn" /\ current' = current + 1
  /\ UNCHANGED <<input, alloc, size, stray, receiverVars>>

(* Once bytes behind the buffer were overwritten, the allocator may notice *)
(* at its next call, or the next strcat run off the heap: the process ends *)
(* here.                                                                   *)
AllocatorAborts ==
  /\ pc \in {"grow", "copy", "send"} /\ overrun > 0
  /\ pc' = "aborted"
  /\ UNCHANGED <<input, current, count, buf, alloc, size, overrun, stray, receiverVars>>

(* string_size bytes of the buffer go out; without a list there are none. *)
Send ==
  /\ pc = "send"
  /\ wire' = SubSeq(Append(buf, NUL), 1, size)
  /\ pc' = "arrived"
  /\ UNCHANGED <<input, current, count, buf, alloc, size, overrun, stray, rest, out>>

-----------------------------------------------------------------------------
(* recv_packet. *)

(* The C string in a buffer that was zeroed and is one byte longer than    *)
(* the payload.                                                            *)
FirstNul(s) == CHOOSE i \in 1..(Len(s) + 1) :
                 /\ i = Len(s) + 1 \/ s[i] = NUL
                 /\ \A j \in 1..(i - 1) : s[j] # NUL
CString(s) == SubSeq(s, 1, FirstNul(s) - 1)

Receive ==
  /\ pc = "arrived"
  /\ IF size = 0 \/ CString(wire) = <<>>
       THEN pc' = "done" /\ UNCHANGED rest
       ELSE pc' = "tokens" /\ rest' = CString(wire)
  /\ UNCHANGED <<input, current, count, buf, alloc, size, overrun, stray, wire, out>>

(* One call of strtok_r: the separators before the token are skipped, and  *)
(* the one after it is consumed.                                           *)
TokenStart(s) == SelectInSeq(s, LAMBDA ch : ch # Comma)       \* 0: only separators
TokenEnd(s) ==
  LET from == TokenStart(s)
      sep  == SelectInSubSeq(s, from, Len(s), LAMBDA ch : ch = Comma)
  IN IF sep = 0 THEN Len(s) ELSE sep - 1
Token(s) == SubSeq(s, TokenStart(s), TokenEnd(s))
AfterToken(s) == SubSeq(s, TokenEnd(s) + 2, Len(s))

(* Mutant: as strsep would, an empty token counts. *)
NextFieldAsStrsep ==
  /\ pc = "tokens"
  /\ LET sep == SelectInSeq(rest, LAMBDA ch : ch = Comma)
     IN IF sep = 0
          THEN pc' = "done" /\ out' = Append(out, rest) /\ UNCHANGED rest
          ELSE /\ out' = Append(out, SubSeq(rest, 1, sep - 1))
               /\ rest' = SubSeq(rest, sep + 1, Len(rest))
               /\ UNCHANGED pc
  /\ UNCHANGED <<input, current, count, buf, alloc, size, overrun, stray, wire>>

(* createParameter of the first token, appendParameter of the others. *)
NextToken ==
  /\ pc = "tokens"
  /\ IF TokenStart(rest) = 0
       THEN pc' = "done" /\ UNCHANGED <<rest, out>>
       ELSE /\ out' = Append(out, Token(rest))
            /\ rest' = AfterToken(rest)
            /\ UNCHANGED pc
  /\ UNCHANGED <<input, current, count, buf, alloc, size, overrun, stray, wire>>

Next ==
  \/ Allocate \/ Separate \/ Grow \/ CopyParameter \/ AllocatorAborts \/ Send
  \/ Receive \/ NextToken

Spec == Init /\ [][Next]_vars

-----------------------------------------------------------------------------
(* Properties. *)

(* What a list has to be for recv_packet to return it as it was given to   *)
(* send_packet.                                                            *)
Transmissible(list) ==
  /\ Len(list) <= CountModulus
  /\ \A i \in 1..Len(list) : list[i] # <<>> /\ ~Contains(list[i], Comma)

(* As long as realloc loses no NUL, a list comes back as it was sent       *)
(* exactly if no parameter is empty, none holds a comma and the one-byte   *)
(* counter never wrapped: a movie without a title, a title with a comma or *)
(* a list of more than 256 columns reaches the other side as a different   *)
(* list, and nobody notices.                                               *)
RoundTrip == pc = "done" /\ stray = 0 => (out = input <=> Transmissible(input))

(* The non-empty fields between the commas of a string: a character that   *)
(* follows a comma or nothing begins a field, the others continue it.      *)
Grown(fields, s, i) ==
  IF s[i] = Comma THEN fields
  ELSE IF i = 1 \/ s[i - 1] = Comma THEN Append(fields, <<s[i]>>)
  ELSE Append(Front(fields), Append(Last(fields), s[i]))
Fields(s) ==
  LET upTo[i \in 0..Len(s)] == IF i = 0 THEN <<>> ELSE Grown(upTo[i - 1], s, i)
  IN upTo[Len(s)]

(* As long as the counter does not wrap, the fields of the first parameter *)
(* come back first, whatever the loop does behind them; and unless realloc *)
(* lost a NUL, so that heap bytes became part of the string, all that      *)
(* comes back is the non-empty fields of every parameter, in order: none   *)
(* is lost, cut short, merged with its neighbour or made up.               *)
FieldsArrive ==
  pc = "done" /\ Len(input) <= CountModulus =>
    /\ input # <<>> => IsPrefix(Fields(input[1]), out)
    /\ stray = 0 => out = FlattenSeq([i \in DOMAIN input |-> Fields(input[i])])

(* The comma is written before the buffer is grown: every list of two or   *)
(* more parameters writes behind the allocation, and none that the counter *)
(* can count writes more there than one NUL and as many bytes as realloc   *)
(* let in from the heap.                                                   *)
OverrunBounded ==
  Len(input) <= CountModulus =>
    /\ overrun <= 1 + stray
    /\ pc = "send" => (overrun = 0 <=> Len(input) <= 1)

(* However long the list is, and whatever realloc lost, the bytes that     *)
(* leave are bytes of the string and its NUL, inside the allocation; until *)
(* the counter wraps they are all of it but for as many bytes as came in   *)
(* from the heap: size, string and allocation are not out of step in any   *)
(* other way.                                                              *)
SendsTheString ==
  pc = "send" /\ input # <<>> =>
    /\ size <= alloc /\ size <= Len(buf) + 1
    /\ Len(input) <= CountModulus => Len(buf) + 1 <= size + stray
=============================================================================
