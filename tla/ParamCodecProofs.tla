--------------------------- MODULE ParamCodecProofs ---------------------------
(***************************************************************************)
(* The parameter codec, for every list, alphabet, counter width and heap:  *)
(* by how much send_packet overruns its buffer, which bytes it sends, and  *)
(* what list recv_packet makes of them. The sender's invariant comes first; then the receiver's types; then what FlattenSeq  *)
(* and Fields compute, by induction over sets of numbers and of strings;   *)
(* and last where the fields of the list, and how many bytes, are on the   *)
(* way from the list to the tokens.                                        *)
(***************************************************************************)
EXTENDS ParamCodec, Integers, WellFoundedInduction, SequenceTheorems, TLAPS

Looping == {"turn", "grow", "copy"}

(* The types of what the sender uses. *)
SenderTypes ==
  /\ input \in Inputs
  /\ current \in Nat \ {0}
  /\ count \in Nat
  /\ buf \in Seq(Chars)
  /\ alloc \in Nat /\ size \in Nat /\ overrun \in Nat /\ stray \in Nat

(* How buffer, allocation and counter stand at each point of a turn. The   *)
(* first turn finds an allocation that is already large enough; the later  *)
(* ones fill the buffer to its last byte, and a turn whose counter came    *)
(* back to 0 fills it beyond.                                              *)
Turns ==
  /\ pc \in Looping => input # <<>> /\ current <= Len(input)
  /\ alloc = size
  /\ pc = "start" => current = 1 /\ count = 0 /\ buf = <<>> /\ size = 0 /\ overrun = 0
  /\ pc = "send" => \/ input = <<>> /\ buf = <<>> /\ size = 0 /\ overrun = 0
                    \/ input # <<>> /\ current = Len(input)
  /\ pc = "turn" /\ current = 1 =>
       buf = <<>> /\ size = Len(input[1]) + 1 /\ overrun = 0 /\ count = 0
  /\ pc = "copy" /\ current = 1 =>
       buf = <<>> /\ size = Len(input[1]) + 1 /\ overrun = 0 /\ count = 0
  /\ pc = "grow" => count # 0 /\ current > 1

(* The bytes that will be sent have been written once the loop ends. *)
Written ==
  /\ pc = "turn" /\ current > 1 => size <= Len(buf) + 1
  /\ pc = "grow" => size <= Len(buf)
  /\ pc = "copy" => size <= Len(buf) + Len(input[current]) + 1
  /\ pc = "send" /\ input # <<>> => size <= Len(buf) + 1

(* Until the counter wraps, the buffer is exactly full after each turn and *)
(* one byte too short after each comma, but for the bytes that realloc let *)
(* in from the heap.                                                       *)
Unwrapped ==
  Len(input) <= CountModulus =>
    /\ overrun <= 1 + stray
    /\ pc \in Looping => count = current - 1
    /\ pc = "turn" /\ current > 1 => Len(buf) + 1 <= size + stray
    /\ pc = "turn" /\ current > 2 => overrun > 0
    /\ pc = "grow" => Len(buf) <= size + stray /\ overrun > 0
    /\ pc = "copy" /\ current > 1 =>
         Len(buf) + Len(input[current]) + 1 <= size + stray /\ overrun > 0
    /\ pc = "send" /\ input # <<>> => Len(buf) + 1 <= size + stray
    /\ pc = "send" => (overrun = 0 <=> Len(input) <= 1)

SenderInv == SenderTypes /\ Turns /\ Written /\ Unwrapped

-----------------------------------------------------------------------------
(* The parameters of a list are strings of known length. *)
LEMMA InputLists ==
  ASSUME SenderTypes
  PROVE  /\ input \in Seq(Seq(Chars)) /\ Len(input) \in Nat
         /\ \A i \in 1..Len(input) : input[i] \in Seq(Chars) /\ Len(input[i]) \in Nat
BY InputsAssumption DEF SenderTypes

(* Nothing takes a heap byte back out of the count of those that came in.  *)
LEMMA StrayStays ==
  ASSUME SenderTypes, [Next]_vars, stray' = 0
  PROVE  stray = 0
<1>1. CASE Grow
  <2>1. PICK found \in Leftovers : stray' = stray + Len(found)
    BY <1>1 DEF Grow, Realloc
  <2>2. Len(found) \in Nat /\ stray \in Nat
    BY LeftoversAssumption DEF SenderTypes
  <2>q. QED BY <2>1, <2>2
<1>2. CASE ~Grow
  BY <1>2 DEF Next, Allocate, Separate, CopyParameter, AllocatorAborts, Send, Receive, NextToken, vars
<1>q. QED BY <1>1, <1>2

(* strcat makes the string longer by the other one; the overrun grows only *)
(* if the result and its NUL do not fit, and to as much as does not.       *)
LEMMA StrcatEffect ==
  ASSUME SenderTypes, NEW s \in Seq(Chars), Strcat(s)
  PROVE  /\ buf' \in Seq(Chars) /\ Len(buf') = Len(buf) + Len(s)
         /\ overrun' \in Nat /\ overrun' >= overrun
         /\ Len(buf') + 1 <= alloc => overrun' = overrun
         /\ Len(buf') + 1 > alloc => overrun' >= Len(buf') + 1 - alloc
         /\ overrun' = overrun \/ overrun' <= Len(buf') + 1 - alloc
BY DEF SenderTypes, Strcat, Excess

(* realloc keeps at least the old allocation, and only bytes that it found *)
(* in the heap make the string longer.                                     *)
LEMMA ReallocEffect ==
  ASSUME SenderTypes, Realloc
  PROVE  \E kept \in 0..Len(buf), found \in Seq(Chars) :
           /\ kept >= alloc \/ (kept = Len(buf) /\ found = <<>>)
           /\ buf' = SubSeq(buf, 1, kept) \o found /\ buf' \in Seq(Chars)
           /\ Len(SubSeq(buf, 1, kept)) = kept /\ SubSeq(buf, 1, kept) \in Seq(Chars)
           /\ Len(found) \in Nat /\ Len(buf') = kept + Len(found)
           /\ stray' = stray + Len(found) /\ stray' \in Nat
<1>1. PICK kept \in 0..Len(buf), found \in Leftovers :
        /\ kept >= alloc \/ (kept = Len(buf) /\ found = <<>>)
        /\ buf' = SubSeq(buf, 1, kept) \o found
        /\ stray' = stray + Len(found)
  BY DEF Realloc
<1>2. found \in Seq(Chars) /\ Len(found) \in Nat
  BY LeftoversAssumption
<1>3. SubSeq(buf, 1, kept) \in Seq(Chars) /\ Len(SubSeq(buf, 1, kept)) = kept
  BY DEF SenderTypes
<1>4. buf' \in Seq(Chars) /\ Len(buf') = kept + Len(found)
  BY <1>1, <1>2, <1>3
<1>5. stray' \in Nat
  BY <1>1, <1>2 DEF SenderTypes
<1>q. QED BY <1>1, <1>2, <1>3, <1>4, <1>5, Zenon

(* A one-byte counter counts as long as it does not wrap. *)
LEMMA CountsUntilWrap ==
  ASSUME NEW n \in Nat
  PROVE  /\ (n + 1) % CountModulus \in 0..(CountModulus - 1)
         /\ n + 1 < CountModulus => (n + 1) % CountModulus = n + 1
BY ModulusAssumption

(* Without bytes from the heap realloc only shortens the string, and not   *)
(* one that the old allocation holds.                                      *)
LEMMA StringKept ==
  ASSUME SenderTypes, Realloc, stray' = 0
  PROVE  /\ buf' \in Seq(Chars) /\ Len(buf') <= Len(buf)
         /\ Len(buf) <= alloc => buf' = buf
<1>1. PICK kept \in 0..Len(buf), found \in Seq(Chars) :
        /\ kept >= alloc \/ (kept = Len(buf) /\ found = <<>>)
        /\ buf' = SubSeq(buf, 1, kept) \o found /\ buf' \in Seq(Chars)
        /\ Len(SubSeq(buf, 1, kept)) = kept /\ SubSeq(buf, 1, kept) \in Seq(Chars)
        /\ Len(found) \in Nat /\ Len(buf') = kept + Len(found)
        /\ stray' = stray + Len(found) /\ stray' \in Nat
  BY ReallocEffect
<1>2. Len(found) = 0 /\ found = <<>>
  BY <1>1 DEF SenderTypes
<1>3. buf' = SubSeq(buf, 1, kept) /\ Len(buf') = kept
  BY <1>1, <1>2
<1>4. Len(buf) <= alloc => kept = Len(buf)
  BY <1>1 DEF SenderTypes
<1>q. QED BY <1>1, <1>3, <1>4 DEF SenderTypes

LEMMA SenderInit == Init => SenderInv
BY ModulusAssumption, InputsAssumption
   DEF Init, SenderInv, SenderTypes, Turns, Written, Unwrapped, Looping

(* Every step of the sender keeps the invariant; the receiver does not     *)
(* touch what it speaks of.                                                *)
LEMMA SenderStep == SenderInv /\ [Next]_vars => SenderInv'
<1> SUFFICES ASSUME SenderInv, [Next]_vars PROVE SenderInv'
  OBVIOUS
<1> USE DEF Looping
<1>a. SenderTypes /\ Turns /\ Written /\ Unwrapped
  BY DEF SenderInv
<1>b. /\ Len(input) \in Nat /\ Len(buf) \in Nat
      /\ \A i \in 1..Len(input) : input[i] \in Seq(Chars) /\ Len(input[i]) \in Nat
  BY <1>a, InputLists DEF SenderTypes
<1>c. input # <<>> => Len(input) >= 1
  BY <1>a, InputLists
<1>1. CASE Allocate
  <2>1. SenderTypes'
    BY <1>1, <1>a, <1>b, <1>c DEF Allocate, SenderTypes
  <2>2. Turns' /\ Written' /\ Unwrapped'
    BY <1>1, <1>a, <1>b, <1>c, ModulusAssumption
       DEF Allocate, SenderTypes, Turns, Written, Unwrapped
  <2>q. QED BY <2>1, <2>2 DEF SenderInv
<1>2. CASE Separate
  <2>1. CASE count # 0
    <3>1. /\ pc = "turn" /\ pc' = "grow" /\ Strcat(<<Comma>>)
          /\ UNCHANGED <<input, current, count, alloc, size, stray>>
      BY <1>2, <2>1 DEF Separate
    <3>2. <<Comma>> \in Seq(Chars) /\ Len(<<Comma>>) = 1
      BY CharsAssumption
    <3>3. /\ buf' \in Seq(Chars) /\ Len(buf') = Len(buf) + 1
          /\ overrun' \in Nat /\ overrun' >= overrun
          /\ Len(buf') + 1 <= alloc => overrun' = overrun
          /\ Len(buf') + 1 > alloc => overrun' >= Len(buf') + 1 - alloc
          /\ overrun' = overrun \/ overrun' <= Len(buf') + 1 - alloc
      BY <3>1, <3>2, <1>a, StrcatEffect
    <3>4. current > 1
      BY <1>a, <2>1, <3>1 DEF Turns, SenderTypes
    <3>5. SenderTypes'
      BY <3>1, <3>3, <1>a DEF SenderTypes
    <3>6. Turns' /\ Written'
      BY <3>1, <3>3, <3>4, <2>1, <1>a, <1>b DEF Turns, Written, SenderTypes
    <3>7. Unwrapped'
      <4> SUFFICES ASSUME Len(input) <= CountModulus PROVE Unwrapped'
        BY <3>1 DEF Unwrapped
      <4>1. /\ alloc = size /\ size <= Len(buf) + 1
            /\ size \in Nat /\ stray \in Nat /\ overrun \in Nat
        BY <3>1, <3>4, <1>a DEF SenderTypes, Turns, Written
      <4>2. overrun <= 1 + stray /\ count = current - 1 /\ Len(buf) + 1 <= size + stray
        BY <3>1, <3>4, <1>a DEF Unwrapped
      <4>3. Len(buf') <= size + stray /\ overrun' > 0 /\ overrun' <= 1 + stray
        BY <3>3, <4>1, <4>2, <1>b
      <4>q. QED BY <3>1, <4>2, <4>3 DEF Unwrapped
    <3>q. QED BY <3>5, <3>6, <3>7 DEF SenderInv
  <2>2. CASE count = 0
    <3>1. pc = "turn" /\ pc' = "copy" /\ UNCHANGED <<input, current, count, alloc, size, buf, overrun, stray>>
      BY <1>2, <2>2 DEF Separate
    <3>2. SenderTypes' /\ Turns' /\ Written'
      BY <3>1, <1>a, <1>b DEF SenderTypes, Turns, Written
    <3>3. Unwrapped'
      BY <3>1, <2>2, <1>a, <1>b DEF SenderTypes, Turns, Unwrapped
    <3>q. QED BY <3>2, <3>3 DEF SenderInv
  <2>q. QED BY <2>1, <2>2
<1>3. CASE Grow
  <2>1. /\ pc = "grow" /\ pc' = "copy" /\ size' = size + Len(input[current]) + 1 /\ alloc' = size'
        /\ UNCHANGED <<input, current, count, overrun>>
    BY <1>3 DEF Grow
  <2>2. current \in 1..Len(input) /\ Len(input[current]) \in Nat
    BY <2>1, <1>a, <1>b DEF SenderTypes, Turns
  <2>3. PICK kept \in 0..Len(buf), found \in Seq(Chars) :
          /\ kept >= alloc \/ (kept = Len(buf) /\ found = <<>>)
          /\ buf' \in Seq(Chars) /\ Len(found) \in Nat /\ Len(buf') = kept + Len(found)
          /\ stray' = stray + Len(found) /\ stray' \in Nat
    BY <1>3, <1>a, ReallocEffect DEF Grow
  <2>4. /\ alloc = size /\ size <= Len(buf) /\ count # 0 /\ current > 1 /\ current <= Len(input)
        /\ input # <<>> /\ size \in Nat /\ stray \in Nat /\ overrun \in Nat
    BY <2>1, <1>a DEF SenderTypes, Turns, Written
  <2>5. SenderTypes'
    BY <2>1, <2>2, <2>3, <1>a DEF SenderTypes
  <2>6. size <= Len(buf') /\ Len(buf') <= Len(buf) + Len(found)
    BY <2>3, <2>4, <1>b
  <2>a. PICK p \in Nat : p = Len(input[current]) /\ p = Len(input'[current']) /\ size' = size + p + 1
    BY <2>1, <2>2
  <2>b. Len(buf') \in Nat
    BY <2>3
  <2>c. PICK f \in Nat : f = Len(found) /\ stray' = stray + f /\ Len(buf') <= Len(buf) + f
    BY <2>3, <2>6
  <2>7. Turns'
    BY <2>1, <2>4, <1>a DEF Turns
  <2>8. Written'
    <3>1. size' <= Len(buf') + p + 1
      BY <2>4, <2>6, <2>a, <2>b
    <3>q. QED BY <2>1, <2>a, <3>1 DEF Written
  <2>9. Unwrapped'
    <3> SUFFICES ASSUME Len(input) <= CountModulus PROVE Unwrapped'
      BY <2>1 DEF Unwrapped
    <3>1. overrun <= 1 + stray /\ count = current - 1 /\ Len(buf) <= size + stray /\ overrun > 0
      BY <2>1, <1>a DEF Unwrapped
    <3>2. Len(buf') + p + 1 <= size' + stray'
      <4>1. size \in Nat /\ stray \in Nat /\ Len(buf) \in Nat /\ Len(buf) <= size + stray
        BY <2>4, <3>1, <1>b
      <4>2. size' = size + p + 1 /\ stray' = stray + f /\ Len(buf') <= Len(buf) + f
        BY <2>a, <2>c
      <4>q. QED BY <4>1, <4>2, <2>b
    <3>3. overrun' <= 1 + stray' /\ overrun' > 0 /\ count' = current' - 1
      BY <2>1, <2>3, <2>4, <3>1
    <3>q. QED BY <2>1, <2>a, <3>2, <3>3 DEF Unwrapped
  <2>q. QED BY <2>5, <2>7, <2>8, <2>9 DEF SenderInv
<1>4. CASE CopyParameter
  <2>1. /\ pc = "copy" /\ Strcat(input[current]) /\ count' = (count + 1) % CountModulus
        /\ IF current = Len(input)
             THEN pc' = "send" /\ current' = current
             ELSE pc' = "turn" /\ current' = current + 1
        /\ UNCHANGED <<input, alloc, size, stray>>
    BY <1>4 DEF CopyParameter
  <2>2. /\ current \in 1..Len(input) /\ input # <<>> /\ current \in Nat /\ count \in Nat
        /\ input[current] \in Seq(Chars) /\ Len(input[current]) \in Nat
    BY <2>1, <1>a, <1>b DEF SenderTypes, Turns
  <2>3. /\ buf' \in Seq(Chars) /\ Len(buf') = Len(buf) + Len(input[current])
        /\ overrun' \in Nat /\ overrun' >= overrun
        /\ Len(buf') + 1 <= alloc => overrun' = overrun
        /\ Len(buf') + 1 > alloc => overrun' >= Len(buf') + 1 - alloc
        /\ overrun' = overrun \/ overrun' <= Len(buf') + 1 - alloc
    BY <2>1, <2>2, <1>a, StrcatEffect
  <2>4. /\ count' \in Nat
        /\ count + 1 < CountModulus => count' = count + 1
    BY <2>1, <2>2, CountsUntilWrap, ModulusAssumption
  <2>5. SenderTypes'
    BY <2>1, <2>2, <2>3, <2>4, <1>a DEF SenderTypes
  <2>6. Turns'
    BY <2>1, <2>2, <1>a, <1>b DEF SenderTypes, Turns
  <2>7. size <= Len(buf') + 1
    <3>1. CASE current = 1
      BY <3>1, <2>1, <2>2, <2>3, <1>a, <1>b DEF SenderTypes, Turns
    <3>2. CASE current > 1
      BY <3>2, <2>1, <2>2, <2>3, <1>a, <1>b DEF SenderTypes, Written
    <3>q. QED BY <3>1, <3>2, <2>2
  <2>8. Written'
    BY <2>1, <2>7, <2>3 DEF Written
  <2>9. Unwrapped'
    <3> SUFFICES ASSUME Len(input) <= CountModulus PROVE Unwrapped'
      BY <2>1 DEF Unwrapped
    <3>0. alloc = size /\ size \in Nat /\ stray \in Nat /\ overrun \in Nat
      BY <1>a DEF SenderTypes, Turns
    <3>1. /\ count = current - 1 /\ overrun <= 1 + stray
          /\ current > 1 => Len(buf') + 1 <= size + stray /\ overrun > 0
      BY <2>1, <2>2, <2>3, <3>0, <1>a, <1>b DEF Unwrapped
    <3>2. current = 1 => Len(buf') + 1 = size /\ overrun = 0
      <4>1. current = 1 => Len(buf) = 0 /\ size = Len(input[1]) + 1 /\ overrun = 0
        BY <2>1, <1>a DEF Turns
      <4>q. QED BY <4>1, <2>2, <2>3, <3>0
    <3>3. /\ Len(buf') + 1 <= size + stray /\ overrun' <= 1 + stray
          /\ current = 1 => overrun' = 0
          /\ current > 1 => overrun' > 0
      BY <3>0, <3>1, <3>2, <2>2, <2>3, <1>b
    <3>4. CASE current = Len(input)
      <4>1. pc' = "send" BY <2>1, <3>4
      <4>2. overrun' = 0 <=> Len(input) <= 1 BY <3>3, <3>4, <2>2, <2>3
      <4>q. QED BY <4>1, <4>2, <3>3, <2>1 DEF Unwrapped
    <3>5. CASE current # Len(input)
      <4>1. current < Len(input) /\ count + 1 < CountModulus /\ count' = current' - 1
        BY <3>1, <3>5, <2>1, <2>2, <2>4, <1>b, ModulusAssumption
      <4>2. pc' = "turn" /\ current' = current + 1 BY <2>1, <3>5
      <4>q. QED BY <4>1, <4>2, <3>3, <2>1, <2>2, <2>3 DEF Unwrapped
    <3>q. QED BY <3>4, <3>5
  <2>q. QED BY <2>5, <2>6, <2>8, <2>9 DEF SenderInv
<1>5. CASE AllocatorAborts
  BY <1>5, <1>a DEF AllocatorAborts, SenderInv, SenderTypes, Turns, Written, Unwrapped
<1>6. CASE Send
  BY <1>6, <1>a DEF Send, SenderInv, SenderTypes, Turns, Written, Unwrapped
<1>7. CASE Receive
  BY <1>7, <1>a DEF Receive, SenderInv, SenderTypes, Turns, Written, Unwrapped
<1>8. CASE NextToken
  BY <1>8, <1>a DEF NextToken, SenderInv, SenderTypes, Turns, Written, Unwrapped
<1>9. CASE UNCHANGED vars
  BY <1>9, <1>a DEF vars, SenderInv, SenderTypes, Turns, Written, Unwrapped
<1>q. QED BY <1>1, <1>2, <1>3, <1>4, <1>5, <1>6, <1>7, <1>8, <1>9 DEF Next

LEMMA SenderInvariant == Spec => []SenderInv
BY SenderInit, SenderStep, PTL DEF Spec

(* For every list, alphabet and counter width, and whatever the heap holds *)
(* where realloc loses a NUL: a list of two or more parameters overruns    *)
(* the send buffer of send_packet, and before the counter wraps no list    *)
(* does by more than one NUL and the bytes that came in from the heap.     *)
THEOREM OverrunHolds == Spec => []OverrunBounded
<1>1. SenderInv => OverrunBounded
  BY DEF SenderInv, Unwrapped, OverrunBounded
<1>q. QED BY <1>1, SenderInvariant, PTL

(* The bytes that send_packet sends lie in the allocation and are bytes of *)
(* its string, for a list of any length and whatever realloc keeps; before *)
(* the counter wraps, no more of the string stays behind than came in from *)
(* the heap.                                                               *)
THEOREM SendsHolds == Spec => []SendsTheString
<1>1. SenderInv => SendsTheString
  BY DEF SenderInv, SenderTypes, Turns, Written, Unwrapped, SendsTheString
<1>q. QED BY <1>1, SenderInvariant, PTL

-----------------------------------------------------------------------------
(* The receiver's side: the positions that CString and strtok_r look for   *)
(* exist, so that what they cut out are strings.                           *)

LEMMA LeastNat ==
  ASSUME NEW T \in SUBSET Nat, T # {}
  PROVE  \E x \in T : \A y \in T : x <= y
<1>1. PICK x \in T : \A y \in T : ~(<<y, x>> \in OpToRel(<, Nat))
  BY NatLessThanWellFounded, WFMin
<1>2. \A y \in T : ~(y < x)
  BY <1>1 DEF OpToRel
<1>q. QED BY <1>2

LEMMA FirstNulRange ==
  ASSUME NEW s \in Seq(Chars \cup {NUL})
  PROVE  /\ FirstNul(s) \in 1..(Len(s) + 1)
         /\ \A j \in 1..(FirstNul(s) - 1) : s[j] # NUL
<1> DEFINE T == {i \in 1..(Len(s) + 1) : i = Len(s) + 1 \/ s[i] = NUL}
<1>1. T \in SUBSET Nat /\ Len(s) + 1 \in T
  OBVIOUS
<1>2. PICK m \in T : \A y \in T : m <= y
  <2> HIDE DEF T
  <2>q. QED BY <1>1, LeastNat
<1>3. m \in 1..(Len(s) + 1) /\ (m = Len(s) + 1 \/ s[m] = NUL) /\ \A j \in 1..(m - 1) : s[j] # NUL
  BY <1>2
<1>q. QED BY <1>3 DEF FirstNul

LEMMA FirstNulType ==
  ASSUME NEW s \in Seq(Chars \cup {NUL})
  PROVE  CString(s) \in Seq(Chars)
<1>1. /\ FirstNul(s) \in 1..(Len(s) + 1)
      /\ \A j \in 1..(FirstNul(s) - 1) : s[j] # NUL
  BY FirstNulRange
<1>2. \A j \in 1..(FirstNul(s) - 1) : s[j] \in Chars
  BY <1>1
<1>q. QED BY <1>1, <1>2 DEF CString

LEMMA LeastMatch ==
  ASSUME NEW T \in SUBSET Nat, T # {}
  PROVE  Min(T) \in T /\ \A y \in T : Min(T) <= y
BY LeastNat DEF Min

LEMMA TokenTypes ==
  ASSUME NEW s \in Seq(Chars), TokenStart(s) # 0
  PROVE  Token(s) \in Seq(Chars) /\ AfterToken(s) \in Seq(Chars)
<1> DEFINE I == {i \in 1..Len(s) : s[i] # Comma}
           K == {i \in TokenStart(s)..Len(s) : s[i] = Comma}
<1>1. TokenStart(s) \in 1..Len(s)
  <2>1. TokenStart(s) = IF I # {} THEN Min(I) ELSE 0
    BY DEF TokenStart, SelectInSeq, SelectInSubSeq
  <2>2. I \in SUBSET Nat /\ I \subseteq 1..Len(s)
    OBVIOUS
  <2> HIDE DEF I
  <2>3. I # {} /\ TokenStart(s) = Min(I)
    BY <2>1
  <2>q. QED BY <2>2, <2>3, LeastMatch
<1>2. TokenEnd(s) \in 0..Len(s)
  <2> DEFINE sep == IF K # {} THEN Min(K) ELSE 0
  <2>1. TokenEnd(s) = IF sep = 0 THEN Len(s) ELSE sep - 1
    BY DEF TokenEnd, SelectInSubSeq
  <2>2. K \in SUBSET Nat /\ K \subseteq 1..Len(s)
    BY <1>1
  <2>3. sep = 0 \/ sep \in 1..Len(s)
    <3> HIDE DEF K
    <3>q. QED BY <2>2, LeastMatch
  <2> HIDE DEF sep
  <2>q. QED BY <2>1, <2>3
<1>q. QED BY <1>1, <1>2 DEF Token, AfterToken

ReceiverTypes ==
  /\ pc \in Places /\ count \in 0..(CountModulus - 1)
  /\ wire \in Seq(Chars \cup {NUL}) /\ rest \in Seq(Chars) /\ out \in Seq(Seq(Chars))

LEMMA ReceiverStep == SenderInv /\ ReceiverTypes /\ [Next]_vars => ReceiverTypes'
<1> SUFFICES ASSUME SenderInv, ReceiverTypes, [Next]_vars PROVE ReceiverTypes'
  OBVIOUS
<1> USE DEF ReceiverTypes, Places
<1>1. CASE Allocate \/ Separate \/ Grow \/ AllocatorAborts \/ UNCHANGED vars
  BY <1>1 DEF Allocate, Separate, Grow, AllocatorAborts, vars, receiverVars
<1>2. CASE CopyParameter
  <2>1. count' \in 0..(CountModulus - 1)
    BY <1>2, CountsUntilWrap, ModulusAssumption DEF CopyParameter
  <2>q. QED BY <1>2, <2>1 DEF CopyParameter, receiverVars
<1>3. CASE Send
  <2>1. Append(buf, NUL) \in Seq(Chars \cup {NUL}) /\ Len(Append(buf, NUL)) = Len(buf) + 1
    BY DEF SenderInv, SenderTypes
  <2>2. size \in Nat /\ size <= Len(buf) + 1
    BY <1>3 DEF Send, SenderInv, SenderTypes, Turns, Written
  <2>3. wire' \in Seq(Chars \cup {NUL})
    BY <1>3, <2>1, <2>2 DEF Send
  <2>q. QED BY <1>3, <2>3 DEF Send
<1>4. CASE Receive
  BY <1>4, FirstNulType DEF Receive
<1>5. CASE NextToken
  <2>1. CASE TokenStart(rest) = 0
    BY <1>5, <2>1 DEF NextToken
  <2>2. CASE TokenStart(rest) # 0
    <3>1. Token(rest) \in Seq(Chars) /\ AfterToken(rest) \in Seq(Chars)
      BY <2>2, TokenTypes
    <3>2. out' = Append(out, Token(rest)) /\ rest' = AfterToken(rest) /\ UNCHANGED <<pc, count, wire>>
      BY <1>5, <2>2 DEF NextToken
    <3>q. QED BY <3>1, <3>2
  <2>q. QED BY <2>1, <2>2
<1>q. QED BY <1>1, <1>2, <1>3, <1>4, <1>5 DEF Next

(* Buffer, wire and tokens keep their types: every cut that Send, CString  *)
(* and strtok_r make lies inside the string it is made from.               *)
THEOREM CodecTypeCorrect == Spec => []TypeOK
<1>1. Init => ReceiverTypes
  BY ModulusAssumption DEF Init, ReceiverTypes, Places
<1>2. SenderInv /\ ReceiverTypes => TypeOK
  BY DEF SenderInv, SenderTypes, ReceiverTypes, TypeOK
<1>q. QED BY <1>1, <1>2, SenderInvariant, ReceiverStep, PTL DEF Spec

-----------------------------------------------------------------------------
(* Induction over numbers and over strings, for sets. *)

LEMMA NatInduced ==
  ASSUME NEW S, 0 \in S, \A n \in Nat : n \in S => n + 1 \in S
  PROVE  Nat \subseteq S
<1> DEFINE T == {n \in Nat : n \notin S}
<1>1. CASE T = {} BY <1>1
<1>2. CASE T # {}
  <2>1. PICK n \in T : \A m \in T : n <= m
    <3>1. T \in SUBSET Nat OBVIOUS
    <3> HIDE DEF T
    <3>q. QED BY <1>2, <3>1, LeastNat
  <2>2. n \in Nat /\ n \notin S OBVIOUS
  <2>3. n - 1 \in Nat /\ n - 1 + 1 = n BY <2>2
  <2>4. n - 1 \notin T
    <3> HIDE DEF T
    <3>q. QED BY <2>1, <2>2
  <2>q. QED BY <2>2, <2>3, <2>4
<1>q. QED BY <1>1, <1>2

LEMMA StringInduced ==
  ASSUME NEW S, <<>> \in S, \A s \in Seq(Chars), c \in Chars : s \in S => Append(s, c) \in S
  PROVE  Seq(Chars) \subseteq S
<1> DEFINE N == {n \in Nat : \A s \in Seq(Chars) : Len(s) = n => s \in S}
<1>1. 0 \in N
  <2>1. \A s \in Seq(Chars) : Len(s) = 0 => s = <<>> OBVIOUS
  <2>q. QED BY <2>1
<1>2. ASSUME NEW n \in Nat, n \in N PROVE n + 1 \in N
  <2> SUFFICES ASSUME NEW s \in Seq(Chars), Len(s) = n + 1 PROVE s \in S OBVIOUS
  <2> DEFINE t == SubSeq(s, 1, n)
             c == s[n + 1]
  <2>1. t \in Seq(Chars) /\ Len(t) = n /\ c \in Chars OBVIOUS
  <2>2. s = Append(t, c)
    <3>1. s \in Seq(Chars) /\ s # <<>> OBVIOUS
    <3>2. s = Append(SubSeq(s, 1, Len(s) - 1), s[Len(s)]) BY <3>1, AppendProperties
    <3>q. QED BY <3>2
  <2> HIDE DEF t, c
  <2>3. t \in S BY <1>2, <2>1
  <2>q. QED BY <2>1, <2>2, <2>3
<1> HIDE DEF N
<1>3. Nat \subseteq N BY <1>1, <1>2, NatInduced
<1>4. \A s \in Seq(Chars) : Len(s) \in N BY <1>3
<1>q. QED BY <1>4 DEF N

-----------------------------------------------------------------------------
(* FlattenSeq joins the sequences one after the other: the equation of its *)
(* definition has a solution, and one sequence more is joined to the rest. *)

Joins(F, s, n) ==
  /\ F = [i \in 1..n |-> F[i]]
  /\ \A i \in 1..n : F[i] = IF i = 1 THEN s[i] ELSE F[i-1] \o s[i]

LEMMA JoinsExist ==
  ASSUME NEW s
  PROVE  \A n \in Nat : \E F : Joins(F, s, n)
<1> DEFINE T == {n \in Nat : ~\E F : Joins(F, s, n)}
<1> SUFFICES ASSUME T # {} PROVE FALSE OBVIOUS
<1>1. PICK n \in T : \A m \in T : n <= m BY LeastNat
<1>2. CASE n = 0
  <2> DEFINE F == [i \in 1..0 |-> <<>>]
  <2>1. F = [i \in 1..0 |-> F[i]] /\ \A i \in 1..0 : FALSE OBVIOUS
  <2>2. Joins(F, s, 0) BY <2>1 DEF Joins
  <2> QED BY <2>2, <1>1, <1>2
<1>3. CASE n # 0
  <2>1. n - 1 \in Nat /\ n - 1 \notin T /\ n \in Nat BY <1>1, <1>3
  <2>2. PICK G : Joins(G, s, n - 1) BY <2>1
  <2> DEFINE e == IF n = 1 THEN s[1] ELSE G[n - 1] \o s[n]
             F == [i \in 1..n |-> IF i = n THEN e ELSE G[i]]
  <2>3. F[n] = e BY <2>1, <1>3
  <2>4. \A i \in 1..(n - 1) : F[i] = G[i] BY <2>1
  <2>5. F = [i \in 1..n |-> F[i]] OBVIOUS
  <2>6. \A i \in 1..(n - 1) : G[i] = IF i = 1 THEN s[i] ELSE G[i-1] \o s[i]
    BY <2>2 DEF Joins
  <2> HIDE DEF F
  <2>7. ASSUME NEW i \in 1..n PROVE F[i] = IF i = 1 THEN s[i] ELSE F[i-1] \o s[i]
    <3>1. CASE i = n /\ i = 1 BY <3>1, <2>3
    <3>2. CASE i = n /\ i # 1
      <4>1. n - 1 \in 1..(n - 1) BY <3>2, <2>1
      <4>2. F[n - 1] = G[n - 1] BY <4>1, <2>4
      <4> QED BY <4>2, <3>2, <2>3
    <3>3. CASE i # n
      <4>1. i \in 1..(n - 1) BY <3>3, <2>1
      <4>2. i # 1 => i - 1 \in 1..(n - 1) BY <4>1, <2>1
      <4> QED BY <4>1, <4>2, <2>4, <2>6
    <3> QED BY <3>1, <3>2, <3>3
  <2>8. Joins(F, s, n) BY <2>5, <2>7 DEF Joins
  <2> QED BY <2>8, <1>1
<1> QED BY <1>2, <1>3

Flattening(F, A, s, n) ==
  /\ F \in [0..n -> Seq(A)]
  /\ F[0] = <<>> /\ F[n] = FlattenSeq(s)
  /\ \A i \in 1..n : F[i] = F[i - 1] \o s[i]

LEMMA Flattened ==
  ASSUME NEW A, NEW n \in Nat, NEW s \in [1..n -> Seq(A)]
  PROVE  \E F : Flattening(F, A, s, n)
<1>1. Len(s) = n /\ DOMAIN s = 1..n OBVIOUS
<1>2. CASE n = 0
  <2>1. s = <<>> BY <1>1, <1>2
  <2>2. FlattenSeq(s) = <<>> BY <1>1, <1>2, <2>1 DEF FlattenSeq
  <2> DEFINE F == [i \in 0..0 |-> <<>>]
  <2>3. F \in [0..0 -> Seq(A)] /\ F[0] = <<>> OBVIOUS
  <2>4. \A i \in 1..0 : FALSE OBVIOUS
  <2> HIDE DEF F
  <2>5. Flattening(F, A, s, n) BY <1>2, <2>2, <2>3, <2>4 DEF Flattening
  <2> QED BY <2>5
<1>3. CASE n # 0
  <2> DEFINE Eq(G) == G = [i \in 1..n |-> IF i = 1 THEN s[i] ELSE G[i-1] \o s[i]]
             G == CHOOSE g : Eq(g)
  <2>1. PICK H : Joins(H, s, n) BY JoinsExist
  <2>2. Eq(H)
    <3> DEFINE R == [i \in 1..n |-> IF i = 1 THEN s[i] ELSE H[i-1] \o s[i]]
    <3>2. \A i \in 1..n : H[i] = R[i] BY <2>1 DEF Joins
    <3>3. H = [i \in 1..n |-> H[i]] BY <2>1 DEF Joins
    <3>4. [i \in 1..n |-> H[i]] = R BY <3>2
    <3> QED BY <3>3, <3>4
  <2>3. Eq(G) BY <2>2
  <2>4. FlattenSeq(s) = G[n] BY <1>1, <1>3 DEF FlattenSeq
  <2>5. \A i \in 1..n : G[i] = IF i = 1 THEN s[i] ELSE G[i-1] \o s[i] BY <2>3
  <2> HIDE DEF G, Eq
  <2>6. \A i \in 1..n : G[i] \in Seq(A)
    <3> DEFINE T == {i \in Nat : i \in 1..n /\ G[i] \notin Seq(A)}
    <3> SUFFICES ASSUME T # {} PROVE FALSE OBVIOUS
    <3>1. PICK i \in T : \A j \in T : i <= j BY LeastNat
    <3>2. i # 1 BY <3>1, <2>5
    <3>3. i - 1 \in 1..n /\ i - 1 \notin T BY <3>1, <3>2
    <3>4. G[i - 1] \in Seq(A) /\ s[i] \in Seq(A) BY <3>1, <3>3
    <3>5. G[i] = G[i - 1] \o s[i] BY <3>1, <3>2, <2>5
    <3>6. G[i] \in Seq(A) BY <3>4, <3>5
    <3> QED BY <3>1, <3>6
  <2> DEFINE F == [i \in 0..n |-> IF i = 0 THEN <<>> ELSE G[i]]
  <2>7. F[0] = <<>> /\ \A i \in 1..n : F[i] = G[i] OBVIOUS
  <2>8. F \in [0..n -> Seq(A)]
    <3> SUFFICES ASSUME NEW i \in 0..n PROVE (IF i = 0 THEN <<>> ELSE G[i]) \in Seq(A) OBVIOUS
    <3>1. CASE i = 0 BY <3>1
    <3>2. CASE i # 0
      <4>1. i \in 1..n BY <3>2
      <4> QED BY <4>1, <3>2, <2>6
    <3> QED BY <3>1, <3>2
  <2> HIDE DEF F
  <2>9. ASSUME NEW i \in 1..n PROVE F[i] = F[i - 1] \o s[i]
    <3>1. F[i] = G[i] /\ G[i] = IF i = 1 THEN s[i] ELSE G[i-1] \o s[i] BY <2>5, <2>7
    <3>2. CASE i = 1
      <4>1. s[1] \in Seq(A) BY <3>2
      <4>2. <<>> \o s[1] = s[1] BY <4>1
      <4> QED BY <4>2, <3>1, <3>2, <2>7
    <3>3. CASE i # 1
      <4>1. i - 1 \in 1..n BY <3>3
      <4> QED BY <4>1, <3>1, <3>3, <2>7
    <3> QED BY <3>2, <3>3
  <2>10. n \in 1..n BY <1>3
  <2>11. Flattening(F, A, s, n) BY <2>4, <2>7, <2>8, <2>9, <2>10 DEF Flattening
  <2> QED BY <2>11
<1> QED BY <1>2, <1>3

LEMMA FlattenedNone ==
  ASSUME NEW s, Len(s) = 0, s = <<>>
  PROVE  FlattenSeq(s) = <<>>
BY DEF FlattenSeq

LEMMA FlattenedMore ==
  ASSUME NEW A, NEW n \in Nat, NEW s \in [1..(n + 1) -> Seq(A)]
  PROVE  /\ FlattenSeq(s) = FlattenSeq([i \in 1..n |-> s[i]]) \o s[n + 1]
         /\ FlattenSeq([i \in 1..n |-> s[i]]) \in Seq(A)
<1> DEFINE t == [i \in 1..n |-> s[i]]
           S == {i \in Nat : i <= n => \A F, G : Flattening(F, A, s, n + 1) /\ Flattening(G, A, t, n)
                                                   => F[i] = G[i]}
<1>1. t \in [1..n -> Seq(A)] /\ \A i \in 1..n : t[i] = s[i] OBVIOUS
<1>2. PICK F : Flattening(F, A, s, n + 1) BY Flattened
<1> HIDE DEF t
<1>3. PICK G : Flattening(G, A, t, n) BY <1>1, Flattened
<1>4. 0 \in S BY DEF Flattening
<1>5. ASSUME NEW i \in Nat, i \in S PROVE i + 1 \in S
  <2> SUFFICES ASSUME i + 1 <= n, NEW H, NEW K, Flattening(H, A, s, n + 1), Flattening(K, A, t, n)
               PROVE  H[i + 1] = K[i + 1]
    OBVIOUS
  <2>1. H[i] = K[i] BY <1>5
  <2>2. i + 1 \in 1..n /\ i + 1 \in 1..(n + 1) /\ i + 1 - 1 = i OBVIOUS
  <2> HIDE DEF S
  <2>3. H[i + 1] = H[i] \o s[i + 1]
    <3>1. PICK j \in 1..(n + 1) : j = i + 1 /\ j - 1 = i BY <2>2
    <3>2. H[j] = H[j - 1] \o s[j] BY DEF Flattening
    <3>q. QED BY <3>1, <3>2
  <2>4. K[i + 1] = K[i] \o t[i + 1]
    <3>1. PICK j \in 1..n : j = i + 1 /\ j - 1 = i BY <2>2
    <3>2. K[j] = K[j - 1] \o t[j] BY DEF Flattening
    <3>q. QED BY <3>1, <3>2
  <2>q. QED BY <1>1, <2>1, <2>2, <2>3, <2>4
<1>6. n \in S
  <2> HIDE DEF S
  <2>q. QED BY <1>4, <1>5, NatInduced
<1>7. F[n] = G[n] BY <1>2, <1>3, <1>6
<1>8. /\ FlattenSeq(s) = F[n + 1] /\ F[n + 1] = F[n] \o s[n + 1]
      /\ FlattenSeq(t) = G[n] /\ G[n] \in Seq(A)
  <2>1. n + 1 \in 1..(n + 1) /\ n + 1 - 1 = n /\ n \in 0..n OBVIOUS
  <2> HIDE DEF S
  <2>2. FlattenSeq(s) = F[n + 1] /\ \A j \in 1..(n + 1) : F[j] = F[j - 1] \o s[j]
    BY <1>2 DEF Flattening
  <2>3. FlattenSeq(t) = G[n] /\ G \in [0..n -> Seq(A)] BY <1>3 DEF Flattening
  <2>4. F[n + 1] = F[n] \o s[n + 1]
    <3>1. PICK j \in 1..(n + 1) : j = n + 1 /\ j - 1 = n BY <2>1
    <3>2. F[j] = F[j - 1] \o s[j] BY <2>2
    <3>q. QED BY <3>1, <3>2
  <2>5. G[n] \in Seq(A) BY <2>1, <2>3
  <2>q. QED BY <2>2, <2>3, <2>4, <2>5
<1>q. QED BY <1>7, <1>8 DEF t

-----------------------------------------------------------------------------
(* The fields of a string: the equation of their definition has a          *)
(* solution, and it depends on the characters read so far only.            *)

Table(g, s, n) ==
  /\ g = [i \in 0..n |-> g[i]]
  /\ g[0] = <<>> /\ \A i \in 1..n : g[i] = Grown(g[i - 1], s, i)

LEMMA TablesExist ==
  ASSUME NEW s
  PROVE  \A n \in Nat : \E g : Table(g, s, n)
<1> DEFINE S == {n \in Nat : \E g : Table(g, s, n)}
<1>1. 0 \in S
  <2> DEFINE g == [i \in 0..0 |-> <<>>]
  <2>1. Table(g, s, 0) BY DEF Table
  <2>q. QED BY <2>1
<1>2. ASSUME NEW n \in Nat, n \in S PROVE n + 1 \in S
  <2>1. PICK h : Table(h, s, n) BY <1>2
  <2> DEFINE g == [i \in 0..(n + 1) |-> IF i = n + 1 THEN Grown(h[n], s, n + 1) ELSE h[i]]
  <2>2. g[n + 1] = Grown(h[n], s, n + 1) OBVIOUS
  <2>3. \A i \in 0..n : g[i] = h[i] OBVIOUS
  <2>4. g = [i \in 0..(n + 1) |-> g[i]] OBVIOUS
  <2> HIDE DEF g
  <2>5. g[0] = <<>> BY <2>1, <2>3 DEF Table
  <2>6. ASSUME NEW i \in 1..(n + 1) PROVE g[i] = Grown(g[i - 1], s, i)
    <3>1. CASE i = n + 1
      <4>1. g[n] = h[n] /\ i - 1 = n BY <2>3, <3>1
      <4>q. QED BY <2>2, <3>1, <4>1
    <3>2. CASE i # n + 1
      <4>1. i \in 1..n /\ i \in 0..n /\ i - 1 \in 0..n BY <3>2
      <4>2. h[i] = Grown(h[i - 1], s, i) BY <2>1, <4>1 DEF Table
      <4>3. g[i] = h[i] /\ g[i - 1] = h[i - 1] BY <2>3, <4>1
      <4>q. QED BY <4>2, <4>3
    <3>q. QED BY <3>1, <3>2
  <2>7. Table(g, s, n + 1) BY <2>4, <2>5, <2>6 DEF Table
  <2>q. QED BY <2>7
<1> HIDE DEF S
<1>3. Nat \subseteq S BY <1>1, <1>2, NatInduced
<1>q. QED BY <1>3 DEF S

LEMMA FieldsTable ==
  ASSUME NEW s \in Seq(Chars)
  PROVE  \E g : Table(g, s, Len(s)) /\ Fields(s) = g[Len(s)]
<1> DEFINE n == Len(s)
           Eq(g) == g = [i \in 0..n |-> IF i = 0 THEN <<>> ELSE Grown(g[i - 1], s, i)]
           u == CHOOSE g : Eq(g)
<1>1. n \in Nat OBVIOUS
<1>2. Fields(s) = u[n] BY DEF Fields
<1> HIDE DEF n
<1>3. PICK h : Table(h, s, n) BY <1>1, TablesExist
<1>4. Eq(h)
  <2> DEFINE R == [i \in 0..n |-> IF i = 0 THEN <<>> ELSE Grown(h[i - 1], s, i)]
  <2>1. \A i \in 0..n : i = 0 \/ i \in 1..n BY <1>1
  <2>2. h = [i \in 0..n |-> h[i]] /\ \A i \in 0..n : h[i] = R[i] BY <1>3, <2>1 DEF Table
  <2>3. [i \in 0..n |-> h[i]] = R BY <2>2
  <2>q. QED BY <2>2, <2>3
<1>5. Eq(u) BY <1>4
<1> HIDE DEF u
<1>6. Table(u, s, n)
  <2>1. u = [i \in 0..n |-> u[i]] BY <1>5
  <2>2. u[0] = <<>>
    <3>1. 0 \in 0..n BY <1>1
    <3>q. QED BY <1>5, <3>1
  <2>3. ASSUME NEW i \in 1..n PROVE u[i] = Grown(u[i - 1], s, i)
    <3>1. i \in 0..n /\ i # 0 BY <1>1
    <3>q. QED BY <1>5, <3>1
  <2>q. QED BY <2>1, <2>2, <2>3 DEF Table
<1>q. QED BY <1>2, <1>6 DEF n

LEMMA TablesAgree ==
  ASSUME NEW s, NEW t, NEW g, NEW h, NEW n \in Nat, NEW m \in Nat, NEW k \in Nat,
         Table(g, s, n), Table(h, t, m), k <= n, k <= m, \A i \in 1..k : s[i] = t[i]
  PROVE  g[k] = h[k]
<1> DEFINE S == {i \in Nat : i <= k => g[i] = h[i]}
<1>1. 0 \in S BY DEF Table
<1>2. ASSUME NEW i \in Nat, i \in S PROVE i + 1 \in S
  <2> SUFFICES ASSUME i + 1 <= k PROVE g[i + 1] = h[i + 1] OBVIOUS
  <2>1. i + 1 \in 1..n /\ i + 1 \in 1..m /\ i + 1 \in 1..k /\ i + 1 - 1 = i OBVIOUS
  <2>2. i + 1 # 1 => i \in 1..k OBVIOUS
  <2>3. g[i + 1] = Grown(g[i], s, i + 1)
    <3>1. \A j \in 1..n : g[j] = Grown(g[j - 1], s, j) BY DEF Table
    <3>q. QED BY <3>1, <2>1
  <2>4. h[i + 1] = Grown(h[i], t, i + 1)
    <3>1. \A j \in 1..m : h[j] = Grown(h[j - 1], t, j) BY DEF Table
    <3>q. QED BY <3>1, <2>1
  <2>5. g[i] = h[i] BY <1>2
  <2>6. s[i + 1] = t[i + 1] /\ (i + 1 # 1 => s[i] = t[i]) BY <2>1, <2>2
  <2> HIDE DEF S
  <2>7. Grown(g[i], s, i + 1) = Grown(g[i], t, i + 1) BY <2>1, <2>6 DEF Grown
  <2>q. QED BY <2>3, <2>4, <2>5, <2>7
<1> HIDE DEF S
<1>3. k \in S BY <1>1, <1>2, NatInduced
<1>q. QED BY <1>3 DEF S

(* One character more. *)
LEMMA FieldsGrow ==
  /\ Fields(<<>>) = <<>>
  /\ \A s \in Seq(Chars), c \in Chars :
       Fields(Append(s, c)) = Grown(Fields(s), Append(s, c), Len(s) + 1)
<1>1. Fields(<<>>) = <<>>
  <2>1. <<>> \in Seq(Chars) /\ Len(<<>>) = 0 OBVIOUS
  <2>2. PICK g : Table(g, <<>>, 0) /\ Fields(<<>>) = g[0] BY <2>1, FieldsTable
  <2>q. QED BY <2>2 DEF Table
<1>2. ASSUME NEW s \in Seq(Chars), NEW c \in Chars
      PROVE  Fields(Append(s, c)) = Grown(Fields(s), Append(s, c), Len(s) + 1)
  <2> DEFINE t == Append(s, c)
             n == Len(s)
  <2>1. n \in Nat /\ t \in Seq(Chars) /\ Len(t) = n + 1 /\ \A i \in 1..n : t[i] = s[i] OBVIOUS
  <2>2. PICK g : Table(g, s, n) /\ Fields(s) = g[n] BY FieldsTable
  <2> HIDE DEF t, n
  <2>3. PICK h : Table(h, t, n + 1) /\ Fields(t) = h[n + 1] BY <2>1, FieldsTable
  <2>4. h[n] = g[n]
    <3>1. n <= n /\ n <= n + 1 /\ n + 1 \in Nat BY <2>1
    <3>q. QED BY <2>1, <2>2, <2>3, <3>1, TablesAgree
  <2>5. h[n + 1] = Grown(h[n], t, n + 1)
    <3>1. n + 1 \in 1..(n + 1) /\ n + 1 - 1 = n BY <2>1
    <3>2. PICK j \in 1..(n + 1) : j = n + 1 /\ j - 1 = n BY <2>1, <3>1
    <3>3. h[j] = Grown(h[j - 1], t, j) BY <2>3 DEF Table
    <3>q. QED BY <3>2, <3>3
  <2>q. QED BY <2>2, <2>3, <2>4, <2>5 DEF t, n
<1>q. QED BY <1>1, <1>2

LEMMA OneMore ==
  \A u \in Seq(Seq(Chars)), e \in Seq(Chars) :
    Append(u, e) \in Seq(Seq(Chars)) /\ Append(u, e) # <<>>
BY AppendProperties

LEMMA AppendJoined ==
  \A u, v \in Seq(Seq(Chars)), e \in Seq(Chars) : Append(u \o v, e) = u \o Append(v, e)
<1> SUFFICES ASSUME NEW u \in Seq(Seq(Chars)), NEW v \in Seq(Seq(Chars)), NEW e \in Seq(Chars)
             PROVE  Append(u \o v, e) = u \o Append(v, e)
  OBVIOUS
<1>1. << e >> \in Seq(Seq(Chars)) /\ u \o v \in Seq(Seq(Chars)) OBVIOUS
<1>2. Append(v, e) = v \o << e >> OBVIOUS
<1>3. Append(u \o v, e) = (u \o v) \o << e >> BY <1>1
<1>q. QED BY <1>1, <1>2, <1>3, ConcatAssociative

Ends(s) == s = <<>> \/ s[Len(s)] = Comma

LEMMA FieldsAppend ==
  ASSUME NEW s \in Seq(Chars), NEW c \in Chars
  PROVE  /\ c = Comma => Fields(Append(s, c)) = Fields(s)
         /\ c # Comma /\ Ends(s) => Fields(Append(s, c)) = Append(Fields(s), <<c>>)
         /\ c # Comma /\ ~Ends(s) =>
              Fields(Append(s, c)) = Append(Front(Fields(s)), Append(Last(Fields(s)), c))
<1> DEFINE t == Append(s, c)
           f == Fields(s)
           n == Len(s)
<1>1. n \in Nat /\ t[n + 1] = c /\ (n # 0 => t[n] = s[n]) /\ (n = 0 <=> s = <<>>) OBVIOUS
<1>2. Fields(t) = Grown(f, t, n + 1) BY FieldsGrow
<1>3. Ends(s) <=> n = 0 \/ s[n] = Comma BY <1>1 DEF Ends
<1> HIDE DEF t, f, n
<1>4. n + 1 - 1 = n /\ (n + 1 = 1 <=> n = 0) BY <1>1
<1>5. /\ c = Comma => Fields(t) = f
      /\ c # Comma /\ Ends(s) => Fields(t) = Append(f, <<c>>)
      /\ c # Comma /\ ~Ends(s) => Fields(t) = Append(Front(f), Append(Last(f), c))
  <2>1. Grown(f, t, n + 1) = IF t[n + 1] = Comma THEN f
                             ELSE IF n + 1 = 1 \/ t[n] = Comma THEN Append(f, <<t[n + 1]>>)
                             ELSE Append(Front(f), Append(Last(f), t[n + 1]))
    <3>1. PICK j \in Nat : j = n + 1 /\ j - 1 = n BY <1>1, <1>4
    <3>2. Grown(f, t, j) = IF t[j] = Comma THEN f
                           ELSE IF j = 1 \/ t[j - 1] = Comma THEN Append(f, <<t[j]>>)
                           ELSE Append(Front(f), Append(Last(f), t[j]))
      BY DEF Grown
    <3>q. QED BY <3>1, <3>2
  <2>2. c # Comma => (Ends(s) <=> n + 1 = 1 \/ t[n] = Comma) BY <1>1, <1>3, <1>4
  <2> HIDE DEF Ends
  <2>q. QED BY <1>1, <1>2, <2>1, <2>2
<1>q. QED BY <1>5 DEF t, f

LEMMA FieldsType ==
  \A s \in Seq(Chars) : Fields(s) \in Seq(Seq(Chars)) /\ (Ends(s) \/ Fields(s) # <<>>)
<1> DEFINE S == {s \in Seq(Chars) : Fields(s) \in Seq(Seq(Chars)) /\ (Ends(s) \/ Fields(s) # <<>>)}
<1>1. <<>> \in S
  <2>1. Ends(<<>>) BY DEF Ends
  <2>2. <<>> \in Seq(Chars) /\ <<>> \in Seq(Seq(Chars)) OBVIOUS
  <2>q. QED BY <2>1, <2>2, FieldsGrow
<1>2. ASSUME NEW s \in Seq(Chars), NEW c \in Chars, s \in S PROVE Append(s, c) \in S
  <2> DEFINE t == Append(s, c)
             f == Fields(s)
             g == Fields(t)
  <2>1. t \in Seq(Chars) /\ f \in Seq(Seq(Chars)) /\ (Ends(s) \/ f # <<>>) BY <1>2
  <2>2. t # <<>> /\ t[Len(t)] = c OBVIOUS
  <2>3. Ends(t) <=> c = Comma BY <2>2 DEF Ends
  <2>4. /\ c = Comma => g = f
        /\ c # Comma /\ Ends(s) => g = Append(f, <<c>>)
        /\ c # Comma /\ ~Ends(s) => g = Append(Front(f), Append(Last(f), c))
    BY FieldsAppend
  <2> HIDE DEF t, f, g
  <2>5. CASE c = Comma BY <2>1, <2>3, <2>4, <2>5 DEF t, g
  <2>6. CASE c # Comma /\ Ends(s)
    <3>1. <<c>> \in Seq(Chars) OBVIOUS
    <3>2. g = Append(f, <<c>>) BY <2>4, <2>6
    <3>3. g \in Seq(Seq(Chars)) /\ g # <<>> BY <2>1, <3>1, <3>2, OneMore
    <3>q. QED BY <2>1, <3>3 DEF t, g
  <2>7. CASE c # Comma /\ ~Ends(s)
    <3>1. f # <<>> /\ Len(f) \in Nat \ {0} BY <2>1, <2>7
    <3>2. Front(f) \in Seq(Seq(Chars)) /\ Last(f) \in Seq(Chars) BY <2>1, <3>1 DEF Front, Last
    <3>3. Append(Last(f), c) \in Seq(Chars) BY <3>2
    <3>4. g = Append(Front(f), Append(Last(f), c)) BY <2>4, <2>7
    <3>5. g \in Seq(Seq(Chars)) /\ g # <<>> BY <3>2, <3>3, <3>4, OneMore
    <3>q. QED BY <2>1, <3>5 DEF t, g
  <2>q. QED BY <2>5, <2>6, <2>7
<1> HIDE DEF S
<1>3. Seq(Chars) \subseteq S BY <1>1, <1>2, StringInduced
<1>q. QED BY <1>3 DEF S

(* A comma separates: the fields of what it joins are joined. *)
LEMMA FieldsJoined ==
  ASSUME NEW a \in Seq(Chars)
  PROVE  \A b \in Seq(Chars) : Fields(Append(a, Comma) \o b) = Fields(a) \o Fields(b)
<1> DEFINE p == Append(a, Comma)
           fa == Fields(a)
           S == {b \in Seq(Chars) : Fields(p \o b) = fa \o Fields(b)}
<1>1. p \in Seq(Chars) /\ p # <<>> /\ p[Len(p)] = Comma /\ Len(p) \in Nat \ {0}
  BY CharsAssumption
<1>2. fa \in Seq(Seq(Chars)) /\ Fields(p) = fa BY FieldsType, FieldsAppend, CharsAssumption
<1> HIDE DEF p, fa
<1>3. <<>> \in S
  <2>1. p \o <<>> = p /\ fa \o <<>> = fa BY <1>1, <1>2
  <2>q. QED BY <1>2, <2>1, FieldsGrow
<1>4. ASSUME NEW b \in Seq(Chars), NEW c \in Chars, b \in S PROVE Append(b, c) \in S
  <2> DEFINE d == p \o b
             fb == Fields(b)
  <2>1. d \in Seq(Chars) /\ p \o Append(b, c) = Append(d, c) BY <1>1
  <2>2. Ends(d) <=> Ends(b)
    <3>1. Len(d) = Len(p) + Len(b) /\ Len(b) \in Nat BY <1>1
    <3>2. CASE b = <<>>
      <4>1. d = p BY <3>2, <1>1
      <4>q. QED BY <4>1, <3>2, <1>1 DEF Ends
    <3>3. CASE b # <<>>
      <4>1. Len(b) # 0 BY <3>3
      <4>2. d[Len(d)] = b[Len(b)] BY <1>1, <3>1, <4>1
      <4>3. d # <<>> BY <3>1, <1>1
      <4>q. QED BY <4>2, <4>3, <3>3 DEF Ends
    <3>q. QED BY <3>2, <3>3
  <2>3. Fields(d) = fa \o fb BY <1>4
  <2>4. fb \in Seq(Seq(Chars)) /\ (Ends(b) \/ fb # <<>>) BY FieldsType
  <2>5. /\ c = Comma => Fields(Append(b, c)) = fb
        /\ c # Comma /\ Ends(b) => Fields(Append(b, c)) = Append(fb, <<c>>)
        /\ c # Comma /\ ~Ends(b) => Fields(Append(b, c)) = Append(Front(fb), Append(Last(fb), c))
    BY FieldsAppend
  <2> HIDE DEF d
  <2> DEFINE fd == Fields(d)
  <2>6. /\ c = Comma => Fields(Append(d, c)) = fd
        /\ c # Comma /\ Ends(d) => Fields(Append(d, c)) = Append(fd, <<c>>)
        /\ c # Comma /\ ~Ends(d) => Fields(Append(d, c)) = Append(Front(fd), Append(Last(fd), c))
    BY <2>1, FieldsAppend
  <2>7. fd = fa \o fb BY <2>3
  <2> HIDE DEF fb, fd
  <2>8. Append(b, c) \in Seq(Chars) OBVIOUS
  <2>9. CASE c = Comma
    <3>1. Fields(Append(d, c)) = fa \o Fields(Append(b, c)) BY <2>5, <2>6, <2>7, <2>9
    <3>q. QED BY <2>1, <2>8, <3>1
  <2>10. CASE c # Comma /\ Ends(b)
    <3>1. <<c>> \in Seq(Chars) OBVIOUS
    <3> DEFINE e == <<c>>
    <3> HIDE DEF e
    <3>2. Append(fa \o fb, e) = fa \o Append(fb, e)
      <4>1. e \in Seq(Chars) BY <3>1 DEF e
      <4>q. QED BY <1>2, <2>4, <4>1, AppendJoined
    <3>3. Fields(Append(d, c)) = fa \o Fields(Append(b, c))
      BY <2>2, <2>5, <2>6, <2>7, <2>10, <3>2 DEF e
    <3>q. QED BY <2>1, <2>8, <3>3
  <2>11. CASE c # Comma /\ ~Ends(b)
    <3>1. fb # <<>> /\ Len(fb) \in Nat \ {0} /\ Len(fa) \in Nat BY <1>2, <2>4, <2>11
    <3>2. Front(fb) \in Seq(Seq(Chars)) /\ Last(fb) \in Seq(Chars) BY <2>4, <3>1 DEF Front, Last
    <3>3. Last(fa \o fb) = Last(fb)
      <4>1. Len(fa \o fb) = Len(fa) + Len(fb) BY <1>2, <2>4
      <4>2. (fa \o fb)[Len(fa) + Len(fb)] = fb[Len(fb)] BY <1>2, <2>4, <3>1
      <4>q. QED BY <4>1, <4>2 DEF Last
    <3>4. Front(fa \o fb) = fa \o Front(fb)
      <4>1. Len(fa \o fb) = Len(fa) + Len(fb) BY <1>2, <2>4
      <4> DEFINE u == SubSeq(fa \o fb, 1, Len(fa) + Len(fb) - 1)
                 v == fa \o SubSeq(fb, 1, Len(fb) - 1)
      <4>2. u \in Seq(Seq(Chars)) /\ Len(u) = Len(fa) + Len(fb) - 1
            /\ \A i \in 1..(Len(fa) + Len(fb) - 1) : u[i] = (fa \o fb)[i]
        BY <1>2, <2>4, <3>1, <4>1
      <4>3. v \in Seq(Seq(Chars)) /\ Len(v) = Len(fa) + Len(fb) - 1
            /\ \A i \in 1..(Len(fa) + Len(fb) - 1) : v[i] = (fa \o fb)[i]
        BY <1>2, <2>4, <3>1, <4>1
      <4> HIDE DEF u, v
      <4>4. u = v BY <4>2, <4>3, SeqEqual
      <4>q. QED BY <4>1, <4>4 DEF u, v, Front
    <3> DEFINE e == Append(Last(fb), c)
               fr == Front(fb)
    <3>5. e \in Seq(Chars) /\ fr \in Seq(Seq(Chars)) BY <3>2
    <3>6. Fields(Append(d, c)) = Append(fa \o fr, e) BY <2>2, <2>6, <2>7, <2>11, <3>3, <3>4
    <3>7. Fields(Append(b, c)) = Append(fr, e) BY <2>5, <2>11
    <3> HIDE DEF e, fr
    <3>8. Append(fa \o fr, e) = fa \o Append(fr, e) BY <1>2, <3>5, AppendJoined
    <3>9. Fields(Append(d, c)) = fa \o Fields(Append(b, c)) BY <3>6, <3>7, <3>8
    <3>q. QED BY <2>1, <2>8, <3>9
  <2>q. QED BY <2>9, <2>10, <2>11
<1> HIDE DEF S
<1>5. Seq(Chars) \subseteq S BY <1>3, <1>4, StringInduced
<1>q. QED BY <1>5 DEF S, p, fa

(* A string without a comma is a field, if it is not empty; one of nothing *)
(* but commas has none, and adds none in front of another.                 *)
LEMMA FieldsPlain ==
  \A s \in Seq(Chars) : (\A i \in 1..Len(s) : s[i] # Comma) =>
    Fields(s) = IF s = <<>> THEN <<>> ELSE <<s>>
<1> DEFINE P(s) == \A i \in 1..Len(s) : s[i] # Comma
           S == {s \in Seq(Chars) : P(s) => Fields(s) = IF s = <<>> THEN <<>> ELSE <<s>>}
<1>1. <<>> \in S BY FieldsGrow
<1>2. ASSUME NEW s \in Seq(Chars), NEW c \in Chars, s \in S PROVE Append(s, c) \in S
  <2> DEFINE t == Append(s, c)
             f == Fields(s)
  <2>1. t \in Seq(Chars) /\ t # <<>> /\ Len(t) = Len(s) + 1 /\ Len(s) \in Nat
        /\ t[Len(s) + 1] = c /\ \A i \in 1..Len(s) : t[i] = s[i]
    OBVIOUS
  <2> SUFFICES ASSUME P(t) PROVE Fields(t) = <<t>>
    <3> HIDE DEF P, t
    <3>q. QED BY <2>1 DEF t
  <2>2. c # Comma BY <2>1
  <2>3. P(s) BY <2>1
  <2>4. f = IF s = <<>> THEN <<>> ELSE <<s>>
    <3> HIDE DEF P
    <3>q. QED BY <1>2, <2>3
  <2>5. CASE s = <<>>
    <3>1. Ends(s) BY <2>5 DEF Ends
    <3>2. Fields(t) = Append(f, <<c>>) BY <2>2, <3>1, FieldsAppend
    <3>3. t = <<c>> /\ Append(<<>>, <<c>>) = << <<c>> >> BY <2>5
    <3>q. QED BY <2>4, <2>5, <3>2, <3>3
  <2>6. CASE s # <<>>
    <3>1. ~Ends(s)
      <4>1. Len(s) \in 1..Len(s) BY <2>1, <2>6
      <4>q. QED BY <2>3, <2>6, <4>1 DEF Ends
    <3>2. Fields(t) = Append(Front(f), Append(Last(f), c)) BY <2>2, <3>1, FieldsAppend
    <3>3. f = <<s>> BY <2>4, <2>6
    <3>4. Front(<<s>>) = <<>> /\ Last(<<s>>) = s BY DEF Front, Last
    <3> HIDE DEF t, f
    <3>5. Fields(t) = Append(<<>>, t) BY <3>2, <3>3, <3>4 DEF t
    <3>6. Append(<<>>, t) = <<t>> OBVIOUS
    <3>q. QED BY <3>5, <3>6
  <2>q. QED BY <2>5, <2>6
<1>3. Seq(Chars) \subseteq S
  <2> HIDE DEF S
  <2>q. QED BY <1>1, <1>2, StringInduced
<1>q. QED BY <1>3

LEMMA FieldsCommas ==
  \A s \in Seq(Chars) : (\A i \in 1..Len(s) : s[i] = Comma) => Fields(s) = <<>>
<1> DEFINE P(s) == \A i \in 1..Len(s) : s[i] = Comma
           S == {s \in Seq(Chars) : P(s) => Fields(s) = <<>>}
<1>1. <<>> \in S BY FieldsGrow
<1>2. ASSUME NEW s \in Seq(Chars), NEW c \in Chars, s \in S PROVE Append(s, c) \in S
  <2> DEFINE t == Append(s, c)
  <2>1. t \in Seq(Chars) /\ Len(t) = Len(s) + 1 /\ Len(s) \in Nat
        /\ t[Len(s) + 1] = c /\ \A i \in 1..Len(s) : t[i] = s[i]
    OBVIOUS
  <2> SUFFICES ASSUME P(t) PROVE Fields(t) = <<>>
    <3> HIDE DEF P, t
    <3>q. QED BY <2>1 DEF t
  <2>2. c = Comma BY <2>1
  <2>3. P(s) BY <2>1
  <2>4. Fields(s) = <<>>
    <3> HIDE DEF P
    <3>q. QED BY <1>2, <2>3
  <2>q. QED BY <2>2, <2>4, FieldsAppend
<1>3. Seq(Chars) \subseteq S
  <2> HIDE DEF S
  <2>q. QED BY <1>1, <1>2, StringInduced
<1>q. QED BY <1>3

LEMMA LastOff ==
  ASSUME NEW s \in Seq(Chars), s # <<>>
  PROVE  \E q \in Seq(Chars) :
           s = Append(q, s[Len(s)]) /\ Len(s) = Len(q) + 1 /\ \A i \in 1..Len(q) : q[i] = s[i]
<1>1. PICK n \in Nat : Len(s) = n + 1
  <2>1. Len(s) \in Nat /\ Len(s) # 0 OBVIOUS
  <2>2. Len(s) - 1 \in Nat /\ Len(s) = Len(s) - 1 + 1 BY <2>1
  <2>q. QED BY <2>2
<1> DEFINE q == SubSeq(s, 1, n)
<1>2. q \in Seq(Chars) /\ Len(q) = n BY <1>1
<1>3. \A i \in 1..n : q[i] = s[i] BY <1>1
<1>4. s = Append(q, s[n + 1]) BY <1>1
<1> HIDE DEF q
<1>q. QED BY <1>1, <1>2, <1>3, <1>4

LEMMA FieldsBehindCommas ==
  ASSUME NEW s \in Seq(Chars), NEW b \in Seq(Chars), \A i \in 1..Len(s) : s[i] = Comma
  PROVE  Fields(s \o b) = Fields(b)
<1>1. CASE s = <<>>
  <2>1. s \o b = b BY <1>1
  <2>q. QED BY <2>1
<1>2. CASE s # <<>>
  <2>1. PICK q \in Seq(Chars) :
          s = Append(q, s[Len(s)]) /\ Len(s) = Len(q) + 1 /\ \A i \in 1..Len(q) : q[i] = s[i]
    BY <1>2, LastOff
  <2>2. Len(q) \in Nat /\ \A i \in 1..Len(q) : q[i] = Comma
    <3>1. Len(q) \in Nat OBVIOUS
    <3>2. 1..Len(q) \subseteq 1..Len(s) BY <2>1, <3>1
    <3>q. QED BY <2>1, <3>1, <3>2
  <2>3. s = Append(q, Comma) BY <2>1, <2>2
  <2>4. Fields(q) = <<>> BY <2>2, FieldsCommas
  <2>5. Fields(Append(q, Comma) \o b) = Fields(q) \o Fields(b) BY <2>2, FieldsJoined
  <2>6. Fields(b) \in Seq(Seq(Chars)) BY FieldsType
  <2> DEFINE f == Fields(b)
  <2> HIDE DEF f
  <2>7. <<>> \o f = f BY <2>6 DEF f
  <2>q. QED BY <2>3, <2>4, <2>5, <2>7 DEF f
<1>q. QED BY <1>1, <1>2

-----------------------------------------------------------------------------
(* Where strtok_r cuts. *)

LEMMA NoToken ==
  ASSUME NEW s \in Seq(Chars), TokenStart(s) = 0
  PROVE  \A i \in 1..Len(s) : s[i] = Comma
<1> DEFINE I == {i \in 1..Len(s) : s[i] # Comma}
<1>1. TokenStart(s) = IF I # {} THEN Min(I) ELSE 0
  BY DEF TokenStart, SelectInSeq, SelectInSubSeq
<1>2. I \in SUBSET Nat /\ I \subseteq 1..Len(s) OBVIOUS
<1>3. I = {}
  <2> HIDE DEF I
  <2>q. QED BY <1>1, <1>2, LeastMatch
<1>q. QED BY <1>3

LEMMA TokenCut ==
  ASSUME NEW s \in Seq(Chars), TokenStart(s) # 0
  PROVE  /\ TokenStart(s) \in 1..Len(s) /\ TokenEnd(s) \in TokenStart(s)..Len(s)
         /\ \A j \in 1..(TokenStart(s) - 1) : s[j] = Comma
         /\ \A j \in TokenStart(s)..TokenEnd(s) : s[j] # Comma
         /\ TokenEnd(s) = Len(s) \/ s[TokenEnd(s) + 1] = Comma
<1> DEFINE I == {i \in 1..Len(s) : s[i] # Comma}
           b == TokenStart(s)
           e == TokenEnd(s)
           K == {i \in b..Len(s) : s[i] = Comma}
           sep == IF K # {} THEN Min(K) ELSE 0
<1>1. b = IF I # {} THEN Min(I) ELSE 0
  BY DEF TokenStart, SelectInSeq, SelectInSubSeq
<1>2. I \in SUBSET Nat OBVIOUS
<1>3. b \in I /\ \A y \in I : b <= y
  <2> HIDE DEF I
  <2>q. QED BY <1>1, <1>2, LeastMatch
<1>4. e = IF sep = 0 THEN Len(s) ELSE sep - 1
  BY DEF TokenEnd, SelectInSubSeq
<1>5. Len(s) \in Nat OBVIOUS
<1> HIDE DEF b, e
<1>6. b \in 1..Len(s) /\ s[b] # Comma BY <1>3
<1>7. \A j \in 1..(b - 1) : s[j] = Comma
  <2> SUFFICES ASSUME NEW j \in 1..(b - 1), s[j] # Comma PROVE FALSE OBVIOUS
  <2>1. j \in I BY <1>5, <1>6
  <2>2. b <= j BY <1>3, <2>1
  <2>q. QED BY <1>6, <2>2
<1>8. e \in b..Len(s) /\ (\A j \in b..e : s[j] # Comma) /\ (e = Len(s) \/ s[e + 1] = Comma)
  <2>1. CASE K = {}
    <3>1. e = Len(s) BY <1>4, <2>1
    <3>2. \A j \in b..Len(s) : s[j] # Comma BY <2>1
    <3>q. QED BY <1>5, <1>6, <3>1, <3>2
  <2>2. CASE K # {}
    <3>1. K \in SUBSET Nat /\ K \subseteq b..Len(s) BY <1>6
    <3>2. sep \in K /\ \A y \in K : sep <= y
      <4> HIDE DEF K
      <4>q. QED BY <2>2, <3>1, LeastMatch
    <3> HIDE DEF sep
    <3>3. sep \in b..Len(s) /\ s[sep] = Comma BY <3>2
    <3>4. sep # b /\ sep > b BY <1>6, <3>3
    <3>5. e = sep - 1 /\ e + 1 = sep BY <1>4, <1>6, <3>3
    <3>6. \A j \in b..e : s[j] # Comma
      <4> SUFFICES ASSUME NEW j \in b..e, s[j] = Comma PROVE FALSE OBVIOUS
      <4>1. j \in K BY <1>5, <1>6, <3>3, <3>5
      <4>2. sep <= j BY <3>2, <4>1
      <4>q. QED BY <1>6, <3>3, <3>5, <4>2
    <3>7. e \in b..Len(s) BY <1>5, <1>6, <3>3, <3>4, <3>5
    <3>q. QED BY <3>3, <3>5, <3>6, <3>7
  <2>q. QED BY <2>1, <2>2
<1>q. QED BY <1>6, <1>7, <1>8 DEF b, e

LEMMA ConcatLength ==
  ASSUME NEW A, NEW x \in Seq(A), NEW y \in Seq(A)
  PROVE  x \o y \in Seq(A) /\ Len(x \o y) = Len(x) + Len(y)
OBVIOUS

(* A part of a string. *)
LEMMA Part ==
  ASSUME NEW s \in Seq(Chars), NEW b \in Nat, NEW e \in Nat, 1 <= b, b <= e + 1, e <= Len(s)
  PROVE  /\ SubSeq(s, b, e) \in Seq(Chars) /\ Len(SubSeq(s, b, e)) = e + 1 - b
         /\ \A i \in 1..(e + 1 - b) : SubSeq(s, b, e)[i] = s[b + i - 1]
<1>1. \A i \in b..e : s[i] \in Chars OBVIOUS
<1>2. /\ SubSeq(s, b, e) \in Seq(Chars)
      /\ Len(SubSeq(s, b, e)) = IF b <= e THEN e - b + 1 ELSE 0
      /\ \A i \in 1..(e - b + 1) : SubSeq(s, b, e)[i] = s[b + i - 1]
  BY <1>1, SubSeqProperties
<1>3. (IF b <= e THEN e - b + 1 ELSE 0) = e + 1 - b /\ e - b + 1 = e + 1 - b OBVIOUS
<1>q. QED BY <1>2, <1>3

(* A call of strtok_r returns the first field and leaves the others.       *)
LEMMA TokenIsField ==
  ASSUME NEW s \in Seq(Chars), TokenStart(s) # 0
  PROVE  /\ Token(s) \in Seq(Chars) /\ AfterToken(s) \in Seq(Chars)
         /\ Token(s) # <<>> /\ \A i \in 1..Len(Token(s)) : Token(s)[i] # Comma
         /\ Fields(s) = << Token(s) >> \o Fields(AfterToken(s))
         /\ \/ Len(Token(s)) + 1 + Len(AfterToken(s)) <= Len(s)
            \/ AfterToken(s) = <<>> /\ Len(Token(s)) <= Len(s)
<1> DEFINE b == TokenStart(s)
           e == TokenEnd(s)
           n == Len(s)
           tok == Token(s)
           aft == AfterToken(s)
           p == SubSeq(s, 1, b - 1)
           u == SubSeq(s, b, n)
<1>1. /\ b \in 1..n /\ e \in b..n /\ n \in Nat
      /\ \A j \in 1..(b - 1) : s[j] = Comma
      /\ \A j \in b..e : s[j] # Comma
      /\ e = n \/ s[e + 1] = Comma
  BY TokenCut
<1>2. tok \in Seq(Chars) /\ aft \in Seq(Chars) BY TokenTypes
<1> HIDE DEF b, e, n
<1>3. tok = SubSeq(s, b, e) /\ aft = SubSeq(s, e + 2, n) BY DEF Token, AfterToken, b, e, n
<1>4. Len(tok) = e + 1 - b /\ \A i \in 1..(e + 1 - b) : tok[i] = s[b + i - 1]
  <2>1. b \in Nat /\ e \in Nat /\ 1 <= b /\ b <= e + 1 /\ e <= n BY <1>1
  <2>2. e <= Len(s) BY <2>1 DEF n
  <2> HIDE DEF tok
  <2>q. QED BY <1>3, <2>1, <2>2, Part
<1>5. p \in Seq(Chars) /\ Len(p) = b - 1 /\ \A i \in 1..(b - 1) : p[i] = s[i]
  <2>1. b - 1 \in Nat /\ 1 <= b - 1 + 1 /\ b - 1 <= n /\ 1 \in Nat /\ b - 1 + 1 - 1 = b - 1 BY <1>1
  <2>2. b - 1 <= Len(s) BY <2>1 DEF n
  <2>3. /\ p \in Seq(Chars) /\ Len(p) = b - 1 + 1 - 1
        /\ \A i \in 1..(b - 1 + 1 - 1) : p[i] = s[1 + i - 1]
    BY <2>1, <2>2, Part
  <2>4. \A i \in 1..(b - 1) : 1 + i - 1 = i BY <1>1
  <2> HIDE DEF p
  <2>q. QED BY <2>1, <2>3, <2>4
<1>6. u \in Seq(Chars) /\ Len(u) = n + 1 - b /\ \A i \in 1..(n + 1 - b) : u[i] = s[b + i - 1]
  <2>1. b \in Nat /\ n \in Nat /\ 1 <= b /\ b <= n + 1 BY <1>1
  <2>2. n <= Len(s) BY <2>1 DEF n
  <2>q. QED BY <2>1, <2>2, Part
<1> HIDE DEF tok, aft, p, u
<1>7. Fields(s) = Fields(u)
  <2>1. \A i \in 1..Len(p) : p[i] = Comma BY <1>1, <1>5
  <2>2. p \o u = s
    <3>1. p \o u \in Seq(Chars) /\ Len(p \o u) = n
      <4>1. p \o u \in Seq(Chars) /\ Len(p \o u) = Len(p) + Len(u) BY <1>5, <1>6, ConcatLength
      <4>2. Len(p) + Len(u) = n BY <1>1, <1>5, <1>6
      <4>q. QED BY <4>1, <4>2
    <3>2. ASSUME NEW i \in 1..n PROVE (p \o u)[i] = s[i]
      <4>1. CASE i \in 1..(b - 1)
        <5>1. (p \o u)[i] = p[i] BY <1>1, <1>5, <1>6, <4>1
        <5>q. QED BY <1>5, <4>1, <5>1
      <4>2. CASE i \notin 1..(b - 1)
        <5>1. PICK k \in 1..(n + 1 - b) : i = b - 1 + k /\ b + k - 1 = i
          <6>1. i - (b - 1) \in 1..(n + 1 - b) /\ i = b - 1 + (i - (b - 1))
                /\ b + (i - (b - 1)) - 1 = i
            BY <1>1, <4>2
          <6>q. QED BY <6>1
        <5>2. (p \o u)[Len(p) + k] = u[k]
          <6>1. k \in 1..Len(u) BY <1>6
          <6>q. QED BY <1>5, <1>6, <6>1
        <5>3. u[k] = s[b + k - 1] BY <1>6
        <5>q. QED BY <1>5, <5>1, <5>2, <5>3
      <4>q. QED BY <4>1, <4>2
    <3>3. n = Len(s) BY DEF n
    <3>q. QED BY <3>1, <3>2, <3>3, SeqEqual
  <2>3. Fields(p \o u) = Fields(u) BY <1>5, <1>6, <2>1, FieldsBehindCommas
  <2>q. QED BY <2>2, <2>3
<1>8. tok # <<>> /\ \A i \in 1..Len(tok) : tok[i] # Comma
  <2>1. Len(tok) # 0 BY <1>1, <1>4
  <2>2. ASSUME NEW i \in 1..Len(tok) PROVE tok[i] # Comma
    <3>1. b + i - 1 \in b..e BY <1>1, <1>4
    <3>q. QED BY <1>1, <1>4, <3>1
  <2>q. QED BY <2>1, <2>2
<1>9. Fields(tok) = << tok >> BY <1>2, <1>8, FieldsPlain
<1>10. CASE e = n
  <2>1. u = tok BY <1>3, <1>10 DEF u
  <2>2. aft = <<>>
    <3>1. n < e + 2 /\ e + 2 \in Int /\ n \in Int BY <1>1, <1>10
    <3>q. QED BY <1>3, <3>1, SubSeqEmpty
  <2>3. Fields(s) = << tok >> \o Fields(aft)
    <3>1. << tok >> \o <<>> = << tok >> OBVIOUS
    <3>q. QED BY <1>7, <1>9, <2>1, <2>2, <3>1, FieldsGrow
  <2>4. Len(tok) <= n BY <1>1, <1>4
  <2>q. QED BY <1>2, <1>8, <2>2, <2>3, <2>4 DEF tok, aft, n
<1>11. CASE e # n
  <2>1. e + 1 \in b..n /\ s[e + 1] = Comma BY <1>1, <1>11
  <2>2. Len(aft) = n - e - 1 /\ \A i \in 1..(n - e - 1) : aft[i] = s[e + 1 + i]
    <3>1. e + 2 \in Nat /\ n \in Nat /\ 1 <= e + 2 /\ e + 2 <= n + 1 BY <1>1, <2>1
    <3>2. n <= Len(s) BY <3>1 DEF n
    <3>3. Len(aft) = n + 1 - (e + 2) /\ \A i \in 1..(n + 1 - (e + 2)) : aft[i] = s[e + 2 + i - 1]
      BY <1>3, <3>1, <3>2, Part
    <3>4. n + 1 - (e + 2) = n - e - 1 BY <3>1, <1>1
    <3>5. ASSUME NEW i \in 1..(n - e - 1) PROVE aft[i] = s[e + 1 + i]
      <4>1. PICK k : k = e + 2 + i - 1 /\ k = e + 1 + i
        <5>1. i \in Int /\ e \in Int BY <1>1
        <5>2. e + 2 + i - 1 = e + 1 + i BY <5>1
        <5>q. QED BY <5>2
      <4>2. aft[i] = s[e + 2 + i - 1] BY <3>3, <3>4
      <4>3. aft[i] = s[k] BY <4>1, <4>2
      <4>q. QED BY <4>1, <4>3
    <3>q. QED BY <3>3, <3>4, <3>5
  <2> DEFINE v == Append(tok, Comma)
  <2>3. v \in Seq(Chars) /\ Len(v) = e + 2 - b /\ v[e + 2 - b] = Comma
        /\ \A i \in 1..(e + 1 - b) : v[i] = tok[i]
    <3>1. Len(v) = Len(tok) + 1 /\ v[Len(tok) + 1] = Comma /\ v \in Seq(Chars)
          /\ \A i \in 1..Len(tok) : v[i] = tok[i]
      BY <1>2, CharsAssumption
    <3>2. Len(tok) + 1 = e + 2 - b BY <1>1, <1>4
    <3> HIDE DEF v
    <3>q. QED BY <1>4, <3>1, <3>2
  <2> HIDE DEF v
  <2>4. v \o aft = u
    <3>1. v \o aft \in Seq(Chars) /\ Len(v \o aft) = n + 1 - b
      <4>1. v \o aft \in Seq(Chars) /\ Len(v \o aft) = Len(v) + Len(aft) BY <1>2, <2>3, ConcatLength
      <4>2. Len(v) + Len(aft) = n + 1 - b BY <1>1, <2>1, <2>2, <2>3
      <4>q. QED BY <4>1, <4>2
    <3>2. ASSUME NEW i \in 1..(n + 1 - b) PROVE (v \o aft)[i] = s[b + i - 1]
      <4>1. CASE i \in 1..(e + 1 - b)
        <5>1. i \in 1..Len(v) BY <1>1, <2>3, <4>1
        <5>2. (v \o aft)[i] = v[i] BY <1>2, <2>3, <5>1
        <5>q. QED BY <1>4, <2>3, <4>1, <5>2
      <4>2. CASE i = e + 2 - b
        <5>1. i \in 1..Len(v) /\ b + i - 1 = e + 1 BY <1>1, <2>3, <4>2
        <5>2. (v \o aft)[i] = v[i] BY <1>2, <2>3, <5>1
        <5>q. QED BY <2>1, <2>3, <4>2, <5>1, <5>2
      <4>3. CASE i > e + 2 - b
        <5>1. PICK k \in 1..(n - e - 1) : i = e + 2 - b + k /\ e + 1 + k = b + i - 1
          <6>1. i - (e + 2 - b) \in 1..(n - e - 1) /\ i = e + 2 - b + (i - (e + 2 - b))
                /\ e + 1 + (i - (e + 2 - b)) = b + i - 1
            BY <1>1, <2>1, <4>3
          <6>q. QED BY <6>1
        <5>2. (v \o aft)[Len(v) + k] = aft[k]
          <6>1. k \in 1..Len(aft) BY <2>2
          <6>q. QED BY <1>2, <2>3, <6>1
        <5>3. aft[k] = s[e + 1 + k] BY <2>2
        <5>q. QED BY <2>3, <5>1, <5>2, <5>3
      <4>4. i \in 1..(e + 1 - b) \/ i = e + 2 - b \/ i > e + 2 - b BY <1>1
      <4>q. QED BY <4>1, <4>2, <4>3, <4>4
    <3>3. \A i \in 1..(n + 1 - b) : (v \o aft)[i] = u[i] BY <1>6, <3>2
    <3> DEFINE x == v \o aft
    <3>4. x \in Seq(Chars) /\ Len(x) = Len(u) /\ \A i \in 1..Len(x) : x[i] = u[i]
      BY <1>6, <3>1, <3>3
    <3> HIDE DEF x
    <3>5. x = u BY <1>6, <3>4, SeqEqual
    <3>q. QED BY <3>5 DEF x
  <2>5. Fields(v \o aft) = Fields(tok) \o Fields(aft) BY <1>2, FieldsJoined DEF v
  <2>6. Fields(s) = << tok >> \o Fields(aft) BY <1>7, <1>9, <2>4, <2>5
  <2>7. Len(tok) + 1 + Len(aft) <= n BY <1>1, <1>4, <2>2
  <2>q. QED BY <1>2, <1>8, <2>6, <2>7 DEF tok, aft, n
<1>q. QED BY <1>10, <1>11

-----------------------------------------------------------------------------
(* The fields and the length that are on their way. *)

(* The fields of the first n parameters. *)
FieldsOf(n) == FlattenSeq([i \in 1..n |-> Fields(input[i])])

(* The bytes that the first n strings of a list take, each with one more   *)
(* behind it.                                                              *)
Weight(list, n) == Len(FlattenSeq([i \in 1..n |-> Append(list[i], Comma)]))

(* After a comma, and before the first parameter. *)
Separated ==
  IF current = 1 THEN buf = <<>>
  ELSE \E b \in Seq(Chars) : buf = Append(b, Comma) /\ Fields(b) = FieldsOf(current - 1)

(* No field is lost, cut or made up between the list and the tokens, as    *)
(* long as the counter does not wrap and no heap bytes come in.            *)
FieldsInv ==
  /\ pc = "turn" => Fields(buf) = FieldsOf(current - 1)
  /\ pc \in {"grow", "copy"} => Separated
  /\ pc = "send" => Fields(buf) = FieldsOf(Len(input))
  /\ pc = "arrived" => IF size = 0 THEN FieldsOf(Len(input)) = <<>>
                       ELSE Fields(CString(wire)) = FieldsOf(Len(input))
  /\ pc = "tokens" => out \o Fields(rest) = FieldsOf(Len(input))
  /\ pc = "done" => out = FieldsOf(Len(input))

(* What is taken off the wire never holds a comma and is never empty.      *)
TokenInv ==
  /\ pc \notin {"tokens", "done"} => out = <<>>
  /\ \A i \in 1..Len(out) : out[i] # <<>> /\ \A j \in 1..Len(out[i]) : out[i][j] # Comma

(* A comma is left out where the counter wraps, so that a list beyond it   *)
(* leaves a string too short for its parameters and the commas between     *)
(* them, and no later comma makes up for it, unless heap bytes come in.    *)
WeightInv ==
  /\ pc \in Looping /\ current <= CountModulus => count = current - 1
  /\ pc \in {"turn", "grow"} /\ current = CountModulus + 1 => count = 0
  /\ pc = "turn" => /\ current > 1 => Len(buf) + 1 <= Weight(input, current - 1)
                    /\ current > CountModulus + 1 => Len(buf) + 2 <= Weight(input, current - 1)
  /\ pc \in {"grow", "copy"} =>
       /\ current > 1 => Len(buf) <= Weight(input, current - 1)
       /\ current > CountModulus => Len(buf) + 1 <= Weight(input, current - 1)
  /\ pc \in {"send", "arrived", "tokens", "done"} /\ Len(input) > CountModulus =>
       Len(buf) + 2 <= Weight(input, Len(input))
  /\ pc = "arrived" => Len(CString(wire)) <= Len(buf)
  /\ pc = "tokens" => Weight(out, Len(out)) + Len(rest) <= Len(buf) + (IF rest = <<>> THEN 1 ELSE 0)
  /\ pc = "done" => Weight(out, Len(out)) <= Len(buf) + 1

LEMMA FieldsOfMore ==
  ASSUME SenderTypes
  PROVE  /\ FieldsOf(0) = <<>>
         /\ \A n \in 0..Len(input) : FieldsOf(n) \in Seq(Seq(Chars))
         /\ \A n \in 0..(Len(input) - 1) : FieldsOf(n + 1) = FieldsOf(n) \o Fields(input[n + 1])
<1>1. FieldsOf(0) = <<>>
  <2> DEFINE s == [i \in 1..0 |-> Fields(input[i])]
  <2>1. s = <<>> /\ Len(s) = 0 OBVIOUS
  <2> HIDE DEF s
  <2>2. FlattenSeq(s) = <<>> BY <2>1, FlattenedNone
  <2>q. QED BY <2>2 DEF FieldsOf, s
<1>2. Len(input) \in Nat /\ \A i \in 1..Len(input) : Fields(input[i]) \in Seq(Seq(Chars))
  BY InputLists, FieldsType
<1>3. ASSUME NEW n \in 0..(Len(input) - 1)
      PROVE  FieldsOf(n + 1) = FieldsOf(n) \o Fields(input[n + 1]) /\ FieldsOf(n) \in Seq(Seq(Chars))
  <2> DEFINE s == [i \in 1..(n + 1) |-> Fields(input[i])]
  <2>1. n \in Nat /\ \A i \in 1..(n + 1) : Fields(input[i]) \in Seq(Seq(Chars)) BY <1>2
  <2>2. s \in [1..(n + 1) -> Seq(Seq(Chars))] BY <2>1
  <2>3. [i \in 1..n |-> s[i]] = [i \in 1..n |-> Fields(input[i])] /\ s[n + 1] = Fields(input[n + 1])
    BY <2>1
  <2>4. FieldsOf(n + 1) = FlattenSeq(s) BY DEF FieldsOf
  <2>5. FieldsOf(n) = FlattenSeq([i \in 1..n |-> s[i]]) BY <2>3 DEF FieldsOf
  <2> HIDE DEF s
  <2>6. /\ FlattenSeq(s) = FlattenSeq([i \in 1..n |-> s[i]]) \o s[n + 1]
        /\ FlattenSeq([i \in 1..n |-> s[i]]) \in Seq(Seq(Chars))
    BY <2>1, <2>2, FlattenedMore
  <2>q. QED BY <2>3, <2>4, <2>5, <2>6
<1>4. ASSUME NEW n \in 0..Len(input) PROVE FieldsOf(n) \in Seq(Seq(Chars))
  <2>1. CASE n = 0
    <3>1. <<>> \in Seq(Seq(Chars)) OBVIOUS
    <3>q. QED BY <1>1, <2>1, <3>1
  <2>2. CASE n # 0
    <3>1. PICK k \in 0..(Len(input) - 1) : n = k + 1
      <4>1. n - 1 \in 0..(Len(input) - 1) /\ n = n - 1 + 1 BY <1>2, <2>2
      <4>q. QED BY <4>1
    <3>2. FieldsOf(k) \in Seq(Seq(Chars)) /\ Fields(input[k + 1]) \in Seq(Seq(Chars))
      BY <1>2, <1>3
    <3>3. FieldsOf(k) \o Fields(input[k + 1]) \in Seq(Seq(Chars)) BY <3>2, ConcatLength
    <3>q. QED BY <1>3, <3>1, <3>3
  <2>q. QED BY <2>1, <2>2
<1>q. QED BY <1>1, <1>3, <1>4

LEMMA WeightMore ==
  ASSUME NEW list \in Seq(Seq(Chars))
  PROVE  /\ Weight(list, 0) = 0
         /\ \A n \in 0..(Len(list) - 1) :
              Weight(list, n) \in Nat /\ Weight(list, n + 1) = Weight(list, n) + Len(list[n + 1]) + 1
<1>1. Weight(list, 0) = 0
  <2> DEFINE s == [i \in 1..0 |-> Append(list[i], Comma)]
  <2>1. s = <<>> /\ Len(s) = 0 OBVIOUS
  <2> HIDE DEF s
  <2>2. FlattenSeq(s) = <<>> BY <2>1, FlattenedNone
  <2>3. Len(FlattenSeq(s)) = 0 BY <2>2
  <2>q. QED BY <2>3 DEF Weight, s
<1>2. ASSUME NEW n \in 0..(Len(list) - 1)
      PROVE  Weight(list, n) \in Nat /\ Weight(list, n + 1) = Weight(list, n) + Len(list[n + 1]) + 1
  <2> DEFINE s == [i \in 1..(n + 1) |-> Append(list[i], Comma)]
  <2>1. n \in Nat /\ \A i \in 1..(n + 1) : list[i] \in Seq(Chars) OBVIOUS
  <2>2. \A i \in 1..(n + 1) : Append(list[i], Comma) \in Seq(Chars) BY <2>1, CharsAssumption
  <2>3. s \in [1..(n + 1) -> Seq(Chars)] BY <2>2
  <2>4. [i \in 1..n |-> s[i]] = [i \in 1..n |-> Append(list[i], Comma)]
        /\ s[n + 1] = Append(list[n + 1], Comma)
    BY <2>1
  <2>5. Weight(list, n + 1) = Len(FlattenSeq(s)) BY DEF Weight
  <2>6. Weight(list, n) = Len(FlattenSeq([i \in 1..n |-> s[i]])) BY <2>4 DEF Weight
  <2> HIDE DEF s
  <2> DEFINE f == FlattenSeq([i \in 1..n |-> s[i]])
  <2>7. FlattenSeq(s) = f \o s[n + 1] /\ f \in Seq(Chars)
    BY <2>1, <2>3, FlattenedMore
  <2>8. s[n + 1] \in Seq(Chars) BY <2>1, <2>3
  <2> HIDE DEF f
  <2>9. Len(f \o s[n + 1]) = Len(f) + Len(s[n + 1]) BY <2>7, <2>8, ConcatLength
  <2>10. Len(s[n + 1]) = Len(list[n + 1]) + 1 /\ Len(list[n + 1]) \in Nat
    <3>1. list[n + 1] \in Seq(Chars) BY <2>1
    <3>q. QED BY <2>4, <3>1, CharsAssumption
  <2>11. Len(f) \in Nat BY <2>7
  <2>q. QED BY <2>5, <2>6, <2>7, <2>9, <2>10, <2>11 DEF f
<1>q. QED BY <1>1, <1>2

(* The C string in what send_packet sends of a buffer: all of it with its  *)
(* NUL, no more without.                                                   *)
LEMMA WholeString ==
  ASSUME NEW s \in Seq(Chars)
  PROVE  CString(Append(s, NUL)) = s
<1> DEFINE t == Append(s, NUL)
           n == Len(s)
<1>1. n \in Nat /\ Len(t) = n + 1 /\ t[n + 1] = NUL /\ \A i \in 1..n : t[i] = s[i] OBVIOUS
<1>2. \A i \in 1..n : s[i] # NUL BY CharsAssumption
<1>3. SubSeq(t, 1, n) = s OBVIOUS
<1> HIDE DEF t, n
<1>4. FirstNul(t) \in 1..(Len(t) + 1) /\ (FirstNul(t) = Len(t) + 1 \/ t[FirstNul(t)] = NUL)
      /\ \A j \in 1..(FirstNul(t) - 1) : t[j] # NUL
  <2>1. PICK m \in 1..(Len(t) + 1) :
          /\ m = Len(t) + 1 \/ t[m] = NUL
          /\ \A j \in 1..(m - 1) : t[j] # NUL
    <3>1. n + 1 \in 1..(Len(t) + 1) /\ n + 1 - 1 = n /\ \A j \in 1..n : t[j] # NUL BY <1>1, <1>2
    <3>q. QED BY <1>1, <3>1
  <2>q. QED BY <2>1 DEF FirstNul
<1>5. FirstNul(t) = n + 1
  <2>1. CASE FirstNul(t) < n + 1
    <3>1. FirstNul(t) \in 1..n /\ FirstNul(t) # Len(t) + 1 BY <1>1, <1>4, <2>1
    <3>q. QED BY <1>1, <1>2, <1>4, <3>1
  <2>2. CASE FirstNul(t) > n + 1
    <3>1. n + 1 \in 1..(FirstNul(t) - 1) BY <1>1, <1>4, <2>2
    <3>q. QED BY <1>1, <1>4, <3>1
  <2>q. QED BY <1>1, <1>4, <2>1, <2>2
<1>6. FirstNul(t) - 1 = n BY <1>1, <1>5
<1>q. QED BY <1>3, <1>6 DEF CString, t

LEMMA NoLonger ==
  ASSUME NEW s \in Seq(Chars), NEW k \in Nat, k <= Len(s) + 1
  PROVE  Len(CString(SubSeq(Append(s, NUL), 1, k))) <= Len(s)
<1> DEFINE t == Append(s, NUL)
           w == SubSeq(t, 1, k)
<1>1. t \in Seq(Chars \cup {NUL}) /\ Len(t) = Len(s) + 1 /\ Len(s) \in Nat OBVIOUS
<1>2. CASE k = Len(s) + 1
  <2>1. w = t BY <1>2
  <2>2. CString(w) = s BY <2>1, WholeString DEF t
  <2>q. QED BY <1>1, <2>2 DEF w, t
<1>3. CASE k <= Len(s)
  <2>1. w \in Seq(Chars \cup {NUL}) /\ Len(w) = k BY <1>1
  <2> HIDE DEF w
  <2>2. CString(w) \in Seq(Chars) BY <2>1, FirstNulType
  <2>3. FirstNul(w) \in 1..(k + 1) BY <2>1, FirstNulRange
  <2>4. Len(CString(w)) = FirstNul(w) - 1
    <3>1. FirstNul(w) - 1 \in 0..k BY <2>3
    <3>q. QED BY <2>1, <3>1 DEF CString
  <2>q. QED BY <1>1, <1>3, <2>3, <2>4 DEF w, t
<1>q. QED BY <1>1, <1>2, <1>3

LEMMA OneInFront ==
  ASSUME NEW u \in Seq(Seq(Chars)), NEW v \in Seq(Seq(Chars)), NEW t \in Seq(Chars)
  PROVE  u \o (<< t >> \o v) = Append(u, t) \o v
<1>1. << t >> \in Seq(Seq(Chars)) OBVIOUS
<1>2. Append(u, t) = u \o << t >> OBVIOUS
<1>3. u \o (<< t >> \o v) = (u \o << t >>) \o v BY <1>1, ConcatAssociative
<1>q. QED BY <1>2, <1>3

LEMMA WeightNat ==
  ASSUME NEW list \in Seq(Seq(Chars))
  PROVE  Weight(list, Len(list)) \in Nat
<1>1. Len(list) \in Nat /\ \A i \in 1..Len(list) : Len(list[i]) \in Nat OBVIOUS
<1>2. CASE Len(list) = 0
  <2>1. Weight(list, 0) = 0 BY WeightMore
  <2>q. QED BY <1>2, <2>1
<1>3. CASE Len(list) # 0
  <2>1. PICK k \in 0..(Len(list) - 1) : k + 1 = Len(list)
    <3>1. Len(list) - 1 \in 0..(Len(list) - 1) /\ Len(list) - 1 + 1 = Len(list) BY <1>1, <1>3
    <3>q. QED BY <3>1
  <2>2. Weight(list, k) \in Nat /\ Weight(list, k + 1) = Weight(list, k) + Len(list[k + 1]) + 1
    BY WeightMore
  <2>3. Len(list[k + 1]) \in Nat BY <1>1, <2>1
  <2>q. QED BY <2>1, <2>2, <2>3
<1>q. QED BY <1>2, <1>3

LEMMA WeightAppended ==
  ASSUME NEW list \in Seq(Seq(Chars)), NEW t \in Seq(Chars)
  PROVE  /\ Weight(list, Len(list)) \in Nat
         /\ Weight(Append(list, t), Len(Append(list, t))) = Weight(list, Len(list)) + Len(t) + 1
<1> DEFINE l == Append(list, t)
           n == Len(list)
<1>1. /\ l \in Seq(Seq(Chars)) /\ Len(l) = n + 1 /\ l[n + 1] = t /\ n \in Nat
      /\ \A i \in 1..n : l[i] = list[i]
  OBVIOUS
<1> HIDE DEF l, n
<1>2. n \in 0..(Len(l) - 1) BY <1>1
<1>3. Weight(l, n + 1) = Weight(l, n) + Len(l[n + 1]) + 1 BY <1>1, <1>2, WeightMore
<1>4. Weight(l, n) = Weight(list, n)
  <2>1. [i \in 1..n |-> Append(l[i], Comma)] = [i \in 1..n |-> Append(list[i], Comma)] BY <1>1
  <2>q. QED BY <2>1 DEF Weight
<1>q. QED BY <1>1, <1>3, <1>4, WeightNat DEF l, n

LEMMA TokenInit == Init => TokenInv
<1>1. <<>> \in Seq(Seq(Chars)) /\ Len(<<>>) = 0 OBVIOUS
<1>q. QED BY <1>1 DEF Init, TokenInv

LEMMA TokenStep == ReceiverTypes /\ TokenInv /\ [Next]_vars => TokenInv'
<1> SUFFICES ASSUME ReceiverTypes, TokenInv, [Next]_vars PROVE TokenInv'
  OBVIOUS
<1> DEFINE Tok(o) == \A i \in 1..Len(o) : o[i] # <<>> /\ \A j \in 1..Len(o[i]) : o[i][j] # Comma
<1>a. Tok(out) /\ (pc \notin {"tokens", "done"} => out = <<>>) /\ out \in Seq(Seq(Chars))
  BY DEF TokenInv, ReceiverTypes
<1>b. SUFFICES Tok(out') /\ (pc' \notin {"tokens", "done"} => out' = <<>>)
  BY DEF TokenInv
<1>1. CASE NextToken
  <2>1. CASE TokenStart(rest) = 0
    <3>1. out' = out /\ pc' = "done" BY <1>1, <2>1 DEF NextToken
    <3> HIDE DEF Tok
    <3>q. QED BY <1>a, <3>1
  <2>2. CASE TokenStart(rest) # 0
    <3> DEFINE t == Token(rest)
    <3>1. pc' = "tokens" /\ out' = Append(out, t) BY <1>1, <2>2 DEF NextToken
    <3>2. t \in Seq(Chars) /\ t # <<>> /\ \A i \in 1..Len(t) : t[i] # Comma
      BY <2>2, TokenIsField DEF ReceiverTypes
    <3> HIDE DEF t
    <3>3. /\ Len(Append(out, t)) = Len(out) + 1 /\ Append(out, t)[Len(out) + 1] = t
          /\ \A i \in 1..Len(out) : Append(out, t)[i] = out[i]
      BY <1>a, <3>2
    <3>4. ASSUME NEW i \in 1..Len(out')
          PROVE  out'[i] # <<>> /\ \A j \in 1..Len(out'[i]) : out'[i][j] # Comma
      <4>1. CASE i = Len(out) + 1 BY <3>1, <3>2, <3>3, <4>1
      <4>2. CASE i # Len(out) + 1
        <5>1. i \in 1..Len(out) BY <1>a, <3>1, <3>3, <4>2
        <5>2. out'[i] = out[i] BY <3>1, <3>3, <5>1
        <5>q. QED BY <1>a, <5>1, <5>2
      <4>q. QED BY <4>1, <4>2
    <3>q. QED BY <3>1, <3>4
  <2>q. QED BY <2>1, <2>2
<1>2. CASE \/ Allocate \/ Separate \/ Grow \/ CopyParameter \/ AllocatorAborts \/ Send \/ Receive
           \/ UNCHANGED vars
  <2>1. out' = out
    BY <1>2 DEF Allocate, Separate, Grow, CopyParameter, AllocatorAborts, Send, Receive, vars, receiverVars
  <2>2. pc' \notin {"tokens", "done"} => pc \notin {"tokens", "done"}
    BY <1>2 DEF Allocate, Separate, Grow, CopyParameter, AllocatorAborts, Send, Receive, vars
  <2> HIDE DEF Tok
  <2>q. QED BY <1>a, <2>1, <2>2
<1>q. QED BY <1>1, <1>2 DEF Next

LEMMA FieldsStep ==
  ASSUME SenderInv, ReceiverTypes, TokenInv, FieldsInv, Len(input) <= CountModulus, [Next]_vars,
         stray' = 0
  PROVE  FieldsInv'
<1> USE DEF Looping
<1>a. SenderTypes /\ Turns /\ Unwrapped /\ Written BY DEF SenderInv
<1>b. /\ Len(input) \in Nat /\ buf \in Seq(Chars)
      /\ \A i \in 1..Len(input) : input[i] \in Seq(Chars) /\ Len(input[i]) \in Nat
      /\ input \in Seq(Seq(Chars)) /\ current \in Nat \ {0}
  BY <1>a, InputLists DEF SenderTypes
<1>c. input' = input
  BY DEF Next, Allocate, Separate, Grow, CopyParameter, AllocatorAborts, Send, Receive, NextToken, vars
<1>d. \A n : FieldsOf(n)' = FieldsOf(n) BY <1>c DEF FieldsOf
<1>e. /\ FieldsOf(0) = <<>>
      /\ \A n \in 0..Len(input) : FieldsOf(n) \in Seq(Seq(Chars))
      /\ \A n \in 0..(Len(input) - 1) : FieldsOf(n + 1) = FieldsOf(n) \o Fields(input[n + 1])
  BY <1>a, FieldsOfMore
<1>s. stray = 0 /\ alloc = size /\ size \in Nat
  BY <1>a, StrayStays DEF SenderTypes, Turns
<1>f. Fields(<<>>) = <<>> BY FieldsGrow
<1>1. CASE Allocate
  <2>1. pc = "start" /\ current' = current /\ buf' = buf /\ current = 1 /\ buf = <<>>
    BY <1>1, <1>a DEF Allocate, Turns
  <2>2. CASE input = <<>>
    <3>1. pc' = "send" /\ Len(input) = 0 BY <1>1, <2>2 DEF Allocate
    <3>2. Fields(buf') = FieldsOf(Len(input')) BY <1>c, <1>e, <1>f, <2>1, <3>1
    <3>3. Fields(buf)' = FieldsOf(Len(input))' BY <1>c, <1>d, <3>2
    <3>q. QED BY <3>1, <3>3 DEF FieldsInv
  <2>3. CASE input # <<>>
    <3>1. pc' = "turn" BY <1>1, <2>3 DEF Allocate
    <3>2. current' - 1 = 0 BY <2>1
    <3>3. Fields(buf') = FieldsOf(current' - 1) BY <1>e, <1>f, <2>1, <3>2
    <3>4. (Fields(buf) = FieldsOf(current - 1))' BY <1>d, <3>3
    <3>q. QED BY <3>1, <3>4 DEF FieldsInv
  <2>q. QED BY <2>2, <2>3
<1>2. CASE Separate
  <2>0. pc = "turn" /\ current' = current BY <1>2 DEF Separate
  <2>1. CASE count # 0
    <3>1. pc' = "grow" /\ buf' = buf \o <<Comma>> BY <1>2, <2>1 DEF Separate, Strcat
    <3>2. current > 1 BY <1>a, <2>0, <2>1 DEF Turns, SenderTypes
    <3>3. buf' = Append(buf, Comma)
      <4>1. buf \o <<Comma>> = Append(buf, Comma) BY <1>b, CharsAssumption
      <4>q. QED BY <3>1, <4>1
    <3>4. Fields(buf) = FieldsOf(current - 1) BY <2>0 DEF FieldsInv
    <3>5. /\ current' # 1
          /\ buf \in Seq(Chars) /\ buf' = Append(buf, Comma) /\ Fields(buf) = FieldsOf(current' - 1)
      BY <1>b, <2>0, <3>2, <3>3, <3>4
    <3>6. Separated' BY <1>d, <3>5 DEF Separated
    <3>q. QED BY <3>1, <3>6 DEF FieldsInv
  <2>2. CASE count = 0
    <3>1. pc' = "copy" /\ buf' = buf BY <1>2, <2>2 DEF Separate
    <3>2. current = 1 BY <1>a, <1>b, <2>0, <2>2 DEF Unwrapped
    <3>3. buf = <<>> BY <1>a, <2>0, <3>2 DEF Turns
    <3>4. Separated' BY <2>0, <3>1, <3>2, <3>3 DEF Separated
    <3>q. QED BY <3>1, <3>4 DEF FieldsInv
  <2>q. QED BY <2>1, <2>2
<1>3. CASE Grow
  <2>0. pc = "grow" /\ pc' = "copy" /\ UNCHANGED <<input, current>> /\ Realloc BY <1>3 DEF Grow
  <2>a. Len(buf) <= alloc
    <3>1. Len(buf) <= size + stray BY <1>a, <2>0 DEF Unwrapped
    <3>q. QED BY <1>s, <1>b, <3>1
  <2>1. pc = "grow" /\ pc' = "copy" /\ UNCHANGED <<input, current, buf>>
    BY <1>a, <2>0, <2>a, StringKept
  <2>2. Separated BY <2>1 DEF FieldsInv
  <2>3. Separated' BY <1>d, <2>1, <2>2 DEF Separated
  <2>q. QED BY <2>1, <2>3 DEF FieldsInv
<1>4. CASE CopyParameter
  <2> DEFINE p == input[current]
  <2>1. pc = "copy" /\ buf' = buf \o p BY <1>4 DEF CopyParameter, Strcat
  <2>2. current \in 1..Len(input) /\ p \in Seq(Chars) BY <1>a, <1>b, <2>1 DEF Turns
  <2>3. PICK k \in 0..(Len(input) - 1) : current = k + 1 /\ k = current - 1
    <3>1. current - 1 \in 0..(Len(input) - 1) /\ current = current - 1 + 1 BY <1>b, <2>2
    <3>q. QED BY <3>1
  <2>4. FieldsOf(current) = FieldsOf(k) \o Fields(p) BY <1>e, <2>3
  <2>5. Separated BY <2>1 DEF FieldsInv
  <2>6. Fields(p) \in Seq(Seq(Chars)) BY <2>2, FieldsType
  <2> HIDE DEF p
  <2>7. Fields(buf') = FieldsOf(current)
    <3>1. CASE current = 1
      <4>1. buf = <<>> /\ k = 0 BY <1>b, <2>3, <2>5, <3>1 DEF Separated
      <4>2. <<>> \o p = p BY <2>2
      <4>3. buf' = p BY <2>1, <4>1, <4>2
      <4>4. FieldsOf(current) = Fields(p)
        <5>1. <<>> \o Fields(p) = Fields(p) BY <2>6
        <5>q. QED BY <1>e, <2>4, <4>1, <5>1
      <4>q. QED BY <4>3, <4>4
    <3>2. CASE current # 1
      <4>1. PICK b \in Seq(Chars) : buf = Append(b, Comma) /\ Fields(b) = FieldsOf(k)
        BY <2>3, <2>5, <3>2 DEF Separated
      <4>2. Fields(Append(b, Comma) \o p) = Fields(b) \o Fields(p) BY <2>2, FieldsJoined
      <4>q. QED BY <2>1, <2>4, <4>1, <4>2
    <3>q. QED BY <3>1, <3>2
  <2>8. CASE current = Len(input)
    <3>1. pc' = "send" BY <1>4, <2>8 DEF CopyParameter
    <3>2. (Fields(buf) = FieldsOf(Len(input)))' BY <1>c, <1>d, <2>7, <2>8
    <3>q. QED BY <3>1, <3>2 DEF FieldsInv
  <2>9. CASE current # Len(input)
    <3>1. pc' = "turn" /\ current' = current + 1 BY <1>4, <2>9 DEF CopyParameter
    <3>2. current' - 1 = current BY <1>b, <3>1
    <3>3. (Fields(buf) = FieldsOf(current - 1))' BY <1>d, <2>7, <3>2
    <3>q. QED BY <3>1, <3>3 DEF FieldsInv
  <2>q. QED BY <2>8, <2>9
<1>5. CASE AllocatorAborts
  <2>1. pc' = "aborted" BY <1>5 DEF AllocatorAborts
  <2>q. QED BY <2>1 DEF FieldsInv
<1>6. CASE Send
  <2>1. /\ pc = "send" /\ pc' = "arrived" /\ size' = size
        /\ wire' = SubSeq(Append(buf, NUL), 1, size)
    BY <1>6 DEF Send
  <2>2. Fields(buf) = FieldsOf(Len(input)) BY <2>1 DEF FieldsInv
  <2>3. CASE input = <<>>
    <3>1. size = 0 /\ Len(input) = 0 BY <1>a, <2>1, <2>3 DEF Turns
    <3>2. FieldsOf(Len(input)) = <<>> BY <1>e, <3>1
    <3>3. (size = 0 /\ FieldsOf(Len(input)) = <<>>)' BY <1>c, <1>d, <2>1, <3>1, <3>2
    <3>q. QED BY <2>1, <3>3 DEF FieldsInv
  <2>4. CASE input # <<>>
    <3>1. size = Len(buf) + 1 /\ size # 0
      <4>1. size <= Len(buf) + 1 /\ Len(buf) + 1 <= size + stray
        BY <1>a, <2>1, <2>4 DEF Unwrapped, Written
      <4>q. QED BY <1>b, <1>s, <4>1
    <3>2. wire' = Append(buf, NUL)
      <4>1. SubSeq(Append(buf, NUL), 1, Len(buf) + 1) = Append(buf, NUL)
        <5>1. Append(buf, NUL) \in Seq(Chars \cup {NUL}) /\ Len(Append(buf, NUL)) = Len(buf) + 1 BY <1>b
        <5>q. QED BY <5>1
      <4>q. QED BY <2>1, <3>1, <4>1
    <3>3. CString(wire') = buf BY <1>b, <3>2, WholeString
    <3>4. (size # 0 /\ Fields(CString(wire)) = FieldsOf(Len(input)))'
      BY <1>c, <1>d, <2>1, <2>2, <3>1, <3>3
    <3>q. QED BY <2>1, <3>4 DEF FieldsInv
  <2>q. QED BY <2>3, <2>4
<1>7. CASE Receive
  <2>1. pc = "arrived" /\ wire' = wire /\ out' = out /\ size' = size BY <1>7 DEF Receive
  <2>2. out = <<>> BY <2>1 DEF TokenInv
  <2>3. IF size = 0 THEN FieldsOf(Len(input)) = <<>>
        ELSE Fields(CString(wire)) = FieldsOf(Len(input))
    BY <2>1 DEF FieldsInv
  <2>4. CASE size = 0 \/ CString(wire) = <<>>
    <3>1. pc' = "done" BY <1>7, <2>4 DEF Receive
    <3>2. FieldsOf(Len(input)) = <<>> BY <1>f, <2>3, <2>4
    <3>3. (out = FieldsOf(Len(input)))' BY <1>c, <1>d, <2>1, <2>2, <3>2
    <3>q. QED BY <3>1, <3>3 DEF FieldsInv
  <2>5. CASE ~(size = 0 \/ CString(wire) = <<>>)
    <3>1. pc' = "tokens" /\ rest' = CString(wire) BY <1>7, <2>5 DEF Receive
    <3>2. Fields(rest') = FieldsOf(Len(input)) BY <2>3, <2>5, <3>1
    <3>3. FieldsOf(Len(input)) \in Seq(Seq(Chars)) BY <1>b, <1>e
    <3>4. <<>> \o Fields(rest') = FieldsOf(Len(input)) BY <3>2, <3>3
    <3>5. (out \o Fields(rest) = FieldsOf(Len(input)))' BY <1>c, <1>d, <2>1, <2>2, <3>4
    <3>q. QED BY <3>1, <3>5 DEF FieldsInv
  <2>q. QED BY <2>4, <2>5
<1>8. CASE NextToken
  <2>1. pc = "tokens" BY <1>8 DEF NextToken
  <2>2. out \o Fields(rest) = FieldsOf(Len(input)) BY <2>1 DEF FieldsInv
  <2>3. out \in Seq(Seq(Chars)) /\ rest \in Seq(Chars) BY DEF ReceiverTypes
  <2>4. CASE TokenStart(rest) = 0
    <3>1. pc' = "done" /\ out' = out BY <1>8, <2>4 DEF NextToken
    <3>2. Fields(rest) = <<>> BY <2>3, <2>4, NoToken, FieldsCommas
    <3>3. out \o <<>> = out BY <2>3
    <3>4. (out = FieldsOf(Len(input)))' BY <1>c, <1>d, <2>2, <3>1, <3>2, <3>3
    <3>q. QED BY <3>1, <3>4 DEF FieldsInv
  <2>5. CASE TokenStart(rest) # 0
    <3> DEFINE t == Token(rest)
               a == AfterToken(rest)
    <3>1. pc' = "tokens" /\ out' = Append(out, t) /\ rest' = a BY <1>8, <2>5 DEF NextToken
    <3>2. t \in Seq(Chars) /\ a \in Seq(Chars) /\ Fields(rest) = << t >> \o Fields(a)
      BY <2>3, <2>5, TokenIsField
    <3>3. Fields(a) \in Seq(Seq(Chars)) BY <3>2, FieldsType
    <3> HIDE DEF t, a
    <3>4. out \o (<< t >> \o Fields(a)) = Append(out, t) \o Fields(a)
      BY <2>3, <3>2, <3>3, OneInFront
    <3>5. (out \o Fields(rest) = FieldsOf(Len(input)))' BY <1>c, <1>d, <2>2, <3>1, <3>2, <3>4
    <3>q. QED BY <3>1, <3>5 DEF FieldsInv
  <2>q. QED BY <2>4, <2>5
<1>9. CASE UNCHANGED vars
  <2>1. UNCHANGED <<input, pc, current, buf, size, wire, rest, out>> BY <1>9 DEF vars
  <2>2. Separated => Separated' BY <1>d, <2>1 DEF Separated
  <2>q. QED BY <1>d, <2>1, <2>2 DEF FieldsInv
<1>q. QED BY <1>1, <1>2, <1>3, <1>4, <1>5, <1>6, <1>7, <1>8, <1>9 DEF Next

LEMMA FieldsInit == Init => FieldsInv
BY DEF Init, FieldsInv

LEMMA WeightInit == Init => WeightInv
BY DEF Init, WeightInv, Looping

LEMMA WeightStep ==
  ASSUME SenderInv, ReceiverTypes, TokenInv, WeightInv, [Next]_vars, stray' = 0
  PROVE  WeightInv'
<1> DEFINE W(n) == Weight(input, n)
           M == CountModulus
           T(o) == Weight(o, Len(o))
<1> USE DEF Looping
<1>a. SenderTypes /\ Turns /\ Written BY DEF SenderInv
<1>b. /\ Len(input) \in Nat /\ buf \in Seq(Chars) /\ Len(buf) \in Nat
      /\ \A i \in 1..Len(input) : input[i] \in Seq(Chars) /\ Len(input[i]) \in Nat
      /\ input \in Seq(Seq(Chars)) /\ current \in Nat \ {0} /\ M \in Nat \ {0}
      /\ count \in Nat /\ size \in Nat
  BY <1>a, InputLists, ModulusAssumption DEF SenderTypes
<1>c. input' = input
  BY DEF Next, Allocate, Separate, Grow, CopyParameter, AllocatorAborts, Send, Receive, NextToken, vars
<1>e. /\ W(0) = 0
      /\ \A n \in 0..(Len(input) - 1) : W(n) \in Nat /\ W(n + 1) = W(n) + Len(input[n + 1]) + 1
  BY <1>b, WeightMore
<1>i. WeightInv =>
        /\ pc \in Looping /\ current <= M => count = current - 1
        /\ pc \in {"turn", "grow"} /\ current = M + 1 => count = 0
        /\ pc = "turn" /\ current > 1 => Len(buf) + 1 <= W(current - 1)
        /\ pc = "turn" /\ current > M + 1 => Len(buf) + 2 <= W(current - 1)
        /\ pc \in {"grow", "copy"} /\ current > 1 => Len(buf) <= W(current - 1)
        /\ pc \in {"grow", "copy"} /\ current > M => Len(buf) + 1 <= W(current - 1)
        /\ pc \in {"send", "arrived", "tokens", "done"} /\ Len(input) > M => Len(buf) + 2 <= W(Len(input))
        /\ pc = "arrived" => Len(CString(wire)) <= Len(buf)
        /\ pc = "tokens" => T(out) + Len(rest) <= Len(buf) + (IF rest = <<>> THEN 1 ELSE 0)
        /\ pc = "done" => T(out) <= Len(buf) + 1
  BY DEF WeightInv
<1>j. SUFFICES
        /\ pc' \in Looping /\ current' <= M => count' = current' - 1
        /\ pc' \in {"turn", "grow"} /\ current' = M + 1 => count' = 0
        /\ pc' = "turn" /\ current' > 1 => Len(buf') + 1 <= W(current' - 1)
        /\ pc' = "turn" /\ current' > M + 1 => Len(buf') + 2 <= W(current' - 1)
        /\ pc' \in {"grow", "copy"} /\ current' > 1 => Len(buf') <= W(current' - 1)
        /\ pc' \in {"grow", "copy"} /\ current' > M => Len(buf') + 1 <= W(current' - 1)
        /\ pc' \in {"send", "arrived", "tokens", "done"} /\ Len(input) > M => Len(buf') + 2 <= W(Len(input))
        /\ pc' = "arrived" => Len(CString(wire')) <= Len(buf')
        /\ pc' = "tokens" => T(out') + Len(rest') <= Len(buf') + (IF rest' = <<>> THEN 1 ELSE 0)
        /\ pc' = "done" => T(out') <= Len(buf') + 1
  BY <1>c DEF WeightInv
<1> HIDE DEF W, T
<1>1. CASE Allocate
  <2>1. /\ pc = "start" /\ current' = current /\ buf' = buf /\ count' = count
        /\ pc' = IF input = <<>> THEN "send" ELSE "turn"
    BY <1>1 DEF Allocate
  <2>2. current = 1 /\ count = 0 BY <1>a, <2>1 DEF Turns
  <2>3. input = <<>> => Len(input) = 0 OBVIOUS
  <2> HIDE DEF M
  <2>q. QED BY <1>b, <2>1, <2>2, <2>3
<1>2. CASE Separate
  <2>0. pc = "turn" /\ current' = current /\ count' = count BY <1>2 DEF Separate
  <2> HIDE DEF M
  <2>1. CASE count # 0
    <3>1. pc' = "grow" /\ buf' = buf \o <<Comma>> BY <1>2, <2>1 DEF Separate, Strcat
    <3>2. Len(buf') = Len(buf) + 1
      <4>1. Len(buf \o <<Comma>>) = Len(buf) + 1 BY <1>b, CharsAssumption
      <4>q. QED BY <3>1, <4>1
    <3>3. current > 1 BY <1>a, <1>b, <2>0, <2>1 DEF Turns
    <3>4. PICK k \in 0..(Len(input) - 1) : k = current - 1
      <4>1. current - 1 \in 0..(Len(input) - 1) BY <1>a, <1>b, <2>0 DEF Turns
      <4>q. QED BY <4>1
    <3>5. W(k) \in Nat BY <1>e
    <3>q. QED BY <1>b, <1>i, <2>0, <2>1, <3>1, <3>2, <3>3, <3>4, <3>5
  <2>2. CASE count = 0
    <3>1. pc' = "copy" /\ buf' = buf BY <1>2, <2>2 DEF Separate
    <3>2. PICK k \in 0..(Len(input) - 1) : k = current - 1
      <4>1. current - 1 \in 0..(Len(input) - 1) BY <1>a, <1>b, <2>0 DEF Turns
      <4>q. QED BY <4>1
    <3>3. W(k) \in Nat BY <1>e
    <3>q. QED BY <1>b, <1>i, <2>0, <2>2, <3>1, <3>2, <3>3
  <2>q. QED BY <2>1, <2>2
<1>3. CASE Grow
  <2>1. pc = "grow" /\ pc' = "copy" /\ UNCHANGED <<current, count>> /\ Realloc BY <1>3 DEF Grow
  <2>2. Len(buf') \in Nat /\ Len(buf') <= Len(buf) BY <1>a, <2>1, StringKept
  <2>3. PICK k \in 0..(Len(input) - 1) : k = current - 1
    <3>1. current - 1 \in 0..(Len(input) - 1) BY <1>a, <1>b, <2>1 DEF Turns
    <3>q. QED BY <3>1
  <2>4. W(k) \in Nat BY <1>e
  <2> HIDE DEF M
  <2>q. QED BY <1>b, <1>i, <2>1, <2>2, <2>3, <2>4
<1>4. CASE CopyParameter
  <2> DEFINE p == input[current]
  <2>1. /\ pc = "copy" /\ buf' = buf \o p /\ count' = (count + 1) % M
        /\ IF current = Len(input) THEN pc' = "send" /\ current' = current
           ELSE pc' = "turn" /\ current' = current + 1
    BY <1>4 DEF CopyParameter, Strcat
  <2>2. current \in 1..Len(input) /\ p \in Seq(Chars) /\ Len(p) \in Nat
    BY <1>a, <1>b, <2>1 DEF Turns
  <2>3. PICK k \in 0..(Len(input) - 1) : current = k + 1 /\ k = current - 1
    <3>1. current - 1 \in 0..(Len(input) - 1) /\ current = current - 1 + 1 BY <1>b, <2>2
    <3>q. QED BY <3>1
  <2>4. W(current) = W(k) + Len(p) + 1 /\ W(k) \in Nat BY <1>e, <2>3
  <2>5. Len(buf') = Len(buf) + Len(p)
    <3>1. Len(buf \o p) = Len(buf) + Len(p)
      <4> HIDE DEF p
      <4>q. QED BY <1>b, <2>2, ConcatLength
    <3>q. QED BY <2>1, <3>1
  <2> HIDE DEF p, M
  <2>6. current <= M => count' = IF current = M THEN 0 ELSE current
    <3>1. SUFFICES ASSUME current <= M PROVE count' = IF current = M THEN 0 ELSE current OBVIOUS
    <3>2. count + 1 = current BY <1>b, <1>i, <2>1, <3>1
    <3>3. count' = current % M BY <2>1, <3>2
    <3>4. current < M => current % M = current BY <1>b, <2>3, CountsUntilWrap DEF M
    <3>5. M % M = 0 BY <1>b
    <3>6. CASE current = M BY <3>3, <3>5, <3>6
    <3>7. CASE current < M BY <1>b, <3>3, <3>4, <3>7
    <3>q. QED BY <1>b, <3>1, <3>6, <3>7
  <2>7. Len(buf') + 1 <= W(current)
    <3>1. CASE current = 1
      <4>1. Len(buf) = 0 BY <1>a, <2>1, <3>1 DEF Turns
      <4>2. k = 0 /\ W(k) = 0 BY <1>b, <1>e, <2>3, <3>1
      <4>q. QED BY <1>b, <2>2, <2>4, <2>5, <4>1, <4>2
    <3>2. CASE current # 1
      <4>1. Len(buf) <= W(k) BY <1>b, <1>i, <2>1, <2>3, <3>2
      <4>q. QED BY <1>b, <2>2, <2>4, <2>5, <4>1
    <3>q. QED BY <3>1, <3>2
  <2>8. current > M => Len(buf') + 2 <= W(current)
    <3>1. SUFFICES ASSUME current > M PROVE Len(buf') + 2 <= W(current) OBVIOUS
    <3>2. Len(buf) + 1 <= W(k) BY <1>i, <2>1, <2>3, <3>1
    <3>q. QED BY <1>b, <2>2, <2>4, <2>5, <3>2
  <2>9. CASE current = Len(input)
    <3>1. pc' = "send" /\ current' = current BY <2>1, <2>9
    <3>q. QED BY <2>8, <2>9, <3>1
  <2>10. CASE current # Len(input)
    <3>1. pc' = "turn" /\ current' = current + 1 /\ current' - 1 = current BY <1>b, <2>1, <2>10
    <3>2. current' <= M => count' = current' - 1 BY <1>b, <2>6, <3>1
    <3>3. current' = M + 1 => count' = 0 BY <1>b, <2>6, <3>1
    <3>4. current' > M + 1 => Len(buf') + 2 <= W(current' - 1) BY <1>b, <2>8, <3>1
    <3>q. QED BY <2>7, <3>1, <3>2, <3>3, <3>4
  <2>q. QED BY <2>9, <2>10
<1>5. CASE AllocatorAborts
  <2>1. pc' = "aborted" BY <1>5 DEF AllocatorAborts
  <2>q. QED BY <2>1
<1>6. CASE Send
  <2>1. /\ pc = "send" /\ pc' = "arrived" /\ buf' = buf
        /\ wire' = SubSeq(Append(buf, NUL), 1, size)
    BY <1>6 DEF Send
  <2>2. size <= Len(buf) + 1 BY <1>a, <1>b, <2>1 DEF Turns, Written
  <2>3. Len(CString(wire')) <= Len(buf) BY <1>b, <2>1, <2>2, NoLonger
  <2> HIDE DEF M
  <2>q. QED BY <1>i, <2>1, <2>3
<1>7. CASE Receive
  <2>1. pc = "arrived" /\ buf' = buf /\ out' = out BY <1>7 DEF Receive
  <2>2. out = <<>> BY <2>1 DEF TokenInv
  <2>3. T(out') = 0
    <3>1. <<>> \in Seq(Seq(Chars)) /\ Len(<<>>) = 0 OBVIOUS
    <3>2. Weight(<<>>, 0) = 0 BY <3>1, WeightMore
    <3>q. QED BY <2>1, <2>2, <3>1, <3>2 DEF T
  <2>4. CASE size = 0 \/ CString(wire) = <<>>
    <3>1. pc' = "done" BY <1>7, <2>4 DEF Receive
    <3> HIDE DEF M
    <3>q. QED BY <1>b, <1>i, <2>1, <2>3, <3>1
  <2>5. CASE ~(size = 0 \/ CString(wire) = <<>>)
    <3>1. pc' = "tokens" /\ rest' = CString(wire) BY <1>7, <2>5 DEF Receive
    <3>2. Len(rest') \in Nat
      <4>1. rest' \in Seq(Chars) BY <3>1, FirstNulType DEF ReceiverTypes
      <4>q. QED BY <4>1
    <3>3. T(out') + Len(rest') <= Len(buf') BY <1>b, <1>i, <2>1, <2>3, <3>1, <3>2
    <3> HIDE DEF M
    <3>4. T(out') + Len(rest') <= Len(buf') + (IF rest' = <<>> THEN 1 ELSE 0)
      BY <1>b, <2>1, <2>3, <3>2, <3>3
    <3>q. QED BY <1>b, <1>i, <2>1, <3>1, <3>4
  <2>q. QED BY <2>4, <2>5
<1>8. CASE NextToken
  <2>1. pc = "tokens" /\ buf' = buf BY <1>8 DEF NextToken
  <2>2. out \in Seq(Seq(Chars)) /\ rest \in Seq(Chars) /\ Len(rest) \in Nat BY DEF ReceiverTypes
  <2>3. T(out) + Len(rest) <= Len(buf) + (IF rest = <<>> THEN 1 ELSE 0) BY <1>i, <2>1
  <2>4. CASE TokenStart(rest) = 0
    <3>1. pc' = "done" /\ out' = out BY <1>8, <2>4 DEF NextToken
    <3>2. T(out) \in Nat BY <2>2, WeightNat DEF T
    <3> HIDE DEF M
    <3>3. T(out') <= Len(buf') + 1 BY <1>b, <2>1, <2>2, <2>3, <3>1, <3>2
    <3>q. QED BY <1>i, <2>1, <3>1, <3>3
  <2>5. CASE TokenStart(rest) # 0
    <3> DEFINE t == Token(rest)
               a == AfterToken(rest)
    <3>1. pc' = "tokens" /\ out' = Append(out, t) /\ rest' = a BY <1>8, <2>5 DEF NextToken
    <3>2. /\ t \in Seq(Chars) /\ a \in Seq(Chars) /\ t # <<>>
          /\ \/ Len(t) + 1 + Len(a) <= Len(rest)
             \/ a = <<>> /\ Len(t) <= Len(rest)
      BY <2>2, <2>5, TokenIsField, Zenon
    <3> HIDE DEF t, a, M
    <3>3. T(out') = T(out) + Len(t) + 1 /\ T(out) \in Nat BY <2>2, <3>1, <3>2, WeightAppended DEF T
    <3>4. Len(t) \in Nat /\ Len(t) # 0 /\ Len(a) \in Nat /\ (a = <<>> => Len(a) = 0) BY <3>2
    <3>5. rest # <<>>
      <4>1. Len(rest) # 0 BY <2>2, <3>2, <3>4
      <4>q. QED BY <4>1
    <3>6. T(out) + Len(rest) <= Len(buf) BY <1>b, <2>2, <2>3, <3>3, <3>5
    <3>7. T(out') + Len(rest') <= Len(buf') + (IF rest' = <<>> THEN 1 ELSE 0)
      <4>1. CASE Len(t) + 1 + Len(a) <= Len(rest)
        BY <1>b, <2>1, <2>2, <3>1, <3>3, <3>4, <3>6, <4>1
      <4>2. CASE a = <<>> /\ Len(t) <= Len(rest)
        BY <1>b, <2>1, <2>2, <3>1, <3>3, <3>4, <3>6, <4>2
      <4>q. QED BY <3>2, <4>1, <4>2
    <3>q. QED BY <1>i, <2>1, <3>1, <3>7
  <2>q. QED BY <2>4, <2>5
<1>9. CASE UNCHANGED vars
  <2>1. UNCHANGED <<pc, current, count, buf, wire, rest, out>> BY <1>9 DEF vars
  <2> HIDE DEF M
  <2>q. QED BY <1>i, <2>1
<1>q. QED BY <1>1, <1>2, <1>3, <1>4, <1>5, <1>6, <1>7, <1>8, <1>9 DEF Next

-----------------------------------------------------------------------------
(* What realloc cannot lose: the first parameter and its comma, which lie  *)
(* in every old allocation.                                                *)

(* Something follows the first parameter and a comma. *)
Headed == \E t \in Seq(Chars) : buf = Append(input[1], Comma) \o t

(* The fields of the first parameter come first. *)
Leads(fields) == \E g \in Seq(Seq(Chars)) : fields = Fields(input[1]) \o g

HeadInv ==
  /\ pc # "start" => size >= Len(input[1]) + 1
  /\ pc = "turn" /\ current > 1 => buf = input[1] \/ Headed
  /\ pc = "grow" => Headed
  /\ pc = "copy" /\ current > 1 => Headed
  /\ pc = "send" => buf = input[1] \/ Headed
  /\ pc = "arrived" => size # 0 /\ Leads(Fields(CString(wire)))
  /\ pc = "tokens" => Leads(out \o Fields(rest))
  /\ pc = "done" => Leads(out)

(* What arrives of a string that was cut before its NUL. *)
LEMMA CutString ==
  ASSUME NEW s \in Seq(Chars), NEW k \in Nat, k <= Len(s)
  PROVE  CString(SubSeq(Append(s, NUL), 1, k)) = SubSeq(s, 1, k)
<1> DEFINE w == SubSeq(Append(s, NUL), 1, k)
           c == SubSeq(s, 1, k)
<1>1. Len(s) \in Nat /\ Append(s, NUL) \in Seq(Chars \cup {NUL}) /\ Len(Append(s, NUL)) = Len(s) + 1
      /\ \A i \in 1..k : Append(s, NUL)[i] = s[i]
  OBVIOUS
<1>2. /\ c \in Seq(Chars) /\ Len(c) = k /\ \A i \in 1..k : c[i] = s[i]
  OBVIOUS
<1>3. w = c
  <2>1. w \in Seq(Chars \cup {NUL}) /\ Len(w) = k /\ \A i \in 1..k : w[i] = Append(s, NUL)[i]
    BY <1>1
  <2>2. c \in Seq(Chars \cup {NUL}) BY <1>2
  <2> HIDE DEF w, c
  <2>3. \A i \in 1..Len(w) : w[i] = c[i] BY <1>1, <1>2, <2>1
  <2>q. QED BY <1>2, <2>1, <2>2, <2>3, SeqEqual
<1> HIDE DEF w, c
<1>4. \A i \in 1..k : c[i] # NUL
  <2>1. \A i \in 1..k : c[i] \in Chars BY <1>2
  <2>q. QED BY <2>1, CharsAssumption
<1>5. FirstNul(c) \in 1..(k + 1) /\ (FirstNul(c) = k + 1 \/ c[FirstNul(c)] = NUL)
  <2>1. PICK m \in 1..(Len(c) + 1) :
          /\ m = Len(c) + 1 \/ c[m] = NUL
          /\ \A j \in 1..(m - 1) : c[j] # NUL
    <3>1. k + 1 \in 1..(Len(c) + 1) /\ k + 1 - 1 = k BY <1>2
    <3>q. QED BY <1>2, <1>4, <3>1
  <2>q. QED BY <1>2, <2>1 DEF FirstNul
<1>6. FirstNul(c) = k + 1
  <2>1. FirstNul(c) # k + 1 => FirstNul(c) \in 1..k BY <1>5
  <2>q. QED BY <1>4, <1>5, <2>1
<1>7. FirstNul(c) - 1 = k /\ SubSeq(c, 1, k) = c BY <1>2, <1>6
<1>q. QED BY <1>3, <1>7 DEF CString, w, c

(* What is cut off behind its head leaves the head. *)
LEMMA HeadKept ==
  ASSUME NEW a \in Seq(Chars), NEW t \in Seq(Chars), NEW k \in Nat,
         Len(a) <= k, k <= Len(a \o t)
  PROVE  \E u \in Seq(Chars) : SubSeq(a \o t, 1, k) = a \o u
<1> DEFINE n == Len(a)
           u == SubSeq(t, 1, k - n)
           w == SubSeq(a \o t, 1, k)
           v == a \o u
<1>1. PICK d \in Nat : k = n + d /\ d <= Len(t) /\ k - n = d
  <2>1. n \in Nat /\ Len(t) \in Nat /\ Len(a \o t) = n + Len(t) OBVIOUS
  <2>2. k - n \in Nat /\ k = n + (k - n) /\ k - n <= Len(t) BY <2>1
  <2>q. QED BY <2>2
<1>2. u \in Seq(Chars) /\ Len(u) = d /\ \A i \in 1..d : u[i] = t[i]
  BY <1>1
<1>3. w \in Seq(Chars) /\ Len(w) = k /\ \A i \in 1..k : w[i] = (a \o t)[i]
  OBVIOUS
<1>4. v \in Seq(Chars) /\ Len(v) = n + d
  <2> HIDE DEF u
  <2>q. QED BY <1>2, ConcatLength
<1>5. ASSUME NEW i \in 1..k PROVE w[i] = v[i]
  <2>1. w[i] = IF i <= n THEN a[i] ELSE t[i - n]
    <3>1. i \in 1..(Len(a) + Len(t)) BY <1>1
    <3>q. QED BY <1>3, <3>1
  <2>2. v[i] = IF i <= n THEN a[i] ELSE u[i - n]
    <3> HIDE DEF u
    <3>1. i \in 1..(Len(a) + Len(u)) BY <1>1, <1>2
    <3>q. QED BY <1>2, <3>1
  <2>3. i > n => i - n \in 1..d BY <1>1
  <2> HIDE DEF u, v, w
  <2>q. QED BY <1>2, <2>1, <2>2, <2>3
<1>6. w = v
  <2> HIDE DEF w, v
  <2>q. QED BY <1>1, <1>3, <1>4, <1>5, SeqEqual
<1>q. QED BY <1>2, <1>6

LEMMA StringsAssociate ==
  \A x, y, z \in Seq(Chars) : (x \o y) \o z = x \o (y \o z) /\ y \o z \in Seq(Chars)
<1> SUFFICES ASSUME NEW x \in Seq(Chars), NEW y \in Seq(Chars), NEW z \in Seq(Chars)
             PROVE  (x \o y) \o z = x \o (y \o z) /\ y \o z \in Seq(Chars)
  OBVIOUS
<1>q. QED BY ConcatAssociative

LEMMA HeadStep ==
  ASSUME SenderInv, ReceiverTypes, TokenInv, HeadInv,
         input # <<>>, Len(input) <= CountModulus, [Next]_vars
  PROVE  HeadInv'
<1> DEFINE a == Append(input[1], Comma)
           L == Fields(input[1])
<1> USE DEF Looping
<1>a. SenderTypes /\ Turns /\ Unwrapped /\ Written BY DEF SenderInv
<1>b. /\ Len(input) \in Nat /\ Len(input) >= 1 /\ buf \in Seq(Chars) /\ Len(buf) \in Nat
      /\ \A i \in 1..Len(input) : input[i] \in Seq(Chars) /\ Len(input[i]) \in Nat
      /\ current \in Nat \ {0} /\ size \in Nat /\ alloc = size
  BY <1>a, InputLists DEF SenderTypes, Turns
<1>c. input' = input
  BY DEF Next, Allocate, Separate, Grow, CopyParameter, AllocatorAborts, Send, Receive, NextToken, vars
<1>d. \A f : Leads(f)' <=> Leads(f') BY <1>c DEF Leads
<1>e. Headed' <=> \E t \in Seq(Chars) : buf' = a \o t BY <1>c DEF Headed
<1>f. /\ input[1] \in Seq(Chars) /\ a \in Seq(Chars) /\ Len(a) = Len(input[1]) + 1
      /\ L \in Seq(Seq(Chars)) /\ Len(input[1]) \in Nat
  <2>1. input[1] \in Seq(Chars) BY <1>b
  <2>q. QED BY <2>1, CharsAssumption, FieldsType
<1>g. input'[1] = input[1] BY <1>c
<1>h. HeadInv =>
        /\ pc # "start" => size >= Len(a)
        /\ pc = "turn" /\ current > 1 => buf = input[1] \/ Headed
        /\ pc = "grow" => Headed
        /\ pc = "copy" /\ current > 1 => Headed
        /\ pc = "send" => buf = input[1] \/ Headed
        /\ pc = "arrived" => size # 0 /\ Leads(Fields(CString(wire)))
        /\ pc = "tokens" => Leads(out \o Fields(rest))
        /\ pc = "done" => Leads(out)
  BY <1>f DEF HeadInv
<1>i. SUFFICES
        /\ pc' # "start" => size' >= Len(a)
        /\ pc' = "turn" /\ current' > 1 => buf' = input[1] \/ Headed'
        /\ pc' = "grow" => Headed'
        /\ pc' = "copy" /\ current' > 1 => Headed'
        /\ pc' = "send" => buf' = input[1] \/ Headed'
        /\ pc' = "arrived" => size' # 0 /\ Leads(Fields(CString(wire)))'
        /\ pc' = "tokens" => Leads(out \o Fields(rest))'
        /\ pc' = "done" => Leads(out)'
  BY <1>f, <1>g DEF HeadInv
<1> HIDE DEF a, L
<1>1. CASE Allocate
  <2>1. pc = "start" /\ pc' = "turn" /\ current' = current /\ size' = Len(input[1]) + 1
    BY <1>1 DEF Allocate
  <2>2. current = 1 BY <1>a, <2>1 DEF Turns
  <2>q. QED BY <1>f, <2>1, <2>2
<1>2. CASE Separate
  <2>0. pc = "turn" /\ current' = current /\ size' = size BY <1>2 DEF Separate
  <2>1. CASE count # 0
    <3>1. pc' = "grow" /\ buf' = buf \o <<Comma>> BY <1>2, <2>1 DEF Separate, Strcat
    <3>2. current > 1 BY <1>a, <1>b, <2>0, <2>1 DEF Turns
    <3>3. <<Comma>> \in Seq(Chars) /\ <<>> \in Seq(Chars) BY CharsAssumption
    <3>4. CASE buf = input[1]
      <4>1. buf' = a BY <1>f, <3>1, <3>4, CharsAssumption DEF a
      <4>2. a \o <<>> = a BY <1>f
      <4>3. Headed' BY <1>e, <3>3, <4>1, <4>2
      <4>q. QED BY <1>h, <2>0, <3>1, <4>3
    <3>5. CASE Headed
      <4>1. PICK t \in Seq(Chars) : buf = a \o t BY <3>5 DEF Headed, a
      <4>2. (a \o t) \o <<Comma>> = a \o (t \o <<Comma>>) BY <1>f, <3>3, StringsAssociate
      <4>3. t \o <<Comma>> \in Seq(Chars) BY <3>3
      <4>4. Headed' BY <1>e, <3>1, <4>1, <4>2, <4>3
      <4>q. QED BY <1>h, <2>0, <3>1, <4>4
    <3>q. QED BY <1>h, <2>0, <3>2, <3>4, <3>5
  <2>2. CASE count = 0
    <3>1. pc' = "copy" BY <1>2, <2>2 DEF Separate
    <3>2. current = 1 BY <1>a, <1>b, <2>0, <2>2 DEF Unwrapped
    <3>q. QED BY <1>h, <2>0, <3>1, <3>2
  <2>q. QED BY <2>1, <2>2
<1>3. CASE Grow
  <2>1. pc = "grow" /\ pc' = "copy" /\ current' = current /\ size' = size + Len(input[current]) + 1
    BY <1>3 DEF Grow
  <2>2. current \in 1..Len(input) BY <1>a, <1>b, <2>1 DEF Turns
  <2>3. size >= Len(a) /\ size' >= Len(a)
    <3>1. size >= Len(a) BY <1>h, <2>1
    <3>2. PICK p \in Nat : size' = size + p + 1 BY <1>b, <2>1, <2>2
    <3>q. QED BY <1>b, <1>f, <3>1, <3>2
  <2>4. PICK t \in Seq(Chars) : buf = a \o t BY <1>h, <2>1 DEF Headed, a
  <2>5. PICK kept \in 0..Len(buf), found \in Seq(Chars) :
          /\ kept >= alloc \/ (kept = Len(buf) /\ found = <<>>)
          /\ buf' = SubSeq(buf, 1, kept) \o found
    BY <1>3, <1>a, ReallocEffect DEF Grow
  <2>6. Len(a) <= kept
    <3>1. size <= Len(buf) BY <1>a, <2>1 DEF Written
    <3>q. QED BY <1>b, <1>f, <2>3, <2>5, <3>1
  <2>7. PICK u \in Seq(Chars) : SubSeq(buf, 1, kept) = a \o u
    <3>1. kept \in Nat /\ kept <= Len(a \o t) BY <1>b, <2>4, <2>5
    <3>2. \E u \in Seq(Chars) : SubSeq(a \o t, 1, kept) = a \o u
      BY <1>f, <2>4, <2>6, <3>1, HeadKept
    <3>q. QED BY <2>4, <3>2
  <2>8. (a \o u) \o found = a \o (u \o found) /\ u \o found \in Seq(Chars)
    <3>1. a \in Seq(Chars) /\ u \in Seq(Chars) /\ found \in Seq(Chars) BY <1>f, <2>5, <2>7
    <3>q. QED BY <3>1, StringsAssociate, SMTT(60)
  <2>9. Headed' BY <1>e, <2>5, <2>7, <2>8
  <2>q. QED BY <2>1, <2>3, <2>9
<1>4. CASE CopyParameter
  <2> DEFINE p == input[current]
  <2>1. /\ pc = "copy" /\ buf' = buf \o p /\ size' = size
        /\ pc' \in {"send", "turn"}
    BY <1>4 DEF CopyParameter, Strcat
  <2>2. p \in Seq(Chars) BY <1>a, <1>b, <2>1 DEF Turns
  <2> HIDE DEF p
  <2>3. CASE current = 1
    <3>1. buf = <<>> /\ p = input[1] BY <1>a, <2>1, <2>3 DEF Turns, p
    <3>2. <<>> \o p = p BY <2>2
    <3>3. buf' = input[1] BY <2>1, <3>1, <3>2
    <3>q. QED BY <1>h, <2>1, <3>3
  <2>4. CASE current # 1
    <3>0. Headed
      <4>1. current > 1 BY <1>b, <2>4
      <4>q. QED BY <1>h, <2>1, <4>1
    <3>1. PICK t \in Seq(Chars) : buf = a \o t BY <3>0 DEF Headed, a
    <3>2. (a \o t) \o p = a \o (t \o p) /\ t \o p \in Seq(Chars) BY <1>f, <2>2, StringsAssociate
    <3>3. Headed' BY <1>e, <2>1, <3>1, <3>2
    <3>q. QED BY <1>h, <2>1, <3>3
  <2>q. QED BY <2>3, <2>4
<1>5. CASE AllocatorAborts
  <2>1. pc' = "aborted" /\ size' = size /\ pc # "start" BY <1>5 DEF AllocatorAborts
  <2>q. QED BY <1>h, <2>1
<1>6. CASE Send
  <2> DEFINE w == CString(SubSeq(Append(buf, NUL), 1, size))
  <2>1. pc = "send" /\ pc' = "arrived" /\ size' = size /\ wire' = SubSeq(Append(buf, NUL), 1, size)
    BY <1>6 DEF Send
  <2>2. size <= Len(buf) + 1 /\ size >= Len(a) /\ size # 0 BY <1>a, <1>b, <1>f, <1>h, <2>1 DEF Written
  <2>3. CString(wire') = w BY <2>1
  <2>4. w = IF size = Len(buf) + 1 THEN buf ELSE SubSeq(buf, 1, size)
    <3>1. CASE size = Len(buf) + 1
      <4>1. SubSeq(Append(buf, NUL), 1, Len(buf) + 1) = Append(buf, NUL)
        <5>1. Append(buf, NUL) \in Seq(Chars \cup {NUL}) /\ Len(Append(buf, NUL)) = Len(buf) + 1 BY <1>b
        <5>q. QED BY <5>1
      <4>q. QED BY <1>b, <3>1, <4>1, WholeString
    <3>2. CASE size # Len(buf) + 1
      <4>1. size <= Len(buf) BY <1>b, <2>2, <3>2
      <4>2. w = SubSeq(buf, 1, size) BY <1>b, <4>1, CutString
      <4>q. QED BY <3>2, <4>2
    <3>q. QED BY <3>1, <3>2
  <2> HIDE DEF w
  <2>5. \E g \in Seq(Seq(Chars)) : Fields(w) = L \o g
    <3>1. CASE buf = input[1]
      <4>1. size = Len(buf) + 1 BY <1>b, <1>f, <2>2, <3>1
      <4>2. w = input[1] BY <2>4, <3>1, <4>1
      <4>3. L \o <<>> = L /\ <<>> \in Seq(Seq(Chars)) BY <1>f
      <4>q. QED BY <4>2, <4>3 DEF L
    <3>2. CASE Headed
      <4>1. PICK t \in Seq(Chars) : buf = a \o t BY <3>2 DEF Headed, a
      <4>2. PICK u \in Seq(Chars) : w = a \o u
        <5>1. CASE size = Len(buf) + 1 BY <2>4, <4>1, <5>1
        <5>2. CASE size # Len(buf) + 1
          <6>1. size <= Len(buf)
            <7>1. size \in Nat /\ Len(buf) \in Nat /\ size <= Len(buf) + 1 BY <1>b, <2>2
            <7>q. QED BY <5>2, <7>1
          <6>2. \E u \in Seq(Chars) : SubSeq(a \o t, 1, size) = a \o u
            BY <1>b, <1>f, <2>2, <4>1, <6>1, HeadKept
          <6>q. QED BY <2>4, <4>1, <5>2, <6>2
        <5>q. QED BY <5>1, <5>2
      <4>3. Fields(a \o u) = L \o Fields(u) BY <1>f, FieldsJoined DEF a, L
      <4>4. Fields(u) \in Seq(Seq(Chars)) BY FieldsType
      <4>q. QED BY <4>2, <4>3, <4>4
    <3>q. QED BY <1>h, <2>1, <3>1, <3>2
  <2>6. Leads(Fields(CString(wire)))' BY <1>g, <2>3, <2>5 DEF Leads, L
  <2>q. QED BY <2>1, <2>2, <2>6
<1>7. CASE Receive
  <2>1. pc = "arrived" /\ wire' = wire /\ out' = out /\ size' = size BY <1>7 DEF Receive
  <2>2. out = <<>> BY <2>1 DEF TokenInv
  <2>3. size # 0 /\ size >= Len(a) BY <1>h, <2>1
  <2>4. PICK g \in Seq(Seq(Chars)) : Fields(CString(wire)) = L \o g BY <1>h, <2>1 DEF Leads, L
  <2>5. L \o g \in Seq(Seq(Chars)) BY <1>f, ConcatLength
  <2>6. CASE CString(wire) = <<>>
    <3>1. pc' = "done" BY <1>7, <2>6 DEF Receive
    <3>2. out' = L \o g BY <2>1, <2>2, <2>4, <2>6, FieldsGrow
    <3>3. Leads(out)' BY <1>g, <3>2 DEF Leads, L
    <3>q. QED BY <2>1, <2>3, <3>1, <3>3
  <2>7. CASE CString(wire) # <<>>
    <3>1. pc' = "tokens" /\ rest' = CString(wire) BY <1>7, <2>3, <2>7 DEF Receive
    <3>2. <<>> \o (L \o g) = L \o g BY <2>5
    <3>3. out' \o Fields(rest') = L \o g BY <2>1, <2>2, <2>4, <3>1, <3>2
    <3>4. Leads(out \o Fields(rest))' BY <1>g, <3>3 DEF Leads, L
    <3>q. QED BY <2>1, <2>3, <3>1, <3>4
  <2>q. QED BY <2>6, <2>7
<1>8. CASE NextToken
  <2>1. pc = "tokens" /\ size' = size BY <1>8 DEF NextToken
  <2>2. PICK g \in Seq(Seq(Chars)) : out \o Fields(rest) = L \o g BY <1>h, <2>1 DEF Leads, L
  <2>3. out \in Seq(Seq(Chars)) /\ rest \in Seq(Chars) BY DEF ReceiverTypes
  <2>4. CASE TokenStart(rest) = 0
    <3>1. pc' = "done" /\ out' = out BY <1>8, <2>4 DEF NextToken
    <3>2. Fields(rest) = <<>> BY <2>3, <2>4, NoToken, FieldsCommas
    <3>3. out \o <<>> = out BY <2>3
    <3>4. out' = L \o g BY <2>2, <3>1, <3>2, <3>3
    <3>5. Leads(out)' BY <1>g, <3>4 DEF Leads, L
    <3>q. QED BY <1>h, <2>1, <3>1, <3>5
  <2>5. CASE TokenStart(rest) # 0
    <3> DEFINE t == Token(rest)
               b == AfterToken(rest)
    <3>1. pc' = "tokens" /\ out' = Append(out, t) /\ rest' = b BY <1>8, <2>1, <2>5 DEF NextToken
    <3>2. t \in Seq(Chars) /\ b \in Seq(Chars) /\ Fields(rest) = << t >> \o Fields(b)
      BY <2>3, <2>5, TokenIsField
    <3>3. Fields(b) \in Seq(Seq(Chars)) BY <3>2, FieldsType
    <3> HIDE DEF t, b
    <3>4. out \o (<< t >> \o Fields(b)) = Append(out, t) \o Fields(b)
      BY <2>3, <3>2, <3>3, OneInFront
    <3>5. out' \o Fields(rest') = L \o g BY <2>2, <3>1, <3>2, <3>4
    <3>6. Leads(out \o Fields(rest))' BY <1>g, <3>5 DEF Leads, L
    <3>q. QED BY <1>h, <2>1, <3>1, <3>6
  <2>q. QED BY <2>4, <2>5
<1>9. CASE UNCHANGED vars
  <2>1. UNCHANGED <<input, pc, current, buf, size, wire, rest, out>> BY <1>9 DEF vars
  <2>2. /\ Headed' <=> Headed
        /\ Leads(Fields(CString(wire)))' <=> Leads(Fields(CString(wire)))
        /\ Leads(out \o Fields(rest))' <=> Leads(out \o Fields(rest))
        /\ Leads(out)' <=> Leads(out)
    BY <2>1 DEF Headed, Leads
  <2>q. QED BY <1>h, <2>1, <2>2
<1>q. QED BY <1>1, <1>2, <1>3, <1>4, <1>5, <1>6, <1>7, <1>8, <1>9 DEF Next

-----------------------------------------------------------------------------
(* Both ends together. *)
CodecInv ==
  /\ SenderInv /\ ReceiverTypes /\ TokenInv
  /\ stray = 0 => WeightInv
  /\ stray = 0 /\ Len(input) <= CountModulus => FieldsInv
  /\ input # <<>> /\ Len(input) <= CountModulus => HeadInv

LEMMA CodecInvariant == Spec => []CodecInv
<1>1. Init => CodecInv
  <2> SUFFICES ASSUME Init PROVE CodecInv
    OBVIOUS
  <2>1. HeadInv BY DEF Init, HeadInv
  <2>q. QED BY <2>1, SenderInit, TokenInit, FieldsInit, WeightInit, ModulusAssumption
            DEF CodecInv, ReceiverTypes, Places, Init
<1>2. CodecInv /\ [Next]_vars => CodecInv'
  <2> SUFFICES ASSUME CodecInv, [Next]_vars PROVE CodecInv'
    OBVIOUS
  <2>1. SenderInv' /\ ReceiverTypes' /\ TokenInv'
    BY SenderStep, ReceiverStep, TokenStep DEF CodecInv
  <2>2. input' = input
    BY DEF Next, Allocate, Separate, Grow, CopyParameter, AllocatorAborts, Send, Receive, NextToken, vars
  <2>3. stray' = 0 => stray = 0
    BY StrayStays DEF CodecInv, SenderInv
  <2>4. stray' = 0 => WeightInv'
    BY <2>3, WeightStep DEF CodecInv
  <2>5. stray' = 0 /\ Len(input) <= CountModulus => FieldsInv'
    BY <2>3, FieldsStep DEF CodecInv
  <2>6. input # <<>> /\ Len(input) <= CountModulus => HeadInv'
    BY HeadStep DEF CodecInv
  <2>q. QED BY <2>1, <2>2, <2>4, <2>5, <2>6 DEF CodecInv
<1>q. QED BY <1>1, <1>2, PTL DEF Spec

(* For every alphabet, every content of the heap and every list of at most *)
(* as many parameters as the counter counts, the fields of the first       *)
(* parameter come back first; and where realloc lets no heap bytes in, the *)
(* joining loop of send_packet and the tokens that recv_packet takes with  *)
(* strtok_r carry the non-empty fields of all parameters across, each      *)
(* once, whole and in order.                                               *)
THEOREM FieldsArriveHolds == Spec => []FieldsArrive
<1>1. CodecInv => FieldsArrive
  <2> SUFFICES ASSUME CodecInv, pc = "done", Len(input) <= CountModulus
               PROVE  /\ input # <<>> => IsPrefix(Fields(input[1]), out)
                      /\ stray = 0 => out = FlattenSeq([i \in DOMAIN input |-> Fields(input[i])])
    BY DEF FieldsArrive
  <2>1. ASSUME stray = 0 PROVE out = FlattenSeq([i \in DOMAIN input |-> Fields(input[i])])
    <3>1. out = FieldsOf(Len(input)) BY <2>1 DEF CodecInv, FieldsInv
    <3>2. DOMAIN input = 1..Len(input) BY InputLists DEF CodecInv, SenderInv
    <3>q. QED BY <3>1, <3>2 DEF FieldsOf
  <2>2. ASSUME input # <<>> PROVE IsPrefix(Fields(input[1]), out)
    <3> DEFINE L == Fields(input[1])
    <3>1. PICK g \in Seq(Seq(Chars)) : out = L \o g BY <2>2 DEF CodecInv, HeadInv, Leads
    <3>2. L \in Seq(Seq(Chars))
      <4>1. input[1] \in Seq(Chars) BY <2>2, InputLists DEF CodecInv, SenderInv
      <4>q. QED BY <4>1, FieldsType
    <3> HIDE DEF L
    <3>3. Len(L) <= Len(L \o g) BY <3>2
    <3>4. SubSeq(L, 1, Len(L)) = L /\ SubSeq(L \o g, 1, Len(L)) = L BY <3>2
    <3>q. QED BY <3>1, <3>3, <3>4 DEF IsPrefix, L
  <2>q. QED BY <2>1, <2>2
<1>q. QED BY <1>1, CodecInvariant, PTL

(* A list of fields is the fields of its parameters. *)
LEMMA FieldsOfTransmissible ==
  ASSUME SenderTypes, Transmissible(input)
  PROVE  FieldsOf(Len(input)) = input
<1>1. /\ input \in Seq(Seq(Chars)) /\ Len(input) \in Nat
      /\ \A i \in 1..Len(input) : input[i] \in Seq(Chars)
  BY InputLists
<1>2. ASSUME NEW i \in 1..Len(input) PROVE Fields(input[i]) = << input[i] >>
  <2>1. input[i] # <<>> /\ ~Contains(input[i], Comma) BY DEF Transmissible
  <2>2. \A j \in 1..Len(input[i]) : input[i][j] # Comma BY <2>1 DEF Contains
  <2>q. QED BY <1>1, <2>1, <2>2, FieldsPlain
<1> DEFINE S == {n \in Nat : n <= Len(input) => FieldsOf(n) = SubSeq(input, 1, n)}
<1>3. 0 \in S
  <2>1. SubSeq(input, 1, 0) = <<>> BY <1>1
  <2>q. QED BY <2>1, FieldsOfMore
<1>4. ASSUME NEW n \in Nat, n \in S PROVE n + 1 \in S
  <2> SUFFICES ASSUME n + 1 <= Len(input) PROVE FieldsOf(n + 1) = SubSeq(input, 1, n + 1)
    OBVIOUS
  <2>1. n \in 0..(Len(input) - 1) /\ n + 1 \in 1..Len(input) /\ n <= Len(input) BY <1>1
  <2>2. FieldsOf(n) = SubSeq(input, 1, n) BY <1>4, <2>1
  <2>3. FieldsOf(n + 1) = FieldsOf(n) \o << input[n + 1] >> BY <1>2, <2>1, FieldsOfMore
  <2>4. SubSeq(input, 1, n + 1) = SubSeq(input, 1, n) \o << input[n + 1] >> BY <1>1, <2>1
  <2>q. QED BY <2>2, <2>3, <2>4
<1>5. Nat \subseteq S
  <2> HIDE DEF S
  <2>q. QED BY <1>3, <1>4, NatInduced
<1>6. FieldsOf(Len(input)) = SubSeq(input, 1, Len(input)) BY <1>1, <1>5
<1>7. SubSeq(input, 1, Len(input)) = input BY <1>1
<1>q. QED BY <1>6, <1>7

(* For every list, alphabet and counter width, where realloc lets no heap  *)
(* bytes in, a list comes back as it was given to send_packet exactly if   *)
(* it is no longer than the counter counts and none of its parameters is   *)
(* empty or holds a comma.                                                 *)
THEOREM RoundTripHolds == Spec => []RoundTrip
<1>1. CodecInv => RoundTrip
  <2> SUFFICES ASSUME CodecInv, pc = "done", stray = 0 PROVE out = input <=> Transmissible(input)
    BY DEF RoundTrip
  <2>a. SenderTypes /\ TokenInv /\ WeightInv /\ (Len(input) <= CountModulus => FieldsInv)
    BY DEF CodecInv, SenderInv
  <2>b. Len(input) \in Nat /\ CountModulus \in Nat /\ Len(buf) \in Nat
    BY <2>a, InputLists, ModulusAssumption DEF SenderTypes
  <2>1. ASSUME Transmissible(input) PROVE out = input
    <3>1. FieldsInv BY <2>1, <2>a DEF Transmissible
    <3>2. out = FieldsOf(Len(input)) BY <3>1 DEF FieldsInv
    <3>q. QED BY <2>1, <2>a, <3>2, FieldsOfTransmissible
  <2>2. ASSUME out = input PROVE Transmissible(input)
    <3>1. \A i \in 1..Len(input) : input[i] # <<>> /\ \A j \in 1..Len(input[i]) : input[i][j] # Comma
      BY <2>2, <2>a DEF TokenInv
    <3>2. \A i \in 1..Len(input) : input[i] # <<>> /\ ~Contains(input[i], Comma)
      BY <3>1 DEF Contains
    <3>3. Len(input) <= CountModulus
      <4> SUFFICES ASSUME Len(input) > CountModulus PROVE FALSE BY <2>b
      <4>1. Len(buf) + 2 <= Weight(input, Len(input)) BY <2>a DEF WeightInv
      <4>2. Weight(input, Len(input)) <= Len(buf) + 1 BY <2>2, <2>a DEF WeightInv
      <4>3. Weight(input, Len(input)) \in Nat BY <2>a, InputLists, WeightNat
      <4>q. QED BY <2>b, <4>1, <4>2, <4>3
    <3>q. QED BY <3>2, <3>3 DEF Transmissible
  <2>q. QED BY <2>1, <2>2
<1>q. QED BY <1>1, CodecInvariant, PTL
=============================================================================
