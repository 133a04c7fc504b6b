---------------------------- MODULE SmartPageProofs ----------------------------
(***************************************************************************)
(* The page that the injection makes and the length it is announced with,  *)
(* for files of any length.                                                *)
(***************************************************************************)
EXTENDS SmartPage, Integers, WellFoundedInduction, SequenceTheorems, TLAPS

Pieces == Marks \cup Texts \cup Htmls

(* A set of naturals with an element has a least one: the form in which    *)
(* the proofs below use induction.                                         *)
LEMMA LeastNat ==
  ASSUME NEW T \in SUBSET Nat, T # {}
  PROVE  \E x \in T : \A y \in T : x <= y
<1>1. PICK x \in T : \A y \in T : ~(<<y, x>> \in OpToRel(<, Nat))
  BY NatLessThanWellFounded, WFMin
<1>2. \A y \in T : ~(y < x) BY <1>1 DEF OpToRel
<1> QED BY <1>2

-----------------------------------------------------------------------------
(* The markers, in the order in which the functions are called. *)
LEMMA ListedMarks ==
  /\ Marks = {"movieMark", "showMark", "mailMark", "unsetMark"}
  /\ Len(Functions) = 4
  /\ \A m \in Marks : \E q \in 1..4 : Functions[q] = m
  /\ \A q \in 1..4 : Functions[q] \in Marks
<1>1. DOMAIN Functions = 1..4 /\ Len(Functions) = 4 BY DEF Functions
<1>2. /\ Functions[1] = "movieMark" /\ Functions[2] = "showMark"
      /\ Functions[3] = "mailMark" /\ Functions[4] = "unsetMark"
  BY DEF Functions
<1>3. 1..4 = {1, 2, 3, 4} OBVIOUS
<1>4. Marks = {Functions[i] : i \in {1, 2, 3, 4}} BY <1>1, <1>3 DEF Marks
<1> QED BY <1>1, <1>2, <1>3, <1>4

(* What a function returns is no marker and no word for having thrown. *)
LEMMA Called ==
  ASSUME NEW m \in Marks, cServer \in {"lists", "accents", "dies", "absent"}
  PROVE  /\ functionCaller(m) # Thrown => functionCaller(m) \in Htmls
         /\ functionCaller(m) \notin Marks
<1>1. MovieList[cServer] \in {"movie list", "movie list with accents", Thrown, "error"}
  <2>1. /\ MovieList["lists"] = "movie list" /\ MovieList["accents"] = "movie list with accents"
        /\ MovieList["dies"] = Thrown /\ MovieList["absent"] = "error"
    BY DEF MovieList
  <2> QED BY <2>1
<1>2. functionCaller(m) \in {"movie list", "movie list with accents", Thrown, "error",
                             "to_implement", "null"}
  BY <1>1, ListedMarks DEF functionCaller
<1> QED BY <1>2, ListedMarks DEF Thrown, Htmls

(* The first marker of its kind, which split looks for, exists. *)
LEMMA FirstOne ==
  ASSUME NEW t \in Seq(Pieces), NEW m, Contains(t, m)
  PROVE  /\ First(t, m) \in 1..Len(t) /\ t[First(t, m)] = m
         /\ \A j \in 1..(First(t, m) - 1) : t[j] # m
<1> DEFINE T == {i \in 1..Len(t) : t[i] = m}
           P(i) == i \in DOMAIN t /\ t[i] = m /\ \A j \in 1..(i-1) : t[j] # m
<1>1. T # {} /\ T \in SUBSET Nat BY DEF Contains
<1>2. PICK i \in T : \A j \in T : i <= j
  <2> HIDE DEF T
  <2> QED BY <1>1, LeastNat
<1>3. Len(t) \in Nat /\ DOMAIN t = 1..Len(t) OBVIOUS
<1>4. \A j \in 1..(i-1) : t[j] # m
  <2> SUFFICES ASSUME NEW j \in 1..(i-1), t[j] = m PROVE FALSE OBVIOUS
  <2>1. j \in T BY <1>2, <1>3
  <2> QED BY <2>1, <1>2
<1>5. P(i) BY <1>2, <1>3, <1>4
<1>6. First(t, m) = CHOOSE k \in DOMAIN t : t[k] = m /\ \A j \in 1..(k-1) : t[j] # m
  BY DEF First
<1>7. First(t, m) \in DOMAIN t /\ t[First(t, m)] = m /\ \A j \in 1..(First(t, m) - 1) : t[j] # m
  BY <1>5, <1>6
<1> QED BY <1>3, <1>7

(* The text behind the first marker. *)
LEMMA Behind ==
  ASSUME NEW t \in Seq(Pieces), NEW m, Contains(t, m)
  PROVE  /\ After(t, m) \in Seq(Pieces)
         /\ Len(After(t, m)) = Len(t) - First(t, m)
         /\ \A i \in 1..Len(After(t, m)) : After(t, m)[i] = t[First(t, m) + i]
<1>1. First(t, m) \in 1..Len(t) BY FirstOne
<1> QED BY <1>1 DEF After

(* The text before it, or all of it. *)
LEMMA Before ==
  ASSUME NEW t \in Seq(Pieces), NEW m
  PROVE  /\ UpTo(t, m) \in Seq(Pieces)
         /\ Len(UpTo(t, m)) <= Len(t)
         /\ \A i \in 1..Len(UpTo(t, m)) : UpTo(t, m)[i] = t[i] /\ t[i] # m
         /\ Contains(t, m) => /\ Len(UpTo(t, m)) = First(t, m) - 1
                              /\ t[Len(UpTo(t, m)) + 1] = m
                              /\ Len(UpTo(t, m)) < Len(t)
         /\ ~Contains(t, m) => UpTo(t, m) = t
<1>1. CASE Contains(t, m)
  <2>1. /\ First(t, m) \in 1..Len(t) /\ t[First(t, m)] = m
        /\ \A j \in 1..(First(t, m) - 1) : t[j] # m
    BY <1>1, FirstOne
  <2>2. UpTo(t, m) = SubSeq(t, 1, First(t, m) - 1) BY <1>1 DEF UpTo
  <2> QED BY <1>1, <2>1, <2>2
<1>2. CASE ~Contains(t, m)
  <2>1. UpTo(t, m) = t BY <1>2 DEF UpTo
  <2> QED BY <1>2, <2>1 DEF Contains
<1> QED BY <1>1, <1>2

-----------------------------------------------------------------------------
(* The invariants. *)

(* What one function makes of a text. *)
Injected(text, mark) ==
  UpTo(text, mark) \o <<functionCaller(mark)>> \o UpTo(After(text, mark), mark)

(* The types, and where the list of functions is. *)
PageInv ==
  /\ PageTypeOK
  /\ pc = "inject" => isSmart /\ next \in 1..4
  /\ pc \in {"send", "sent"} /\ isSmart => next = 5

(* Every marker of a text is one of the file, and one that ends the text   *)
(* or that another one follows has no text behind it in the file either.   *)
Traced(text) ==
  \A i \in 1..Len(text) : text[i] \in Marks =>
    \E j \in Marked : /\ file[j] = text[i]
                      /\ (i = Len(text) \/ text[i + 1] \in Marks) => Bare(j)

TraceInv ==
  /\ pc \in {"inject", "send", "sent"} => Traced(buff) /\ Traced(builder)
  /\ ThrowsForCause

(* Before the first injection the page is the file, and the functions that *)
(* were passed over are not in it. After one it is what the one made of    *)
(* the file. After two a marker that the second one copied with what the   *)
(* first one wrote is in the page for ever.                                *)
Untouched ==
  /\ builder = <<>> /\ buff = file
  /\ \A q \in 1..(next - 1) : ~Contains(file, Functions[q])
InjectedOnce ==
  /\ builder = buff
  /\ \E m \in Marks : /\ Contains(file, m) /\ functionCaller(m) # Thrown
                      /\ buff = Injected(file, m)
  /\ \A q \in 1..(next - 1) : ~Contains(buff, Functions[q])
InjectedAgain ==
  /\ builder = buff
  /\ \E k \in 1..Len(buff) : buff[k] \in Marks
  /\ \E i, j \in Marked : i # j

MarkerInv ==
  /\ isSmart /\ pc \in {"inject", "send", "sent"} => Untouched \/ InjectedOnce \/ InjectedAgain
  /\ ~isSmart => buff = file

-----------------------------------------------------------------------------
(* An injection yields a text of the same alphabet. *)
LEMMA InjectedText ==
  ASSUME NEW t \in Seq(Pieces), NEW m \in Marks, Contains(t, m), functionCaller(m) \in Htmls
  PROVE  Injected(t, m) \in Seq(Pieces)
<1>1. UpTo(t, m) \in Seq(Pieces) BY Before
<1>2. After(t, m) \in Seq(Pieces) BY Behind
<1>3. UpTo(After(t, m), m) \in Seq(Pieces) BY <1>2, Before
<1>4. <<functionCaller(m)>> \in Seq(Pieces) BY DEF Pieces
<1> HIDE DEF Pieces
<1> QED BY <1>1, <1>3, <1>4 DEF Injected

(* The parts of a text that was made of three. *)
Joined(u, a, h, b) ==
  /\ u \in Seq(Pieces) /\ Len(u) = Len(a) + 1 + Len(b)
  /\ \A i \in 1..Len(a) : u[i] = a[i]
  /\ u[Len(a) + 1] = h
  /\ \A i \in 1..Len(b) : u[Len(a) + 1 + i] = b[i]

LEMMA ThreeParts ==
  ASSUME NEW a \in Seq(Pieces), NEW h \in Pieces, NEW b \in Seq(Pieces)
  PROVE  Joined(a \o <<h>> \o b, a, h, b)
<1> HIDE DEF Pieces
<1>1. a \o <<h>> \in Seq(Pieces) /\ Len(a \o <<h>>) = Len(a) + 1 OBVIOUS
<1>2. \A i \in 1..Len(a) : (a \o <<h>>)[i] = a[i] OBVIOUS
<1>3. (a \o <<h>>)[Len(a) + 1] = h OBVIOUS
<1> DEFINE c == a \o <<h>>
<1>4. c \in Seq(Pieces) /\ Len(c) = Len(a) + 1 /\ c[Len(a) + 1] = h
      /\ \A i \in 1..Len(a) : c[i] = a[i]
  BY <1>1, <1>2, <1>3
<1> HIDE DEF c
<1>5. /\ c \o b \in Seq(Pieces) /\ Len(c \o b) = Len(c) + Len(b)
      /\ \A i \in 1..Len(c) : (c \o b)[i] = c[i]
      /\ \A i \in 1..Len(b) : (c \o b)[Len(c) + i] = b[i]
  BY <1>4
<1>6. /\ c \o b \in Seq(Pieces) /\ Len(c \o b) = Len(a) + 1 + Len(b)
      /\ \A i \in 1..Len(a) : (c \o b)[i] = a[i]
      /\ (c \o b)[Len(a) + 1] = h
      /\ \A i \in 1..Len(b) : (c \o b)[Len(a) + 1 + i] = b[i]
  BY <1>4, <1>5
<1>7. Joined(c \o b, a, h, b) BY <1>6 DEF Joined
<1> QED BY <1>7 DEF c

-----------------------------------------------------------------------------
(* FlattenSeq joins the sequences one after the other: the equation of its *)
(* definition has a solution.                                              *)
Joins(F, s, n) ==
  /\ F = [i \in 1..n |-> F[i]]
  /\ \A i \in 1..n : F[i] = IF i = 1 THEN s[i] ELSE F[i-1] \o s[i]

LEMMA JoinsExist ==
  ASSUME NEW s
  PROVE  \A n \in Nat : \E F : Joins(F, s, n)
<1> DEFINE T == {n \in Nat : ~\E F : Joins(F, s, n)}
<1> SUFFICES ASSUME T # {} PROVE FALSE OBVIOUS
<1>1. PICK n \in T : \A m \in T : n <= m BY LeastNat
<1>2. CASE n = 0
  <2> DEFINE F == [i \in 1..0 |-> <<>>]
  <2>1. F = [i \in 1..0 |-> F[i]] /\ \A i \in 1..0 : FALSE OBVIOUS
  <2>2. Joins(F, s, 0) BY <2>1 DEF Joins
  <2> QED BY <2>2, <1>1, <1>2
<1>3. CASE n # 0
  <2>1. n - 1 \in Nat /\ n - 1 \notin T /\ n \in Nat BY <1>1, <1>3
  <2>2. PICK G : Joins(G, s, n - 1) BY <2>1
  <2> DEFINE e == IF n = 1 THEN s[1] ELSE G[n - 1] \o s[n]
             F == [i \in 1..n |-> IF i = n THEN e ELSE G[i]]
  <2>3. F[n] = e BY <2>1, <1>3
  <2>4. \A i \in 1..(n - 1) : F[i] = G[i] BY <2>1
  <2>5. F = [i \in 1..n |-> F[i]] OBVIOUS
  <2>6. \A i \in 1..(n - 1) : G[i] = IF i = 1 THEN s[i] ELSE G[i-1] \o s[i]
    BY <2>2 DEF Joins
  <2> HIDE DEF F
  <2>7. ASSUME NEW i \in 1..n PROVE F[i] = IF i = 1 THEN s[i] ELSE F[i-1] \o s[i]
    <3>1. CASE i = n /\ i = 1 BY <3>1, <2>3
    <3>2. CASE i = n /\ i # 1
      <4>1. n - 1 \in 1..(n - 1) BY <3>2, <2>1
      <4>2. F[n - 1] = G[n - 1] BY <4>1, <2>4
      <4> QED BY <4>2, <3>2, <2>3
    <3>3. CASE i # n
      <4>1. i \in 1..(n - 1) BY <3>3, <2>1
      <4>2. i # 1 => i - 1 \in 1..(n - 1) BY <4>1, <2>1
      <4> QED BY <4>1, <4>2, <2>4, <2>6
    <3> QED BY <3>1, <3>2, <3>3
  <2>8. Joins(F, s, n) BY <2>5, <2>7 DEF Joins
  <2> QED BY <2>8, <1>1
<1> QED BY <1>2, <1>3

Flattening(F, A, s, n) ==
  /\ F \in [0..n -> Seq(A)]
  /\ F[0] = <<>> /\ F[n] = FlattenSeq(s)
  /\ \A i \in 1..n : F[i] = F[i - 1] \o s[i]

LEMMA Flattened ==
  ASSUME NEW A, NEW n \in Nat, NEW s \in [1..n -> Seq(A)]
  PROVE  \E F : Flattening(F, A, s, n)
<1>1. Len(s) = n /\ DOMAIN s = 1..n OBVIOUS
<1>2. CASE n = 0
  <2>1. s = <<>> BY <1>1, <1>2
  <2>2. FlattenSeq(s) = <<>> BY <1>1, <1>2, <2>1 DEF FlattenSeq
  <2> DEFINE F == [i \in 0..0 |-> <<>>]
  <2>3. F \in [0..0 -> Seq(A)] /\ F[0] = <<>> OBVIOUS
  <2>4. \A i \in 1..0 : FALSE OBVIOUS
  <2> HIDE DEF F
  <2>5. Flattening(F, A, s, n) BY <1>2, <2>2, <2>3, <2>4 DEF Flattening
  <2> QED BY <2>5
<1>3. CASE n # 0
  <2> DEFINE Eq(G) == G = [i \in 1..n |-> IF i = 1 THEN s[i] ELSE G[i-1] \o s[i]]
             G == CHOOSE g : Eq(g)
  <2>1. PICK H : Joins(H, s, n) BY JoinsExist
  <2>2. Eq(H)
    <3> DEFINE R == [i \in 1..n |-> IF i = 1 THEN s[i] ELSE H[i-1] \o s[i]]
    <3>2. \A i \in 1..n : H[i] = R[i] BY <2>1 DEF Joins
    <3>3. H = [i \in 1..n |-> H[i]] BY <2>1 DEF Joins
    <3>4. [i \in 1..n |-> H[i]] = R BY <3>2
    <3> QED BY <3>3, <3>4
  <2>3. Eq(G) BY <2>2
  <2>4. FlattenSeq(s) = G[n] BY <1>1, <1>3 DEF FlattenSeq
  <2>5. \A i \in 1..n : G[i] = IF i = 1 THEN s[i] ELSE G[i-1] \o s[i] BY <2>3
  <2> HIDE DEF G, Eq
  <2>6. \A i \in 1..n : G[i] \in Seq(A)
    <3> DEFINE T == {i \in Nat : i \in 1..n /\ G[i] \notin Seq(A)}
    <3> SUFFICES ASSUME T # {} PROVE FALSE OBVIOUS
    <3>1. PICK i \in T : \A j \in T : i <= j BY LeastNat
    <3>2. i # 1 BY <3>1, <2>5
    <3>3. i - 1 \in 1..n /\ i - 1 \notin T BY <3>1, <3>2
    <3>4. G[i - 1] \in Seq(A) /\ s[i] \in Seq(A) BY <3>1, <3>3
    <3>5. G[i] = G[i - 1] \o s[i] BY <3>1, <3>2, <2>5
    <3>6. G[i] \in Seq(A) BY <3>4, <3>5
    <3> QED BY <3>1, <3>6
  <2> DEFINE F == [i \in 0..n |-> IF i = 0 THEN <<>> ELSE G[i]]
  <2>7. F[0] = <<>> /\ \A i \in 1..n : F[i] = G[i] OBVIOUS
  <2>8. F \in [0..n -> Seq(A)]
    <3> SUFFICES ASSUME NEW i \in 0..n PROVE (IF i = 0 THEN <<>> ELSE G[i]) \in Seq(A) OBVIOUS
    <3>1. CASE i = 0 BY <3>1
    <3>2. CASE i # 0
      <4>1. i \in 1..n BY <3>2
      <4> QED BY <4>1, <3>2, <2>6
    <3> QED BY <3>1, <3>2
  <2> HIDE DEF F
  <2>9. ASSUME NEW i \in 1..n PROVE F[i] = F[i - 1] \o s[i]
    <3>1. F[i] = G[i] /\ G[i] = IF i = 1 THEN s[i] ELSE G[i-1] \o s[i] BY <2>5, <2>7
    <3>2. CASE i = 1
      <4>1. s[1] \in Seq(A) BY <3>2
      <4>2. <<>> \o s[1] = s[1] BY <4>1
      <4> QED BY <4>2, <3>1, <3>2, <2>7
    <3>3. CASE i # 1
      <4>1. i - 1 \in 1..n BY <3>3
      <4> QED BY <4>1, <3>1, <3>3, <2>7
    <3> QED BY <3>2, <3>3
  <2>10. n \in 1..n BY <1>3
  <2>11. Flattening(F, A, s, n) BY <2>4, <2>7, <2>8, <2>9, <2>10 DEF Flattening
  <2> QED BY <2>11
<1> QED BY <1>2, <1>3

-----------------------------------------------------------------------------
(* The bytes of a text, and what the writer makes of them. *)

(* A byte of the upper half comes from an accented character. *)
LEMMA PageBytes ==
  ASSUME NEW t \in Seq(Pieces)
  PROVE  /\ Bytes(t) \in Seq({"low", "high"})
         /\ (\E k \in 1..Len(Bytes(t)) : Bytes(t)[k] = "high") <=> Range(t) \cap Accented # {}
<1> DEFINE n == Len(t)
           A == {"low", "high"}
           s == [i \in DOMAIN t |-> IF t[i] \in Accented THEN <<"high", "high">> ELSE <<"low">>]
           H(u) == \E k \in 1..Len(u) : u[k] = "high"
<1>1. n \in Nat /\ DOMAIN t = 1..n OBVIOUS
<1>2. <<"high", "high">> \in Seq(A) /\ <<"low">> \in Seq(A) OBVIOUS
<1>3. s \in [1..n -> Seq(A)] BY <1>1, <1>2
<1>4. \A i \in 1..n : s[i] = IF t[i] \in Accented THEN <<"high", "high">> ELSE <<"low">>
  BY <1>1
<1>5. Bytes(t) = FlattenSeq(s) BY DEF Bytes
<1> HIDE DEF n, A, s
<1>6a. PICK F : Flattening(F, A, s, n) BY <1>1, <1>3, Flattened
<1>6. /\ F \in [0..n -> Seq(A)] /\ F[0] = <<>> /\ F[n] = FlattenSeq(s)
      /\ \A i \in 1..n : F[i] = F[i - 1] \o s[i]
  BY <1>6a DEF Flattening
<1>7. ASSUME NEW i \in 1..n
      PROVE  H(F[i]) <=> H(F[i - 1]) \/ t[i] \in Accented
  <2>1. i - 1 \in 0..n /\ i \in 0..n BY <1>1
  <2>2. F[i - 1] \in Seq(A) /\ F[i] = F[i - 1] \o s[i] BY <2>1, <1>6
  <2>3. CASE t[i] \in Accented
    <3>1. s[i] = <<"high", "high">> BY <2>3, <1>4
    <3> DEFINE u == F[i - 1]
    <3>2. u \in Seq(A) /\ F[i] = u \o <<"high", "high">> BY <2>2, <3>1
    <3> HIDE DEF u
    <3>3. Len(F[i]) = Len(u) + 2 /\ F[i][Len(u) + 1] = "high" BY <3>2, <1>2
    <3>4. Len(u) + 1 \in 1..Len(F[i]) BY <3>2, <3>3
    <3> QED BY <2>3, <3>3, <3>4
  <2>4. CASE t[i] \notin Accented
    <3>1. s[i] = <<"low">> BY <2>4, <1>4
    <3> DEFINE u == F[i - 1]
    <3>2. u \in Seq(A) /\ F[i] = u \o <<"low">> BY <2>2, <3>1
    <3>3. H(F[i - 1]) <=> H(u) OBVIOUS
    <3> HIDE DEF u
    <3>4. Len(F[i]) = Len(u) + 1 /\ F[i][Len(u) + 1] = "low" /\ Len(u) \in Nat BY <3>2, <1>2
    <3>5. \A k \in 1..Len(u) : F[i][k] = u[k] BY <3>2, <1>2
    <3>6. H(F[i]) <=> H(u) BY <3>4, <3>5
    <3> QED BY <2>4, <3>3, <3>6
  <2> QED BY <2>3, <2>4
<1> DEFINE T == {i \in Nat : i <= n /\ ~(H(F[i]) <=> \E j \in 1..i : t[j] \in Accented)}
<1>8. T = {}
  <2> SUFFICES ASSUME T # {} PROVE FALSE OBVIOUS
  <2>1. PICK i \in T : \A j \in T : i <= j BY LeastNat
  <2>2. i # 0
    <3>1. ~H(F[0]) BY <1>6
    <3>2. ~\E j \in 1..0 : t[j] \in Accented OBVIOUS
    <3> HIDE DEF H
    <3> QED BY <3>1, <3>2, <2>1
  <2>3. i \in Nat /\ i <= n /\ i - 1 \in Nat /\ i - 1 <= n /\ i \in 1..n BY <2>1, <2>2, <1>1
  <2>3a. i - 1 \notin T
    <3>1. i - 1 < i BY <2>3
    <3> HIDE DEF T
    <3> QED BY <3>1, <2>1, <2>3
  <2> HIDE DEF H
  <2>4. H(F[i - 1]) <=> \E j \in 1..(i - 1) : t[j] \in Accented BY <2>3, <2>3a
  <2>5. H(F[i]) <=> H(F[i - 1]) \/ t[i] \in Accented BY <2>3, <1>7
  <2>6. (\E j \in 1..i : t[j] \in Accented) <=> (\E j \in 1..(i - 1) : t[j] \in Accented) \/ t[i] \in Accented
    BY <2>3
  <2> QED BY <2>1, <2>4, <2>5, <2>6
<1>9. H(F[n]) <=> \E j \in 1..n : t[j] \in Accented
  <2> HIDE DEF H
  <2>1. n \notin T BY <1>8
  <2>2. n \in Nat /\ n <= n BY <1>1
  <2> QED BY <2>1, <2>2
<1>10. Range(t) \cap Accented # {} <=> \E j \in 1..n : t[j] \in Accented
  BY <1>1 DEF Range
<1>11. F[n] \in Seq(A) /\ Bytes(t) = F[n] BY <1>1, <1>5, <1>6
<1> QED BY <1>9, <1>10, <1>11 DEF A

(* The encoding leaves the lower half alone and makes three bytes of every *)
(* byte of the upper half, of which the first is none of the page.         *)
LEMMA EncodedBytes ==
  ASSUME NEW b \in Seq({"low", "high"})
  PROVE  /\ Encoded(b) \in Seq({"low", "sign", "lead", "tail"})
         /\ Len(b) <= Len(Encoded(b))
         /\ (\A i \in 1..Len(b) : b[i] = "low") => Encoded(b) = b
         /\ (\E i \in 1..Len(b) : b[i] = "high") =>
              Len(Encoded(b)) > Len(b) /\ \E k \in 1..Len(b) : Encoded(b)[k] = "sign"
<1> DEFINE n == Len(b)
           A == {"low", "sign", "lead", "tail"}
           s == [i \in DOMAIN b |-> IF b[i] = "high" THEN <<"sign", "lead", "tail">> ELSE <<"low">>]
           Low(i) == \A j \in 1..i : b[j] = "low"
           Same(u, i) == Len(u) = i /\ \A j \in 1..i : u[j] = "low"
           More(u, i) == Len(u) > i /\ \E k \in 1..i : u[k] = "sign"
<1>1. n \in Nat /\ DOMAIN b = 1..n /\ \A i \in 1..n : b[i] \in {"low", "high"} OBVIOUS
<1>2. <<"sign", "lead", "tail">> \in Seq(A) /\ <<"low">> \in Seq(A) OBVIOUS
<1>3. s \in [1..n -> Seq(A)] BY <1>1, <1>2
<1>4. \A i \in 1..n : s[i] = IF b[i] = "high" THEN <<"sign", "lead", "tail">> ELSE <<"low">>
  BY <1>1
<1>5. Encoded(b) = FlattenSeq(s) BY DEF Encoded
<1> HIDE DEF n, A, s
<1>6a. PICK F : Flattening(F, A, s, n) BY <1>1, <1>3, Flattened
<1>6. /\ F \in [0..n -> Seq(A)] /\ F[0] = <<>> /\ F[n] = FlattenSeq(s)
      /\ \A i \in 1..n : F[i] = F[i - 1] \o s[i]
  BY <1>6a DEF Flattening
<1>7. ASSUME NEW i \in 1..n, NEW u \in Seq(A), u = F[i - 1]
      PROVE  /\ F[i] \in Seq(A) /\ Len(F[i]) = Len(u) + (IF b[i] = "high" THEN 3 ELSE 1)
             /\ \A k \in 1..Len(u) : F[i][k] = u[k]
             /\ F[i][Len(u) + 1] = IF b[i] = "high" THEN "sign" ELSE "low"
  <2>1. F[i] = u \o s[i] BY <1>6, <1>7
  <2>2. CASE b[i] = "high"
    <3>1. F[i] = u \o <<"sign", "lead", "tail">> BY <2>1, <2>2, <1>4
    <3> QED BY <3>1, <2>2, <1>2
  <2>3. CASE b[i] # "high"
    <3>1. F[i] = u \o <<"low">> BY <2>1, <2>3, <1>4
    <3> QED BY <3>1, <2>3, <1>2
  <2> QED BY <2>2, <2>3
<1> DEFINE T == {i \in Nat : i <= n /\ ~((Low(i) /\ Same(F[i], i)) \/ (~Low(i) /\ More(F[i], i)))}
<1>8. T = {}
  <2> SUFFICES ASSUME T # {} PROVE FALSE OBVIOUS
  <2>1. PICK i \in T : \A j \in T : i <= j BY LeastNat
  <2>2. i # 0
    <3>1. Low(0) /\ Same(F[0], 0) BY <1>6
    <3> HIDE DEF Low, Same, More
    <3> QED BY <3>1, <2>1
  <2>3. i \in Nat /\ i <= n /\ i - 1 \in Nat /\ i - 1 <= n /\ i \in 1..n BY <2>1, <2>2, <1>1
  <2>3a. i - 1 \notin T
    <3>1. i - 1 < i BY <2>3
    <3> HIDE DEF T
    <3> QED BY <3>1, <2>1, <2>3
  <2>4. PICK u \in Seq(A) : u = F[i - 1] BY <2>3, <1>6
  <2>5. PICK v \in Seq(A) : v = F[i] BY <2>3, <1>1, <1>6
  <2>6. /\ Len(v) = Len(u) + (IF b[i] = "high" THEN 3 ELSE 1) /\ Len(u) \in Nat
        /\ \A k \in 1..Len(u) : v[k] = u[k]
        /\ v[Len(u) + 1] = IF b[i] = "high" THEN "sign" ELSE "low"
    <3>1. /\ Len(F[i]) = Len(u) + (IF b[i] = "high" THEN 3 ELSE 1)
          /\ \A k \in 1..Len(u) : F[i][k] = u[k]
          /\ F[i][Len(u) + 1] = IF b[i] = "high" THEN "sign" ELSE "low"
      BY <2>3, <2>4, <1>7
    <3> HIDE DEF Low, Same, More, T
    <3>2. Len(u) \in Nat BY <2>4
    <3> QED BY <3>1, <3>2, <2>5
  <2>7. (Low(i - 1) /\ Same(u, i - 1)) \/ (~Low(i - 1) /\ More(u, i - 1))
    <3> DEFINE P(j) == (Low(j) /\ Same(F[j], j)) \/ (~Low(j) /\ More(F[j], j))
    <3>1. T = {j \in Nat : j <= n /\ ~P(j)} OBVIOUS
    <3> HIDE DEF P, T
    <3>2. P(i - 1) BY <3>1, <2>3, <2>3a
    <3>3. F[i - 1] = u BY <2>4
    <3>4. (Low(i - 1) /\ Same(F[i - 1], i - 1)) \/ (~Low(i - 1) /\ More(F[i - 1], i - 1))
      BY <3>2 DEF P
    <3> HIDE DEF Low, Same, More
    <3> QED BY <3>3, <3>4
  <2>8. ~((Low(i) /\ Same(v, i)) \/ (~Low(i) /\ More(v, i)))
    <3> HIDE DEF Low, Same, More
    <3> QED BY <2>1, <2>5
  <2>9. CASE Low(i - 1) /\ Same(u, i - 1) /\ b[i] # "high"
    <3>1. Low(i) BY <2>9, <2>3, <1>1
    <3>2. Len(u) = i - 1 /\ b[i] # "high" BY <2>9
    <3>3. Len(v) = i BY <3>2, <2>6, <2>3
    <3>4. v[i] = "low" BY <3>2, <2>6, <2>3
    <3>5. \A j \in 1..(i - 1) : v[j] = "low" BY <2>9, <3>2, <2>6
    <3>6. ASSUME NEW j \in 1..i PROVE v[j] = "low"
      <4>1. j = i \/ j \in 1..(i - 1) BY <2>3
      <4> QED BY <4>1, <3>4, <3>5
    <3>7. Same(v, i) BY <3>3, <3>6
    <3> QED BY <3>1, <3>7, <2>8
  <2>10. CASE Low(i - 1) /\ Same(u, i - 1) /\ b[i] = "high"
    <3>1. ~Low(i) BY <2>10, <2>3
    <3>2. v[i] = "sign" /\ Len(v) > i BY <2>10, <2>6, <2>3
    <3>3. More(v, i) BY <3>2, <2>3
    <3> QED BY <3>1, <3>3, <2>8
  <2>11. CASE ~Low(i - 1) /\ More(u, i - 1)
    <3>1. ~Low(i) BY <2>11, <2>3
    <3>2. PICK k \in 1..(i - 1) : u[k] = "sign" BY <2>11
    <3>3. k \in 1..Len(u) /\ k \in 1..i BY <3>2, <2>11, <2>6, <2>3
    <3>4. v[k] = "sign" BY <3>2, <3>3, <2>6
    <3>5. Len(v) > i BY <2>11, <2>6, <2>3
    <3>6. More(v, i) BY <3>3, <3>4, <3>5
    <3> QED BY <3>1, <3>6, <2>8
  <2> QED BY <2>7, <2>9, <2>10, <2>11
<1>9. (Low(n) /\ Same(F[n], n)) \/ (~Low(n) /\ More(F[n], n))
  <2> HIDE DEF Low, Same, More
  <2>1. n \notin T BY <1>8
  <2>2. n \in Nat /\ n <= n BY <1>1
  <2> QED BY <2>1, <2>2
<1>10. PICK w \in Seq(A) : w = F[n] BY <1>1, <1>6
<1>11. (Low(n) /\ Same(w, n)) \/ (~Low(n) /\ More(w, n)) BY <1>9, <1>10
<1>12. Encoded(b) = w BY <1>5, <1>6, <1>10
<1>13. Len(w) >= n BY <1>11, <1>1
<1>14. Low(n) => w = b
  <2> SUFFICES ASSUME Low(n) PROVE w = b OBVIOUS
  <2>1. Same(w, n) BY <1>11
  <2>2. w \in Seq(A) /\ Len(w) = Len(b) /\ \A j \in 1..Len(b) : w[j] = b[j] BY <2>1 DEF n
  <2>3. DOMAIN w = DOMAIN b BY <2>2
  <2> QED BY <2>2, <2>3
<1>15. (\E i \in 1..n : b[i] = "high") => More(w, n) BY <1>11
<1>16. /\ w \in Seq(A) /\ n <= Len(w)
       /\ (\A i \in 1..n : b[i] = "low") => w = b
       /\ (\E i \in 1..n : b[i] = "high") => Len(w) > n /\ \E k \in 1..n : w[k] = "sign"
  BY <1>13, <1>14, <1>15, <1>1, <1>10
<1>17. /\ w \in Seq({"low", "sign", "lead", "tail"}) /\ Len(b) <= Len(w)
       /\ (\A i \in 1..Len(b) : b[i] = "low") => w = b
       /\ (\E i \in 1..Len(b) : b[i] = "high") =>
            Len(w) > Len(b) /\ \E k \in 1..Len(b) : w[k] = "sign"
  <2>1. w \in Seq({"low", "sign", "lead", "tail"}) BY <1>16 DEF A
  <2>2. /\ n <= Len(w)
        /\ (\A i \in 1..n : b[i] = "low") => w = b
        /\ (\E i \in 1..n : b[i] = "high") => Len(w) > n /\ \E k \in 1..n : w[k] = "sign"
    BY <1>16
  <2>3. n = Len(b) BY DEF n
  <2> QED BY <2>1, <2>2, <2>3, Zenon
<1> QED BY <1>12, <1>17, Zenon

(* What a browser that reads the announced length has. *)
LEMMA LengthOfPage ==
  ASSUME NEW t \in Seq(Pieces)
  PROVE  LET b == Bytes(t)
             w == Encoded(b)
         IN /\ Len(b) <= Len(w)
            /\ SubSeq(w, 1, Len(b)) = b <=> Range(t) \cap Accented = {}
            /\ Len(b) = Len(w) <=> Range(t) \cap Accented = {}
<1> DEFINE b == Bytes(t)
           w == Encoded(b)
           plain == Range(t) \cap Accented = {}
<1>1. b \in Seq({"low", "high"}) /\ ((\E k \in 1..Len(b) : b[k] = "high") <=> ~plain)
  BY PageBytes
<1> HIDE DEF b
<1>2. /\ w \in Seq({"low", "sign", "lead", "tail"}) /\ Len(b) <= Len(w)
      /\ (\A i \in 1..Len(b) : b[i] = "low") => w = b
      /\ (\E i \in 1..Len(b) : b[i] = "high") =>
           Len(w) > Len(b) /\ \E k \in 1..Len(b) : w[k] = "sign"
  BY <1>1, EncodedBytes
<1> HIDE DEF w
<1>3. Len(b) \in Nat /\ Len(w) \in Nat BY <1>1, <1>2
<1>4. CASE plain
  <2>1. \A i \in 1..Len(b) : b[i] = "low" BY <1>1, <1>4
  <2>2. w = b BY <2>1, <1>2
  <2>3. SubSeq(b, 1, Len(b)) = b BY <1>1
  <2> QED BY <2>2, <2>3, <1>2, <1>4 DEF b, w
<1>5. CASE ~plain
  <2>1. PICK k \in 1..Len(b) : w[k] = "sign" BY <1>1, <1>2, <1>5
  <2>2. b[k] # "sign" BY <1>1
  <2>3. SubSeq(w, 1, Len(b))[k] = w[k] BY <1>2, <1>3
  <2>4. SubSeq(w, 1, Len(b)) # b BY <2>1, <2>2, <2>3
  <2>5. Len(w) > Len(b) BY <1>1, <1>2, <1>5
  <2> QED BY <2>4, <2>5, <1>2, <1>3, <1>5 DEF b, w
<1> QED BY <1>4, <1>5

-----------------------------------------------------------------------------
(* Types. *)

(* A function that is passed over, or whose result goes into the page,     *)
(* leaves the list at its next place.                                      *)
LEMMA PageInit == Init => PageInv
<1> SUFFICES ASSUME Init PROVE PageInv OBVIOUS
<1>1. file \in Seq(Marks \cup Texts) /\ isSmart \in BOOLEAN
      /\ cServer \in {"lists", "accents", "dies", "absent"}
  <2>1. file \in BoundedSeq(Marks \cup Texts, MaxPieces) BY DEF Init
  <2>2. \A m \in 0..MaxPieces : [1..m -> Marks \cup Texts] \subseteq Seq(Marks \cup Texts)
    BY MaxPiecesAssumption
  <2>3. file \in Seq(Marks \cup Texts) BY <2>1, <2>2 DEF BoundedSeq, SeqOf
  <2> QED BY <2>3 DEF Init
<1>2. file \in Seq(Marks \cup Texts \cup Htmls)
  <2> DEFINE A == Marks \cup Texts
  <2>1. file \in Seq(A) BY <1>1
  <2>2. \A i \in 1..Len(file) : file[i] \in A \cup Htmls
    <3> HIDE DEF A
    <3> QED BY <2>1
  <2> HIDE DEF A
  <2>3. file \in Seq(A \cup Htmls) BY <2>1, <2>2
  <2> QED BY <2>3 DEF A
<1>3. buff = file /\ builder = <<>> /\ length = 0 /\ wire = <<>> /\ next = 1
      /\ pc = IF isSmart THEN "inject" ELSE "send"
  BY DEF Init
<1>4. <<>> \in Seq(Marks \cup Texts \cup Htmls) /\ <<>> \in Seq({"low", "high", "sign", "lead", "tail"})
  OBVIOUS
<1>5. next \in 1..Len(Functions) + 1 BY <1>3, ListedMarks
<1>6. PageTypeOK BY <1>1, <1>2, <1>3, <1>4, <1>5, Zenon DEF PageTypeOK
<1>7. pc \in {"inject", "send", "sent", Thrown} BY <1>1, <1>3
<1> QED BY <1>1, <1>3, <1>6 DEF PageInv

LEMMA PageStep == PageInv /\ [Next]_vars => PageInv'
<1> SUFFICES ASSUME PageInv, [Next]_vars PROVE PageInv' OBVIOUS
<1>1. /\ file \in Seq(Marks \cup Texts) /\ isSmart \in BOOLEAN
      /\ cServer \in {"lists", "accents", "dies", "absent"}
      /\ pc \in {"inject", "send", "sent", Thrown} /\ next \in 1..5
      /\ buff \in Seq(Pieces) /\ builder \in Seq(Pieces)
      /\ length \in Nat /\ wire \in Seq({"low", "high", "sign", "lead", "tail"})
  BY ListedMarks DEF PageInv, PageTypeOK, Pieces
<1>2. ASSUME NEW b, Step(b), b \in Seq(Pieces), buff' \in Seq(Pieces), pc = "inject"
      PROVE  PageInv'
  <2>1. next \in 1..4 /\ isSmart BY <1>2 DEF PageInv
  <2>2. /\ next' = next + 1 /\ builder' = b
        /\ pc' = IF next = 4 THEN "send" ELSE "inject"
        /\ file' = file /\ isSmart' = isSmart /\ cServer' = cServer
        /\ length' = length /\ wire' = wire
    BY <1>2, ListedMarks DEF Step, fileVars
  <2>3. next' \in 1..5 /\ (pc' = "inject" => next' \in 1..4) /\ (pc' = "send" => next' = 5)
    BY <2>1, <2>2
  <2>4. pc' \in {"inject", "send"} BY <2>2
  <2>5. PageTypeOK'
    BY <1>1, <1>2, <2>2, <2>3, <2>4, ListedMarks DEF PageTypeOK, Pieces
  <2> QED BY <2>1, <2>2, <2>3, <2>4, <2>5 DEF PageInv
<1>3. CASE Skip
  BY <1>1, <1>2, <1>3 DEF Skip
<1>4. CASE Inject
  <2> DEFINE m == Functions[next]
             b == builder \o UpTo(buff, m) \o <<functionCaller(m)>> \o UpTo(After(buff, m), m)
  <2>1. /\ pc = "inject" /\ Contains(buff, m) /\ functionCaller(m) # Thrown
        /\ Step(b) /\ buff' = builder'
    BY <1>4 DEF Inject
  <2>2. m \in Marks BY <2>1, ListedMarks DEF PageInv
  <2> HIDE DEF m
  <2>3. functionCaller(m) \in Pieces BY <2>1, <2>2, <1>1, Called DEF Pieces
  <2>4. UpTo(buff, m) \in Seq(Pieces) /\ After(buff, m) \in Seq(Pieces)
    BY <1>1, <2>1, Before, Behind
  <2>5. UpTo(After(buff, m), m) \in Seq(Pieces) BY <2>4, Before
  <2>6. b \in Seq(Pieces)
    <3> HIDE DEF Pieces
    <3> QED BY <1>1, <2>3, <2>4, <2>5
  <2> HIDE DEF b
  <2>7. builder' = b BY <2>1 DEF Step
  <2>8. buff' \in Seq(Pieces) BY <2>1, <2>6, <2>7
  <2> QED BY <1>2, <2>1, <2>6, <2>8
<1>5. CASE InjectFails
  <2>1. pc' = Thrown /\ UNCHANGED <<fileVars, next, buff, builder, length, wire>>
    BY <1>5 DEF InjectFails, Throw
  <2> QED BY <2>1 DEF PageInv, PageTypeOK, fileVars, Thrown
<1>6. CASE Send
  <2>1. /\ pc = "send" /\ pc' = "sent" /\ length' = Len(Bytes(buff))
        /\ wire' = Encoded(Bytes(buff)) /\ UNCHANGED <<fileVars, next, buff, builder>>
    BY <1>6 DEF Send
  <2>2. Bytes(buff) \in Seq({"low", "high"}) BY <1>1, PageBytes
  <2>3. wire' \in Seq({"low", "sign", "lead", "tail"}) BY <2>1, <2>2, EncodedBytes
  <2>4. wire' \in Seq({"low", "high", "sign", "lead", "tail"}) BY <2>3
  <2>5. length' \in Nat BY <2>1, <2>2
  <2> QED BY <2>1, <2>4, <2>5 DEF PageInv, PageTypeOK, fileVars, Thrown
<1>7. CASE UNCHANGED vars
  BY <1>7 DEF vars, fileVars, PageInv, PageTypeOK
<1> QED BY <1>3, <1>4, <1>5, <1>6, <1>7 DEF Next

LEMMA PageInvariant == Spec => []PageInv
<1> QED BY PageInit, PageStep, PTL DEF Spec

(* The variables of the page keep their types, for files of any length.    *)
THEOREM PageTypeCorrect == Spec => []PageTypeOK
<1>1. PageInv => PageTypeOK BY DEF PageInv
<1> QED BY <1>1, PageInvariant, PTL

-----------------------------------------------------------------------------
(* The length. *)

(* The length that is announced is that of what is sent exactly for a page *)
(* of ASCII text, whatever the file and the injections were, and it is     *)
(* never more.                                                             *)
THEOREM LengthTellsAsciiHolds == Spec => []LengthTellsAscii
<1>1. Init => LengthTellsAscii
  <2>1. Init => pc # "sent" BY DEF Init
  <2> QED BY <2>1 DEF LengthTellsAscii
<1>2. PageInv /\ LengthTellsAscii /\ [Next]_vars => LengthTellsAscii'
  <2> SUFFICES ASSUME PageInv, LengthTellsAscii, [Next]_vars, pc' = "sent"
               PROVE  LengthTellsAscii'
    BY DEF LengthTellsAscii
  <2>1. CASE Send
    <3>1. /\ length' = Len(Bytes(buff)) /\ wire' = Encoded(Bytes(buff)) /\ buff' = buff
      BY <2>1 DEF Send
    <3>2. buff \in Seq(Pieces) BY DEF PageInv, PageTypeOK, Pieces
    <3>3. /\ length' <= Len(wire')
          /\ SubSeq(wire', 1, length') = Bytes(buff) <=> Range(buff) \cap Accented = {}
          /\ length' = Len(wire') <=> Range(buff) \cap Accented = {}
      BY <3>1, <3>2, LengthOfPage
    <3> QED BY <3>1, <3>3 DEF LengthTellsAscii
  <2>2. CASE UNCHANGED vars BY <2>2 DEF vars, LengthTellsAscii
  <2>3. CASE Skip \/ Inject \/ InjectFails
    <3>1. pc' \in {"send", "inject", Thrown}
      BY <2>3 DEF Skip, Inject, InjectFails, Step, Throw
    <3> QED BY <3>1 DEF Thrown
  <2> QED BY <2>1, <2>2, <2>3 DEF Next
<1> QED BY <1>1, <1>2, PageInvariant, PTL DEF Spec

-----------------------------------------------------------------------------
(* Pages that are not made. *)

(* The parts that split cuts out at a marker, and what is joined of them,  *)
(* keep what Traced says of the last marker: it stood before a marker.     *)
LEMMA TracedUpTo ==
  ASSUME NEW t \in Seq(Pieces), NEW m \in Marks, Traced(t)
  PROVE  Traced(UpTo(t, m))
<1> DEFINE u == UpTo(t, m)
<1>1. /\ u \in Seq(Pieces) /\ Len(u) <= Len(t) /\ Len(u) \in Nat /\ Len(t) \in Nat
      /\ \A i \in 1..Len(u) : u[i] = t[i]
      /\ Len(u) < Len(t) => t[Len(u) + 1] = m
  <2>1. ~Contains(t, m) => Len(u) = Len(t) BY Before
  <2> QED BY <2>1, Before
<1> HIDE DEF u
<1>2. ASSUME NEW i \in 1..Len(u), u[i] \in Marks
      PROVE  \E j \in Marked : /\ file[j] = u[i]
                               /\ (i = Len(u) \/ u[i + 1] \in Marks) => Bare(j)
  <2>1. i \in 1..Len(t) /\ t[i] = u[i] BY <1>1
  <2>2. PICK j \in Marked : /\ file[j] = t[i]
                            /\ (i = Len(t) \/ t[i + 1] \in Marks) => Bare(j)
    BY <1>2, <2>1 DEF Traced
  <2>3. CASE i = Len(u)
    <3>1. i = Len(t) \/ t[i + 1] \in Marks BY <1>1, <2>3
    <3> QED BY <2>1, <2>2, <3>1
  <2>4. CASE i # Len(u)
    <3>1. i + 1 \in 1..Len(u) BY <1>1, <2>4
    <3>2. t[i + 1] = u[i + 1] BY <1>1, <3>1
    <3> QED BY <2>1, <2>2, <2>4, <3>2
  <2> QED BY <2>3, <2>4
<1>3. Traced(u) BY <1>2 DEF Traced
<1> QED BY <1>3 DEF u

LEMMA TracedAfter ==
  ASSUME NEW t \in Seq(Pieces), NEW m \in Marks, Contains(t, m), Traced(t)
  PROVE  Traced(After(t, m))
<1> DEFINE u == After(t, m)
           k == First(t, m)
<1>1. k \in 1..Len(t) /\ Len(t) \in Nat BY FirstOne
<1>2. Len(u) = Len(t) - k /\ \A i \in 1..Len(u) : u[i] = t[k + i] BY Behind
<1> HIDE DEF u, k
<1>3. ASSUME NEW i \in 1..Len(u), u[i] \in Marks
      PROVE  \E j \in Marked : /\ file[j] = u[i]
                               /\ (i = Len(u) \/ u[i + 1] \in Marks) => Bare(j)
  <2>1. k + i \in 1..Len(t) /\ t[k + i] = u[i] BY <1>1, <1>2
  <2>2. PICK j \in Marked : /\ file[j] = t[k + i]
                            /\ (k + i = Len(t) \/ t[k + i + 1] \in Marks) => Bare(j)
    BY <1>3, <2>1 DEF Traced
  <2>3. CASE i = Len(u)
    <3>1. k + i = Len(t) BY <1>1, <1>2, <2>3
    <3> QED BY <2>1, <2>2, <3>1
  <2>4. CASE i # Len(u)
    <3>1. i + 1 \in 1..Len(u) BY <1>1, <1>2, <2>4
    <3>2. t[k + (i + 1)] = u[i + 1] BY <1>2, <3>1
    <3>3. t[k + i + 1] = u[i + 1] BY <3>2, <1>1
    <3> QED BY <2>1, <2>2, <2>4, <3>3
  <2> QED BY <2>3, <2>4
<1>4. Traced(u) BY <1>3 DEF Traced
<1> QED BY <1>4 DEF u

LEMMA TracedJoin ==
  ASSUME NEW a \in Seq(Pieces), NEW b \in Seq(Pieces), Traced(a), Traced(b)
  PROVE  Traced(a \o b)
<1> DEFINE u == a \o b
<1>1. /\ Len(u) = Len(a) + Len(b) /\ Len(a) \in Nat /\ Len(b) \in Nat
      /\ \A i \in 1..Len(a) : u[i] = a[i]
      /\ \A i \in 1..Len(b) : u[Len(a) + i] = b[i]
  <2> HIDE DEF Pieces
  <2>1. Len(u) = Len(a) + Len(b) /\ Len(a) \in Nat /\ Len(b) \in Nat OBVIOUS
  <2>2. \A i \in 1..Len(a) : u[i] = a[i] OBVIOUS
  <2>3. \A i \in 1..Len(b) : u[Len(a) + i] = b[i] OBVIOUS
  <2> QED BY <2>1, <2>2, <2>3
<1> HIDE DEF u
<1>2. ASSUME NEW i \in 1..Len(u), u[i] \in Marks
      PROVE  \E j \in Marked : /\ file[j] = u[i]
                               /\ (i = Len(u) \/ u[i + 1] \in Marks) => Bare(j)
  <2>1. CASE i \in 1..Len(a)
    <3>1. PICK j \in Marked : /\ file[j] = a[i]
                              /\ (i = Len(a) \/ a[i + 1] \in Marks) => Bare(j)
      BY <1>1, <1>2, <2>1 DEF Traced
    <3>2. i # Len(a) => i + 1 \in 1..Len(a) /\ i # Len(u) BY <1>1, <2>1
    <3>3. i # Len(a) => u[i + 1] = a[i + 1] BY <1>1, <3>2
    <3>4. (i = Len(u) \/ u[i + 1] \in Marks) => Bare(j) BY <3>1, <3>2, <3>3
    <3> QED BY <1>1, <2>1, <3>1, <3>4
  <2>2. CASE i \notin 1..Len(a)
    <3>1. PICK k \in 1..Len(b) : i = Len(a) + k
      <4>1. i - Len(a) \in 1..Len(b) /\ i = Len(a) + (i - Len(a)) BY <1>1, <2>2
      <4> QED BY <4>1
    <3>2. PICK j \in Marked : /\ file[j] = b[k]
                              /\ (k = Len(b) \/ b[k + 1] \in Marks) => Bare(j)
      BY <1>1, <1>2, <3>1 DEF Traced
    <3>3. i = Len(u) => k = Len(b) BY <1>1, <3>1
    <3>4. k # Len(b) => k + 1 \in 1..Len(b) BY <1>1, <3>1
    <3>5. k # Len(b) => u[Len(a) + (k + 1)] = b[k + 1] BY <1>1, <3>4
    <3>6. Len(a) + (k + 1) = i + 1 BY <1>1, <3>1
    <3>7. k # Len(b) => u[i + 1] = b[k + 1] BY <3>5, <3>6
    <3>8. (i = Len(u) \/ u[i + 1] \in Marks) => Bare(j) BY <3>2, <3>3, <3>7
    <3> QED BY <1>1, <3>1, <3>2, <3>8
  <2> QED BY <2>1, <2>2
<1>3. Traced(u) BY <1>2 DEF Traced
<1> QED BY <1>3 DEF u

(* What a function writes traces every marker to the file. *)
LEMMA TracedInjection ==
  ASSUME PageInv, pc = "inject", Traced(buff), Traced(builder),
         NEW m \in Marks, Contains(buff, m), functionCaller(m) # Thrown
  PROVE  Traced(builder \o UpTo(buff, m) \o <<functionCaller(m)>> \o UpTo(After(buff, m), m))
<1> DEFINE a == UpTo(buff, m)
           h == <<functionCaller(m)>>
           b == UpTo(After(buff, m), m)
<1>1. /\ buff \in Seq(Pieces) /\ builder \in Seq(Pieces)
      /\ cServer \in {"lists", "accents", "dies", "absent"}
  BY DEF PageInv, PageTypeOK, Pieces
<1>2. functionCaller(m) \in Pieces /\ functionCaller(m) \notin Marks
  BY <1>1, Called DEF Pieces
<1>3. h \in Seq(Pieces) /\ Traced(h)
  <2>1. Len(h) = 1 /\ h[1] = functionCaller(m) OBVIOUS
  <2> HIDE DEF h
  <2>2. Traced(h) BY <2>1, <1>2 DEF Traced
  <2> QED BY <2>2, <1>2 DEF h
<1>4. a \in Seq(Pieces) /\ Traced(a) BY <1>1, Before, TracedUpTo
<1>5. After(buff, m) \in Seq(Pieces) /\ Traced(After(buff, m)) BY <1>1, Behind, TracedAfter
<1>6. b \in Seq(Pieces) /\ Traced(b) BY <1>5, Before, TracedUpTo
<1> HIDE DEF a, b, h
<1>7. builder \o a \in Seq(Pieces) /\ Traced(builder \o a) BY <1>1, <1>4, TracedJoin
<1> DEFINE c == builder \o a
<1>8. c \in Seq(Pieces) /\ Traced(c) BY <1>7
<1> HIDE DEF c
<1>9. c \o h \in Seq(Pieces) /\ Traced(c \o h) BY <1>3, <1>8, TracedJoin
<1> DEFINE d == c \o h
<1>10. d \in Seq(Pieces) /\ Traced(d) BY <1>9
<1> HIDE DEF d
<1>11. Traced(d \o b) BY <1>6, <1>10, TracedJoin
<1> QED BY <1>11 DEF a, b, c, d, h

(* When split has no second part, the first marker of the text is at its   *)
(* end or another one of its kind follows.                                 *)
LEMMA NoSecondPart ==
  ASSUME PageInv, Traced(buff), NEW m \in Marks, Contains(buff, m), ~HasTwoParts(buff, m)
  PROVE  \E i \in Marked : file[i] = m /\ Bare(i)
<1> DEFINE k == First(buff, m)
           u == After(buff, m)
<1>1. buff \in Seq(Pieces) BY DEF PageInv, PageTypeOK, Pieces
<1>2. k \in 1..Len(buff) /\ buff[k] = m /\ Len(buff) \in Nat BY <1>1, FirstOne
<1>3. /\ u \in Seq(Pieces) /\ Len(u) = Len(buff) - k
      /\ \A i \in 1..Len(u) : u[i] = buff[k + i]
  BY <1>1, Behind
<1>4. \A i \in DOMAIN u : u[i] = m BY DEF HasTwoParts
<1> HIDE DEF k, u
<1>5. k = Len(buff) \/ buff[k + 1] \in Marks
  <2>1. CASE Len(u) = 0 BY <2>1, <1>2, <1>3
  <2>2. CASE Len(u) # 0
    <3>1. 1 \in 1..Len(u) /\ DOMAIN u = 1..Len(u) BY <2>2, <1>3
    <3>2. u[1] = m /\ u[1] = buff[k + 1] BY <3>1, <1>3, <1>4
    <3> QED BY <3>2
  <2> QED BY <2>1, <2>2
<1>6. PICK j \in Marked : /\ file[j] = buff[k]
                          /\ (k = Len(buff) \/ buff[k + 1] \in Marks) => Bare(j)
  BY <1>2 DEF Traced
<1> QED BY <1>2, <1>5, <1>6

LEMMA TraceInit == Init => TraceInv
<1> SUFFICES ASSUME Init PROVE TraceInv OBVIOUS
<1>1. buff = file /\ builder = <<>> /\ pc # Thrown BY DEF Init, Thrown
<1>2. file \in Seq(Pieces) BY PageInit, <1>1 DEF PageInv, PageTypeOK, Pieces
<1>3. Len(file) \in Nat /\ DOMAIN file = 1..Len(file) BY <1>2
<1>4. Traced(file)
  <2> SUFFICES ASSUME NEW i \in 1..Len(file), file[i] \in Marks
               PROVE  \E j \in Marked : /\ file[j] = file[i]
                                        /\ (i = Len(file) \/ file[i + 1] \in Marks) => Bare(j)
    BY DEF Traced
  <2>1. i \in Marked BY <1>3 DEF Marked
  <2> DEFINE n == Len(file)
  <2>2. i # n => i + 1 \in 1..n
    <3>1. n \in Nat /\ i \in 1..n BY <1>3
    <3> HIDE DEF n
    <3> QED BY <3>1
  <2>3. (i = Len(file) \/ file[i + 1] \in Marks) => Bare(i)
    BY <1>3, <2>2 DEF Bare, Marked
  <2> QED BY <2>1, <2>3
<1>5. Traced(<<>>) BY DEF Traced
<1> QED BY <1>1, <1>4, <1>5 DEF TraceInv, ThrowsForCause

LEMMA TraceStep == PageInv /\ TraceInv /\ [Next]_vars => TraceInv'
<1> SUFFICES ASSUME PageInv, TraceInv, [Next]_vars PROVE TraceInv' OBVIOUS
<1>1. /\ file' = file /\ cServer' = cServer
  BY DEF Next, vars, fileVars, Skip, Inject, InjectFails, Send, Step, Throw
<1>2. Marked' = Marked /\ \A i : Bare(i)' <=> Bare(i) BY <1>1 DEF Marked, Bare
<1>4. CASE Skip
  <2>1. /\ pc = "inject" /\ pc' \in {"send", "inject"}
        /\ buff' = buff /\ builder' = builder
    BY <1>4 DEF Skip, Step
  <2>2. Traced(buff)' <=> Traced(buff) BY <2>1, <1>1, <1>2 DEF Traced
  <2>3. Traced(builder)' <=> Traced(builder) BY <2>1, <1>1, <1>2 DEF Traced
  <2> QED BY <2>1, <2>2, <2>3 DEF TraceInv, ThrowsForCause, Thrown
<1>5. CASE Inject
  <2> DEFINE m == Functions[next]
             b == builder \o UpTo(buff, m) \o <<functionCaller(m)>> \o UpTo(After(buff, m), m)
  <2>1. /\ pc = "inject" /\ Contains(buff, m) /\ functionCaller(m) # Thrown
        /\ Step(b) /\ buff' = builder'
    BY <1>5 DEF Inject
  <2>2. m \in Marks BY <2>1, ListedMarks DEF PageInv
  <2>3. Traced(buff) /\ Traced(builder) BY <2>1 DEF TraceInv
  <2> HIDE DEF m
  <2>4. Traced(b) BY <2>1, <2>2, <2>3, TracedInjection
  <2> HIDE DEF b
  <2>5. builder' = b /\ buff' = b /\ pc' \in {"send", "inject"} BY <2>1 DEF Step
  <2>6. Traced(buff)' BY <2>4, <2>5, <1>1, <1>2 DEF Traced
  <2>7. Traced(builder)' BY <2>4, <2>5, <1>1, <1>2 DEF Traced
  <2> QED BY <2>5, <2>6, <2>7 DEF TraceInv, ThrowsForCause, Thrown
<1>6. CASE InjectFails
  <2> DEFINE m == Functions[next]
  <2>1. /\ pc = "inject" /\ Contains(buff, m) /\ pc' = Thrown
        /\ functionCaller(m) = Thrown \/ ~HasTwoParts(buff, m)
    BY <1>6 DEF InjectFails, Throw
  <2>2. m \in Marks BY <2>1, ListedMarks DEF PageInv
  <2>3. Traced(buff) BY <2>1 DEF TraceInv
  <2> HIDE DEF m
  <2>4. \E i \in Marked : functionCaller(file[i]) = Thrown \/ Bare(i)
    <3>1. CASE functionCaller(m) = Thrown
      <4>1. PICK k \in 1..Len(buff) : buff[k] = m BY <2>1 DEF Contains
      <4>2. PICK j \in Marked : file[j] = buff[k] BY <2>2, <2>3, <4>1 DEF Traced
      <4> QED BY <3>1, <4>1, <4>2
    <3>2. CASE ~HasTwoParts(buff, m) BY <3>2, <2>1, <2>2, <2>3, NoSecondPart
    <3> QED BY <2>1, <3>1, <3>2
  <2>5. \A i : functionCaller(file[i])' = functionCaller(file[i])
    BY <1>1 DEF functionCaller, MovieList
  <2>6. ThrowsForCause' BY <2>4, <2>5, <1>1, <1>2 DEF ThrowsForCause
  <2> QED BY <2>1, <2>6 DEF TraceInv, Thrown
<1>7. CASE Send \/ UNCHANGED vars
  <2>1. buff' = buff /\ builder' = builder /\ (pc' = pc \/ (pc = "send" /\ pc' = "sent"))
    BY <1>7 DEF Send, vars
  <2>2. Traced(buff)' <=> Traced(buff) BY <2>1, <1>1, <1>2 DEF Traced
  <2>3. Traced(builder)' <=> Traced(builder) BY <2>1, <1>1, <1>2 DEF Traced
  <2>4. \A i : functionCaller(file[i])' = functionCaller(file[i])
    BY <1>1 DEF functionCaller, MovieList
  <2>5. ThrowsForCause' BY <2>1, <2>4, <1>1, <1>2 DEF TraceInv, ThrowsForCause, Thrown
  <2> QED BY <2>1, <2>2, <2>3, <2>5 DEF TraceInv
<1> QED BY <1>4, <1>5, <1>6, <1>7 DEF Next

(* No page is lost to the injection without a cause that can be seen in    *)
(* the file or in what its functions do, however long the file is.         *)
THEOREM ThrowsForCauseHolds == Spec => []ThrowsForCause
<1>1. TraceInv => ThrowsForCause BY DEF TraceInv
<1> QED BY <1>1, TraceInit, TraceStep, PageInvariant, PTL DEF Spec

-----------------------------------------------------------------------------
(* Pages with several markers. *)

LEMMA InjectedParts ==
  ASSUME NEW t \in Seq(Pieces), NEW m \in Marks, Contains(t, m), functionCaller(m) \in Htmls
  PROVE  \E k \in 1..Len(t), b \in Seq(Pieces) :
           /\ t[k] = m
           /\ Injected(t, m) \in Seq(Pieces)
           /\ Len(Injected(t, m)) = k + Len(b)
           /\ \A i \in 1..(k - 1) : Injected(t, m)[i] = t[i] /\ t[i] # m
           /\ Injected(t, m)[k] = functionCaller(m)
           /\ \A i \in 1..Len(b) : Injected(t, m)[k + i] = t[k + i] /\ t[k + i] # m
           /\ k + Len(b) <= Len(t)
           /\ k + Len(b) < Len(t) => \E i \in (k + 1)..Len(t) : t[i] = m
<1> DEFINE a == UpTo(t, m)
           h == functionCaller(m)
           f == After(t, m)
           b == UpTo(f, m)
           k == First(t, m)
           u == Injected(t, m)
<1>1. k \in 1..Len(t) /\ t[k] = m /\ Len(t) \in Nat BY FirstOne
<1>2. /\ a \in Seq(Pieces) /\ Len(a) = k - 1
      /\ \A i \in 1..Len(a) : a[i] = t[i] /\ t[i] # m
  BY Before
<1>3. f \in Seq(Pieces) /\ Len(f) = Len(t) - k /\ \A i \in 1..Len(f) : f[i] = t[k + i]
  BY Behind
<1>4. h \in Pieces BY DEF Pieces
<1> HIDE DEF a, h, f, k
<1>5. /\ b \in Seq(Pieces) /\ Len(b) <= Len(f)
      /\ \A i \in 1..Len(b) : b[i] = f[i] /\ f[i] # m
      /\ ~Contains(f, m) => b = f
  BY <1>3, Before
<1> HIDE DEF b
<1>6. u = a \o <<h>> \o b BY DEF Injected, a, h, b, f
<1> HIDE DEF u
<1>7. /\ u \in Seq(Pieces) /\ Len(u) = Len(a) + 1 + Len(b)
      /\ \A i \in 1..Len(a) : u[i] = a[i]
      /\ u[Len(a) + 1] = h
      /\ \A i \in 1..Len(b) : u[Len(a) + 1 + i] = b[i]
  <2>1. Joined(u, a, h, b) BY <1>2, <1>4, <1>5, <1>6, ThreeParts
  <2> QED BY <2>1 DEF Joined
<1>8. Len(a) + 1 = k /\ Len(b) \in Nat /\ Len(f) \in Nat BY <1>1, <1>2, <1>3, <1>5
<1>9. Len(u) = k + Len(b) /\ u[k] = h BY <1>7, <1>8
<1>10. \A i \in 1..(k - 1) : u[i] = t[i] /\ t[i] # m BY <1>2, <1>7
<1>11. \A i \in 1..Len(b) : u[k + i] = t[k + i] /\ t[k + i] # m
  <2> SUFFICES ASSUME NEW i \in 1..Len(b) PROVE u[k + i] = t[k + i] /\ t[k + i] # m OBVIOUS
  <2>1. i \in 1..Len(f) BY <1>5, <1>8
  <2>2. f[i] = t[k + i] BY <1>3, <2>1
  <2>3. b[i] = f[i] /\ f[i] # m BY <1>5
  <2>4. u[Len(a) + 1 + i] = b[i] BY <1>7
  <2>5. u[k + i] = b[i] BY <1>8, <2>4
  <2> QED BY <2>2, <2>3, <2>5
<1>12. k + Len(b) <= Len(t) BY <1>1, <1>3, <1>5, <1>8
<1>13. ASSUME k + Len(b) < Len(t) PROVE \E i \in (k + 1)..Len(t) : t[i] = m
  <2>1. b # f BY <1>13, <1>1, <1>3, <1>8
  <2>2. PICK i \in 1..Len(f) : f[i] = m BY <2>1, <1>5 DEF Contains
  <2>3. k + i \in (k + 1)..Len(t) BY <1>1, <1>3, <2>2
  <2> QED BY <2>2, <2>3, <1>3
<1>14. /\ t[k] = m /\ u \in Seq(Pieces) /\ Len(u) = k + Len(b)
       /\ \A i \in 1..(k - 1) : u[i] = t[i] /\ t[i] # m
       /\ u[k] = h
       /\ \A i \in 1..Len(b) : u[k + i] = t[k + i] /\ t[k + i] # m
       /\ k + Len(b) <= Len(t)
       /\ k + Len(b) < Len(t) => \E i \in (k + 1)..Len(t) : t[i] = m
  BY <1>1, <1>7, <1>9, <1>10, <1>11, <1>12, <1>13
<1> QED BY <1>1, <1>5, <1>14 DEF u, h

(* Of the markers of a text those that an injection leaves are of other    *)
(* kinds than the one that was injected.                                   *)
LEMMA InjectedMarks ==
  ASSUME NEW t \in Seq(Pieces), NEW m \in Marks, Contains(t, m), functionCaller(m) \in Htmls,
         functionCaller(m) \notin Marks,
         NEW i \in 1..Len(Injected(t, m)), Injected(t, m)[i] \in Marks
  PROVE  Injected(t, m)[i] # m /\ \E j \in 1..Len(t) : t[j] = Injected(t, m)[i]
<1> DEFINE u == Injected(t, m)
<1>1. PICK k \in 1..Len(t), b \in Seq(Pieces) :
        /\ t[k] = m /\ u \in Seq(Pieces) /\ Len(u) = k + Len(b)
        /\ \A j \in 1..(k - 1) : u[j] = t[j] /\ t[j] # m
        /\ u[k] = functionCaller(m)
        /\ \A j \in 1..Len(b) : u[k + j] = t[k + j] /\ t[k + j] # m
        /\ k + Len(b) <= Len(t)
  BY InjectedParts
<1>2. i \in 1..Len(u) /\ u[i] \in Marks OBVIOUS
<1>3. Len(t) \in Nat /\ Len(b) \in Nat OBVIOUS
<1> HIDE DEF u
<1>4. CASE i < k
  <2>1. i \in 1..(k - 1) /\ i \in 1..Len(t) BY <1>1, <1>2, <1>3, <1>4
  <2>2. u[i] = t[i] /\ t[i] # m BY <1>1, <2>1
  <2> QED BY <2>1, <2>2 DEF u
<1>5. CASE i > k
  <2>1. i - k \in 1..Len(b) /\ k + (i - k) = i /\ i \in 1..Len(t) BY <1>1, <1>2, <1>3, <1>5
  <2>2. u[k + (i - k)] = t[k + (i - k)] /\ t[k + (i - k)] # m BY <1>1, <2>1
  <2>3. u[i] = t[i] /\ t[i] # m BY <2>1, <2>2
  <2> QED BY <2>1, <2>3 DEF u
<1>6. i # k BY <1>1, <1>2
<1>7. i < k \/ i > k BY <1>1, <1>2, <1>3, <1>6
<1> QED BY <1>4, <1>5, <1>7

(* One injection makes the page that the markers describe exactly when the *)
(* file had one marker, if it leaves none.                                 *)
LEMMA OneInjection ==
  ASSUME NEW m \in Marks, file \in Seq(Pieces), Contains(file, m),
         functionCaller(m) \in Htmls,
         \A i \in 1..Len(Injected(file, m)) : Injected(file, m)[i] \notin Marks
  PROVE  Injected(file, m) = Expand(file) <=> \A i, j \in Marked : i = j
<1> DEFINE u == Injected(file, m)
           e == Expand(file)
           n == Len(file)
<1>1. n \in Nat /\ DOMAIN file = 1..n OBVIOUS
<1>2. PICK k \in 1..n, b \in Seq(Pieces) :
        /\ file[k] = m /\ u \in Seq(Pieces) /\ Len(u) = k + Len(b)
        /\ \A i \in 1..(k - 1) : u[i] = file[i] /\ file[i] # m
        /\ u[k] = functionCaller(m)
        /\ \A i \in 1..Len(b) : u[k + i] = file[k + i] /\ file[k + i] # m
        /\ k + Len(b) <= n
        /\ k + Len(b) < n => \E i \in (k + 1)..n : file[i] = m
  BY InjectedParts
<1>3. \A i \in 1..Len(u) : u[i] \notin Marks OBVIOUS
<1>4. /\ DOMAIN e = 1..n
      /\ e = [i \in 1..n |-> e[i]]
      /\ \A i \in 1..n : e[i] = IF file[i] \in Marks THEN functionCaller(file[i]) ELSE file[i]
  BY <1>1 DEF Expand
<1>5. Len(b) \in Nat /\ DOMAIN u = 1..Len(u) BY <1>2
<1>6. k \in Marked /\ \A i \in 1..n : i \in Marked <=> file[i] \in Marks
  BY <1>1, <1>2 DEF Marked
<1>7. Marked \subseteq 1..n BY <1>1 DEF Marked
<1> HIDE DEF u, e, n
<1>8. ASSUME NEW i \in 1..Len(u), i # k
      PROVE  i \in 1..n /\ u[i] = file[i]
  <2>1. i < k \/ i > k BY <1>2, <1>5, <1>8
  <2>2. CASE i < k
    <3>1. i \in 1..(k - 1) /\ i \in 1..n BY <1>1, <2>2
    <3> QED BY <1>2, <3>1
  <2>3. CASE i > k
    <3>1. i - k \in 1..Len(b) /\ k + (i - k) = i /\ i \in 1..n BY <1>1, <1>2, <1>5, <2>3
    <3>2. u[k + (i - k)] = file[k + (i - k)] BY <1>2, <3>1
    <3> QED BY <3>1, <3>2
  <2> QED BY <2>1, <2>2, <2>3
<1>9. ASSUME \A i, j \in Marked : i = j PROVE u = e
  <2>1. \A i \in 1..n : i # k => file[i] \notin Marks BY <1>6, <1>9
  <2>2. k + Len(b) = n
    <3> SUFFICES ASSUME k + Len(b) < n PROVE FALSE BY <1>1, <1>2, <1>5
    <3>1. PICK i \in (k + 1)..n : file[i] = m BY <1>2
    <3>2. i \in 1..n /\ i # k BY <1>1, <1>2, <3>1
    <3> QED BY <2>1, <3>1, <3>2
  <2>3. DOMAIN u = 1..n BY <1>2, <1>5, <2>2
  <2>4. \A i \in 1..n : u[i] = e[i]
    <3> SUFFICES ASSUME NEW i \in 1..n PROVE u[i] = e[i] OBVIOUS
    <3>1. CASE i = k BY <3>1, <1>2, <1>4
    <3>2. CASE i # k
      <4>1. i \in 1..Len(u) BY <1>2, <2>2
      <4>2. u[i] = file[i] BY <4>1, <3>2, <1>8
      <4> QED BY <4>2, <3>2, <2>1, <1>4
    <3> QED BY <3>1, <3>2
  <2>5. u = [i \in 1..n |-> u[i]]
    <3>1. u \in [1..Len(u) -> Pieces] BY <1>2
    <3>2. u = [i \in 1..Len(u) |-> u[i]] BY <3>1
    <3> QED BY <3>2, <1>5, <2>3
  <2>6. [i \in 1..n |-> u[i]] = [i \in 1..n |-> e[i]] BY <2>4
  <2> QED BY <2>5, <2>6, <1>4
<1>10. ASSUME NEW i \in Marked, NEW j \in Marked, i # j, u = e PROVE FALSE
  <2>1. DOMAIN u = 1..n BY <1>4, <1>10
  <2>2. PICK l \in Marked : l # k BY <1>10
  <2>3. l \in 1..n BY <1>7
  <2>4. 1..Len(u) = 1..n BY <2>1, <1>5
  <2>5. l \in 1..Len(u) BY <2>3, <2>4
  <2>6. u[l] = file[l] BY <1>8, <2>2, <2>5
  <2>7. file[l] \in Marks BY <1>6, <2>3
  <2> QED BY <1>3, <2>5, <2>6, <2>7
<1>11. u = e <=> \A i, j \in Marked : i = j BY <1>9, <1>10
<1> QED BY <1>11 DEF u, e

LEMMA MarkerInit == Init => MarkerInv
<1> SUFFICES ASSUME Init PROVE MarkerInv OBVIOUS
<1>1. buff = file /\ builder = <<>> /\ next = 1 BY DEF Init
<1>2. Untouched BY <1>1 DEF Untouched
<1> QED BY <1>1, <1>2 DEF MarkerInv

LEMMA MarkerStep == PageInv /\ MarkerInv /\ [Next]_vars => MarkerInv'
<1> SUFFICES ASSUME PageInv, MarkerInv, [Next]_vars PROVE MarkerInv' OBVIOUS
<1>1. /\ file' = file /\ cServer' = cServer /\ isSmart' = isSmart
  BY DEF Next, vars, fileVars, Skip, Inject, InjectFails, Send, Step, Throw
<1>2. Marked' = Marked BY <1>1 DEF Marked
<1>3. \A m : /\ Contains(file, m)' <=> Contains(file, m)
             /\ functionCaller(m)' = functionCaller(m)
             /\ Injected(file, m)' = Injected(file, m)
  BY <1>1 DEF Injected, functionCaller, MovieList, Contains
<1>4. /\ file \in Seq(Pieces) /\ buff \in Seq(Pieces) /\ builder \in Seq(Pieces)
      /\ cServer \in {"lists", "accents", "dies", "absent"} /\ isSmart \in BOOLEAN
  <2>1. PageTypeOK BY DEF PageInv
  <2>2. \A i \in 1..Len(file) : file[i] \in Pieces BY <2>1 DEF PageTypeOK, Pieces
  <2>3. file \in Seq(Pieces) BY <2>1, <2>2 DEF PageTypeOK
  <2> QED BY <2>1, <2>3 DEF PageTypeOK, Pieces
<1>5. CASE Skip
  <2>1. /\ pc = "inject" /\ next' = next + 1 /\ buff' = buff /\ builder' = builder
        /\ ~Contains(buff, Functions[next]) /\ next \in 1..4 /\ isSmart
    BY <1>5 DEF Skip, Step, PageInv
  <2>2. \A q \in 1..(next' - 1) : q \in 1..(next - 1) \/ q = next BY <2>1
  <2>3. CASE Untouched
    <3>1. Untouched' BY <1>1, <2>1, <2>2, <2>3 DEF Untouched
    <3> QED BY <1>1, <2>1, <3>1 DEF MarkerInv
  <2>4. CASE InjectedOnce
    <3>1. \A q \in 1..(next' - 1) : ~Contains(buff, Functions[q])
      BY <2>1, <2>2, <2>4 DEF InjectedOnce
    <3>2. PICK m \in Marks : /\ Contains(file, m) /\ functionCaller(m) # Thrown
                             /\ buff = Injected(file, m)
      BY <2>4 DEF InjectedOnce
    <3>3. Contains(file, m)' /\ functionCaller(m)' # Thrown /\ buff' = Injected(file, m)'
      BY <1>3, <2>1, <3>2
    <3>4. builder' = buff' BY <2>1, <2>4 DEF InjectedOnce
    <3>5. \A q \in 1..(next' - 1) : ~Contains(buff, Functions[q])'
      BY <2>1, <3>1 DEF Contains
    <3>6. \E x \in Marks : /\ Contains(file, x)' /\ functionCaller(x)' # Thrown
                           /\ buff' = Injected(file, x)'
      BY <3>3
    <3>7. InjectedOnce' BY <3>4, <3>5, <3>6 DEF InjectedOnce
    <3> QED BY <1>1, <2>1, <3>7 DEF MarkerInv
  <2>5. CASE InjectedAgain
    <3>1. InjectedAgain' BY <1>2, <2>1, <2>5 DEF InjectedAgain
    <3> QED BY <1>1, <2>1, <3>1 DEF MarkerInv
  <2> QED BY <2>1, <2>3, <2>4, <2>5 DEF MarkerInv
<1>6. CASE Inject
  <2> DEFINE m == Functions[next]
             u == Injected(buff, m)
             b == builder \o UpTo(buff, m) \o <<functionCaller(m)>> \o UpTo(After(buff, m), m)
  <2>1. /\ pc = "inject" /\ Contains(buff, m) /\ functionCaller(m) # Thrown
        /\ builder' = b /\ buff' = b /\ next' = next + 1
    BY <1>6 DEF Inject, Step
  <2>2. m \in Marks /\ next \in 1..4 /\ isSmart BY <2>1, ListedMarks DEF PageInv
  <2>3. functionCaller(m) \in Htmls /\ functionCaller(m) \notin Marks
    BY <1>4, <2>1, <2>2, Called
  <2>4. u \in Seq(Pieces) BY <1>4, <2>1, <2>2, <2>3, InjectedText
  <2>5. CASE Untouched
    <3>1. builder = <<>> /\ buff = file /\ \A q \in 1..(next - 1) : ~Contains(file, Functions[q])
      BY <2>5 DEF Untouched
    <3>2. b = u
      <4>1. UpTo(buff, m) \in Seq(Pieces) BY <1>4, Before
      <4>2. builder \o UpTo(buff, m) = UpTo(buff, m)
        <5> DEFINE a == UpTo(buff, m)
        <5>1. a \in Seq(Pieces) BY <4>1
        <5> HIDE DEF a
        <5>2. <<>> \o a = a BY <5>1
        <5> QED BY <3>1, <5>2 DEF a
      <4> QED BY <4>2 DEF Injected
    <3>3. ASSUME NEW q \in 1..next, Contains(u, Functions[q]) PROVE FALSE
      <4>1. PICK i \in 1..Len(u) : u[i] = Functions[q] BY <3>3 DEF Contains
      <4>2. Functions[q] \in Marks
        <5>1. q \in 1..4 BY <2>2
        <5> QED BY <5>1, ListedMarks
      <4>3. u[i] # m /\ \E j \in 1..Len(buff) : buff[j] = u[i]
        BY <1>4, <2>1, <2>2, <2>3, <4>1, <4>2, InjectedMarks
      <4>4. Contains(buff, Functions[q]) BY <4>1, <4>3 DEF Contains
      <4>5. q # next BY <4>1, <4>3
      <4>6. q \in 1..(next - 1) BY <2>2, <4>5
      <4> QED BY <3>1, <4>4, <4>6
    <3>4. buff' = Injected(file, m) BY <2>1, <3>1, <3>2
    <3>4a. Contains(file, m) BY <2>1, <3>1
    <3>5. \A q \in 1..(next' - 1) : ~Contains(buff', Functions[q])
      <4>1. next' - 1 = next BY <2>1, <2>2
      <4>2. buff' = u BY <2>1, <3>2
      <4> QED BY <3>3, <4>1, <4>2
    <3>6. builder' = buff' BY <2>1
    <3>7. \E x \in Marks : /\ Contains(file, x)' /\ functionCaller(x)' # Thrown
                           /\ buff' = Injected(file, x)'
      <4>1. \E x \in Marks : /\ Contains(file, x) /\ functionCaller(x) # Thrown
                             /\ buff' = Injected(file, x)
        <5> HIDE DEF m, u, b
        <5> QED BY <2>1, <2>2, <3>4, <3>4a
      <4> QED BY <1>3, <4>1
    <3>8. InjectedOnce' BY <3>5, <3>6, <3>7 DEF InjectedOnce
    <3> QED BY <1>1, <2>2, <3>8 DEF MarkerInv
  <2>6. CASE InjectedOnce \/ InjectedAgain
    <3>1. builder = buff BY <2>6 DEF InjectedOnce, InjectedAgain
    <3>2. PICK k \in 1..Len(buff) : buff[k] \in Marks
      <4>1. CASE InjectedOnce BY <2>1, <2>2 DEF Contains
      <4>2. CASE InjectedAgain BY <4>2 DEF InjectedAgain
      <4> QED BY <2>6, <4>1, <4>2
    <3>3. k \in 1..Len(b) /\ b[k] = buff[k]
      <4> DEFINE x == UpTo(buff, m)
                 h == <<functionCaller(m)>>
                 y == UpTo(After(buff, m), m)
      <4>1. x \in Seq(Pieces) BY <1>4, Before
      <4>2. y \in Seq(Pieces) BY <1>4, <2>1, Before, Behind
      <4>3. h \in Seq(Pieces) BY <2>3 DEF Pieces
      <4> HIDE DEF x, h, y, Pieces
      <4>4. b = builder \o x \o h \o y BY DEF x, h, y
      <4> HIDE DEF b
      <4> DEFINE c == builder \o x
                 d == c \o h
      <4>5. c \in Seq(Pieces) /\ k \in 1..Len(c) /\ c[k] = buff[k]
        BY <1>4, <3>1, <4>1
      <4>6. b = d \o y BY <4>4
      <4> HIDE DEF c
      <4>7. d \in Seq(Pieces) /\ k \in 1..Len(d) /\ d[k] = buff[k] BY <4>3, <4>5
      <4> HIDE DEF d
      <4> QED BY <4>2, <4>6, <4>7
    <3>4. \E i, j \in Marked : i # j
      <4>1. CASE InjectedAgain BY <4>1 DEF InjectedAgain
      <4>2. CASE InjectedOnce
        <5>1. PICK x \in Marks : /\ Contains(file, x) /\ functionCaller(x) # Thrown
                                 /\ buff = Injected(file, x)
          BY <4>2 DEF InjectedOnce
        <5>2. functionCaller(x) \in Htmls /\ functionCaller(x) \notin Marks
          BY <1>4, <5>1, Called
        <5>3. PICK l \in 1..Len(buff) : buff[l] = m BY <2>1 DEF Contains
        <5> HIDE DEF m
        <5>4. l \in 1..Len(Injected(file, x)) /\ Injected(file, x)[l] = m
              /\ Injected(file, x)[l] \in Marks
          BY <2>2, <5>1, <5>3
        <5>5. m # x /\ \E j \in 1..Len(file) : file[j] = m
          BY <1>4, <5>1, <5>2, <5>4, InjectedMarks
        <5>6. PICK i \in 1..Len(file) : file[i] = x BY <5>1 DEF Contains
        <5>7. PICK j \in 1..Len(file) : file[j] = m BY <5>5
        <5>8. i \in Marked /\ j \in Marked BY <1>4, <2>2, <5>6, <5>7 DEF Marked
        <5>9. i # j BY <5>5, <5>6, <5>7
        <5> QED BY <5>8, <5>9
      <4> QED BY <2>6, <4>1, <4>2
    <3> HIDE DEF b
    <3>5. builder' = buff' /\ \E i \in 1..Len(buff') : buff'[i] \in Marks
      BY <2>1, <3>2, <3>3
    <3>6. InjectedAgain' BY <1>2, <3>4, <3>5 DEF InjectedAgain
    <3> QED BY <1>1, <2>2, <3>6 DEF MarkerInv
  <2> QED BY <2>1, <2>2, <2>5, <2>6 DEF MarkerInv
<1>7. CASE InjectFails
  <2>1. pc' = Thrown /\ buff' = buff BY <1>7 DEF InjectFails, Throw
  <2> QED BY <1>1, <2>1 DEF MarkerInv, Thrown
<1>8. CASE Send \/ UNCHANGED vars
  <2>1. /\ next' = next /\ buff' = buff /\ builder' = builder
        /\ pc' = pc \/ (pc = "send" /\ pc' = "sent")
    BY <1>8 DEF Send, vars, fileVars
  <2>2. Untouched' <=> Untouched BY <1>1, <2>1 DEF Untouched
  <2>3. InjectedOnce' <=> InjectedOnce
    <3>1. \A x \in Marks : Contains(file, x)' <=> Contains(file, x) BY <1>1 DEF Contains
    <3>2. \A x \in Marks : /\ (functionCaller(x) # Thrown)' <=> functionCaller(x) # Thrown
                           /\ Injected(file, x)' = Injected(file, x)
      BY <1>1 DEF Injected, functionCaller, MovieList
    <3> QED BY <1>1, <2>1, <3>1, <3>2 DEF InjectedOnce
  <2>4. InjectedAgain' <=> InjectedAgain BY <1>2, <2>1 DEF InjectedAgain
  <2> QED BY <1>1, <2>1, <2>2, <2>3, <2>4 DEF MarkerInv
<1> QED BY <1>5, <1>6, <1>7, <1>8 DEF Next

(* A smart page is the one that its markers describe exactly when the file *)
(* has at most one, of whatever kind and wherever it stands, for files of  *)
(* any length; other files are sent as they are.                           *)
THEOREM OneMarkerOnlyHolds == Spec => []OneMarkerOnly
<1>1. PageInv /\ MarkerInv => OneMarkerOnly
  <2> SUFFICES ASSUME PageInv, MarkerInv, pc \in {"send", "sent"} PROVE OneMarkerOnly
    BY DEF OneMarkerOnly
  <2>1. CASE ~isSmart BY <2>1 DEF MarkerInv, OneMarkerOnly
  <2>2. CASE isSmart
    <3>1. PageTypeOK /\ next = 5 BY <2>2 DEF PageInv
    <3>2. \A q \in 1..(next - 1) : q \in 1..4 BY <3>1
    <3>3. file \in Seq(Pieces) /\ cServer \in {"lists", "accents", "dies", "absent"}
      <4>1. \A i \in 1..Len(file) : file[i] \in Pieces BY <3>1 DEF PageTypeOK, Pieces
      <4> QED BY <3>1, <4>1 DEF PageTypeOK
    <3>4. DOMAIN file = 1..Len(file) BY <3>3
    <3>5. Untouched \/ InjectedOnce \/ InjectedAgain BY <2>2 DEF MarkerInv
    <3>6. ASSUME NEW t, \A q \in 1..(next - 1) : ~Contains(t, Functions[q]),
                 NEW i \in 1..Len(t), t[i] \in Marks
          PROVE  FALSE
      <4>1. PICK q \in 1..4 : Functions[q] = t[i] BY <3>6, ListedMarks
      <4>2. q \in 1..(next - 1) BY <3>1
      <4> QED BY <3>6, <4>1, <4>2 DEF Contains
    <3>7. buff = Expand(file) <=> \A i, j \in Marked : i = j
      <4>1. CASE Untouched
        <5>1. \A i \in 1..Len(file) : file[i] \notin Marks BY <4>1, <3>6 DEF Untouched
        <5>2. Marked = {} BY <3>4, <5>1 DEF Marked
        <5>3. Expand(file) = [i \in DOMAIN file |-> file[i]] BY <3>4, <5>1 DEF Expand
        <5>4. file = [i \in DOMAIN file |-> file[i]] BY <3>3
        <5> QED BY <4>1, <5>2, <5>3, <5>4 DEF Untouched
      <4>2. CASE InjectedOnce
        <5>1. PICK m \in Marks : /\ Contains(file, m) /\ functionCaller(m) # Thrown
                                 /\ buff = Injected(file, m)
          BY <4>2 DEF InjectedOnce
        <5>2. functionCaller(m) \in Htmls BY <3>3, <5>1, Called
        <5>3. \A i \in 1..Len(buff) : buff[i] \notin Marks BY <4>2, <3>6 DEF InjectedOnce
        <5> QED BY <3>3, <5>1, <5>2, <5>3, OneInjection
      <4>3. CASE InjectedAgain
        <5>1. PICK k \in 1..Len(buff) : buff[k] \in Marks BY <4>3 DEF InjectedAgain
        <5>2. \A i \in DOMAIN file : Expand(file)[i] \notin Marks
          BY <3>3, Called DEF Expand
        <5>3. DOMAIN Expand(file) = DOMAIN file BY DEF Expand
        <5>4. DOMAIN buff = 1..Len(buff) BY <3>1 DEF PageTypeOK
        <5>5. buff # Expand(file) BY <5>1, <5>2, <5>3, <5>4
        <5> QED BY <4>3, <5>5 DEF InjectedAgain
      <4> QED BY <3>5, <4>1, <4>2, <4>3
    <3> QED BY <2>2, <3>7 DEF OneMarkerOnly
  <2> QED BY <2>1, <2>2
<1> QED BY <1>1, MarkerInit, MarkerStep, PageInvariant, PTL DEF Spec
=============================================================================
