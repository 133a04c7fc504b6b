--------------------------- MODULE WebServerProofs ----------------------------
(***************************************************************************)
(* Safety of the web server's listeners and pools, for any visitors, pool  *)
(* sizes and numbers of log files.                                         *)
(***************************************************************************)
EXTENDS WebServer, FiniteSetTheorems, TLAPS

(* The invariant is the conjunction of the properties: a head of a line is *)
(* known to be a visitor of that place (InOneHand), so that the counts of  *)
(* LockBudget move by one; and the parts of LockBudget support each other. *)
Line(line, place, l) ==
  /\ NoRepeats(line)
  /\ \A v \in Visitors : Holds(line, v) <=> visit[v] = place /\ via[v] = l
HandsAt(l) ==
  /\ Line(backlog[l], "backlog", l) /\ Line(queue[l], "queued", l)
  /\ Cardinality(Workers(l)) <= PoolSize
WebInv == WebTypeOK /\ (\A l \in Listeners : HandsAt(l)) /\ LockBudget

-----------------------------------------------------------------------------
(* Lines of visitors. *)

LEMMA JoinLine ==
  ASSUME NEW line \in Seq(Visitors), NEW v \in Visitors, NoRepeats(line), ~Holds(line, v)
  PROVE  /\ NoRepeats(Append(line, v))
         /\ \A u \in Visitors : Holds(Append(line, v), u) <=> Holds(line, u) \/ u = v
<1>1. DOMAIN line = 1..Len(line) /\ Len(line) \in Nat OBVIOUS
<1>2. DOMAIN Append(line, v) = 1..(Len(line) + 1) OBVIOUS
<1>3. \A i \in DOMAIN line : Append(line, v)[i] = line[i] OBVIOUS
<1>4. Append(line, v)[Len(line) + 1] = v OBVIOUS
<1>5. \A i \in 1..(Len(line) + 1) : i \in 1..Len(line) \/ i = Len(line) + 1 BY <1>1
<1>6. NoRepeats(Append(line, v))
  BY <1>1, <1>2, <1>3, <1>4, <1>5 DEF NoRepeats, Holds
<1>7. Len(line) + 1 \in 1..(Len(line) + 1) /\ 1..Len(line) \subseteq 1..(Len(line) + 1) BY <1>1
<1>8. \A u \in Visitors : Holds(Append(line, v), u) <=> Holds(line, u) \/ u = v
  BY <1>1, <1>2, <1>3, <1>4, <1>5, <1>7 DEF Holds
<1> QED BY <1>6, <1>8

LEMMA LeaveLine ==
  ASSUME NEW line \in Seq(Visitors), line # <<>>, NoRepeats(line)
  PROVE  /\ Head(line) \in Visitors /\ Holds(line, Head(line))
         /\ Tail(line) \in Seq(Visitors) /\ NoRepeats(Tail(line))
         /\ \A u \in Visitors : Holds(Tail(line), u) <=> Holds(line, u) /\ u # Head(line)
<1>1. DOMAIN line = 1..Len(line) /\ Len(line) \in Nat \ {0} OBVIOUS
<1>2. Tail(line) \in Seq(Visitors) /\ Len(Tail(line)) = Len(line) - 1 OBVIOUS
<1>3. DOMAIN Tail(line) = 1..(Len(line) - 1) BY <1>2
<1>4. \A i \in 1..(Len(line) - 1) : Tail(line)[i] = line[i + 1] OBVIOUS
<1>5. Head(line) = line[1] /\ 1 \in DOMAIN line BY <1>1
<1>6. \A i \in 1..(Len(line) - 1) : i + 1 \in DOMAIN line /\ i + 1 # 1 BY <1>1
<1>7. \A i \in DOMAIN line : i = 1 \/ (i - 1 \in 1..(Len(line) - 1) /\ (i - 1) + 1 = i)
  BY <1>1
<1>8. NoRepeats(Tail(line))
  <2> SUFFICES ASSUME NEW i \in 1..(Len(line) - 1), NEW j \in 1..(Len(line) - 1),
                      Tail(line)[i] = Tail(line)[j]
               PROVE  i = j
    BY <1>3 DEF NoRepeats
  <2>1. i + 1 = j + 1 BY <1>4, <1>6 DEF NoRepeats
  <2> QED BY <2>1, <1>1
<1>9. ASSUME NEW u \in Visitors
      PROVE  Holds(Tail(line), u) <=> Holds(line, u) /\ u # Head(line)
  <2>1. ASSUME Holds(Tail(line), u) PROVE Holds(line, u) /\ u # Head(line)
    <3>1. PICK i \in 1..(Len(line) - 1) : line[i + 1] = u BY <2>1, <1>3, <1>4 DEF Holds
    <3> QED BY <3>1, <1>5, <1>6 DEF Holds, NoRepeats
  <2>2. ASSUME Holds(line, u), u # Head(line) PROVE Holds(Tail(line), u)
    <3>1. PICK i \in DOMAIN line : line[i] = u BY <2>2 DEF Holds
    <3>2. i - 1 \in 1..(Len(line) - 1) /\ (i - 1) + 1 = i BY <3>1, <2>2, <1>5, <1>7
    <3> QED BY <3>1, <3>2, <1>3, <1>4 DEF Holds
  <2> QED BY <2>1, <2>2
<1>10. Head(line) \in Visitors /\ Holds(line, Head(line)) BY <1>1, <1>5 DEF Holds
<1> QED BY <1>2, <1>8, <1>9, <1>10

LEMMA FiniteSides ==
  /\ \A l : IsFiniteSet(Workers(l)) /\ Cardinality(Workers(l)) \in Nat
  /\ IsFiniteSet(Handled) /\ Cardinality(Handled) \in Nat
<1>1. \A l : Workers(l) \in SUBSET Visitors BY DEF Workers
<1>2. Handled \in SUBSET Visitors BY DEF Handled
<1> QED BY <1>1, <1>2, VisitorsAssumption, FS_Subset, FS_CardinalityType

LEMMA InitWeb == Init => WebInv
<1> SUFFICES ASSUME Init PROVE WebInv OBVIOUS
<1> USE DEF Init
<1>1. WebTypeOK BY PoolAssumption DEF WebTypeOK, Listeners, Pages
<1>2. Handled = {} /\ \A l : Workers(l) = {} BY DEF Handled, Workers, Working
<1>3. Cardinality({}) = 0 BY FS_EmptySet
<1>4. ASSUME NEW l \in Listeners PROVE HandsAt(l)
  <2>1. backlog[l] = <<>> /\ queue[l] = <<>> OBVIOUS
  <2>2. DOMAIN <<>> = {} OBVIOUS
  <2>3. Workers(l) = {} BY <1>2
  <2>4. Cardinality(Workers(l)) <= PoolSize BY <2>3, <1>3, PoolAssumption
  <2> QED BY <2>1, <2>2, <2>4 DEF HandsAt, Line, NoRepeats, Holds
<1>5. LockBudget BY <1>2, <1>3, PoolAssumption DEF LockBudget, Listeners
<1> QED BY <1>1, <1>4, <1>5 DEF WebInv

(* A step that moves no visitor and ends at most the TLS listener. *)
LEMMA QuietStep ==
  ASSUME WebInv, UNCHANGED <<backlog, queue, limit, locks, via, want, visit>>,
         asked' \in [Visitors -> BOOLEAN], gone' \in [Visitors -> BOOLEAN],
         takes' \in [Visitors -> BOOLEAN],
         listener' \in {listener, [listener EXCEPT !["tls"] = "ended"]}
  PROVE  WebInv'
<1>1. listener' \in [Listeners -> {"up", "ended"}] /\ listener'["plain"] = listener["plain"]
      /\ \A l \in Listeners : listener[l] = "ended" => listener'[l] = "ended"
  BY DEF WebInv, WebTypeOK, Listeners
<1>2. WebTypeOK' BY <1>1 DEF WebInv, WebTypeOK
<1>3. Handled' = Handled /\ \A l : Workers(l)' = Workers(l) BY DEF Handled, Workers
<1>4. \A l \in Listeners : HandsAt(l)' BY <1>3 DEF WebInv, HandsAt, Line
<1>5. \A v \in Visitors : via[v] \in Listeners BY DEF WebInv, WebTypeOK
<1>6. LockBudget' BY <1>1, <1>3, <1>5 DEF WebInv, LockBudget
<1> QED BY <1>2, <1>4, <1>6 DEF WebInv

(* A step of a worker: it stays one, or its visit ends. *)
LEMMA WorkerMoves ==
  ASSUME WebInv, NEW v \in Visitors, visit[v] \in Working,
         NEW place \in Working \cup {"answered", "dropped"}, Go(v, place),
         UNCHANGED <<poolVars, visitorVars>>
  PROVE  WebInv'
<1> USE DEF poolVars, visitorVars
<1>1. visit' = [visit EXCEPT ![v] = place] /\ visit \in [Visitors -> {"away", "backlog", "queued"} \cup Working \cup Over]
  BY DEF WebInv, WebTypeOK, Go
<1>2. WebTypeOK' BY <1>1 DEF WebInv, WebTypeOK, Over
<1>3. \A u \in Visitors : visit'[u] = IF u = v THEN place ELSE visit[u] BY <1>1
<1>4. visit[v] \notin {"away", "backlog", "queued", "refused"}
      /\ place \notin {"away", "backlog", "queued", "refused"}
  BY DEF Working
<1>5. \A u \in Visitors, p \in {"away", "backlog", "queued", "refused"} :
        visit'[u] = p <=> visit[u] = p
  BY <1>3, <1>4
<1>6. Handled' = Handled BY <1>5 DEF Handled
<1>7. ASSUME NEW l \in Listeners PROVE HandsAt(l)'
  <2>1. Workers(l)' \in SUBSET Workers(l) BY <1>3 DEF Workers
  <2>2. Cardinality(Workers(l)') <= Cardinality(Workers(l)) BY <2>1, FiniteSides, FS_Subset
  <2>3. Cardinality(Workers(l)') \in Nat BY <2>1, FiniteSides, FS_Subset, FS_CardinalityType
  <2>4. Cardinality(Workers(l)') <= PoolSize
    BY <2>2, <2>3, FiniteSides, PoolAssumption DEF WebInv, HandsAt
  <2>5. Line(backlog[l], "backlog", l)' /\ Line(queue[l], "queued", l)'
    BY <1>5 DEF WebInv, HandsAt, Line
  <2> QED BY <2>4, <2>5 DEF HandsAt
<1>8. LockBudget' BY <1>5, <1>6 DEF WebInv, LockBudget
<1> QED BY <1>2, <1>7, <1>8 DEF WebInv

-----------------------------------------------------------------------------
(* The steps that move a visitor from one line to another. *)

LEMMA VisitStep ==
  ASSUME WebInv, NEW v \in Visitors, NEW l \in Listeners, NEW page \in Pages, Visit(v, l, page)
  PROVE  WebInv'
<1>1. visit[v] = "away" /\ visit' = [visit EXCEPT ![v] = "backlog"]
      /\ via' = [via EXCEPT ![v] = l] /\ want' = [want EXCEPT ![v] = page]
      /\ backlog' = [backlog EXCEPT ![l] = Append(@, v)]
      /\ UNCHANGED <<listener, queue, limit, locks, asked, gone>>
      /\ \E t \in BOOLEAN : takes' = [takes EXCEPT ![v] = t]
  BY DEF Visit, Go
<1>t. WebTypeOK BY DEF WebInv
<1>2. WebTypeOK' BY <1>1, <1>t DEF WebTypeOK
<1>3. \A u \in Visitors : visit'[u] = IF u = v THEN "backlog" ELSE visit[u] BY <1>1, <1>t DEF WebTypeOK
<1>4. \A u \in Visitors : via'[u] = IF u = v THEN l ELSE via[u] BY <1>1, <1>t DEF WebTypeOK
<1>5. Handled' = Handled BY <1>1, <1>3 DEF Handled
<1>6. \A m : Workers(m)' = Workers(m) BY <1>1, <1>3, <1>4 DEF Workers, Working
<1>7. ASSUME NEW m \in Listeners PROVE HandsAt(m)'
  <2>1. backlog[m] \in Seq(Visitors) BY <1>t DEF WebTypeOK
  <2>2. HandsAt(m) BY DEF WebInv
  <2>3. Line(queue[m], "queued", m)' BY <1>1, <1>3, <1>4, <2>2 DEF HandsAt, Line
  <2>4. ~Holds(backlog[m], v) BY <1>1, <2>2 DEF HandsAt, Line
  <2>5. Line(backlog[m], "backlog", m)'
    <3>1. CASE m = l
      <4>1. backlog'[m] = Append(backlog[m], v) BY <1>1, <1>t, <3>1 DEF WebTypeOK
      <4>2. NoRepeats(Append(backlog[m], v))
            /\ \A u \in Visitors : Holds(Append(backlog[m], v), u) <=> Holds(backlog[m], u) \/ u = v
        BY <2>1, <2>2, <2>4, JoinLine DEF HandsAt, Line
      <4>3. ASSUME NEW u \in Visitors
            PROVE  Holds(Append(backlog[m], v), u) <=> visit'[u] = "backlog" /\ via'[u] = m
        BY <4>2, <3>1, <1>3, <1>4, <2>2 DEF HandsAt, Line
      <4> QED BY <4>1, <4>2, <4>3 DEF Line
    <3>2. CASE m # l
      <4>1. backlog'[m] = backlog[m] BY <1>1, <1>t, <3>2 DEF WebTypeOK
      <4> QED BY <4>1, <3>2, <1>3, <1>4, <1>1, <2>2, <2>4 DEF HandsAt, Line
    <3> QED BY <3>1, <3>2
  <2>6. Cardinality(Workers(m)') <= PoolSize BY <1>6, <2>2 DEF HandsAt
  <2> QED BY <2>3, <2>5, <2>6 DEF HandsAt
<1>8. LockBudget'
  <2>1. LockBudget BY DEF WebInv
  <2>2. \A u \in Visitors : visit'[u] = "refused" <=> visit[u] = "refused" BY <1>3, <1>1
  <2>3. \A u \in Visitors : visit[u] = "refused" => via'[u] = via[u] BY <1>4, <1>1
  <2> QED BY <1>1, <1>5, <2>1, <2>2, <2>3 DEF LockBudget
<1> QED BY <1>2, <1>7, <1>8 DEF WebInv

(* What accept does to the lines, whatever becomes of the connection. *)
LEMMA HeadLeavesBacklog ==
  ASSUME WebInv, NEW l \in Listeners, Accepted(l),
         NEW place \in {"queued", "refused"}, Go(Head(backlog[l]), place),
         UNCHANGED visitorVars
  PROVE  LET v == Head(backlog[l])
         IN /\ v \in Visitors /\ visit[v] = "backlog" /\ via[v] = l
            /\ backlog' \in [Listeners -> Seq(Visitors)]
            /\ \A u \in Visitors : visit'[u] = IF u = v THEN place ELSE visit[u]
            /\ \A m \in Listeners : Line(backlog[m], "backlog", m)'
            /\ \A m : Workers(m)' = Workers(m)
<1> DEFINE v == Head(backlog[l])
<1>t. WebTypeOK BY DEF WebInv
<1>1. backlog[l] \in Seq(Visitors) /\ backlog[l] # <<>> BY <1>t DEF WebTypeOK, Accepted
<1>2. \A m \in Listeners : HandsAt(m) BY DEF WebInv
<1>3. /\ v \in Visitors /\ Holds(backlog[l], v)
      /\ Tail(backlog[l]) \in Seq(Visitors) /\ NoRepeats(Tail(backlog[l]))
      /\ \A u \in Visitors : Holds(Tail(backlog[l]), u) <=> Holds(backlog[l], u) /\ u # v
  BY <1>1, <1>2, LeaveLine DEF HandsAt, Line
<1>4. visit[v] = "backlog" /\ via[v] = l BY <1>2, <1>3 DEF HandsAt, Line
<1> HIDE DEF v
<1>5. visit' = [visit EXCEPT ![v] = place] BY DEF Go, v
<1>6. \A u \in Visitors : visit'[u] = IF u = v THEN place ELSE visit[u] BY <1>5, <1>t DEF WebTypeOK
<1>7. backlog' = [backlog EXCEPT ![l] = Tail(@)] BY DEF Accepted
<1>8. backlog' \in [Listeners -> Seq(Visitors)] BY <1>7, <1>3, <1>t DEF WebTypeOK
<1>9. via' = via BY DEF visitorVars
<1>10. ASSUME NEW m \in Listeners PROVE Line(backlog[m], "backlog", m)'
  <2>1. CASE m = l
    <3>1. backlog'[m] = Tail(backlog[l]) BY <1>7, <1>t, <2>1 DEF WebTypeOK
    <3>2. ASSUME NEW u \in Visitors
          PROVE  Holds(Tail(backlog[l]), u) <=> visit'[u] = "backlog" /\ via[u] = l
      BY <1>3, <1>2, <1>6 DEF HandsAt, Line
    <3> QED BY <3>1, <3>2, <2>1, <1>3, <1>9 DEF Line
  <2>2. CASE m # l
    <3>1. backlog'[m] = backlog[m] BY <1>7, <1>t, <2>2 DEF WebTypeOK
    <3>2. ASSUME NEW u \in Visitors
          PROVE  visit'[u] = "backlog" /\ via[u] = m <=> visit[u] = "backlog" /\ via[u] = m
      BY <1>6, <1>4, <2>2
    <3> QED BY <3>1, <3>2, <1>2, <1>9 DEF HandsAt, Line
  <2> QED BY <2>1, <2>2
<1>11. \A m : Workers(m)' = Workers(m) BY <1>4, <1>6, <1>9 DEF Workers, Working
<1> QED BY <1>3, <1>4, <1>6, <1>8, <1>10, <1>11 DEF v

LEMMA AcceptVisitorStep ==
  ASSUME WebInv, NEW l \in Listeners, AcceptVisitor(l)
  PROVE  WebInv'
<1> DEFINE v == Head(backlog[l])
<1>t. WebTypeOK BY DEF WebInv
<1>1. /\ Accepted(l) /\ locks < limit /\ locks' = locks + 1
      /\ queue' = [queue EXCEPT ![l] = Append(@, v)]
      /\ Go(v, "queued") /\ UNCHANGED <<listener, limit, visitorVars>>
  BY DEF AcceptVisitor
<1>2. /\ v \in Visitors /\ visit[v] = "backlog" /\ via[v] = l
      /\ backlog' \in [Listeners -> Seq(Visitors)]
      /\ \A u \in Visitors : visit'[u] = IF u = v THEN "queued" ELSE visit[u]
      /\ \A m \in Listeners : Line(backlog[m], "backlog", m)'
      /\ \A m : Workers(m)' = Workers(m)
  BY <1>1, HeadLeavesBacklog
<1> HIDE DEF v
<1>3. via' = via /\ want' = want /\ asked' = asked /\ gone' = gone /\ takes' = takes BY <1>1 DEF visitorVars
<1>4. WebTypeOK'
  <2>1. visit' = [visit EXCEPT ![v] = "queued"] BY <1>1 DEF Go
  <2>2. queue' \in [Listeners -> Seq(Visitors)] BY <1>1, <1>2, <1>t DEF WebTypeOK
  <2>3. locks' \in 0..limit' /\ limit' \in 0..MaxLocks BY <1>1, <1>t, PoolAssumption DEF WebTypeOK
  <2>4. visit' \in [Visitors -> {"away", "backlog", "queued"} \cup Working \cup Over]
    BY <2>1, <1>t DEF WebTypeOK
  <2> QED BY <2>2, <2>3, <2>4, <1>1, <1>2, <1>3, <1>t DEF WebTypeOK
<1>5. ASSUME NEW m \in Listeners PROVE HandsAt(m)'
  <2>1. HandsAt(m) /\ queue[m] \in Seq(Visitors) BY <1>t DEF WebInv, WebTypeOK
  <2>2. ~Holds(queue[m], v) BY <2>1, <1>2 DEF HandsAt, Line
  <2>3. Line(queue[m], "queued", m)'
    <3>1. CASE m = l
      <4>1. queue'[m] = Append(queue[m], v) BY <1>1, <1>t, <3>1 DEF WebTypeOK
      <4>2. NoRepeats(Append(queue[m], v))
            /\ \A u \in Visitors : Holds(Append(queue[m], v), u) <=> Holds(queue[m], u) \/ u = v
        BY <2>1, <2>2, <1>2, JoinLine DEF HandsAt, Line
      <4>3. ASSUME NEW u \in Visitors
            PROVE  Holds(Append(queue[m], v), u) <=> visit'[u] = "queued" /\ via[u] = m
        BY <4>2, <3>1, <1>2, <2>1 DEF HandsAt, Line
      <4> QED BY <4>1, <4>2, <4>3, <1>3 DEF Line
    <3>2. CASE m # l
      <4>1. queue'[m] = queue[m] BY <1>1, <1>t, <3>2 DEF WebTypeOK
      <4>2. ASSUME NEW u \in Visitors
            PROVE  visit'[u] = "queued" /\ via[u] = m <=> visit[u] = "queued" /\ via[u] = m
        BY <1>2, <3>2
      <4> QED BY <4>1, <4>2, <2>1, <1>3 DEF HandsAt, Line
    <3> QED BY <3>1, <3>2
  <2> QED BY <2>1, <2>3, <1>2 DEF HandsAt
<1>6. LockBudget'
  <2>1. LockBudget BY DEF WebInv
  <2>2. Handled' = Handled \cup {v} /\ v \notin Handled BY <1>2 DEF Handled
  <2>3. Cardinality(Handled') = Cardinality(Handled) + 1 BY <2>2, FiniteSides, FS_AddElement
  <2>4. locks' = Cardinality(Handled') /\ locks' <= limit'
    BY <2>1, <2>3, <1>1, <1>t, PoolAssumption DEF LockBudget, WebTypeOK
  <2>5. \A u \in Visitors : visit[u] # "refused" BY <2>1, <1>1, <1>t DEF LockBudget, WebTypeOK
  <2>6. \A u \in Visitors : visit'[u] # "refused" BY <2>5, <1>2
  <2>7. listener["plain"] # "ended" BY <2>1, <2>5 DEF LockBudget
  <2> QED BY <2>4, <2>6, <2>7, <1>1 DEF LockBudget
<1> QED BY <1>4, <1>5, <1>6 DEF WebInv

LEMMA ConstructorThrowsStep ==
  ASSUME WebInv, NEW l \in Listeners, ConstructorThrows(l)
  PROVE  WebInv'
<1> DEFINE v == Head(backlog[l])
<1>t. WebTypeOK BY DEF WebInv
<1>1. /\ Accepted(l) /\ locks = limit /\ listener' = [listener EXCEPT ![l] = "ended"]
      /\ Go(v, "refused") /\ UNCHANGED <<queue, limit, locks, visitorVars>>
  BY DEF ConstructorThrows
<1>2. /\ v \in Visitors /\ visit[v] = "backlog" /\ via[v] = l
      /\ backlog' \in [Listeners -> Seq(Visitors)]
      /\ \A u \in Visitors : visit'[u] = IF u = v THEN "refused" ELSE visit[u]
      /\ \A m \in Listeners : Line(backlog[m], "backlog", m)'
      /\ \A m : Workers(m)' = Workers(m)
  BY <1>1, HeadLeavesBacklog
<1>3. listener[l] = "up" BY <1>1 DEF Accepted
<1> HIDE DEF v
<1>4. via' = via /\ want' = want /\ asked' = asked /\ gone' = gone /\ takes' = takes BY <1>1 DEF visitorVars
<1>5. listener' \in [Listeners -> {"up", "ended"}]
      /\ \A m \in Listeners : listener'[m] = IF m = l THEN "ended" ELSE listener[m]
  BY <1>1, <1>t DEF WebTypeOK
<1>6. WebTypeOK'
  <2>1. visit' = [visit EXCEPT ![v] = "refused"] BY <1>1 DEF Go
  <2>2. visit' \in [Visitors -> {"away", "backlog", "queued"} \cup Working \cup Over]
    BY <2>1, <1>t DEF WebTypeOK, Over
  <2> QED BY <2>2, <1>1, <1>2, <1>4, <1>5, <1>t DEF WebTypeOK
<1>7. ASSUME NEW m \in Listeners PROVE HandsAt(m)'
  <2>1. HandsAt(m) BY DEF WebInv
  <2>2. \A u \in Visitors : visit'[u] = "queued" <=> visit[u] = "queued" BY <1>2
  <2> QED BY <2>1, <2>2, <1>1, <1>2, <1>4 DEF HandsAt, Line
<1>8. LockBudget'
  <2>1. LockBudget BY DEF WebInv
  <2>2. Handled' = Handled BY <1>2 DEF Handled
  <2>3. \A u \in Visitors : via[u] \in Listeners BY <1>t DEF WebTypeOK
  <2>4. \A u \in Visitors : visit'[u] = "refused" <=> u = v \/ visit[u] = "refused" BY <1>2
  <2>5. \A u \in Visitors : visit[u] = "refused" => via[u] # l BY <2>1, <1>3 DEF LockBudget
  <2>6. \A u \in Visitors : visit'[u] = "refused" => locks' = limit' /\ listener'[via'[u]] = "ended"
    BY <2>1, <2>3, <2>4, <1>1, <1>2, <1>4, <1>5 DEF LockBudget
  <2>7. \A u, w \in Visitors : visit'[u] = "refused" /\ visit'[w] = "refused" /\ u # w => via'[u] # via'[w]
    BY <2>1, <2>4, <2>5, <1>2, <1>4 DEF LockBudget
  <2>8. listener'["plain"] = "ended" => \E u \in Visitors : visit'[u] = "refused" /\ via'[u] = "plain"
    <3>1. CASE l = "plain" BY <3>1, <2>4, <1>2, <1>4
    <3>2. CASE l # "plain"
      <4>1. listener'["plain"] = listener["plain"] BY <3>2, <1>5 DEF Listeners
      <4> QED BY <4>1, <2>1, <2>4, <1>4 DEF LockBudget
    <3> QED BY <3>1, <3>2
  <2> QED BY <2>1, <2>2, <2>6, <2>7, <2>8, <1>1 DEF LockBudget
<1> QED BY <1>6, <1>7, <1>8 DEF WebInv

LEMMA StartWorkStep ==
  ASSUME WebInv, NEW l \in Listeners, StartWork(l)
  PROVE  WebInv'
<1> DEFINE v == Head(queue[l])
<1>t. WebTypeOK BY DEF WebInv
<1>h. \A m \in Listeners : HandsAt(m) BY DEF WebInv
<1>1. /\ queue[l] # <<>> /\ Cardinality(Workers(l)) < PoolSize
      /\ queue' = [queue EXCEPT ![l] = Tail(@)]
      /\ Go(v, "reading") /\ UNCHANGED <<listener, backlog, limit, locks, visitorVars>>
  BY DEF StartWork
<1>2. /\ v \in Visitors /\ Holds(queue[l], v)
      /\ Tail(queue[l]) \in Seq(Visitors) /\ NoRepeats(Tail(queue[l]))
      /\ \A u \in Visitors : Holds(Tail(queue[l]), u) <=> Holds(queue[l], u) /\ u # v
  BY <1>1, <1>t, <1>h, LeaveLine DEF HandsAt, Line, WebTypeOK
<1>3. visit[v] = "queued" /\ via[v] = l BY <1>h, <1>2 DEF HandsAt, Line
<1> HIDE DEF v
<1>4. visit' = [visit EXCEPT ![v] = "reading"] BY <1>1 DEF Go
<1>5. \A u \in Visitors : visit'[u] = IF u = v THEN "reading" ELSE visit[u]
  BY <1>4, <1>t DEF WebTypeOK
<1>6. via' = via /\ want' = want /\ asked' = asked /\ gone' = gone /\ takes' = takes BY <1>1 DEF visitorVars
<1>7. WebTypeOK'
  <2>1. queue' \in [Listeners -> Seq(Visitors)] BY <1>1, <1>2, <1>t DEF WebTypeOK
  <2>2. visit' \in [Visitors -> {"away", "backlog", "queued"} \cup Working \cup Over]
    BY <1>4, <1>t DEF WebTypeOK, Working
  <2> QED BY <2>1, <2>2, <1>1, <1>6, <1>t DEF WebTypeOK
<1>8. ASSUME NEW m \in Listeners PROVE HandsAt(m)'
  <2>1. Line(backlog[m], "backlog", m)'
    <3>1. \A u \in Visitors : visit'[u] = "backlog" <=> visit[u] = "backlog" BY <1>3, <1>5
    <3> QED BY <3>1, <1>h, <1>1, <1>6 DEF HandsAt, Line
  <2>2. CASE m = l
    <3>1. queue'[m] = Tail(queue[l]) BY <1>1, <1>t, <2>2 DEF WebTypeOK
    <3>2. ASSUME NEW u \in Visitors
          PROVE  Holds(Tail(queue[l]), u) <=> visit'[u] = "queued" /\ via[u] = l
      BY <1>2, <1>h, <1>5 DEF HandsAt, Line
    <3>3. Line(queue[m], "queued", m)' BY <3>1, <3>2, <2>2, <1>2, <1>6 DEF Line
    <3>4. Workers(l)' = Workers(l) \cup {v} /\ v \notin Workers(l)
      BY <1>2, <1>3, <1>5, <1>6 DEF Workers, Working
    <3>5. Cardinality(Workers(l)') = Cardinality(Workers(l)) + 1
      BY <3>4, FiniteSides, FS_AddElement
    <3>6. Cardinality(Workers(l)') <= PoolSize BY <3>5, <1>1, FiniteSides, PoolAssumption
    <3> QED BY <3>3, <3>6, <2>1, <2>2 DEF HandsAt
  <2>3. CASE m # l
    <3>1. queue'[m] = queue[m] BY <1>1, <1>t, <2>3 DEF WebTypeOK
    <3>2. \A u \in Visitors : visit'[u] = "queued" /\ via[u] = m <=> visit[u] = "queued" /\ via[u] = m
      BY <1>3, <1>5, <2>3
    <3>3. Line(queue[m], "queued", m)' BY <3>1, <3>2, <1>h, <1>6 DEF HandsAt, Line
    <3>4. Workers(m)' = Workers(m) BY <1>3, <1>5, <1>6, <2>3 DEF Workers
    <3> QED BY <3>3, <3>4, <2>1, <1>h DEF HandsAt
  <2> QED BY <2>2, <2>3
<1>9. LockBudget'
  <2>1. \A u \in Visitors : visit'[u] = "refused" <=> visit[u] = "refused" BY <1>3, <1>5
  <2>2. Handled' = Handled BY <1>3, <1>5 DEF Handled
  <2> QED BY <2>1, <2>2, <1>1, <1>6 DEF WebInv, LockBudget
<1> QED BY <1>7, <1>8, <1>9 DEF WebInv

-----------------------------------------------------------------------------

(* One step per action. *)
LEMMA StepWeb == WebInv /\ [Next]_vars => WebInv'
<1> SUFFICES ASSUME WebInv, [Next]_vars PROVE WebInv' OBVIOUS
<1>t. asked \in [Visitors -> BOOLEAN] /\ gone \in [Visitors -> BOOLEAN]
      /\ takes \in [Visitors -> BOOLEAN]
  BY DEF WebInv, WebTypeOK
<1>1. CASE UNCHANGED vars
  BY <1>1, <1>t, QuietStep DEF vars, poolVars, visitorVars
<1>2. ASSUME NEW v \in Visitors, Browser(v) PROVE WebInv'
  <2>1. CASE SendRequest(v)
    BY <2>1, <1>t, QuietStep DEF SendRequest, poolVars
  <2>2. CASE LeaveSite(v)
    BY <2>2, <1>t, QuietStep DEF LeaveSite, poolVars
  <2>3. CASE ReadOn(v)
    BY <2>3, <1>t, QuietStep DEF ReadOn, poolVars
  <2> QED BY <1>2, <2>1, <2>2, <2>3, VisitStep DEF Browser
<1>3. ASSUME NEW v \in Visitors, Worker(v) PROVE WebInv'
  <2>1. CASE ReadRequest(v)
    <3>1. want[v] \in {"static", "movies", "shows", "broken"} BY DEF WebInv, WebTypeOK, Pages
    <3>2. \E place \in Working \cup {"answered", "dropped"} : Go(v, place)
      BY <2>1, <3>1 DEF ReadRequest, Working
    <3> QED BY <2>1, <3>2, WorkerMoves DEF ReadRequest, Working
  <2>2. CASE ReadFails(v) BY <2>2, WorkerMoves DEF ReadFails, Working
  <2>3. CASE ConnectServer(v) BY <2>3, WorkerMoves DEF ConnectServer, Working
  <2>4. CASE SendToServer(v) BY <2>4, WorkerMoves DEF SendToServer, Working
  <2>5. CASE ServerUnreachable(v) BY <2>5, WorkerMoves DEF ServerUnreachable, Working
  <2>6. CASE ReceiveMovies(v) BY <2>6, WorkerMoves DEF ReceiveMovies, Working
  <2>7. CASE ReceiveFails(v) BY <2>7, WorkerMoves DEF ReceiveFails, Working
  <2>8. CASE WritePage(v) BY <2>8, WorkerMoves DEF WritePage, Working
  <2> QED BY <1>3, <2>1, <2>2, <2>3, <2>4, <2>5, <2>6, <2>7, <2>8 DEF Worker
<1>4. ASSUME NEW v \in Visitors, CollectSocket(v) \/ CServerStep(v) PROVE WebInv'
  BY <1>4, <1>t, QuietStep DEF CollectSocket, CServerStep, poolVars, visitorVars
<1>5. ASSUME NEW l \in Listeners, Listener(l) \/ StartWork(l) PROVE WebInv'
  BY <1>5, AcceptVisitorStep, ConstructorThrowsStep, StartWorkStep DEF Listener
<1>6. CASE AcceptThrows
  BY <1>6, <1>t, QuietStep DEF AcceptThrows, visitorVars
<1>7. CASE CServerDies
  BY <1>7, <1>t, QuietStep DEF CServerDies, poolVars, visitorVars
<1> QED BY <1>1, <1>2, <1>3, <1>4, <1>5, <1>6, <1>7 DEF Next

LEMMA WebInvariant == Spec => []WebInv
<1> QED BY InitWeb, StepWeb, PTL DEF Spec

(* The variables of the web server keep their types; in particular no more *)
(* log files are opened than were free.                                    *)
THEOREM WebTypeCorrect == Spec => []WebTypeOK
<1>1. WebInv => WebTypeOK BY DEF WebInv
<1> QED BY <1>1, WebInvariant, PTL

(* A connection is in one backlog, one queue or one worker of its own      *)
(* listener, and the workers of a pool are never more than its threads.    *)
THEOREM InOneHandHolds == Spec => []InOneHand
<1>1. WebInv => InOneHand BY DEF WebInv, HandsAt, Line, InOneHand
<1> QED BY <1>1, WebInvariant, PTL

(* The connections handled are the log files opened, whichever listener    *)
(* they came by; a listener that finds none ends over that connection, and *)
(* the plain one ends in no other way.                                     *)
THEOREM LockBudgetHolds == Spec => []LockBudget
<1>1. WebInv => LockBudget BY DEF WebInv
<1> QED BY <1>1, WebInvariant, PTL
=============================================================================
