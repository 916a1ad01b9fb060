-------------------------- MODULE ExecMeaningProofs -------------------------
(***************************************************************************)
(* That a line is run as it is written, in Exec, for every set of trees.   *)
(*                                                                         *)
(* Meaning reads a line's value off its tree and off the outcomes of its   *)
(* commands, from the root down; the program has it from the leaves up.    *)
(* The invariant says, whatever outcomes are still to come, what the value *)
(* of the line is in terms of the calls of exec_node that have not         *)
(* returned: there is a tableau with a value for each call of each         *)
(* process, the first being the line's, every one what its call makes of   *)
(* the next, and the last what the innermost call is worth by itself       *)
(* (Linked).  With nothing left to call, that is what it has returned.     *)
(*                                                                         *)
(* A node's own outcome counts only where the node is run itself, so that  *)
(* an outcome must not be taken for that of a call that has called         *)
(* another: calls are of nodes that get deeper (Deeper).                   *)
(***************************************************************************)
EXTENDS ExecProofs

-----------------------------------------------------------------------------
(* The values of the nodes. *)

\* A stage, from the value of the one before.
StageAs(v, L, n, i, x) ==
  IF x.over THEN x
  ELSE IF x.next \in 1..Len(L) /\ L[x.next].node = n
  THEN [Missing EXCEPT !.next = x.next + 1, !.status = 1, !.over = TRUE]
  ELSE [Missing EXCEPT !.next = v[Nodes[n].kids[i]][x.next].next,
                       !.status = IF v[Nodes[n].kids[i]][x.next].sig THEN 137
                                  ELSE v[Nodes[n].kids[i]][x.next].status]
StagesBody(v, L, n, k, st) ==
  [i \in 0..Len(Nodes[n].kids) |-> IF i = 0 THEN [Missing EXCEPT !.next = k]
                                   ELSE StageAs(v, L, n, i, st[i - 1])]
Stages(v, L, n, k) == CHOOSE st : st = StagesBody(v, L, n, k, st)
OwnValue(L, k) ==
  [next |-> k + 1, status |-> L[k].code, over |-> L[k].ends, sig |-> L[k].sig]
Value(v, L, n, k) ==
  LET kids == Nodes[n].kids
      op == Nodes[n].op
      left == v[kids[1]][k]
  IN IF k \notin 1..Len(L) THEN Missing
     ELSE IF op # "pipe" /\ L[k].node = n THEN OwnValue(L, k)
     ELSE CASE op = "cmd" -> Missing
            [] op = "sub" -> [Missing EXCEPT !.next = left.next,
                               !.status = IF left.sig THEN 1 ELSE left.status]
            [] op = "pipe" -> [Stages(v, L, n, k)[Len(kids)] EXCEPT !.over = FALSE]
            [] op = "seq" -> IF left.over \/ Len(kids) = 1 THEN left
                             ELSE v[kids[2]][left.next]
            [] op \in {"and", "or"} ->
                 IF left.over \/ (op = "and") # (left.status = 0) THEN left
                 ELSE v[kids[2]][left.next]
ValuesBody(v, L) == [n \in DOMAIN Nodes |-> [k \in 0..(Len(L) + 1) |-> Value(v, L, n, k)]]

\* The values that Meaning chooses, with its LETs as operators.
LEMMA MeaningIs == Meaning = (CHOOSE v : v = ValuesBody(v, log))[line][1]
BY DEF Meaning, ValuesBody, Value, OwnValue, Stages, StagesBody, StageAs

Results(L) == [next : 0..(Len(L) + 1), status : {None} \cup 0..255, over : BOOLEAN, sig : BOOLEAN]
Values(L) == [DOMAIN Nodes -> [0..(Len(L) + 1) -> Results(L)]]

\* The values of the nodes behind a node.
Behind(v, L, n) ==
  \A m \in DOMAIN Nodes : m > n => v[m] \in [0..(Len(L) + 1) -> Results(L)]

AlikeBehind(v, w, n) == \A m \in DOMAIN Nodes : m > n => v[m] = w[m]

\* Induction, over a set of numbers.
LEMMA NatSetInduction ==
  ASSUME NEW S, 0 \in S, \A m \in Nat : m \in S => m + 1 \in S
  PROVE  \A m \in Nat : m \in S
<1>. DEFINE less == OpToRel(<, Nat)
            T == {m \in Nat : m \notin S}
<1>. SUFFICES ASSUME T # {} PROVE FALSE
  OBVIOUS
<1>1. IsWellFoundedOn(less, Nat) /\ T \subseteq Nat
  BY NatLessThanWellFounded
<1>. HIDE DEF less, T
<1>2. PICK m \in T : \A k \in T : <<k, m>> \notin less
  BY <1>1, WFMin
<1>. USE DEF less
<1>3. \A k \in T : ~(k < m)
  <2>. TAKE k \in T
  <2>1. k \in Nat /\ m \in Nat /\ <<k, m>> \notin less
    BY <1>1, <1>2
  <2>. QED BY <2>1 DEF OpToRel
<1>. HIDE DEF less
<1>4. m \in Nat /\ m \notin S
  BY DEF T
<1>5. m # 0
  BY <1>4
<1>6. m - 1 \in Nat /\ (m - 1) + 1 = m /\ m - 1 < m
  BY <1>4, <1>5
<1>7. m - 1 \notin S
  BY <1>4, <1>6
<1>8. m - 1 \in T
  BY <1>6, <1>7 DEF T
<1>. QED BY <1>3, <1>6, <1>8

\* The stages of a pipeline have values, each from the one before.
StagesTo(v, L, n, k, st, m) ==
  /\ st[0] = [Missing EXCEPT !.next = k]
  /\ \A i \in 1..m : st[i] = StageAs(v, L, n, i, st[i - 1])

LEMMA StagesExist ==
  ASSUME NEW v, NEW L, NEW n, NEW k, NEW m \in Nat
  PROVE  \E st : StagesTo(v, L, n, k, st, m)
<1>. DEFINE S == {l \in Nat : \E st : StagesTo(v, L, n, k, st, l)}
<1>1. 0 \in S
  <2>. DEFINE st == [i \in {0} |-> [Missing EXCEPT !.next = k]]
  <2>1. st[0] = [Missing EXCEPT !.next = k]
    OBVIOUS
  <2>. HIDE DEF st
  <2>2. StagesTo(v, L, n, k, st, 0)
    BY <2>1 DEF StagesTo
  <2>. QED BY <2>2
<1>2. ASSUME NEW l \in Nat, l \in S PROVE l + 1 \in S
  <2>1. PICK st : StagesTo(v, L, n, k, st, l)
    BY <1>2
  <2>. DEFINE new == [i \in 0..(l + 1) |-> IF i = l + 1 THEN StageAs(v, L, n, l + 1, st[l])
                                           ELSE st[i]]
  <2>2. /\ new[0] = st[0] /\ new[l + 1] = StageAs(v, L, n, l + 1, st[l])
        /\ \A i \in 0..l : new[i] = st[i]
    OBVIOUS
  <2>. HIDE DEF new
  <2>3. ASSUME NEW i \in 1..(l + 1) PROVE new[i] = StageAs(v, L, n, i, new[i - 1])
    <3>1. CASE i = l + 1
      <4>1. i - 1 = l /\ new[l] = st[l]
        BY <2>2, <3>1
      <4>. QED BY <2>2, <3>1, <4>1
    <3>2. CASE i # l + 1
      <4>1. i \in 1..l /\ i \in 0..l /\ i - 1 \in 0..l
        BY <3>2
      <4>. QED BY <2>1, <2>2, <4>1 DEF StagesTo
    <3>. QED BY <3>1, <3>2
  <2>4. StagesTo(v, L, n, k, new, l + 1)
    BY <2>1, <2>2, <2>3 DEF StagesTo
  <2>5. l + 1 \in Nat
    OBVIOUS
  <2>. QED BY <2>4, <2>5
<1>. HIDE DEF S
<1>3. \A l \in Nat : l \in S
  BY <1>1, <1>2, NatSetInduction
<1>. QED BY <1>3 DEF S

\* CHOOSE finds them.
LEMMA StagesAre ==
  ASSUME NEW v, NEW L, NEW n \in DOMAIN Nodes, NEW k
  PROVE  StagesTo(v, L, n, k, Stages(v, L, n, k), Len(Nodes[n].kids))
<1>. DEFINE m == Len(Nodes[n].kids)
            As(i, x) == StageAs(v, L, n, i, x)
            first == [Missing EXCEPT !.next = k]
            st == Stages(v, L, n, k)
<1>1. m \in Nat
  BY NodesDef
<1>2. \A s : StagesBody(v, L, n, k, s) = [i \in 0..m |-> IF i = 0 THEN first ELSE As(i, s[i - 1])]
  BY DEF StagesBody
<1>3. \A s : StagesTo(v, L, n, k, s, m) <=> s[0] = first /\ \A i \in 1..m : s[i] = As(i, s[i - 1])
  BY DEF StagesTo
<1>4. st = CHOOSE s : s = StagesBody(v, L, n, k, s)
  BY DEF Stages
<1>5. PICK s : StagesTo(v, L, n, k, s, m)
  BY <1>1, StagesExist
<1>. HIDE DEF As, first, m, st
<1>6. \E t : t = StagesBody(v, L, n, k, t)
  <2>. DEFINE t == [i \in 0..m |-> s[i]]
  <2>1. ASSUME NEW i \in 0..m
        PROVE  t[i] = IF i = 0 THEN first ELSE As(i, t[i - 1])
    <3>1. i # 0 => i \in 1..m /\ i - 1 \in 0..m
      BY <1>1
    <3>2. s[0] = first /\ \A j \in 1..m : s[j] = As(j, s[j - 1])
      BY <1>3, <1>5
    <3>3. \A j \in 0..m : t[j] = s[j]
      OBVIOUS
    <3>. HIDE DEF t
    <3>. QED BY <3>1, <3>2, <3>3
  <2>2. t = [i \in 0..m |-> t[i]]
    OBVIOUS
  <2>. HIDE DEF t
  <2>3. t = [i \in 0..m |-> IF i = 0 THEN first ELSE As(i, t[i - 1])]
    BY <2>1, <2>2
  <2>4. t = StagesBody(v, L, n, k, t)
    BY <1>2, <2>3
  <2>. QED BY <2>4, Zenon
<1>7. st = StagesBody(v, L, n, k, st)
  BY <1>4, <1>6
<1>8. st = [i \in 0..m |-> IF i = 0 THEN first ELSE As(i, st[i - 1])]
  BY <1>2, <1>7
<1>9. \A i \in 0..m : st[i] = IF i = 0 THEN first ELSE As(i, st[i - 1])
  BY <1>8
<1>10. 0 \in 0..m /\ \A i \in 1..m : i \in 0..m /\ i # 0
  BY <1>1
<1>11. st[0] = first /\ \A i \in 1..m : st[i] = As(i, st[i - 1])
  BY <1>9, <1>10
<1>. QED BY <1>3, <1>11 DEF st, m

\* How many kids a node has.
LEMMA KidsAre ==
  ASSUME NEW n \in DOMAIN Nodes
  PROVE  LET size == Len(Nodes[n].kids)
             op == Nodes[n].op
         IN /\ op \in Ops /\ size \in Nat
            /\ op # "cmd" => 1 \in 1..size
            /\ op = "sub" => size = 1
            /\ op = "seq" => size = 1 \/ size = 2
            /\ op = "pipe" => size >= 2
            /\ op \in {"and", "or"} => size = 2 /\ size # 1
            /\ op \in {"seq", "and", "or"} /\ size # 1 => 2 \in 1..size
            /\ \A i \in 1..size : Nodes[n].kids[i] \in DOMAIN Nodes /\ Nodes[n].kids[i] > n
<1>. DEFINE size == Len(Nodes[n].kids)
            op == Nodes[n].op
<1>1. op \in Ops /\ size \in Nat /\ size \in Arity(op)
  BY NodesDef
<1>2. \A i \in 1..size : Nodes[n].kids[i] \in DOMAIN Nodes /\ Nodes[n].kids[i] > n
  BY NodesAssumption
<1>. HIDE DEF size, op
<1>3. CASE op = "cmd"
  BY <1>1, <1>2, <1>3 DEF size, op
<1>4. CASE op = "sub"
  <2>1. size = 1
    BY <1>1, <1>4 DEF Arity
  <2>. QED BY <1>1, <1>2, <1>4, <2>1 DEF size, op
<1>5. CASE op = "seq"
  <2>1. size = 1 \/ size = 2
    BY <1>1, <1>5 DEF Arity
  <2>2. CASE size = 1
    BY <1>1, <1>2, <1>5, <2>2 DEF size, op
  <2>3. CASE size = 2
    BY <1>1, <1>2, <1>5, <2>3 DEF size, op
  <2>. QED BY <2>1, <2>2, <2>3
<1>6. CASE op = "pipe"
  <2>1. size >= 2
    BY <1>1, <1>6 DEF Arity
  <2>. QED BY <1>1, <1>2, <1>6, <2>1 DEF size, op
<1>7. CASE op \in {"and", "or"}
  <2>1. size = 2
    BY <1>1, <1>7 DEF Arity
  <2>. QED BY <1>1, <1>2, <1>7, <2>1 DEF size, op
<1>. QED BY <1>1, <1>3, <1>4, <1>5, <1>6, <1>7 DEF Ops

\* The records that Meaning writes with EXCEPT.
LEMMA MissingNext ==
  ASSUME NEW a
  PROVE  [Missing EXCEPT !.next = a] =
           [next |-> a, status |-> None, over |-> FALSE, sig |-> FALSE]
<1>1. ASSUME NEW r, r = [Missing EXCEPT !.next = a]
      PROVE  r = [next |-> a, status |-> None, over |-> FALSE, sig |-> FALSE]
  BY <1>1 DEF Missing
<1>. QED BY <1>1, Zenon

LEMMA MissingStatus ==
  ASSUME NEW a, NEW b
  PROVE  [Missing EXCEPT !.next = a, !.status = b] =
           [next |-> a, status |-> b, over |-> FALSE, sig |-> FALSE]
<1>1. ASSUME NEW r, r = [Missing EXCEPT !.next = a, !.status = b]
      PROVE  r = [next |-> a, status |-> b, over |-> FALSE, sig |-> FALSE]
  BY <1>1 DEF Missing
<1>. QED BY <1>1, Zenon

LEMMA MissingOver ==
  ASSUME NEW a, NEW b
  PROVE  [Missing EXCEPT !.next = a, !.status = b, !.over = TRUE] =
           [next |-> a, status |-> b, over |-> TRUE, sig |-> FALSE]
<1>1. ASSUME NEW r, r = [Missing EXCEPT !.next = a, !.status = b, !.over = TRUE]
      PROVE  r = [next |-> a, status |-> b, over |-> TRUE, sig |-> FALSE]
  BY <1>1 DEF Missing
<1>. QED BY <1>1, Zenon

\* A stage has a value, and of the nodes in front of the pipeline's it takes none.
LEMMA StageAsTyped ==
  ASSUME NEW L \in Seq(Entries), NEW v, NEW n \in DOMAIN Nodes, Behind(v, L, n),
         NEW i \in 1..Len(Nodes[n].kids), NEW x \in Results(L)
  PROVE  StageAs(v, L, n, i, x) \in Results(L)
<1>1. Len(L) \in Nat /\ x.next \in 0..(Len(L) + 1)
  BY DEF Results
<1>2. Nodes[n].kids[i] \in DOMAIN Nodes /\ Nodes[n].kids[i] > n
  BY NodesAssumption
<1>. DEFINE u == v[Nodes[n].kids[i]][x.next]
<1>3. u \in Results(L)
  BY <1>1, <1>2 DEF Behind
<1>4. StageAs(v, L, n, i, x) =
        IF x.over THEN x
        ELSE IF x.next \in 1..Len(L) /\ L[x.next].node = n
        THEN [Missing EXCEPT !.next = x.next + 1, !.status = 1, !.over = TRUE]
        ELSE [Missing EXCEPT !.next = u.next, !.status = IF u.sig THEN 137 ELSE u.status]
  BY DEF StageAs
<1>7. [Missing EXCEPT !.next = x.next + 1, !.status = 1, !.over = TRUE] =
        [next |-> x.next + 1, status |-> 1, over |-> TRUE, sig |-> FALSE]
  <2>. DEFINE a == x.next + 1
              b == 1
  <2>. HIDE DEF a, b
  <2>1. [Missing EXCEPT !.next = a, !.status = b, !.over = TRUE] =
          [next |-> a, status |-> b, over |-> TRUE, sig |-> FALSE]
    BY MissingOver, Zenon
  <2>. QED BY <2>1 DEF a, b
<1>8. [Missing EXCEPT !.next = u.next, !.status = IF u.sig THEN 137 ELSE u.status] =
        [next |-> u.next, status |-> IF u.sig THEN 137 ELSE u.status,
              over |-> FALSE, sig |-> FALSE]
  BY MissingStatus, ZenonT(40)
<1>. HIDE DEF u
<1>5. [next |-> u.next, status |-> IF u.sig THEN 137 ELSE u.status,
              over |-> FALSE, sig |-> FALSE] \in Results(L)
  BY <1>3 DEF Results
<1>6. x.next \in 1..Len(L) =>
        [next |-> x.next + 1, status |-> 1, over |-> TRUE, sig |-> FALSE] \in Results(L)
  BY <1>1 DEF Results
<1>. QED BY <1>4, <1>5, <1>6, <1>7, <1>8

\* A value depends on those of the nodes behind.
LEMMA StageAsSame ==
  ASSUME NEW L, NEW v, NEW w, NEW n \in DOMAIN Nodes,
         AlikeBehind(v, w, n),
         NEW i \in 1..Len(Nodes[n].kids), NEW x
  PROVE  StageAs(v, L, n, i, x) = StageAs(w, L, n, i, x)
<1>1. Nodes[n].kids[i] \in DOMAIN Nodes /\ Nodes[n].kids[i] > n
  BY NodesAssumption
<1>2. v[Nodes[n].kids[i]] = w[Nodes[n].kids[i]]
  BY <1>1 DEF AlikeBehind
<1>. QED BY <1>2 DEF StageAs

\* So have all stages of a pipeline, and then every node.
LEMMA StagesTyped ==
  ASSUME NEW L \in Seq(Entries), NEW v, NEW n \in DOMAIN Nodes, Behind(v, L, n),
         NEW k \in 0..(Len(L) + 1), NEW i \in 0..Len(Nodes[n].kids)
  PROVE  Stages(v, L, n, k)[i] \in Results(L)
<1>. DEFINE st == Stages(v, L, n, k)
            m == Len(Nodes[n].kids)
            S == {j \in Nat : j <= m => st[j] \in Results(L)}
<1>1. m \in Nat /\ StagesTo(v, L, n, k, st, m)
  BY NodesDef, StagesAre
<1>2. 0 \in S
  <2>1. st[0] = [next |-> k, status |-> None, over |-> FALSE, sig |-> FALSE]
    BY <1>1 DEF StagesTo, Missing
  <2>. HIDE DEF st
  <2>2. st[0] \in Results(L)
    BY <2>1 DEF Results
  <2>. QED BY <2>2
<1>3. ASSUME NEW j \in Nat, j \in S PROVE j + 1 \in S
  <2>. SUFFICES ASSUME j + 1 <= m PROVE st[j + 1] \in Results(L)
    OBVIOUS
  <2>1. j + 1 \in 1..m /\ j + 1 - 1 = j /\ j <= m
    BY <1>1
  <2>2. st[j] \in Results(L)
    BY <1>3, <2>1
  <2>3. st[j + 1] = StageAs(v, L, n, j + 1, st[j])
    BY <1>1, <2>1 DEF StagesTo
  <2>. HIDE DEF st, S
  <2>4. j + 1 \in 1..Len(Nodes[n].kids)
    BY <2>1 DEF m
  <2>. QED BY <2>2, <2>3, <2>4, StageAsTyped
<1>. HIDE DEF S
<1>4. \A j \in Nat : j \in S
  BY <1>2, <1>3, NatSetInduction
<1>5. i \in Nat /\ i <= m
  BY <1>1
<1>. QED BY <1>4, <1>5 DEF S

LEMMA StagesSame ==
  ASSUME NEW L, NEW v, NEW w, NEW n \in DOMAIN Nodes,
         AlikeBehind(v, w, n),
         NEW k, NEW i \in 0..Len(Nodes[n].kids)
  PROVE  Stages(v, L, n, k)[i] = Stages(w, L, n, k)[i]
<1>. DEFINE st == Stages(v, L, n, k)
            tt == Stages(w, L, n, k)
            m == Len(Nodes[n].kids)
            S == {j \in Nat : j <= m => st[j] = tt[j]}
<1>1. m \in Nat /\ StagesTo(v, L, n, k, st, m) /\ StagesTo(w, L, n, k, tt, m)
  BY NodesDef, StagesAre
<1>2. 0 \in S
  <2>1. st[0] = tt[0]
    BY <1>1 DEF StagesTo
  <2>. QED BY <2>1
<1>3. ASSUME NEW j \in Nat, j \in S PROVE j + 1 \in S
  <2>. SUFFICES ASSUME j + 1 <= m PROVE st[j + 1] = tt[j + 1]
    OBVIOUS
  <2>1. j + 1 \in 1..m /\ j + 1 - 1 = j /\ j <= m
    BY <1>1
  <2>2. st[j] = tt[j]
    BY <1>3, <2>1
  <2>3. st[j + 1] = StageAs(v, L, n, j + 1, st[j]) /\ tt[j + 1] = StageAs(w, L, n, j + 1, tt[j])
    BY <1>1, <2>1 DEF StagesTo
  <2>. HIDE DEF st, tt, S
  <2>4. j + 1 \in 1..Len(Nodes[n].kids)
    BY <2>1 DEF m
  <2>5. StageAs(v, L, n, j + 1, st[j]) = StageAs(w, L, n, j + 1, st[j])
    BY <2>4, StageAsSame
  <2>. QED BY <2>2, <2>3, <2>5
<1>. HIDE DEF S
<1>4. \A j \in Nat : j \in S
  BY <1>2, <1>3, NatSetInduction
<1>5. i \in Nat /\ i <= m
  BY <1>1
<1>. QED BY <1>4, <1>5 DEF S

LEMMA ValueTyped ==
  ASSUME NEW L \in Seq(Entries), NEW v, NEW n \in DOMAIN Nodes, Behind(v, L, n),
         NEW k \in 0..(Len(L) + 1)
  PROVE  Value(v, L, n, k) \in Results(L)
<1>. DEFINE kids == Nodes[n].kids
            op == Nodes[n].op
            left == v[kids[1]][k]
            right == v[kids[2]][left.next]
            last == Stages(v, L, n, k)[Len(kids)]
<1>1. /\ Len(L) \in Nat /\ op \in Ops /\ Len(kids) \in Nat
      /\ op # "cmd" => 1 \in 1..Len(kids)
      /\ op \in {"seq", "and", "or"} /\ Len(kids) # 1 => 2 \in 1..Len(kids)
      /\ op \in {"and", "or"} => Len(kids) # 1
  BY KidsAre
<1>2. Missing \in Results(L)
  BY <1>1 DEF Results, Missing
<1>3. ASSUME NEW j \in 1..Len(kids), NEW l \in 0..(Len(L) + 1)
      PROVE  v[kids[j]][l] \in Results(L)
  <2>1. kids[j] \in DOMAIN Nodes /\ kids[j] > n
    BY NodesAssumption
  <2>. QED BY <2>1 DEF Behind
<1>4. op # "cmd" => left \in Results(L)
  <2>. HIDE DEF kids
  <2>. QED BY <1>1, <1>3
<1>5. op \in {"seq", "and", "or"} /\ Len(kids) # 1 => right \in Results(L)
  <2>1. op \in {"seq", "and", "or"} /\ Len(kids) # 1 => 2 \in 1..Len(kids) /\ op # "cmd"
    BY <1>1
  <2>2. left \in Results(L) => left.next \in 0..(Len(L) + 1)
    BY DEF Results
  <2>. HIDE DEF kids, left
  <2>. QED BY <1>3, <1>4, <2>1, <2>2
<1>6. op \in {"and", "or"} => Len(kids) # 1
  BY <1>1
<1>7. last \in Results(L)
  <2>1. Len(kids) \in 0..Len(Nodes[n].kids)
    BY <1>1
  <2>. QED BY <2>1, StagesTyped
<1>8. [last EXCEPT !.over = FALSE] \in Results(L)
  <2>. HIDE DEF last
  <2>. QED BY <1>7 DEF Results
<1>9. k \in 1..Len(L) => OwnValue(L, k) \in Results(L)
  <2>. SUFFICES ASSUME k \in 1..Len(L) PROVE OwnValue(L, k) \in Results(L)
    OBVIOUS
  <2>1. L[k] \in Entries
    OBVIOUS
  <2>2. L[k].code \in 0..255 /\ L[k].ends \in BOOLEAN /\ L[k].sig \in BOOLEAN
    BY <2>1 DEF Entries
  <2>3. k + 1 \in 0..(Len(L) + 1)
    BY <1>1
  <2>. QED BY <2>2, <2>3 DEF OwnValue, Results
<1>10. op = "sub" => [Missing EXCEPT !.next = left.next,
                        !.status = IF left.sig THEN 1 ELSE left.status] \in Results(L)
  <2>. HIDE DEF left, op
  <2>1. op = "sub" => left \in Results(L)
    BY <1>4
  <2>2. [Missing EXCEPT !.next = left.next, !.status = IF left.sig THEN 1 ELSE left.status] =
          [next |-> left.next, status |-> IF left.sig THEN 1 ELSE left.status,
           over |-> FALSE, sig |-> FALSE]
    BY MissingStatus, ZenonT(40)
  <2>3. op = "sub" => [next |-> left.next, status |-> IF left.sig THEN 1 ELSE left.status,
                       over |-> FALSE, sig |-> FALSE] \in Results(L)
    BY <2>1 DEF Results
  <2>. QED BY <2>2, <2>3
<1>11. \/ k \notin 1..Len(L) /\ Value(v, L, n, k) = Missing
       \/ k \in 1..Len(L) /\ Value(v, L, n, k) = OwnValue(L, k)
       \/ op = "cmd" /\ Value(v, L, n, k) = Missing
       \/ op = "sub" /\ Value(v, L, n, k) = [Missing EXCEPT !.next = left.next,
                        !.status = IF left.sig THEN 1 ELSE left.status]
       \/ op = "pipe" /\ Value(v, L, n, k) = [last EXCEPT !.over = FALSE]
       \/ op \in {"seq", "and", "or"} /\ Value(v, L, n, k) = left
       \/ op \in {"seq", "and", "or"} /\ Len(kids) # 1 /\ Value(v, L, n, k) = right
  <2>1. CASE op = "cmd"
    BY <2>1 DEF Value
  <2>2. CASE op = "sub"
    BY <2>2 DEF Value
  <2>3. CASE op = "pipe"
    BY <2>3 DEF Value
  <2>4. CASE op = "seq"
    BY <2>4 DEF Value
  <2>5. CASE op = "and"
    BY <1>6, <2>5 DEF Value
  <2>6. CASE op = "or"
    BY <1>6, <2>6 DEF Value
  <2>. QED BY <1>1, <2>1, <2>2, <2>3, <2>4, <2>5, <2>6 DEF Ops
<1>. HIDE DEF op, left, right, last, kids
<1>. QED BY <1>2, <1>4, <1>5, <1>8, <1>9, <1>10, <1>11

LEMMA ValueSame ==
  ASSUME NEW L \in Seq(Entries), NEW v, NEW w, NEW n \in DOMAIN Nodes,
         AlikeBehind(v, w, n),
         NEW k
  PROVE  Value(v, L, n, k) = Value(w, L, n, k)
<1>. DEFINE kids == Nodes[n].kids
            op == Nodes[n].op
<1>1. /\ op \in Ops /\ Len(kids) \in Nat
      /\ op # "cmd" => 1 \in 1..Len(kids)
      /\ op \in {"seq", "and", "or"} /\ Len(kids) # 1 => 2 \in 1..Len(kids)
      /\ op \in {"and", "or"} => Len(kids) # 1
  BY KidsAre
<1>2. \A j \in 1..Len(kids) : v[kids[j]] = w[kids[j]]
  <2>. SUFFICES ASSUME NEW j \in 1..Len(kids) PROVE v[kids[j]] = w[kids[j]]
    OBVIOUS
  <2>1. kids[j] \in DOMAIN Nodes /\ kids[j] > n
    BY NodesAssumption
  <2>. QED BY <2>1 DEF AlikeBehind
<1>3. op # "cmd" => v[kids[1]] = w[kids[1]]
  <2>. HIDE DEF kids
  <2>. QED BY <1>1, <1>2
<1>4. op \in {"seq", "and", "or"} /\ Len(kids) # 1 => v[kids[2]] = w[kids[2]]
  <2>. HIDE DEF kids
  <2>. QED BY <1>1, <1>2
<1>5. op \in {"and", "or"} => Len(kids) # 1
  BY <1>1
<1>6. Stages(v, L, n, k)[Len(kids)] = Stages(w, L, n, k)[Len(kids)]
  <2>1. Len(kids) \in 0..Len(Nodes[n].kids)
    BY <1>1
  <2>2. ASSUME NEW i \in 0..Len(Nodes[n].kids)
        PROVE  Stages(v, L, n, k)[i] = Stages(w, L, n, k)[i]
    BY StagesSame
  <2>. QED BY <2>1, <2>2
<1>7. CASE op = "cmd"
  BY <1>7 DEF Value
<1>8. CASE op = "sub"
  BY <1>3, <1>8 DEF Value
<1>9. CASE op = "pipe"
  <2>1. \A u : Value(u, L, n, k) = IF k \notin 1..Len(L) THEN Missing
                                  ELSE [Stages(u, L, n, k)[Len(kids)] EXCEPT !.over = FALSE]
    BY <1>9 DEF Value
  <2>. QED BY <1>6, <2>1
<1>10. CASE op = "seq"
  BY <1>3, <1>4, <1>10 DEF Value
<1>11. CASE op = "and"
  BY <1>3, <1>4, <1>5, <1>11 DEF Value
<1>12. CASE op = "or"
  BY <1>3, <1>4, <1>5, <1>12 DEF Value
<1>. QED BY <1>1, <1>7, <1>8, <1>9, <1>10, <1>11, <1>12 DEF Ops

\* The values of all nodes, of which Meaning is one.
Solved(v, L) ==
  /\ v \in Values(L)
  /\ \A n \in DOMAIN Nodes : \A k \in 0..(Len(L) + 1) : v[n][k] = Value(v, L, n, k)

\* The equations that values solve, one at a time.
LEMMA ValuesBodyAt ==
  ASSUME NEW L, NEW v
  PROVE  /\ ValuesBody(v, L) = [n \in DOMAIN Nodes |-> ValuesBody(v, L)[n]]
         /\ \A n \in DOMAIN Nodes :
              ValuesBody(v, L)[n] = [k \in 0..(Len(L) + 1) |-> Value(v, L, n, k)]
<1>. DEFINE V(a, b) == Value(v, L, a, b)
            w == ValuesBody(v, L)
<1>1. w = [a \in DOMAIN Nodes |-> [b \in 0..(Len(L) + 1) |-> V(a, b)]]
  BY DEF ValuesBody
<1>. HIDE DEF V, w
<1>2. /\ w = [n \in DOMAIN Nodes |-> w[n]]
      /\ \A n \in DOMAIN Nodes : w[n] = [k \in 0..(Len(L) + 1) |-> V(n, k)]
  BY <1>1
<1>. QED BY <1>2 DEF V, w

\* There are values that solve them: from the last node to the first.
LEMMA ValuesExist ==
  ASSUME NEW L \in Seq(Entries)
  PROVE  \E v : v = ValuesBody(v, L)
<1>. DEFINE K == 0..(Len(L) + 1)
            size == Len(Nodes)
            Good(v, m) == /\ v \in Values(L)
                          /\ \A n \in DOMAIN Nodes : n > size - m =>
                               v[n] = [k \in K |-> Value(v, L, n, k)]
            S == {m \in Nat : \E v : Good(v, m)}
<1>1. size \in Nat /\ DOMAIN Nodes = 1..size
  BY NodesAssumption
<1>2. 0 \in S
  <2>. DEFINE v == [n \in DOMAIN Nodes |-> [k \in K |-> Missing]]
  <2>1. Missing \in Results(L)
    BY DEF Missing, Results
  <2>2. v \in Values(L)
    BY <2>1 DEF Values
  <2>. HIDE DEF v
  <2>3. \A n \in DOMAIN Nodes : ~(n > size - 0)
    BY <1>1
  <2>4. Good(v, 0)
    BY <2>2, <2>3
  <2>. QED BY <2>4
<1>3. ASSUME NEW m \in Nat, m \in S PROVE m + 1 \in S
  <2>1. PICK v : Good(v, m)
    BY <1>3
  <2>. DEFINE w == [n \in DOMAIN Nodes |->
                      IF n = size - m THEN [k \in K |-> Value(v, L, n, k)] ELSE v[n]]
  <2>2. ASSUME NEW n \in DOMAIN Nodes
        PROVE  [k \in K |-> Value(v, L, n, k)] \in [K -> Results(L)]
    <3>1. Behind(v, L, n)
      BY <2>1 DEF Behind, Values
    <3>2. \A k \in K : Value(v, L, n, k) \in Results(L)
      BY <3>1, ValueTyped
    <3>. QED BY <3>2
  <2>3. w \in Values(L)
    <3>1. \A n \in DOMAIN Nodes : v[n] \in [K -> Results(L)]
      BY <2>1 DEF Values
    <3>2. \A n \in DOMAIN Nodes : w[n] \in [K -> Results(L)]
      <4>. TAKE n \in DOMAIN Nodes
      <4>1. w[n] = IF n = size - m THEN [k \in K |-> Value(v, L, n, k)] ELSE v[n]
        OBVIOUS
      <4>. HIDE DEF w
      <4>. QED BY <2>2, <3>1, <4>1
    <3>3. w = [n \in DOMAIN Nodes |-> w[n]]
      OBVIOUS
    <3>. HIDE DEF w
    <3>. QED BY <3>2, <3>3 DEF Values
  <2>4. \A n \in DOMAIN Nodes :
          w[n] = IF n = size - m THEN [k \in K |-> Value(v, L, n, k)] ELSE v[n]
    OBVIOUS
  <2>. HIDE DEF w
  <2>5. ASSUME NEW n \in DOMAIN Nodes, n > size - (m + 1)
        PROVE  w[n] = [k \in K |-> Value(w, L, n, k)]
    <3>1. n \in Nat /\ (n = size - m \/ n > size - m)
      BY <1>1, <2>5
    <3>2. AlikeBehind(v, w, n)
      <4>. SUFFICES ASSUME NEW j \in DOMAIN Nodes, j > n PROVE v[j] = w[j]
        BY DEF AlikeBehind
      <4>1. j # size - m
        BY <1>1, <3>1
      <4>. QED BY <2>4, <4>1
    <3>3. ASSUME NEW k \in K PROVE Value(v, L, n, k) = Value(w, L, n, k)
      BY <3>2, ValueSame
    <3>4. [k \in K |-> Value(v, L, n, k)] = [k \in K |-> Value(w, L, n, k)]
      BY <3>3
    <3>5. n > size - m => v[n] = [k \in K |-> Value(v, L, n, k)]
      BY <2>1
    <3>. QED BY <2>4, <3>1, <3>4, <3>5
  <2>6. Good(w, m + 1)
    BY <2>3, <2>5
  <2>7. m + 1 \in Nat
    OBVIOUS
  <2>. HIDE DEF Good
  <2>. QED BY <2>6, <2>7
<1>. HIDE DEF S
<1>4. \A m \in Nat : m \in S
  BY <1>2, <1>3, NatSetInduction
<1>5. PICK v : Good(v, size)
  BY <1>1, <1>4 DEF S
<1>6. \A n \in DOMAIN Nodes : n > size - size
  BY <1>1
<1>7. \A n \in DOMAIN Nodes : v[n] = [k \in K |-> Value(v, L, n, k)]
  BY <1>5, <1>6
<1>8. v = [n \in DOMAIN Nodes |-> v[n]]
  BY <1>5 DEF Values
<1>. DEFINE b == ValuesBody(v, L)
<1>9. /\ b = [n \in DOMAIN Nodes |-> b[n]]
      /\ \A n \in DOMAIN Nodes : b[n] = [k \in K |-> Value(v, L, n, k)]
  BY ValuesBodyAt
<1>. HIDE DEF b
<1>10. v = b
  BY <1>7, <1>8, <1>9
<1>. QED BY <1>10 DEF b

\* Whatever satisfies the definition solves the equations.
LEMMA BodySolved ==
  ASSUME NEW L \in Seq(Entries), NEW v, v = ValuesBody(v, L)
  PROVE  Solved(v, L)
<1>. DEFINE K == 0..(Len(L) + 1)
            size == Len(Nodes)
            S == {m \in Nat : \A n \in DOMAIN Nodes : n > size - m => v[n] \in [K -> Results(L)]}
<1>1. size \in Nat /\ DOMAIN Nodes = 1..size
  BY NodesAssumption
<1>2. \A n \in DOMAIN Nodes : v[n] = [k \in K |-> Value(v, L, n, k)]
  BY ValuesBodyAt
<1>3. v = [n \in DOMAIN Nodes |-> v[n]]
  BY ValuesBodyAt
<1>4. 0 \in S
  <2>1. \A n \in DOMAIN Nodes : ~(n > size - 0)
    BY <1>1
  <2>. QED BY <2>1
<1>5. ASSUME NEW m \in Nat, m \in S PROVE m + 1 \in S
  <2>. SUFFICES ASSUME NEW n \in DOMAIN Nodes, n > size - (m + 1)
                PROVE  v[n] \in [K -> Results(L)]
    OBVIOUS
  <2>1. \A j \in DOMAIN Nodes : j > n => j > size - m
    BY <1>1
  <2>2. Behind(v, L, n)
    BY <1>5, <2>1 DEF Behind
  <2>3. \A k \in K : Value(v, L, n, k) \in Results(L)
    BY <2>2, ValueTyped
  <2>. QED BY <1>2, <2>3
<1>. HIDE DEF S
<1>6. \A m \in Nat : m \in S
  BY <1>4, <1>5, NatSetInduction
<1>7. \A n \in DOMAIN Nodes : n > size - size
  BY <1>1
<1>8. size \in S
  BY <1>1, <1>6
<1>9. \A n \in DOMAIN Nodes : v[n] \in [K -> Results(L)]
  BY <1>7, <1>8 DEF S
<1>10. v \in Values(L)
  BY <1>3, <1>9 DEF Values
<1>11. \A n \in DOMAIN Nodes : \A k \in K : v[n][k] = Value(v, L, n, k)
  BY <1>2
<1>. QED BY <1>10, <1>11 DEF Solved

-----------------------------------------------------------------------------
(* What the calls that have not returned make of the value that is to come. *)

\* A status, and how many outcomes were taken.
Done(k, c) == [next |-> k, status |-> c, over |-> FALSE, sig |-> FALSE]

\* A list's value, from that of the side it is in.
AfterSide(v, f, y) ==
  LET n == Nodes[f.node]
  IN IF f.at = "right" \/ y.over THEN y
     ELSE IF n.op = "seq" THEN IF Len(n.kids) = 1 THEN y ELSE v[n.kids[2]][y.next]
     ELSE IF (n.op = "and") # (y.status = 0) THEN y ELSE v[n.kids[2]][y.next]

\* A pipeline's value, when x is that of its stage i.
PipeFrom(v, L, n, i, x, y) ==
  \E st : /\ st[i] = x
          /\ \A j \in (i + 1)..Len(Nodes[n].kids) : st[j] = StageAs(v, L, n, j, st[j - 1])
          /\ y = [st[Len(Nodes[n].kids)] EXCEPT !.over = FALSE]

\* The value of a call that waits for a child, from the value of what that one calls.
Waits(v, L, f, r, y) ==
  \/ Nodes[f.node].op = "sub" /\ y = Done(r.next, IF r.sig THEN 1 ELSE r.status)
  \/ /\ Nodes[f.node].op = "pipe"
     /\ PipeFrom(v, L, f.node, f.i, Done(r.next, IF r.sig THEN 137 ELSE r.status), y)

\* The value of the innermost call, that has taken no outcome yet or is a pipeline
\* between two stages, before outcome k.
Now(v, L, f, k, y) ==
  IF Nodes[f.node].op = "pipe"
  THEN \E c \in {None} \cup 0..255 : PipeFrom(v, L, f.node, f.i - 1, Done(k, c), y)
  ELSE y = v[f.node][k]

\* The values of the calls of a process, and behind them what the last one returned.
Chain(s, z, v) ==
  \A j \in 1..Len(s) : s[j].at \in {"left", "right"} => z[j] = AfterSide(v, s[j], z[j + 1])
Inner(p, z, v, L, k) ==
  IF p.ret # None THEN z[Len(p.stack) + 1] = Done(k, p.ret)
  ELSE p.stack # <<>> => Now(v, L, Top(p.stack), k, z[Len(p.stack)])

Rows(L) == [Nat -> Results(L)]
Tableaus(L) == [Nat -> Rows(L)]
Linked(ps, k, ln, L, v, y) ==
  /\ y[1][1] = v[ln][1]
  /\ \A i \in 1..Len(ps) : Chain(ps[i].stack, y[i], v)
  /\ \A i \in 1..Len(ps) - 1 :
       Waits(v, L, Top(ps[i].stack), y[i + 1][1], y[i][Len(ps[i].stack)])
  /\ Inner(ps[Len(ps)], y[Len(ps)], v, L, k)

\* The outcomes there may be in the end, when lg are those so far: the next one is of
\* no call that has called another.
Extends(lg, L) ==
  L \in Seq(Entries) /\ Len(lg) <= Len(L) /\ \A i \in 1..Len(lg) : L[i] = lg[i]
Pending(p) == p.ret = None /\ p.stack # <<>>
Foreign(ps, e) ==
  \A i \in 1..Len(ps) : \A j \in 1..Len(ps[i].stack) :
    i # Len(ps) \/ j # Len(ps[i].stack) => e.node # ps[i].stack[j].node
Continues(ps, lg, L) ==
  /\ Extends(lg, L)
  /\ Pending(ps[Len(ps)]) => Len(lg) < Len(L) /\ Foreign(ps, L[Len(lg) + 1])

Idling(ps) == ps = <<>> \/ (Len(ps) = 1 /\ ps[1].stack = <<>> /\ ps[1].ret = None)
\* Whatever is still to come, the value of the line is what the calls make of it.
Means(ps, lg, ln) ==
  ~Idling(ps) =>
    /\ ln \in DOMAIN Nodes
    /\ \A L, v : Continues(ps, lg, L) /\ Solved(v, L) =>
         \E y \in Tableaus(L) : Linked(ps, Len(lg) + 1, ln, L, v, y)

\* A call is of a node behind that of its caller.
Deeper(ps) ==
  \A k, l \in 1..Len(ps) :
    \A i \in 1..Len(ps[k].stack), j \in 1..Len(ps[l].stack) :
      k < l \/ (k = l /\ i < j) => ps[k].stack[i].node < ps[l].stack[j].node

-----------------------------------------------------------------------------
(* One process more, less, or changed. *)

\* All processes but the last are as they were.
Front(ps, new, n) == \A i \in 1..n - 1 : new[i] = ps[i]

\* The last process has gone on, or has ended and given its parent a value.
LEMMA SetLinked ==
  ASSUME NEW L, NEW v, NEW y \in Tableaus(L), NEW k, NEW k2, NEW ln,
         NEW ps \in Seq(GoodProcesses), NEW n \in 1..Len(ps), Linked(ps, k, ln, L, v, y),
         NEW new, Len(new) = n, Front(ps, new, n),
         NEW z \in Rows(L), z[1] = y[n][1], Chain(new[n].stack, z, v),
         Inner(new[n], z, v, L, k2)
  PROVE  \E x \in Tableaus(L) : Linked(new, k2, ln, L, v, x)
<1>. DEFINE x == [y EXCEPT ![n] = z]
<1>1. n \in Nat /\ Len(ps) \in Nat /\ n # 0
  OBVIOUS
<1>2. x \in Tableaus(L) /\ x[n] = z /\ \A i \in Nat : i # n => x[i] = y[i]
  BY <1>1 DEF Tableaus
<1>. HIDE DEF x
<1>3. \A i \in Nat : x[i][1] = y[i][1]
  BY <1>2
<1>4. x[1][1] = v[ln][1]
  BY <1>3 DEF Linked
<1>5. ASSUME NEW i \in 1..Len(new) PROVE Chain(new[i].stack, x[i], v)
  <2>1. CASE i = n
    BY <1>2, <2>1
  <2>2. CASE i # n
    <3>1. i \in 1..n - 1 /\ i \in 1..Len(ps) /\ i \in Nat
      BY <1>1, <2>2
    <3>2. Chain(ps[i].stack, y[i], v)
      BY <3>1 DEF Linked
    <3>. QED BY <1>2, <2>2, <3>1, <3>2 DEF Front
  <2>. QED BY <2>1, <2>2
<1>6. ASSUME NEW i \in 1..Len(new) - 1
      PROVE  Waits(v, L, Top(new[i].stack), x[i + 1][1], x[i][Len(new[i].stack)])
  <2>1. i \in 1..n - 1 /\ i \in 1..Len(ps) - 1 /\ i \in Nat /\ i + 1 \in Nat /\ i # n
    BY <1>1
  <2>2. Waits(v, L, Top(ps[i].stack), y[i + 1][1], y[i][Len(ps[i].stack)])
    BY <2>1 DEF Linked
  <2>3. new[i] = ps[i] /\ x[i] = y[i] /\ x[i + 1][1] = y[i + 1][1]
    BY <1>2, <1>3, <2>1 DEF Front
  <2>. QED BY <2>2, <2>3
<1>7. Inner(new[Len(new)], x[Len(new)], v, L, k2)
  BY <1>2
<1>. QED BY <1>2, <1>4, <1>5, <1>6, <1>7 DEF Linked

\* The last process has forked another.
LEMMA ForkLinked ==
  ASSUME NEW L, NEW v, NEW y \in Tableaus(L), NEW k, NEW k2, NEW ln,
         NEW ps \in Seq(GoodProcesses), ps # <<>>, Linked(ps, k, ln, L, v, y),
         NEW n, n = Len(ps),
         NEW new, Len(new) = n + 1, Front(ps, new, n),
         Chain(new[n].stack, y[n], v),
         NEW z \in Rows(L), Chain(new[n + 1].stack, z, v),
         Waits(v, L, Top(new[n].stack), z[1], y[n][Len(new[n].stack)]),
         Inner(new[n + 1], z, v, L, k2)
  PROVE  \E x \in Tableaus(L) : Linked(new, k2, ln, L, v, x)
<1>. DEFINE x == [y EXCEPT ![n + 1] = z]
<1>1. n \in Nat /\ n # 0
  BY EmptySeq
<1>2. x \in Tableaus(L) /\ x[n + 1] = z /\ \A i \in Nat : i # n + 1 => x[i] = y[i]
  BY <1>1 DEF Tableaus
<1>. HIDE DEF x
<1>3. \A i \in 1..n : x[i] = y[i]
  BY <1>1, <1>2
<1>4. x[1][1] = v[ln][1]
  BY <1>1, <1>3 DEF Linked
<1>5. ASSUME NEW i \in 1..Len(new) PROVE Chain(new[i].stack, x[i], v)
  <2>1. CASE i = n + 1
    BY <1>2, <2>1
  <2>2. CASE i = n
    BY <1>1, <1>3, <2>2
  <2>3. CASE i # n /\ i # n + 1
    <3>1. i \in 1..n - 1 /\ i \in 1..Len(ps) /\ i \in 1..n
      BY <1>1, <2>3
    <3>2. Chain(ps[i].stack, y[i], v)
      BY <3>1 DEF Linked
    <3>. QED BY <1>3, <3>1, <3>2 DEF Front
  <2>. QED BY <2>1, <2>2, <2>3
<1>6. ASSUME NEW i \in 1..Len(new) - 1
      PROVE  Waits(v, L, Top(new[i].stack), x[i + 1][1], x[i][Len(new[i].stack)])
  <2>1. CASE i = n
    <3>1. x[i] = y[n] /\ x[i + 1] = z
      BY <1>1, <1>2, <1>3, <2>1
    <3>. QED BY <2>1, <3>1
  <2>2. CASE i # n
    <3>1. i \in 1..n - 1 /\ i \in 1..Len(ps) - 1 /\ i \in 1..n /\ i + 1 \in 1..n
      BY <1>1, <2>2
    <3>2. Waits(v, L, Top(ps[i].stack), y[i + 1][1], y[i][Len(ps[i].stack)])
      BY <3>1 DEF Linked
    <3>3. new[i] = ps[i] /\ x[i] = y[i] /\ x[i + 1] = y[i + 1]
      BY <1>3, <3>1 DEF Front
    <3>. QED BY <3>2, <3>3
  <2>. QED BY <2>1, <2>2
<1>7. Inner(new[Len(new)], x[Len(new)], v, L, k2)
  BY <1>2
<1>. QED BY <1>2, <1>4, <1>5, <1>6, <1>7 DEF Linked

-----------------------------------------------------------------------------
(* What may come next. *)

\* After an outcome of the innermost call, and after a return.
LEMMA ExtendsAppend ==
  ASSUME NEW lg \in Seq(Entries), NEW e \in Entries, NEW L, Extends(Append(lg, e), L)
  PROVE  Extends(lg, L) /\ Len(lg) + 1 \in 1..Len(L) /\ L[Len(lg) + 1] = e
<1>1. /\ L \in Seq(Entries) /\ Len(Append(lg, e)) = Len(lg) + 1 /\ Len(lg) \in Nat
      /\ Append(lg, e)[Len(lg) + 1] = e /\ \A i \in 1..Len(lg) : Append(lg, e)[i] = lg[i]
  BY DEF Extends
<1>2. Len(lg) + 1 <= Len(L) /\ \A i \in 1..Len(lg) + 1 : L[i] = Append(lg, e)[i]
  BY <1>1 DEF Extends
<1>3. Len(L) \in Nat /\ \A i \in 1..Len(lg) : i \in 1..Len(lg) + 1
  BY <1>1
<1>4. Len(lg) + 1 \in 1..Len(lg) + 1 /\ Len(lg) + 1 \in 1..Len(L) /\ Len(lg) <= Len(L)
  BY <1>1, <1>2, <1>3
<1>. QED BY <1>1, <1>2, <1>3, <1>4 DEF Extends

\* A node that is run by the innermost call is no other call's.
LEMMA DeeperForeign ==
  ASSUME NEW ps \in Seq(GoodProcesses), ps # <<>>, Deeper(ps), ps[Len(ps)].stack # <<>>,
         NEW e, e.node = Top(ps[Len(ps)].stack).node
  PROVE  Foreign(ps, e)
<1>. DEFINE n == Len(ps)
            m == Len(ps[n].stack)
<1>1. n \in 1..n /\ n \in Nat /\ \A i \in 1..n : ps[i] \in GoodProcesses
  BY EmptySeq
<1>2. \A i \in 1..n : ps[i].stack \in Seq(GoodFrames)
  BY <1>1, ProcessesDef
<1>3. m \in 1..m /\ m \in Nat
  BY <1>1, <1>2, EmptySeq
<1>4. \A i \in 1..n : \A j \in 1..Len(ps[i].stack) : ps[i].stack[j].node \in Nat
  <2>. SUFFICES ASSUME NEW i \in 1..n, NEW j \in 1..Len(ps[i].stack)
                PROVE  ps[i].stack[j].node \in Nat
    OBVIOUS
  <2>1. ps[i].stack[j] \in GoodFrames
    BY <1>2
  <2>2. ps[i].stack[j].node \in DOMAIN Nodes
    BY <2>1, FramesDef
  <2>. QED BY <2>2, NodesAssumption
<1>. SUFFICES ASSUME NEW i \in 1..n, NEW j \in 1..Len(ps[i].stack), i # n \/ j # Len(ps[i].stack)
              PROVE  e.node # ps[i].stack[j].node
  BY DEF Foreign
<1>5. i < n \/ (i = n /\ j < m)
  BY <1>1, <1>3
<1>6. ps[i].stack[j].node < ps[n].stack[m].node
  BY <1>1, <1>3, <1>5 DEF Deeper
<1>7. e.node = ps[n].stack[m].node
  BY DEF Top
<1>8. ps[i].stack[j].node \in Nat /\ ps[n].stack[m].node \in Nat
  BY <1>1, <1>3, <1>4
<1>. HIDE DEF n, m
<1>. QED BY <1>6, <1>7, <1>8

\* What continues an outcome of the innermost call continues what was there before.
LEMMA RecordContinues ==
  ASSUME NEW ps \in Seq(GoodProcesses), ps # <<>>, Deeper(ps), ps[Len(ps)].stack # <<>>,
         NEW lg \in Seq(Entries), NEW e \in Entries, e.node = Top(ps[Len(ps)].stack).node,
         NEW L, Extends(Append(lg, e), L)
  PROVE  Continues(ps, lg, L)
<1>1. Extends(lg, L) /\ Len(lg) + 1 \in 1..Len(L) /\ L[Len(lg) + 1] = e
  BY ExtendsAppend
<1>2. Foreign(ps, e)
  BY DeeperForeign
<1>3. Len(lg) < Len(L)
  BY <1>1
<1>. QED BY <1>1, <1>2, <1>3 DEF Continues

\* So does what continues a call.
LEMMA CallContinues ==
  ASSUME NEW ps \in Seq(GoodProcesses), ps # <<>>, NEW n, n = Len(ps),
         NEW lg, NEW L,
         NEW new, Len(new) \in Nat, Len(new) >= n, Front(ps, new, n),
         Len(new[n].stack) \in Nat, Len(new[n].stack) >= Len(ps[n].stack),
         \A j \in 1..Len(ps[n].stack) - 1 : new[n].stack[j].node = ps[n].stack[j].node,
         Pending(new[Len(new)]), Continues(new, lg, L)
  PROVE  Continues(ps, lg, L)
<1>. DEFINE e == L[Len(lg) + 1]
<1>1. n \in Nat /\ n \in 1..n /\ ps[n] \in GoodProcesses
  BY EmptySeq
<1>2. Extends(lg, L) /\ Len(lg) < Len(L) /\ Foreign(new, e)
  BY DEF Continues
<1>. HIDE DEF e
<1>3. Len(ps[n].stack) \in Nat
  BY <1>1, ProcessesDef
<1>4. ASSUME NEW i \in 1..n, NEW j \in 1..Len(ps[i].stack), i # n \/ j # Len(ps[i].stack)
      PROVE  e.node # ps[i].stack[j].node
  <2>1. i \in 1..Len(new)
    BY <1>1
  <2>2. CASE i # n
    <3>1. i \in 1..n - 1 /\ i # Len(new)
      BY <1>1, <2>2
    <3>2. new[i] = ps[i]
      BY <3>1 DEF Front
    <3>. QED BY <1>2, <2>1, <3>1, <3>2 DEF Foreign
  <2>3. CASE i = n
    <3>1. j \in 1..Len(ps[n].stack) - 1 /\ j \in 1..Len(new[n].stack) /\ j # Len(new[n].stack)
      BY <1>3, <1>4, <2>3
    <3>2. e.node # new[n].stack[j].node
      BY <1>2, <2>1, <2>3, <3>1 DEF Foreign
    <3>. QED BY <2>3, <3>1, <3>2
  <2>. QED BY <2>2, <2>3
<1>5. Foreign(ps, e)
  BY <1>4 DEF Foreign
<1>. QED BY <1>2, <1>5 DEF Continues, e

-----------------------------------------------------------------------------
(* Where a node's value comes from. *)

\* From its own outcome; for a list or a subshell from its first kid.
LEMMA OwnIs ==
  ASSUME NEW L, NEW v, Solved(v, L), NEW n \in DOMAIN Nodes, NEW k \in 1..Len(L),
         Len(L) \in Nat, Nodes[n].op # "pipe", L[k].node = n
  PROVE  v[n][k] = [next |-> k + 1, status |-> L[k].code, over |-> L[k].ends,
                    sig |-> L[k].sig]
<1>1. k \in 0..(Len(L) + 1)
  OBVIOUS
<1>2. v[n][k] = Value(v, L, n, k)
  BY <1>1 DEF Solved
<1>3. Value(v, L, n, k) = OwnValue(L, k)
  BY DEF Value
<1>. QED BY <1>2, <1>3 DEF OwnValue

LEMMA ListIs ==
  ASSUME NEW L, NEW v, Solved(v, L), NEW n \in DOMAIN Nodes, NEW k \in 1..Len(L),
         Len(L) \in Nat, Nodes[n].op \in {"seq", "and", "or"}, L[k].node # n,
         NEW f, f.node = n, f.at = "left"
  PROVE  v[n][k] = AfterSide(v, f, v[Nodes[n].kids[1]][k])
<1>1. k \in 0..(Len(L) + 1)
  OBVIOUS
<1>2. v[n][k] = Value(v, L, n, k)
  BY <1>1 DEF Solved
<1>3. CASE Nodes[n].op = "seq"
  BY <1>2, <1>3 DEF Value, AfterSide
<1>4. CASE Nodes[n].op = "and"
  BY <1>2, <1>4 DEF Value, AfterSide
<1>5. CASE Nodes[n].op = "or"
  BY <1>2, <1>5 DEF Value, AfterSide
<1>. QED BY <1>3, <1>4, <1>5

LEMMA SubIs ==
  ASSUME NEW L, NEW v, Solved(v, L), NEW n \in DOMAIN Nodes, NEW k \in 1..Len(L),
         Len(L) \in Nat, Nodes[n].op = "sub", L[k].node # n,
         NEW f, f.node = n
  PROVE  Waits(v, L, f, v[Nodes[n].kids[1]][k], v[n][k])
<1>. DEFINE left == v[Nodes[n].kids[1]][k]
<1>1. k \in 0..(Len(L) + 1)
  OBVIOUS
<1>2. v[n][k] = Value(v, L, n, k)
  BY <1>1 DEF Solved
<1>3. Value(v, L, n, k) = [Missing EXCEPT !.next = left.next,
                             !.status = IF left.sig THEN 1 ELSE left.status]
  BY DEF Value
<1>4. [Missing EXCEPT !.next = left.next, !.status = IF left.sig THEN 1 ELSE left.status] =
        [next |-> left.next, status |-> IF left.sig THEN 1 ELSE left.status,
         over |-> FALSE, sig |-> FALSE]
  BY MissingStatus, ZenonT(40)
<1>5. v[n][k] = Done(left.next, IF left.sig THEN 1 ELSE left.status)
  BY <1>2, <1>3, <1>4, Zenon DEF Done
<1>. HIDE DEF left
<1>. QED BY <1>5 DEF Waits, left

\* The first call of a node.
LEMMA NowFirst ==
  ASSUME NEW L, NEW v, Solved(v, L), NEW n \in DOMAIN Nodes, NEW k \in 1..Len(L),
         Len(L) \in Nat
  PROVE  Now(v, L, Frame(n), k, v[n][k])
<1>1. Frame(n).node = n /\ Frame(n).i = 1 /\ Frame(n).i - 1 = 0
  BY DEF Frame
<1>2. CASE Nodes[n].op # "pipe"
  BY <1>1, <1>2 DEF Now
<1>3. CASE Nodes[n].op = "pipe"
  <2>. DEFINE st == Stages(v, L, n, k)
              size == Len(Nodes[n].kids)
  <2>1. k \in 0..(Len(L) + 1)
    OBVIOUS
  <2>2. v[n][k] = Value(v, L, n, k)
    BY <2>1 DEF Solved
  <2>3. Value(v, L, n, k) = [st[size] EXCEPT !.over = FALSE]
    BY <1>3 DEF Value
  <2>4. StagesTo(v, L, n, k, st, size)
    BY StagesAre
  <2>. HIDE DEF st
  <2>5. st[0] = Done(k, None)
    BY <2>4, MissingNext DEF StagesTo, Done
  <2>6. \A j \in (0 + 1)..size : st[j] = StageAs(v, L, n, j, st[j - 1])
    BY <2>4 DEF StagesTo
  <2>7. PipeFrom(v, L, n, 0, Done(k, None), v[n][k])
    BY <2>2, <2>3, <2>5, <2>6 DEF PipeFrom
  <2>8. None \in {None} \cup 0..255
    OBVIOUS
  <2>. QED BY <1>1, <1>3, <2>7, <2>8 DEF Now
<1>. QED BY <1>2, <1>3

-----------------------------------------------------------------------------
(* Deeper calls. *)

\* The nodes of the calls are numbers.
LEMMA NodesNat ==
  ASSUME NEW ps \in Seq(GoodProcesses), NEW k \in 1..Len(ps), NEW i \in 1..Len(ps[k].stack)
  PROVE  ps[k].stack[i].node \in Nat
<1>1. ps[k].stack \in Seq(GoodFrames)
  BY ProcessesDef
<1>2. ps[k].stack[i] \in GoodFrames
  BY <1>1
<1>3. ps[k].stack[i].node \in DOMAIN Nodes
  BY <1>2, FramesDef
<1>. QED BY <1>3, NodesAssumption

\* The calls of t are those of s, or some of them, or those and one more.
Prolongs(s, t) ==
  /\ Len(t) <= Len(s) + 1
  /\ \A j \in 1..Len(t) :
       IF j <= Len(s) THEN t[j].node = s[j].node
       ELSE s # <<>> /\ Top(s).node < t[j].node

\* The calls get deeper with every step of a process.
LEMMA DeeperSet ==
  ASSUME NEW ps \in Seq(GoodProcesses), Deeper(ps), NEW n \in 1..Len(ps),
         NEW new \in Seq(GoodProcesses), Len(new) = n, Front(ps, new, n),
         Prolongs(ps[n].stack, new[n].stack)
  PROVE  Deeper(new)
<1>. DEFINE s == ps[n].stack
            t == new[n].stack
            size == Len(s)
<1>1. n \in Nat /\ Len(ps) \in Nat /\ s \in Seq(GoodFrames) /\ size \in Nat
  BY ProcessesDef
<1>2. Len(t) \in Nat
  BY ProcessesDef
<1>. SUFFICES ASSUME NEW k \in 1..n, NEW l \in 1..n,
                     NEW i \in 1..Len(new[k].stack), NEW j \in 1..Len(new[l].stack),
                     k < l \/ (k = l /\ i < j)
              PROVE  new[k].stack[i].node < new[l].stack[j].node
  BY DEF Deeper
<1>3. k \in Nat /\ l \in Nat /\ k <= l /\ k \in 1..Len(ps) /\ l \in 1..Len(ps)
  BY <1>1
<1>4. CASE l # n
  <2>1. l \in 1..n - 1 /\ k \in 1..n - 1
    BY <1>1, <1>3, <1>4
  <2>2. new[k] = ps[k] /\ new[l] = ps[l]
    BY <2>1 DEF Front
  <2>. QED BY <1>3, <2>2 DEF Deeper
<1>5. CASE l = n
  <2>0. j \in 1..Len(t) /\ j \in Nat /\ new[l].stack[j] = t[j]
    BY <1>2, <1>5
  <2>1. k # n => k \in 1..n - 1 /\ new[k] = ps[k] /\ i \in 1..Len(ps[k].stack)
                 /\ k < n
    BY <1>1, <1>3 DEF Front
  <2>2. k = n => i \in 1..Len(t) /\ i < j /\ i \in Nat
    BY <1>2, <1>3, <1>5
  <2>3. CASE j <= size
    <3>1. t[j].node = s[j].node /\ j \in 1..size
      BY <1>1, <2>0, <2>3 DEF Prolongs
    <3>2. CASE k # n
      <4>1. k < n /\ i \in 1..Len(ps[k].stack) /\ j \in 1..Len(ps[n].stack)
        BY <2>1, <3>1, <3>2
      <4>2. ps[k].stack[i].node < ps[n].stack[j].node
        BY <1>3, <4>1 DEF Deeper
      <4>3. new[k].stack[i].node = ps[k].stack[i].node
        BY <2>1, <3>2
      <4>4. new[l].stack[j].node = ps[n].stack[j].node
        BY <2>0, <3>1
      <4>. QED BY <4>2, <4>3, <4>4
    <3>3. CASE k = n
      <4>1. i <= size /\ i \in 1..size
        BY <1>1, <2>0, <2>2, <2>3, <3>3
      <4>2. t[i].node = s[i].node
        BY <2>2, <3>3, <4>1 DEF Prolongs
      <4>3. s[i].node < s[j].node
        BY <1>3, <2>2, <3>1, <3>3, <4>1 DEF Deeper
      <4>. QED BY <2>0, <3>1, <3>3, <4>2, <4>3
    <3>. QED BY <3>2, <3>3
  <2>4. CASE ~(j <= size)
    <3>0. Len(t) <= Len(s) + 1 /\ (~(j <= Len(s)) => s # <<>> /\ Top(s).node < t[j].node)
      BY <2>0 DEF Prolongs
    <3>01. j <= Len(t)
      BY <1>2, <2>0
    <3>02. j = size + 1
      <4>. HIDE DEF s, t, size
      <4>1. Len(t) <= size + 1
        BY <3>0 DEF size
      <4>. QED BY <1>1, <1>2, <2>0, <2>4, <3>01, <4>1
    <3>1. s # <<>> /\ Top(s).node < t[j].node /\ j = size + 1
      BY <2>4, <3>0, <3>02
    <3>2. size \in 1..size
      BY <1>1, <3>1, EmptySeq
    <3>3. s[size].node < t[j].node
      BY <3>1 DEF Top
    <3>4. s[size].node \in Nat /\ t[j].node \in Nat /\ new[k].stack[i].node \in Nat
      BY <1>5, <2>0, <3>2, NodesNat
    <3>5. CASE k # n
      <4>1. ps[k].stack[i].node < s[size].node
        BY <1>3, <1>5, <2>1, <3>2, <3>5 DEF Deeper
      <4>2. new[k].stack[i].node < s[size].node
        BY <2>1, <3>5, <4>1
      <4>. DEFINE a == new[k].stack[i].node
                  b == s[size].node
                  c == t[j].node
      <4>3. a < b /\ b < c /\ a \in Nat /\ b \in Nat /\ c \in Nat
        BY <3>3, <3>4, <4>2
      <4>4. a < c
        <5>. HIDE DEF a, b, c
        <5>. QED BY <4>3
      <4>. QED BY <2>0, <4>4
    <3>6. CASE k = n
      <4>1. i \in 1..size /\ (i = size \/ i < size)
        BY <1>1, <2>2, <3>1, <3>6
      <4>2. t[i].node = s[i].node
        <5>1. i <= size
          BY <1>1, <4>1
        <5>. QED BY <2>2, <3>6, <5>1 DEF Prolongs
      <4>3. i < size => s[i].node < s[size].node
        BY <1>3, <3>2, <3>6, <4>1 DEF Deeper
      <4>4. new[k].stack[i].node = s[i].node
        BY <3>6, <4>2
      <4>5. i = size => new[k].stack[i].node = s[size].node
        BY <4>4
      <4>. DEFINE a == new[k].stack[i].node
                  b == s[size].node
                  c == t[j].node
      <4>6. (a < b \/ a = b) /\ b < c /\ a \in Nat /\ b \in Nat /\ c \in Nat
        BY <3>3, <3>4, <4>1, <4>3, <4>4, <4>5
      <4>7. a < c
        <5>. HIDE DEF a, b, c
        <5>. QED BY <4>6
      <4>. QED BY <2>0, <4>7
    <3>. QED BY <3>5, <3>6
  <2>. QED BY <2>3, <2>4
<1>. QED BY <1>4, <1>5

LEMMA DeeperFork ==
  ASSUME NEW ps \in Seq(GoodProcesses), Deeper(ps), ps # <<>>, NEW n, n = Len(ps),
         NEW new \in Seq(GoodProcesses), Len(new) = n + 1, Front(ps, new, n),
         ps[n].stack # <<>>, Len(new[n].stack) = Len(ps[n].stack),
         \A j \in 1..Len(ps[n].stack) : new[n].stack[j].node = ps[n].stack[j].node,
         NEW d \in DOMAIN Nodes, new[n + 1].stack = <<Frame(d)>>,
         Top(ps[n].stack).node < d
  PROVE  Deeper(new)
<1>. DEFINE s == ps[n].stack
            size == Len(s)
<1>1. n \in Nat /\ n \in 1..n /\ ps[n] \in GoodProcesses
  BY EmptySeq
<1>2. s \in Seq(GoodFrames) /\ size \in Nat /\ size \in 1..size
  BY <1>1, ProcessesDef, EmptySeq
<1>3. \A k \in 1..n : /\ Len(new[k].stack) = Len(ps[k].stack)
                      /\ \A i \in 1..Len(ps[k].stack) :
                           new[k].stack[i].node = ps[k].stack[i].node
  <2>. SUFFICES ASSUME NEW k \in 1..n
                PROVE  /\ Len(new[k].stack) = Len(ps[k].stack)
                       /\ \A i \in 1..Len(ps[k].stack) :
                            new[k].stack[i].node = ps[k].stack[i].node
    OBVIOUS
  <2>1. k # n => k \in 1..n - 1
    BY <1>1
  <2>. QED BY <2>1 DEF Front
<1>4. Len(new[n + 1].stack) = 1 /\ new[n + 1].stack[1].node = d
  BY DEF Frame
<1>5. s[size].node < d /\ d \in Nat
  BY NodesAssumption DEF Top
<1>. SUFFICES ASSUME NEW k \in 1..n + 1, NEW l \in 1..n + 1,
                     NEW i \in 1..Len(new[k].stack), NEW j \in 1..Len(new[l].stack),
                     k < l \/ (k = l /\ i < j)
              PROVE  new[k].stack[i].node < new[l].stack[j].node
  BY DEF Deeper
<1>6. CASE l # n + 1
  <2>1. k \in 1..n /\ l \in 1..n
    BY <1>1, <1>6
  <2>2. ps[k].stack[i].node < ps[l].stack[j].node
    BY <1>3, <2>1 DEF Deeper
  <2>. QED BY <1>3, <2>1, <2>2
<1>7. CASE l = n + 1
  <2>00. Len(new[l].stack) = 1
    BY <1>4, <1>7
  <2>0. j = 1
    BY <2>00
  <2>01. k = n + 1 => i \in 1..1 /\ i < 1
    BY <1>1, <1>4, <1>7, <2>0
  <2>1. j = 1 /\ k \in 1..n
    BY <1>1, <2>0, <2>01
  <2>2. i \in 1..Len(ps[k].stack) /\ new[k].stack[i].node = ps[k].stack[i].node
    BY <1>3, <2>1
  <2>3. ps[k].stack[i].node < s[size].node \/ ps[k].stack[i].node = s[size].node
    <3>1. CASE k # n
      <4>1. k < n
        BY <1>1, <2>1, <3>1
      <4>. QED BY <1>1, <1>2, <2>1, <2>2, <4>1 DEF Deeper
    <3>2. CASE k = n
      <4>1. i = size \/ i < size
        BY <1>2, <2>2, <3>2
      <4>2. i < size => ps[k].stack[i].node < s[size].node
        BY <1>1, <1>2, <2>2, <3>2 DEF Deeper
      <4>. QED BY <3>2, <4>1, <4>2
    <3>. QED BY <3>1, <3>2
  <2>4. ps[k].stack[i].node \in Nat /\ s[size].node \in Nat
    BY <1>1, <1>2, <2>1, <2>2, NodesNat
  <2>5. new[l].stack[j].node = d
    BY <1>4, <1>7, <2>1
  <2>. DEFINE a == ps[k].stack[i].node
              b == s[size].node
  <2>6. (a < b \/ a = b) /\ b < d /\ a \in Nat /\ b \in Nat /\ d \in Nat
    BY <1>5, <2>3, <2>4
  <2>7. a < d
    <3>. HIDE DEF a, b
    <3>. QED BY <2>6
  <2>. QED BY <2>2, <2>5, <2>7
<1>. QED BY <1>6, <1>7

-----------------------------------------------------------------------------
(* A step of the innermost process. *)

Replaced(ps, q) == [ps EXCEPT ![Len(ps)] = q]

\* Where p has values for its calls q has them too, with the same for the first.
Carries(p, k, q, k2, L, v) ==
  \A r \in Rows(L) :
    Chain(p.stack, r, v) /\ Inner(p, r, v, L, k) =>
      \E z \in Rows(L) : z[1] = r[1] /\ Chain(q.stack, z, v) /\ Inner(q, z, v, L, k2)
Carry(ps, lg, q, lg2) ==
  \A L, v : Continues(Replaced(ps, q), lg2, L) /\ Solved(v, L) =>
    Continues(ps, lg, L) /\ Carries(Top(ps), Len(lg) + 1, q, Len(lg2) + 1, L, v)

\* The line keeps its value when the innermost process carries its own on.
LEMMA SetMeans ==
  ASSUME NEW ps \in Seq(GoodProcesses), ps # <<>>, ~Idling(ps), NEW lg, NEW ln,
         Means(ps, lg, ln), NEW q \in GoodProcesses, NEW lg2, Carry(ps, lg, q, lg2)
  PROVE  Means(Replaced(ps, q), lg2, ln)
<1>. DEFINE new == Replaced(ps, q)
            n == Len(ps)
<1>1. /\ Len(new) = n /\ n \in 1..Len(ps) /\ n \in Nat
      /\ \A k \in 1..n : new[k] = IF k = n THEN q ELSE ps[k]
  BY ReplaceLast DEF Replaced
<1>2. Top(ps) = ps[n]
  BY DEF Top
<1>3. ln \in DOMAIN Nodes
  BY DEF Means
<1>. HIDE DEF new, n
<1>4. ASSUME NEW L, NEW v, Continues(new, lg2, L), Solved(v, L)
      PROVE  \E y \in Tableaus(L) : Linked(new, Len(lg2) + 1, ln, L, v, y)
  <2>1. Continues(ps, lg, L) /\ Carries(ps[n], Len(lg) + 1, q, Len(lg2) + 1, L, v)
    BY <1>2, <1>4 DEF Carry, new
  <2>2. PICK y \in Tableaus(L) : Linked(ps, Len(lg) + 1, ln, L, v, y)
    BY <1>4, <2>1 DEF Means
  <2>3. y[n] \in Rows(L) /\ Chain(ps[n].stack, y[n], v)
        /\ Inner(ps[n], y[n], v, L, Len(lg) + 1)
    BY <1>1, <2>2 DEF Linked, Tableaus, n
  <2>4. PICK z \in Rows(L) : z[1] = y[n][1] /\ Chain(q.stack, z, v)
                             /\ Inner(q, z, v, L, Len(lg2) + 1)
    BY <2>1, <2>3 DEF Carries
  <2>5. new[n] = q /\ \A i \in 1..n - 1 : new[i] = ps[i]
    <3>1. n \in 1..n /\ \A i \in 1..n - 1 : i \in 1..n /\ i # n
      BY <1>1
    <3>. QED BY <1>1, <3>1
  <2>6. Chain(new[n].stack, z, v) /\ Inner(new[n], z, v, L, Len(lg2) + 1)
    BY <2>4, <2>5
  <2>7. Len(new) = n /\ n \in 1..Len(ps) /\ Front(ps, new, n)
    BY <1>1, <2>5 DEF Front
  <2>8. z[1] = y[n][1]
    BY <2>4
  <2>. QED BY <2>2, <2>6, <2>7, <2>8, SetLinked
<1>. QED BY <1>3, <1>4 DEF Means, new

\* The kinds of steps: the innermost call goes on, calls a node, or returns.
Stays(p, q) ==
  /\ p.stack # <<>> /\ Len(q.stack) = Len(p.stack)
  /\ \A j \in 1..Len(p.stack) - 1 : q.stack[j] = p.stack[j]
  /\ Top(q.stack).at \notin {"left", "right"} /\ Top(q.stack).node = Top(p.stack).node
Shifted(p, q) ==
  Stays(p, q) /\ p.ret = None /\ q.ret = None /\ Top(q.stack).i = Top(p.stack).i
HasCalled(p, q, at, n) ==
  /\ p.stack # <<>> /\ q.ret = None /\ Len(q.stack) = Len(p.stack) + 1
  /\ \A j \in 1..Len(p.stack) - 1 : q.stack[j] = p.stack[j]
  /\ q.stack[Len(p.stack)].node = Top(p.stack).node /\ q.stack[Len(p.stack)].at = at
  /\ q.stack[Len(p.stack) + 1] = Frame(n)
Returned(p, q, c) == p.stack # <<>> /\ q.stack = Pop(p.stack) /\ q.ret = c /\ c # None

\* What the calls behind the innermost one have to do with each other stays.
LEMMA StaysIs ==
  ASSUME NEW p \in GoodProcesses, NEW q, Stays(p, q), NEW r, NEW v
  PROVE  /\ Len(p.stack) \in Nat \ {0} /\ q.stack # <<>>
         /\ Chain(p.stack, r, v) => Chain(q.stack, r, v)
<1>. DEFINE m == Len(p.stack)
<1>1. m \in Nat \ {0} /\ p.stack \in Seq(GoodFrames)
  BY ProcessesDef, EmptySeq DEF Stays
<1>2. q.stack # <<>> /\ Len(q.stack) = m
  <2>1. Len(<<>>) = 0
    BY EmptySeq
  <2>. QED BY <1>1, <2>1 DEF Stays
<1>3. ASSUME Chain(p.stack, r, v), NEW j \in 1..m, q.stack[j].at \in {"left", "right"}
      PROVE  r[j] = AfterSide(v, q.stack[j], r[j + 1])
  <2>1. j # m
    BY <1>2, <1>3 DEF Stays, Top
  <2>2. j \in 1..m - 1
    BY <1>1, <2>1
  <2>3. q.stack[j] = p.stack[j]
    BY <2>2 DEF Stays
  <2>. QED BY <1>3, <2>3 DEF Chain
<1>. QED BY <1>1, <1>2, <1>3 DEF Chain

\* Each kind of step carries the values on.
LEMMA ShiftedCarries ==
  ASSUME NEW p \in GoodProcesses, NEW q \in GoodProcesses, Shifted(p, q), NEW k, NEW L, NEW v
  PROVE  Carries(p, k, q, k, L, v)
<1>. SUFFICES ASSUME NEW r \in Rows(L), Chain(p.stack, r, v), Inner(p, r, v, L, k)
              PROVE  Chain(q.stack, r, v) /\ Inner(q, r, v, L, k)
  BY DEF Carries
<1>1. q.stack # <<>> /\ Chain(q.stack, r, v)
  BY StaysIs DEF Shifted
<1>2. Now(v, L, Top(p.stack), k, r[Len(p.stack)])
  BY DEF Inner, Shifted, Stays
<1>3. Now(v, L, Top(q.stack), k, r[Len(p.stack)])
  BY <1>2 DEF Now, Shifted, Stays
<1>. QED BY <1>1, <1>3 DEF Inner, Shifted, Stays

LEMMA ReturnedIs ==
  ASSUME NEW p \in GoodProcesses, NEW q, NEW c, Returned(p, q, c), NEW k, NEW L, NEW v,
         NEW r, Chain(p.stack, r, v), r[Len(p.stack)] = Done(k, c)
  PROVE  Chain(q.stack, r, v) /\ Inner(q, r, v, L, k)
<1>. DEFINE m == Len(p.stack)
<1>1. m \in Nat \ {0} /\ p.stack \in Seq(GoodFrames)
  BY ProcessesDef, EmptySeq DEF Returned
<1>2. /\ Len(q.stack) = m - 1 /\ \A j \in 1..m - 1 : q.stack[j] = p.stack[j]
  BY <1>1, TopPop DEF Returned
<1>3. Inner(q, r, v, L, k)
  <2>1. Len(q.stack) + 1 = m
    BY <1>1, <1>2
  <2>. QED BY <2>1 DEF Inner, Returned
<1>4. ASSUME NEW j \in 1..m - 1, q.stack[j].at \in {"left", "right"}
      PROVE  r[j] = AfterSide(v, q.stack[j], r[j + 1])
  <2>1. j \in 1..m /\ q.stack[j] = p.stack[j]
    BY <1>1, <1>2
  <2>. QED BY <1>4, <2>1 DEF Chain
<1>. QED BY <1>2, <1>3, <1>4 DEF Chain

LEMMA ReturnedCarries ==
  ASSUME NEW p \in GoodProcesses, NEW q \in GoodProcesses, NEW c, Returned(p, q, c),
         NEW k, NEW k2, NEW L, NEW v,
         \A r \in Rows(L) : Chain(p.stack, r, v) /\ Inner(p, r, v, L, k) =>
           r[Len(p.stack)] = Done(k2, c)
  PROVE  Carries(p, k, q, k2, L, v)
<1>. SUFFICES ASSUME NEW r \in Rows(L), Chain(p.stack, r, v), Inner(p, r, v, L, k)
              PROVE  Chain(q.stack, r, v) /\ Inner(q, r, v, L, k2)
  BY DEF Carries
<1>1. r[Len(p.stack)] = Done(k2, c)
  OBVIOUS
<1>. QED BY <1>1, ReturnedIs

LEMMA CalledCarries ==
  ASSUME NEW p \in GoodProcesses, NEW q \in GoodProcesses, NEW at \in {"left", "right"},
         NEW n \in DOMAIN Nodes, HasCalled(p, q, at, n),
         NEW L \in Seq(Entries), NEW v, Solved(v, L), NEW k \in 1..Len(L),
         \A r \in Rows(L) : Chain(p.stack, r, v) /\ Inner(p, r, v, L, k) =>
           r[Len(p.stack)] = AfterSide(v, q.stack[Len(p.stack)], v[n][k])
  PROVE  Carries(p, k, q, k, L, v)
<1>. DEFINE m == Len(p.stack)
<1>1. m \in Nat \ {0} /\ p.stack \in Seq(GoodFrames)
  BY ProcessesDef, EmptySeq DEF HasCalled
<1>2. q.stack # <<>> /\ Len(q.stack) = m + 1 /\ Top(q.stack) = Frame(n)
  <2>1. Len(<<>>) = 0
    BY EmptySeq
  <2>. QED BY <1>1, <2>1 DEF HasCalled, Top
<1>. SUFFICES ASSUME NEW r \in Rows(L), Chain(p.stack, r, v), Inner(p, r, v, L, k)
              PROVE  \E z \in Rows(L) : z[1] = r[1] /\ Chain(q.stack, z, v) /\ Inner(q, z, v, L, k)
  BY DEF Carries
<1>. DEFINE z == [r EXCEPT ![m + 1] = v[n][k]]
<1>3. v[n][k] \in Results(L)
  <2>1. k \in 0..(Len(L) + 1)
    OBVIOUS
  <2>. QED BY <2>1 DEF Solved, Values
<1>4. z \in Rows(L) /\ z[m + 1] = v[n][k] /\ \A j \in 1..m : z[j] = r[j]
  <2>1. m + 1 \in Nat /\ \A j \in 1..m : j \in Nat /\ j # m + 1
    BY <1>1
  <2>. HIDE DEF m
  <2>. QED BY <1>3, <2>1 DEF Rows
<1>5. r[m] = AfterSide(v, q.stack[m], v[n][k])
  OBVIOUS
<1>. HIDE DEF z
<1>6. z[1] = r[1]
  <2>1. 1 \in 1..m
    BY <1>1
  <2>. QED BY <1>4, <2>1
<1>7. Inner(q, z, v, L, k)
  <2>1. Len(L) \in Nat
    OBVIOUS
  <2>2. Now(v, L, Frame(n), k, v[n][k])
    BY <2>1, NowFirst
  <2>3. Now(v, L, Top(q.stack), k, z[Len(q.stack)])
    BY <1>2, <1>4, <2>2
  <2>. QED BY <1>2, <2>3 DEF Inner, HasCalled
<1>8. ASSUME NEW j \in 1..m + 1, q.stack[j].at \in {"left", "right"}
      PROVE  z[j] = AfterSide(v, q.stack[j], z[j + 1])
  <2>1. CASE j = m + 1
    <3>1. q.stack[j].at = "start"
      BY <2>1 DEF HasCalled, Frame
    <3>. QED BY <1>8, <3>1
  <2>2. CASE j = m
    <3>1. j \in 1..m
      BY <1>1, <2>2
    <3>. QED BY <1>4, <1>5, <2>2, <3>1
  <2>3. CASE j # m /\ j # m + 1
    <3>1. j \in 1..m - 1 /\ j \in 1..m /\ j + 1 \in 1..m
      BY <1>1, <2>3
    <3>2. q.stack[j] = p.stack[j]
      BY <3>1 DEF HasCalled
    <3>3. r[j] = AfterSide(v, p.stack[j], r[j + 1])
      BY <1>8, <3>1, <3>2 DEF Chain
    <3>. QED BY <1>4, <3>1, <3>2, <3>3
  <2>. QED BY <2>1, <2>2, <2>3
<1>9. Chain(q.stack, z, v)
  BY <1>2, <1>8 DEF Chain
<1>. QED BY <1>4, <1>6, <1>7, <1>9

\* Nothing was taken, and the innermost call has stayed or called another.
LEMMA StayContinues ==
  ASSUME NEW ps \in Seq(GoodProcesses), ps # <<>>, NEW q \in GoodProcesses, NEW lg, NEW L,
         Pending(q), Len(q.stack) >= Len(Top(ps).stack),
         \A j \in 1..Len(Top(ps).stack) - 1 : q.stack[j] = Top(ps).stack[j],
         Continues(Replaced(ps, q), lg, L)
  PROVE  Continues(ps, lg, L)
<1>. DEFINE new == Replaced(ps, q)
            n == Len(ps)
<1>1. /\ Len(new) = n /\ n \in 1..n /\ n \in Nat
      /\ \A k \in 1..n : new[k] = IF k = n THEN q ELSE ps[k]
  BY ReplaceLast DEF Replaced
<1>2. Top(ps) = ps[n] /\ Len(q.stack) \in Nat
  BY ProcessesDef DEF Top
<1>. HIDE DEF new, n
<1>3. Front(ps, new, n)
  <2>1. \A i \in 1..n - 1 : i \in 1..n /\ i # n
    BY <1>1
  <2>. QED BY <1>1, <2>1 DEF Front
<1>4. new[n] = q /\ Len(new) \in Nat /\ Len(new) >= n /\ new[Len(new)] = q
  BY <1>1
<1>5. \A j \in 1..Len(ps[n].stack) - 1 : new[n].stack[j].node = ps[n].stack[j].node
  BY <1>2, <1>4
<1>6. Pending(new[Len(new)]) /\ Len(new[n].stack) \in Nat
      /\ Len(new[n].stack) >= Len(ps[n].stack)
  BY <1>2, <1>4
<1>7. n = Len(ps) /\ Continues(new, lg, L)
  BY DEF n, new
<1>. QED BY <1>3, <1>4, <1>5, <1>6, <1>7, CallContinues

\* A process that has returned expects no outcome.
LEMMA ReturnContinues ==
  ASSUME NEW ps \in Seq(GoodProcesses), ps # <<>>, Top(ps).ret # None, NEW lg, NEW L,
         Extends(lg, L)
  PROVE  Continues(ps, lg, L)
BY DEF Continues, Pending, Top

\* What may come next, in numbers.
LEMMA NextIs ==
  ASSUME NEW ps, NEW lg \in Seq(Entries), NEW L, Continues(ps, lg, L), Pending(Top(ps))
  PROVE  L \in Seq(Entries) /\ Len(L) \in Nat /\ Len(lg) + 1 \in 1..Len(L)
<1>1. L \in Seq(Entries) /\ Len(lg) < Len(L)
  BY DEF Continues, Extends, Top
<1>2. Len(L) \in Nat /\ Len(lg) \in Nat
  BY <1>1
<1>. QED BY <1>1, <1>2

\* The innermost process, after a step.
LEMMA TopReplaced ==
  ASSUME NEW ps \in Seq(GoodProcesses), ps # <<>>, NEW q \in GoodProcesses
  PROVE  Top(Replaced(ps, q)) = q /\ Len(Replaced(ps, q)) = Len(ps)
         /\ Replaced(ps, q) \in Seq(GoodProcesses)
BY ReplaceLast DEF Replaced, Top

\* The innermost call goes on by itself.
LEMMA ShiftCarry ==
  ASSUME NEW ps \in Seq(GoodProcesses), ps # <<>>, NEW q \in GoodProcesses,
         Shifted(Top(ps), q), NEW lg
  PROVE  Carry(ps, lg, q, lg)
<1>1. Top(ps) \in GoodProcesses
  BY TopPop
<1>2. Pending(q) /\ Len(q.stack) >= Len(Top(ps).stack)
  <2>1. Len(Top(ps).stack) \in Nat \ {0} /\ Len(<<>>) = 0
    BY <1>1, ProcessesDef, EmptySeq DEF Shifted, Stays
  <2>. QED BY <2>1 DEF Pending, Shifted, Stays
<1>3. \A j \in 1..Len(Top(ps).stack) - 1 : q.stack[j] = Top(ps).stack[j]
  BY DEF Shifted, Stays
<1>. SUFFICES ASSUME NEW L, NEW v, Continues(Replaced(ps, q), lg, L), Solved(v, L)
              PROVE  Continues(ps, lg, L)
                     /\ Carries(Top(ps), Len(lg) + 1, q, Len(lg) + 1, L, v)
  BY DEF Carry
<1>4. Continues(ps, lg, L)
  BY <1>2, <1>3, StayContinues
<1>. QED BY <1>1, <1>4, ShiftedCarries

\* A list that has all it needs.
Leaves(f, c) ==
  \/ f.at = "right"
  \/ f.at = "left" /\ Nodes[f.node].op = "seq" /\ Len(Nodes[f.node].kids) = 1
  \/ f.at = "left" /\ Nodes[f.node].op # "seq" /\ (Nodes[f.node].op = "and") # (c = 0)
\* One that goes on to the right.
Goes(f, c) ==
  \/ f.at = "left" /\ Nodes[f.node].op = "seq" /\ Len(Nodes[f.node].kids) # 1
  \/ f.at = "left" /\ Nodes[f.node].op # "seq" /\ (Nodes[f.node].op = "and") = (c = 0)

\* What a list makes of the value of its left side.
LEMMA LeavesIs ==
  ASSUME NEW f, NEW c, Leaves(f, c), NEW v, NEW k
  PROVE  AfterSide(v, f, Done(k, c)) = Done(k, c)
<1>1. ~Done(k, c).over /\ Done(k, c).status = c
  BY DEF Done
<1>. QED BY <1>1 DEF AfterSide, Leaves

LEMMA GoesIs ==
  ASSUME NEW f, NEW c, Goes(f, c), NEW v, NEW k
  PROVE  AfterSide(v, f, Done(k, c)) = v[Nodes[f.node].kids[2]][k]
<1>1. ~Done(k, c).over /\ Done(k, c).status = c /\ Done(k, c).next = k
  BY DEF Done
<1>. QED BY <1>1 DEF AfterSide, Goes

\* The value of a side that has returned.
LEMMA SideIs ==
  ASSUME NEW p \in GoodProcesses, p.stack # <<>>, p.ret # None,
         Top(p.stack).at \in {"left", "right"},
         NEW r, NEW v, NEW L, NEW k, Chain(p.stack, r, v), Inner(p, r, v, L, k)
  PROVE  r[Len(p.stack)] = AfterSide(v, Top(p.stack), Done(k, p.ret))
<1>. DEFINE m == Len(p.stack)
<1>1. m \in 1..m
  BY ProcessesDef, EmptySeq
<1>2. r[m + 1] = Done(k, p.ret)
  BY DEF Inner
<1>3. r[m] = AfterSide(v, Top(p.stack), r[m + 1])
  BY <1>1 DEF Chain, Top
<1>. QED BY <1>2, <1>3

\* A list returns.
LEMMA ReturnCarry ==
  ASSUME NEW ps \in Seq(GoodProcesses), ps # <<>>, NEW p, p = Top(ps), p.stack # <<>>,
         p.ret # None, Leaves(Top(p.stack), p.ret),
         NEW q \in GoodProcesses, Returned(p, q, p.ret), NEW lg
  PROVE  Carry(ps, lg, q, lg)
<1>1. p \in GoodProcesses
  BY TopPop
<1>2. Top(p.stack).at \in {"left", "right"}
  BY DEF Leaves
<1>. SUFFICES ASSUME NEW L, NEW v, Continues(Replaced(ps, q), lg, L), Solved(v, L)
              PROVE  Continues(ps, lg, L) /\ Carries(p, Len(lg) + 1, q, Len(lg) + 1, L, v)
  BY DEF Carry
<1>3. Continues(ps, lg, L)
  <2>1. Extends(lg, L)
    BY DEF Continues
  <2>. QED BY <2>1, ReturnContinues
<1>. DEFINE k == Len(lg) + 1
<1>. HIDE DEF k
<1>4. ASSUME NEW r \in Rows(L), Chain(p.stack, r, v), Inner(p, r, v, L, k)
      PROVE  r[Len(p.stack)] = Done(k, p.ret)
  <2>1. r[Len(p.stack)] = AfterSide(v, Top(p.stack), Done(k, p.ret))
    BY <1>1, <1>2, <1>4, SideIs
  <2>. QED BY <2>1, LeavesIs
<1>5. Carries(p, k, q, k, L, v)
  BY <1>1, <1>4, ReturnedCarries
<1>. QED BY <1>3, <1>5 DEF k

\* A call is one more, and an outcome is there for it.
LEMMA CallHas ==
  ASSUME NEW ps \in Seq(GoodProcesses), ps # <<>>, NEW p, p = Top(ps),
         NEW q \in GoodProcesses, NEW at, NEW n, HasCalled(p, q, at, n),
         NEW lg \in Seq(Entries), NEW L, Continues(Replaced(ps, q), lg, L)
  PROVE  /\ Continues(ps, lg, L) /\ Extends(lg, L)
         /\ L \in Seq(Entries) /\ Len(L) \in Nat /\ Len(lg) + 1 \in 1..Len(L)
         /\ L[Len(lg) + 1].node # Top(p.stack).node
<1>. DEFINE new == Replaced(ps, q)
            m == Len(p.stack)
<1>1. p \in GoodProcesses
  BY TopPop
<1>2. m \in Nat \ {0} /\ Len(q.stack) = m + 1
  BY <1>1, ProcessesDef, EmptySeq DEF HasCalled
<1>3. Pending(q) /\ Len(q.stack) >= m
  <2>1. Len(<<>>) = 0
    BY EmptySeq
  <2>. QED BY <1>2, <2>1 DEF Pending, HasCalled
<1>4. \A j \in 1..m - 1 : q.stack[j] = p.stack[j]
  BY DEF HasCalled
<1>5. Continues(ps, lg, L)
  BY <1>3, <1>4, StayContinues
<1>6. Top(new) = q /\ Len(new) = Len(ps) /\ Len(ps) \in 1..Len(ps)
  BY TopReplaced, EmptySeq
<1>7. L \in Seq(Entries) /\ Len(L) \in Nat /\ Len(lg) + 1 \in 1..Len(L)
  BY <1>3, <1>6, NextIs
<1>8. Foreign(new, L[Len(lg) + 1]) /\ Extends(lg, L)
  BY <1>3, <1>6 DEF Continues, Top
<1>9. L[Len(lg) + 1].node # q.stack[m].node
  <2>. HIDE DEF new
  <2>1. new[Len(new)] = q /\ Len(new) \in 1..Len(new)
    BY <1>6 DEF Top
  <2>2. m \in 1..Len(q.stack) /\ m # Len(q.stack)
    BY <1>2
  <2>. QED BY <1>8, <2>1, <2>2 DEF Foreign
<1>10. q.stack[m].node = Top(p.stack).node
  BY DEF HasCalled
<1>. QED BY <1>5, <1>7, <1>8, <1>9, <1>10

\* A list calls its right side, and its left one.
LEMMA RightCarry ==
  ASSUME NEW ps \in Seq(GoodProcesses), ps # <<>>, NEW p, p = Top(ps), p.stack # <<>>,
         p.ret # None, Goes(Top(p.stack), p.ret),
         NEW q \in GoodProcesses, NEW n \in DOMAIN Nodes,
         n = Nodes[Top(p.stack).node].kids[2], HasCalled(p, q, "right", n),
         NEW lg \in Seq(Entries)
  PROVE  Carry(ps, lg, q, lg)
<1>1. p \in GoodProcesses
  BY TopPop
<1>2. Top(p.stack).at \in {"left", "right"}
  BY DEF Goes
<1>. SUFFICES ASSUME NEW L, NEW v, Continues(Replaced(ps, q), lg, L), Solved(v, L)
              PROVE  Continues(ps, lg, L) /\ Carries(p, Len(lg) + 1, q, Len(lg) + 1, L, v)
  BY DEF Carry
<1>. DEFINE k == Len(lg) + 1
<1>3. Continues(ps, lg, L) /\ L \in Seq(Entries) /\ k \in 1..Len(L)
  BY CallHas
<1>. HIDE DEF k
<1>4. ASSUME NEW r \in Rows(L), Chain(p.stack, r, v), Inner(p, r, v, L, k)
      PROVE  r[Len(p.stack)] = AfterSide(v, q.stack[Len(p.stack)], v[n][k])
  <2>1. r[Len(p.stack)] = AfterSide(v, Top(p.stack), Done(k, p.ret))
    BY <1>1, <1>2, <1>4, SideIs
  <2>2. r[Len(p.stack)] = v[n][k]
    BY <2>1, GoesIs
  <2>. QED BY <2>2 DEF AfterSide, HasCalled
<1>5. Carries(p, k, q, k, L, v)
  BY <1>1, <1>3, <1>4, CalledCarries
<1>. QED BY <1>3, <1>5 DEF k

LEMMA LeftCarry ==
  ASSUME NEW ps \in Seq(GoodProcesses), ps # <<>>, NEW p, p = Top(ps), p.stack # <<>>,
         p.ret = None, Nodes[Top(p.stack).node].op \in {"seq", "and", "or"},
         NEW q \in GoodProcesses, NEW n \in DOMAIN Nodes,
         n = Nodes[Top(p.stack).node].kids[1], HasCalled(p, q, "left", n),
         NEW lg \in Seq(Entries)
  PROVE  Carry(ps, lg, q, lg)
<1>. DEFINE m == Len(p.stack)
            d == Top(p.stack).node
<1>1. p \in GoodProcesses
  BY TopPop
<1>2. d \in DOMAIN Nodes
  BY <1>1, ProcessesDef, TopPop, FramesDef
<1>. SUFFICES ASSUME NEW L, NEW v, Continues(Replaced(ps, q), lg, L), Solved(v, L)
              PROVE  Continues(ps, lg, L) /\ Carries(p, Len(lg) + 1, q, Len(lg) + 1, L, v)
  BY DEF Carry
<1>. DEFINE k == Len(lg) + 1
<1>3. Continues(ps, lg, L) /\ L \in Seq(Entries) /\ k \in 1..Len(L) /\ L[k].node # d
      /\ Len(L) \in Nat
  BY CallHas
<1>. HIDE DEF k, d
<1>4. ASSUME NEW r \in Rows(L), Chain(p.stack, r, v), Inner(p, r, v, L, k)
      PROVE  r[m] = AfterSide(v, q.stack[m], v[n][k])
  <2>1. Now(v, L, Top(p.stack), k, r[m])
    BY <1>4 DEF Inner
  <2>2. r[m] = v[d][k]
    BY <2>1 DEF Now, d
  <2>3. q.stack[m].node = d /\ q.stack[m].at = "left"
    BY DEF HasCalled, d
  <2>4. Nodes[d].op \in {"seq", "and", "or"} /\ n = Nodes[d].kids[1]
    BY DEF d
  <2>. QED BY <1>2, <1>3, <2>2, <2>3, <2>4, ListIs
<1>5. Carries(p, k, q, k, L, v)
  BY <1>1, <1>3, <1>4, CalledCarries
<1>. QED BY <1>3, <1>5 DEF k

-----------------------------------------------------------------------------
(* Outcomes. *)

\* A node that is run itself returns with its outcome.
LEMMA FinishCarry ==
  ASSUME NEW ps \in Seq(GoodProcesses), ps # <<>>, Deeper(ps),
         NEW p, p = Top(ps), p.stack # <<>>, p.ret = None,
         Nodes[Top(p.stack).node].op # "pipe",
         NEW lg \in Seq(Entries), NEW e \in Entries, e.node = Top(p.stack).node, ~e.ends, ~e.sig,
         NEW q \in GoodProcesses, Returned(p, q, e.code)
  PROVE  Carry(ps, lg, q, Append(lg, e))
<1>. DEFINE k == Len(lg) + 1
            m == Len(p.stack)
            d == Top(p.stack).node
<1>1. p \in GoodProcesses /\ p = ps[Len(ps)]
  BY TopPop DEF Top
<1>2. d \in DOMAIN Nodes
  BY <1>1, ProcessesDef, TopPop, FramesDef
<1>3. Len(Append(lg, e)) + 1 = k + 1
  OBVIOUS
<1>. SUFFICES ASSUME NEW L, NEW v, Continues(Replaced(ps, q), Append(lg, e), L), Solved(v, L)
              PROVE  Continues(ps, lg, L) /\ Carries(p, k, q, k + 1, L, v)
  BY <1>3 DEF Carry
<1>4. Extends(Append(lg, e), L)
  BY DEF Continues
<1>5. k \in 1..Len(L) /\ L[k] = e /\ L \in Seq(Entries)
  BY <1>4, ExtendsAppend DEF Extends
<1>6. Continues(ps, lg, L)
  <2>1. ps[Len(ps)].stack # <<>> /\ e.node = Top(ps[Len(ps)].stack).node
    BY <1>1
  <2>. QED BY <1>4, <2>1, RecordContinues
<1>. HIDE DEF k
<1>7. ASSUME NEW r \in Rows(L), Chain(p.stack, r, v), Inner(p, r, v, L, k)
      PROVE  r[m] = Done(k + 1, e.code)
  <2>1. Now(v, L, Top(p.stack), k, r[m])
    BY <1>7 DEF Inner
  <2>2. r[m] = v[d][k]
    BY <2>1 DEF Now
  <2>3. Nodes[d].op # "pipe" /\ L[k].node = d
    BY <1>5
  <2>. HIDE DEF d
  <2>4. Len(L) \in Nat
    BY <1>5
  <2>5. v[d][k] = [next |-> k + 1, status |-> L[k].code, over |-> L[k].ends, sig |-> L[k].sig]
    BY <1>2, <1>5, <2>3, <2>4, OwnIs
  <2>6. L[k].ends = FALSE /\ L[k].sig = FALSE /\ L[k].code = e.code
    BY <1>5 DEF Entries
  <2>. QED BY <2>2, <2>5, <2>6 DEF Done
<1>8. Carries(p, k, q, k + 1, L, v)
  BY <1>1, <1>7, ReturnedCarries
<1>. QED BY <1>6, <1>8

LEMMA OverIs ==
  ASSUME NEW a, NEW b, NEW o
  PROVE  [[next |-> a, status |-> b, over |-> o, sig |-> FALSE] EXCEPT !.over = FALSE] =
           [next |-> a, status |-> b, over |-> FALSE, sig |-> FALSE]
<1>. DEFINE x == [next |-> a, status |-> b, over |-> o, sig |-> FALSE]
<1>1. ASSUME NEW r, r = [x EXCEPT !.over = FALSE]
      PROVE  r = [next |-> a, status |-> b, over |-> FALSE, sig |-> FALSE]
  BY <1>1
<1>. QED BY <1>1, Zenon

\* A pipeline that fails takes no other stage.
LEMMA PipeFailed ==
  ASSUME NEW L, NEW v, NEW n \in DOMAIN Nodes, NEW i \in 1..Len(Nodes[n].kids),
         NEW k \in 1..Len(L), L[k].node = n, NEW c, NEW y,
         PipeFrom(v, L, n, i - 1, Done(k, c), y)
  PROVE  y = Done(k + 1, 1)
<1>. DEFINE size == Len(Nodes[n].kids)
            x == [next |-> k + 1, status |-> 1, over |-> TRUE, sig |-> FALSE]
<1>1. size \in Nat
  BY NodesDef
<1>2. PICK st : /\ st[i - 1] = Done(k, c)
                /\ \A j \in (i - 1 + 1)..size : st[j] = StageAs(v, L, n, j, st[j - 1])
                /\ y = [st[size] EXCEPT !.over = FALSE]
  BY DEF PipeFrom
<1>3. i \in Nat /\ i - 1 + 1 = i /\ i <= size
  BY <1>1
<1>4. st[i] = x
  <2>1. st[i] = StageAs(v, L, n, i, Done(k, c))
    BY <1>1, <1>2, <1>3
  <2>2. ~Done(k, c).over /\ Done(k, c).next = k
    BY DEF Done
  <2>3. StageAs(v, L, n, i, Done(k, c)) =
          [Missing EXCEPT !.next = k + 1, !.status = 1, !.over = TRUE]
    BY <2>2 DEF StageAs
  <2>4. [Missing EXCEPT !.next = k + 1, !.status = 1, !.over = TRUE] = x
    <3>. DEFINE a == k + 1
                b == 1
    <3>. HIDE DEF a, b
    <3>1. [Missing EXCEPT !.next = a, !.status = b, !.over = TRUE] =
            [next |-> a, status |-> b, over |-> TRUE, sig |-> FALSE]
      BY MissingOver, Zenon
    <3>. QED BY <3>1 DEF a, b
  <2>. QED BY <2>1, <2>3, <2>4
<1>. DEFINE S == {l \in Nat : i + l <= size => st[i + l] = x}
<1>5. 0 \in S
  BY <1>3, <1>4
<1>6. ASSUME NEW l \in Nat, l \in S PROVE l + 1 \in S
  <2>. SUFFICES ASSUME i + (l + 1) <= size PROVE st[i + (l + 1)] = x
    OBVIOUS
  <2>1. i + (l + 1) \in i..size /\ i + (l + 1) - 1 = i + l /\ i + l <= size
    BY <1>1, <1>3
  <2>2. st[i + l] = x
    BY <1>6, <2>1
  <2>3. st[i + (l + 1)] = StageAs(v, L, n, i + (l + 1), st[i + l])
    BY <1>2, <1>3, <2>1
  <2>4. StageAs(v, L, n, i + (l + 1), x) = x
    BY DEF StageAs
  <2>. QED BY <2>2, <2>3, <2>4
<1>. HIDE DEF S
<1>7. \A l \in Nat : l \in S
  BY <1>5, <1>6, NatSetInduction
<1>8. size - i \in Nat /\ i + (size - i) = size
  BY <1>1, <1>3
<1>9. st[size] = x
  <2>1. size - i \in S
    BY <1>7, <1>8
  <2>. HIDE DEF x
  <2>. QED BY <1>1, <1>8, <2>1 DEF S
<1>10. [x EXCEPT !.over = FALSE] = Done(k + 1, 1)
  <2>. DEFINE a == k + 1
              b == 1
              o == TRUE
  <2>. HIDE DEF a, b, o
  <2>1. [[next |-> a, status |-> b, over |-> o, sig |-> FALSE] EXCEPT !.over = FALSE] =
          [next |-> a, status |-> b, over |-> FALSE, sig |-> FALSE]
    BY OverIs, Zenon
  <2>. QED BY <2>1 DEF a, b, o, Done
<1>. QED BY <1>2, <1>9, <1>10

\* exec_pipeline returns with 1, whatever its stages have been.
LEMMA StageFailsCarry ==
  ASSUME NEW ps \in Seq(GoodProcesses), ps # <<>>, Deeper(ps),
         NEW p, p = Top(ps), p.stack # <<>>, p.ret = None,
         Nodes[Top(p.stack).node].op = "pipe",
         NEW lg \in Seq(Entries), NEW e \in Entries, e.node = Top(p.stack).node, e.code = 1,
         NEW q \in GoodProcesses, Returned(p, q, 1)
  PROVE  Carry(ps, lg, q, Append(lg, e))
<1>. DEFINE k == Len(lg) + 1
            m == Len(p.stack)
            f == Top(p.stack)
            d == f.node
<1>1. p \in GoodProcesses /\ p = ps[Len(ps)]
  BY TopPop DEF Top
<1>2. f \in GoodFrames /\ d \in DOMAIN Nodes /\ f.i \in Nat \ {0}
  BY <1>1, ProcessesDef, TopPop, FramesDef
<1>21. f.i \in 1..Len(Nodes[d].kids)
  <2>1. f.i <= Len(Nodes[d].kids) /\ Len(Nodes[d].kids) \in Nat
    BY <1>2, NodesDef DEF GoodFrames
  <2>. QED BY <1>2, <2>1
<1>3. Len(Append(lg, e)) + 1 = k + 1
  OBVIOUS
<1>. SUFFICES ASSUME NEW L, NEW v, Continues(Replaced(ps, q), Append(lg, e), L), Solved(v, L)
              PROVE  Continues(ps, lg, L) /\ Carries(p, k, q, k + 1, L, v)
  BY <1>3 DEF Carry
<1>4. Extends(Append(lg, e), L)
  BY DEF Continues
<1>5. k \in 1..Len(L) /\ L[k] = e /\ L \in Seq(Entries)
  BY <1>4, ExtendsAppend DEF Extends
<1>6. Continues(ps, lg, L)
  <2>1. ps[Len(ps)].stack # <<>> /\ e.node = Top(ps[Len(ps)].stack).node
    BY <1>1
  <2>. QED BY <1>4, <2>1, RecordContinues
<1>. HIDE DEF k
<1>7. ASSUME NEW r \in Rows(L), Chain(p.stack, r, v), Inner(p, r, v, L, k)
      PROVE  r[m] = Done(k + 1, 1)
  <2>1. Now(v, L, f, k, r[m])
    BY <1>7 DEF Inner
  <2>2. PICK c \in {None} \cup 0..255 : PipeFrom(v, L, d, f.i - 1, Done(k, c), r[m])
    BY <2>1 DEF Now
  <2>3. L[k].node = d
    BY <1>5
  <2>. HIDE DEF d, f
  <2>. QED BY <1>2, <1>21, <1>5, <2>2, <2>3, PipeFailed
<1>8. Carries(p, k, q, k + 1, L, v)
  BY <1>1, <1>7, ReturnedCarries
<1>. QED BY <1>6, <1>8

-----------------------------------------------------------------------------
(* Children. *)

\* A stage is called, and the last one returns.
LEMMA PipeStage ==
  ASSUME NEW L, NEW v, NEW n \in DOMAIN Nodes, NEW i \in 1..Len(Nodes[n].kids),
         NEW k \in 1..Len(L), L[k].node # n, NEW c, NEW y,
         PipeFrom(v, L, n, i - 1, Done(k, c), y), NEW r, r = v[Nodes[n].kids[i]][k]
  PROVE  PipeFrom(v, L, n, i, Done(r.next, IF r.sig THEN 137 ELSE r.status), y)
<1>. DEFINE size == Len(Nodes[n].kids)
            w == Done(r.next, IF r.sig THEN 137 ELSE r.status)
<1>1. size \in Nat
  BY NodesDef
<1>2. PICK st : /\ st[i - 1] = Done(k, c)
                /\ \A j \in (i - 1 + 1)..size : st[j] = StageAs(v, L, n, j, st[j - 1])
                /\ y = [st[size] EXCEPT !.over = FALSE]
  BY DEF PipeFrom
<1>3. i \in Nat /\ i - 1 + 1 = i /\ i <= size
  BY <1>1
<1>4. st[i] = w
  <2>1. st[i] = StageAs(v, L, n, i, Done(k, c))
    BY <1>1, <1>2, <1>3
  <2>2. ~Done(k, c).over /\ Done(k, c).next = k
    BY DEF Done
  <2>3. StageAs(v, L, n, i, Done(k, c)) =
          [Missing EXCEPT !.next = r.next, !.status = IF r.sig THEN 137 ELSE r.status]
    BY <2>2 DEF StageAs
  <2>4. [Missing EXCEPT !.next = r.next, !.status = IF r.sig THEN 137 ELSE r.status] = w
    BY MissingStatus, Zenon DEF Done
  <2>. QED BY <2>1, <2>3, <2>4
<1>5. \A j \in (i + 1)..size : st[j] = StageAs(v, L, n, j, st[j - 1])
  BY <1>1, <1>2, <1>3
<1>. HIDE DEF w
<1>6. PipeFrom(v, L, n, i, w, y)
  BY <1>2, <1>4, <1>5 DEF PipeFrom
<1>. QED BY <1>6 DEF w

LEMMA PipeLast ==
  ASSUME NEW L, NEW v, NEW n, NEW i, i = Len(Nodes[n].kids), NEW k, NEW c, NEW y,
         PipeFrom(v, L, n, i, Done(k, c), y)
  PROVE  y = Done(k, c)
<1>1. PICK st : st[i] = Done(k, c) /\ y = [st[i] EXCEPT !.over = FALSE]
  BY DEF PipeFrom
<1>2. [Done(k, c) EXCEPT !.over = FALSE] = Done(k, c)
  <2>. DEFINE o == FALSE
  <2>. HIDE DEF o
  <2>1. [[next |-> k, status |-> c, over |-> o, sig |-> FALSE] EXCEPT !.over = FALSE] =
          [next |-> k, status |-> c, over |-> FALSE, sig |-> FALSE]
    BY OverIs, Zenon
  <2>. QED BY <2>1 DEF o, Done
<1>. QED BY <1>1, <1>2

-----------------------------------------------------------------------------
(* The kinds of steps, in Exec. *)

\* What the operators of Exec do, as these kinds of steps.
LEMMA GotoShifted ==
  ASSUME NEW p \in GoodProcesses, p.stack # <<>>, p.ret = None,
         NEW at \in Ats, at \notin {"left", "right"}
  PROVE  Shifted(p, Goto(p, at))
<1>. DEFINE g == Goto(p, at)
            f == Top(p.stack)
<1>1. /\ g.ret = p.ret /\ Len(g.stack) = Len(p.stack)
      /\ Top(g.stack).at = at /\ Top(g.stack).node = f.node
      /\ \A j \in 1..Len(p.stack) - 1 : g.stack[j] = p.stack[j]
  BY GotoHist
<1>2. Top(g.stack) = [f EXCEPT !.at = at]
  BY GotoGood
<1>3. f \in Frames
  BY ProcessesDef, TopPop, FramesDef
<1>. HIDE DEF g, f
<1>4. Top(g.stack).i = f.i
  BY <1>2, <1>3 DEF Frames
<1>. QED BY <1>1, <1>4 DEF Shifted, Stays, g, f

LEMMA NextStageIs ==
  ASSUME NEW p \in GoodProcesses, p.stack # <<>>
  PROVE  LET q == [Goto(p, "start") EXCEPT !.stack[Len(p.stack)].i = @ + 1]
         IN /\ Stays(p, q) /\ q.ret = p.ret /\ Len(q.stack) = Len(p.stack)
            /\ Top(q.stack).node = Top(p.stack).node /\ Top(q.stack).i = Top(p.stack).i + 1
<1>. DEFINE g == Goto(p, "start")
            m == Len(g.stack)
            f == Top(p.stack)
            h == [Top(g.stack) EXCEPT !.i = @ + 1]
            s == [g.stack EXCEPT ![m] = h]
            q == [g EXCEPT !.stack = s]
<1>1. "start" \in Ats
  BY DEF Ats
<1>2. /\ g \in GoodProcesses /\ g.ret = p.ret /\ m = Len(p.stack)
      /\ g.stack \in Seq(GoodFrames) /\ g.stack # <<>>
      /\ \A j \in 1..Len(p.stack) - 1 : g.stack[j] = p.stack[j]
  BY <1>1, GotoHist, GotoGood
<1>3. Top(g.stack) = [f EXCEPT !.at = "start"]
  BY <1>1, GotoGood
<1>4. f \in Frames
  BY ProcessesDef, TopPop, FramesDef
<1>5. [g EXCEPT !.stack[Len(p.stack)].i = @ + 1] = q
  BY <1>2 DEF Top
<1>6. q.stack = s /\ q.ret = g.ret
  <2>1. g \in Processes
    BY <1>2, ProcessesDef
  <2>. QED BY <2>1 DEF Processes
<1>. HIDE DEF g, f
<1>7. h.at = "start" /\ h.node = f.node /\ h.i = f.i + 1
  BY <1>3, <1>4 DEF Frames
<1>. HIDE DEF h
<1>8. /\ m \in Nat /\ m \in 1..m /\ Len(s) = m /\ s[m] = h
      /\ \A j \in 1..m : j # m => s[j] = g.stack[j]
  <2>1. m \in 1..m /\ m \in Nat
    BY <1>2, EmptySeq
  <2>. QED BY <1>2, <2>1
<1>. HIDE DEF s
<1>9. \A j \in 1..m - 1 : s[j] = p.stack[j]
  <2>1. \A j \in 1..m - 1 : j \in 1..m /\ j # m
    BY <1>8
  <2>. QED BY <1>2, <1>8, <2>1
<1>10. Top(s) = h
  BY <1>8 DEF Top
<1>. HIDE DEF m, q
<1>11. Stays(p, q) /\ q.ret = p.ret /\ Len(q.stack) = Len(p.stack)
       /\ Top(q.stack).node = f.node /\ Top(q.stack).i = f.i + 1
  BY <1>2, <1>6, <1>7, <1>8, <1>9, <1>10 DEF Stays, f
<1>. QED BY <1>5, <1>11 DEF g, f

LEMMA ReturnIs ==
  ASSUME NEW p \in GoodProcesses, p.stack # <<>>, NEW c \in 0..255
  PROVE  Returned(p, Return(p, c), c) /\ Returned(p, Complete(p, c), c)
<1>. DEFINE s == Pop(p.stack)
            q == WithCalls(p, s, c)
<1>1. Return(p, c) = q
  BY DEF Return, WithCalls
<1>2. q.stack = s /\ q.ret = c
  BY WithCallsHist
<1>3. q \in Processes
  BY <1>1, ReturnGood, ProcessesDef
<1>. HIDE DEF q
<1>4. Complete(p, c).stack = s /\ Complete(p, c).ret = c
  BY <1>1, <1>2, <1>3 DEF Complete, Processes
<1>5. c # None
  BY DEF None
<1>. QED BY <1>1, <1>2, <1>4, <1>5 DEF Returned

LEMMA CallIs ==
  ASSUME NEW p \in GoodProcesses, p.stack # <<>>, NEW at \in {"left", "right"},
         NEW n \in DOMAIN Nodes
  PROVE  HasCalled(p, Call(p, at, n), at, n)
<1>. DEFINE g == Goto(p, at)
            s == Append(g.stack, Frame(n))
            q == WithCalls(g, s, None)
            m == Len(p.stack)
<1>1. Call(p, at, n) = q /\ at \in Ats
  BY DEF Call, WithCalls, Ats
<1>2. /\ g \in GoodProcesses
      /\ g.stack \in Seq(GoodFrames) /\ Len(g.stack) = m
      /\ Top(g.stack).at = at /\ Top(g.stack).node = Top(p.stack).node
      /\ \A j \in 1..m - 1 : g.stack[j] = p.stack[j]
  BY <1>1, GotoHist, GotoGood
<1>3. q.stack = s /\ q.ret = None
  <2>. HIDE DEF g, s
  <2>. QED BY <1>2, WithCallsHist
<1>4. m \in Nat \ {0}
  BY ProcessesDef, EmptySeq
<1>5. Frame(n) \in GoodFrames
  BY FrameGood
<1>. HIDE DEF g
<1>6. /\ Len(s) = m + 1 /\ s[m + 1] = Frame(n) /\ \A j \in 1..m : s[j] = g.stack[j]
  BY <1>2, <1>5
<1>. HIDE DEF s, q
<1>7. m \in 1..m /\ \A j \in 1..m - 1 : j \in 1..m
  BY <1>4
<1>. HIDE DEF m
<1>8. s[m].at = at /\ s[m].node = Top(p.stack).node /\ \A j \in 1..m - 1 : s[j] = p.stack[j]
  BY <1>2, <1>6, <1>7 DEF Top
<1>. QED BY <1>1, <1>3, <1>6, <1>8 DEF HasCalled, m

LEMMA ForkIs ==
  ASSUME ExecInv, procs # <<>>, P.stack # <<>>, P.ret = None, NEW t, Open3(t),
         NEW n \in DOMAIN Nodes, NEW m, m = Len(procs), NEW new, new = Fork(P, t, n)
  PROVE  /\ new \in Seq(GoodProcesses) /\ Len(new) = m + 1 /\ Front(procs, new, m)
         /\ Shifted(P, new[m]) /\ new[m + 1].stack = <<Frame(n)>> /\ new[m + 1].ret = None
<1>. DEFINE child == [P EXCEPT !.stack = <<Frame(n)>>, !.ret = None, !.tab = t, !.base = t,
                               !.lost = FALSE]
            g == Goto(P, "wait")
            ps == Set(g)
<1>1. P \in GoodProcesses /\ procs \in Seq(GoodProcesses) /\ m \in Nat /\ m \in 1..m
  BY TopGood, EmptySeq DEF ExecInv, ProcsInv
<1>2. "wait" \in Ats /\ "wait" \notin {"left", "right"}
  BY DEF Ats
<1>3. Shifted(P, g) /\ g \in GoodProcesses
  BY <1>1, <1>2, GotoShifted, GotoGood
<1>4. child \in GoodProcesses
  BY <1>1, ChildGood
<1>5. child.stack = <<Frame(n)>> /\ child.ret = None
  <2>1. P \in Processes
    BY <1>1, ProcessesDef
  <2>. QED BY <2>1 DEF Processes
<1>6. new = Append(ps, child)
  BY DEF Fork
<1>. HIDE DEF child, g
<1>7. /\ ps \in Seq(GoodProcesses) /\ Len(ps) = m
      /\ \A k \in 1..m : ps[k] = IF k = m THEN g ELSE procs[k]
  BY <1>1, <1>3, ReplaceLast DEF Set
<1>. HIDE DEF ps
<1>8. /\ new \in Seq(GoodProcesses) /\ Len(new) = m + 1 /\ new[m + 1] = child
      /\ \A k \in 1..m : new[k] = ps[k]
  BY <1>1, <1>4, <1>6, <1>7
<1>9. new[m] = g
  BY <1>1, <1>7, <1>8
<1>10. Front(procs, new, m)
  <2>1. \A i \in 1..m - 1 : i \in 1..m /\ i # m
    BY <1>1
  <2>. QED BY <1>7, <1>8, <2>1 DEF Front
<1>. QED BY <1>3, <1>5, <1>8, <1>9, <1>10

-----------------------------------------------------------------------------
(* Forks and ends. *)

\* A call that has forked, and the call of its child.
ForksAt(f, n) ==
  \/ Nodes[f.node].op = "sub" /\ n = Nodes[f.node].kids[1]
  \/ Nodes[f.node].op = "pipe" /\ n = Nodes[f.node].kids[f.i]

\* What a call makes of the child it has forked.
LEMMA WaitsIs ==
  ASSUME NEW L \in Seq(Entries), NEW v, Solved(v, L), NEW f \in GoodFrames, NEW n, ForksAt(f, n),
         NEW k \in 1..Len(L), L[k].node # f.node, NEW y, Now(v, L, f, k, y),
         NEW g, g.node = f.node, g.i = f.i
  PROVE  Waits(v, L, g, v[n][k], y)
<1>. DEFINE d == f.node
<1>1. d \in DOMAIN Nodes /\ f.i \in Nat \ {0} /\ Len(L) \in Nat
  BY FramesDef
<1>2. CASE Nodes[d].op = "sub" /\ n = Nodes[d].kids[1]
  <2>1. y = v[d][k]
    BY <1>2 DEF Now
  <2>. HIDE DEF d
  <2>2. L[k].node # d /\ Nodes[d].op = "sub" /\ g.node = d
    BY <1>2 DEF d
  <2>3. Waits(v, L, g, v[Nodes[d].kids[1]][k], v[d][k])
    BY <1>1, <2>2, SubIs
  <2>. QED BY <1>2, <2>1, <2>3
<1>3. CASE Nodes[d].op = "pipe" /\ n = Nodes[d].kids[f.i]
  <2>1. PICK c \in {None} \cup 0..255 : PipeFrom(v, L, d, f.i - 1, Done(k, c), y)
    BY <1>3 DEF Now
  <2>2. f.i \in 1..Len(Nodes[d].kids)
    <3>1. f.i <= Len(Nodes[d].kids) /\ Len(Nodes[d].kids) \in Nat
      BY <1>1, <1>3, NodesDef DEF GoodFrames
    <3>. QED BY <1>1, <3>1
  <2>. DEFINE r == v[n][k]
  <2>3. r = v[Nodes[d].kids[f.i]][k] /\ L[k].node # d
    BY <1>3
  <2>4. g.node = d /\ g.i = f.i /\ Nodes[d].op = "pipe"
    BY <1>3
  <2>. HIDE DEF d, r
  <2>5. PipeFrom(v, L, d, f.i, Done(r.next, IF r.sig THEN 137 ELSE r.status), y)
    BY <1>1, <2>1, <2>2, <2>3, PipeStage
  <2>6. Waits(v, L, g, r, y)
    BY <2>4, <2>5 DEF Waits
  <2>. QED BY <2>6 DEF r
<1>. QED BY <1>2, <1>3 DEF ForksAt

\* A child is forked: the value is linked to that of its call.
LEMMA ForkMeans ==
  ASSUME ExecInv, procs # <<>>, P.stack # <<>>, P.ret = None, NEW t, Open3(t),
         NEW n \in DOMAIN Nodes, ForksAt(Top(P.stack), n), Means(procs, log, line)
  PROVE  Means(Fork(P, t, n), log, line)
<1>. DEFINE new == Fork(P, t, n)
            m == Len(procs)
            f == Top(P.stack)
            size == Len(P.stack)
            k == Len(log) + 1
<1>1. /\ new \in Seq(GoodProcesses) /\ Len(new) = m + 1 /\ Front(procs, new, m)
      /\ Shifted(P, new[m]) /\ new[m + 1].stack = <<Frame(n)>> /\ new[m + 1].ret = None
  <2>1. m = Len(procs) /\ new = Fork(P, t, n)
    OBVIOUS
  <2>. HIDE DEF m, new
  <2>. QED BY <2>1, ForkIs, SMTT(30)
<1>2. /\ procs \in Seq(GoodProcesses) /\ P \in GoodProcesses /\ m \in Nat \ {0} /\ m \in 1..m
      /\ P = procs[m] /\ log \in Seq(Entries)
  BY TopGood, EmptySeq DEF ExecInv, ProcsInv, Rest, P, Top
<1>3. size \in Nat \ {0} /\ P.stack \in Seq(GoodFrames) /\ f \in GoodFrames
  BY <1>2, ProcessesDef, EmptySeq, TopPop
<1>4. ~Idling(procs)
  BY <1>2 DEF Idling
<1>5. line \in DOMAIN Nodes
  BY <1>4 DEF Means
<1>. HIDE DEF new, m, f, size
<1>6. /\ Len(new[m].stack) = size /\ \A j \in 1..size - 1 : new[m].stack[j] = P.stack[j]
      /\ Top(new[m].stack).node = f.node /\ Top(new[m].stack).i = f.i
  BY <1>1 DEF Shifted, Stays, size, f
<1>7. ASSUME NEW L, NEW v, Continues(new, log, L), Solved(v, L)
      PROVE  \E y \in Tableaus(L) : Linked(new, Len(log) + 1, line, L, v, y)
  <2>1. Pending(new[Len(new)])
    BY <1>1 DEF Pending
  <2>2. Extends(log, L) /\ Len(log) < Len(L) /\ Foreign(new, L[Len(log) + 1])
    BY <1>7, <2>1 DEF Continues
  <2>3. L \in Seq(Entries) /\ k \in 1..Len(L)
    <3>1. L \in Seq(Entries)
      BY <2>2 DEF Extends
    <3>. QED BY <1>2, <2>2, <3>1
  <2>4. L[k].node # f.node
    <3>1. m \in 1..Len(new) /\ m # Len(new) /\ size \in 1..Len(new[m].stack)
      BY <1>1, <1>2, <1>3, <1>6
    <3>2. L[k].node # new[m].stack[size].node
      BY <2>2, <3>1 DEF Foreign
    <3>. QED BY <1>6, <3>2 DEF Top
  <2>5. Continues(procs, log, L)
    <3>1. Len(new) \in Nat /\ Len(new) >= m
      BY <1>1, <1>2
    <3>2. Len(procs[m].stack) = size /\ Len(new[m].stack) \in Nat
          /\ Len(new[m].stack) >= Len(procs[m].stack)
      BY <1>2, <1>3, <1>6 DEF size
    <3>3. \A j \in 1..Len(procs[m].stack) - 1 : new[m].stack[j].node = procs[m].stack[j].node
      BY <1>2, <1>6, <3>2
    <3>4. m = Len(procs)
      BY DEF m
    <3>. QED BY <1>1, <1>2, <1>7, <2>1, <3>1, <3>2, <3>3, <3>4, CallContinues
  <2>6. PICK y \in Tableaus(L) : Linked(procs, k, line, L, v, y)
    BY <1>4, <1>7, <2>5 DEF Means
  <2>. HIDE DEF k
  <2>7. Chain(P.stack, y[m], v) /\ Inner(P, y[m], v, L, k)
    BY <1>2, <2>6 DEF Linked, m
  <2>8. Chain(new[m].stack, y[m], v)
    BY <1>1, <1>2, <2>7, StaysIs DEF Shifted
  <2>9. Now(v, L, f, k, y[m][size])
    BY <2>7 DEF Inner, f, size
  <2>. DEFINE g == Top(new[m].stack)
              z == [j \in Nat |-> v[n][k]]
  <2>10. Waits(v, L, g, v[n][k], y[m][size])
    <3>1. g.node = f.node /\ g.i = f.i
      BY <1>6
    <3>2. ForksAt(f, n)
      BY DEF f
    <3>. HIDE DEF g
    <3>. QED BY <1>3, <1>7, <2>3, <2>4, <2>9, <3>1, <3>2, WaitsIs
  <2>11. v[n][k] \in Results(L)
    <3>1. k \in 0..(Len(L) + 1)
      BY <2>3
    <3>. QED BY <1>7, <3>1 DEF Solved, Values
  <2>12. z \in Rows(L) /\ z[1] = v[n][k]
    BY <2>11 DEF Rows
  <2>. HIDE DEF z
  <2>13. Len(new[m + 1].stack) = 1 /\ Top(new[m + 1].stack) = Frame(n)
    BY <1>1 DEF Top
  <2>14. Chain(new[m + 1].stack, z, v)
    <3>1. new[m + 1].stack[1].at = "start"
      BY <1>1 DEF Frame
    <3>2. \A j \in 1..Len(new[m + 1].stack) : j = 1
      BY <2>13
    <3>. QED BY <3>1, <3>2 DEF Chain
  <2>15. Inner(new[m + 1], z, v, L, k)
    <3>1. Len(L) \in Nat
      BY <2>3
    <3>2. Now(v, L, Frame(n), k, v[n][k])
      BY <1>7, <2>3, <3>1, NowFirst
    <3>. QED BY <1>1, <2>12, <2>13, <3>2 DEF Inner
  <2>16. Waits(v, L, Top(new[m].stack), z[1], y[m][Len(new[m].stack)])
    BY <1>6, <2>10, <2>12
  <2>17. \E x \in Tableaus(L) : Linked(new, k, line, L, v, x)
    <3>1. m = Len(procs)
      BY DEF m
    <3>. QED BY <1>1, <1>2, <2>6, <2>8, <2>12, <2>14, <2>15, <2>16, <3>1, ForkLinked
  <2>. QED BY <2>17 DEF k
<1>. QED BY <1>5, <1>7 DEF Means, new

\* What a process that has ended leaves to the one that waits for it.
GoesOn(p, q, c, sig) ==
  LET f == Top(p.stack)
  IN \/ Nodes[f.node].op = "sub" /\ Returned(p, q, SubshellStatus(c, sig))
     \/ /\ Nodes[f.node].op # "sub" /\ f.i = Len(Nodes[f.node].kids)
        /\ Returned(p, q, IF sig THEN 137 ELSE c)
     \/ /\ Nodes[f.node].op # "sub" /\ f.i # Len(Nodes[f.node].kids)
        /\ Stays(p, q) /\ q.ret = None /\ Top(q.stack).i = f.i + 1

EndedAs(ps, new, m, c, sig) ==
  /\ ps \in Seq(GoodProcesses) /\ new \in Seq(GoodProcesses)
  /\ m \in Nat \ {0} /\ m \in 1..Len(ps) /\ m \in 1..Len(ps) - 1 /\ m + 1 = Len(ps)
  /\ Len(new) = m /\ Front(ps, new, m)
  /\ ps[m] \in GoodProcesses /\ new[m] \in GoodProcesses
  /\ ps[m].stack # <<>> /\ ps[m].ret = None
  /\ GoesOn(ps[m], new[m], c, sig)

\* What Ended does to the parent.
LEMMA EndedIs ==
  ASSUME ExecInv, HistInv(procs), procs # <<>>, Len(procs) # 1,
         NEW c \in 0..255, NEW sig \in BOOLEAN
  PROVE  EndedAs(procs, Ended(procs, c, sig), Len(procs) - 1, c, sig)
<1>. DEFINE m == Len(procs) - 1
            new == Ended(procs, c, sig)
<1>1. procs \in Seq(GoodProcesses) /\ Len(procs) \in Nat \ {0}
  BY EmptySeq DEF ExecInv, ProcsInv
<1>. DEFINE rest == Pop(procs)
            p == Top(rest)
            f == Top(p.stack)
            n == Nodes[f.node]
            sub == Complete(p, SubshellStatus(c, sig))
            done == Complete(p, IF sig THEN 137 ELSE c)
            next == [Goto(p, "start") EXCEPT !.stack[Len(p.stack)].i = @ + 1]
            q == IF n.op = "sub" THEN sub ELSE IF f.i = Len(n.kids) THEN done ELSE next
<1>2. rest \in Seq(GoodProcesses) /\ Len(rest) = m /\ \A i \in 1..m : rest[i] = procs[i]
  BY <1>1, TopPop DEF m
<1>3. new = [rest EXCEPT ![m] = q]
  BY <1>2 DEF Ended, new, m
<1>4. HistInv(rest) /\ (rest # <<>> => AtTop(Top(rest), {"wait"}))
  BY <1>1, PopHist
<1>41. new \in Seq(GoodProcesses)
  BY EndedInv DEF ExecInv, ProcsInv, new
<1>. HIDE DEF rest, m, new
<1>5. rest # <<>> /\ m \in 1..m /\ m \in Nat \ {0} /\ m \in 1..Len(procs) - 1
      /\ m \in 1..Len(procs) /\ m + 1 = Len(procs)
  BY <1>1, <1>2, EmptySeq DEF m
<1>6. p \in GoodProcesses /\ p = rest[m] /\ p = procs[m]
  BY <1>2, <1>5, TopPop DEF Top
<1>7. Told(p) /\ AtTop(p, {"wait"})
  BY <1>2, <1>4, <1>5, <1>6 DEF HistInv
<1>. HIDE DEF p
<1>8. p.stack # <<>> /\ p.ret = None
  BY <1>7 DEF Told, AtTop, Own
<1>14. SubshellStatus(c, sig) \in 0..255 /\ (IF sig THEN 137 ELSE c) \in 0..255
  BY DEF SubshellStatus
<1>15. GoesOn(p, q, c, sig)
  <2>1. CASE n.op = "sub"
    <3>. DEFINE d == SubshellStatus(c, sig)
    <3>1. d \in 0..255
      BY <1>14
    <3>. HIDE DEF d
    <3>2. Returned(p, Complete(p, d), d)
      BY <1>6, <1>8, <3>1, ReturnIs
    <3>. QED BY <2>1, <3>2 DEF d, GoesOn
  <2>2. CASE n.op # "sub" /\ f.i = Len(n.kids)
    <3>. DEFINE b == IF sig THEN 137 ELSE c
    <3>1. b \in 0..255
      BY <1>14
    <3>2. q = Complete(p, b)
      BY <2>2
    <3>. HIDE DEF b, q
    <3>3. Returned(p, Complete(p, b), b)
      BY <1>6, <1>8, <3>1, ReturnIs
    <3>. QED BY <2>2, <3>2, <3>3 DEF b, GoesOn
  <2>3. CASE n.op # "sub" /\ f.i # Len(n.kids)
    <3>1. q = next
      BY <2>3
    <3>2. Stays(p, next) /\ next.ret = p.ret /\ Top(next.stack).i = f.i + 1
      BY <1>6, <1>8, NextStageIs
    <3>. HIDE DEF next, q
    <3>. QED BY <1>8, <2>3, <3>1, <3>2 DEF GoesOn
  <2>. QED BY <2>1, <2>2, <2>3
<1>. HIDE DEF q
<1>16. Len(new) = m /\ new[m] = q /\ Front(procs, new, m)
  <2>1. \A i \in 1..m - 1 : i \in 1..m /\ i # m
    BY <1>5
  <2>. QED BY <1>2, <1>3, <1>5, <2>1 DEF Front
<1>17. new[m] \in GoodProcesses
  BY <1>5, <1>16, <1>41
<1>. QED BY <1>1, <1>41, <1>5, <1>6, <1>8, <1>15, <1>16, <1>17 DEF EndedAs, m, new

\* A child ends: its parent goes on with the value the child has had.
LEMMA EndedLinked ==
  ASSUME ExecInv, HistInv(procs), procs # <<>>, Len(procs) # 1,
         NEW c \in 0..255, NEW sig \in BOOLEAN,
         NEW L, NEW v, NEW k, NEW ln, NEW y \in Tableaus(L), Linked(procs, k, ln, L, v, y),
         NEW k2, NEW o, y[Len(procs)][1] = [next |-> k2, status |-> c, over |-> o, sig |-> sig]
  PROVE  \E x \in Tableaus(L) : Linked(Ended(procs, c, sig), k2, ln, L, v, x)
<1>. DEFINE new == Ended(procs, c, sig)
            m == Len(procs) - 1
            p == procs[m]
            q == new[m]
            f == Top(p.stack)
            n == Nodes[f.node]
            w == y[m][Len(p.stack)]
            d == SubshellStatus(c, sig)
            b == IF sig THEN 137 ELSE c
<1>1. /\ procs \in Seq(GoodProcesses) /\ m \in Nat \ {0}
      /\ m \in 1..Len(procs) /\ m \in 1..Len(procs) - 1
      /\ Len(new) = m /\ Front(procs, new, m)
      /\ p \in GoodProcesses /\ p.stack # <<>> /\ p.ret = None
      /\ GoesOn(p, q, c, sig)
  BY EndedIs DEF EndedAs
<1>2. m + 1 = Len(procs)
  BY <1>1
<1>. HIDE DEF m, new
<1>3. Chain(p.stack, y[m], v) /\ Waits(v, L, f, y[m + 1][1], w)
  BY <1>1, <1>2 DEF Linked, m
<1>4. y[m + 1][1] = [next |-> k2, status |-> c, over |-> o, sig |-> sig]
  BY <1>2
<1>. HIDE DEF p, q
<1>5. /\ n.op = "sub" => w = Done(k2, d)
      /\ n.op # "sub" => n.op = "pipe" /\ PipeFrom(v, L, f.node, f.i, Done(k2, b), w)
  BY <1>3, <1>4 DEF Waits, SubshellStatus
<1>6. f.i \in Nat \ {0} /\ b \in 0..255
  BY <1>1, ProcessesDef, TopPop, FramesDef
<1>. HIDE DEF d, b, w
<1>7. Chain(q.stack, y[m], v) /\ Inner(q, y[m], v, L, k2)
  <2>1. CASE n.op = "sub" /\ Returned(p, q, d)
    <3>1. y[m][Len(p.stack)] = Done(k2, d)
      BY <1>5, <2>1 DEF w
    <3>. QED BY <1>1, <1>3, <2>1, <3>1, ReturnedIs
  <2>2. CASE n.op # "sub" /\ f.i = Len(n.kids) /\ Returned(p, q, b)
    <3>1. w = Done(k2, b)
      BY <1>5, <2>2, PipeLast
    <3>2. y[m][Len(p.stack)] = Done(k2, b)
      BY <3>1 DEF w
    <3>. QED BY <1>1, <1>3, <2>2, <3>2, ReturnedIs
  <2>3. CASE n.op # "sub" /\ Stays(p, q) /\ q.ret = None /\ Top(q.stack).i = f.i + 1
    <3>1. Chain(q.stack, y[m], v)
      BY <1>1, <1>3, <2>3, StaysIs
    <3>2. Top(q.stack).node = f.node /\ Len(q.stack) = Len(p.stack)
      BY <2>3 DEF Stays
    <3>3. Now(v, L, Top(q.stack), k2, w)
      <4>1. Top(q.stack).i - 1 = f.i
        BY <1>6, <2>3
      <4>2. b \in {None} \cup 0..255
        BY <1>6
      <4>. QED BY <1>5, <2>3, <3>2, <4>1, <4>2 DEF Now
    <3>. QED BY <2>3, <3>1, <3>2, <3>3 DEF Inner, w
  <2>. QED BY <1>1, <2>1, <2>2, <2>3 DEF GoesOn, d, b
<1>8. y[m] \in Rows(L)
  BY <1>1 DEF Tableaus
<1>9. Chain(new[m].stack, y[m], v) /\ Inner(new[m], y[m], v, L, k2)
  BY <1>7 DEF q
<1>. QED BY <1>1, <1>8, <1>9, SetLinked DEF new

-----------------------------------------------------------------------------
(* The invariant. *)

MeaningOf(lg, ln) == (CHOOSE v : v = ValuesBody(v, lg))[ln][1]
Ends(k, c) == [next |-> k, status |-> c, over |-> TRUE, sig |-> FALSE]
EndTold ==
  end # None => procs = <<>> /\ MeaningOf(log, line) = Ends(Len(log) + 1, end)
MeansInv == Deeper(procs) /\ Means(procs, log, line) /\ EndTold

\* MeaningOf is the value in what solves the equations.
LEMMA SolvedOf ==
  ASSUME NEW L \in Seq(Entries)
  PROVE  \E v : Solved(v, L) /\ \A ln : MeaningOf(L, ln) = v[ln][1]
<1>. DEFINE v == CHOOSE w : w = ValuesBody(w, L)
<1>1. v = ValuesBody(v, L)
  BY ValuesExist
<1>2. \A ln : MeaningOf(L, ln) = v[ln][1]
  BY DEF MeaningOf
<1>. HIDE DEF v
<1>3. Solved(v, L)
  BY <1>1, BodySolved
<1>. QED BY <1>2, <1>3

\* When there is no process any more.
LEMMA EmptyDeeper == Deeper(<<>>) /\ Idling(<<>>)
<1>1. Len(<<>>) = 0
  BY EmptySeq
<1>. QED BY <1>1 DEF Deeper, Idling

\* The calls after a step are among those before, with at most one more.
LEMMA StaysProlongs ==
  ASSUME NEW p \in GoodProcesses, NEW q \in GoodProcesses, Stays(p, q)
  PROVE  Prolongs(p.stack, q.stack)
<1>1. Len(p.stack) \in Nat /\ Len(q.stack) = Len(p.stack)
  BY ProcessesDef DEF Stays
<1>2. ASSUME NEW j \in 1..Len(q.stack)
      PROVE  j <= Len(p.stack) /\ q.stack[j].node = p.stack[j].node
  <2>1. CASE j = Len(p.stack)
    BY <1>1, <2>1 DEF Stays, Top
  <2>2. CASE j # Len(p.stack)
    <3>1. j \in 1..Len(p.stack) - 1 /\ j <= Len(p.stack)
      BY <1>1, <2>2
    <3>. QED BY <3>1 DEF Stays
  <2>. QED BY <1>1, <2>1, <2>2
<1>. QED BY <1>1, <1>2 DEF Prolongs

LEMMA ReturnedProlongs ==
  ASSUME NEW p \in GoodProcesses, NEW q \in GoodProcesses, NEW c, Returned(p, q, c)
  PROVE  Prolongs(p.stack, q.stack)
<1>1. Len(p.stack) \in Nat \ {0} /\ p.stack \in Seq(GoodFrames)
  BY ProcessesDef, EmptySeq DEF Returned
<1>2. Len(q.stack) = Len(p.stack) - 1 /\ \A j \in 1..Len(q.stack) : q.stack[j] = p.stack[j]
  BY <1>1, TopPop DEF Returned
<1>3. Len(q.stack) <= Len(p.stack) + 1 /\ \A j \in 1..Len(q.stack) : j <= Len(p.stack)
  BY <1>1, <1>2
<1>. QED BY <1>2, <1>3 DEF Prolongs

LEMMA CalledProlongs ==
  ASSUME NEW p \in GoodProcesses, NEW q \in GoodProcesses, NEW at, NEW n, HasCalled(p, q, at, n),
         Top(p.stack).node < n
  PROVE  Prolongs(p.stack, q.stack)
<1>1. Len(p.stack) \in Nat \ {0} /\ Len(q.stack) = Len(p.stack) + 1
  BY ProcessesDef, EmptySeq DEF HasCalled
<1>2. ASSUME NEW j \in 1..Len(q.stack)
      PROVE  IF j <= Len(p.stack) THEN q.stack[j].node = p.stack[j].node
             ELSE p.stack # <<>> /\ Top(p.stack).node < q.stack[j].node
  <2>1. CASE j = Len(p.stack)
    BY <1>1, <2>1 DEF HasCalled, Top
  <2>2. CASE j = Len(p.stack) + 1
    <3>1. q.stack[j].node = n /\ ~(j <= Len(p.stack))
      BY <1>1, <2>2 DEF HasCalled, Frame
    <3>. QED BY <3>1 DEF HasCalled
  <2>3. CASE j # Len(p.stack) /\ j # Len(p.stack) + 1
    <3>1. j \in 1..Len(p.stack) - 1 /\ j <= Len(p.stack)
      BY <1>1, <2>3
    <3>. QED BY <3>1 DEF HasCalled
  <2>. QED BY <2>1, <2>2, <2>3
<1>. QED BY <1>1, <1>2 DEF Prolongs

-----------------------------------------------------------------------------
(* The steps. *)

\* The innermost process, and what is so as long as there is one.
LEMMA ProcsAre ==
  ASSUME ExecInv, procs # <<>>
  PROVE  /\ procs \in Seq(GoodProcesses) /\ P \in GoodProcesses /\ P = Top(procs)
         /\ log \in Seq(Entries) /\ Len(procs) \in Nat \ {0} /\ P = procs[Len(procs)]
         /\ Len(procs) \in 1..Len(procs)
         /\ P.stack # <<>> => ~Idling(procs) /\ Top(P.stack).node \in DOMAIN Nodes
                              /\ Top(P.stack) \in GoodFrames
         /\ P.ret # None => ~Idling(procs)
<1>1. /\ procs \in Seq(GoodProcesses) /\ P \in GoodProcesses /\ P = Top(procs)
      /\ log \in Seq(Entries) /\ Len(procs) \in Nat \ {0} /\ P = procs[Len(procs)]
      /\ Len(procs) \in 1..Len(procs)
  BY TopGood, EmptySeq DEF ExecInv, ProcsInv, Rest, P, Top
<1>2. P.stack # <<>> => Top(P.stack).node \in DOMAIN Nodes /\ Top(P.stack) \in GoodFrames
  BY <1>1, ProcessesDef, TopPop, FramesDef
<1>3. P.stack # <<>> \/ P.ret # None => ~Idling(procs)
  BY <1>1 DEF Idling
<1>. QED BY <1>1, <1>2, <1>3

\* A step of the innermost process that carries its values on.
LEMMA SetStep ==
  ASSUME ExecInv, MeansInv, procs # <<>>, P.stack # <<>>,
         NEW q \in GoodProcesses, procs' = Set(q), line' = line, end' = end,
         Carry(procs, log, q, log'), Prolongs(P.stack, q.stack)
  PROVE  MeansInv'
<1>1. /\ procs \in Seq(GoodProcesses) /\ P = procs[Len(procs)] /\ ~Idling(procs)
      /\ Len(procs) \in 1..Len(procs) /\ Len(procs) \in Nat
  BY ProcsAre
<1>2. procs' = Replaced(procs, q)
  BY DEF Set, Replaced
<1>3. Means(procs', log', line')
  <2>1. Means(procs, log, line)
    BY DEF MeansInv
  <2>2. Means(Replaced(procs, q), log', line)
    BY <1>1, <2>1, SetMeans
  <2>. QED BY <1>2, <2>2
<1>4. Deeper(procs')
  <2>. DEFINE n == Len(procs)
              new == Replaced(procs, q)
  <2>1. /\ new \in Seq(GoodProcesses) /\ Len(new) = n
        /\ \A k \in 1..n : new[k] = IF k = n THEN q ELSE procs[k]
    BY ReplaceLast, <1>1 DEF Replaced
  <2>2. Deeper(procs)
    BY DEF MeansInv
  <2>. HIDE DEF new
  <2>3. Front(procs, new, n)
    <3>1. \A i \in 1..n - 1 : i \in 1..n /\ i # n
      BY <1>1
    <3>. QED BY <2>1, <3>1 DEF Front
  <2>4. Prolongs(procs[n].stack, new[n].stack)
    BY <1>1, <2>1
  <2>5. Deeper(new)
    BY <1>1, <2>1, <2>2, <2>3, <2>4, DeeperSet
  <2>. QED BY <1>2, <2>5 DEF new
<1>5. EndTold'
  <2>1. end = None
    BY DEF MeansInv, EndTold
  <2>. QED BY <2>1 DEF EndTold
<1>. QED BY <1>3, <1>4, <1>5 DEF MeansInv

\* The innermost call goes on by itself.
LEMMA ShiftStep ==
  ASSUME ExecInv, MeansInv, procs # <<>>, NEW q \in GoodProcesses, Shifted(P, q),
         procs' = Set(q), UNCHANGED <<line, end, log>>
  PROVE  MeansInv'
<1>1. P \in GoodProcesses /\ P = Top(procs) /\ procs \in Seq(GoodProcesses)
  BY ProcsAre
<1>2. Carry(procs, log, q, log')
  <2>1. Carry(procs, log, q, log)
    BY <1>1, ShiftCarry
  <2>. QED BY <2>1
<1>3. Prolongs(P.stack, q.stack)
  BY <1>1, StaysProlongs DEF Shifted
<1>4. P.stack # <<>>
  BY DEF Shifted, Stays
<1>. QED BY <1>2, <1>3, <1>4, SetStep

\* A list returns what one of its sides has returned.
LEMMA ReturnStep ==
  ASSUME ExecInv, MeansInv, procs # <<>>, P.stack # <<>>, P.ret # None,
         Leaves(Top(P.stack), P.ret), NEW q \in GoodProcesses, Returned(P, q, P.ret),
         procs' = Set(q), UNCHANGED <<line, end, log>>
  PROVE  MeansInv'
<1>1. P \in GoodProcesses /\ P = Top(procs) /\ procs \in Seq(GoodProcesses)
  BY ProcsAre
<1>2. Carry(procs, log, q, log')
  <2>1. Carry(procs, log, q, log)
    BY <1>1, ReturnCarry
  <2>. QED BY <2>1
<1>3. Prolongs(P.stack, q.stack)
  BY <1>1, ReturnedProlongs
<1>. QED BY <1>2, <1>3, SetStep

\* A list calls one of its sides.
LEMMA LeftStep ==
  ASSUME ExecInv, MeansInv, procs # <<>>, P.stack # <<>>, P.ret = None,
         Nodes[Top(P.stack).node].op \in {"seq", "and", "or"},
         NEW n \in DOMAIN Nodes, n = Nodes[Top(P.stack).node].kids[1],
         NEW q \in GoodProcesses, HasCalled(P, q, "left", n),
         procs' = Set(q), UNCHANGED <<line, end, log>>
  PROVE  MeansInv'
<1>1. P \in GoodProcesses /\ P = Top(procs) /\ procs \in Seq(GoodProcesses)
      /\ log \in Seq(Entries) /\ Top(P.stack).node \in DOMAIN Nodes
  BY ProcsAre
<1>2. Carry(procs, log, q, log')
  <2>1. Carry(procs, log, q, log)
    BY <1>1, LeftCarry
  <2>. QED BY <2>1
<1>3. Top(P.stack).node < n
  <2>. DEFINE d == Top(P.stack).node
  <2>. HIDE DEF d
  <2>1. d \in DOMAIN Nodes /\ n = Nodes[d].kids[1] /\ Nodes[d].op # "cmd"
    BY <1>1 DEF d
  <2>2. n > d /\ d \in Nat /\ n \in Nat
    BY <2>1, KidsAre, NodesAssumption
  <2>3. d < n
    BY <2>2
  <2>. QED BY <2>3 DEF d
<1>4. Prolongs(P.stack, q.stack)
  BY <1>1, <1>3, CalledProlongs
<1>. QED BY <1>2, <1>4, SetStep

LEMMA RightStep ==
  ASSUME ExecInv, MeansInv, procs # <<>>, P.stack # <<>>, P.ret # None,
         Goes(Top(P.stack), P.ret), Nodes[Top(P.stack).node].op \in {"seq", "and", "or"},
         NEW n \in DOMAIN Nodes, n = Nodes[Top(P.stack).node].kids[2],
         NEW q \in GoodProcesses, HasCalled(P, q, "right", n),
         procs' = Set(q), UNCHANGED <<line, end, log>>
  PROVE  MeansInv'
<1>1. P \in GoodProcesses /\ P = Top(procs) /\ procs \in Seq(GoodProcesses)
      /\ log \in Seq(Entries) /\ Top(P.stack).node \in DOMAIN Nodes
  BY ProcsAre
<1>2. Carry(procs, log, q, log')
  <2>1. Carry(procs, log, q, log)
    BY <1>1, RightCarry
  <2>. QED BY <2>1
<1>3. Top(P.stack).node < n
  <2>. DEFINE d == Top(P.stack).node
              f == Top(P.stack)
  <2>1. Nodes[d].op = "seq" => Len(Nodes[d].kids) # 1
    BY DEF Goes
  <2>. HIDE DEF d
  <2>2. d \in DOMAIN Nodes /\ n = Nodes[d].kids[2] /\ Nodes[d].op \in {"seq", "and", "or"}
    BY <1>1 DEF d
  <2>3. 2 \in 1..Len(Nodes[d].kids)
    BY <2>1, <2>2, KidsAre
  <2>4. n > d /\ d \in Nat /\ n \in Nat
    BY <2>2, <2>3, NodesAssumption
  <2>5. d < n
    BY <2>4
  <2>. QED BY <2>5 DEF d
<1>4. Prolongs(P.stack, q.stack)
  BY <1>1, <1>3, CalledProlongs
<1>. QED BY <1>2, <1>4, SetStep

\* An outcome, and the call that has it returns.
LEMMA FinishStep ==
  ASSUME ExecInv, MeansInv, procs # <<>>, P.stack # <<>>, P.ret = None, NEW c \in 0..255,
         Nodes[Top(P.stack).node].op # "pipe" \/ c = 1,
         NEW p \in GoodProcesses, p.stack = P.stack, Finish(p, c), line' = line
  PROVE  MeansInv'
<1>. DEFINE q == Complete(p, c)
            e == [node |-> F.node, code |-> c, ends |-> FALSE, sig |-> FALSE]
<1>1. P \in GoodProcesses /\ P = Top(procs) /\ procs \in Seq(GoodProcesses)
      /\ log \in Seq(Entries) /\ Top(P.stack).node \in DOMAIN Nodes
  BY ProcsAre
<1>2. procs' = Set(q) /\ log' = Append(log, e) /\ end' = end
  BY DEF Finish, Record
<1>3. q \in GoodProcesses
  BY ReturnGood
<1>4. Returned(P, q, c)
  <2>1. Returned(p, q, c)
    BY ReturnIs
  <2>. HIDE DEF q
  <2>. QED BY <2>1 DEF Returned
<1>5. e \in Entries /\ e.node = Top(P.stack).node /\ ~e.ends /\ ~e.sig /\ e.code = c
  BY <1>1 DEF Entries, F
<1>. HIDE DEF q, e
<1>6. Carry(procs, log, q, Append(log, e))
  <2>1. Deeper(procs)
    BY DEF MeansInv
  <2>2. CASE Nodes[Top(P.stack).node].op # "pipe"
    <3>1. Returned(P, q, e.code)
      BY <1>4, <1>5
    <3>. QED BY <1>1, <1>3, <1>5, <2>1, <2>2, <3>1, FinishCarry
  <2>3. CASE Nodes[Top(P.stack).node].op = "pipe"
    <3>1. Returned(P, q, 1) /\ e.code = 1
      BY <1>4, <1>5, <2>3
    <3>. QED BY <1>1, <1>3, <1>5, <2>1, <2>3, <3>1, StageFailsCarry
  <2>. QED BY <2>2, <2>3
<1>7. Carry(procs, log, q, log')
  BY <1>2, <1>6
<1>8. Prolongs(P.stack, q.stack)
  BY <1>1, <1>3, <1>4, ReturnedProlongs
<1>. QED BY <1>2, <1>3, <1>7, <1>8, SetStep

\* A child is forked.
LEMMA ForkStep ==
  ASSUME ExecInv, MeansInv, procs # <<>>, P.stack # <<>>, P.ret = None, NEW t, Open3(t),
         NEW n \in DOMAIN Nodes, ForksAt(Top(P.stack), n),
         procs' = Fork(P, t, n), UNCHANGED <<line, end, log>>
  PROVE  MeansInv'
<1>. DEFINE new == Fork(P, t, n)
            m == Len(procs)
            d == Top(P.stack).node
            f == Top(P.stack)
            size == Len(P.stack)
<1>1. /\ new \in Seq(GoodProcesses) /\ Len(new) = m + 1 /\ Front(procs, new, m)
      /\ Shifted(P, new[m]) /\ new[m + 1].stack = <<Frame(n)>>
  <2>1. m = Len(procs) /\ new = Fork(P, t, n)
    OBVIOUS
  <2>. HIDE DEF m, new
  <2>. QED BY <2>1, ForkIs, SMTT(30)
<1>2. /\ P \in GoodProcesses /\ P = procs[m] /\ procs \in Seq(GoodProcesses)
      /\ f \in GoodFrames /\ d \in DOMAIN Nodes
  BY ProcsAre
<1>. HIDE DEF new
<1>3. Means(new, log, line)
  BY ForkMeans DEF MeansInv, new
<1>4. d < n
  <2>1. f.i \in Nat \ {0} /\ Len(Nodes[d].kids) \in Nat
    BY <1>2, FramesDef, NodesDef
  <2>2. \E j \in 1..Len(Nodes[d].kids) : n = Nodes[d].kids[j]
    <3>1. CASE Nodes[d].op = "sub" /\ n = Nodes[d].kids[1]
      <4>. HIDE DEF d
      <4>1. 1 \in 1..Len(Nodes[d].kids)
        BY <1>2, <3>1, KidsAre
      <4>. QED BY <3>1, <4>1
    <3>2. CASE Nodes[d].op = "pipe" /\ n = Nodes[d].kids[f.i]
      <4>1. f.i <= Len(Nodes[d].kids)
        BY <1>2, <3>2 DEF GoodFrames
      <4>2. f.i \in 1..Len(Nodes[d].kids)
        BY <2>1, <4>1
      <4>. QED BY <3>2, <4>2
    <3>. QED BY <3>1, <3>2 DEF ForksAt
  <2>. HIDE DEF d
  <2>3. n > d /\ d \in Nat /\ n \in Nat
    BY <1>2, <2>2, NodesAssumption
  <2>. QED BY <2>3
<1>5. Deeper(new)
  <2>1. Len(procs[m].stack) \in Nat /\ Len(new[m].stack) = Len(procs[m].stack)
        /\ procs[m].stack # <<>>
    BY <1>1, <1>2, ProcessesDef DEF Shifted, Stays
  <2>2. ASSUME NEW j \in 1..Len(procs[m].stack)
        PROVE  new[m].stack[j].node = procs[m].stack[j].node
    <3>1. CASE j = Len(procs[m].stack)
      BY <1>1, <1>2, <2>1, <3>1 DEF Shifted, Stays, Top
    <3>2. CASE j # Len(procs[m].stack)
      <4>1. j \in 1..Len(P.stack) - 1
        BY <1>2, <2>1, <3>2
      <4>. QED BY <1>1, <1>2, <4>1 DEF Shifted, Stays
    <3>. QED BY <3>1, <3>2
  <2>3. Top(procs[m].stack).node < n /\ m = Len(procs) /\ Deeper(procs)
    BY <1>2, <1>4 DEF MeansInv
  <2>. HIDE DEF m
  <2>. QED BY <1>1, <1>2, <2>1, <2>2, <2>3, DeeperFork
<1>6. end = None
  BY DEF MeansInv, EndTold
<1>7. procs' = new /\ line' = line /\ end' = end /\ log' = log
  BY DEF new
<1>8. Deeper(procs') /\ Means(procs', log', line')
  BY <1>3, <1>5, <1>7
<1>9. EndTold'
  BY <1>6, <1>7 DEF EndTold
<1>. QED BY <1>8, <1>9 DEF MeansInv

\* A command that ends its process gives every call of it its status.
LEMMA OverUp ==
  ASSUME NEW p \in GoodProcesses, p.stack # <<>>, Called(p.stack), NEW r, NEW v,
         Chain(p.stack, r, v), r[Len(p.stack)].over
  PROVE  r[1] = r[Len(p.stack)]
<1>. DEFINE m == Len(p.stack)
            S == {l \in Nat : l < m => r[m - l] = r[m]}
<1>1. m \in Nat \ {0}
  BY ProcessesDef, EmptySeq
<1>2. 0 \in S
  BY <1>1
<1>3. ASSUME NEW l \in Nat, l \in S PROVE l + 1 \in S
  <2>. SUFFICES ASSUME l + 1 < m PROVE r[m - (l + 1)] = r[m]
    OBVIOUS
  <2>. DEFINE j == m - (l + 1)
  <2>1. j \in 1..m /\ j \in 1..m - 1 /\ j + 1 = m - l /\ l < m
    BY <1>1
  <2>2. r[j + 1] = r[m]
    BY <1>3, <2>1
  <2>. HIDE DEF j
  <2>3. p.stack[j].at \in {"left", "right"}
    BY <2>1 DEF Called
  <2>4. r[j] = AfterSide(v, p.stack[j], r[j + 1])
    BY <2>1, <2>3 DEF Chain
  <2>5. r[j] = r[m]
    BY <2>2, <2>4 DEF AfterSide
  <2>. QED BY <2>5 DEF j
<1>. HIDE DEF S
<1>4. \A l \in Nat : l \in S
  BY <1>2, <1>3, NatSetInduction
<1>5. m - 1 \in Nat /\ m - 1 < m /\ m - (m - 1) = 1
  BY <1>1
<1>6. m - 1 \in S
  BY <1>4, <1>5
<1>. QED BY <1>5, <1>6 DEF S

\* The value a process gives its parent when a command ends it.
LEMMA EndsLinked ==
  ASSUME ExecInv, HistInv(procs), MeansInv, procs # <<>>, P.stack # <<>>, P.ret = None,
         Nodes[Top(P.stack).node].op # "pipe",
         NEW e \in Entries, e.node = Top(P.stack).node, e.ends,
         NEW L, NEW v, Extends(Append(log, e), L), Solved(v, L)
  PROVE  \E y \in Tableaus(L) :
           /\ Linked(procs, Len(log) + 1, line, L, v, y)
           /\ y[Len(procs)][1] = [next |-> Len(log) + 2, status |-> e.code, over |-> TRUE,
                                  sig |-> e.sig]
<1>. DEFINE k == Len(log) + 1
            m == Len(P.stack)
            n == Len(procs)
            d == Top(P.stack).node
<1>1. /\ procs \in Seq(GoodProcesses) /\ P \in GoodProcesses /\ P = procs[n]
      /\ log \in Seq(Entries) /\ n \in 1..n /\ ~Idling(procs) /\ d \in DOMAIN Nodes
  BY ProcsAre
<1>2. k \in 1..Len(L) /\ L[k] = e /\ L \in Seq(Entries)
  BY <1>1, ExtendsAppend DEF Extends
<1>3. Continues(procs, log, L)
  <2>1. procs[Len(procs)].stack # <<>> /\ e.node = Top(procs[Len(procs)].stack).node
    BY <1>1
  <2>2. Deeper(procs)
    BY DEF MeansInv
  <2>. QED BY <1>1, <2>1, <2>2, RecordContinues
<1>4. PICK y \in Tableaus(L) : Linked(procs, k, line, L, v, y)
  BY <1>1, <1>3 DEF MeansInv, Means
<1>5. Chain(P.stack, y[n], v) /\ Now(v, L, Top(P.stack), k, y[n][m])
  BY <1>1, <1>4 DEF Linked, Inner
<1>6. y[n][m] = [next |-> k + 1, status |-> e.code, over |-> TRUE, sig |-> e.sig]
  <2>1. y[n][m] = v[d][k]
    BY <1>5 DEF Now
  <2>2. Nodes[d].op # "pipe" /\ L[k].node = d /\ Len(L) \in Nat
    BY <1>2
  <2>. HIDE DEF d, k
  <2>3. v[d][k] = [next |-> k + 1, status |-> L[k].code, over |-> L[k].ends, sig |-> L[k].sig]
    BY <1>1, <1>2, <2>2, OwnIs
  <2>4. L[k].ends = TRUE
    BY <1>2 DEF Entries
  <2>. QED BY <1>2, <2>1, <2>3, <2>4
<1>7. Called(P.stack)
  BY TopTold DEF Told
<1>8. y[n][1] = y[n][m]
  <2>1. y[n][m].over
    BY <1>6
  <2>. QED BY <1>1, <1>5, <1>7, <2>1, OverUp
<1>9. k + 1 = Len(log) + 2
  BY <1>1
<1>. QED BY <1>4, <1>6, <1>8, <1>9

\* A process ends, with c or by a signal.
LEMMA EndedDeeper ==
  ASSUME ExecInv, HistInv(procs), procs # <<>>, Deeper(procs), NEW c \in 0..255,
         NEW sig \in BOOLEAN
  PROVE  Deeper(Ended(procs, c, sig))
<1>1. CASE Len(procs) = 1
  BY <1>1, EmptyDeeper DEF Ended
<1>2. CASE Len(procs) # 1
  <2>. DEFINE new == Ended(procs, c, sig)
              m == Len(procs) - 1
  <2>1. EndedAs(procs, new, m, c, sig)
    BY <1>2, EndedIs
  <2>. HIDE DEF new, m
  <2>2. /\ procs \in Seq(GoodProcesses) /\ new \in Seq(GoodProcesses)
        /\ m \in 1..Len(procs) /\ Len(new) = m /\ Front(procs, new, m)
        /\ procs[m] \in GoodProcesses /\ new[m] \in GoodProcesses
        /\ GoesOn(procs[m], new[m], c, sig)
    BY <2>1 DEF EndedAs
  <2>3. Prolongs(procs[m].stack, new[m].stack)
    <3>1. Stays(procs[m], new[m]) \/ \E r : Returned(procs[m], new[m], r)
      BY <2>2 DEF GoesOn
    <3>. QED BY <2>2, <3>1, StaysProlongs, ReturnedProlongs
  <2>4. Deeper(new)
    BY <2>2, <2>3, DeeperSet
  <2>. QED BY <2>4 DEF new
<1>. QED BY <1>1, <1>2

\* exit, a special builtin that fails, a signal: the process ends with its command.
LEMMA EndsStep ==
  ASSUME ExecInv, HistInv(procs), MeansInv, procs # <<>>, P.stack # <<>>, P.ret = None,
         Nodes[Top(P.stack).node].op # "pipe", NEW c \in 0..255, NEW sig \in BOOLEAN,
         procs' = Ended(procs, c, sig), Record(c, TRUE, sig), line' = line,
         \/ Len(procs) # 1 /\ end' = end
         \/ Len(procs) = 1 /\ ~sig /\ end' = c
  PROVE  MeansInv'
<1>. DEFINE e == [node |-> F.node, code |-> c, ends |-> TRUE, sig |-> sig]
            k2 == Len(log) + 2
            new == Ended(procs, c, sig)
            new2 == Append(log, e)
<1>1. log \in Seq(Entries) /\ Top(P.stack).node \in DOMAIN Nodes /\ ~Idling(procs)
  BY ProcsAre
<1>2. log' = new2
  BY DEF Record
<1>3. e \in Entries /\ e.node = Top(P.stack).node /\ e.ends /\ e.code = c /\ e.sig = sig
  BY <1>1 DEF Entries, F
<1>. HIDE DEF e
<1>4. Len(new2) + 1 = k2 /\ new2 \in Seq(Entries)
  BY <1>1, <1>3
<1>5. ASSUME NEW L, NEW v, Extends(new2, L), Solved(v, L)
      PROVE  \E y \in Tableaus(L) :
               /\ Linked(procs, Len(log) + 1, line, L, v, y)
               /\ y[Len(procs)][1] = [next |-> k2, status |-> c, over |-> TRUE, sig |-> sig]
  <2>1. \E y \in Tableaus(L) :
          /\ Linked(procs, Len(log) + 1, line, L, v, y)
          /\ y[Len(procs)][1] = [next |-> Len(log) + 2, status |-> e.code, over |-> TRUE,
                                 sig |-> e.sig]
    BY <1>3, <1>5, EndsLinked
  <2>. QED BY <1>3, <2>1
<1>6. Deeper(new)
  BY EndedDeeper DEF MeansInv
<1>7. line \in DOMAIN Nodes
  BY <1>1 DEF MeansInv, Means
<1>. HIDE DEF new, new2, k2
<1>8. Means(new, new2, line)
  <2>1. CASE Len(procs) = 1
    <3>1. new = <<>>
      BY <2>1 DEF Ended, new
    <3>. QED BY <3>1, EmptyDeeper DEF Means
  <2>2. CASE Len(procs) # 1
    <3>1. ASSUME NEW L, NEW v, Continues(new, new2, L), Solved(v, L)
          PROVE  \E y \in Tableaus(L) : Linked(new, Len(new2) + 1, line, L, v, y)
      <4>1. Extends(new2, L)
        BY <3>1 DEF Continues
      <4>2. PICK y \in Tableaus(L) :
              /\ Linked(procs, Len(log) + 1, line, L, v, y)
              /\ y[Len(procs)][1] = [next |-> k2, status |-> c, over |-> TRUE, sig |-> sig]
        BY <1>5, <3>1, <4>1
      <4>3. \E x \in Tableaus(L) : Linked(Ended(procs, c, sig), k2, line, L, v, x)
        BY <2>2, <4>2, EndedLinked
      <4>. QED BY <1>4, <4>3 DEF new
    <3>. QED BY <1>7, <3>1 DEF Means
  <2>. QED BY <2>1, <2>2
<1>9. EndTold'
  <2>1. CASE Len(procs) # 1
    <3>1. end = None
      BY DEF MeansInv, EndTold
    <3>. QED BY <2>1, <3>1 DEF EndTold
  <2>2. CASE Len(procs) = 1
    <3>1. procs' = <<>> /\ end' = c /\ sig = FALSE
      BY <2>2 DEF Ended
    <3>2. PICK v : Solved(v, new2) /\ \A ln : MeaningOf(new2, ln) = v[ln][1]
      BY <1>4, SolvedOf
    <3>3. Extends(new2, new2)
      BY <1>4 DEF Extends
    <3>4. PICK y \in Tableaus(new2) :
            /\ Linked(procs, Len(log) + 1, line, new2, v, y)
            /\ y[Len(procs)][1] = [next |-> k2, status |-> c, over |-> TRUE, sig |-> sig]
      BY <1>5, <3>2, <3>3
    <3>5. v[line][1] = [next |-> k2, status |-> c, over |-> TRUE, sig |-> FALSE]
      BY <2>2, <3>1, <3>4 DEF Linked
    <3>6. MeaningOf(new2, line) = Ends(Len(new2) + 1, c)
      BY <1>4, <3>2, <3>5 DEF Ends
    <3>7. MeaningOf(log', line') = Ends(Len(log') + 1, end')
      BY <1>2, <3>1, <3>6
    <3>. QED BY <3>1, <3>7 DEF EndTold
  <2>. QED BY <2>1, <2>2
<1>10. procs' = new /\ log' = new2 /\ line' = line
  BY <1>2 DEF new
<1>. QED BY <1>6, <1>8, <1>9, <1>10 DEF MeansInv

\* A child's call has returned.
LEMMA ChildEndsStep ==
  ASSUME ExecInv, HistInv(procs), MeansInv, procs # <<>>, P.stack = <<>>, Len(procs) # 1,
         NEW c \in 0..255, P.ret = c, procs' = Ended(procs, c, FALSE),
         UNCHANGED <<line, end, log>>
  PROVE  MeansInv'
<1>. DEFINE n == Len(procs)
            k == Len(log) + 1
            new == Ended(procs, c, FALSE)
<1>1. /\ procs \in Seq(GoodProcesses) /\ P = procs[n] /\ P = Top(procs) /\ n \in 1..n
      /\ P.ret # None /\ ~Idling(procs)
  <2>1. P.ret # None
    BY DEF None
  <2>. QED BY <2>1, ProcsAre
<1>2. Deeper(new)
  BY EndedDeeper DEF MeansInv
<1>3. line \in DOMAIN Nodes
  BY <1>1 DEF MeansInv, Means
<1>4. ASSUME NEW L, NEW v, Continues(new, log, L), Solved(v, L)
      PROVE  \E y \in Tableaus(L) : Linked(new, Len(log) + 1, line, L, v, y)
  <2>1. Continues(procs, log, L)
    <3>1. Extends(log, L)
      BY <1>4 DEF Continues
    <3>. QED BY <1>1, <3>1, ReturnContinues
  <2>2. PICK y \in Tableaus(L) : Linked(procs, k, line, L, v, y)
    BY <1>1, <1>4, <2>1 DEF MeansInv, Means
  <2>3. y[n][1] = Done(k, c)
    <3>1. y[n][Len(P.stack) + 1] = Done(k, P.ret)
      BY <1>1, <2>2 DEF Linked, Inner
    <3>2. Len(P.stack) + 1 = 1
      BY EmptySeq
    <3>. QED BY <3>1, <3>2
  <2>4. y[n][1] = [next |-> k, status |-> c, over |-> FALSE, sig |-> FALSE]
    BY <2>3 DEF Done
  <2>5. FALSE \in BOOLEAN
    OBVIOUS
  <2>. HIDE DEF k
  <2>6. \E x \in Tableaus(L) : Linked(Ended(procs, c, FALSE), k, line, L, v, x)
    <3>. DEFINE sig == FALSE
                o == FALSE
    <3>1. sig \in BOOLEAN
          /\ y[Len(procs)][1] = [next |-> k, status |-> c, over |-> o, sig |-> sig]
      BY <2>4
    <3>. HIDE DEF sig, o
    <3>2. \E x \in Tableaus(L) : Linked(Ended(procs, c, sig), k, line, L, v, x)
      BY <2>2, <3>1, EndedLinked
    <3>. QED BY <3>2 DEF sig
  <2>. QED BY <2>6 DEF k
<1>. HIDE DEF new
<1>5. Means(new, log, line)
  BY <1>3, <1>4 DEF Means
<1>6. procs' = new /\ log' = log /\ line' = line /\ end' = end
  BY DEF new
<1>7. EndTold'
  <2>1. end = None
    BY DEF MeansInv, EndTold
  <2>. QED BY <1>6, <2>1 DEF EndTold
<1>8. Deeper(procs') /\ Means(procs', log', line')
  BY <1>2, <1>5, <1>6
<1>. QED BY <1>7, <1>8 DEF MeansInv

-----------------------------------------------------------------------------
(* The actions. *)

\* At the prompt there is nothing to tell.
LEMMA MeansInit == Init => MeansInv
<1>. SUFFICES ASSUME Init PROVE MeansInv
  OBVIOUS
<1>1. PICK tab \in Tables :
        procs = <<[stack |-> <<>>, ret |-> None, code |-> 0, tab |-> tab, base |-> tab,
                   lost |-> FALSE, last |-> 0, seen |-> 0]>>
  BY DEF Init
<1>2. Len(procs) = 1 /\ procs[1].stack = <<>> /\ procs[1].ret = None /\ Len(<<>>) = 0
  BY <1>1, EmptySeq
<1>3. Deeper(procs)
  BY <1>2 DEF Deeper
<1>4. Idling(procs)
  BY <1>2 DEF Idling
<1>5. end = None
  BY DEF Init
<1>. QED BY <1>3, <1>4, <1>5 DEF MeansInv, Means, EndTold

\* A line begins with the first call, whose value is the line's.
LEMMA RunLineMeans ==
  ASSUME ExecInv, MeansInv, NEW n \in Lines, RunLine(n)
  PROVE  MeansInv'
<1>. DEFINE q == [P EXCEPT !.stack = <<Frame(n)>>]
<1>1. Len(procs) = 1 /\ P.ret = None /\ procs' = Set(q) /\ line' = n /\ log' = <<>>
      /\ end' = end
  BY DEF RunLine, AtPrompt
<1>2. procs # <<>>
  BY <1>1, EmptySeq
<1>3. P \in GoodProcesses /\ n \in DOMAIN Nodes /\ procs \in Seq(GoodProcesses)
  BY <1>2, ProcsAre, LinesAssumption
<1>4. <<Frame(n)>> \in Seq(GoodFrames)
  BY <1>3, FrameGood
<1>5. q \in GoodProcesses /\ q.stack = <<Frame(n)>> /\ q.ret = None
  BY <1>1, <1>3, <1>4, SetStack
<1>. HIDE DEF q
<1>6. Len(procs') = 1 /\ procs'[1] = q
  BY <1>1, <1>2, <1>3, <1>5, ReplaceLast DEF Set
<1>7. Len(q.stack) = 1 /\ q.stack[1] = Frame(n) /\ Top(q.stack) = Frame(n) /\ q.stack # <<>>
  BY <1>5 DEF Top
<1>. DEFINE new == procs'
<1>8. ASSUME NEW L, NEW v, Continues(new, <<>>, L), Solved(v, L)
      PROVE  \E y \in Tableaus(L) : Linked(new, 1, n, L, v, y)
  <2>. HIDE DEF new
  <2>1. new[Len(new)] = q /\ Len(new) = 1
    BY <1>6 DEF new
  <2>2. Pending(q)
    BY <1>5, <1>7 DEF Pending
  <2>3. L \in Seq(Entries) /\ 0 < Len(L) /\ Len(L) \in Nat
    <3>1. L \in Seq(Entries) /\ Len(<<>>) < Len(L)
      BY <1>8, <2>1, <2>2 DEF Continues, Extends
    <3>. QED BY <3>1, EmptySeq
  <2>4. 1 \in 1..Len(L) /\ 1 \in 0..(Len(L) + 1)
    BY <2>3
  <2>. DEFINE r == v[n][1]
              y == [i \in Nat |-> [j \in Nat |-> r]]
  <2>5. r \in Results(L)
    BY <1>3, <1>8, <2>4 DEF Solved, Values
  <2>. HIDE DEF r
  <2>6. y \in Tableaus(L) /\ y[1][1] = r
    BY <2>5 DEF Tableaus, Rows
  <2>. HIDE DEF y
  <2>7. Chain(q.stack, y[1], v)
    <3>1. q.stack[1].at = "start"
      BY <1>7 DEF Frame
    <3>2. \A j \in 1..Len(q.stack) : j = 1
      BY <1>7
    <3>. QED BY <3>1, <3>2 DEF Chain
  <2>8. Inner(q, y[1], v, L, 1)
    <3>. DEFINE k == 1
    <3>1. k \in 1..Len(L) /\ Len(L) \in Nat
      BY <2>3, <2>4
    <3>. HIDE DEF k
    <3>2. Now(v, L, Frame(n), k, v[n][k])
      BY <1>3, <1>8, <3>1, NowFirst
    <3>3. Now(v, L, Top(q.stack), 1, y[1][Len(q.stack)])
      BY <1>7, <2>6, <3>2 DEF k, r
    <3>. QED BY <1>5, <3>3 DEF Inner
  <2>9. /\ \A i \in 1..Len(new) : Chain(new[i].stack, y[i], v)
        /\ \A i \in 1..Len(new) - 1 :
             Waits(v, L, Top(new[i].stack), y[i + 1][1], y[i][Len(new[i].stack)])
        /\ Inner(new[Len(new)], y[Len(new)], v, L, 1)
    <3>1. \A i \in 1..Len(new) : i = 1 /\ new[i] = q
      BY <2>1
    <3>2. 1..Len(new) - 1 = {}
      BY <2>1
    <3>. QED BY <2>1, <2>7, <2>8, <3>1, <3>2
  <2>10. y[1][1] = v[n][1]
    BY <2>6 DEF r
  <2>. QED BY <2>6, <2>9, <2>10 DEF Linked
<1>. HIDE DEF new
<1>9. Means(new, <<>>, n)
  <2>1. Len(<<>>) + 1 = 1
    BY EmptySeq
  <2>2. \A L, v : Continues(new, <<>>, L) /\ Solved(v, L) =>
          \E y \in Tableaus(L) : Linked(new, Len(<<>>) + 1, n, L, v, y)
    BY <1>8, <2>1
  <2>. QED BY <1>3, <2>2 DEF Means
<1>10. Deeper(new)
  <2>. SUFFICES ASSUME NEW k \in 1..Len(new), NEW l \in 1..Len(new),
                       NEW i \in 1..Len(new[k].stack), NEW j \in 1..Len(new[l].stack),
                       k < l \/ (k = l /\ i < j)
                PROVE  FALSE
    BY DEF Deeper
  <2>1. k = 1 /\ l = 1
    BY <1>6 DEF new
  <2>2. Len(new[k].stack) = 1 /\ Len(new[l].stack) = 1
    BY <1>6, <1>7, <2>1 DEF new
  <2>3. i = 1 /\ j = 1
    BY <2>2
  <2>. QED BY <2>1, <2>3
<1>11. end = None
  BY <1>2 DEF MeansInv, EndTold
<1>12. Deeper(procs') /\ Means(procs', log', line')
  BY <1>1, <1>9, <1>10 DEF new
<1>13. EndTold'
  BY <1>1, <1>11 DEF EndTold
<1>. QED BY <1>12, <1>13 DEF MeansInv

LEMMA EndLineMeans ==
  ASSUME ExecInv, MeansInv, EndLine
  PROVE  MeansInv'
<1>. DEFINE q == [P EXCEPT !.code = P.ret]
            r == [q EXCEPT !.ret = None]
<1>1. Len(procs) = 1 /\ procs # <<>> /\ P.ret # None /\ P.stack = <<>> /\ procs' = Set(r)
      /\ end' = end
  BY EmptySeq DEF EndLine
<1>2. P \in GoodProcesses /\ P.ret \in 0..255 /\ procs \in Seq(GoodProcesses)
  BY <1>1, ProcsAre, ProcessesDef
<1>3. q \in GoodProcesses /\ q.stack = P.stack
  BY <1>2, SetCode
<1>4. r \in GoodProcesses /\ r.stack = <<>> /\ r.ret = None
  <2>. HIDE DEF q
  <2>1. None \in {None} \cup 0..255
    OBVIOUS
  <2>. QED BY <1>1, <1>3, <2>1, SetRet
<1>. HIDE DEF r
<1>5. Len(procs') = 1 /\ procs'[1] = r
  BY <1>1, <1>2, <1>4, ReplaceLast DEF Set
<1>. DEFINE new == procs'
<1>. HIDE DEF new
<1>6. Idling(new)
  BY <1>4, <1>5 DEF Idling, new
<1>7. Deeper(new)
  <2>1. \A k \in 1..Len(new) : Len(new[k].stack) = 0
    BY <1>4, <1>5, EmptySeq DEF new
  <2>. QED BY <2>1 DEF Deeper
<1>8. end = None
  BY <1>1 DEF MeansInv, EndTold
<1>9. Deeper(procs') /\ Means(procs', log', line')
  BY <1>6, <1>7 DEF new, Means
<1>10. EndTold'
  BY <1>1, <1>8 DEF EndTold
<1>. QED BY <1>9, <1>10 DEF MeansInv

\* Two facts about numbers.
LEMMA ManyIsNotOne == \A n \in Nat : n > 1 => n # 1
OBVIOUS

LEMMA StatusIsSome == \A c \in 0..255 : c # None
BY DEF None

\* exec_sequence, exec_and_or.
LEMMA ListsMeans ==
  ASSUME ExecInv, HistInv(procs), MeansInv, Lists
  PROVE  MeansInv'
<1>. DEFINE f == Top(P.stack)
<1>0. "start" \in Own /\ N = Nodes[f.node]
  BY DEF Own, N, F
<1>1. CASE Descend
  <2>. DEFINE n == N.kids[1]
              q == Call(P, "left", n)
  <2>1. PICK op \in {"seq", "and", "or"} : Runs(op, "start") /\ procs' = Set(q) /\ Silent
    BY <1>1 DEF Descend
  <2>2. n \in DOMAIN Nodes
    BY <2>1, RunsDef DEF Arity
  <2>3. P \in GoodProcesses /\ P.stack # <<>> /\ P.ret = None /\ procs # <<>>
        /\ Nodes[f.node].op = op
    BY <1>0, <2>1, RunsTold
  <2>4. q \in GoodProcesses
    BY <2>2, <2>3, CallGood DEF Ats
  <2>5. HasCalled(P, q, "left", n)
    BY <2>2, <2>3, CallIs
  <2>6. UNCHANGED <<line, end, log>>
    BY <2>1 DEF Silent, Inside
  <2>7. n = Nodes[f.node].kids[1]
    BY <1>0
  <2>. HIDE DEF q, n
  <2>. QED BY <2>1, <2>2, <2>3, <2>4, <2>5, <2>6, <2>7, LeftStep
<1>2. CASE SequenceLeft
  <2>. DEFINE p == [P EXCEPT !.code = P.ret]
              n == N.kids[2]
              call == Call(p, "right", n)
              back == Return(p, P.ret)
  <2>1. Runs("seq", "left") /\ procs' = Set(IF Len(N.kids) = 2 THEN call ELSE back) /\ Silent
    BY <1>2 DEF SequenceLeft
  <2>2. procs # <<>> /\ P \in GoodProcesses /\ P.stack # <<>> /\ P.ret \in 0..255
        /\ (Len(N.kids) = 2 => n \in DOMAIN Nodes)
        /\ Nodes[f.node].op = "seq" /\ f.at = "left" /\ f.node \in DOMAIN Nodes
    BY <2>1, RunsDef, RunsTold DEF F
  <2>3. P.ret # None
    BY <2>2, StatusIsSome
  <2>4. p \in GoodProcesses /\ p.stack = P.stack
    BY <2>2, SetCode
  <2>. HIDE DEF p
  <2>5. UNCHANGED <<line, end, log>>
    BY <2>1 DEF Silent, Inside
  <2>6. CASE Len(N.kids) = 2
    <3>1. call \in GoodProcesses /\ HasCalled(p, call, "right", n)
      <4>1. call \in GoodProcesses
        BY <2>2, <2>4, <2>6, CallGood DEF Ats
      <4>2. HasCalled(p, call, "right", n)
        BY <2>2, <2>4, <2>6, CallIs
      <4>. QED BY <4>1, <4>2
    <3>2. procs' = Set(call) /\ n = Nodes[f.node].kids[2] /\ n \in DOMAIN Nodes
      BY <1>0, <2>1, <2>2, <2>6
    <3>. HIDE DEF call, n
    <3>3. HasCalled(P, call, "right", n)
      BY <2>4, <3>1 DEF HasCalled
    <3>4. Goes(f, P.ret)
      BY <1>0, <2>2, <2>6 DEF Goes
    <3>. QED BY <2>2, <2>3, <2>5, <3>1, <3>2, <3>3, <3>4, RightStep
  <2>7. CASE Len(N.kids) # 2
    <3>1. back \in GoodProcesses /\ Returned(p, back, P.ret)
      BY <2>2, <2>4, ReturnGood, ReturnIs
    <3>2. procs' = Set(back)
      BY <2>1, <2>7
    <3>. HIDE DEF back
    <3>3. Returned(P, back, P.ret)
      BY <2>4, <3>1 DEF Returned
    <3>4. Leaves(f, P.ret)
      <4>. DEFINE d == f.node
      <4>1. d \in DOMAIN Nodes /\ Nodes[d].op = "seq" /\ Len(Nodes[d].kids) # 2
        BY <1>0, <2>2, <2>7
      <4>. HIDE DEF d
      <4>2. Len(Nodes[d].kids) = 1
        BY <4>1, KidsAre
      <4>. QED BY <2>2, <4>2 DEF Leaves, d
    <3>. QED BY <2>2, <2>3, <2>5, <3>1, <3>2, <3>3, <3>4, ReturnStep
  <2>. QED BY <2>6, <2>7
<1>3. CASE SequenceRight
  <2>. DEFINE p == [P EXCEPT !.code = P.ret]
              back == Return(p, P.ret)
  <2>1. Runs("seq", "right") /\ procs' = Set(back) /\ Silent
    BY <1>3 DEF SequenceRight
  <2>2. procs # <<>> /\ P \in GoodProcesses /\ P.stack # <<>> /\ P.ret \in 0..255
        /\ f.at = "right"
    BY <2>1, RunsTold
  <2>3. P.ret # None
    BY <2>2, StatusIsSome
  <2>4. p \in GoodProcesses /\ p.stack = P.stack
    BY <2>2, SetCode
  <2>. HIDE DEF p
  <2>5. back \in GoodProcesses /\ Returned(p, back, P.ret)
    BY <2>2, <2>4, ReturnGood, ReturnIs
  <2>. HIDE DEF back
  <2>6. Returned(P, back, P.ret) /\ Leaves(f, P.ret)
    BY <2>2, <2>4, <2>5 DEF Returned, Leaves
  <2>7. UNCHANGED <<line, end, log>>
    BY <2>1 DEF Silent, Inside
  <2>. QED BY <2>1, <2>2, <2>3, <2>5, <2>6, <2>7, ReturnStep
<1>4. CASE AndOrLeft
  <2>. DEFINE n == N.kids[2]
              call == Call(P, "right", n)
              back == Return(P, P.ret)
  <2>1. PICK op \in {"and", "or"} : Runs(op, "left")
    BY <1>4 DEF AndOrLeft
  <2>2. procs # <<>> /\ P \in GoodProcesses /\ P.stack # <<>> /\ P.ret \in 0..255
        /\ Nodes[f.node].op = op /\ f.at = "left"
    BY <2>1, RunsTold
  <2>3. P.ret # None
    BY <2>2, StatusIsSome
  <2>4. n \in DOMAIN Nodes
    BY <2>1, RunsDef DEF Arity
  <2>5. Silent /\ procs' = Set(IF (N.op = "and") = (P.ret = 0) THEN call ELSE back)
    BY <1>4 DEF AndOrLeft
  <2>6. UNCHANGED <<line, end, log>>
    BY <2>5 DEF Silent, Inside
  <2>7. CASE (N.op = "and") = (P.ret = 0)
    <3>1. call \in GoodProcesses
      BY <2>2, <2>4, CallGood DEF Ats
    <3>2. HasCalled(P, call, "right", n)
      BY <2>2, <2>4, CallIs
    <3>3. procs' = Set(call) /\ n = Nodes[f.node].kids[2]
      BY <1>0, <2>5, <2>7
    <3>. HIDE DEF call, n
    <3>4. Goes(f, P.ret)
      BY <1>0, <2>2, <2>7 DEF Goes
    <3>. QED BY <2>2, <2>3, <2>4, <2>6, <3>1, <3>2, <3>3, <3>4, RightStep
  <2>8. CASE (N.op = "and") # (P.ret = 0)
    <3>1. back \in GoodProcesses /\ Returned(P, back, P.ret)
      BY <2>2, ReturnGood, ReturnIs
    <3>2. procs' = Set(back)
      BY <2>5, <2>8
    <3>. HIDE DEF back
    <3>3. Leaves(f, P.ret)
      BY <1>0, <2>2, <2>8 DEF Leaves
    <3>. QED BY <2>2, <2>3, <2>6, <3>1, <3>2, <3>3, ReturnStep
  <2>. QED BY <2>7, <2>8
<1>5. CASE AndOrRight
  <2>. DEFINE back == Return(P, P.ret)
  <2>1. PICK op \in {"and", "or"} : Runs(op, "right") /\ procs' = Set(back) /\ Silent
    BY <1>5 DEF AndOrRight
  <2>2. procs # <<>> /\ P \in GoodProcesses /\ P.stack # <<>> /\ P.ret \in 0..255
        /\ f.at = "right"
    BY <2>1, RunsTold
  <2>3. P.ret # None
    BY <2>2, StatusIsSome
  <2>4. back \in GoodProcesses /\ Returned(P, back, P.ret)
    BY <2>2, ReturnGood, ReturnIs
  <2>. HIDE DEF back
  <2>5. Leaves(f, P.ret)
    BY <2>2 DEF Leaves
  <2>6. UNCHANGED <<line, end, log>>
    BY <2>1 DEF Silent, Inside
  <2>. QED BY <2>1, <2>2, <2>3, <2>4, <2>5, <2>6, ReturnStep
<1>. QED BY <1>1, <1>2, <1>3, <1>4, <1>5 DEF Lists

\* A node that is run itself has an outcome.
LEMMA FinishMeans ==
  ASSUME ExecInv, HistInv(procs), MeansInv, NEW op, NEW at \in Own, Runs(op, at),
         NEW c \in 0..255, op # "pipe" \/ c = 1,
         NEW p \in GoodProcesses, p.stack = P.stack, Finish(p, c), Inside
  PROVE  MeansInv'
<1>1. procs # <<>> /\ P.stack # <<>> /\ P.ret = None /\ Nodes[Top(P.stack).node].op = op
  BY RunsTold
<1>2. line' = line
  BY DEF Inside
<1>. QED BY <1>1, <1>2, FinishStep

\* A write that blocks takes no outcome.
LEMMA BlocksMeans ==
  ASSUME ExecInv, MeansInv, Blocks, Inside
  PROVE  MeansInv'
BY DEF MeansInv, EndTold, Blocks, Inside, Means, Deeper

\* exec_subshell, exec_pipeline.
LEMMA ChildrenMeans ==
  ASSUME ExecInv, HistInv(procs), MeansInv, Children
  PROVE  MeansInv'
<1>. DEFINE d == Top(P.stack)
<1>0. "start" \in Own /\ 1 \in 0..255 /\ FALSE \in BOOLEAN /\ N = Nodes[d.node] /\ F = d
  BY DEF Own, N, F
<1>1. CASE SubshellForkFails
  <2>1. Runs("sub", "start") /\ Finish(P, 1) /\ Inside
    BY <1>1 DEF SubshellForkFails
  <2>. QED BY <1>0, <2>1, RunsDef, FinishMeans
<1>2. CASE Stage
  <2>. DEFINE first == F.i = 1
              last == F.i = Len(N.kids)
              tab == Connect(P.tab, first, last)
              n == N.kids[F.i]
  <2>1. Runs("pipe", "start") /\ Silent
    BY <1>2 DEF Stage
  <2>2. procs # <<>> /\ Open3(P.tab) /\ F \in GoodFrames /\ F.i \in Nat \ {0} /\ N.op = "pipe"
        /\ Len(N.kids) \in Nat /\ \A k \in 1..Len(N.kids) : N.kids[k] \in DOMAIN Nodes
    BY <2>1, RunsDef
  <2>3. P.stack # <<>> /\ P.ret = None
    BY <1>0, <2>1, RunsTold
  <2>4. n \in DOMAIN Nodes
    BY <2>2 DEF GoodFrames, N
  <2>5. first \in BOOLEAN /\ last \in BOOLEAN
    OBVIOUS
  <2>6. procs' = Fork(P, tab, n)
    BY <1>2 DEF Stage
  <2>. HIDE DEF first, last
  <2>7. Open3(tab)
    BY <2>2, <2>5, ConnectKeeps
  <2>8. UNCHANGED <<line, end, log>>
    BY <2>1 DEF Silent, Inside
  <2>9. ForksAt(d, n)
    BY <1>0, <2>2 DEF ForksAt
  <2>. HIDE DEF tab, n
  <2>. QED BY <2>2, <2>3, <2>4, <2>6, <2>7, <2>8, <2>9, ForkStep
<1>3. CASE ChildEnds
  <2>1. Len(procs) > 1 /\ P.stack = <<>> /\ P.ret # None /\ ExitProcess(P.ret)
        /\ log' = log /\ line' = line
    BY <1>3 DEF ChildEnds, Inside
  <2>2. procs # <<>> /\ Len(procs) # 1
    <3>1. procs # <<>>
      <4>1. Len(procs) # 0
        BY <2>1
      <4>. QED BY <4>1, EmptySeq
    <3>2. Len(procs) \in Nat
      BY <3>1, ProcsAre
    <3>3. Len(procs) > 1
      BY <2>1
    <3>4. Len(procs) # 1
      BY <3>2, <3>3, ManyIsNotOne
    <3>. QED BY <3>1, <3>4
  <2>3. P.ret \in 0..255 /\ P.ret % 256 = P.ret
    <3>1. P.ret \in {None} \cup 0..255
      BY <2>2, TopTold, ProcessesDef
    <3>2. P.ret \in 0..255
      BY <2>1, <3>1
    <3>. QED BY <3>2
  <2>4. procs' = Ended(procs, P.ret, FALSE) /\ end' = end
    BY <2>1, <2>2, <2>3 DEF ExitProcess
  <2>. DEFINE c == P.ret
  <2>5. c \in 0..255 /\ P.ret = c /\ procs' = Ended(procs, c, FALSE)
    BY <2>3, <2>4
  <2>. HIDE DEF c
  <2>. QED BY <2>1, <2>2, <2>4, <2>5, ChildEndsStep
<1>4. ASSUME NEW bad \in Bads, Subshell(bad)
      PROVE  MeansInv'
  <2>. DEFINE a == Apply(P.tab, N.redirs, bad)
              n == N.kids[1]
  <2>1. Runs("sub", "start") /\ Inside
    BY <1>4 DEF Subshell
  <2>2. procs # <<>> /\ P \in GoodProcesses /\ P.stack # <<>> /\ n \in DOMAIN Nodes
        /\ N.op = "sub"
    BY <2>1, RunsDef DEF Arity
  <2>3. P.ret = None
    BY <1>0, <2>1, RunsTold
  <2>4. Open3(a.tab) /\ a.res \in {"ok", "failed", "stuck"}
    BY <2>1, RunsDef, ApplyKeeps
  <2>5. /\ a.res = "ok" => procs' = Fork(P, a.tab, n) /\ UNCHANGED <<blocked, end, log>>
        /\ a.res = "failed" => Finish(P, 1)
        /\ a.res = "stuck" => Blocks
    BY <1>4 DEF Subshell
  <2>6. CASE a.res = "ok"
    <3>1. UNCHANGED <<line, end, log>>
      BY <2>1, <2>5, <2>6 DEF Inside
    <3>2. ForksAt(d, n)
      BY <1>0, <2>2 DEF ForksAt
    <3>. DEFINE tab == a.tab
    <3>3. Open3(tab) /\ procs' = Fork(P, tab, n)
      BY <2>4, <2>5, <2>6
    <3>. HIDE DEF n, tab
    <3>. QED BY <2>2, <2>3, <3>1, <3>2, <3>3, ForkStep
  <2>. HIDE DEF a, n
  <2>7. CASE a.res = "failed"
    BY <1>0, <2>1, <2>2, <2>5, <2>7, FinishMeans
  <2>8. CASE a.res = "stuck"
    BY <2>1, <2>5, <2>8, BlocksMeans
  <2>. QED BY <2>4, <2>6, <2>7, <2>8
<1>5. ASSUME NEW made \in BOOLEAN, StageFails(made)
      PROVE  MeansInv'
  <2>1. PICK q \in GoodProcesses : q.stack = P.stack /\ Finish(q, 1)
    BY <1>5, StageFailsGood, Zenon
  <2>2. Runs("pipe", "start") /\ Inside
    BY <1>5 DEF StageFails
  <2>. QED BY <1>0, <2>1, <2>2, FinishMeans
<1>. QED BY <1>1, <1>2, <1>3, <1>4, <1>5 DEF Children

\* A command that returns c with the table it had, and one that ends its process.
LEMMA RunMeans ==
  ASSUME ExecInv, HistInv(procs), MeansInv, NEW progs, Running(progs), CanRun, NEW bad,
         NEW c \in 0..255, Finish([P EXCEPT !.tab = Afterwards(bad)], c), Inside
  PROVE  MeansInv'
<1>1. [P EXCEPT !.tab = Afterwards(bad)] = P
  BY RunningDef, AfterwardsSame
<1>2. Finish(P, c)
  BY <1>1
<1>3. Runs("cmd", "run") /\ P \in GoodProcesses
  BY RunningDef DEF Running
<1>4. "run" \in Own
  BY DEF Own
<1>. QED BY <1>2, <1>3, <1>4, FinishMeans

LEMMA EndsMeans ==
  ASSUME ExecInv, HistInv(procs), MeansInv, NEW progs, Running(progs), NEW c \in Int,
         ExitProcess(c), Record(c % 256, TRUE, FALSE), Inside
  PROVE  MeansInv'
<1>. DEFINE r == c % 256
            sig == FALSE
<1>1. procs' = Ended(procs, r, sig) /\ Record(r, TRUE, sig) /\ line' = line
      /\ end' = IF Len(procs) = 1 THEN r ELSE end
  BY DEF ExitProcess, Inside
<1>2. r \in 0..255 /\ sig \in BOOLEAN /\ ~sig
  OBVIOUS
<1>3. "run" \in Own /\ Runs("cmd", "run")
  BY DEF Own, Running
<1>4. procs # <<>> /\ P.stack # <<>> /\ P.ret = None /\ Nodes[Top(P.stack).node].op = "cmd"
  BY <1>3, RunsTold
<1>. HIDE DEF r, sig
<1>5. \/ Len(procs) # 1 /\ end' = end
      \/ Len(procs) = 1 /\ ~sig /\ end' = r
  BY <1>1, <1>2
<1>. QED BY <1>1, <1>2, <1>4, <1>5, EndsStep

\* exec_command goes on to its next point.
LEMMA GotoStepMeans ==
  ASSUME ExecInv, HistInv(procs), MeansInv, NEW at \in Own, Runs("cmd", at), NEW to \in Own,
         NEW p \in GoodProcesses, p.stack = P.stack, p.ret = P.ret,
         procs' = Set(Goto(p, to)), UNCHANGED <<line, end, log>>
  PROVE  MeansInv'
<1>. DEFINE q == Goto(p, to)
<1>1. procs # <<>> /\ P.stack # <<>> /\ P.ret = None
  BY RunsTold
<1>2. to \in Ats /\ to \notin {"left", "right"}
  BY DEF Own, Ats
<1>3. q \in GoodProcesses
  BY <1>1, <1>2, GotoGood
<1>4. Shifted(p, q)
  BY <1>1, <1>2, GotoShifted
<1>. HIDE DEF q
<1>5. Shifted(P, q)
  BY <1>4 DEF Shifted, Stays
<1>6. procs' = Set(q)
  BY DEF q
<1>. QED BY <1>1, <1>3, <1>5, <1>6, ShiftStep

\* exec_command.
LEMMA CommandsMeans ==
  ASSUME ExecInv, HistInv(procs), MeansInv, Commands
  PROVE  MeansInv'
<1>0. /\ "start" \in Own /\ "trial" \in Own /\ "run" \in Own
      /\ 0 \in 0..255 /\ 1 \in 0..255 /\ 2 \in 0..255 /\ 2 \in Int /\ 2 % 256 = 2
      /\ "cmd" # "pipe"
  BY DEF Own
<1>1. CASE Expand
  <2>. DEFINE q == [P EXCEPT !.seen = P.code]
              to == IF N.redirs = <<>> THEN "run" ELSE "trial"
  <2>1. Runs("cmd", "start") /\ procs' = Set(Goto(q, to)) /\ UNCHANGED <<line, end, log>>
    BY <1>1 DEF Expand, Silent, Inside
  <2>2. P \in GoodProcesses /\ P.code \in 0..255
    BY <2>1, RunsDef, ProcessesDef
  <2>3. q \in GoodProcesses /\ to \in Own
    BY <1>0, <2>2, SetSeen
  <2>4. q.stack = P.stack /\ q.ret = P.ret
    <3>1. P \in Processes
      BY <2>2, ProcessesDef
    <3>. QED BY <3>1 DEF Processes
  <2>. HIDE DEF q, to
  <2>. QED BY <1>0, <2>1, <2>3, <2>4, GotoStepMeans
<1>2. CASE TrialForkFails
  <2>1. Runs("cmd", "trial") /\ Finish(P, 1) /\ Inside
    BY <1>2 DEF TrialForkFails
  <2>2. P \in GoodProcesses
    BY <2>1, RunsDef
  <2>. QED BY <1>0, <2>1, <2>2, FinishMeans
<1>3. CASE DupFails
  <2>1. PICK q \in GoodProcesses : q.stack = P.stack /\ Finish(q, 1)
    BY <1>3, DupFailsGood, Zenon
  <2>2. Runs("cmd", "run") /\ Inside
    BY <1>3 DEF DupFails, Running
  <2>. QED BY <1>0, <2>1, <2>2, FinishMeans
<1>4. CASE TooMany
  <2>1. Running({"exitMany"}) /\ ExitProcess(2) /\ Record(2, TRUE, FALSE) /\ Inside
    BY <1>4 DEF TooMany
  <2>2. Record(2 % 256, TRUE, FALSE)
    BY <1>0, <2>1
  <2>. QED BY <1>0, <2>1, <2>2, EndsMeans
<1>5. ASSUME NEW bad \in Bads, Trial(bad)
      PROVE  MeansInv'
  <2>. DEFINE a == Apply(P.tab, N.redirs, bad)
  <2>1. Runs("cmd", "trial") /\ Inside
    BY <1>5 DEF Trial
  <2>2. procs # <<>> /\ P \in GoodProcesses /\ P.stack # <<>>
    BY <2>1, RunsDef
  <2>3. a.res \in {"ok", "failed", "stuck"}
    BY <2>1, RunsDef, ApplyKeeps
  <2>4. /\ a.res = "ok" => procs' = Set(Goto(P, "run")) /\ UNCHANGED <<blocked, end, log>>
        /\ a.res = "failed" => Finish(P, 1)
        /\ a.res = "stuck" => Blocks
    BY <1>5 DEF Trial
  <2>. HIDE DEF a
  <2>5. CASE a.res = "ok"
    <3>1. UNCHANGED <<line, end, log>> /\ procs' = Set(Goto(P, "run"))
      BY <2>1, <2>4, <2>5 DEF Inside
    <3>. QED BY <1>0, <2>1, <2>2, <3>1, GotoStepMeans
  <2>6. CASE a.res = "failed"
    BY <1>0, <2>1, <2>2, <2>4, <2>6, FinishMeans
  <2>7. CASE a.res = "stuck"
    BY <2>1, <2>4, <2>7, BlocksMeans
  <2>. QED BY <2>3, <2>5, <2>6, <2>7
<1>6. ASSUME NEW bad \in Bads, RedirsFail(bad)
      PROVE  MeansInv'
  BY <1>0, <1>6, RunMeans, Zenon DEF RedirsFail
<1>7. ASSUME NEW bad \in Bads, RedirsOnly(bad)
      PROVE  MeansInv'
  BY <1>0, <1>7, RunMeans, Zenon DEF RedirsOnly
<1>8. ASSUME NEW bad \in Bads, ExitReturns(bad)
      PROVE  MeansInv'
  BY <1>0, <1>8, RunMeans, Zenon DEF ExitReturns
<1>9. ASSUME NEW bad \in Bads, NEW c \in Codes, Builtin(bad, c)
      PROVE  MeansInv'
  <2>1. c \in 0..255
    BY CodesAssumption
  <2>. QED BY <1>9, <2>1, RunMeans, Zenon DEF Builtin
<1>10. ASSUME NEW bad \in Bads, NEW c \in Codes, SpecialFails(bad, c)
       PROVE  MeansInv'
  <2>1. c \in Int /\ c % 256 = c
    BY CodesAssumption
  <2>2. Running({"special"}) /\ ExitProcess(c) /\ Record(c, TRUE, FALSE) /\ Inside
    BY <1>10 DEF SpecialFails
  <2>3. Record(c % 256, TRUE, FALSE)
    BY <2>1, <2>2
  <2>. QED BY <2>1, <2>2, <2>3, EndsMeans
<1>11. ASSUME NEW bad \in Bads, NEW c \in Codes, Program(bad, c)
       PROVE  MeansInv'
  <2>. DEFINE r == IF Apply(P.tab, N.redirs, bad).res = "ok" THEN c ELSE 1
  <2>1. r \in 0..255
    BY CodesAssumption
  <2>2. Running({"program"}) /\ Finish(P, r) /\ Inside
    BY <1>11 DEF Program
  <2>. HIDE DEF r
  <2>3. Runs("cmd", "run") /\ P \in GoodProcesses
    BY <2>2, RunningDef DEF Running
  <2>. QED BY <1>0, <2>1, <2>2, <2>3, FinishMeans
<1>12. ASSUME NEW bad \in Bads, NEW c \in Statuses, Exit(bad, c)
       PROVE  MeansInv'
  <2>1. c \in Int
    BY CodesAssumption
  <2>. QED BY <1>12, <2>1, EndsMeans, Zenon DEF Exit
<1>. QED BY <1>1, <1>2, <1>3, <1>4, <1>5, <1>6, <1>7, <1>8, <1>9, <1>10, <1>11, <1>12
         DEF Commands

\* A child is killed.
LEMMA KilledMeans ==
  ASSUME ExecInv, HistInv(procs), MeansInv, Killed
  PROVE  MeansInv'
<1>. DEFINE c == 0
            sig == TRUE
<1>1. /\ Len(procs) > 1 /\ Runs("cmd", "start") /\ procs' = Ended(procs, c, sig)
      /\ Record(c, TRUE, sig) /\ line' = line /\ end' = end
  BY DEF Killed, Inside
<1>2. "start" \in Own
  BY DEF Own
<1>3. procs # <<>> /\ P.stack # <<>> /\ P.ret = None /\ Nodes[Top(P.stack).node].op = "cmd"
  BY <1>1, <1>2, RunsTold
<1>4. Len(procs) \in Nat
  BY <1>3, ProcsAre
<1>5. c \in 0..255 /\ sig \in BOOLEAN
  OBVIOUS
<1>6. Len(procs) # 1
  <2>1. Len(procs) > 1
    BY <1>1
  <2>. QED BY <1>4, <2>1, ManyIsNotOne
<1>. HIDE DEF c, sig
<1>. QED BY <1>1, <1>3, <1>5, <1>6, EndsStep

\* All steps.
LEMMA MeansStep ==
  ExecInv /\ HistInv(procs) /\ MeansInv /\ [Next]_vars => MeansInv'
<1>. SUFFICES ASSUME ExecInv, HistInv(procs), MeansInv, [Next]_vars PROVE MeansInv'
  OBVIOUS
<1>1. CASE \E n \in Lines : RunLine(n)
  BY <1>1, RunLineMeans
<1>2. CASE Shell
  BY <1>2, EndLineMeans, ListsMeans, ChildrenMeans, CommandsMeans DEF Shell
<1>3. CASE Killed
  BY <1>3, KilledMeans
<1>4. CASE UNCHANGED vars
  BY <1>4 DEF vars, MeansInv, Means, Deeper, EndTold
<1>. QED BY <1>1, <1>2, <1>3, <1>4 DEF Next

\* The invariant says of a line that has come to its end what it means.
LEMMA MeansWritten ==
  ASSUME ExecInv, MeansInv
  PROVE  RunsAsWritten
<1>1. \A ln : ln = line => Meaning = MeaningOf(log, ln)
  BY MeaningIs DEF MeaningOf
<1>2. Meaning = MeaningOf(log, line)
  BY <1>1
<1>3. ASSUME Len(procs) = 1, P.stack = <<>>, P.ret # None
      PROVE  MeaningOf(log, line) = Done(Len(log) + 1, P.ret)
  <2>1. procs # <<>>
    <3>1. Len(procs) # 0
      BY <1>3
    <3>. QED BY <3>1, EmptySeq
  <2>2. /\ procs \in Seq(GoodProcesses) /\ ~Idling(procs) /\ log \in Seq(Entries)
        /\ P = Top(procs) /\ P = procs[Len(procs)]
    BY <1>3, <2>1, ProcsAre
  <2>3. PICK v : Solved(v, log) /\ \A ln : MeaningOf(log, ln) = v[ln][1]
    BY <2>2, SolvedOf
  <2>4. Extends(log, log)
    BY <2>2 DEF Extends
  <2>5. Continues(procs, log, log)
    BY <1>3, <2>1, <2>2, <2>4, ReturnContinues
  <2>6. PICK y \in Tableaus(log) : Linked(procs, Len(log) + 1, line, log, v, y)
    BY <2>2, <2>3, <2>5 DEF MeansInv, Means
  <2>7. Inner(P, y[1], v, log, Len(log) + 1) /\ y[1][1] = v[line][1]
    BY <1>3, <2>2, <2>6 DEF Linked
  <2>8. Len(P.stack) + 1 = 1
    BY <1>3, EmptySeq
  <2>9. y[1][1] = Done(Len(log) + 1, P.ret)
    BY <1>3, <2>7, <2>8 DEF Inner
  <2>. QED BY <2>3, <2>7, <2>9
<1>. QED BY <1>2, <1>3 DEF RunsAsWritten, MeansInv, EndTold, Ends, Done

\* A line's commands are those its tree asks for, in this order, and its status is what
\* they make of it, through the subshells and pipelines that exec_subshell and
\* exec_pipeline run in children, whether these exit, fail or are killed; a command ends
\* the shell only if it is the shell that runs it.
THEOREM CommandsRunAsWritten == Spec => []RunsAsWritten
<1>1. ExecInv /\ HistInv(procs) /\ MeansInv => RunsAsWritten
  BY MeansWritten
<1>2. ExecInv /\ HistInv(procs) /\ MeansInv /\ [Next]_vars
        => (ExecInv /\ HistInv(procs) /\ MeansInv)'
  BY ExecStep, HistStep, MeansStep
<1>3. Init => ExecInv /\ HistInv(procs) /\ MeansInv
  BY ExecInit, HistInit, MeansInit
<1>. QED BY <1>1, <1>2, <1>3, PTL DEF Spec
=============================================================================
