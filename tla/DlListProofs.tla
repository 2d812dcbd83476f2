---------------------------- MODULE DlListProofs ----------------------------
(***************************************************************************)
(* Proofs about the doubly-linked list, for any set of nodes: the pointers *)
(* form the ring of the nodes in their order, a walk that deletes what it  *)
(* stands on never looks into freed memory, and a walk that comes to its   *)
(* end has deleted what matched and nothing else.                          *)
(***************************************************************************)
EXTENDS DlList, TLAPS

\* Before the body a safe walk is one node ahead; after it the node ahead is
\* still in the list, whatever became of the node it stands on.
WalkInv == /\ walk = "plain" => match = {}
           /\ walk # "idle" /\ ~visited => item \in allocated \cup {List}
           /\ walk # "idle" /\ visited /\ item \notin match => item \in allocated
           /\ walk = "safe" /\ ~visited => ahead = next[item]
           /\ walk = "safe" /\ visited => ahead \in allocated \cup {List}

IInv == TypeOK /\ Ring /\ HoldsAllocated /\ WalkInv

\* A node put first.
LEMMA FirstFacts ==
  ASSUME NEW S, NEW s \in Seq(S), NEW e \in S,
         NEW t, t = [i \in 1..(Len(s) + 1) |-> IF i = 1 THEN e ELSE s[i - 1]]
  PROVE  /\ t \in Seq(S) /\ Len(t) = Len(s) + 1
         /\ Range(t) = Range(s) \cup {e}
         /\ IsInjective(s) /\ e \notin Range(s) => IsInjective(t)
<1>1. /\ Len(s) \in Nat /\ DOMAIN s = 1..Len(s)
      /\ t \in Seq(S) /\ Len(t) = Len(s) + 1 /\ DOMAIN t = 1..(Len(s) + 1)
  OBVIOUS
<1>2. /\ t[1] = e
      /\ \A i \in 1..Len(s) : i + 1 \in DOMAIN t /\ t[i + 1] = s[i]
      /\ \A j \in DOMAIN t : j = 1 \/ (j - 1 \in 1..Len(s) /\ t[j] = s[j - 1])
  BY <1>1
<1>3. Range(t) \subseteq Range(s) \cup {e}
  BY <1>1, <1>2 DEF Range
<1>4. Range(s) \cup {e} \subseteq Range(t)
  <2>1. e \in Range(t)
    BY <1>1, <1>2 DEF Range
  <2>2. ASSUME NEW x \in Range(s) PROVE x \in Range(t)
    <3>1. PICK i \in 1..Len(s) : x = s[i]
      BY <1>1 DEF Range
    <3>2. i + 1 \in DOMAIN t /\ t[i + 1] = x
      BY <3>1, <1>2
    <3> QED  BY <3>2 DEF Range
  <2> QED  BY <2>1, <2>2
<1>5. ASSUME IsInjective(s), e \notin Range(s) PROVE IsInjective(t)
  <2>1. \A i \in 1..Len(s) : s[i] # e
    BY <1>1, <1>5 DEF Range
  <2> QED  BY <1>1, <1>2, <1>5, <2>1 DEF IsInjective
<1> QED  BY <1>1, <1>3, <1>4, <1>5

\* A node put last.
LEMMA LastFacts ==
  ASSUME NEW S, NEW s \in Seq(S), NEW e \in S
  PROVE  /\ Append(s, e) \in Seq(S) /\ Len(Append(s, e)) = Len(s) + 1
         /\ Range(Append(s, e)) = Range(s) \cup {e}
         /\ IsInjective(s) /\ e \notin Range(s) => IsInjective(Append(s, e))
<1> DEFINE t == Append(s, e)
<1>1. /\ Len(s) \in Nat /\ DOMAIN s = 1..Len(s)
      /\ t \in Seq(S) /\ Len(t) = Len(s) + 1 /\ DOMAIN t = 1..(Len(s) + 1)
  OBVIOUS
<1>2. /\ t[Len(s) + 1] = e
      /\ \A i \in 1..Len(s) : i \in DOMAIN t /\ t[i] = s[i]
      /\ \A j \in DOMAIN t : j = Len(s) + 1 \/ (j \in 1..Len(s) /\ t[j] = s[j])
  BY <1>1
<1> HIDE DEF t
<1>3. Range(t) \subseteq Range(s) \cup {e}
  BY <1>1, <1>2 DEF Range
<1>4. Range(s) \cup {e} \subseteq Range(t)
  <2>1. e \in Range(t)
    BY <1>1, <1>2 DEF Range
  <2>2. Range(s) \subseteq Range(t)
    BY <1>1, <1>2 DEF Range
  <2> QED  BY <2>1, <2>2
<1>5. ASSUME IsInjective(s), e \notin Range(s) PROVE IsInjective(t)
  <2>1. \A i \in 1..Len(s) : s[i] # e
    BY <1>1, <1>5 DEF Range
  <2> QED  BY <1>1, <1>2, <1>5, <2>1 DEF IsInjective
<1> QED  BY <1>1, <1>3, <1>4, <1>5 DEF t

\* A node taken out.
LEMMA TakenFacts ==
  ASSUME NEW S, NEW s \in Seq(S), NEW k \in 1..Len(s), IsInjective(s),
         NEW t, t = [i \in 1..(Len(s) - 1) |-> IF i < k THEN s[i] ELSE s[i + 1]]
  PROVE  /\ t \in Seq(S) /\ Len(t) = Len(s) - 1
         /\ Range(t) = Range(s) \ {s[k]}
         /\ IsInjective(t)
<1>1. /\ Len(s) \in Nat /\ DOMAIN s = 1..Len(s)
      /\ t \in Seq(S) /\ Len(t) = Len(s) - 1 /\ DOMAIN t = 1..(Len(s) - 1)
  OBVIOUS
<1>2. \A i \in DOMAIN t : IF i < k THEN i \in DOMAIN s /\ t[i] = s[i]
                                   ELSE i + 1 \in DOMAIN s /\ t[i] = s[i + 1]
  BY <1>1
<1>3. /\ \A i \in 1..Len(s) : i < k => i \in DOMAIN t /\ t[i] = s[i]
      /\ \A i \in 1..Len(s) : i > k => i - 1 \in DOMAIN t /\ t[i - 1] = s[i]
  BY <1>1
<1>4. \A i, j \in 1..Len(s) : s[i] = s[j] => i = j
  BY <1>1 DEF IsInjective
<1>5. Range(t) \subseteq Range(s) \ {s[k]}
  <2>1. ASSUME NEW i \in DOMAIN t PROVE t[i] \in Range(s) \ {s[k]}
    <3>1. CASE i < k
      BY <3>1, <1>1, <1>2, <1>4 DEF Range
    <3>2. CASE ~(i < k)
      <4>1. i + 1 \in DOMAIN s /\ t[i] = s[i + 1] /\ i + 1 # k
        BY <3>2, <1>1, <1>2
      <4> QED  BY <4>1, <1>1, <1>4 DEF Range
    <3> QED  BY <3>1, <3>2
  <2> QED  BY <2>1 DEF Range
<1>6. Range(s) \ {s[k]} \subseteq Range(t)
  <2>1. ASSUME NEW x \in Range(s), x # s[k] PROVE x \in Range(t)
    <3>1. PICK i \in 1..Len(s) : x = s[i]
      BY <1>1 DEF Range
    <3>2. CASE i < k
      BY <3>1, <3>2, <1>3 DEF Range
    <3>3. CASE i > k
      <4>1. i - 1 \in DOMAIN t /\ t[i - 1] = x
        BY <3>1, <3>3, <1>3
      <4> QED  BY <4>1 DEF Range
    <3> QED  BY <2>1, <3>1, <3>2, <3>3, <1>1
  <2> QED  BY <2>1
<1>7. IsInjective(t)
  BY <1>1, <1>2, <1>4 DEF IsInjective
<1> QED  BY <1>1, <1>5, <1>6, <1>7
-----------------------------------------------------------------------------
\* Every place of the ring holds an allocated node or the list itself.
LEMMA Places ==
  ASSUME TypeOK, HoldsAllocated
  PROVE  /\ Len(order) \in Nat
         /\ \A i \in Int : At(order, i) \in allocated \cup {List}
         /\ \A i \in 1..Len(order) : At(order, i) \in allocated
         /\ \A c \in allocated \cup {List} : \E i \in 0..Len(order) : c = At(order, i)
         /\ \A c \in allocated \cup {List} : \E i \in 1..(Len(order) + 1) : c = At(order, i)
         /\ \A i, j \in 1..(Len(order) + 1) : At(order, i) = At(order, j) => i = j
         /\ \A i, j \in 0..Len(order) : At(order, i) = At(order, j) => i = j
<1>1. Len(order) \in Nat /\ DOMAIN order = 1..Len(order)
  BY DEF TypeOK
<1>2. \A i \in 1..Len(order) : order[i] \in allocated
  BY <1>1 DEF HoldsAllocated, Range
<1>3. \A n \in allocated : \E i \in 1..Len(order) : n = order[i]
  BY <1>1 DEF HoldsAllocated, Range
<1>4. List \notin allocated
  BY NodesAssumption DEF TypeOK
<1>5. \A i, j \in 1..Len(order) : order[i] = order[j] => i = j
  BY <1>1 DEF HoldsAllocated, IsInjective
<1>6. \A i \in Int : At(order, i) \in allocated \cup {List}
  BY <1>2 DEF At
<1>7. \A c \in allocated \cup {List} : \E i \in 0..Len(order) : c = At(order, i)
  BY <1>1, <1>3 DEF At
<1>8. \A c \in allocated \cup {List} : \E i \in 1..(Len(order) + 1) : c = At(order, i)
  BY <1>1, <1>3 DEF At
<1> QED
  BY <1>1, <1>2, <1>4, <1>5, <1>6, <1>7, <1>8 DEF At

\* The pointers of what is in the list stay in the list.
LEMMA Neighbours ==
  ASSUME TypeOK, Ring, HoldsAllocated, NEW c \in allocated \cup {List}
  PROVE  next[c] \in allocated \cup {List} /\ prev[c] \in allocated \cup {List}
<1>1. PICK i \in 0..Len(order) : c = At(order, i)
  BY Places
<1>2. PICK j \in 1..(Len(order) + 1) : c = At(order, j)
  BY Places
<1>3. next[c] = At(order, i + 1)
  BY <1>1 DEF Ring
<1>4. prev[c] = At(order, j - 1)
  <2>1. j - 1 \in 0..Len(order) /\ (j - 1) + 1 = j
    BY <1>2, Places
  <2> QED  BY <1>2, <2>1 DEF Ring
<1> QED
  BY <1>1, <1>2, <1>3, <1>4, Places

-----------------------------------------------------------------------------
\* The list starts empty.
LEMMA InitInv == Init => IInv
<1> SUFFICES ASSUME Init PROVE IInv
  OBVIOUS
<1> USE NodesAssumption DEF Init
<1>1. TypeOK
  <2>1. order \in Seq(Nodes) /\ before \in Seq(Nodes)
    OBVIOUS
  <2>2. next \in [Cells -> Cells \cup {NULL}] /\ prev \in [Cells -> Cells \cup {NULL}]
    BY DEF Cells
  <2> QED  BY <2>1, <2>2 DEF TypeOK
<1>2. Ring
  <2>1. Len(order) = 0 /\ next[List] = List /\ prev[List] = List
    BY DEF Cells
  <2>2. At(order, 0) = List /\ At(order, 1) = List
    BY <2>1 DEF At
  <2> QED  BY <2>1, <2>2 DEF Ring
<1>3. HoldsAllocated
  BY DEF HoldsAllocated, IsInjective, Range, Cells
<1>4. WalkInv
  BY DEF WalkInv
<1> QED  BY <1>1, <1>2, <1>3, <1>4 DEF IInv

\* dl_list_add at the front of the list keeps the ring.
LEMMA AddFirstStep == ASSUME IInv, NEW n \in Nodes, AddFirst(n) PROVE IInv'
<1> USE NodesAssumption DEF IInv, AddFirst, InsertAfter, Cells, walkVars
<1>0. /\ Len(order) \in Nat /\ order' \in Seq(Nodes) /\ Len(order') = Len(order) + 1
      /\ Range(order') = Range(order) \cup {n} /\ IsInjective(order')
  BY FirstFacts DEF TypeOK, HoldsAllocated
<1>1. next[List] \in allocated \cup {List}
  BY Neighbours
<1>2. TypeOK'
  BY <1>0, <1>1 DEF TypeOK
<1>3. HoldsAllocated'
  <2>1. {m \in Nodes : next[m] # NULL}' = allocated'
    BY <1>1 DEF HoldsAllocated, TypeOK
  <2> QED  BY <1>0, <2>1 DEF HoldsAllocated
<1>4. /\ At(order', 0) = List /\ At(order', 1) = n
      /\ \A i \in 2..(Len(order) + 2) : At(order', i) = At(order, i - 1)
  BY <1>0 DEF At
<1>5. next[List] = At(order, 1)
  <2>1. 0 \in 0..Len(order) /\ 0 + 1 = 1 /\ At(order, 0) = List
    BY <1>0 DEF At
  <2> QED  BY <2>1 DEF Ring
<1>6. ASSUME NEW i \in 0..(Len(order) + 1)
      PROVE  next'[At(order', i)] = At(order', i + 1) /\ prev'[At(order', i + 1)] = At(order', i)
  <2>1. CASE i = 0
    BY <2>1, <1>4, <1>1 DEF TypeOK
  <2>2. CASE i = 1
    <3>1. At(order', i) = n /\ At(order', i + 1) = next[List]
      BY <2>2, <1>0, <1>4, <1>5
    <3> QED  BY <3>1, <1>1 DEF TypeOK
  <2>3. CASE i >= 2
    <3>1. /\ i - 1 \in 0..Len(order) /\ i - 1 \in 1..Len(order) /\ (i - 1) + 1 = i
          /\ i \in 2..(Len(order) + 2) /\ i + 1 \in 2..(Len(order) + 2) /\ (i + 1) - 1 = i
      BY <2>3, <1>0
    <3>2. At(order', i) = At(order, i - 1) /\ At(order', i + 1) = At(order, i)
      BY <3>1, <1>0, <1>4
    <3>3. next[At(order, i - 1)] = At(order, i) /\ prev[At(order, i)] = At(order, i - 1)
      BY <3>1, <1>0 DEF Ring
    <3>4. /\ At(order, i - 1) \in allocated /\ At(order, i) \in allocated \cup {List}
          /\ At(order, i) # At(order, 1)
      <4>1. 1 \in 1..(Len(order) + 1) /\ i \in 1..(Len(order) + 1) /\ i # 1
        BY <2>3, <1>0
      <4> QED  BY <3>1, <4>1, Places
    <3> QED  BY <3>2, <3>3, <3>4, <1>5 DEF TypeOK
  <2> QED  BY <2>1, <2>2, <2>3, <1>0
<1>7. Ring'
  BY <1>0, <1>6 DEF Ring
<1>8. WalkInv'
  BY DEF WalkInv
<1> QED  BY <1>2, <1>3, <1>7, <1>8

\* dl_list_add_tail keeps the ring.
LEMMA AddLastStep == ASSUME IInv, NEW n \in Nodes, AddLast(n) PROVE IInv'
<1> USE NodesAssumption DEF IInv, AddLast, InsertAfter, Cells, walkVars
<1>0. /\ Len(order) \in Nat /\ order' \in Seq(Nodes) /\ Len(order') = Len(order) + 1
      /\ Range(order') = Range(order) \cup {n} /\ IsInjective(order')
  BY LastFacts DEF TypeOK, HoldsAllocated
<1>1. /\ LastCell \in allocated \cup {List} /\ LastCell = At(order, Len(order))
      /\ next[LastCell] = List
  <2>1. LastCell \in allocated \cup {List}
    BY Neighbours DEF LastCell
  <2>2. At(order, Len(order) + 1) = List
    BY <1>0 DEF At
  <2>3. LastCell = At(order, Len(order)) /\ next[At(order, Len(order))] = List
    BY <1>0, <2>2 DEF LastCell, Ring
  <2> QED  BY <2>1, <2>3
<1>2. TypeOK'
  BY <1>0, <1>1 DEF TypeOK
<1>3. HoldsAllocated'
  <2>1. {m \in Nodes : next[m] # NULL}' = allocated'
    BY <1>1 DEF HoldsAllocated, TypeOK
  <2> QED  BY <1>0, <2>1 DEF HoldsAllocated
<1>4. /\ \A i \in 0..Len(order) : At(order', i) = At(order, i)
      /\ At(order', Len(order) + 1) = n /\ At(order', Len(order) + 2) = List
  BY <1>0 DEF At, TypeOK
<1>5. ASSUME NEW i \in 0..(Len(order) + 1)
      PROVE  next'[At(order', i)] = At(order', i + 1) /\ prev'[At(order', i + 1)] = At(order', i)
  <2>1. CASE i = Len(order) + 1
    <3>1. At(order', i) = n /\ At(order', i + 1) = List
      BY <2>1, <1>0, <1>4
    <3> QED  BY <3>1, <1>1 DEF TypeOK
  <2>2. CASE i = Len(order)
    <3>1. At(order', i) = LastCell /\ At(order', i + 1) = n
      BY <2>2, <1>0, <1>1, <1>4
    <3> QED  BY <3>1, <1>1 DEF TypeOK
  <2>3. CASE i < Len(order)
    <3>1. i \in 0..Len(order) /\ i + 1 \in 1..Len(order)
      BY <2>3, <1>0
    <3>2. At(order', i) = At(order, i) /\ At(order', i + 1) = At(order, i + 1)
      BY <3>1, <1>0, <1>4
    <3>3. next[At(order, i)] = At(order, i + 1) /\ prev[At(order, i + 1)] = At(order, i)
      BY <3>1 DEF Ring
    <3>4. At(order, i) \in allocated \cup {List} /\ At(order, i + 1) \in allocated /\ At(order, i) # LastCell
      <4>1. Len(order) \in 0..Len(order) /\ i # Len(order)
        BY <2>3, <1>0
      <4> QED  BY <4>1, <3>1, <1>1, Places
    <3> QED  BY <3>2, <3>3, <3>4, <1>1 DEF TypeOK
  <2> QED  BY <2>1, <2>2, <2>3, <1>0
<1>6. Ring'
  BY <1>0, <1>5 DEF Ring
<1>7. WalkInv'
  BY DEF WalkInv
<1> QED  BY <1>2, <1>3, <1>6, <1>7

-----------------------------------------------------------------------------
\* dl_list_del and free take one node out of the ring.
LEMMA UnlinkStep ==
  ASSUME IInv, NEW k \in 1..Len(order), Unlink(order[k]),
         allocated' = allocated \ {order[k]}, order' = Without(k),
         walk' = walk, item' = item, ahead' = ahead, visited' \in BOOLEAN,
         match' = match, before' = before
  PROVE  TypeOK' /\ Ring' /\ HoldsAllocated'
<1> USE NodesAssumption DEF IInv, Unlink, Cells
<1> DEFINE n == order[k]
<1>0. /\ Len(order) \in Nat /\ order' \in Seq(Nodes) /\ Len(order') = Len(order) - 1
      /\ Range(order') = Range(order) \ {n} /\ IsInjective(order')
  <2>1. order \in Seq(Nodes) /\ IsInjective(order)
    BY DEF TypeOK, HoldsAllocated
  <2>2. order' = [i \in 1..(Len(order) - 1) |-> IF i < k THEN order[i] ELSE order[i + 1]]
    BY DEF Without
  <2> QED  BY <2>1, <2>2, TakenFacts
<1>1. n \in allocated /\ n = At(order, k)
  <2>1. n = At(order, k)
    BY DEF At
  <2>2. At(order, k) \in allocated
    BY Places
  <2> QED  BY <2>1, <2>2
<1> DEFINE p == At(order, k - 1)
           q == At(order, k + 1)
<1>2. /\ next[n] = q /\ prev[n] = p
      /\ p \in allocated \cup {List} /\ q \in allocated \cup {List}
      /\ p # n /\ q # n
  <2>1. /\ k \in 0..Len(order) /\ k - 1 \in 0..Len(order) /\ (k - 1) + 1 = k /\ k - 1 # k
        /\ k \in 1..(Len(order) + 1) /\ k + 1 \in 1..(Len(order) + 1) /\ k + 1 # k
    BY <1>0
  <2>2. next[n] = q /\ prev[n] = p
    BY <1>1, <2>1 DEF Ring
  <2>3. p # n /\ q # n
    BY <1>1, <2>1, Places
  <2>4. p \in allocated \cup {List} /\ q \in allocated \cup {List}
    BY <2>1, Places
  <2> QED  BY <2>2, <2>3, <2>4
<1>3. /\ next' = [next EXCEPT ![p] = q, ![n] = NULL]
      /\ prev' = [prev EXCEPT ![q] = p, ![n] = NULL]
  BY <1>2
<1>4. TypeOK'
  <2>1. p \in Cells /\ q \in Cells /\ n \in Cells
    BY <1>1, <1>2 DEF TypeOK
  <2>2. next' \in [Cells -> Cells \cup {NULL}] /\ prev' \in [Cells -> Cells \cup {NULL}]
    BY <1>3, <2>1 DEF TypeOK
  <2>3. order' \in Seq(Nodes) /\ before' \in Seq(Nodes) /\ allocated' \subseteq Nodes
    BY <1>0 DEF TypeOK
  <2> QED  BY <2>2, <2>3 DEF TypeOK
<1>5. HoldsAllocated'
  <2>1. {m \in Nodes : next[m] # NULL}' = allocated'
    BY <1>1, <1>2, <1>3 DEF HoldsAllocated, TypeOK
  <2> QED  BY <1>0, <2>1 DEF HoldsAllocated
<1>6. /\ \A i \in 0..(k - 1) : At(order', i) = At(order, i)
      /\ \A i \in k..Len(order) : At(order', i) = At(order, i + 1)
  BY <1>0 DEF At, Without
<1>7. ASSUME NEW i \in 0..(Len(order) - 1)
      PROVE  /\ next'[At(order', i)] = At(order', i + 1)
             /\ prev'[At(order', i + 1)] = At(order', i)
  <2>1. CASE i = k - 1
    <3>1. At(order', i) = p /\ At(order', i + 1) = q
      <4>1. k - 1 \in 0..(k - 1) /\ k \in k..Len(order) /\ i + 1 = k
        BY <2>1, <1>0
      <4> QED  BY <2>1, <4>1, <1>6
    <3> QED  BY <3>1, <1>1, <1>2, <1>3 DEF TypeOK
  <2>2. CASE i < k - 1
    <3>1. /\ i \in 0..(k - 1) /\ i + 1 \in 0..(k - 1) /\ i \in 0..Len(order)
          /\ k - 1 \in 0..Len(order) /\ k \in 0..Len(order) /\ i # k - 1 /\ i # k
          /\ i + 1 \in 1..(Len(order) + 1) /\ k \in 1..(Len(order) + 1)
          /\ k + 1 \in 1..(Len(order) + 1) /\ i + 1 # k /\ i + 1 # k + 1
      BY <2>2, <1>0
    <3>2. At(order', i) = At(order, i) /\ At(order', i + 1) = At(order, i + 1)
      BY <3>1, <1>6
    <3>3. At(order, i) # p /\ At(order, i) # n
      BY <3>1, <1>1, Places
    <3>4. At(order, i + 1) # q /\ At(order, i + 1) # n
      BY <3>1, <1>1, Places
    <3>5. At(order, i) \in allocated \cup {List} /\ At(order, i + 1) \in allocated \cup {List}
      BY <3>1, Places
    <3>6. next[At(order, i)] = At(order, i + 1) /\ prev[At(order, i + 1)] = At(order, i)
      BY <3>1 DEF Ring
    <3> QED  BY <3>2, <3>3, <3>4, <3>5, <3>6, <1>1, <1>2, <1>3 DEF TypeOK
  <2>3. CASE i >= k
    <3> DEFINE j == i + 1
    <3>1. /\ i \in k..Len(order) /\ j \in k..Len(order) /\ j \in 0..Len(order)
          /\ k - 1 \in 0..Len(order) /\ k \in 0..Len(order) /\ j # k - 1 /\ j # k
          /\ j + 1 \in 1..(Len(order) + 1) /\ k \in 1..(Len(order) + 1)
          /\ k + 1 \in 1..(Len(order) + 1) /\ j + 1 # k /\ j + 1 # k + 1
      BY <2>3, <1>0
    <3>2. At(order', i) = At(order, j) /\ At(order', j) = At(order, j + 1)
      BY <3>1, <1>6
    <3>3. At(order, j) # p /\ At(order, j) # n
      BY <3>1, <1>1, Places
    <3>4. At(order, j + 1) # q /\ At(order, j + 1) # n
      BY <3>1, <1>1, Places
    <3>5. At(order, j) \in allocated \cup {List} /\ At(order, j + 1) \in allocated \cup {List}
      BY <3>1, Places
    <3>6. next[At(order, j)] = At(order, j + 1) /\ prev[At(order, j + 1)] = At(order, j)
      BY <3>1 DEF Ring
    <3> QED  BY <3>2, <3>3, <3>4, <3>5, <3>6, <1>1, <1>2, <1>3 DEF TypeOK
  <2> QED  BY <2>1, <2>2, <2>3, <1>0
<1>8. Ring'
  BY <1>0, <1>7 DEF Ring
<1> QED  BY <1>4, <1>5, <1>8

-----------------------------------------------------------------------------
\* A walk begins at the first node, or at the list itself.
LEMMA BeginStep ==
  ASSUME IInv, NEW kind \in {"plain", "safe"}, NEW found \in SUBSET allocated,
         BeginWalk(kind, found)
  PROVE  IInv'
<1> USE DEF IInv, BeginWalk
<1>1. next[List] \in allocated \cup {List}
  BY Neighbours
<1>2. Deref(next, next[List]) = next[next[List]] /\ next[next[List]] \in allocated \cup {List}
  BY <1>1, Neighbours DEF Deref, Cells, TypeOK
<1>3. TypeOK'
  BY <1>1, <1>2, NodesAssumption DEF TypeOK, Cells
<1>4. Ring' /\ HoldsAllocated'
  BY DEF Ring, HoldsAllocated
<1>5. WalkInv'
  BY <1>1, <1>2 DEF WalkInv
<1> QED  BY <1>3, <1>4, <1>5

\* What a walk goes to is in the list.
LEMMA FollowingInList ==
  ASSUME IInv, walk # "idle", visited
  PROVE  Following \in allocated \cup {List}
<1> USE DEF IInv
<1>1. CASE walk = "safe"
  BY <1>1 DEF Following, WalkInv
<1>2. CASE walk = "plain"
  <2>1. item \in allocated
    BY <1>2 DEF WalkInv
  <2>2. next[item] \in allocated \cup {List}
    BY <2>1, Neighbours
  <2> QED  BY <1>2, <2>1, <2>2 DEF Following, Deref, Cells, TypeOK
<1> QED  BY <1>1, <1>2 DEF TypeOK

\* The body deletes the node under the walk at most; the node ahead is another one.
LEMMA VisitStep == ASSUME IInv, Visit PROVE IInv'
<1> USE DEF IInv, Visit
<1>1. item \in allocated
  BY DEF WalkInv
<1>2. next[item] \in allocated \cup {List}
  BY <1>1, Neighbours
<1>3. CASE item \in match
  <2>1. PICK k \in 1..Len(order) : order[k] = item /\ order' = Without(k)
    BY <1>3
  <2>2. TypeOK' /\ Ring' /\ HoldsAllocated'
    BY <1>3, <2>1, UnlinkStep DEF Freed
  <2>3. next[item] # item
    <3>1. /\ item = At(order, k) /\ k \in 0..Len(order) /\ k + 1 \in 1..(Len(order) + 1)
          /\ k \in 1..(Len(order) + 1) /\ k # k + 1
      BY <2>1 DEF At, TypeOK
    <3>2. next[item] = At(order, k + 1)
      BY <3>1 DEF Ring
    <3> QED  BY <3>1, <3>2, Places
  <2>4. WalkInv'
    BY <1>2, <1>3, <2>3 DEF WalkInv, Freed
  <2> QED  BY <2>2, <2>4
<1>4. CASE item \notin match
  <2>1. TypeOK'
    BY <1>4 DEF TypeOK
  <2>2. Ring' /\ HoldsAllocated'
    BY <1>4 DEF Ring, HoldsAllocated
  <2>3. WalkInv'
    BY <1>1, <1>2, <1>4 DEF WalkInv
  <2> QED  BY <2>1, <2>2, <2>3
<1> QED  BY <1>3, <1>4

\* The walk goes on to the node ahead.
LEMMA AdvanceStep == ASSUME IInv, Advance PROVE IInv'
<1> USE DEF IInv, Advance
<1>1. Following \in allocated \cup {List}
  BY FollowingInList
<1>2. CASE walk = "safe"
  <2>1. Following = ahead /\ Deref(next, ahead) = next[ahead]
    BY <1>1, <1>2 DEF Following, Deref, Cells, TypeOK
  <2>2. next[ahead] \in allocated \cup {List}
    BY <1>1, <2>1, Neighbours
  <2>3. TypeOK'
    BY <1>1, <1>2, <2>1, <2>2, NodesAssumption DEF TypeOK, Cells
  <2>4. Ring' /\ HoldsAllocated' /\ WalkInv'
    BY <1>1, <1>2, <2>1, <2>2 DEF Ring, HoldsAllocated, WalkInv
  <2> QED  BY <2>3, <2>4
<1>3. CASE walk = "plain"
  <2>1. TypeOK'
    BY <1>1, <1>3, NodesAssumption DEF TypeOK, Cells
  <2>2. Ring' /\ HoldsAllocated' /\ WalkInv'
    BY <1>1, <1>3 DEF Ring, HoldsAllocated, WalkInv
  <2> QED  BY <2>1, <2>2
<1> QED  BY <1>2, <1>3 DEF TypeOK

\* The end of a walk changes nothing in the list.
LEMMA EndStep == ASSUME IInv, Finish \/ Break PROVE IInv'
<1>0. <<>> \in Seq(Nodes)
  OBVIOUS
<1>1. before' = <<>> /\ UNCHANGED <<next, prev, allocated, order>>
  BY DEF Finish, Break
<1> USE <1>0, <1>1 DEF IInv, Finish, Break
<1>2. TypeOK'
  BY DEF TypeOK
<1>3. Ring' /\ HoldsAllocated' /\ WalkInv'
  BY DEF Ring, HoldsAllocated, WalkInv
<1> QED  BY <1>2, <1>3

\* The invariant holds in every reachable state.
THEOREM Invariance == Spec => []IInv
<1>1. IInv /\ [Next]_vars => IInv'
  <2> SUFFICES ASSUME IInv, [Next]_vars PROVE IInv'
    OBVIOUS
  <2>1. ASSUME NEW n \in Nodes, AddFirst(n) \/ AddLast(n) PROVE IInv'
    BY <2>1, AddFirstStep, AddLastStep
  <2>2. ASSUME NEW kind \in {"plain", "safe"}, NEW found \in SUBSET allocated,
               BeginWalk(kind, found)
        PROVE  IInv'
    BY <2>2, BeginStep
  <2>3. CASE WalkStep \/ Break
    BY <2>3, VisitStep, AdvanceStep, EndStep DEF WalkStep
  <2>4. CASE UNCHANGED vars
    BY <2>4 DEF vars, walkVars, IInv, TypeOK, Ring, HoldsAllocated, WalkInv
  <2> QED  BY <2>1, <2>2, <2>3, <2>4 DEF Next
<1> QED  BY <1>1, InitInv, PTL DEF Spec

\* Types, for any set of nodes.
THEOREM TypeCorrect == Spec => []TypeOK
BY Invariance, PTL DEF IInv

\* The pointers form the ring of the nodes in their order, for any set of nodes.
THEOREM RingKept == Spec => []Ring
BY Invariance, PTL DEF IInv

\* The list holds each allocated node once, for any set of nodes.
THEOREM AllocatedListed == Spec => []HoldsAllocated
BY Invariance, PTL DEF IInv

\* No walk looks into freed memory, for any set of nodes.
THEOREM NeverAfterFree == Spec => []NoUseAfterFree
<1>1. IInv => NoUseAfterFree
  <2> SUFFICES ASSUME IInv, walk # "idle"
               PROVE  /\ ~visited => item \in allocated \cup {List}
                      /\ visited => Following \in allocated \cup {List}
    BY DEF NoUseAfterFree
  <2>1. ~visited => item \in allocated \cup {List}
    BY DEF IInv, WalkInv
  <2> QED  BY <2>1, FollowingInList
<1> QED  BY <1>1, Invariance, PTL

-----------------------------------------------------------------------------
\* The cell whose body comes next.
Target == IF visited THEN Following ELSE item

\* What a walk has done so far: it deleted nodes that match only, and none that
\* matches is left before the cell it comes to next.
WalkProgress ==
  walk # "idle" =>
    /\ IsInjective(before)
    /\ Range(before) \ match \subseteq Range(order)
    /\ KeepsOrder(order, before)
    /\ \E c \in 1..(Len(order) + 1) : /\ At(order, c) = Target
                                      /\ \A j \in 1..Len(order) : j < c => order[j] \notin match

PInv == IInv /\ WalkProgress

\* A sequence without repetition keeps its own order.
LEMMA OwnOrder == ASSUME NEW S, NEW s \in Seq(S), IsInjective(s) PROVE KeepsOrder(s, s)
BY DEF KeepsOrder, IsInjective

\* A sequence without one of its elements keeps the order that the whole keeps.
LEMMA OrderKept ==
  ASSUME NEW S, NEW s \in Seq(S), NEW b \in Seq(S), NEW k \in 1..Len(s),
         NEW t, t = [i \in 1..(Len(s) - 1) |-> IF i < k THEN s[i] ELSE s[i + 1]],
         Range(t) \subseteq Range(s), KeepsOrder(s, b)
  PROVE  KeepsOrder(t, b)
<1> DEFINE From(i) == IF i < k THEN i ELSE i + 1
<1>0. Len(s) \in Nat /\ DOMAIN s = 1..Len(s)
  OBVIOUS
<1>1. /\ DOMAIN t = 1..(Len(s) - 1)
      /\ \A i \in DOMAIN t : From(i) \in DOMAIN s /\ t[i] = s[From(i)]
      /\ \A i, j \in DOMAIN t : i < j => From(i) < From(j)
  BY <1>0
<1>2. Range(t) \subseteq Range(b)
  BY DEF KeepsOrder
<1>3. \A i, j \in DOMAIN s, m, l \in DOMAIN b : s[i] = b[m] /\ s[j] = b[l] /\ i < j => m < l
  BY DEF KeepsOrder
<1> HIDE DEF From
<1>4. \A i, j \in DOMAIN t, m, l \in DOMAIN b : t[i] = b[m] /\ t[j] = b[l] /\ i < j => m < l
  BY <1>1, <1>3
<1> QED  BY <1>2, <1>4 DEF KeepsOrder

\* A walk begins before everything that matches.
LEMMA BeginProgress ==
  ASSUME IInv, NEW kind \in {"plain", "safe"}, NEW found \in SUBSET allocated,
         BeginWalk(kind, found)
  PROVE  WalkProgress'
<1> USE DEF IInv, BeginWalk
<1>1. order \in Seq(Nodes) /\ Len(order) \in Nat /\ IsInjective(order)
  BY DEF TypeOK, HoldsAllocated
<1>2. KeepsOrder(order, order)
  BY <1>1, OwnOrder
<1>3. next[List] = At(order, 1)
  <2>1. 0 \in 0..Len(order) /\ 0 + 1 = 1 /\ At(order, 0) = List
    BY <1>1 DEF At
  <2> QED  BY <2>1 DEF Ring
<1>4. 1 \in 1..(Len(order) + 1) /\ \A j \in 1..Len(order) : ~(j < 1)
  BY <1>1
<1>5. Target' = At(order, 1)
  BY <1>3 DEF Target
<1>6. At(order, 1)' = At(order, 1) /\ before' = order /\ order' = order
  BY DEF At
<1>7. IsInjective(before') /\ Range(before') \ match' \subseteq Range(order') /\ KeepsOrder(order', before')
  BY <1>1, <1>2, <1>6
<1>8. \E c \in 1..(Len(order') + 1) : /\ At(order', c) = Target'
                                      /\ \A j \in 1..Len(order') : j < c => order'[j] \notin match'
  BY <1>4, <1>5, <1>6
<1> QED  BY <1>7, <1>8 DEF WalkProgress

\* A step that brings the walk one cell nearer to the end of the list.
OneNearer ==
  \E c \in 1..Len(order) :
     /\ At(order, c) = Target
     /\ \E d \in 1..(Len(order') + 1) : At(order', d) = Target' /\ Len(order') - d = Len(order) - c - 1

\* The body leaves nothing behind that matches, and what lies before the walk gets
\* shorter by one cell.
LEMMA VisitProgress == ASSUME PInv, Visit PROVE WalkProgress' /\ OneNearer
<1>0. /\ IInv /\ WalkProgress /\ walk # "idle" /\ item # List /\ ~visited /\ visited'
      /\ UNCHANGED <<walk, item, ahead, match, before>>
  BY DEF PInv, Visit
<1>1. /\ order \in Seq(Nodes) /\ before \in Seq(Nodes) /\ Len(order) \in Nat
      /\ IsInjective(order) /\ DOMAIN order = 1..Len(order)
  BY <1>0 DEF IInv, TypeOK, HoldsAllocated
<1>2. PICK c \in 1..(Len(order) + 1) : /\ At(order, c) = item
                                       /\ \A j \in 1..Len(order) : j < c => order[j] \notin match
  BY <1>0 DEF WalkProgress, Target
<1>3. c \in 1..Len(order) /\ order[c] = item
  BY <1>0, <1>1, <1>2 DEF At
<1>4. next[item] = At(order, c + 1)
  BY <1>0, <1>1, <1>2, <1>3 DEF IInv, Ring
<1>5. CASE item \in match
  <2>1. walk = "safe" /\ Target' = At(order, c + 1)
    BY <1>0, <1>4, <1>5 DEF IInv, WalkInv, TypeOK, Target, Following
  <2>2. PICK k \in 1..Len(order) : order[k] = item /\ order' = Without(k)
    BY <1>0, <1>5 DEF Visit
  <2>3. k = c
    BY <2>2, <1>1, <1>3 DEF IsInjective
  <2>4. order' = [i \in 1..(Len(order) - 1) |-> IF i < c THEN order[i] ELSE order[i + 1]]
    BY <2>2, <2>3 DEF Without
  <2>5. Range(order') = Range(order) \ {item} /\ Len(order') = Len(order) - 1 /\ order' \in Seq(Nodes)
    <3>1. Range(order') = Range(order) \ {order[c]} /\ Len(order') = Len(order) - 1 /\ order' \in Seq(Nodes)
      <4>1. c \in 1..Len(order) /\ order \in Seq(Nodes) /\ IsInjective(order)
        BY <1>1, <1>3
      <4> QED  BY <4>1, <2>4, TakenFacts
    <3> QED  BY <3>1, <1>3
  <2>6. At(order', c) = At(order, c + 1)
    BY <1>1, <1>3, <2>4, <2>5 DEF At
  <2>7. c \in 1..(Len(order') + 1) /\ \A j \in 1..Len(order') : j < c => order'[j] \notin match
    BY <1>1, <1>2, <1>3, <2>4, <2>5
  <2>8. KeepsOrder(order', before)
    <3>1. KeepsOrder(order, before) /\ Range(order') \subseteq Range(order)
      BY <1>0, <2>5 DEF WalkProgress
    <3> QED  BY <1>1, <1>3, <2>4, <3>1, OrderKept
  <2>9. IsInjective(before) /\ Range(before) \ match \subseteq Range(order')
    BY <1>0, <1>5, <2>5 DEF WalkProgress
  <2>10. OneNearer
    BY <1>0, <1>1, <1>3, <2>1, <2>5, <2>6, <2>7, <1>2 DEF OneNearer, Target
  <2> QED  BY <1>0, <2>1, <2>6, <2>7, <2>8, <2>9, <2>10 DEF WalkProgress
<1>6. CASE item \notin match
  <2>1. Following' = next[item]
    <3>1. walk = "safe" => ahead = next[item]
      BY <1>0 DEF IInv, WalkInv
    <3>2. item \in Cells
      BY <1>3, <1>1 DEF Cells
    <3> QED  BY <1>0, <1>6, <3>1, <3>2 DEF Visit, Following, Deref
  <2>2. Target' = At(order, c + 1) /\ order' = order
    BY <1>0, <1>4, <1>6, <2>1 DEF Visit, Target
  <2>3. c + 1 \in 1..(Len(order) + 1) /\ \A j \in 1..Len(order) : j < c + 1 => order[j] \notin match
    BY <1>1, <1>2, <1>3, <1>6
  <2>4. /\ IsInjective(before) /\ Range(before) \ match \subseteq Range(order)
        /\ KeepsOrder(order, before)
    BY <1>0 DEF WalkProgress
  <2>5. OneNearer
    <3>1. At(order', c + 1) = Target' /\ Len(order') - (c + 1) = Len(order) - c - 1 /\ c + 1 \in 1..(Len(order') + 1)
      BY <1>1, <1>3, <2>2, <2>3
    <3>2. At(order, c) = Target
      BY <1>0, <1>2 DEF Target
    <3> QED  BY <1>3, <3>1, <3>2 DEF OneNearer
  <2> QED  BY <1>0, <2>2, <2>3, <2>4, <2>5 DEF WalkProgress
<1> QED  BY <1>5, <1>6

\* Going on keeps the place.
LEMMA AdvanceProgress == ASSUME PInv, Advance PROVE WalkProgress'
<1>1. Target' = Target /\ order' = order /\ before' = before /\ match' = match /\ walk # "idle"
  BY DEF Advance, Target
<1>2. WalkProgress
  BY DEF PInv
<1> QED  BY <1>1, <1>2 DEF WalkProgress

\* The invariant with the progress of the walk holds in every reachable state.
THEOREM ProgressInvariance == Spec => []PInv
<1>1. Init => WalkProgress
  BY DEF Init, WalkProgress
<1>2. PInv /\ [Next]_vars => WalkProgress'
  <2> SUFFICES ASSUME PInv, [Next]_vars PROVE WalkProgress'
    OBVIOUS
  <2>1. ASSUME NEW n \in Nodes, AddFirst(n) \/ AddLast(n) PROVE WalkProgress'
    BY <2>1 DEF AddFirst, AddLast, walkVars, WalkProgress
  <2>2. ASSUME NEW kind \in {"plain", "safe"}, NEW found \in SUBSET allocated,
               BeginWalk(kind, found)
        PROVE  WalkProgress'
    BY <2>2, BeginProgress DEF PInv
  <2>3. CASE Visit \/ Advance
    BY <2>3, VisitProgress, AdvanceProgress
  <2>4. CASE Finish \/ Break
    BY <2>4 DEF Finish, Break, WalkProgress
  <2>5. CASE UNCHANGED vars
    <3>1. Target' = Target /\ UNCHANGED <<walk, before, match, order>> /\ WalkProgress
      BY <2>5 DEF vars, walkVars, Target, Following, PInv
    <3> QED  BY <3>1 DEF WalkProgress
  <2> QED  BY <2>1, <2>2, <2>3, <2>4, <2>5 DEF Next, WalkStep
<1> QED  BY <1>1, <1>2, Invariance, PTL DEF Spec, PInv

\* A walk that comes to its end has deleted what matched and nothing else, and what
\* is left lies as it did (list.h:59), for any set of nodes.
THEOREM WalkComplete == Spec => []WalkDeletesMatching
<1>1. PInv => WalkDeletesMatching
  <2> SUFFICES ASSUME PInv, walk # "idle", item = List
               PROVE  Range(order) = Range(before) \ match /\ KeepsOrder(order, before)
    BY DEF WalkDeletesMatching
  <2> USE DEF PInv, IInv
  <2>1. order \in Seq(Nodes) /\ Len(order) \in Nat /\ DOMAIN order = 1..Len(order)
    BY DEF TypeOK
  <2>2. ~visited
    BY NodesAssumption DEF WalkInv, TypeOK
  <2>3. PICK c \in 1..(Len(order) + 1) : /\ At(order, c) = List
                                         /\ \A j \in 1..Len(order) : j < c => order[j] \notin match
    BY <2>2 DEF WalkProgress, Target
  <2>4. c = Len(order) + 1
    <3>1. \A i \in 1..Len(order) : order[i] \in Nodes
      BY <2>1
    <3> QED  BY <2>1, <2>3, <3>1, NodesAssumption DEF At
  <2>5. \A j \in 1..Len(order) : order[j] \notin match
    BY <2>1, <2>3, <2>4
  <2>6. Range(order) \cap match = {}
    BY <2>1, <2>5 DEF Range
  <2>7. KeepsOrder(order, before) /\ Range(before) \ match \subseteq Range(order)
    BY DEF WalkProgress
  <2> QED  BY <2>6, <2>7 DEF KeepsOrder
<1> QED  BY <1>1, ProgressInvariance, PTL
-----------------------------------------------------------------------------
\* The number of nodes from the one whose body comes next to the end of the list.
Left == CHOOSE k \in 0..Len(order) : At(order, Len(order) + 1 - k) = Target

\* A cell has one place in the list.
LEMMA OnePlace ==
  ASSUME NEW s \in Seq(Nodes), IsInjective(s), NEW c \in 1..(Len(s) + 1), NEW x, At(s, c) = x
  PROVE  (CHOOSE k \in 0..Len(s) : At(s, Len(s) + 1 - k) = x) = Len(s) + 1 - c
<1>1. Len(s) \in Nat /\ DOMAIN s = 1..Len(s) /\ \A i \in 1..Len(s) : s[i] \in Nodes
  OBVIOUS
<1>2. ASSUME NEW d \in 1..(Len(s) + 1), At(s, d) = x PROVE d = c
  BY <1>1, <1>2, NodesAssumption DEF At, IsInjective
<1>3. Len(s) + 1 - c \in 0..Len(s) /\ Len(s) + 1 - (Len(s) + 1 - c) = c
  BY <1>1
<1>4. ASSUME NEW k \in 0..Len(s), At(s, Len(s) + 1 - k) = x PROVE k = Len(s) + 1 - c
  <2>1. Len(s) + 1 - k \in 1..(Len(s) + 1)
    BY <1>1
  <2>2. Len(s) + 1 - k = c
    BY <1>2, <1>4, <2>1
  <2> QED  BY <1>1, <2>2
<1> QED  BY <1>3, <1>4

\* Each body brings a walk one node nearer to its end, the assignments between two bodies
\* leave it where it is, and it never begins again: a walk takes as many rounds as there
\* are nodes when it begins, whichever it deletes (list.h:59).
THEOREM WalkShortens ==
  Spec => [][/\ Visit => Left \in Nat \ {0} /\ Left' = Left - 1
             /\ Advance => Left' = Left
             /\ \A kind \in {"plain", "safe"}, found \in SUBSET allocated :
                   BeginWalk(kind, found) => Left' = Len(order)]_vars
<1>1. ASSUME PInv, PInv', Visit PROVE Left \in Nat \ {0} /\ Left' = Left - 1
  <2>1. PICK c \in 1..Len(order), d \in 1..(Len(order') + 1) :
           At(order, c) = Target /\ At(order', d) = Target' /\ Len(order') - d = Len(order) - c - 1
    BY <1>1, VisitProgress DEF OneNearer
  <2>2. /\ order \in Seq(Nodes) /\ IsInjective(order) /\ Len(order) \in Nat
        /\ order' \in Seq(Nodes) /\ IsInjective(order') /\ Len(order') \in Nat
    BY <1>1 DEF PInv, IInv, TypeOK, HoldsAllocated
  <2>3. c \in 1..(Len(order) + 1)
    BY <2>2
  <2>4. Left = Len(order) + 1 - c
    BY <2>1, <2>2, <2>3, OnePlace DEF Left
  <2>5. Left' = Len(order') + 1 - d
    BY <2>1, <2>2, OnePlace DEF Left
  <2> QED  BY <2>1, <2>2, <2>4, <2>5
<1>2. ASSUME Advance PROVE Left' = Left
  <2>1. Target' = Target /\ order' = order
    BY <1>2 DEF Advance, Target
  <2> QED  BY <2>1 DEF Left
<1>3. ASSUME PInv, NEW kind \in {"plain", "safe"}, NEW found \in SUBSET allocated, BeginWalk(kind, found)
      PROVE  Left' = Len(order)
  <2>1. order \in Seq(Nodes) /\ IsInjective(order) /\ Len(order) \in Nat /\ order' = order
    BY <1>3 DEF PInv, IInv, TypeOK, HoldsAllocated, BeginWalk
  <2>2. At(order, 1) = Target' /\ 1 \in 1..(Len(order) + 1)
    <3>1. 0 \in 0..Len(order) /\ 0 + 1 = 1 /\ At(order, 0) = List
      BY <2>1 DEF At
    <3> QED  BY <1>3, <2>1, <3>1 DEF PInv, IInv, Ring, BeginWalk, Target
  <2>3. Left' = Len(order) + 1 - 1
    BY <2>1, <2>2, OnePlace DEF Left
  <2> QED  BY <2>1, <2>3
<1>4. PInv /\ PInv' /\ [Next]_vars =>
        [/\ Visit => Left \in Nat \ {0} /\ Left' = Left - 1
         /\ Advance => Left' = Left
         /\ \A kind \in {"plain", "safe"}, found \in SUBSET allocated :
               BeginWalk(kind, found) => Left' = Len(order)]_vars
  BY <1>1, <1>2, <1>3
<1> QED  BY <1>4, ProgressInvariance, PTL DEF Spec
=============================================================================
