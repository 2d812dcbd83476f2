------------------------------- MODULE DlList -------------------------------
(***************************************************************************)
(* The doubly-linked list of list.c and list.h with its pointers, as the   *)
(* daemon uses it: nodes are allocated and added, walks look for a node,   *)
(* and walks delete and free the nodes that match a condition, the one     *)
(* they stand on included.  Each list is used under one mutex, or by one   *)
(* thread: there is one walk or one addition at a time.                    *)
(***************************************************************************)
EXTENDS Naturals, Sequences, Functions

CONSTANTS Nodes, \* the list members of everything malloc may return
          List,  \* the list's own struct dl_list
          NULL

ASSUME NodesAssumption == List \notin Nodes /\ NULL \notin Nodes \cup {List}

VARIABLES next, prev,  \* the two pointers of every struct dl_list
          allocated,   \* nodes that malloc returned and free has not had
          walk,        \* "idle", "safe" or "plain": the macro that runs, if one does
          item, ahead, \* its loop variables; only the safe walk has the second
          visited,     \* the body of the loop has run for item
          match,       \* the nodes that the walk deletes
          order,       \* history: the nodes that were added and not deleted, in order
          before       \* history: order when the walk began

walkVars == <<walk, item, ahead, visited, match, before>>
vars == <<next, prev, allocated, order, walkVars>>

Cells == Nodes \cup {List}

\* dl_list_init
Init == /\ next = [c \in Cells |-> IF c = List THEN List ELSE NULL]
        /\ prev = [c \in Cells |-> IF c = List THEN List ELSE NULL]
        /\ allocated = {} /\ order = <<>>
        /\ walk = "idle" /\ item = NULL /\ ahead = NULL /\ visited = FALSE
        /\ match = {} /\ before = <<>>

\* What the pointer p of cell c holds; nothing is known of the cell NULL points to.
Deref(p, c) == IF c \in Cells THEN p[c] ELSE NULL

-----------------------------------------------------------------------------
\* dl_list_add: n comes after the cell c.
InsertAfter(c, n) ==
  /\ next' = [next EXCEPT ![n] = next[c], ![c] = n]
  /\ prev' = [prev EXCEPT ![n] = c, ![next[c]] = n]

\* malloc and dl_list_add, which puts the node first.
AddFirst(n) == /\ walk = "idle" /\ n \notin allocated
               /\ allocated' = allocated \cup {n}
               /\ InsertAfter(List, n)
               /\ order' = [i \in 1..(Len(order) + 1) |-> IF i = 1 THEN n ELSE order[i - 1]]
               /\ UNCHANGED walkVars

\* Mistake to be caught: the new node is added after the list itself.
AfterList == List

\* The cell dl_list_add_tail gives to dl_list_add.
LastCell == prev[List]

\* malloc and dl_list_add_tail.
AddLast(n) == /\ walk = "idle" /\ n \notin allocated
              /\ allocated' = allocated \cup {n}
              /\ InsertAfter(LastCell, n)
              /\ order' = Append(order, n)
              /\ UNCHANGED walkVars

\* Mistake to be caught: the successor keeps its pointer to the deleted node.
NextOnly(n) == /\ next' = [next EXCEPT ![prev[n]] = next[n], ![n] = NULL]
               /\ prev' = [prev EXCEPT ![n] = NULL]

\* dl_list_del
Unlink(n) == /\ next' = [next EXCEPT ![prev[n]] = next[n], ![n] = NULL]
             /\ prev' = [prev EXCEPT ![next[n]] = prev[n], ![n] = NULL]

-----------------------------------------------------------------------------
\* The first two assignments of a walk.  Only the safe one looks ahead, and only
\* it may delete what it finds.
BeginWalk(kind, found) ==
  /\ walk = "idle"
  /\ kind = "plain" => found = {}
  /\ walk' = kind
  /\ item' = next[List]
  /\ ahead' = IF kind = "safe" THEN Deref(next, next[List]) ELSE NULL
  /\ visited' = FALSE
  /\ match' = found
  /\ before' = order
  /\ UNCHANGED <<next, prev, allocated, order>>

\* The order without its element at place k.
Without(k) == [i \in 1..(Len(order) - 1) |-> IF i < k THEN order[i] ELSE order[i + 1]]

\* Mistake to be caught: the node is unlinked and stays in memory.
KeepMemory(n) == allocated

\* free
Freed(n) == allocated \ {n}

\* The body of the loop: a node that matches is unlinked and freed.
Visit == /\ walk # "idle" /\ item # List /\ ~visited
         /\ visited' = TRUE
         /\ IF item \in match
            THEN /\ Unlink(item)
                 /\ allocated' = Freed(item)
                 /\ \E k \in 1..Len(order) : order[k] = item /\ order' = Without(k)
            ELSE UNCHANGED <<next, prev, allocated, order>>
         /\ UNCHANGED <<walk, item, ahead, match, before>>

\* Mistake to be caught: the safe walk reads the pointer of the node it may have freed.
FromItem == Deref(next, item)

\* Mistake to be caught: n = n->next comes before item = n.
SwappedOrder == Deref(next, ahead)

\* Where the walk goes from item.
Following == IF walk = "safe" THEN ahead ELSE Deref(next, item)

\* The last assignments of a round.
Advance == /\ walk # "idle" /\ visited
           /\ item' = Following
           /\ ahead' = IF walk = "safe" THEN Deref(next, ahead) ELSE NULL
           /\ visited' = FALSE
           /\ UNCHANGED <<next, prev, allocated, order, walk, match, before>>

\* The walk is over.
Finish == /\ walk # "idle" /\ item = List
          /\ walk' = "idle" /\ item' = NULL /\ ahead' = NULL /\ visited' = FALSE
          /\ match' = {} /\ before' = <<>>
          /\ UNCHANGED <<next, prev, allocated, order>>

\* The walk is left by a break, or by a return, from the body.
Break == /\ walk # "idle" /\ visited
         /\ walk' = "idle" /\ item' = NULL /\ ahead' = NULL /\ visited' = FALSE
         /\ match' = {} /\ before' = <<>>
         /\ UNCHANGED <<next, prev, allocated, order>>

WalkStep == Visit \/ Advance \/ Finish

Next == \/ \E n \in Nodes : AddFirst(n) \/ AddLast(n)
        \/ \E kind \in {"plain", "safe"}, found \in SUBSET allocated : BeginWalk(kind, found)
        \/ WalkStep \/ Break

Spec == Init /\ [][Next]_vars

\* The thread that walks goes on.
FairSpec == Spec /\ WF_vars(WalkStep)

-----------------------------------------------------------------------------
TypeOK == /\ next \in [Cells -> Cells \cup {NULL}]
          /\ prev \in [Cells -> Cells \cup {NULL}]
          /\ allocated \subseteq Nodes
          /\ walk \in {"idle", "safe", "plain"}
          /\ item \in Cells \cup {NULL} /\ (walk # "idle" => item # NULL)
          /\ ahead \in Cells \cup {NULL} /\ (walk = "safe" => ahead # NULL)
          /\ visited \in BOOLEAN
          /\ match \subseteq Nodes
          /\ order \in Seq(Nodes) /\ before \in Seq(Nodes)

\* The cell at place i of the ring of s; the list itself lies before the first node and
\* after the last.
At(s, i) == IF i \in 1..Len(s) THEN s[i] ELSE List

\* Both chains of pointers run through the nodes in their order and through the
\* list itself, however nodes are added and deleted (list.c:23 and :36).
Ring == \A i \in 0..Len(order) : /\ next[At(order, i)] = At(order, i + 1)
                                 /\ prev[At(order, i + 1)] = At(order, i)

\* The list holds each allocated node once: no node is lost, none is left in the
\* list after its free (iotc_devices.c:158, socket_server.c:188).
HoldsAllocated == /\ IsInjective(order) /\ Range(order) = allocated
                  /\ {n \in Nodes : next[n] # NULL} = allocated

\* A walk that deletes the node it stands on never looks into freed memory
\* afterwards: the cell it goes to, and the one ahead, are still in the list (list.h:59).
NoUseAfterFree == walk # "idle" => /\ ~visited => item \in allocated \cup {List}
                                   /\ visited => Following \in allocated \cup {List}

\* The nodes of s are among those of t, and lie in the same order.
KeepsOrder(s, t) == /\ Range(s) \subseteq Range(t)
                    /\ \A i, j \in DOMAIN s, k, l \in DOMAIN t :
                          s[i] = t[k] /\ s[j] = t[l] /\ i < j => k < l

\* A walk that comes to its end has deleted what matched and nothing else: what is
\* left lies in the list as it did when the walk began.
WalkDeletesMatching ==
  walk # "idle" /\ item = List => /\ Range(order) = Range(before) \ match
                                  /\ KeepsOrder(order, before)

\* A walk comes to its end: it never goes round the ring past its own list.
WalkEnds == (walk # "idle") ~> (walk = "idle")
=============================================================================
