----------------------- MODULE MqttSessionListProofs -----------------------
(***************************************************************************)
(* The session's two linked lists (mqtt_session.c, linked_list.h), for     *)
(* every size of the session and every set of items.                       *)
(*                                                                         *)
(* The inductive invariant names what the pointers only imply: there are   *)
(* two sequences of slots, and the nodes of each, with its head, are a     *)
(* ring.  Each operation is shown to make of these sequences what its name *)
(* says; list_for_each returns them.                                       *)
(***************************************************************************)
EXTENDS MqttSessionList, MqttSessionProofs

Heads == {Used, Nonused}
Memories == [next : [Nodes -> Nodes \cup {Null}],
             prev : [Nodes -> Nodes \cup {Null}]]

(* The nodes of a list by their place: the head comes before the first and *)
(* after the last.                                                         *)
At(h, s, i) == IF i \in 1..Len(s) THEN s[i] ELSE h

(* The pointers of the list with that head follow the sequence, in both    *)
(* directions.                                                             *)
Ring(l, h, s) ==
    \A i \in 0..Len(s) : /\ l.next[At(h, s, i)] = At(h, s, i + 1)
                         /\ l.prev[At(h, s, i + 1)] = At(h, s, i)

(* A sequence of slots, each once. *)
Chain(s) ==
    /\ s \in Seq(Slots) /\ Len(s) \in Nat
    /\ \A i, j \in 1..Len(s) : s[i] = s[j] => i = j

On(s, n) == \E j \in 1..Len(s) : s[j] = n

(* A chain without an entry; with one at its front; with one at its end.   *)
Cut(s, k) == [j \in 1..(Len(s) - 1) |-> IF j < k THEN s[j] ELSE s[j + 1]]
InFront(s, x) == [j \in 1..(Len(s) + 1) |-> IF j = 1 THEN x ELSE s[j - 1]]
AtEnd(s, x) == [j \in 1..(Len(s) + 1) |-> IF j = Len(s) + 1 THEN x ELSE s[j]]

-----------------------------------------------------------------------------
(* Nodes and places                                                        *)

(* The slots and the two heads are different nodes, none of them null. *)
LEMMA NodeKinds ==
    /\ SessionSize \in Nat \ {0}
    /\ Slots = 1..SessionSize
    /\ Slots \subseteq Nodes /\ Heads \subseteq Nodes
    /\ \A n \in Nodes : n \in Slots \/ n = Used \/ n = Nonused
    /\ Used \notin Slots /\ Nonused \notin Slots /\ Used # Nonused
    /\ Null \notin Nodes /\ Nodes \subseteq Int
BY SessionSizeAssumption DEF Slots, Nodes, Used, Nonused, Null, Heads

(* Every place holds a node; two places, an entry each or one of them the  *)
(* head, hold different nodes.                                             *)
LEMMA PlacesDiffer ==
    ASSUME NEW h \in Heads, NEW s, Chain(s)
    PROVE  /\ \A i \in Int : At(h, s, i) \in Nodes
           /\ \A i \in 1..Len(s) : At(h, s, i) = s[i] /\ s[i] \in Slots
           /\ At(h, s, 0) = h /\ At(h, s, Len(s) + 1) = h
           /\ \A i, j \in 0..Len(s) : At(h, s, i) = At(h, s, j) => i = j
           /\ \A i, j \in 1..(Len(s) + 1) :
                 At(h, s, i) = At(h, s, j) => i = j
<1>1. /\ Len(s) \in Nat /\ h \notin Slots /\ h \in Nodes
      /\ \A i \in 1..Len(s) : s[i] \in Slots
      /\ \A i, j \in 1..Len(s) : s[i] = s[j] => i = j
  BY NodeKinds, ElementOfSeq DEF Chain, Heads
<1>2. \A i \in 1..Len(s) : At(h, s, i) = s[i]
  BY DEF At
<1>3. \A i : i \notin 1..Len(s) => At(h, s, i) = h
  BY DEF At
<1>4. \A i \in Int : At(h, s, i) \in Nodes
  BY <1>1, <1>2, <1>3, NodeKinds
<1>5. 0 \notin 1..Len(s) /\ Len(s) + 1 \notin 1..Len(s)
  BY <1>1
<1>6. \A i \in 0..Len(s) : i \in 1..Len(s) \/ i = 0
  BY <1>1
<1>7. \A i \in 1..(Len(s) + 1) : i \in 1..Len(s) \/ i = Len(s) + 1
  BY <1>1
<1>8. ASSUME NEW i, NEW j, At(h, s, i) = At(h, s, j),
             i \in 1..Len(s), j \notin 1..Len(s)
      PROVE  FALSE
  <2>1. s[i] = h
    BY <1>2, <1>3, <1>8, Zenon
  <2>2. QED
    BY <1>1, <1>8, <2>1
<1>9. ASSUME NEW i, NEW j, At(h, s, i) = At(h, s, j),
             i \in 1..Len(s) \/ j \in 1..Len(s)
      PROVE  i = j
  <2>1. i \in 1..Len(s) /\ j \in 1..Len(s)
    BY <1>8, <1>9, Zenon
  <2>2. s[i] = s[j]
    BY <1>2, <1>9, <2>1, Zenon
  <2>3. QED
    BY <1>1, <2>1, <2>2, Zenon
<1>10. QED
  BY <1>1, <1>2, <1>3, <1>4, <1>5, <1>6, <1>7, <1>9

(* A chain without one of its entries. *)
LEMMA CutChain ==
    ASSUME NEW s, Chain(s), NEW k \in 1..Len(s)
    PROVE  /\ Chain(Cut(s, k)) /\ Len(Cut(s, k)) = Len(s) - 1
           /\ \A n : On(Cut(s, k), n) <=> n # s[k] /\ On(s, n)
           /\ \A h : \A i \in 0..Len(s) :
                At(h, Cut(s, k), i) =
                  IF i < k THEN At(h, s, i) ELSE At(h, s, i + 1)
<1> DEFINE t == Cut(s, k)
<1>1. /\ Len(s) \in Nat /\ \A i \in 1..Len(s) : s[i] \in Slots
      /\ \A i, j \in 1..Len(s) : s[i] = s[j] => i = j
  BY ElementOfSeq DEF Chain
<1>2. /\ t \in Seq(Slots) /\ Len(t) = Len(s) - 1 /\ Len(t) \in Nat
      /\ \A j \in 1..Len(t) : t[j] = IF j < k THEN s[j] ELSE s[j + 1]
  <2>1. Len(s) - 1 \in Nat /\ \A j \in 1..(Len(s) - 1) :
           j \in 1..Len(s) /\ j + 1 \in 1..Len(s)
    BY <1>1
  <2>2. t \in [1..(Len(s) - 1) -> Slots]
    BY <1>1, <2>1 DEF Cut
  <2>3. t \in Seq(Slots) /\ Len(t) = Len(s) - 1
    BY <2>1, <2>2, LenProperties, SeqDef, SMT
  <2>4. QED
    BY <2>1, <2>3 DEF Cut
<1> HIDE DEF t
<1>3. \A i, j \in 1..Len(t) : t[i] = t[j] => i = j
  BY <1>1, <1>2
<1>4. ASSUME NEW n PROVE On(t, n) <=> n # s[k] /\ On(s, n)
  <2>1. ASSUME NEW j \in 1..Len(t)
        PROVE  t[j] # s[k] /\ \E i \in 1..Len(s) : s[i] = t[j]
    BY <1>1, <1>2
  <2>2. ASSUME NEW i \in 1..Len(s), s[i] # s[k]
        PROVE  \E j \in 1..Len(t) : t[j] = s[i]
    <3>1. CASE i < k
      BY <1>1, <1>2, <3>1
    <3>2. CASE i > k
      <4>1. i - 1 \in 1..Len(t) /\ t[i - 1] = s[i]
        BY <1>1, <1>2, <3>2
      <4>2. QED
        BY <4>1
    <3>3. QED
      BY <1>1, <2>2, <3>1, <3>2
  <2>3. QED
    BY <2>1, <2>2 DEF On
<1>5. ASSUME NEW h, NEW i \in 0..Len(s)
      PROVE  At(h, t, i) = IF i < k THEN At(h, s, i) ELSE At(h, s, i + 1)
  BY <1>1, <1>2 DEF At
<1>6. QED
  BY <1>2, <1>3, <1>4, <1>5 DEF t, Chain

(* A chain with an entry more, at its front, *)
LEMMA InFrontChain ==
    ASSUME NEW s, Chain(s), NEW x \in Slots, ~On(s, x)
    PROVE  /\ Chain(InFront(s, x)) /\ Len(InFront(s, x)) = Len(s) + 1
           /\ \A n : On(InFront(s, x), n) <=> n = x \/ On(s, n)
           /\ \A h : At(h, InFront(s, x), 0) = h /\ At(h, InFront(s, x), 1) = x
           /\ \A h : \A i \in 1..(Len(s) + 1) :
                At(h, InFront(s, x), i + 1) = At(h, s, i)
<1> DEFINE t == InFront(s, x)
<1>1. /\ Len(s) \in Nat /\ \A i \in 1..Len(s) : s[i] \in Slots
      /\ \A i, j \in 1..Len(s) : s[i] = s[j] => i = j
  BY ElementOfSeq DEF Chain
<1>2. /\ t \in Seq(Slots) /\ Len(t) = Len(s) + 1 /\ Len(t) \in Nat
      /\ t[1] = x /\ \A j \in 1..Len(s) : t[j + 1] = s[j]
  <2>1. Len(s) + 1 \in Nat /\ \A j \in 1..(Len(s) + 1) :
           j = 1 \/ j - 1 \in 1..Len(s)
    BY <1>1
  <2>2. t \in [1..(Len(s) + 1) -> Slots]
    BY <1>1, <2>1 DEF InFront
  <2>3. t \in Seq(Slots) /\ Len(t) = Len(s) + 1
    BY <2>1, <2>2, LenProperties, SeqDef, SMT
  <2>4. QED
    BY <1>1, <2>1, <2>3 DEF InFront
<1> HIDE DEF t
<1>3. \A j \in 1..Len(t) : j = 1 \/ (j - 1 \in 1..Len(s) /\ t[j] = s[j - 1])
  <2>1. ASSUME NEW j \in 1..Len(t), j # 1
        PROVE  j - 1 \in 1..Len(s) /\ t[j] = s[j - 1]
    <3>1. j - 1 \in 1..Len(s) /\ (j - 1) + 1 = j
      BY <1>1, <1>2, <2>1
    <3>2. QED
      BY <1>2, <3>1
  <2>2. QED
    BY <2>1
<1>4. \A i, j \in 1..Len(t) : t[i] = t[j] => i = j
  <2>1. \A j \in 1..Len(s) : s[j] # x
    BY DEF On
  <2>2. QED
    BY <1>1, <1>2, <1>3, <2>1
<1>5. ASSUME NEW n PROVE On(t, n) <=> n = x \/ On(s, n)
  <2>1. 1 \in 1..Len(t) /\ \A j \in 1..Len(s) : j + 1 \in 1..Len(t)
    BY <1>1, <1>2
  <2>2. ASSUME NEW j \in 1..Len(t), t[j] = n
        PROVE  n = x \/ \E i \in 1..Len(s) : s[i] = n
    BY <1>2, <1>3, <2>2, Zenon
  <2>3. ASSUME NEW i \in 1..Len(s), s[i] = n
        PROVE  \E j \in 1..Len(t) : t[j] = n
    BY <1>2, <2>1, <2>3, Zenon
  <2>4. QED
    BY <1>2, <2>1, <2>2, <2>3, Zenon DEF On
<1>6. ASSUME NEW h PROVE At(h, t, 0) = h /\ At(h, t, 1) = x
  BY <1>1, <1>2 DEF At
<1>7. ASSUME NEW h, NEW i \in 1..(Len(s) + 1)
      PROVE  At(h, t, i + 1) = At(h, s, i)
  BY <1>1, <1>2 DEF At
<1>8. QED
  BY <1>2, <1>4, <1>5, <1>6, <1>7 DEF t, Chain

(* or at its end. *)
LEMMA AtEndChain ==
    ASSUME NEW s, Chain(s), NEW x \in Slots, ~On(s, x)
    PROVE  /\ Chain(AtEnd(s, x)) /\ Len(AtEnd(s, x)) = Len(s) + 1
           /\ \A n : On(AtEnd(s, x), n) <=> n = x \/ On(s, n)
           /\ \A h : \A i \in 0..Len(s) :
                At(h, AtEnd(s, x), i) = At(h, s, i)
           /\ \A h : /\ At(h, AtEnd(s, x), Len(s) + 1) = x
                     /\ At(h, AtEnd(s, x), Len(s) + 2) = h
<1> DEFINE t == AtEnd(s, x)
<1>1. /\ Len(s) \in Nat /\ \A i \in 1..Len(s) : s[i] \in Slots
      /\ \A i, j \in 1..Len(s) : s[i] = s[j] => i = j
  BY ElementOfSeq DEF Chain
<1>2. /\ t \in Seq(Slots) /\ Len(t) = Len(s) + 1 /\ Len(t) \in Nat
      /\ t[Len(s) + 1] = x /\ \A j \in 1..Len(s) : t[j] = s[j]
  <2>1. Len(s) + 1 \in Nat /\ \A j \in 1..(Len(s) + 1) :
           j = Len(s) + 1 \/ j \in 1..Len(s)
    BY <1>1
  <2>2. t \in [1..(Len(s) + 1) -> Slots]
    BY <1>1, <2>1 DEF AtEnd
  <2>3. t \in Seq(Slots) /\ Len(t) = Len(s) + 1
    BY <2>1, <2>2, LenProperties, SeqDef, SMT
  <2>4. QED
    BY <1>1, <2>1, <2>3 DEF AtEnd
<1> HIDE DEF t
<1>3. \A j \in 1..Len(t) : j = Len(s) + 1 \/ j \in 1..Len(s)
  BY <1>1, <1>2
<1>4. \A i, j \in 1..Len(t) : t[i] = t[j] => i = j
  <2>1. \A j \in 1..Len(s) : s[j] # x
    BY DEF On
  <2>2. QED
    BY <1>1, <1>2, <1>3, <2>1
<1>5. ASSUME NEW n PROVE On(t, n) <=> n = x \/ On(s, n)
  <2>1. /\ Len(s) + 1 \in 1..Len(t)
        /\ \A j \in 1..Len(s) : j \in 1..Len(t)
    BY <1>1, <1>2
  <2>2. QED
    BY <1>2, <1>3, <2>1 DEF On
<1>6. ASSUME NEW h, NEW i \in 0..Len(s) PROVE At(h, t, i) = At(h, s, i)
  BY <1>1, <1>2 DEF At
<1>7. ASSUME NEW h
      PROVE  At(h, t, Len(s) + 1) = x /\ At(h, t, Len(s) + 2) = h
  BY <1>1, <1>2 DEF At
<1>8. QED
  BY <1>2, <1>4, <1>5, <1>6, <1>7 DEF t, Chain

-----------------------------------------------------------------------------
(* linked_list.h on a ring                                                 *)

(* list_del leaves the other nodes alone. *)
LEMMA DelWrites ==
    ASSUME NEW l \in Memories, NEW entry \in Nodes,
           l.prev[entry] \in Nodes, l.next[entry] \in Nodes,
           l.prev[entry] # entry, l.next[entry] # entry
    PROVE  /\ list_del(l, entry) \in Memories
           /\ list_del(l, entry).next[l.prev[entry]] = l.next[entry]
           /\ list_del(l, entry).prev[l.next[entry]] = l.prev[entry]
           /\ \A x \in Nodes : x # entry /\ x # l.prev[entry] =>
                list_del(l, entry).next[x] = l.next[x]
           /\ \A x \in Nodes : x # entry /\ x # l.next[entry] =>
                list_del(l, entry).prev[x] = l.prev[x]
BY DEF list_del, Memories

(* A list whose nodes are not written stays what it was. *)
LEMMA RingFrame ==
    ASSUME NEW l, NEW m, NEW h \in Heads, NEW s, Chain(s), Ring(l, h, s),
           \A x \in Nodes : x = h \/ On(s, x) =>
              m.next[x] = l.next[x] /\ m.prev[x] = l.prev[x]
    PROVE  Ring(m, h, s)
<1>1. ASSUME NEW i \in Int
      PROVE  /\ At(h, s, i) \in Nodes
             /\ At(h, s, i) = h \/ On(s, At(h, s, i))
  BY PlacesDiffer DEF At, On
<1>2. Len(s) \in Nat
  BY DEF Chain
<1>3. QED
  <2> SUFFICES ASSUME NEW i \in 0..Len(s)
               PROVE  /\ m.next[At(h, s, i)] = At(h, s, i + 1)
                      /\ m.prev[At(h, s, i + 1)] = At(h, s, i)
    BY DEF Ring
  <2>1. i \in Int /\ i + 1 \in Int
    BY <1>2
  <2>2. /\ l.next[At(h, s, i)] = At(h, s, i + 1)
        /\ l.prev[At(h, s, i + 1)] = At(h, s, i)
    BY DEF Ring
  <2>3. /\ m.next[At(h, s, i)] = l.next[At(h, s, i)]
        /\ m.prev[At(h, s, i + 1)] = l.prev[At(h, s, i + 1)]
    BY <1>1, <2>1
  <2>4. QED
    BY <2>2, <2>3

(* list_del takes the entry out of its list. *)
LEMMA DelRing ==
    ASSUME NEW l \in Memories, NEW h \in Heads, NEW s, Chain(s),
           Ring(l, h, s), NEW k \in 1..Len(s)
    PROVE  /\ list_del(l, s[k]) \in Memories
           /\ Ring(list_del(l, s[k]), h, Cut(s, k))
           /\ \A x \in Nodes : x # h /\ ~On(s, x) =>
                /\ list_del(l, s[k]).next[x] = l.next[x]
                /\ list_del(l, s[k]).prev[x] = l.prev[x]
<1> DEFINE m == list_del(l, s[k])
           t == Cut(s, k)
           p == At(h, s, k - 1)
           n == At(h, s, k + 1)
           e == At(h, s, k)
<1>1. /\ Len(s) \in Nat /\ k - 1 \in 0..Len(s) /\ k \in 0..Len(s)
      /\ k \in 1..(Len(s) + 1) /\ k + 1 \in 1..(Len(s) + 1)
      /\ k \in Int /\ k - 1 # k /\ k + 1 # k /\ (k - 1) + 1 = k
  BY DEF Chain
<1>2. /\ \A i \in Int : At(h, s, i) \in Nodes
      /\ e = s[k]
      /\ \A i, j \in 0..Len(s) : At(h, s, i) = At(h, s, j) => i = j
      /\ \A i, j \in 1..(Len(s) + 1) : At(h, s, i) = At(h, s, j) => i = j
  BY PlacesDiffer
<1>3. \A i \in 0..Len(s) : /\ l.next[At(h, s, i)] = At(h, s, i + 1)
                           /\ l.prev[At(h, s, i + 1)] = At(h, s, i)
  BY DEF Ring
<1>4. l.prev[s[k]] = p /\ l.next[s[k]] = n
  BY <1>1, <1>2, <1>3
<1>5. /\ p \in Nodes /\ n \in Nodes /\ s[k] \in Nodes
      /\ p # s[k] /\ n # s[k]
  BY <1>1, <1>2
<1>6. /\ m \in Memories /\ m.next[p] = n /\ m.prev[n] = p
      /\ \A x \in Nodes : x # e /\ x # p => m.next[x] = l.next[x]
      /\ \A x \in Nodes : x # e /\ x # n => m.prev[x] = l.prev[x]
  <2> HIDE DEF p, n, e
  <2>1. QED
    BY <1>2, <1>4, <1>5, DelWrites
<1> HIDE DEF m
<1>7. /\ Len(t) = Len(s) - 1
      /\ \A i \in 0..Len(s) : At(h, t, i) =
            IF i < k THEN At(h, s, i) ELSE At(h, s, i + 1)
  BY CutChain
<1> HIDE DEF t
<1>8. ASSUME NEW i \in 0..Len(t)
      PROVE  /\ m.next[At(h, t, i)] = At(h, t, i + 1)
             /\ m.prev[At(h, t, i + 1)] = At(h, t, i)
  <2>1. i \in 0..Len(s) /\ i + 1 \in 0..Len(s) /\ i \in Int
    BY <1>1, <1>7
  <2>2. CASE i < k - 1
    <3>1. At(h, t, i) = At(h, s, i) /\ At(h, t, i + 1) = At(h, s, i + 1)
      BY <1>1, <1>7, <2>1, <2>2
    <3>2. /\ At(h, s, i) # e /\ At(h, s, i) # p
          /\ At(h, s, i + 1) # e /\ At(h, s, i + 1) # n
      BY <1>1, <1>2, <2>1, <2>2
    <3>3. At(h, s, i) \in Nodes /\ At(h, s, i + 1) \in Nodes
      BY <1>2, <2>1
    <3>4. QED
      BY <1>3, <1>6, <2>1, <3>1, <3>2, <3>3, Zenon
  <2>3. CASE i = k - 1
    <3>1. At(h, t, i) = p /\ At(h, t, i + 1) = n
      BY <1>1, <1>7, <2>1, <2>3
    <3>2. QED
      BY <1>6, <3>1, Zenon
  <2>4. CASE i > k - 1
    <3>1. /\ i + 1 \in 0..Len(s) /\ i + 2 \in 1..(Len(s) + 1)
          /\ (i + 1) + 1 = i + 2 /\ i + 2 \in Int /\ i + 1 \in Int
          /\ At(h, t, i) = At(h, s, i + 1) /\ At(h, t, i + 1) = At(h, s, i + 2)
      BY <1>1, <1>7, <2>1, <2>4
    <3>2. /\ At(h, s, i + 1) # e /\ At(h, s, i + 1) # p
          /\ At(h, s, i + 2) # e /\ At(h, s, i + 2) # n
      BY <1>1, <1>2, <2>1, <2>4, <3>1
    <3>3. At(h, s, i + 1) \in Nodes /\ At(h, s, i + 2) \in Nodes
      BY <1>2, <3>1
    <3>4. /\ l.next[At(h, s, i + 1)] = At(h, s, i + 2)
          /\ l.prev[At(h, s, i + 2)] = At(h, s, i + 1)
      BY <1>3, <3>1
    <3>5. QED
      BY <1>6, <3>1, <3>2, <3>3, <3>4, Zenon
  <2>5. QED
    BY <1>1, <2>1, <2>2, <2>3, <2>4
<1>9. ASSUME NEW x \in Nodes, x # h, ~On(s, x)
      PROVE  m.next[x] = l.next[x] /\ m.prev[x] = l.prev[x]
  <2>1. x # e /\ x # p /\ x # n
    BY <1>9 DEF At, On
  <2>2. QED
    BY <1>6, <2>1
<1>10. QED
  BY <1>6, <1>8, <1>9 DEF m, t, Ring

(* list_add puts a new entry before all others of a list, *)
LEMMA AddRing ==
    ASSUME NEW l \in Memories, NEW h \in Heads, NEW s, Chain(s),
           Ring(l, h, s), NEW x \in Slots, ~On(s, x)
    PROVE  /\ list_add(l, x, h) \in Memories
           /\ Ring(list_add(l, x, h), h, InFront(s, x))
           /\ \A y \in Nodes :
                y # h /\ y # x /\ ~On(s, y) =>
                  /\ list_add(l, x, h).next[y] = l.next[y]
                  /\ list_add(l, x, h).prev[y] = l.prev[y]
<1> DEFINE m == list_add(l, x, h)
           t == InFront(s, x)
           n == At(h, s, 1)
<1>1. /\ Len(s) \in Nat /\ 0 \in 0..Len(s) /\ 1 \in 1..(Len(s) + 1)
      /\ x \in Nodes /\ h \in Nodes /\ x # h /\ 0 \in Int /\ 1 \in Int
  BY NodeKinds DEF Chain, Heads
<1>2. /\ \A i \in Int : At(h, s, i) \in Nodes
      /\ At(h, s, 0) = h /\ At(h, s, Len(s) + 1) = h
      /\ \A i, j \in 0..Len(s) : At(h, s, i) = At(h, s, j) => i = j
      /\ \A i, j \in 1..(Len(s) + 1) : At(h, s, i) = At(h, s, j) => i = j
  BY PlacesDiffer
<1>3. \A i \in 0..Len(s) : /\ l.next[At(h, s, i)] = At(h, s, i + 1)
                           /\ l.prev[At(h, s, i + 1)] = At(h, s, i)
  BY DEF Ring
<1>4. l.next[h] = n
  BY <1>1, <1>2, <1>3
<1>5. \A i \in Int : At(h, s, i) # x
  BY <1>1 DEF At, On
<1>6. /\ m \in Memories
      /\ m.next[x] = n /\ m.next[h] = x /\ m.prev[n] = x /\ m.prev[x] = h
      /\ \A y \in Nodes : y # x /\ y # h => m.next[y] = l.next[y]
      /\ \A y \in Nodes : y # x /\ y # n => m.prev[y] = l.prev[y]
  <2>1. n \in Nodes /\ x # n /\ m = Between(l, x, h, n)
    BY <1>1, <1>2, <1>4, <1>5 DEF list_add
  <2> HIDE DEF m, n
  <2>2. /\ Between(l, x, h, n) \in Memories
        /\ Between(l, x, h, n).next[x] = n
        /\ Between(l, x, h, n).next[h] = x
        /\ Between(l, x, h, n).prev[n] = x
        /\ Between(l, x, h, n).prev[x] = h
        /\ \A y \in Nodes : y # x /\ y # h =>
             Between(l, x, h, n).next[y] = l.next[y]
        /\ \A y \in Nodes : y # x /\ y # n =>
             Between(l, x, h, n).prev[y] = l.prev[y]
    BY <1>1, <2>1 DEF Between, Memories
  <2>3. QED
    BY <2>1, <2>2
<1> HIDE DEF m
<1>7. /\ Len(t) = Len(s) + 1 /\ At(h, t, 0) = h /\ At(h, t, 1) = x
      /\ \A i \in 1..(Len(s) + 1) : At(h, t, i + 1) = At(h, s, i)
  BY InFrontChain
<1> HIDE DEF t
<1>8. ASSUME NEW i \in 0..Len(t)
      PROVE  /\ m.next[At(h, t, i)] = At(h, t, i + 1)
             /\ m.prev[At(h, t, i + 1)] = At(h, t, i)
  <2>1. CASE i = 0
    <3>1. At(h, t, i) = h /\ At(h, t, i + 1) = x
      BY <1>7, <2>1
    <3>2. QED
      BY <1>6, <3>1, Zenon
  <2>2. CASE i = 1
    <3>1. At(h, t, i) = x /\ At(h, t, i + 1) = n
      BY <1>1, <1>7, <2>2
    <3>2. QED
      BY <1>6, <3>1, Zenon
  <2>3. CASE i > 1
    <3>1. /\ i - 1 \in 0..Len(s) /\ i \in 1..(Len(s) + 1)
          /\ i - 1 \in 1..(Len(s) + 1) /\ i - 1 \in Int /\ i \in Int
          /\ (i - 1) + 1 = i /\ i - 1 # 0 /\ i # 1
      BY <1>1, <1>7, <2>3
    <3>2. At(h, t, i) = At(h, s, i - 1) /\ At(h, t, i + 1) = At(h, s, i)
      BY <1>7, <3>1
    <3>3. /\ At(h, s, i - 1) # h /\ At(h, s, i - 1) # x
          /\ At(h, s, i) # n /\ At(h, s, i) # x
      BY <1>1, <1>2, <1>5, <3>1
    <3>4. At(h, s, i - 1) \in Nodes /\ At(h, s, i) \in Nodes
      BY <1>2, <3>1
    <3>5. /\ l.next[At(h, s, i - 1)] = At(h, s, i)
          /\ l.prev[At(h, s, i)] = At(h, s, i - 1)
      BY <1>3, <3>1
    <3>6. QED
      BY <1>6, <3>2, <3>3, <3>4, <3>5, Zenon
  <2>4. i = 0 \/ i = 1 \/ i > 1
    BY <1>1, <1>7
  <2>5. QED
    BY <2>1, <2>2, <2>3, <2>4
<1>9. ASSUME NEW y \in Nodes, y # h, y # x, ~On(s, y)
      PROVE  m.next[y] = l.next[y] /\ m.prev[y] = l.prev[y]
  <2>1. y # n
    BY <1>9 DEF At, On
  <2>2. QED
    BY <1>6, <1>9, <2>1
<1>10. QED
  BY <1>6, <1>8, <1>9 DEF m, t, Ring

(* and list_add_tail after all others. *)
LEMMA AddTailRing ==
    ASSUME NEW l \in Memories, NEW h \in Heads, NEW s, Chain(s),
           Ring(l, h, s), NEW x \in Slots, ~On(s, x)
    PROVE  /\ list_add_tail(l, x, h) \in Memories
           /\ Ring(list_add_tail(l, x, h), h, AtEnd(s, x))
           /\ \A y \in Nodes :
                y # h /\ y # x /\ ~On(s, y) =>
                  /\ list_add_tail(l, x, h).next[y] = l.next[y]
                  /\ list_add_tail(l, x, h).prev[y] = l.prev[y]
<1> DEFINE m == list_add_tail(l, x, h)
           t == AtEnd(s, x)
           p == At(h, s, Len(s))
<1>1. /\ Len(s) \in Nat /\ Len(s) \in 0..Len(s) /\ Len(s) \in Int
      /\ x \in Nodes /\ h \in Nodes /\ x # h
  BY NodeKinds DEF Chain, Heads
<1>2. /\ \A i \in Int : At(h, s, i) \in Nodes
      /\ At(h, s, 0) = h /\ At(h, s, Len(s) + 1) = h
      /\ \A i, j \in 0..Len(s) : At(h, s, i) = At(h, s, j) => i = j
      /\ \A i, j \in 1..(Len(s) + 1) : At(h, s, i) = At(h, s, j) => i = j
  BY PlacesDiffer
<1>3. \A i \in 0..Len(s) : /\ l.next[At(h, s, i)] = At(h, s, i + 1)
                           /\ l.prev[At(h, s, i + 1)] = At(h, s, i)
  BY DEF Ring
<1>4. l.prev[h] = p
  BY <1>1, <1>2, <1>3
<1>5. \A i \in Int : At(h, s, i) # x
  BY <1>1 DEF At, On
<1>6. /\ m \in Memories
      /\ m.next[x] = h /\ m.next[p] = x /\ m.prev[h] = x /\ m.prev[x] = p
      /\ \A y \in Nodes : y # x /\ y # p => m.next[y] = l.next[y]
      /\ \A y \in Nodes : y # x /\ y # h => m.prev[y] = l.prev[y]
  <2>1. p \in Nodes /\ x # p /\ m = Between(l, x, p, h)
    BY <1>1, <1>2, <1>4, <1>5 DEF list_add_tail
  <2> HIDE DEF m, p
  <2>2. /\ Between(l, x, p, h) \in Memories
        /\ Between(l, x, p, h).next[x] = h
        /\ Between(l, x, p, h).next[p] = x
        /\ Between(l, x, p, h).prev[h] = x
        /\ Between(l, x, p, h).prev[x] = p
        /\ \A y \in Nodes : y # x /\ y # p =>
             Between(l, x, p, h).next[y] = l.next[y]
        /\ \A y \in Nodes : y # x /\ y # h =>
             Between(l, x, p, h).prev[y] = l.prev[y]
    BY <1>1, <2>1 DEF Between, Memories
  <2>3. QED
    BY <2>1, <2>2
<1> HIDE DEF m
<1>7. /\ Len(t) = Len(s) + 1
      /\ \A i \in 0..Len(s) : At(h, t, i) = At(h, s, i)
      /\ At(h, t, Len(s) + 1) = x /\ At(h, t, Len(s) + 2) = h
  BY AtEndChain
<1> HIDE DEF t
<1>8. ASSUME NEW i \in 0..Len(t)
      PROVE  /\ m.next[At(h, t, i)] = At(h, t, i + 1)
             /\ m.prev[At(h, t, i + 1)] = At(h, t, i)
  <2>1. CASE i = Len(s) + 1
    <3>1. At(h, t, i) = x /\ At(h, t, i + 1) = h
      <4>1. i + 1 = Len(s) + 2
        BY <1>1, <2>1
      <4>2. QED
        BY <1>7, <2>1, <4>1
    <3>2. QED
      BY <1>6, <3>1, Zenon
  <2>2. CASE i = Len(s)
    <3>1. At(h, t, i) = p /\ At(h, t, i + 1) = x
      BY <1>1, <1>7, <2>2
    <3>2. QED
      BY <1>6, <3>1, Zenon
  <2>3. CASE i < Len(s)
    <3>1. /\ i \in 0..Len(s) /\ i + 1 \in 0..Len(s)
          /\ i + 1 \in 1..(Len(s) + 1) /\ Len(s) + 1 \in 1..(Len(s) + 1)
          /\ i + 1 \in Int /\ i \in Int /\ i # Len(s) /\ i + 1 # Len(s) + 1
      BY <1>1, <1>7, <2>3
    <3>2. At(h, t, i) = At(h, s, i) /\ At(h, t, i + 1) = At(h, s, i + 1)
      BY <1>7, <3>1
    <3>3. /\ At(h, s, i) # p /\ At(h, s, i) # x
          /\ At(h, s, i + 1) # h /\ At(h, s, i + 1) # x
      BY <1>1, <1>2, <1>5, <3>1
    <3>4. At(h, s, i) \in Nodes /\ At(h, s, i + 1) \in Nodes
      BY <1>2, <3>1
    <3>5. /\ l.next[At(h, s, i)] = At(h, s, i + 1)
          /\ l.prev[At(h, s, i + 1)] = At(h, s, i)
      BY <1>3, <3>1
    <3>6. QED
      BY <1>6, <3>2, <3>3, <3>4, <3>5, Zenon
  <2>4. i = Len(s) + 1 \/ i = Len(s) \/ i < Len(s)
    BY <1>1, <1>7
  <2>5. QED
    BY <2>1, <2>2, <2>3, <2>4
<1>9. ASSUME NEW y \in Nodes, y # h, y # x, ~On(s, y)
      PROVE  m.next[y] = l.next[y] /\ m.prev[y] = l.prev[y]
  <2>1. y # p
    BY <1>9 DEF At, On
  <2>2. QED
    BY <1>6, <1>9, <2>1
<1>10. QED
  BY <1>6, <1>8, <1>9 DEF m, t, Ring

-----------------------------------------------------------------------------
(* Walking a list, and building one                                        *)

(* What holds at 0 and is handed on holds everywhere. *)
LEMMA Induct ==
    ASSUME NEW S, 0 \in S, \A n \in Nat : n \in S => n + 1 \in S
    PROVE  \A n \in Nat : n \in S
<1> SUFFICES ASSUME NEW n \in Nat, n \notin S PROVE FALSE
  OBVIOUS
<1> DEFINE Less == {nn \in Nat \X Nat : nn[1] < nn[2]}
           T == {k \in Nat : k \notin S}
<1>1. IsWellFoundedOn(Less, Nat)
  BY NatLessThanWellFounded, Zenon DEF OpToRel
<1>2. PICK k \in T : \A j \in T : <<j, k>> \notin Less
  <2>1. T \subseteq Nat /\ T # {}
    OBVIOUS
  <2> HIDE DEF T, Less
  <2>2. QED
    BY <1>1, <2>1, WFMin
<1>3. k \in Nat /\ k \notin S /\ k - 1 \notin T
  <2>1. k \in Nat /\ k \notin S
    BY <1>2
  <2>2. ASSUME k - 1 \in T PROVE FALSE
    <3>1. k - 1 \in Nat /\ <<k - 1, k>> \notin Less
      BY <1>2, <2>2
    <3>2. QED
      BY <2>1, <3>1
  <2>3. QED
    BY <2>1, <2>2
<1>4. k # 0 /\ k - 1 \in Nat /\ (k - 1) + 1 = k
  BY <1>3
<1>5. k - 1 \in S
  BY <1>3, <1>4
<1>6. QED
  BY <1>3, <1>4, <1>5

(* list_for_each visits the entries of the list, in its order.             *)
LEMMA Walked ==
    ASSUME NEW l, NEW h \in Heads, NEW s, Chain(s), Ring(l, h, s),
           Len(s) <= SessionSize
    PROVE  list_for_each(l, h) = s
<1> DEFINE at == CHOOSE g : g = [k \in 0..SessionSize |->
                    IF k = 0 THEN l.next[h]
                    ELSE IF g[k - 1] \in Slots THEN l.next[g[k - 1]]
                                               ELSE g[k - 1]]
           v == [k \in 0..SessionSize |-> At(h, s, k + 1)]
           onList == {k \in 0..(SessionSize - 1) : at[k] \in Slots}
<1>1. /\ SessionSize \in Nat \ {0} /\ Len(s) \in Nat /\ h \notin Slots
      /\ At(h, s, 0) = h
      /\ \A i \in 1..Len(s) : At(h, s, i) = s[i] /\ s[i] \in Slots
      /\ \A i : i \notin 1..Len(s) => At(h, s, i) = h
  BY NodeKinds, PlacesDiffer DEF Chain, Heads, At
<1>2. \A i \in 0..Len(s) : l.next[At(h, s, i)] = At(h, s, i + 1)
  BY DEF Ring
<1>3. \A k \in Nat \ {0} : At(h, s, k + 1) =
         IF At(h, s, k) \in Slots THEN l.next[At(h, s, k)] ELSE At(h, s, k)
  <2> SUFFICES ASSUME NEW k \in Nat \ {0}
               PROVE  At(h, s, k + 1) = IF At(h, s, k) \in Slots
                                        THEN l.next[At(h, s, k)]
                                        ELSE At(h, s, k)
    OBVIOUS
  <2>1. CASE k \in 1..Len(s)
    BY <1>1, <1>2, <2>1
  <2>2. CASE k \notin 1..Len(s)
    <3>1. k + 1 \notin 1..Len(s)
      BY <1>1, <2>2
    <3>2. At(h, s, k) = h /\ At(h, s, k + 1) = h
      BY <1>1, <2>2, <3>1
    <3>3. QED
      BY <1>1, <3>2
  <2>3. QED
    BY <2>1, <2>2
<1>4. v = [k \in 0..SessionSize |->
              IF k = 0 THEN l.next[h]
              ELSE IF v[k - 1] \in Slots THEN l.next[v[k - 1]] ELSE v[k - 1]]
  <2>1. ASSUME NEW k \in 0..SessionSize
        PROVE  v[k] = IF k = 0 THEN l.next[h]
                      ELSE IF v[k - 1] \in Slots THEN l.next[v[k - 1]]
                                                 ELSE v[k - 1]
    <3>1. CASE k = 0
      <4>1. v[0] = At(h, s, 1) /\ l.next[h] = At(h, s, 1)
        BY <1>1, <1>2
      <4>2. QED
        BY <3>1, <4>1
    <3>2. CASE k # 0
      <4>1. /\ k - 1 \in 0..SessionSize /\ k \in Nat \ {0}
            /\ v[k - 1] = At(h, s, k) /\ v[k] = At(h, s, k + 1)
        BY <1>1, <3>2
      <4> HIDE DEF v
      <4>2. QED
        BY <1>3, <3>2, <4>1
    <3>3. QED
      BY <3>1, <3>2
  <2>2. QED
    BY <2>1
<1>5. at = [k \in 0..SessionSize |->
              IF k = 0 THEN l.next[h]
              ELSE IF at[k - 1] \in Slots THEN l.next[at[k - 1]]
                                          ELSE at[k - 1]]
  <2> HIDE DEF v
  <2>1. QED
    BY <1>4, Zenon
<1>6. list_for_each(l, h) = [k \in {j + 1 : j \in onList} |-> at[k - 1]]
  BY DEF list_for_each
<1> HIDE DEF at, v
<1>7. \A k \in 0..SessionSize : at[k] = At(h, s, k + 1)
  <2> DEFINE S == {k \in Nat : k <= SessionSize => at[k] = At(h, s, k + 1)}
  <2>1. 0 \in S
    <3>1. at[0] = At(h, s, 1)
      BY <1>1, <1>2, <1>5
    <3>2. QED
      BY <3>1
  <2>2. ASSUME NEW k \in Nat, k \in S PROVE k + 1 \in S
    <3> SUFFICES ASSUME k + 1 <= SessionSize
                 PROVE  at[k + 1] = At(h, s, (k + 1) + 1)
      OBVIOUS
    <3>1. /\ k + 1 \in 0..SessionSize /\ k + 1 # 0 /\ (k + 1) - 1 = k
          /\ k + 1 \in Nat \ {0} /\ at[k] = At(h, s, k + 1)
      BY <1>1, <2>2
    <3>2. at[k + 1] = IF at[k] \in Slots THEN l.next[at[k]] ELSE at[k]
      BY <1>5, <3>1
    <3>3. QED
      BY <1>3, <3>1, <3>2
  <2> HIDE DEF S
  <2>3. \A k \in Nat : k \in S
    BY <2>1, <2>2, Induct
  <2>4. QED
    BY <1>1, <2>3 DEF S
<1>8. {j + 1 : j \in onList} = 1..Len(s)
  <2>1. ASSUME NEW k \in 0..(SessionSize - 1)
        PROVE  at[k] \in Slots <=> k + 1 \in 1..Len(s)
    <3>1. at[k] = At(h, s, k + 1)
      BY <1>1, <1>7
    <3>2. CASE k + 1 \in 1..Len(s)
      BY <1>1, <3>1, <3>2
    <3>3. CASE k + 1 \notin 1..Len(s)
      BY <1>1, <3>1, <3>3
    <3>4. QED
      BY <3>2, <3>3
  <2>2. ASSUME NEW j \in onList PROVE j + 1 \in 1..Len(s)
    BY <2>1
  <2>3. ASSUME NEW i \in 1..Len(s) PROVE i - 1 \in onList /\ (i - 1) + 1 = i
    <3>1. i - 1 \in 0..(SessionSize - 1) /\ (i - 1) + 1 = i
      BY <1>1
    <3>2. QED
      BY <2>1, <3>1
  <2> HIDE DEF onList
  <2>4. QED
    BY <2>2, <2>3
<1>9. list_for_each(l, h) = [k \in 1..Len(s) |-> s[k]]
  <2>1. \A k \in 1..Len(s) : at[k - 1] = s[k]
    BY <1>1, <1>7
  <2> HIDE DEF onList
  <2>2. QED
    BY <1>6, <1>8, <2>1
<1>10. s = [k \in 1..Len(s) |-> s[k]]
  BY LenProperties DEF Chain
<1>11. QED
  BY <1>9, <1>10

(* The memory once mqtt_session_init has put n items on the nonused list.  *)
Filled(n) ==
    [next |-> [x \in Nodes |->
        IF x = Used THEN Used
        ELSE IF x = Nonused THEN IF n = 0 THEN Nonused ELSE n
        ELSE IF x > n THEN Null ELSE IF x = 1 THEN Nonused ELSE x - 1],
     prev |-> [x \in Nodes |->
        IF x = Used THEN Used
        ELSE IF x = Nonused THEN IF n = 0 THEN Nonused ELSE 1
        ELSE IF x > n THEN Null ELSE IF x = n THEN Nonused ELSE x + 1]]

(* The next one to the front. *)
LEMMA FilledStep ==
    ASSUME NEW n \in Nat, n + 1 \in Slots
    PROVE  list_add(Filled(n), n + 1, Nonused) = Filled(n + 1)
<1> DEFINE l == Filled(n)
           first == IF n = 0 THEN Nonused ELSE n
<1>1. /\ n + 1 \in Nodes /\ Nonused \in Nodes /\ first \in Nodes
      /\ Nodes \subseteq Int /\ n + 1 # Nonused /\ first # n + 1
      /\ n + 1 # Used /\ Used # Nonused /\ first # Used
      /\ (first = Nonused <=> n = 0)
      /\ \A x \in Nodes : x = Used \/ x = Nonused \/ x >= 1
  BY SessionSizeAssumption DEF Nodes, Slots, Used, Nonused
<1>2. /\ l.next = [x \in Nodes |->
            IF x = Used THEN Used
            ELSE IF x = Nonused THEN first
            ELSE IF x > n THEN Null ELSE IF x = 1 THEN Nonused ELSE x - 1]
      /\ l.prev = [x \in Nodes |->
            IF x = Used THEN Used
            ELSE IF x = Nonused THEN IF n = 0 THEN Nonused ELSE 1
            ELSE IF x > n THEN Null ELSE IF x = n THEN Nonused ELSE x + 1]
  BY DEF Filled
<1>3. l.next[Nonused] = first
  BY <1>1, <1>2
<1> HIDE DEF l
<1>4. list_add(l, n + 1, Nonused)
        = [next |-> [l.next EXCEPT ![n + 1] = first, ![Nonused] = n + 1],
           prev |-> [l.prev EXCEPT ![first] = n + 1, ![n + 1] = Nonused]]
  BY <1>3 DEF list_add, Between
<1>5. [l.next EXCEPT ![n + 1] = first, ![Nonused] = n + 1] =
         [x \in Nodes |->
            IF x = Used THEN Used
            ELSE IF x = Nonused THEN n + 1
            ELSE IF x > n + 1 THEN Null
            ELSE IF x = 1 THEN Nonused ELSE x - 1]
  <2> DEFINE e == [l.next EXCEPT ![n + 1] = first, ![Nonused] = n + 1]
  <2>1. /\ e = [x \in Nodes |-> e[x]]
        /\ \A x \in Nodes : e[x] = IF x = Nonused THEN n + 1
                                 ELSE IF x = n + 1 THEN first ELSE l.next[x]
    BY <1>1, <1>2
  <2> HIDE DEF e
  <2>2. ASSUME NEW x \in Nodes
        PROVE  e[x] = IF x = Used THEN Used
                      ELSE IF x = Nonused THEN n + 1
                      ELSE IF x > n + 1 THEN Null
                      ELSE IF x = 1 THEN Nonused ELSE x - 1
    <3>1. CASE x = Used
      BY <1>1, <1>2, <2>1, <3>1
    <3>2. CASE x = Nonused
      BY <1>1, <2>1, <3>2
    <3>3. CASE x = n + 1
      BY <1>1, <2>1, <3>3
    <3>4. CASE x # Used /\ x # Nonused /\ x # n + 1
      <4>1. /\ e[x] = IF x > n THEN Null ELSE IF x = 1 THEN Nonused ELSE x - 1
            /\ x > n <=> x > n + 1
        BY <1>1, <1>2, <2>1, <3>4
      <4>2. QED
        BY <3>4, <4>1
    <3>5. QED
      BY <3>1, <3>2, <3>3, <3>4
  <2>3. QED
    BY <2>1, <2>2 DEF e
<1>6. [l.prev EXCEPT ![first] = n + 1, ![n + 1] = Nonused] =
         [x \in Nodes |->
            IF x = Used THEN Used
            ELSE IF x = Nonused THEN 1
            ELSE IF x > n + 1 THEN Null
            ELSE IF x = n + 1 THEN Nonused ELSE x + 1]
  <2> DEFINE e == [l.prev EXCEPT ![first] = n + 1, ![n + 1] = Nonused]
  <2>1. /\ e = [x \in Nodes |-> e[x]]
        /\ \A x \in Nodes : e[x] = IF x = n + 1 THEN Nonused
                                 ELSE IF x = first THEN n + 1 ELSE l.prev[x]
    BY <1>1, <1>2
  <2> HIDE DEF e
  <2>2. ASSUME NEW x \in Nodes
        PROVE  e[x] = IF x = Used THEN Used
                      ELSE IF x = Nonused THEN 1
                      ELSE IF x > n + 1 THEN Null
                      ELSE IF x = n + 1 THEN Nonused ELSE x + 1
    <3>1. CASE x = Used
      BY <1>1, <1>2, <2>1, <3>1
    <3>2. CASE x = Nonused
      <4>1. l.prev[x] = IF n = 0 THEN Nonused ELSE 1
        BY <1>1, <1>2, <3>2
      <4>2. CASE n = 0
        BY <1>1, <2>1, <3>2, <4>2
      <4>3. CASE n # 0
        BY <1>1, <2>1, <3>2, <4>1, <4>3
      <4>4. QED
        BY <4>2, <4>3
    <3>3. CASE x = n + 1
      BY <1>1, <2>1, <3>3
    <3>4. CASE x # Used /\ x # Nonused /\ x # n + 1
      <4>1. l.prev[x] =
              IF x > n THEN Null ELSE IF x = n THEN Nonused ELSE x + 1
        BY <1>1, <1>2, <3>4
      <4>2. CASE x = n
        <5>1. first = n
          BY <1>1, <3>4, <4>2
        <5>2. QED
          BY <1>1, <2>1, <3>4, <4>2, <5>1
      <4>3. CASE x # n
        <5>1. x # first
          BY <3>4, <4>3
        <5>2. e[x] = IF x > n THEN Null ELSE x + 1
          BY <2>1, <3>4, <4>1, <4>3, <5>1
        <5>3. x > n <=> x > n + 1
          BY <1>1, <3>4, <4>3
        <5>4. QED
          BY <3>4, <5>2, <5>3
      <4>4. QED
        BY <4>2, <4>3
    <3>5. QED
      BY <3>1, <3>2, <3>3, <3>4
  <2>3. QED
    BY <2>1, <2>2 DEF e
<1>7. n + 1 # 0
  OBVIOUS
<1>8. QED
  BY <1>4, <1>5, <1>6, <1>7 DEF Filled, l

(* mqtt_session_init puts all of them there. *)
LEMMA AllFilled == Initialised = Filled(SessionSize)
<1> DEFINE memory == [next |-> [n \in Nodes |-> Null],
                      prev |-> [n \in Nodes |-> Null]]
           heads == INIT_LIST_HEAD(INIT_LIST_HEAD(memory, Used), Nonused)
           adds == CHOOSE g : g = [n \in 0..SessionSize |->
                     IF n = 0 THEN heads ELSE list_add(g[n - 1], n, Nonused)]
           v == [n \in 0..SessionSize |-> Filled(n)]
<1>1. SessionSize \in Nat \ {0} /\ Slots = 1..SessionSize
  BY NodeKinds
<1>2. heads = Filled(0)
  <2>1. /\ \A x \in Nodes : x = Used \/ x = Nonused \/ x > 0
        /\ Used # Nonused /\ Used \in Nodes /\ Nonused \in Nodes
    BY <1>1 DEF Nodes, Slots, Used, Nonused
  <2>2. heads = [next |-> [[memory.next EXCEPT ![Used] = Used]
                             EXCEPT ![Nonused] = Nonused],
                 prev |-> [[memory.prev EXCEPT ![Used] = Used]
                             EXCEPT ![Nonused] = Nonused]]
    BY DEF INIT_LIST_HEAD
  <2>3. [[memory.next EXCEPT ![Used] = Used] EXCEPT ![Nonused] = Nonused]
          = [x \in Nodes |-> IF x = Used THEN Used
                             ELSE IF x = Nonused THEN Nonused ELSE Null]
    BY <2>1
  <2>4. memory.prev = memory.next
    OBVIOUS
  <2>5. Filled(0) =
          [next |-> [x \in Nodes |-> IF x = Used THEN Used
                             ELSE IF x = Nonused THEN Nonused ELSE Null],
           prev |-> [x \in Nodes |-> IF x = Used THEN Used
                             ELSE IF x = Nonused THEN Nonused ELSE Null]]
    BY <2>1 DEF Filled
  <2>6. QED
    BY <2>2, <2>3, <2>4, <2>5
<1> HIDE DEF memory, heads
<1>3. v = [n \in 0..SessionSize |->
             IF n = 0 THEN heads ELSE list_add(v[n - 1], n, Nonused)]
  <2>1. ASSUME NEW n \in 0..SessionSize
        PROVE  v[n] = IF n = 0 THEN heads
                               ELSE list_add(v[n - 1], n, Nonused)
    <3>1. CASE n = 0
      BY <1>2, <3>1
    <3>2. CASE n # 0
      <4>1. /\ n - 1 \in Nat /\ n - 1 \in 0..SessionSize
            /\ (n - 1) + 1 = n /\ n \in Slots
        BY <1>1, <3>2
      <4>2. list_add(Filled(n - 1), n, Nonused) = Filled(n)
        BY <4>1, FilledStep
      <4>3. v[n - 1] = Filled(n - 1) /\ v[n] = Filled(n)
        BY <4>1
      <4> HIDE DEF v
      <4>4. QED
        BY <3>2, <4>2, <4>3
    <3>3. QED
      BY <3>1, <3>2
  <2>2. QED
    BY <2>1
<1>4. adds = [n \in 0..SessionSize |->
                IF n = 0 THEN heads ELSE list_add(adds[n - 1], n, Nonused)]
  <2> HIDE DEF v
  <2>1. QED
    BY <1>3, Zenon
<1>5. Initialised = adds[SessionSize]
  BY DEF Initialised, memory, heads
<1> HIDE DEF adds
<1>6. \A n \in Nat : n <= SessionSize => adds[n] = Filled(n)
  <2> DEFINE S == {n \in Nat : n <= SessionSize => adds[n] = Filled(n)}
  <2>1. 0 \in S
    <3>1. adds[0] = heads
      BY <1>1, <1>4
    <3>2. QED
      BY <1>2, <3>1
  <2>2. ASSUME NEW n \in Nat, n \in S PROVE n + 1 \in S
    <3> SUFFICES ASSUME n + 1 <= SessionSize
                 PROVE  adds[n + 1] = Filled(n + 1)
      OBVIOUS
    <3>1. /\ n + 1 \in 0..SessionSize /\ n + 1 # 0 /\ (n + 1) - 1 = n
          /\ n + 1 \in Slots /\ adds[n] = Filled(n)
      BY <1>1, <2>2
    <3>2. adds[n + 1] = list_add(adds[n], n + 1, Nonused)
      BY <1>4, <3>1
    <3>3. QED
      BY <3>1, <3>2, FilledStep
  <2> HIDE DEF S
  <2>3. \A n \in Nat : n \in S
    BY <2>1, <2>2, Induct
  <2>4. QED
    BY <2>3 DEF S
<1>7. QED
  BY <1>1, <1>5, <1>6

-----------------------------------------------------------------------------
(* The two lists of a session                                              *)

(* u is on the used list, f on the nonused one, and every slot on one. *)
Lists(l, u, f) ==
    /\ l \in Memories
    /\ Chain(u) /\ Ring(l, Used, u)
    /\ Chain(f) /\ Ring(l, Nonused, f)
    /\ \A n \in Slots : On(u, n) <=> ~On(f, n)
    /\ Len(u) + Len(f) = SessionSize

(* What the two lists say of the pointers. *)
LEMMA ListsRead ==
    ASSUME NEW l, NEW u, NEW f, Lists(l, u, f)
    PROVE  /\ list_for_each(l, Used) = u /\ list_for_each(l, Nonused) = f
           /\ \A n \in Nodes : /\ l.next[n] \in Nodes /\ l.prev[n] \in Nodes
                               /\ l.prev[l.next[n]] = n
           /\ Len(u) \in 0..SessionSize
<1>1. /\ Chain(u) /\ Ring(l, Used, u) /\ Chain(f) /\ Ring(l, Nonused, f)
      /\ Len(u) \in Nat /\ Len(f) \in Nat /\ SessionSize \in Nat
      /\ Len(u) <= SessionSize /\ Len(f) <= SessionSize
      /\ Used \in Heads /\ Nonused \in Heads
  BY NodeKinds DEF Lists, Chain, Heads
<1>2. list_for_each(l, Used) = u /\ list_for_each(l, Nonused) = f
  BY <1>1, Walked
<1>3. ASSUME NEW h \in Heads, NEW s, Chain(s), Ring(l, h, s),
             NEW n, n = h \/ On(s, n)
      PROVE  /\ l.next[n] \in Nodes /\ l.prev[n] \in Nodes
             /\ l.prev[l.next[n]] = n
  <2>1. /\ Len(s) \in Nat
        /\ \A i \in 0..Len(s) : /\ l.next[At(h, s, i)] = At(h, s, i + 1)
                                /\ l.prev[At(h, s, i + 1)] = At(h, s, i)
        /\ \A i \in Int : At(h, s, i) \in Nodes
        /\ \A i \in 1..Len(s) : At(h, s, i) = s[i]
        /\ At(h, s, 0) = h /\ At(h, s, Len(s) + 1) = h
    BY <1>3, PlacesDiffer DEF Ring, Chain
  <2>2. PICK i \in 0..Len(s) : At(h, s, i) = n
    <3>1. CASE n = h
      BY <2>1, <3>1
    <3>2. CASE On(s, n)
      BY <2>1, <3>2 DEF On
    <3>3. QED
      BY <1>3, <3>1, <3>2
  <2>3. l.next[n] = At(h, s, i + 1) /\ l.prev[l.next[n]] = n
    BY <2>1, <2>2
  <2>4. PICK j \in 0..Len(s) : At(h, s, j + 1) = n
    <3>1. CASE n = h
      BY <2>1, <3>1
    <3>2. CASE i # 0
      <4>1. i - 1 \in 0..Len(s) /\ (i - 1) + 1 = i
        BY <2>1, <3>2
      <4>2. QED
        BY <2>2, <4>1
    <3>3. QED
      BY <2>1, <2>2, <3>1, <3>2
  <2>5. l.prev[n] = At(h, s, j)
    BY <2>1, <2>4
  <2>6. QED
    BY <2>1, <2>2, <2>3, <2>5
<1>4. ASSUME NEW n \in Nodes
      PROVE  n = Used \/ n = Nonused \/ On(u, n) \/ On(f, n)
  BY NodeKinds DEF Lists
<1>5. ASSUME NEW n \in Nodes
      PROVE  /\ l.next[n] \in Nodes /\ l.prev[n] \in Nodes
             /\ l.prev[l.next[n]] = n
  <2>1. CASE n = Used \/ On(u, n)
    BY <1>1, <1>3, <2>1
  <2>2. CASE n = Nonused \/ On(f, n)
    BY <1>1, <1>3, <2>2
  <2>3. QED
    BY <1>4, <2>1, <2>2
<1>6. QED
  BY <1>1, <1>2, <1>5

(* mqtt_session_init: no item is used. *)
LEMMA ListsInitialised ==
    Lists(Initialised, <<>>,
          [j \in 1..SessionSize |-> (SessionSize + 1) - j])
<1> DEFINE l == Filled(SessionSize)
           f == [j \in 1..SessionSize |-> (SessionSize + 1) - j]
<1>1. /\ SessionSize \in Nat /\ SessionSize # 0
      /\ \A x \in Nodes : x = Used \/ x = Nonused \/ x \in 1..SessionSize
      /\ Used \in Nodes /\ Nonused \in Nodes /\ Used # Nonused
      /\ \A x \in 1..SessionSize : x # Used /\ x # Nonused /\ x \in Nodes
      /\ Slots = 1..SessionSize
  BY SessionSizeAssumption DEF Nodes, Slots, Used, Nonused
<1>2. /\ l.next = [x \in Nodes |->
            IF x = Used THEN Used
            ELSE IF x = Nonused THEN SessionSize
            ELSE IF x > SessionSize THEN Null
            ELSE IF x = 1 THEN Nonused ELSE x - 1]
      /\ l.prev = [x \in Nodes |->
            IF x = Used THEN Used
            ELSE IF x = Nonused THEN 1
            ELSE IF x > SessionSize THEN Null
            ELSE IF x = SessionSize THEN Nonused ELSE x + 1]
      /\ l = [next |-> l.next, prev |-> l.prev]
  BY <1>1 DEF Filled
<1> HIDE DEF l
<1>3. /\ l.next[Used] = Used /\ l.prev[Used] = Used
      /\ l.next[Nonused] = SessionSize /\ l.prev[Nonused] = 1
      /\ \A x \in 1..SessionSize :
           /\ l.next[x] = IF x = 1 THEN Nonused ELSE x - 1
           /\ l.prev[x] = IF x = SessionSize THEN Nonused ELSE x + 1
  BY <1>1, <1>2
<1>4. l \in Memories
  <2>1. \A x \in Nodes : l.next[x] \in Nodes /\ l.prev[x] \in Nodes
    <3>1. ASSUME NEW x \in 1..SessionSize
          PROVE  l.next[x] \in Nodes /\ l.prev[x] \in Nodes
      <4>1. x = 1 \/ x - 1 \in 1..SessionSize
        BY <1>1
      <4>2. x = SessionSize \/ x + 1 \in 1..SessionSize
        BY <1>1
      <4>3. QED
        BY <1>1, <1>3, <4>1, <4>2
    <3>2. 1 \in Nodes /\ SessionSize \in Nodes
      BY <1>1
    <3>3. QED
      BY <1>1, <1>3, <3>1, <3>2
  <2>2. /\ l.next = [x \in Nodes |-> l.next[x]]
        /\ l.prev = [x \in Nodes |-> l.prev[x]]
    BY <1>2
  <2>3. l.next \in [Nodes -> Nodes \cup {Null}]
    BY <2>1, <2>2
  <2>4. l.prev \in [Nodes -> Nodes \cup {Null}]
    BY <2>1, <2>2
  <2>5. QED
    BY <1>2, <2>3, <2>4 DEF Memories
<1>5. Chain(<<>>) /\ Len(<<>>) = 0
  BY EmptySeq DEF Chain
<1>6. Ring(l, Used, <<>>)
  BY <1>3, <1>5 DEF Ring, At
<1>7. f \in Seq(Slots) /\ Len(f) = SessionSize
  <2>1. f \in [1..SessionSize -> Slots]
    BY <1>1
  <2> HIDE DEF f
  <2>2. QED
    BY <1>1, <2>1, LenProperties, SeqDef, SMT
<1>8. \A j \in 1..SessionSize : f[j] = (SessionSize + 1) - j
  OBVIOUS
<1> HIDE DEF f
<1>9. Chain(f)
  BY <1>1, <1>7, <1>8 DEF Chain
<1>10. Ring(l, Nonused, f)
  <2>1. ASSUME NEW i \in 0..SessionSize
        PROVE  /\ l.next[At(Nonused, f, i)] = At(Nonused, f, i + 1)
               /\ l.prev[At(Nonused, f, i + 1)] = At(Nonused, f, i)
    <3>1. CASE i = 0
      <4>1. /\ At(Nonused, f, 0) = Nonused
            /\ At(Nonused, f, 0 + 1) = SessionSize
        BY <1>1, <1>7, <1>8 DEF At
      <4>2. QED
        BY <1>1, <1>3, <3>1, <4>1
    <3>2. CASE i = SessionSize
      <4>1. /\ At(Nonused, f, i) = 1
            /\ At(Nonused, f, i + 1) = Nonused
        BY <1>1, <1>7, <1>8, <3>2 DEF At
      <4>2. QED
        BY <1>1, <1>3, <4>1
    <3>3. CASE i \in 1..(SessionSize - 1)
      <4> DEFINE x == (SessionSize + 1) - i
      <4>1. /\ x \in 1..SessionSize /\ x - 1 \in 1..SessionSize
            /\ x # 1 /\ x - 1 # SessionSize /\ (x - 1) + 1 = x
        BY <1>1, <3>3
      <4>2. At(Nonused, f, i) = x /\ At(Nonused, f, i + 1) = x - 1
        <5>1. /\ i \in 1..SessionSize /\ i + 1 \in 1..SessionSize
              /\ (SessionSize + 1) - (i + 1) = x - 1
          BY <1>1, <3>3
        <5>2. At(Nonused, f, i) = f[i] /\ At(Nonused, f, i + 1) = f[i + 1]
          BY <1>7, <5>1 DEF At
        <5>3. QED
          BY <1>8, <5>1, <5>2
      <4> HIDE DEF x
      <4>3. QED
        BY <1>3, <4>1, <4>2
    <3>4. QED
      BY <1>1, <3>1, <3>2, <3>3
  <2>2. QED
    BY <1>7, <2>1 DEF Ring
<1>11. \A n \in Slots : ~On(<<>>, n) /\ On(f, n)
  <2>1. ASSUME NEW n \in Slots PROVE On(f, n)
    <3>1. (SessionSize + 1) - n \in 1..SessionSize
      BY <1>1
    <3>2. f[(SessionSize + 1) - n] = n
      BY <1>1, <1>8, <3>1
    <3>3. QED
      BY <1>7, <3>1, <3>2 DEF On
  <2>2. QED
    BY <1>5, <2>1 DEF On
<1>12. QED
  BY <1>1, <1>4, <1>5, <1>6, <1>7, <1>9, <1>10, <1>11, AllFilled
  DEF Lists, l, f

(* Two chains that share no slot; where an entry of one is not written.    *)
LEMMA ListsApart ==
    ASSUME NEW l, NEW u, NEW f, Lists(l, u, f)
    PROVE  /\ l \in Memories /\ Chain(u) /\ Chain(f)
           /\ Ring(l, Used, u) /\ Ring(l, Nonused, f)
           /\ Len(u) \in Nat /\ Len(f) \in Nat /\ SessionSize \in Nat
           /\ Used \in Heads /\ Nonused \in Heads /\ Used # Nonused
           /\ Used \notin Slots /\ Nonused \notin Slots
           /\ \A n : On(u, n) => n \in Slots /\ ~On(f, n)
           /\ \A n : On(f, n) => n \in Slots /\ ~On(u, n)
<1>1. ASSUME NEW s, Chain(s), NEW n, On(s, n) PROVE n \in Slots
  BY <1>1, ElementOfSeq DEF Chain, On
<1>2. QED
  BY <1>1, NodeKinds DEF Lists, Chain, Heads

(* mqtt_session_add_item: the first free item is the first of the nonused  *)
(* list, and becomes the last of the used one.                             *)
LEMMA ListsAdd ==
    ASSUME NEW l, NEW u, NEW f, Lists(l, u, f),
           l.next[Nonused] # Nonused
    PROVE  /\ Len(f) > 0 /\ l.next[Nonused] = f[1] /\ f[1] \in Slots
           /\ ~On(u, f[1])
           /\ Lists(list_add_tail(list_del(l, f[1]), f[1], Used),
                    AtEnd(u, f[1]), Cut(f, 1))
<1>1. /\ l \in Memories /\ Chain(u) /\ Chain(f)
      /\ Ring(l, Used, u) /\ Ring(l, Nonused, f)
      /\ Len(u) \in Nat /\ Len(f) \in Nat /\ SessionSize \in Nat
      /\ Used \in Heads /\ Nonused \in Heads /\ Used # Nonused
      /\ Used \notin Slots /\ Nonused \notin Slots
      /\ \A n : On(u, n) => n \in Slots /\ ~On(f, n)
      /\ \A n : On(f, n) => n \in Slots /\ ~On(u, n)
  BY ListsApart
<1>2. l.next[Nonused] = At(Nonused, f, 1)
  <2>1. 0 \in 0..Len(f) /\ At(Nonused, f, 0) = Nonused
    BY <1>1 DEF At
  <2>2. QED
    BY <1>1, <2>1 DEF Ring
<1>3. Len(f) > 0 /\ 1 \in 1..Len(f) /\ l.next[Nonused] = f[1]
  BY <1>1, <1>2 DEF At
<1> DEFINE i == f[1]
           m == list_del(l, i)
           n == list_add_tail(m, i, Used)
           g == Cut(f, 1)
           v == AtEnd(u, i)
<1>4. On(f, i) /\ i \in Slots /\ ~On(u, i)
  BY <1>1, <1>3 DEF On
<1>5. /\ m \in Memories /\ Ring(m, Nonused, g)
      /\ \A x \in Nodes : x # Nonused /\ ~On(f, x) =>
            m.next[x] = l.next[x] /\ m.prev[x] = l.prev[x]
  BY <1>1, <1>3, DelRing
<1>6. /\ Chain(g) /\ Len(g) = Len(f) - 1
      /\ \A x : On(g, x) <=> x # i /\ On(f, x)
  BY <1>1, <1>3, CutChain
<1> HIDE DEF i, m, g
<1>7. Ring(m, Used, u)
  <2>1. \A x \in Nodes : x = Used \/ On(u, x) => x # Nonused /\ ~On(f, x)
    BY <1>1
  <2>2. \A x \in Nodes : x = Used \/ On(u, x) =>
           m.next[x] = l.next[x] /\ m.prev[x] = l.prev[x]
    BY <1>5, <2>1
  <2>3. QED
    BY <1>1, <2>2, RingFrame
<1>8. /\ n \in Memories /\ Ring(n, Used, v)
      /\ \A y \in Nodes : y # Used /\ y # i /\ ~On(u, y) =>
            n.next[y] = m.next[y] /\ n.prev[y] = m.prev[y]
  BY <1>1, <1>4, <1>5, <1>7, AddTailRing
<1>9. /\ Chain(v) /\ Len(v) = Len(u) + 1
      /\ \A x : On(v, x) <=> x = i \/ On(u, x)
  BY <1>1, <1>4, AtEndChain
<1> HIDE DEF n, v
<1>10. Ring(n, Nonused, g)
  <2>1. \A x \in Nodes : x = Nonused \/ On(g, x) =>
           x # Used /\ x # i /\ ~On(u, x)
    BY <1>1, <1>4, <1>6
  <2>2. \A x \in Nodes : x = Nonused \/ On(g, x) =>
           n.next[x] = m.next[x] /\ n.prev[x] = m.prev[x]
    BY <1>8, <2>1
  <2>3. QED
    BY <1>1, <1>5, <1>6, <2>2, RingFrame
<1>11. \A x \in Slots : On(v, x) <=> ~On(g, x)
  <2>1. \A x \in Slots : On(u, x) <=> ~On(f, x)
    BY DEF Lists
  <2>2. QED
    BY <1>4, <1>6, <1>9, <2>1
<1>12. Len(v) + Len(g) = SessionSize
  <2>1. Len(u) + Len(f) = SessionSize
    BY DEF Lists
  <2>2. QED
    BY <1>1, <1>6, <1>9, <2>1
<1>13. Lists(n, v, g)
  BY <1>6, <1>8, <1>9, <1>10, <1>11, <1>12 DEF Lists
<1>14. QED
  BY <1>3, <1>4, <1>13 DEF n, v, g, m, i

(* mqtt_session_remove_item: the item goes from its place in the used list *)
(* to the front of the nonused one.                                        *)
LEMMA ListsFreed ==
    ASSUME NEW l, NEW u, NEW f, Lists(l, u, f), NEW k \in 1..Len(u)
    PROVE  Lists(list_add(list_del(l, u[k]), u[k], Nonused),
                 Cut(u, k), InFront(f, u[k]))
<1>1. /\ l \in Memories /\ Chain(u) /\ Chain(f)
      /\ Ring(l, Used, u) /\ Ring(l, Nonused, f)
      /\ Len(u) \in Nat /\ Len(f) \in Nat /\ SessionSize \in Nat
      /\ Used \in Heads /\ Nonused \in Heads /\ Used # Nonused
      /\ Used \notin Slots /\ Nonused \notin Slots
      /\ \A n : On(u, n) => n \in Slots /\ ~On(f, n)
      /\ \A n : On(f, n) => n \in Slots /\ ~On(u, n)
  BY ListsApart
<1> DEFINE i == u[k]
           m == list_del(l, i)
           n == list_add(m, i, Nonused)
           v == Cut(u, k)
           g == InFront(f, i)
<1>2. On(u, i) /\ i \in Slots /\ ~On(f, i)
  BY <1>1 DEF On
<1>3. /\ m \in Memories /\ Ring(m, Used, v)
      /\ \A x \in Nodes : x # Used /\ ~On(u, x) =>
            m.next[x] = l.next[x] /\ m.prev[x] = l.prev[x]
  BY <1>1, DelRing
<1>4. /\ Chain(v) /\ Len(v) = Len(u) - 1
      /\ \A x : On(v, x) <=> x # i /\ On(u, x)
  BY <1>1, CutChain
<1> HIDE DEF i, m, v
<1>5. Ring(m, Nonused, f)
  <2>1. \A x \in Nodes : x = Nonused \/ On(f, x) => x # Used /\ ~On(u, x)
    BY <1>1
  <2>2. \A x \in Nodes : x = Nonused \/ On(f, x) =>
           m.next[x] = l.next[x] /\ m.prev[x] = l.prev[x]
    BY <1>3, <2>1
  <2>3. QED
    BY <1>1, <2>2, RingFrame
<1>6. /\ n \in Memories /\ Ring(n, Nonused, g)
      /\ \A y \in Nodes : y # Nonused /\ y # i /\ ~On(f, y) =>
            n.next[y] = m.next[y] /\ n.prev[y] = m.prev[y]
  BY <1>1, <1>2, <1>3, <1>5, AddRing
<1>7. /\ Chain(g) /\ Len(g) = Len(f) + 1
      /\ \A x : On(g, x) <=> x = i \/ On(f, x)
  BY <1>1, <1>2, InFrontChain
<1> HIDE DEF n, g
<1>8. Ring(n, Used, v)
  <2>1. \A x \in Nodes : x = Used \/ On(v, x) =>
           x # Nonused /\ x # i /\ ~On(f, x)
    BY <1>1, <1>2, <1>4
  <2>2. \A x \in Nodes : x = Used \/ On(v, x) =>
           n.next[x] = m.next[x] /\ n.prev[x] = m.prev[x]
    BY <1>6, <2>1
  <2>3. QED
    BY <1>1, <1>3, <1>4, <2>2, RingFrame
<1>9. \A x \in Slots : On(v, x) <=> ~On(g, x)
  <2>1. \A x \in Slots : On(u, x) <=> ~On(f, x)
    BY DEF Lists
  <2>2. QED
    BY <1>2, <1>4, <1>7, <2>1
<1>10. Len(v) + Len(g) = SessionSize
  <2>1. Len(u) + Len(f) = SessionSize
    BY DEF Lists
  <2>2. QED
    BY <1>1, <1>4, <1>7, <2>1
<1>11. Lists(n, v, g)
  BY <1>4, <1>6, <1>7, <1>8, <1>9, <1>10 DEF Lists
<1>12. QED
  BY <1>11 DEF n, v, g, m, i

-----------------------------------------------------------------------------
(* The operations                                                          *)

(* Any record of two such functions is the memory after the step.          *)
LEMMA BecomesMemory ==
    ASSUME NEW l \in Memories, Becomes(l)
    PROVE  Memory' = l
BY DEF Becomes, Memory, Memories

(* mqtt_session_init gives all items back, *)
LEMMA InitStep ==
    ASSUME SessionInit
    PROVE  Lists(Memory', <<>>,
                 [j \in 1..SessionSize |-> (SessionSize + 1) - j])
<1>1. Initialised \in Memories
  BY ListsInitialised DEF Lists
<1>2. Memory' = Initialised
  BY <1>1, BecomesMemory DEF SessionInit
<1>3. QED
  BY <1>2, ListsInitialised

(* mqtt_session_add_item takes the first, *)
LEMMA AddStep ==
    ASSUME NEW u, NEW f, Lists(Memory, u, f),
           NEW new, AddItemToList(new)
    PROVE  /\ Len(f) > 0 /\ f[1] \in Slots /\ ~On(u, f[1])
           /\ Lists(Memory', AtEnd(u, f[1]), Cut(f, 1))
           /\ item' = [item EXCEPT ![f[1]] = new]
<1> DEFINE i == f[1]
           l == list_add_tail(list_del(Memory, i), i, Used)
<1>1. Memory.next[Nonused] = next[Nonused] /\ next[Nonused] # Nonused
  BY DEF AddItemToList, Memory
<1>2. /\ Len(f) > 0 /\ next[Nonused] = i /\ i \in Slots /\ ~On(u, i)
      /\ Lists(l, AtEnd(u, i), Cut(f, 1))
  BY <1>1, ListsAdd
<1>3. Becomes(l) /\ item' = [item EXCEPT ![i] = new]
  BY <1>2 DEF AddItemToList
<1> HIDE DEF l
<1>4. l \in Memories
  BY <1>2 DEF Lists
<1>5. Memory' = l
  BY <1>3, <1>4, BecomesMemory
<1>6. QED
  BY <1>2, <1>3, <1>5

(* and mqtt_session_remove_item frees the first that matches. *)
LEMMA RemoveStep ==
    ASSUME NEW u, NEW f, Lists(Memory, u, f),
           NEW id, RemoveItemFromList(id)
    PROVE  \E k \in 1..Len(u) :
              /\ item[u[k]].id = id
              /\ \A j \in 1..Len(u) : item[u[j]].id = id => k <= j
              /\ Lists(Memory', Cut(u, k), InFront(f, u[k]))
<1>1. UsedList = u /\ DOMAIN u = 1..Len(u)
  <2>1. u \in Seq(Slots)
    BY DEF Lists, Chain
  <2>2. QED
    BY <2>1, ListsRead, LenProperties DEF UsedList
<1>2. PICK k \in Matches(id) : /\ \A j \in Matches(id) : k <= j
                               /\ Becomes(Freed(UsedList[k]))
  BY DEF RemoveItemFromList
<1>3. /\ k \in 1..Len(u) /\ item[u[k]].id = id
      /\ \A j \in 1..Len(u) : item[u[j]].id = id => k <= j
  BY <1>1, <1>2 DEF Matches
<1> DEFINE l == list_add(list_del(Memory, u[k]), u[k], Nonused)
<1>4. Lists(l, Cut(u, k), InFront(f, u[k]))
  BY <1>3, ListsFreed
<1>5. Becomes(l)
  BY <1>1, <1>2 DEF Freed
<1> HIDE DEF l
<1>6. Memory' = l
  BY <1>4, <1>5, BecomesMemory DEF Lists
<1>7. QED
  BY <1>3, <1>4, <1>6

-----------------------------------------------------------------------------
(* The inductive invariant: the cursor of a walk that mqtt_session_init    *)
(* has not overtaken is at the item after those it has sent.               *)

OnTrack(u) == pos # Null /\ ~stale => /\ sent <= Len(u)
                                      /\ pos = At(Used, u, sent + 1)
Typed == /\ item \in [Slots -> Items \cup {Unset}]
         /\ pos \in Nodes \cup {Null} /\ sent \in 0..SessionSize
         /\ stale \in BOOLEAN
Inv == Typed /\ \E u, f : Lists(Memory, u, f) /\ OnTrack(u)

(* It holds when the session is initialised for the first time. *)
LEMMA InitInv == Init => Inv
<1> SUFFICES ASSUME Init PROVE Inv
  OBVIOUS
<1>1. Initialised \in Memories
  BY ListsInitialised DEF Lists
<1>2. Memory = Initialised
  BY <1>1 DEF Init, Memory, Memories
<1>3. Typed
  <2>1. item \in [Slots -> Items \cup {Unset}]
    BY DEF Init
  <2>2. pos = Null /\ sent = 0 /\ stale = FALSE /\ 0 \in 0..SessionSize
    BY NodeKinds DEF Init
  <2>3. QED
    BY <2>1, <2>2, Zenon DEF Typed
<1>4. OnTrack(<<>>)
  BY DEF Init, OnTrack
<1>5. QED
  BY <1>2, <1>3, <1>4, ListsInitialised DEF Inv

(* A step of a walk: to the next item, or to its end. *)
LEMMA WalkInv ==
    ASSUME Inv, WalkStart \/ Walk
    PROVE  Inv'
<1>1. PICK u, f : Lists(Memory, u, f) /\ OnTrack(u)
  BY DEF Inv
<1>2. /\ Chain(u) /\ Ring(Memory, Used, u) /\ Len(u) \in 0..SessionSize
      /\ SessionSize \in Nat
      /\ Used \notin Slots /\ At(Used, u, 0) = Used
      /\ \A i \in 0..Len(u) : next[At(Used, u, i)] = At(Used, u, i + 1)
      /\ \A n \in Nodes : next[n] \in Nodes
  BY <1>1, ListsRead, NodeKinds DEF Lists, Ring, Memory, At
<1>3. UNCHANGED <<next, prev, item>>
  BY DEF WalkStart, Walk, WalkVisit, WalkDone
<1>4. Lists(Memory', u, f)
  BY <1>1, <1>3 DEF Memory
<1>5. CASE WalkEnd
  <2>1. OnTrack(u)'
    BY <1>5 DEF WalkEnd, OnTrack
  <2>2. pos' = Null /\ sent' = 0 /\ stale' = FALSE /\ 0 \in 0..SessionSize
    BY <1>2, <1>5 DEF WalkEnd
  <2>3. item' = item /\ item \in [Slots -> Items \cup {Unset}]
    BY <1>3 DEF Inv, Typed
  <2>4. Typed'
    BY <2>2, <2>3, Zenon DEF Typed
  <2>5. QED
    BY <1>4, <2>1, <2>4 DEF Inv
<1>6. CASE WalkStart
  <2>1. pos' = next[Used] /\ sent' = 0 /\ stale' = FALSE
    BY <1>6 DEF WalkStart
  <2>2. next[Used] = At(Used, u, 0 + 1) /\ next[Used] \in Nodes
    <3>1. 0 \in 0..Len(u) /\ Used \in Nodes
      BY <1>2, NodeKinds DEF Heads
    <3>2. next[At(Used, u, 0)] = At(Used, u, 0 + 1)
      BY <1>2, <3>1, Zenon
    <3>3. QED
      BY <1>2, <3>1, <3>2
  <2>3. OnTrack(u)'
    BY <1>2, <2>1, <2>2 DEF OnTrack
  <2>4. Typed'
    <3>1. item' = item /\ item \in [Slots -> Items \cup {Unset}]
      BY <1>3 DEF Inv, Typed
    <3>2. pos' \in Nodes /\ sent' = 0 /\ stale' = FALSE /\ 0 \in 0..SessionSize
      BY <1>2, <2>1, <2>2
    <3>3. QED
      BY <3>1, <3>2, Zenon DEF Typed
  <2>5. QED
    BY <1>4, <2>3, <2>4 DEF Inv
<1>7. CASE /\ pos \in Slots /\ pos' = next[pos] /\ UNCHANGED stale
           /\ sent' = IF stale THEN sent ELSE sent + 1
  <2>1. /\ pos # Null /\ pos \in Nodes /\ next[pos] \in Nodes
        /\ Typed /\ sent \in Nat
    BY <1>2, <1>7, NodeKinds DEF Inv, Typed
  <2>2. CASE stale
    <3>1. OnTrack(u)'
      BY <1>7, <2>2 DEF OnTrack
    <3>2. Typed'
      BY <1>3, <1>7, <2>1, <2>2 DEF Typed
    <3>3. QED
      BY <1>4, <3>1, <3>2 DEF Inv
  <2>3. CASE ~stale
    <3>1. sent <= Len(u) /\ pos = At(Used, u, sent + 1)
      BY <1>1, <2>1, <2>3 DEF OnTrack
    <3>2. sent + 1 \in 1..Len(u)
      BY <1>2, <1>7, <3>1 DEF At
    <3>3. next[pos] = At(Used, u, (sent + 1) + 1)
      BY <1>2, <3>1, <3>2
    <3>4. OnTrack(u)'
      BY <1>2, <1>7, <2>3, <3>2, <3>3 DEF OnTrack
    <3>5. Typed'
      BY <1>2, <1>3, <1>7, <2>1, <2>3, <3>2 DEF Typed
    <3>6. QED
      BY <1>4, <3>4, <3>5 DEF Inv
  <2>4. QED
    BY <2>2, <2>3
<1>8. QED
  BY <1>5, <1>6, <1>7 DEF Walk, WalkVisit, WalkDone

(* Every operation keeps it. *)
LEMMA NextInv == Inv /\ [Next]_vars => Inv'
<1> SUFFICES ASSUME Inv, [Next]_vars PROVE Inv'
  OBVIOUS
<1>1. PICK u, f : Lists(Memory, u, f) /\ OnTrack(u)
  BY DEF Inv
<1>2. ASSUME NEW new \in Items, AddItemToList(new) PROVE Inv'
  <2>1. UNCHANGED walkVars /\ pos = Null
    BY <1>2 DEF AddItemToList, Mqttmain
  <2>2. /\ Lists(Memory', AtEnd(u, f[1]), Cut(f, 1))
        /\ item' = [item EXCEPT ![f[1]] = new]
    BY <1>1, <1>2, AddStep
  <2>3. Typed'
    BY <2>1, <2>2 DEF Inv, Typed, walkVars
  <2>4. OnTrack(AtEnd(u, f[1]))'
    BY <2>1 DEF OnTrack, walkVars
  <2>5. QED
    BY <2>2, <2>3, <2>4 DEF Inv
<1>3. ASSUME NEW id, RemoveItemFromList(id) PROVE Inv'
  <2>1. UNCHANGED <<item, walkVars>> /\ pos = Null
    BY <1>3 DEF RemoveItemFromList, Mqttmain
  <2>2. PICK k \in 1..Len(u) : Lists(Memory', Cut(u, k), InFront(f, u[k]))
    BY <1>1, <1>3, RemoveStep
  <2>3. Typed'
    BY <2>1 DEF Inv, Typed, walkVars
  <2>4. OnTrack(Cut(u, k))'
    BY <2>1 DEF OnTrack, walkVars
  <2>5. QED
    BY <2>2, <2>3, <2>4 DEF Inv
<1>4. CASE SessionInit
  <2>1. Typed'
    BY <1>4 DEF SessionInit, Inv, Typed
  <2>2. OnTrack(<<>>)'
    BY <1>4 DEF SessionInit, OnTrack
  <2>3. QED
    BY <1>4, <2>1, <2>2, InitStep DEF Inv
<1>5. CASE WalkStart \/ Walk
  BY <1>5, WalkInv
<1>6. CASE UNCHANGED vars
  <2>1. Typed'
    BY <1>6 DEF vars, walkVars, Inv, Typed
  <2>2. Memory' = Memory /\ OnTrack(u)'
    BY <1>1, <1>6 DEF vars, walkVars, Memory, OnTrack
  <2>3. QED
    BY <1>1, <2>1, <2>2 DEF Inv
<1>7. QED
  BY <1>2, <1>3, <1>4, <1>5, <1>6 DEF Next

(* It holds in every reachable state. *)
LEMMA InvHolds == Spec => []Inv
BY InitInv, NextInv, PTL DEF Spec

-----------------------------------------------------------------------------
(* What the session keeps to                                               *)

(* Between operations every pointer of every list head is one to a list    *)
(* head: mqtt_session.c leaves none of the nulls that list_del writes.     *)
THEOREM TypeOKHolds == Spec => []TypeOK
<1>1. Inv => TypeOK
  <2> SUFFICES ASSUME Inv PROVE TypeOK
    OBVIOUS
  <2>1. PICK u, f : Lists(Memory, u, f)
    BY DEF Inv
  <2>2. /\ next \in [Nodes -> Nodes \cup {Null}]
        /\ prev \in [Nodes -> Nodes \cup {Null}]
    BY <2>1 DEF Lists, Memory, Memories
  <2>3. \A n \in Nodes : next[n] \in Nodes /\ prev[n] \in Nodes
    BY <2>1, ListsRead DEF Memory
  <2>4. next \in [Nodes -> Nodes] /\ prev \in [Nodes -> Nodes]
    BY <2>2, <2>3
  <2>5. QED
    BY <2>4, Zenon DEF Inv, Typed, TypeOK
<1>2. QED
  BY <1>1, InvHolds, PTL

(* For every size of the session: each item of the array is on exactly one *)
(* of used_list and nonused_list, once, and the lists read the same        *)
(* forwards and backwards, whatever is added, removed and initialised.     *)
THEOREM NothingLostHolds == Spec => []NothingLost
<1>1. Inv => NothingLost
  <2> SUFFICES ASSUME Inv PROVE NothingLost
    OBVIOUS
  <2>1. PICK u, f : Lists(Memory, u, f)
    BY DEF Inv
  <2>2. UsedList = u /\ list_for_each(Memory, Nonused) = f
    BY <2>1, ListsRead DEF UsedList
  <2>3. \A n \in Nodes : next[n] \in Nodes /\ prev[next[n]] = n
    BY <2>1, ListsRead DEF Memory
  <2>4. /\ Chain(u) /\ Chain(f)
        /\ DOMAIN u = 1..Len(u) /\ DOMAIN f = 1..Len(f)
    BY <2>1, LenProperties DEF Lists, Chain
  <2>5. IsInjective(u) /\ IsInjective(f)
    BY <2>4 DEF Chain, IsInjective
  <2>6. /\ \A n : n \in ToSet(u) <=> On(u, n)
        /\ \A n : n \in ToSet(f) <=> On(f, n)
    BY <2>4 DEF ToSet, On
  <2>7. ToSet(u) \cap ToSet(f) = {} /\ ToSet(u) \cup ToSet(f) = Slots
    <3>1. /\ \A n : On(u, n) => n \in Slots /\ ~On(f, n)
          /\ \A n : On(f, n) => n \in Slots /\ ~On(u, n)
      BY <2>1, ListsApart
    <3>2. \A n \in Slots : On(u, n) <=> ~On(f, n)
      BY <2>1 DEF Lists
    <3>3. QED
      BY <2>6, <3>1, <3>2
  <2>8. QED
    BY <2>2, <2>3, <2>5, <2>7 DEF NothingLost
<1>2. QED
  BY <1>1, InvHolds, PTL

(* mqtt_session_iterate_through_items is always at the item that follows   *)
(* those it has sent, for every session, unless mqtt_session_init has been *)
(* called in the middle of it.                                             *)
THEOREM ResendsInOrderHolds == Spec => []ResendsInOrder
<1>1. Inv => ResendsInOrder
  <2> SUFFICES ASSUME Inv, pos # Null, ~stale
               PROVE  pos = Append(UsedList, Used)[sent + 1]
    BY DEF ResendsInOrder
  <2>1. PICK u, f : Lists(Memory, u, f) /\ OnTrack(u)
    BY DEF Inv
  <2>2. UsedList = u
    BY <2>1, ListsRead DEF UsedList
  <2>3. sent <= Len(u) /\ pos = At(Used, u, sent + 1) /\ sent \in Nat
    BY <2>1, NodeKinds DEF OnTrack, Inv, Typed
  <2>4. u \in Seq(Int) /\ Len(u) \in Nat /\ Used \in Int
    <3>1. u \in Seq(Slots) /\ Len(u) \in Nat
      BY <2>1 DEF Lists, Chain
    <3>2. u \in [1..Len(u) -> Int]
      BY <3>1, LenProperties, NodeKinds
    <3>3. u \in Seq(Int)
      BY <3>1, <3>2, SeqDef
    <3>4. QED
      BY <3>1, <3>3, NodeKinds DEF Heads
  <2>5. /\ \A i \in 1..Len(u) : Append(u, Used)[i] = u[i]
        /\ Append(u, Used)[Len(u) + 1] = Used
    BY <2>4, AppendProperties
  <2>6. CASE sent < Len(u)
    <3>1. sent + 1 \in 1..Len(u)
      BY <2>3, <2>4, <2>6
    <3>2. QED
      BY <2>2, <2>3, <2>5, <3>1 DEF At
  <2>7. CASE sent = Len(u)
    <3>1. sent + 1 \notin 1..Len(u)
      BY <2>4, <2>7
    <3>2. QED
      BY <2>2, <2>3, <2>5, <2>7, <3>1 DEF At
  <2>8. sent < Len(u) \/ sent = Len(u)
    BY <2>3, <2>4
  <2>9. QED
    BY <2>6, <2>7, <2>8
<1>2. QED
  BY <1>1, InvHolds, PTL

-----------------------------------------------------------------------------
(* The sequence that the manager takes the session for                     *)

(* The items on the used list, in its order. *)
SessionOf(l, items) ==
    LET w == list_for_each(l, Used) IN [k \in DOMAIN w |-> items[w[k]]]

LEMMA SessionElements ==
    ASSUME NEW l, NEW u, NEW f, Lists(l, u, f),
           NEW S, NEW items \in [Slots -> S]
    PROVE  /\ SessionOf(l, items) \in Seq(S)
           /\ Len(SessionOf(l, items)) = Len(u) /\ Len(u) \in Nat
           /\ \A k \in 1..Len(u) : SessionOf(l, items)[k] = items[u[k]]
<1> DEFINE s == SessionOf(l, items)
<1>1. u \in Seq(Slots) /\ Len(u) \in Nat /\ list_for_each(l, Used) = u
  BY ListsRead DEF Lists, Chain
<1>2. DOMAIN u = 1..Len(u) /\ \A k \in 1..Len(u) : u[k] \in Slots
  BY <1>1, LenProperties, ElementOfSeq
<1>3. s = [k \in 1..Len(u) |-> items[u[k]]]
  BY <1>1, <1>2 DEF SessionOf
<1> HIDE DEF s
<1>4. s \in [1..Len(u) -> S]
  BY <1>2, <1>3
<1>5. s \in Seq(S) /\ Len(s) = Len(u)
  BY <1>1, <1>4, LenProperties, SeqDef, SMT
<1>6. QED
  BY <1>1, <1>3, <1>5 DEF s

(* The session of the module, before a step and after it. *)
LEMMA SessionIs ==
    /\ Session = SessionOf(Memory, item)
    /\ Session' = SessionOf(Memory', item')
BY DEF Session, SessionOf, UsedList

(* A packet added is at the end of it. *)
LEMMA AddImplements ==
    ASSUME Inv, NEW new \in Items, AddItemToList(new)
    PROVE  Session' = AddItem(Session, new)
<1>1. PICK u, f : Lists(Memory, u, f)
  BY DEF Inv
<1> DEFINE S == Items \cup {Unset}
           i == f[1]
           v == AtEnd(u, i)
           s == Session
           t == Session'
<1>2. /\ Len(f) > 0 /\ i \in Slots /\ ~On(u, i)
      /\ Lists(Memory', v, Cut(f, 1)) /\ item' = [item EXCEPT ![i] = new]
  BY <1>1, AddStep
<1>3. item \in [Slots -> S] /\ item' \in [Slots -> S] /\ new \in S
  BY <1>2 DEF Inv, Typed
<1>4. Chain(u) /\ Len(f) \in Nat /\ Len(u) + Len(f) = SessionSize
  BY <1>1 DEF Lists, Chain
<1>5. /\ s \in Seq(S) /\ Len(s) = Len(u) /\ Len(u) \in Nat
      /\ \A k \in 1..Len(u) : s[k] = item[u[k]]
  BY <1>1, <1>3, SessionElements, SessionIs
<1>6. /\ t \in Seq(S) /\ Len(t) = Len(v)
      /\ \A k \in 1..Len(v) : t[k] = item'[v[k]]
  <2> DEFINE m == Memory'
             it == item'
             g == Cut(f, 1)
  <2>1. t = SessionOf(m, it) /\ Lists(m, v, g) /\ it \in [Slots -> S]
    BY <1>2, <1>3, SessionIs
  <2> HIDE DEF m, it, g, v, t, S
  <2>2. /\ t \in Seq(S) /\ Len(t) = Len(v)
        /\ \A k \in 1..Len(v) : t[k] = it[v[k]]
    BY <2>1, SessionElements
  <2>3. QED
    BY <2>2 DEF it
<1> HIDE DEF s, t, S
<1>7. /\ Len(v) = Len(u) + 1 /\ v[Len(u) + 1] = i
      /\ \A k \in 1..Len(u) : v[k] = u[k] /\ u[k] \in Slots /\ u[k] # i
  <2>1. Len(v) = Len(u) + 1
    BY <1>2, <1>4, AtEndChain
  <2>2. \A k \in 1..Len(u) : u[k] \in Slots /\ u[k] # i
    BY <1>2, <1>4, ElementOfSeq DEF Chain, On
  <2>3. QED
    BY <1>5, <2>1, <2>2 DEF AtEnd
<1> HIDE DEF i, v
<1>8. /\ t[Len(u) + 1] = new
      /\ \A k \in 1..Len(u) : t[k] = s[k]
  <2>1. item'[i] = new /\ \A x \in Slots : x # i => item'[x] = item[x]
    BY <1>2, <1>3
  <2>2. Len(u) + 1 \in 1..Len(v) /\ \A k \in 1..Len(u) : k \in 1..Len(v)
    BY <1>5, <1>7
  <2>3. QED
    BY <1>5, <1>6, <1>7, <2>1, <2>2
<1>9. /\ Append(s, new) \in Seq(S) /\ Len(Append(s, new)) = Len(u) + 1
      /\ Append(s, new)[Len(u) + 1] = new
      /\ \A k \in 1..Len(u) : Append(s, new)[k] = s[k]
  BY <1>3, <1>5, AppendProperties
<1>10. t = Append(s, new)
  <2>1. \A k \in 1..(Len(u) + 1) : k = Len(u) + 1 \/ k \in 1..Len(u)
    BY <1>5
  <2>2. \A k \in 1..(Len(u) + 1) : t[k] = Append(s, new)[k]
    BY <1>8, <1>9, <2>1
  <2>3. QED
    BY <1>6, <1>7, <1>9, <2>2, SeqEqual
<1>11. Len(s) < SessionSize
  BY <1>2, <1>4, <1>5
<1>12. QED
  BY <1>10, <1>11 DEF AddItem, s, t

(* The packet removed is the first that matches. *)
LEMMA RemoveImplements ==
    ASSUME Inv, NEW id, RemoveItemFromList(id)
    PROVE  Session' = RemoveItem(Session, id)
<1>1. PICK u, f : Lists(Memory, u, f)
  BY DEF Inv
<1>2. PICK k \in 1..Len(u) :
         /\ item[u[k]].id = id
         /\ \A j \in 1..Len(u) : item[u[j]].id = id => k <= j
         /\ Lists(Memory', Cut(u, k), InFront(f, u[k]))
  BY <1>1, RemoveStep
<1> DEFINE S == Items \cup {Unset}
           v == Cut(u, k)
           s == Session
           t == Session'
           r == RemoveItem(Session, id)
<1>3. item \in [Slots -> S] /\ item' = item
  BY DEF Inv, Typed, RemoveItemFromList
<1>4. /\ s \in Seq(S) /\ Len(s) = Len(u) /\ Len(u) \in Nat
      /\ \A j \in 1..Len(u) : s[j] = item[u[j]]
  BY <1>1, <1>3, SessionElements, SessionIs
<1>5. /\ t \in Seq(S) /\ Len(t) = Len(v)
      /\ \A j \in 1..Len(v) : t[j] = item[v[j]]
  BY <1>2, <1>3, SessionElements, SessionIs
<1>6. /\ Len(v) = Len(u) - 1
      /\ \A j \in 1..(Len(u) - 1) : v[j] = u[IF j < k THEN j ELSE j + 1]
  <2>1. Chain(u)
    BY <1>1 DEF Lists
  <2>2. Len(v) = Len(u) - 1
    BY <2>1, CutChain
  <2>3. QED
    BY <2>2 DEF Cut
<1> HIDE DEF S, v, s, t
<1>7. ItemExist(s, id)
  <2>1. DOMAIN s = 1..Len(u) /\ s[k].id = id
    BY <1>2, <1>4, LenProperties
  <2>2. QED
    BY <2>1 DEF ItemExist
<1>8. FirstItem(s, id) = k
  <2>1. /\ FirstItem(s, id) \in 1..Len(s) /\ s[FirstItem(s, id)].id = id
        /\ \A j \in 1..Len(s) : s[j].id = id => FirstItem(s, id) <= j
    BY <1>4, <1>7, FirstItemExists
  <2> DEFINE n == FirstItem(s, id)
  <2> HIDE DEF n
  <2>2. n \in 1..Len(u) /\ item[u[n]].id = id /\ s[k].id = id
    BY <1>2, <1>4, <2>1 DEF n
  <2>3. k <= n /\ n <= k
    BY <1>2, <1>4, <2>1, <2>2 DEF n
  <2>4. QED
    BY <1>4, <2>2, <2>3 DEF n
<1>9. /\ r \in Seq(S) /\ Len(r) = Len(u) - 1
      /\ \A j \in 1..(Len(u) - 1) : r[j] = s[IF j < k THEN j ELSE j + 1]
  <2>1. RemoveItem(s, id) \in Seq(S)
    BY <1>4, RemoveItemType
  <2>2. /\ Len(RemoveItem(s, id)) = Len(s) - 1
        /\ \A j \in 1..(Len(s) - 1) : RemoveItem(s, id)[j] =
              s[IF j < FirstItem(s, id) THEN j ELSE j + 1]
    BY <1>4, <1>7, RemoveItemElements
  <2>3. r = RemoveItem(s, id)
    BY DEF s
  <2> HIDE DEF r
  <2>4. QED
    BY <1>4, <1>8, <2>1, <2>2, <2>3
<1> HIDE DEF r
<1>10. ASSUME NEW j \in 1..(Len(u) - 1) PROVE t[j] = r[j]
  <2> DEFINE n == IF j < k THEN j ELSE j + 1
  <2>1. n \in 1..Len(u) /\ j \in 1..Len(v)
    BY <1>4, <1>6
  <2>2. t[j] = item[u[n]] /\ r[j] = s[n]
    BY <1>5, <1>6, <1>9, <2>1
  <2> HIDE DEF n
  <2>3. QED
    BY <1>4, <2>1, <2>2
<1>11. t = r
  BY <1>5, <1>6, <1>9, <1>10, SeqEqual
<1>12. QED
  BY <1>11 DEF t, r

(* The operators of the sequence are those of MqttSession. *)
LEMMA StoreOperators ==
    /\ \A s, new : AddItem(s, new) = Store!AddItem(s, new)
    /\ \A s, id : RemoveItem(s, id) = Store!RemoveItem(s, id)
<1>1. \A s, new : AddItem(s, new) = Store!AddItem(s, new)
  BY DEF AddItem, Store!AddItem
<1>2. \A s, id : ItemExist(s, id) = Store!ItemExist(s, id)
  BY DEF ItemExist, Store!ItemExist
<1>3. \A s, id : FirstItem(s, id) = Store!FirstItem(s, id)
  BY DEF FirstItem, Store!FirstItem
<1>4. \A s, n : RemoveAt(s, n) = Store!RemoveAt(s, n)
  BY DEF RemoveAt, Store!RemoveAt
<1>5. \A s, id : RemoveItem(s, id) = Store!RemoveItem(s, id)
  BY <1>2, <1>3, <1>4 DEF RemoveItem, Store!RemoveItem
<1>6. QED
  BY <1>1, <1>5

(* The pointer operations of mqtt_session.c do to the packets on the used  *)
(* list what the other modules take the session's operations to do to a    *)
(* sequence; a walk does not change it.                                    *)
THEOREM ImplementsSessionHolds == Spec => ImplementsSession
<1>1. Lists(Memory, <<>>, [j \in 1..SessionSize |-> (SessionSize + 1) - j])
         => Session = <<>>
  <2> DEFINE f == [j \in 1..SessionSize |-> (SessionSize + 1) - j]
  <2> HIDE DEF f
  <2>1. ASSUME Lists(Memory, <<>>, f) PROVE UsedList = <<>>
    BY <2>1, ListsRead DEF UsedList
  <2>2. ASSUME UsedList = <<>> PROVE Session = <<>>
    BY <2>2 DEF Session
  <2>3. QED
    BY <2>1, <2>2 DEF f
<1>2. Init => Store!Init
  <2> SUFFICES ASSUME Init PROVE Store!Init
    OBVIOUS
  <2>1. Initialised \in Memories
    BY ListsInitialised DEF Lists
  <2>2. Memory = Initialised
    BY <2>1 DEF Init, Memory, Memories
  <2>3. QED
    BY <1>1, <2>2, ListsInitialised DEF Store!Init
<1>3. Inv /\ [Next]_vars => [Store!Next]_Session
  <2> SUFFICES ASSUME Inv, [Next]_vars PROVE [Store!Next]_Session
    OBVIOUS
  <2>1. ASSUME NEW new \in Items, AddItemToList(new)
        PROVE  Store!Next
    <3>1. Session' = Store!AddItem(Session, new)
      BY <2>1, AddImplements, StoreOperators
    <3>2. QED
      BY <3>1 DEF Store!Next, Store!AddPacket
  <2>2. ASSUME NEW new \in Items, RemoveItemFromList(new.id)
        PROVE  Store!Next
    <3>1. Session' = RemoveItem(Session, new.id)
      BY <2>2, RemoveImplements
    <3>2. Session' = Store!RemoveItem(Session, new.id)
      BY <3>1, StoreOperators
    <3>3. QED
      BY <3>2 DEF Store!Next, Store!RemovePacket
  <2>3. CASE SessionInit
    <3> DEFINE f == [j \in 1..SessionSize |-> (SessionSize + 1) - j]
               m == Memory'
    <3>1. Lists(m, <<>>, f)
      BY <2>3, InitStep
    <3> HIDE DEF f, m
    <3>2. list_for_each(m, Used) = <<>>
      BY <3>1, ListsRead
    <3>3. Session' = <<>>
      BY <3>2, SessionIs DEF SessionOf, m
    <3>4. QED
      BY <3>3 DEF Store!Next, Store!Emptied
  <2>4. CASE WalkStart \/ Walk \/ UNCHANGED vars
    <3>1. UNCHANGED <<next, prev, item>>
      BY <2>4 DEF WalkStart, Walk, WalkVisit, WalkDone, vars
    <3>2. Memory' = Memory /\ item' = item
      BY <3>1 DEF Memory
    <3>3. Session' = Session
      BY <3>2, SessionIs
    <3>4. QED
      BY <3>3
  <2>5. QED
    BY <2>1, <2>2, <2>3, <2>4 DEF Next
<1>4. QED
  BY <1>2, <1>3, InvHolds, PTL DEF Spec, ImplementsSession, Store!Spec
=============================================================================
