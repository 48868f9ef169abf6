------------------------- MODULE MqttSessionProofs -------------------------
(***************************************************************************)
(* What the session's operators (mqtt_session.c) return, for sessions of   *)
(* any items and any size; and which frames a sequence has, how often and  *)
(* in which order, as frames are lost from it and added to it.             *)
(***************************************************************************)
EXTENDS MqttSession, SequenceTheorems, FiniteSetTheorems,
        WellFoundedInduction, TLAPS

(* If the session has an item with an id, mqtt_session_remove_item finds   *)
(* the first one.                                                          *)
LEMMA FirstItemExists ==
    ASSUME NEW S, NEW s \in Seq(S), NEW id, ItemExist(s, id)
    PROVE  /\ FirstItem(s, id) \in 1..Len(s)
           /\ s[FirstItem(s, id)].id = id
           /\ \A j \in 1..Len(s) : s[j].id = id => FirstItem(s, id) <= j
<1> DEFINE T == {i \in DOMAIN s : s[i].id = id}
<1>1. DOMAIN s = 1..Len(s) /\ Len(s) \in Nat
  BY LenProperties
<1>2. T \subseteq Nat /\ T # {}
  BY <1>1 DEF ItemExist
<1> DEFINE Less == {ss \in Nat \X Nat : ss[1] < ss[2]}
<1>3. IsWellFoundedOn(Less, Nat)
  BY NatLessThanWellFounded, Zenon DEF OpToRel
<1>4. PICK i \in T : \A j \in T : <<j, i>> \notin Less
  <2> HIDE DEF T, Less
  <2> QED
    BY <1>2, <1>3, WFMin
<1>5. \A j \in T : i <= j
  <2> SUFFICES ASSUME NEW j \in T PROVE i <= j
    OBVIOUS
  <2>1. i \in Nat /\ j \in Nat /\ <<j, i>> \notin Less
    BY <1>2, <1>4
  <2> HIDE DEF T
  <2>2. ~(j < i)
    BY <2>1
  <2>3. QED
    BY <2>1, <2>2
<1>6. \E k \in DOMAIN s : /\ s[k].id = id
                          /\ \A j \in DOMAIN s : s[j].id = id => k <= j
  BY <1>5
<1>7. /\ FirstItem(s, id) \in DOMAIN s
      /\ s[FirstItem(s, id)].id = id
      /\ \A j \in DOMAIN s : s[j].id = id => FirstItem(s, id) <= j
  BY <1>6 DEF FirstItem
<1>8. QED
  BY <1>1, <1>7

(* Removing an item leaves only items that were there, and no more of them. *)
LEMMA RemoveItemType ==
    ASSUME NEW S, NEW s \in Seq(S), NEW id
    PROVE  /\ RemoveItem(s, id) \in Seq(S)
           /\ Len(RemoveItem(s, id)) <= Len(s)
<1>1. CASE ~ItemExist(s, id)
  BY <1>1, LenProperties DEF RemoveItem
<1>2. CASE ItemExist(s, id)
  <2> DEFINE i == FirstItem(s, id)
             a == SubSeq(s, 1, i - 1)
             b == SubSeq(s, i + 1, Len(s))
  <2>1. i \in 1..Len(s) /\ Len(s) \in Nat
    BY <1>2, FirstItemExists, LenProperties
  <2> HIDE DEF i
  <2>2. \A j \in 1..Len(s) : s[j] \in S
    BY ElementOfSeq
  <2>3. /\ a \in Seq(S) /\ Len(a) = i - 1
        /\ b \in Seq(S) /\ Len(b) = Len(s) - i
    BY <2>1, <2>2, SubSeqProperties
  <2> HIDE DEF a, b
  <2>4. a \o b \in Seq(S) /\ Len(a \o b) = Len(s) - 1
    BY <2>1, <2>3, ConcatProperties
  <2>5. RemoveItem(s, id) = a \o b
    BY <1>2 DEF RemoveItem, RemoveAt, i, a, b
  <2>6. QED
    BY <2>1, <2>4, <2>5
<1>3. QED
  BY <1>1, <1>2

(* Adding an item never exceeds SESSION_ITEMS_SIZE and adds nothing but    *)
(* that item.                                                              *)
LEMMA AddItemType ==
    ASSUME NEW S, NEW s \in Seq(S), NEW item \in S, Len(s) <= SessionSize
    PROVE  AddItem(s, item) \in Seq(S) /\ Len(AddItem(s, item)) <= SessionSize
BY SessionSizeAssumption, AppendProperties, LenProperties DEF AddItem

(* Removing an item closes the gap it leaves.                              *)
LEMMA RemoveItemElements ==
    ASSUME NEW S, NEW s \in Seq(S), NEW id, ItemExist(s, id)
    PROVE  /\ Len(RemoveItem(s, id)) = Len(s) - 1
           /\ \A j \in 1..(Len(s) - 1) : RemoveItem(s, id)[j] =
                 s[IF j < FirstItem(s, id) THEN j ELSE j + 1]
<1> DEFINE i == FirstItem(s, id)
           a == SubSeq(s, 1, i - 1)
           b == SubSeq(s, i + 1, Len(s))
<1>1. i \in 1..Len(s) /\ Len(s) \in Nat
  BY FirstItemExists, LenProperties
<1> HIDE DEF i
<1>2. \A j \in 1..Len(s) : s[j] \in S
  BY ElementOfSeq
<1>3. /\ a \in Seq(S) /\ Len(a) = i - 1
      /\ \A j \in 1..(i - 1) : a[j] = s[j]
  BY <1>1, <1>2, SubSeqProperties
<1>4. /\ b \in Seq(S) /\ Len(b) = Len(s) - i
      /\ \A j \in 1..(Len(s) - i) : b[j] = s[i + j]
  <2>1. \A j \in (i + 1)..Len(s) : s[j] \in S
    BY <1>1, <1>2
  <2>2. /\ b \in Seq(S)
        /\ Len(b) = IF i + 1 <= Len(s) THEN Len(s) - (i + 1) + 1 ELSE 0
        /\ \A j \in 1..(Len(s) - (i + 1) + 1) : b[j] = s[(i + 1) + j - 1]
    BY <1>1, <2>1, SubSeqProperties
  <2>3. QED
    BY <1>1, <2>2
<1> HIDE DEF a, b
<1>5. /\ Len(a \o b) = Len(s) - 1
      /\ \A j \in 1..(Len(s) - 1) :
           (a \o b)[j] = IF j <= i - 1 THEN a[j] ELSE b[j - (i - 1)]
  <2>1. /\ Len(a \o b) = Len(a) + Len(b)
        /\ \A j \in 1..(Len(a) + Len(b)) :
             (a \o b)[j] = IF j <= Len(a) THEN a[j] ELSE b[j - Len(a)]
    BY <1>3, <1>4, ConcatProperties
  <2>2. Len(a) = i - 1 /\ Len(a) + Len(b) = Len(s) - 1
    BY <1>1, <1>3, <1>4
  <2>3. QED
    BY <2>1, <2>2
<1>6. RemoveItem(s, id) = a \o b
  BY DEF RemoveItem, RemoveAt, i, a, b
<1>7. ASSUME NEW j \in 1..(Len(s) - 1)
      PROVE  (a \o b)[j] = s[IF j < i THEN j ELSE j + 1]
  <2>1. CASE j < i
    BY <1>1, <1>3, <1>5, <2>1
  <2>2. CASE ~(j < i)
    <3>1. j - (i - 1) \in 1..(Len(s) - i) /\ i + (j - (i - 1)) = j + 1
      BY <1>1, <2>2
    <3>2. (a \o b)[j] = b[j - (i - 1)]
      BY <1>1, <1>5, <2>2
    <3>3. QED
      BY <1>4, <2>2, <3>1, <3>2
  <2>3. QED
    BY <2>1, <2>2
<1>8. QED
  BY <1>5, <1>6, <1>7 DEF i

-----------------------------------------------------------------------------
(* Which frames a sequence has, and in which order                         *)

(* The sequence has an element of A. *)
Has(s, A) == \E i \in 1..Len(s) : s[i] \in A

(* It has at most one. *)
Once(s, A) == \A i, j \in 1..Len(s) : s[i] \in A /\ s[j] \in A => i = j

(* All its elements of A come before all its elements of B. *)
Before(s, A, B) ==
    \A i, j \in 1..Len(s) : s[i] \in A /\ s[j] \in B => i < j

(* t is what is left of s when some elements are lost. *)
Thins(t, s) ==
    \E f \in [1..Len(t) -> 1..Len(s)] :
        /\ \A i, j \in 1..Len(t) : i < j => f[i] < f[j]
        /\ \A i \in 1..Len(t) : t[i] = s[f[i]]

(* An empty sequence has nothing. *)
LEMMA EmptyHas ==
    \A A, B : ~Has(<<>>, A) /\ Once(<<>>, A) /\ Before(<<>>, A, B)
BY DEF Has, Once, Before

(* Losing elements makes none appear, and keeps the order of the others.   *)
LEMMA ThinKeeps ==
    ASSUME NEW s, NEW t, Len(s) \in Nat, Len(t) \in Nat, Thins(t, s)
    PROVE  /\ \A A : Has(t, A) => Has(s, A)
           /\ \A A : Once(s, A) => Once(t, A)
           /\ \A A, B : Before(s, A, B) => Before(t, A, B)
<1>1. PICK f \in [1..Len(t) -> 1..Len(s)] :
        /\ \A i, j \in 1..Len(t) : i < j => f[i] < f[j]
        /\ \A i \in 1..Len(t) : t[i] = s[f[i]]
  BY DEF Thins
<1>2. \A i \in 1..Len(t) : f[i] \in 1..Len(s)
  BY <1>1
<1>3. \A i, j \in 1..Len(t) : f[i] < f[j] => i < j
  BY <1>1, <1>2
<1>4. \A i, j \in 1..Len(t) : f[i] = f[j] => i = j
  BY <1>1, <1>2
<1>5. ASSUME NEW A PROVE Has(t, A) => Has(s, A)
  BY <1>1, <1>2 DEF Has
<1>6. ASSUME NEW A, Once(s, A) PROVE Once(t, A)
  BY <1>1, <1>2, <1>4, <1>6 DEF Once
<1>7. ASSUME NEW A, NEW B, Before(s, A, B) PROVE Before(t, A, B)
  BY <1>1, <1>2, <1>3, <1>7 DEF Before
<1>8. QED
  BY <1>5, <1>6, <1>7

(* Nothing lost. *)
LEMMA ThinSame ==
    ASSUME NEW s, Len(s) \in Nat
    PROVE  Thins(s, s)
<1> DEFINE f == [i \in 1..Len(s) |-> i]
<1>1. /\ f \in [1..Len(s) -> 1..Len(s)]
      /\ \A i, j \in 1..Len(s) : i < j => f[i] < f[j]
      /\ \A i \in 1..Len(s) : s[i] = s[f[i]]
  OBVIOUS
<1> HIDE DEF f
<1>2. QED
  BY <1>1 DEF Thins

(* A sequence without its head. *)
LEMMA ThinTail ==
    ASSUME NEW S, NEW s \in Seq(S), s # <<>>
    PROVE  Thins(Tail(s), s)
<1> DEFINE f == [i \in 1..Len(Tail(s)) |-> i + 1]
<1>1. /\ Len(Tail(s)) = Len(s) - 1 /\ Len(s) \in Nat
      /\ \A i \in 1..Len(Tail(s)) : Tail(s)[i] = s[i + 1]
  BY HeadTailProperties, LenProperties
<1>2. /\ f \in [1..Len(Tail(s)) -> 1..Len(s)]
      /\ \A i, j \in 1..Len(Tail(s)) : i < j => f[i] < f[j]
      /\ \A i \in 1..Len(Tail(s)) : Tail(s)[i] = s[f[i]]
  BY <1>1
<1> HIDE DEF f
<1>3. QED
  BY <1>2 DEF Thins

(* The beginning of a sequence. *)
LEMMA ThinPrefix ==
    ASSUME NEW S, NEW s \in Seq(S), NEW n \in 0..Len(s)
    PROVE  Thins(SubSeq(s, 1, n), s) /\ SubSeq(s, 1, n) \in Seq(S)
<1> DEFINE t == SubSeq(s, 1, n)
           f == [i \in 1..Len(t) |-> i]
<1>1. Len(s) \in Nat /\ \A i \in 1..n : s[i] \in S
  BY LenProperties, ElementOfSeq
<1>2. t \in Seq(S) /\ Len(t) = n /\ \A i \in 1..n : t[i] = s[i]
  BY <1>1, SubSeqProperties
<1> HIDE DEF t
<1>3. /\ f \in [1..Len(t) -> 1..Len(s)]
      /\ \A i, j \in 1..Len(t) : i < j => f[i] < f[j]
      /\ \A i \in 1..Len(t) : t[i] = s[f[i]]
  BY <1>1, <1>2
<1> HIDE DEF f
<1>4. Thins(t, s)
  BY <1>3 DEF Thins
<1>5. QED
  BY <1>2, <1>4 DEF t

(* mqtt_session_remove_item takes an item out and leaves the others in     *)
(* their order.                                                            *)
LEMMA ThinRemove ==
    ASSUME NEW S, NEW s \in Seq(S), NEW id
    PROVE  Thins(RemoveItem(s, id), s)
<1>1. CASE ~ItemExist(s, id)
  BY <1>1, ThinSame, LenProperties DEF RemoveItem
<1>2. CASE ItemExist(s, id)
  <2> DEFINE t == RemoveItem(s, id)
             k == FirstItem(s, id)
             f == [i \in 1..Len(t) |-> IF i < k THEN i ELSE i + 1]
  <2>1. k \in 1..Len(s) /\ Len(s) \in Nat
    BY <1>2, FirstItemExists, LenProperties
  <2>2. /\ Len(t) = Len(s) - 1
        /\ \A i \in 1..(Len(s) - 1) : t[i] = s[IF i < k THEN i ELSE i + 1]
    BY <1>2, RemoveItemElements
  <2> HIDE DEF t, k
  <2>3. /\ f \in [1..Len(t) -> 1..Len(s)]
        /\ \A i, j \in 1..Len(t) : i < j => f[i] < f[j]
        /\ \A i \in 1..Len(t) : t[i] = s[f[i]]
    BY <2>1, <2>2
  <2> HIDE DEF f
  <2>4. Thins(t, s)
    BY <2>3 DEF Thins
  <2>5. QED
    BY <2>4 DEF t
<1>3. QED
  BY <1>1, <1>2

(* If an id is there at most once, none is left when it is removed.        *)
LEMMA RemoveLast ==
    ASSUME NEW S, NEW s \in Seq(S), NEW id, Once(s, {x \in S : x.id = id})
    PROVE  ~Has(RemoveItem(s, id), {x \in S : x.id = id})
<1>1. \A i \in 1..Len(s) : s[i] \in S
  BY ElementOfSeq
<1>2. Len(s) \in Nat /\ DOMAIN s = 1..Len(s)
  BY LenProperties
<1>3. CASE ~ItemExist(s, id)
  BY <1>2, <1>3 DEF RemoveItem, ItemExist, Has
<1>4. CASE ItemExist(s, id)
  <2> DEFINE t == RemoveItem(s, id)
  <2>1. PICK k \in 1..Len(s) :
           /\ s[k].id = id
           /\ Len(t) = Len(s) - 1
           /\ \A i \in 1..(Len(s) - 1) : t[i] = s[IF i < k THEN i ELSE i + 1]
    BY <1>4, FirstItemExists, RemoveItemElements
  <2> HIDE DEF t
  <2>2. \A i \in 1..Len(s) : s[i].id = id => i = k
    BY <1>1, <2>1 DEF Once
  <2>3. \A i \in 1..Len(t) : t[i].id # id
    BY <1>2, <2>1, <2>2
  <2>4. ~Has(t, {x \in S : x.id = id})
    BY <2>3 DEF Has
  <2>5. QED
    BY <2>4 DEF t
<1>5. QED
  BY <1>3, <1>4

(* Removing an id leaves the items of other ids.                           *)
LEMMA RemoveOther ==
    ASSUME NEW S, NEW s \in Seq(S), NEW id, NEW A,
           \A x \in A : x.id # id, Has(s, A)
    PROVE  Has(RemoveItem(s, id), A)
<1>1. Len(s) \in Nat
  BY LenProperties
<1>2. CASE ~ItemExist(s, id)
  BY <1>2 DEF RemoveItem
<1>3. CASE ItemExist(s, id)
  <2> DEFINE t == RemoveItem(s, id)
  <2>1. PICK k \in 1..Len(s) :
           /\ s[k].id = id
           /\ Len(t) = Len(s) - 1
           /\ \A i \in 1..(Len(s) - 1) : t[i] = s[IF i < k THEN i ELSE i + 1]
    BY <1>3, FirstItemExists, RemoveItemElements
  <2> HIDE DEF t
  <2>2. PICK i \in 1..Len(s) : s[i] \in A
    BY DEF Has
  <2>3. i # k
    BY <2>1, <2>2
  <2>4. CASE i < k
    <3>1. i \in 1..Len(t) /\ t[i] = s[i]
      BY <1>1, <2>1, <2>4
    <3>2. Has(t, A)
      BY <2>2, <3>1 DEF Has
    <3>3. QED
      BY <3>2 DEF t
  <2>5. CASE i > k
    <3>1. i - 1 \in 1..Len(t) /\ t[i - 1] = s[i]
      BY <1>1, <2>1, <2>5
    <3>2. Has(t, A)
      BY <2>2, <3>1 DEF Has
    <3>3. QED
      BY <3>2 DEF t
  <2>6. QED
    BY <2>3, <2>4, <2>5
<1>4. QED
  BY <1>2, <1>3

(* A frame added at the end comes after all the others.                    *)
LEMMA AppendHas ==
    ASSUME NEW S, NEW s \in Seq(S), NEW x \in S
    PROVE  /\ \A A : Has(Append(s, x), A) <=> Has(s, A) \/ x \in A
           /\ \A A : Once(s, A) /\ (x \in A => ~Has(s, A))
                    => Once(Append(s, x), A)
           /\ \A A, B : /\ Before(s, A, B) /\ (x \in A => ~Has(s, B))
                        /\ ~(x \in A /\ x \in B)
                      => Before(Append(s, x), A, B)
<1> DEFINE t == Append(s, x)
<1>1. /\ Len(t) = Len(s) + 1 /\ Len(s) \in Nat
      /\ \A i \in 1..Len(s) : t[i] = s[i]
      /\ t[Len(s) + 1] = x
  BY AppendProperties, LenProperties
<1> HIDE DEF t
<1>2. \A i \in 1..Len(t) : i \in 1..Len(s) \/ i = Len(s) + 1
  BY <1>1
<1>3. ASSUME NEW A PROVE Has(t, A) <=> Has(s, A) \/ x \in A
  <2>1. ASSUME Has(t, A) PROVE Has(s, A) \/ x \in A
    BY <1>1, <1>2, <2>1 DEF Has
  <2>2. ASSUME Has(s, A) PROVE Has(t, A)
    BY <1>1, <2>2 DEF Has
  <2>3. ASSUME x \in A PROVE Has(t, A)
    <3>1. Len(s) + 1 \in 1..Len(t)
      BY <1>1
    <3>2. QED
      BY <1>1, <2>3, <3>1 DEF Has
  <2>4. QED
    BY <2>1, <2>2, <2>3
<1>4. ASSUME NEW A, Once(s, A), x \in A => ~Has(s, A)
      PROVE  Once(t, A)
  BY <1>1, <1>2, <1>4 DEF Once, Has
<1>5. ASSUME NEW A, NEW B, Before(s, A, B), x \in A => ~Has(s, B),
             ~(x \in A /\ x \in B)
      PROVE  Before(t, A, B)
  BY <1>1, <1>2, <1>5 DEF Before, Has
<1>6. QED
  BY <1>3, <1>4, <1>5 DEF t

(* A sequence put behind another.                                          *)
LEMMA ConcatHas ==
    ASSUME NEW S, NEW s \in Seq(S), NEW u \in Seq(S)
    PROVE  /\ \A A : Has(s \o u, A) <=> Has(s, A) \/ Has(u, A)
           /\ \A A, B : /\ Before(s, A, B) /\ Before(u, A, B)
                        /\ ~(Has(s, B) /\ Has(u, A))
                      => Before(s \o u, A, B)
<1> DEFINE t == s \o u
<1>1. /\ Len(t) = Len(s) + Len(u) /\ Len(s) \in Nat /\ Len(u) \in Nat
      /\ \A i \in 1..(Len(s) + Len(u)) :
           t[i] = IF i <= Len(s) THEN s[i] ELSE u[i - Len(s)]
  BY ConcatProperties, LenProperties
<1> HIDE DEF t
<1>2. \A i \in 1..Len(s) : i \in 1..Len(t) /\ t[i] = s[i]
  BY <1>1
<1>3. \A i \in 1..Len(u) : Len(s) + i \in 1..Len(t) /\ t[Len(s) + i] = u[i]
  <2> SUFFICES ASSUME NEW i \in 1..Len(u)
               PROVE  Len(s) + i \in 1..Len(t) /\ t[Len(s) + i] = u[i]
    OBVIOUS
  <2>1. /\ Len(s) + i \in 1..(Len(s) + Len(u)) /\ ~(Len(s) + i <= Len(s))
        /\ (Len(s) + i) - Len(s) = i
    BY <1>1
  <2>2. QED
    BY <1>1, <2>1
<1>4. \A i \in 1..Len(t) : \/ i \in 1..Len(s) /\ t[i] = s[i]
                           \/ /\ i - Len(s) \in 1..Len(u) /\ i > Len(s)
                              /\ t[i] = u[i - Len(s)]
  BY <1>1
<1>5. ASSUME NEW A PROVE Has(t, A) <=> Has(s, A) \/ Has(u, A)
  BY <1>2, <1>3, <1>4 DEF Has
<1>6. ASSUME NEW A, NEW B, Before(s, A, B), Before(u, A, B),
             ~(Has(s, B) /\ Has(u, A)),
             NEW i \in 1..Len(t), NEW j \in 1..Len(t), t[i] \in A, t[j] \in B
      PROVE  i < j
  <2>1. CASE i \in 1..Len(s) /\ t[i] = s[i]
    BY <1>1, <1>4, <1>6, <2>1 DEF Before
  <2>2. CASE i - Len(s) \in 1..Len(u) /\ i > Len(s) /\ t[i] = u[i - Len(s)]
    <3>1. Has(u, A)
      BY <1>6, <2>2 DEF Has
    <3>2. ~(j \in 1..Len(s) /\ t[j] = s[j])
      BY <1>6, <3>1 DEF Has
    <3>3. j - Len(s) \in 1..Len(u) /\ j > Len(s) /\ t[j] = u[j - Len(s)]
      BY <1>4, <3>2
    <3>4. i - Len(s) < j - Len(s)
      BY <1>6, <2>2, <3>3 DEF Before
    <3>5. QED
      BY <1>1, <3>4
  <2>3. QED
    BY <1>4, <2>1, <2>2
<1>7. QED
  BY <1>5, <1>6 DEF t, Before

(* A sequence with at most one of a kind still has, when others follow.    *)
LEMMA ConcatOnce ==
    ASSUME NEW S, NEW s \in Seq(S), NEW u \in Seq(S), NEW A,
           Once(s, A), ~Has(u, A)
    PROVE  Once(s \o u, A)
<1> DEFINE t == s \o u
<1>1. /\ Len(t) = Len(s) + Len(u) /\ Len(s) \in Nat /\ Len(u) \in Nat
      /\ \A i \in 1..(Len(s) + Len(u)) :
           t[i] = IF i <= Len(s) THEN s[i] ELSE u[i - Len(s)]
  BY ConcatProperties, LenProperties
<1> HIDE DEF t
<1>2. ASSUME NEW i \in 1..Len(t), t[i] \in A
      PROVE  i \in 1..Len(s) /\ s[i] \in A
  <2>1. CASE i <= Len(s)
    BY <1>1, <1>2, <2>1
  <2>2. CASE ~(i <= Len(s))
    <3>1. i - Len(s) \in 1..Len(u) /\ t[i] = u[i - Len(s)]
      BY <1>1, <2>2
    <3>2. QED
      BY <1>2, <3>1 DEF Has
  <2>3. QED
    BY <2>1, <2>2
<1>3. QED
  BY <1>2 DEF Once, t

(* A sequence without its head has all but the head.                       *)
LEMMA TailHas ==
    ASSUME NEW S, NEW s \in Seq(S), s # <<>>,
           NEW A, Has(s, A), Head(s) \notin A
    PROVE  Has(Tail(s), A)
<1>1. /\ Len(Tail(s)) = Len(s) - 1 /\ Len(s) \in Nat
      /\ \A i \in 1..Len(Tail(s)) : Tail(s)[i] = s[i + 1]
      /\ Head(s) = s[1]
  BY HeadTailProperties, LenProperties
<1>2. PICK i \in 1..Len(s) : s[i] \in A
  BY DEF Has
<1>3. i # 1
  BY <1>1, <1>2
<1>4. i - 1 \in 1..Len(Tail(s)) /\ Tail(s)[i - 1] = s[i]
  BY <1>1, <1>2, <1>3
<1>5. QED
  BY <1>2, <1>4 DEF Has

(* What taking the head of a sequence leaves: the head comes before all    *)
(* others, and is the only one of its kind if there is one at most.        *)
LEMMA TakeHead ==
    ASSUME NEW S, NEW s \in Seq(S), s # <<>>
    PROVE  /\ Tail(s) \in Seq(S) /\ Head(s) \in S
           /\ \A A : Has(Tail(s), A) => Has(s, A)
           /\ \A A : Has(s, A) /\ Head(s) \notin A => Has(Tail(s), A)
           /\ \A A : Head(s) \in A => Has(s, A)
           /\ \A A : Once(s, A) => Once(Tail(s), A)
           /\ \A A : Once(s, A) /\ Head(s) \in A => ~Has(Tail(s), A)
           /\ \A A, B : Before(s, A, B) => Before(Tail(s), A, B)
           /\ \A A, B : Before(s, A, B) /\ Head(s) \in B => ~Has(s, A)
<1>1. /\ Len(Tail(s)) = Len(s) - 1 /\ Len(s) \in Nat \ {0}
      /\ \A i \in 1..Len(Tail(s)) : Tail(s)[i] = s[i + 1]
      /\ Head(s) = s[1] /\ Head(s) \in S /\ Tail(s) \in Seq(S)
  BY HeadTailProperties, LenProperties, EmptySeq
<1>2. /\ \A A : Has(Tail(s), A) => Has(s, A)
      /\ \A A : Once(s, A) => Once(Tail(s), A)
      /\ \A A, B : Before(s, A, B) => Before(Tail(s), A, B)
  <2>1. Len(Tail(s)) \in Nat
    BY <1>1
  <2>2. QED
    BY <1>1, <2>1, ThinTail, ThinKeeps
<1>3. 1 \in 1..Len(s)
  BY <1>1
<1>4. \A A : Head(s) \in A => Has(s, A)
  BY <1>1, <1>3 DEF Has
<1>5. ASSUME NEW A, Once(s, A), Head(s) \in A, Has(Tail(s), A) PROVE FALSE
  <2>1. PICK i \in 1..Len(Tail(s)) : Tail(s)[i] \in A
    BY <1>5 DEF Has
  <2>2. i + 1 \in 1..Len(s) /\ s[i + 1] \in A /\ i + 1 # 1
    BY <1>1, <2>1
  <2>3. QED
    BY <1>1, <1>3, <1>5, <2>2 DEF Once
<1>6. ASSUME NEW A, NEW B, Before(s, A, B), Head(s) \in B, Has(s, A)
      PROVE  FALSE
  <2>1. PICK i \in 1..Len(s) : s[i] \in A
    BY <1>6 DEF Has
  <2>2. i < 1
    BY <1>1, <1>3, <1>6, <2>1 DEF Before
  <2>3. QED
    BY <1>1, <2>1, <2>2
<1>7. \A A : Has(s, A) /\ Head(s) \notin A => Has(Tail(s), A)
  BY TailHas
<1>8. QED
  BY <1>1, <1>2, <1>4, <1>5, <1>6, <1>7

(* mqtt_session_add_item keeps what is there, and has what it adds if a    *)
(* slot is free.                                                           *)
LEMMA AddItemHas ==
    ASSUME NEW S, NEW s \in Seq(S), NEW x \in S
    PROVE  /\ \A A : Has(s, A) => Has(AddItem(s, x), A)
           /\ \A A : Len(s) < SessionSize /\ x \in A => Has(AddItem(s, x), A)
BY AppendHas DEF AddItem

-----------------------------------------------------------------------------
(* How many elements of a kind a sequence has                              *)

Places(s, A) == {i \in 1..Len(s) : s[i] \in A}

(* They are finitely many. *)
LEMMA PlacesFinite ==
    ASSUME NEW S, NEW s \in Seq(S), NEW A
    PROVE  IsFiniteSet(Places(s, A)) /\ Cardinality(Places(s, A)) \in Nat
<1>1. IsFiniteSet(1..Len(s))
  BY LenProperties, FS_Interval
<1>2. Places(s, A) \in SUBSET (1..Len(s))
  BY DEF Places
<1>3. QED
  BY <1>1, <1>2, FS_Subset, FS_CardinalityType

(* An element added at the end counts if it is of the kind. *)
LEMMA AppendPlaces ==
    ASSUME NEW S, NEW s \in Seq(S), NEW x \in S, NEW A
    PROVE  Cardinality(Places(Append(s, x), A)) =
             IF x \in A THEN Cardinality(Places(s, A)) + 1
                        ELSE Cardinality(Places(s, A))
<1> DEFINE t == Append(s, x)
<1>1. /\ Len(t) = Len(s) + 1 /\ Len(s) \in Nat
      /\ \A i \in 1..Len(s) : t[i] = s[i]
      /\ t[Len(s) + 1] = x
  BY AppendProperties, LenProperties
<1> HIDE DEF t
<1>2. Places(t, A) = IF x \in A THEN Places(s, A) \cup {Len(s) + 1}
                                ELSE Places(s, A)
  <2>1. \A i \in 1..Len(t) : i \in 1..Len(s) \/ i = Len(s) + 1
    BY <1>1
  <2>2. \A i \in 1..Len(s) : i \in 1..Len(t)
    BY <1>1
  <2>3. Len(s) + 1 \in 1..Len(t)
    BY <1>1
  <2>4. QED
    BY <1>1, <2>1, <2>2, <2>3 DEF Places
<1>3. Len(s) + 1 \notin Places(s, A)
  BY <1>1 DEF Places
<1>4. QED
  BY <1>2, <1>3, PlacesFinite, FS_AddElement DEF t

(* The head counts if it is of the kind. *)
LEMMA TailPlaces ==
    ASSUME NEW S, NEW s \in Seq(S), s # <<>>, NEW A
    PROVE  Cardinality(Places(Tail(s), A)) =
             IF Head(s) \in A THEN Cardinality(Places(s, A)) - 1
                              ELSE Cardinality(Places(s, A))
<1> DEFINE t == Tail(s)
           rest == Places(s, A) \ {1}
<1>1. /\ Len(t) = Len(s) - 1 /\ Len(s) \in Nat \ {0} /\ t \in Seq(S)
      /\ \A i \in 1..Len(t) : t[i] = s[i + 1]
      /\ Head(s) = s[1]
  BY HeadTailProperties, LenProperties, EmptySeq
<1> HIDE DEF t
<1>2. ExistsBijection(Places(t, A), rest)
  <2> DEFINE f == [i \in Places(t, A) |-> i + 1]
  <2>1. ASSUME NEW i \in Places(t, A) PROVE i \in Nat /\ i + 1 \in rest
    BY <1>1, <2>1 DEF Places
  <2>2. ASSUME NEW j \in rest PROVE j - 1 \in Places(t, A) /\ j \in Nat
    <3>1. j \in 2..Len(s) /\ s[j] \in A
      BY <1>1, <2>2 DEF Places
    <3>2. j - 1 \in 1..Len(t) /\ t[j - 1] = s[j]
      BY <1>1, <3>1
    <3>3. QED
      BY <3>1, <3>2 DEF Places
  <2> HIDE DEF rest
  <2>3. f \in [Places(t, A) -> rest]
    BY <2>1
  <2>4. \A i, j \in Places(t, A) : f[i] = f[j] => i = j
    BY <2>1
  <2>5. \A j \in rest : f[j - 1] = j
    BY <2>2
  <2>6. \A j \in rest : \E i \in Places(t, A) : f[i] = j
    BY <2>2, <2>5
  <2> HIDE DEF f
  <2>7. f \in Bijection(Places(t, A), rest)
    BY <2>3, <2>4, <2>6
    DEF Bijection, Injection, Surjection, IsInjective
  <2>8. QED
    BY <2>7 DEF ExistsBijection
<1>3. IsFiniteSet(Places(t, A)) /\ IsFiniteSet(Places(s, A))
  BY <1>1, PlacesFinite
<1>4. Cardinality(rest) = Cardinality(Places(t, A))
  BY <1>2, <1>3, FS_Bijection
<1>5. Cardinality(rest) = IF 1 \in Places(s, A)
                          THEN Cardinality(Places(s, A)) - 1
                          ELSE Cardinality(Places(s, A))
  BY <1>3, FS_RemoveElement
<1>6. 1 \in Places(s, A) <=> Head(s) \in A
  BY <1>1 DEF Places
<1>7. QED
  BY <1>4, <1>5, <1>6 DEF t
=============================================================================
