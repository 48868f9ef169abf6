-------------------------- MODULE MqttSessionList --------------------------
(***************************************************************************)
(* The session in memory (mqtt_session.c on linked_list.h): an array of    *)
(* items, each on one of two circular doubly linked lists, used_list and   *)
(* nonused_list.                                                           *)
(*                                                                         *)
(* Mqttmain adds, removes, and walks the used list to send every item.     *)
(* The walk takes a step per item, each a send.  The application's thread  *)
(* may call mqtt_session_init (in mqtt_connect) between any two steps; the *)
(* other operations are taken to be atomic.                                *)
(*                                                                         *)
(* Left out: the branch of mqtt_session_add_item for a type that is none   *)
(* of the five the manager adds.                                           *)
(***************************************************************************)
EXTENDS MqttSession

CONSTANT Items      \* the packets the manager adds

Slots == 1..SessionSize        \* &session->items[i - 1].list
Used == 0                      \* &session->used_list
Nonused == -1                  \* &session->nonused_list
Nodes == Slots \cup {Used, Nonused}
Null == -2

Unset == Frame("garbage", 0, 0)       \* an item that was never filled

VARIABLES
    next, prev,    \* of every struct list_head
    item,          \* type and args of every item
    pos,           \* the walk's list_for_each cursor, Null when not walking
    sent,          \* items sent by this walk
    stale          \* the session was initialised during this walk

walkVars == <<pos, sent, stale>>
vars == <<next, prev, item, walkVars>>

-----------------------------------------------------------------------------
(* linked_list.h: on a memory l with the fields next and prev.             *)

INIT_LIST_HEAD(l, ptr) == [next |-> [l.next EXCEPT ![ptr] = ptr],
                           prev |-> [l.prev EXCEPT ![ptr] = ptr]]

(* __list_add, between two neighbours *)
Between(l, new, p, n) == [next |-> [l.next EXCEPT ![new] = n, ![p] = new],
                          prev |-> [l.prev EXCEPT ![n] = new, ![new] = p]]

list_add(l, new, head) == Between(l, new, head, l.next[head])
list_add_tail(l, new, head) == Between(l, new, l.prev[head], head)

(* __list_del, and the entry's own pointers become null. *)
list_del(l, entry) ==
    LET p == l.prev[entry]
        n == l.next[entry]
    IN [next |-> [l.next EXCEPT ![p] = n, ![entry] = Null],
        prev |-> [l.prev EXCEPT ![n] = p, ![entry] = Null]]

(* The entries list_for_each visits, in order. *)
list_for_each(l, head) ==
    LET at[k \in 0..SessionSize] ==
          IF k = 0 THEN l.next[head]
          ELSE IF at[k - 1] \in Slots THEN l.next[at[k - 1]] ELSE at[k - 1]
        onList == {k \in 0..(SessionSize - 1) : at[k] \in Slots}
    IN [k \in {j + 1 : j \in onList} |-> at[k - 1]]

Memory == [next |-> next, prev |-> prev]
Becomes(l) == next' = l.next /\ prev' = l.prev

-----------------------------------------------------------------------------
(* mqtt_session.c *)

UsedList == list_for_each(Memory, Used)
Session == [k \in DOMAIN UsedList |-> item[UsedList[k]]]

(* mqtt_session_init: every item goes to the front of the nonused list.    *)
Initialised ==
    LET memory == [next |-> [n \in Nodes |-> Null],
                   prev |-> [n \in Nodes |-> Null]]
        heads == INIT_LIST_HEAD(INIT_LIST_HEAD(memory, Used), Nonused)
        adds[n \in 0..SessionSize] ==
          IF n = 0 THEN heads ELSE list_add(adds[n - 1], n, Nonused)
    IN adds[SessionSize]

(* Called for the first time, on memory that holds anything. *)
Init ==
    /\ next = Initialised.next /\ prev = Initialised.prev
    /\ item = [i \in Slots |-> Unset]
    /\ pos = Null /\ sent = 0 /\ stale = FALSE

SessionInit ==
    /\ Becomes(Initialised)
    /\ stale' = (pos # Null)
    /\ UNCHANGED <<item, pos, sent>>

Mqttmain == pos = Null /\ UNCHANGED walkVars

(* Mutant: the item goes to the front. *)
AddItemFront(new) ==
    /\ Mqttmain /\ next[Nonused] # Nonused
    /\ LET i == next[Nonused] IN
       /\ Becomes(list_add(list_del(Memory, i), i, Used))
       /\ item' = [item EXCEPT ![i] = new]

(* mqtt_session_add_item: the first free item, to the end of the used list *)
AddItemToList(new) ==
    /\ Mqttmain /\ next[Nonused] # Nonused
    /\ LET i == next[Nonused] IN
       /\ Becomes(list_add_tail(list_del(Memory, i), i, Used))
       /\ item' = [item EXCEPT ![i] = new]

Matches(id) == {k \in DOMAIN UsedList : item[UsedList[k]].id = id}

(* Mutants: the item is not given back; it is given back before it is      *)
(* taken off the used list.                                                *)
FreedNever(i) == list_del(Memory, i)
FreedFirst(i) == list_del(list_add(Memory, i, Nonused), i)

Freed(i) == list_add(list_del(Memory, i), i, Nonused)

(* mqtt_session_remove_item: the first match. *)
RemoveItemFromList(id) ==
    /\ Mqttmain /\ Matches(id) # {}
    /\ \E k \in Matches(id) :
          /\ \A j \in Matches(id) : k <= j
          /\ Becomes(Freed(UsedList[k]))
    /\ UNCHANGED item

-----------------------------------------------------------------------------
(* mqtt_session_iterate_through_items *)

WalkStart ==
    /\ pos = Null /\ next[Used] # Used
    /\ pos' = next[Used] /\ sent' = 0 /\ stale' = FALSE
    /\ UNCHANGED <<next, prev, item>>

WalkEnd == pos' = Null /\ sent' = 0 /\ stale' = FALSE

(* Mutant: an item that cannot be sent is skipped. *)
WalkVisitOn ==
    /\ pos \notin {Null, Used}
    /\ \/ pos \in Slots
          /\ sent' = IF stale THEN sent ELSE sent + 1
       \/ UNCHANGED sent
    /\ pos' = next[pos]
    /\ UNCHANGED <<next, prev, item, stale>>

(* The item is sent and pos moves on, or it cannot be sent and the walk    *)
(* ends.  A head taken for an item has a pointer where its type should be: *)
(* no packet type, not sent.  An unset item may have any type.  What a     *)
(* walk sends once the session was initialised is not counted.             *)
WalkVisit ==
    /\ pos \notin {Null, Used}
    /\ \/ /\ pos \in Slots
          /\ pos' = next[pos]
          /\ sent' = IF stale THEN sent ELSE sent + 1
          /\ UNCHANGED stale
       \/ WalkEnd
    /\ UNCHANGED <<next, prev, item>>

WalkDone == pos = Used /\ WalkEnd /\ UNCHANGED <<next, prev, item>>

Walk == WalkVisit \/ WalkDone

Next ==
    \/ \E new \in Items : AddItemToList(new) \/ RemoveItemFromList(new.id)
    \/ SessionInit
    \/ WalkStart \/ Walk

Spec == Init /\ [][Next]_vars
(* Mqttmain finishes what it has begun. *)
FairSpec == Spec /\ WF_vars(Walk)
-----------------------------------------------------------------------------
(* Properties *)

(* Between operations no pointer of the lists is null. *)
TypeOK ==
    /\ next \in [Nodes -> Nodes] /\ prev \in [Nodes -> Nodes]
    /\ item \in [Slots -> Items \cup {Unset}]
    /\ pos \in Nodes \cup {Null} /\ sent \in 0..SessionSize
    /\ stale \in BOOLEAN

(* Every item is on exactly one of the two lists, once, and the lists read *)
(* the same in both directions: no operation of mqtt_session.c loses an    *)
(* item or leaves it on both.                                              *)
NothingLost ==
    LET free == list_for_each(Memory, Nonused) IN
    /\ IsInjective(UsedList) /\ IsInjective(free)
    /\ ToSet(UsedList) \cap ToSet(free) = {}
    /\ ToSet(UsedList) \cup ToSet(free) = Slots
    /\ \A n \in Nodes : next[n] \in Nodes /\ prev[next[n]] = n

(* A walk sends the session's items in order, each once, none left out, up *)
(* to the first that cannot be sent - unless mqtt_session_init, in the     *)
(* application's thread, takes the list away from under it.                *)
ResendsInOrder ==
    pos # Null /\ ~stale => pos = Append(UsedList, Used)[sent + 1]

(* A walk ends even so: it runs on along the nonused list, as far as its   *)
(* head, however often mqtt_session_init is called meanwhile.              *)
WalkEnds == pos # Null ~> pos = Null

(* The two lists are the sequence that the manager takes the session for.  *)
Store == INSTANCE SessionStore WITH session <- Session
ImplementsSession == Store!Spec
=============================================================================
