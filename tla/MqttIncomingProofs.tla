------------------------- MODULE MqttIncomingProofs -------------------------
(***************************************************************************)
(* What becomes of a message that the broker publishes to the client, for  *)
(* every set of messages and ids, every size of the queue and of the       *)
(* session, and every bound: a QoS 2 message is given to the application   *)
(* once, what is acknowledged was given to it, and the PUBREC item that    *)
(* suppresses a second delivery goes with the exchange it belongs to.      *)
(*                                                                         *)
(* As for the requests (MqttSystemProofs), the theorems are about runs in  *)
(* which the ids in use at both ends stay apart and the session keeps a    *)
(* free slot: a PUBREC item that finds none is not remembered              *)
(* (mqtt_manager.c).                                                       *)
(***************************************************************************)
EXTENDS MqttSystemProofs

Lasting == {m \in BMsgs : BQos[m] > 0}
Doubles == {m \in BMsgs : BQos[m] = 2}
Singles == {m \in BMsgs : BQos[m] = 1}

(* The frames on their way to the client that it will look at: of a TCP    *)
(* packet, the first.                                                      *)
Heads(s) == [i \in 1..Len(s) |-> s[i][1]]
Transit == Heads(rx) \o toClient

(* The frames about a message, in both directions. *)
AckTypes == {"PUBACK", "PUBREC", "PUBCOMP"}
Acks(type, m) == {f \in Frames : f.type = type /\ f.id = BId[m]}
Pubs(m) == {f \in Frames : f.type = "PUBLISH" /\ f.msg = m}
Rels(m) == Acks("PUBREL", m)
Recs(m) == Acks("PUBREC", m)
Comps(m) == Acks("PUBCOMP", m)

(* The session remembers that the message was delivered. *)
Held(m) == Has(session, Recs(m))

(* The broker gives an id to one message at a time. *)
SoleIn ==
    \A m, n \in Lasting :
        InFlight(m) /\ InFlight(n) /\ BId[m] = BId[n] => m = n

(* A new link starts empty; with a clean session, so does the session.     *)
(* Nor is there anything before the first link.                            *)
LinkIn ==
    /\ sock = "open" /\ ~accepted =>
         /\ rx = <<>> /\ toClient = <<>>
         /\ \A m \in Lasting, type \in AckTypes : ~Has(toBroker, Acks(type, m))
         /\ clean_session => \A m \in Doubles : ~Held(m)
    /\ session_init /\ ~clean_session =>
         sock # "open" /\ rx = <<>> /\ \A m \in Doubles : ~Held(m)

(* A message is on the link once, sent and not done. *)
PublishIn(m) ==
    /\ Once(Transit, Pubs(m))
    /\ Has(Transit, Pubs(m)) => bState[m] \in {"sent", "released"}
    /\ bState[m] = "new" => delivered[m] = 0
    /\ bState[m] \in {"released", "rerelease", "done"} => delivered[m] > 0

(* While it waits for PUBREC, a PUBREL of its id is of the message before  *)
(* it; once delivered, every PUBREL is its own.                            *)
OrderIn(m) ==
    /\ bState[m] = "sent" => Before(Transit, Rels(m), Pubs(m))
    /\ delivered[m] > 0 => Before(Transit, Pubs(m), Rels(m))

(* PUBREC, remembered or sent, is of a message delivered and in flight,    *)
(* and what is delivered and may come again is remembered.                 *)
SuppressIn(m) ==
    /\ Held(m) \/ Has(toBroker, Recs(m)) =>
         \E n \in Doubles : BId[n] = BId[m] /\ InFlight(n) /\ delivered[n] > 0
    /\ delivered[m] > 0 /\ Has(Transit, Pubs(m)) => Held(m)
    /\ delivered[m] > 0 /\ bState[m] \in {"sent", "resend"} =>
         /\ Held(m) \/ (clean_session /\ ~accepted)
         /\ ~Has(Transit, Rels(m))
    /\ delivered[m] <= 1

(* PUBCOMP after PUBREC ends the exchange; one before PUBREC is of the     *)
(* message before it.                                                      *)
ReleaseIn(m) ==
    /\ bState[m] \in {"sent", "resend"}
       => Before(toBroker, Comps(m), Recs(m))
    /\ bState[m] \in {"released", "rerelease"} =>
         /\ Before(toBroker, Recs(m), Comps(m))
         /\ Has(toBroker, Comps(m)) => ~Held(m) /\ ~Has(Transit, Pubs(m))

(* PUBACK is of the one message that is sent and delivered. *)
AckIn(m) ==
    /\ Once(toBroker, Acks("PUBACK", m))
    /\ Has(toBroker, Acks("PUBACK", m)) =>
         \E n \in Singles : /\ BId[n] = BId[m] /\ bState[n] = "sent"
                            /\ delivered[n] > 0 /\ ~Has(Transit, Pubs(n))

MessageIn(m) ==
    /\ PublishIn(m)
    /\ m \in Doubles => OrderIn(m) /\ SuppressIn(m) /\ ReleaseIn(m)
    /\ m \in Singles => AckIn(m)

InInv == SoleIn /\ LinkIn /\ \A m \in Lasting : MessageIn(m)

-----------------------------------------------------------------------------
(* The frames in transit                                                   *)

(* The heads of the packets, then the frames that are not in a packet yet. *)
LEMMA TransitElements ==
    ASSUME NEW S, NEW p \in Seq(Seq(S) \ {<<>>}), NEW c \in Seq(S)
    PROVE  /\ Heads(p) \o c \in Seq(S)
           /\ Len(p) \in Nat /\ Len(c) \in Nat
           /\ Len(Heads(p) \o c) = Len(p) + Len(c)
           /\ \A i \in 1..(Len(p) + Len(c)) : (Heads(p) \o c)[i] =
                IF i <= Len(p) THEN p[i][1] ELSE c[i - Len(p)]
<1> DEFINE h == Heads(p)
<1>1. Len(p) \in Nat /\ Len(c) \in Nat
  BY LenProperties
<1>2. ASSUME NEW i \in 1..Len(p) PROVE p[i][1] \in S
  <2>1. p[i] \in Seq(S) /\ p[i] # <<>>
    BY ElementOfSeq
  <2>2. 1 \in 1..Len(p[i])
    BY <2>1, EmptySeq
  <2>3. QED
    BY <2>1, <2>2, ElementOfSeq
<1>3. h \in Seq(S) /\ Len(h) = Len(p) /\ \A i \in 1..Len(p) : h[i] = p[i][1]
  BY <1>1, <1>2 DEF Heads
<1> HIDE DEF h
<1>4. /\ h \o c \in Seq(S)
      /\ Len(h \o c) = Len(p) + Len(c)
      /\ \A i \in 1..(Len(p) + Len(c)) :
           (h \o c)[i] = IF i <= Len(p) THEN h[i] ELSE c[i - Len(p)]
  <2>1. /\ h \o c \in Seq(S)
        /\ Len(h \o c) = Len(h) + Len(c)
        /\ \A i \in 1..(Len(h) + Len(c)) :
             (h \o c)[i] = IF i <= Len(h) THEN h[i] ELSE c[i - Len(h)]
    BY <1>3, ConcatProperties
  <2>2. QED
    BY <1>3, <2>1
<1>5. \A i \in 1..(Len(p) + Len(c)) : i <= Len(p) => i \in 1..Len(p)
  BY <1>1
<1>6. QED
  BY <1>1, <1>3, <1>4, <1>5 DEF h

(* Reading a packet takes the first frame. *)
LEMMA TransitTail ==
    ASSUME NEW S, NEW p \in Seq(Seq(S) \ {<<>>}), NEW c \in Seq(S),
           p # <<>>
    PROVE  LET t == Heads(p) \o c IN
           /\ t # <<>> /\ Head(t) = Head(p)[1]
           /\ Heads(Tail(p)) \o c = Tail(t)
<1> DEFINE t == Heads(p) \o c
           u == Heads(Tail(p)) \o c
<1>1. /\ t \in Seq(S) /\ Len(t) = Len(p) + Len(c)
      /\ Len(c) \in Nat /\ Len(p) \in Nat \ {0}
      /\ \A i \in 1..(Len(p) + Len(c)) :
           t[i] = IF i <= Len(p) THEN p[i][1] ELSE c[i - Len(p)]
  BY TransitElements, EmptySeq
<1>2. /\ Tail(p) \in Seq(Seq(S) \ {<<>>}) /\ Len(Tail(p)) = Len(p) - 1
      /\ \A i \in 1..Len(Tail(p)) : Tail(p)[i] = p[i + 1]
      /\ Head(p) = p[1]
  BY HeadTailProperties
<1>3. /\ u \in Seq(S) /\ Len(u) = Len(Tail(p)) + Len(c)
      /\ \A i \in 1..(Len(Tail(p)) + Len(c)) : u[i] =
           IF i <= Len(Tail(p)) THEN Tail(p)[i][1] ELSE c[i - Len(Tail(p))]
  BY <1>2, TransitElements
<1> HIDE DEF t, u
<1>4. t # <<>> /\ Head(t) = t[1] /\ t[1] = Head(p)[1]
  <2>1. Len(t) # 0
    BY <1>1
  <2>2. t # <<>> /\ Head(t) = t[1]
    BY <1>1, <2>1, EmptySeq
  <2>3. 1 \in 1..(Len(p) + Len(c)) /\ 1 <= Len(p)
    BY <1>1
  <2>4. QED
    BY <1>1, <1>2, <2>2, <2>3
<1>5. /\ Tail(t) \in Seq(S) /\ Len(Tail(t)) = Len(t) - 1
      /\ \A i \in 1..Len(Tail(t)) : Tail(t)[i] = t[i + 1]
  BY <1>1, <1>4, HeadTailProperties
<1>6. Len(u) = Len(Tail(t))
  BY <1>1, <1>2, <1>3, <1>5
<1>7. ASSUME NEW i \in 1..Len(u) PROVE u[i] = Tail(t)[i]
  <2>1. /\ i \in 1..(Len(Tail(p)) + Len(c)) /\ i \in 1..Len(Tail(t))
        /\ i + 1 \in 1..(Len(p) + Len(c))
    BY <1>1, <1>2, <1>3, <1>6
  <2>2. Tail(t)[i] = IF i + 1 <= Len(p) THEN p[i + 1][1]
                                        ELSE c[(i + 1) - Len(p)]
    BY <1>1, <1>5, <2>1
  <2>3. CASE i <= Len(Tail(p))
    <3>1. i + 1 <= Len(p) /\ i \in 1..Len(Tail(p))
      BY <1>1, <1>2, <2>3
    <3>2. QED
      BY <1>2, <1>3, <2>1, <2>2, <2>3, <3>1
  <2>4. CASE ~(i <= Len(Tail(p)))
    <3>1. ~(i + 1 <= Len(p)) /\ (i + 1) - Len(p) = i - Len(Tail(p))
      BY <1>1, <1>2, <2>4
    <3>2. QED
      BY <1>3, <2>1, <2>2, <2>4, <3>1
  <2>5. QED
    BY <2>3, <2>4
<1>8. u = Tail(t)
  BY <1>3, <1>5, <1>6, <1>7, SeqEqual
<1>9. QED
  BY <1>4, <1>8 DEF t, u

(* A frame the broker sends is the last in transit. *)
LEMMA TransitSend ==
    ASSUME NEW S, NEW p \in Seq(Seq(S) \ {<<>>}), NEW c \in Seq(S),
           NEW f \in S
    PROVE  Heads(p) \o Append(c, f) = Append(Heads(p) \o c, f)
<1> DEFINE t == Heads(p) \o c
           u == Heads(p) \o Append(c, f)
           v == Append(t, f)
<1>1. /\ t \in Seq(S) /\ Len(t) = Len(p) + Len(c)
      /\ Len(p) \in Nat /\ Len(c) \in Nat
      /\ \A i \in 1..(Len(p) + Len(c)) :
           t[i] = IF i <= Len(p) THEN p[i][1] ELSE c[i - Len(p)]
  BY TransitElements
<1>2. /\ Append(c, f) \in Seq(S) /\ Len(Append(c, f)) = Len(c) + 1
      /\ \A i \in 1..Len(c) : Append(c, f)[i] = c[i]
      /\ Append(c, f)[Len(c) + 1] = f
  BY AppendProperties
<1>3. /\ u \in Seq(S) /\ Len(u) = Len(p) + Len(Append(c, f))
      /\ \A i \in 1..(Len(p) + Len(Append(c, f))) : u[i] =
           IF i <= Len(p) THEN p[i][1] ELSE Append(c, f)[i - Len(p)]
  BY <1>2, TransitElements
<1> HIDE DEF t
<1>4. /\ v \in Seq(S) /\ Len(v) = Len(t) + 1
      /\ \A i \in 1..Len(t) : v[i] = t[i]
      /\ v[Len(t) + 1] = f
  BY <1>1, AppendProperties
<1> HIDE DEF u, v
<1>5. Len(u) = Len(v)
  BY <1>1, <1>2, <1>3, <1>4
<1>6. ASSUME NEW i \in 1..Len(u) PROVE u[i] = v[i]
  <2>1. i \in 1..(Len(p) + Len(Append(c, f)))
    BY <1>3
  <2>2. CASE i <= Len(p)
    <3>1. i \in 1..Len(t) /\ i \in 1..(Len(p) + Len(c))
      BY <1>1, <2>1, <2>2
    <3>2. QED
      BY <1>1, <1>3, <1>4, <2>1, <2>2, <3>1
  <2>3. CASE ~(i <= Len(p)) /\ i <= Len(p) + Len(c)
    <3>1. /\ i \in 1..Len(t) /\ i \in 1..(Len(p) + Len(c))
          /\ i - Len(p) \in 1..Len(c)
      BY <1>1, <2>1, <2>3
    <3>2. QED
      BY <1>1, <1>2, <1>3, <1>4, <2>1, <2>3, <3>1
  <2>4. CASE ~(i <= Len(p) + Len(c))
    <3>1. i = Len(t) + 1 /\ ~(i <= Len(p)) /\ i - Len(p) = Len(c) + 1
      BY <1>1, <1>2, <2>1, <2>4
    <3>2. QED
      BY <1>2, <1>3, <1>4, <2>1, <3>1
  <2>5. QED
    BY <2>2, <2>3, <2>4
<1>7. u = v
  BY <1>3, <1>4, <1>5, <1>6, SeqEqual
<1>8. QED
  BY <1>7 DEF t, u, v

(* A TCP packet takes one or more frames; its first stays in transit. *)
LEMMA TransitPacket ==
    ASSUME NEW S, NEW p \in Seq(Seq(S) \ {<<>>}), NEW c \in Seq(S),
           NEW n \in 1..Len(c)
    PROVE  /\ Append(p, SubSeq(c, 1, n)) \in Seq(Seq(S) \ {<<>>})
           /\ SubSeq(c, n + 1, Len(c)) \in Seq(S)
           /\ Thins(Heads(Append(p, SubSeq(c, 1, n)))
                      \o SubSeq(c, n + 1, Len(c)), Heads(p) \o c)
<1> DEFINE a == SubSeq(c, 1, n)
           b == SubSeq(c, n + 1, Len(c))
           q == Append(p, a)
           t == Heads(p) \o c
           u == Heads(q) \o b
<1>1. /\ t \in Seq(S) /\ Len(t) = Len(p) + Len(c)
      /\ Len(p) \in Nat /\ Len(c) \in Nat
      /\ \A i \in 1..(Len(p) + Len(c)) :
           t[i] = IF i <= Len(p) THEN p[i][1] ELSE c[i - Len(p)]
  BY TransitElements
<1>2. \A i \in 1..Len(c) : c[i] \in S
  BY ElementOfSeq
<1>3. a \in Seq(S) /\ Len(a) = n /\ \A i \in 1..n : a[i] = c[i]
  BY <1>1, <1>2, SubSeqProperties
<1>4. /\ b \in Seq(S) /\ Len(b) = Len(c) - n
      /\ \A i \in 1..(Len(c) - n) : b[i] = c[n + i]
  <2>1. n + 1 \in Int /\ \A i \in (n + 1)..Len(c) : c[i] \in S
    BY <1>1, <1>2
  <2>2. /\ b \in Seq(S)
        /\ Len(b) = IF n + 1 <= Len(c) THEN Len(c) - (n + 1) + 1 ELSE 0
        /\ \A i \in 1..(Len(c) - (n + 1) + 1) : b[i] = c[(n + 1) + i - 1]
    BY <1>1, <2>1, SubSeqProperties
  <2>3. QED
    BY <1>1, <2>2
<1> HIDE DEF a, b
<1>5. a # <<>> /\ a \in Seq(S) \ {<<>>}
  BY <1>1, <1>3, EmptySeq
<1>6. /\ q \in Seq(Seq(S) \ {<<>>}) /\ Len(q) = Len(p) + 1
      /\ \A i \in 1..Len(p) : q[i] = p[i]
      /\ q[Len(p) + 1] = a
  BY <1>5, AppendProperties
<1>7. /\ u \in Seq(S) /\ Len(u) = Len(q) + Len(b) /\ Len(b) \in Nat
      /\ \A i \in 1..(Len(q) + Len(b)) :
           u[i] = IF i <= Len(q) THEN q[i][1] ELSE b[i - Len(q)]
  BY <1>4, <1>6, TransitElements
<1> HIDE DEF q, t, u
<1> DEFINE f == [i \in 1..Len(u) |->
                   IF i <= Len(q) THEN i ELSE i + (n - 1)]
<1>8. Len(u) = Len(p) + 1 + (Len(c) - n)
  BY <1>1, <1>4, <1>6, <1>7
<1>9. f \in [1..Len(u) -> 1..Len(t)]
  BY <1>1, <1>6, <1>8
<1>10. \A i, j \in 1..Len(u) : i < j => f[i] < f[j]
  BY <1>1, <1>6, <1>8
<1>11. ASSUME NEW i \in 1..Len(u) PROVE u[i] = t[f[i]]
  <2>1. i \in 1..(Len(q) + Len(b)) /\ i \in 1..(Len(p) + Len(c))
        /\ f[i] \in 1..(Len(p) + Len(c))
    <3> HIDE DEF f
    <3>1. i \in 1..(Len(q) + Len(b))
      BY <1>7
    <3>2. i \in 1..(Len(p) + Len(c))
      BY <1>1, <1>8
    <3>3. f[i] \in 1..(Len(p) + Len(c))
      BY <1>1, <1>9
    <3>4. QED
      BY <3>1, <3>2, <3>3
  <2>2. CASE i <= Len(p)
    <3>1. i <= Len(q) /\ f[i] = i /\ i \in 1..Len(p)
      BY <1>1, <1>6, <2>1, <2>2
    <3>2. QED
      BY <1>1, <1>6, <1>7, <2>1, <2>2, <3>1
  <2>3. CASE i = Len(q)
    <3>1. f[i] = i /\ i = Len(p) + 1 /\ ~(i <= Len(p)) /\ i - Len(p) = 1
      BY <1>1, <1>6, <2>3
    <3>2. u[i] = a[1] /\ t[f[i]] = c[1]
      BY <1>1, <1>6, <1>7, <2>1, <2>3, <3>1
    <3>3. QED
      BY <1>3, <3>2
  <2>4. CASE i > Len(q)
    <3>1. ~(i <= Len(q)) /\ f[i] = i + (n - 1)
      BY <1>1, <1>6, <2>4
    <3>2. /\ ~(f[i] <= Len(p))
          /\ i - Len(q) \in 1..(Len(c) - n)
          /\ n + (i - Len(q)) = f[i] - Len(p)
      BY <1>1, <1>6, <1>8, <2>1, <2>4, <3>1
    <3>3. QED
      BY <1>1, <1>4, <1>7, <2>1, <3>1, <3>2
  <2>5. QED
    BY <1>1, <1>6, <2>1, <2>2, <2>3, <2>4
<1> HIDE DEF f
<1>12. Thins(u, t)
  BY <1>9, <1>10, <1>11 DEF Thins
<1>13. QED
  BY <1>4, <1>6, <1>12 DEF a, b, q, t, u

(* When the link goes, the packets that were received can still be read. *)
LEMMA TransitGone ==
    ASSUME NEW S, NEW p \in Seq(Seq(S) \ {<<>>}), NEW c \in Seq(S),
           NEW e \in Seq(S), Len(e) = 0
    PROVE  Thins(Heads(p) \o e, Heads(p) \o c)
<1> DEFINE t == Heads(p) \o c
           u == Heads(p) \o e
           f == [i \in 1..Len(u) |-> i]
<1>1. /\ Len(t) = Len(p) + Len(c) /\ Len(p) \in Nat /\ Len(c) \in Nat
      /\ \A i \in 1..(Len(p) + Len(c)) :
           t[i] = IF i <= Len(p) THEN p[i][1] ELSE c[i - Len(p)]
  BY TransitElements
<1>2. /\ Len(u) = Len(p) + Len(e)
      /\ \A i \in 1..(Len(p) + Len(e)) :
           u[i] = IF i <= Len(p) THEN p[i][1] ELSE e[i - Len(p)]
  BY TransitElements
<1> HIDE DEF t, u
<1>3. Len(u) = Len(p) /\ \A i \in 1..Len(p) : u[i] = p[i][1]
  BY <1>1, <1>2
<1>4. /\ f \in [1..Len(u) -> 1..Len(t)]
      /\ \A i, j \in 1..Len(u) : i < j => f[i] < f[j]
      /\ \A i \in 1..Len(u) : u[i] = t[f[i]]
  BY <1>1, <1>3
<1> HIDE DEF f
<1>5. Thins(u, t)
  BY <1>4 DEF Thins
<1>6. QED
  BY <1>5 DEF t, u

(* Nothing received and nothing on the link. *)
LEMMA TransitEmpty ==
    ASSUME NEW S, NEW p \in Seq(Seq(S) \ {<<>>}), NEW c \in Seq(S),
           Len(p) = 0, Len(c) = 0
    PROVE  Heads(p) \o c = <<>>
<1>1. /\ Heads(p) \o c \in Seq(S)
      /\ Len(Heads(p) \o c) = Len(p) + Len(c)
  BY TransitElements
<1>2. QED
  BY <1>1, EmptySeq

-----------------------------------------------------------------------------
(* What most steps do to the sequences                                     *)

(* No PUBLISH above QoS 0 and no PUBREL is sent to the client. *)
TransitKept ==
    \A m \in Lasting :
        /\ Has(Transit', Pubs(m)) => Has(Transit, Pubs(m))
        /\ Has(Transit', Rels(m)) => Has(Transit, Rels(m))
        /\ Once(Transit, Pubs(m)) => Once(Transit', Pubs(m))
        /\ Before(Transit, Pubs(m), Rels(m))
           => Before(Transit', Pubs(m), Rels(m))
        /\ Before(Transit, Rels(m), Pubs(m))
           => Before(Transit', Rels(m), Pubs(m))

(* No PUBACK, PUBREC or PUBCOMP is sent to the broker. *)
BackKept ==
    \A m \in Lasting :
        /\ \A type \in AckTypes : Has(toBroker', Acks(type, m))
                                  => Has(toBroker, Acks(type, m))
        /\ Once(toBroker, Acks("PUBACK", m))
           => Once(toBroker', Acks("PUBACK", m))
        /\ Before(toBroker, Recs(m), Comps(m))
           => Before(toBroker', Recs(m), Comps(m))
        /\ Before(toBroker, Comps(m), Recs(m))
           => Before(toBroker', Comps(m), Recs(m))

(* No PUBREC item comes or goes. *)
HeldKept ==
    \A m \in Doubles : Has(session', Recs(m)) <=> Has(session, Recs(m))

(* No delivery proceeds, here or there. *)
StatesKept ==
    \A m \in Lasting : bState'[m] = bState[m] /\ delivered'[m] = delivered[m]

(* No link is made or accepted. *)
LinkKept ==
    /\ sock' = "open" => sock = "open"
    /\ accepted' => accepted
    /\ session_init' = session_init
    /\ rx = <<>> /\ (sock # "open" \/ ~accepted) => rx' = <<>>
    /\ sock' = "open" /\ ~accepted' =>
         ~accepted /\ (toClient = <<>> => toClient' = <<>>)

(* The sets of frames do not depend on the state. *)
LEMMA SameFrames ==
    /\ \A m : /\ Pubs(m)' = Pubs(m) /\ Rels(m)' = Rels(m)
              /\ Recs(m)' = Recs(m) /\ Comps(m)' = Comps(m)
    /\ \A type, m : Acks(type, m)' = Acks(type, m)
    /\ Lasting' = Lasting /\ Doubles' = Doubles /\ Singles' = Singles
    /\ Doubles \subseteq Lasting /\ Singles \subseteq Lasting
BY DEF Pubs, Rels, Recs, Comps, Acks, Frames, Ids, Lasting, Doubles, Singles

(* The same of one message and the frames about it. *)
Quiet(m) ==
    /\ bState'[m] = bState[m] /\ delivered'[m] = delivered[m]
    /\ Has(Transit', Pubs(m)) => Has(Transit, Pubs(m))
    /\ Once(Transit, Pubs(m)) => Once(Transit', Pubs(m))
    /\ m \in Singles =>
         /\ Has(toBroker', Acks("PUBACK", m))
            => Has(toBroker, Acks("PUBACK", m))
         /\ Once(toBroker, Acks("PUBACK", m))
            => Once(toBroker', Acks("PUBACK", m))
    /\ m \in Doubles =>
         /\ Has(session', Recs(m)) <=> Has(session, Recs(m))
         /\ Has(toBroker', Recs(m)) => Has(toBroker, Recs(m))
         /\ Has(toBroker', Comps(m)) => Has(toBroker, Comps(m))
         /\ Before(toBroker, Recs(m), Comps(m))
            => Before(toBroker', Recs(m), Comps(m))
         /\ Before(toBroker, Comps(m), Recs(m))
            => Before(toBroker', Comps(m), Recs(m))
         /\ Has(Transit', Rels(m)) => Has(Transit, Rels(m))
         /\ Before(Transit, Pubs(m), Rels(m))
            => Before(Transit', Pubs(m), Rels(m))
         /\ Before(Transit, Rels(m), Pubs(m))
            => Before(Transit', Rels(m), Pubs(m))

Peer(m, n) == BId[n] = BId[m] /\ BQos[n] = BQos[m]

(* What a message of QoS 2 and one of QoS 1 need of the next state, in     *)
(* terms of the sequences alone.                                           *)
LEMMA MessageNext ==
    ASSUME NEW m \in Lasting,
           /\ Once(Transit', Pubs(m))
           /\ Has(Transit', Pubs(m)) => bState'[m] \in {"sent", "released"}
           /\ bState'[m] = "new" => delivered'[m] = 0
           /\ bState'[m] \in {"released", "rerelease", "done"}
              => delivered'[m] > 0,
           m \in Doubles =>
             /\ bState'[m] = "sent" => Before(Transit', Rels(m), Pubs(m))
             /\ delivered'[m] > 0 => Before(Transit', Pubs(m), Rels(m))
             /\ Has(session', Recs(m)) \/ Has(toBroker', Recs(m)) =>
                  \E n \in Doubles : BId[n] = BId[m] /\ InFlight(n)'
                                     /\ delivered'[n] > 0
             /\ delivered'[m] > 0 /\ Has(Transit', Pubs(m))
                => Has(session', Recs(m))
             /\ delivered'[m] > 0 /\ bState'[m] \in {"sent", "resend"} =>
                  /\ Has(session', Recs(m)) \/ (clean_session' /\ ~accepted')
                  /\ ~Has(Transit', Rels(m))
             /\ delivered'[m] <= 1
             /\ bState'[m] \in {"sent", "resend"}
                => Before(toBroker', Comps(m), Recs(m))
             /\ bState'[m] \in {"released", "rerelease"} =>
                  /\ Before(toBroker', Recs(m), Comps(m))
                  /\ Has(toBroker', Comps(m))
                     => ~Has(session', Recs(m)) /\ ~Has(Transit', Pubs(m)),
           m \in Singles =>
             /\ Once(toBroker', Acks("PUBACK", m))
             /\ Has(toBroker', Acks("PUBACK", m)) =>
                  \E n \in Singles :
                     /\ BId[n] = BId[m] /\ bState'[n] = "sent"
                     /\ delivered'[n] > 0 /\ ~Has(Transit', Pubs(n))
    PROVE  MessageIn(m)'
<1>1. PublishIn(m)'
  BY SameFrames DEF PublishIn
<1>2. ASSUME m \in Doubles PROVE OrderIn(m)' /\ SuppressIn(m)' /\ ReleaseIn(m)'
  <2>1. OrderIn(m)'
    BY <1>2, SameFrames DEF OrderIn
  <2>2. SuppressIn(m)'
    BY <1>2, SameFrames DEF SuppressIn, Held
  <2>3. ReleaseIn(m)'
    BY <1>2, SameFrames DEF ReleaseIn, Held
  <2>4. QED
    BY <2>1, <2>2, <2>3
<1>3. m \in Singles => AckIn(m)'
  BY SameFrames DEF AckIn
<1>4. QED
  BY <1>1, <1>2, <1>3, SameFrames DEF MessageIn

(* A step that leaves a message and its peers alone keeps what is said of  *)
(* it.                                                                     *)
LEMMA QuietMessage ==
    ASSUME InInv, NEW m \in Lasting,
           \A n \in Lasting : Peer(m, n) => Quiet(n),
           accepted' => accepted, UNCHANGED clean_session
    PROVE  MessageIn(m)'
<1>1. MessageIn(m) /\ Quiet(m)
  BY DEF InInv, Peer
<1>2. /\ Once(Transit', Pubs(m))
      /\ Has(Transit', Pubs(m)) => bState'[m] \in {"sent", "released"}
      /\ bState'[m] = "new" => delivered'[m] = 0
      /\ bState'[m] \in {"released", "rerelease", "done"} => delivered'[m] > 0
  BY <1>1 DEF MessageIn, PublishIn, Quiet
<1>3. ASSUME m \in Doubles
      PROVE
        /\ bState'[m] = "sent" => Before(Transit', Rels(m), Pubs(m))
        /\ delivered'[m] > 0 => Before(Transit', Pubs(m), Rels(m))
        /\ Has(session', Recs(m)) \/ Has(toBroker', Recs(m)) =>
             \E n \in Doubles : BId[n] = BId[m] /\ InFlight(n)'
                                /\ delivered'[n] > 0
        /\ delivered'[m] > 0 /\ Has(Transit', Pubs(m))
           => Has(session', Recs(m))
        /\ delivered'[m] > 0 /\ bState'[m] \in {"sent", "resend"} =>
             /\ Has(session', Recs(m)) \/ (clean_session' /\ ~accepted')
             /\ ~Has(Transit', Rels(m))
        /\ delivered'[m] <= 1
        /\ bState'[m] \in {"sent", "resend"}
           => Before(toBroker', Comps(m), Recs(m))
        /\ bState'[m] \in {"released", "rerelease"} =>
             /\ Before(toBroker', Recs(m), Comps(m))
             /\ Has(toBroker', Comps(m))
                => ~Has(session', Recs(m)) /\ ~Has(Transit', Pubs(m))
  <2>1. \A n \in Doubles : BId[n] = BId[m] =>
          /\ n \in Lasting
          /\ bState'[n] = bState[n] /\ delivered'[n] = delivered[n]
    BY <1>3, SameFrames DEF Doubles, Peer, Quiet
  <2>2. \A n \in Doubles : BId[n] = BId[m] => (InFlight(n)' <=> InFlight(n))
    BY <2>1 DEF InFlight
  <2>3. OrderIn(m) /\ SuppressIn(m) /\ ReleaseIn(m)
    BY <1>1, <1>3 DEF MessageIn
  <2>4. Has(session', Recs(m)) \/ Has(toBroker', Recs(m)) =>
             \E n \in Doubles : BId[n] = BId[m] /\ InFlight(n)'
                                /\ delivered'[n] > 0
    BY <1>1, <1>3, <2>1, <2>2, <2>3 DEF Quiet, SuppressIn, Held
  <2>5. /\ bState'[m] = "sent" => Before(Transit', Rels(m), Pubs(m))
        /\ delivered'[m] > 0 => Before(Transit', Pubs(m), Rels(m))
    BY <1>1, <1>3, <2>3 DEF Quiet, OrderIn
  <2>6. /\ delivered'[m] > 0 /\ Has(Transit', Pubs(m))
           => Has(session', Recs(m))
        /\ delivered'[m] > 0 /\ bState'[m] \in {"sent", "resend"} =>
             /\ Has(session', Recs(m)) \/ (clean_session' /\ ~accepted')
             /\ ~Has(Transit', Rels(m))
        /\ delivered'[m] <= 1
    BY <1>1, <1>3, <2>3 DEF Quiet, SuppressIn, Held
  <2>7. /\ bState'[m] \in {"sent", "resend"}
           => Before(toBroker', Comps(m), Recs(m))
        /\ bState'[m] \in {"released", "rerelease"} =>
             /\ Before(toBroker', Recs(m), Comps(m))
             /\ Has(toBroker', Comps(m))
                => ~Has(session', Recs(m)) /\ ~Has(Transit', Pubs(m))
    BY <1>1, <1>3, <2>3 DEF Quiet, ReleaseIn, Held
  <2>8. QED
    BY <2>4, <2>5, <2>6, <2>7
<1>4. ASSUME m \in Singles
      PROVE
        /\ Once(toBroker', Acks("PUBACK", m))
        /\ Has(toBroker', Acks("PUBACK", m)) =>
             \E n \in Singles :
                /\ BId[n] = BId[m] /\ bState'[n] = "sent"
                /\ delivered'[n] > 0 /\ ~Has(Transit', Pubs(n))
  <2>1. \A n \in Singles : BId[n] = BId[m] => Quiet(n)
    BY <1>4, SameFrames DEF Singles, Peer
  <2>2. AckIn(m)
    BY <1>1, <1>4 DEF MessageIn
  <2>3. QED
    BY <1>1, <1>4, <2>1, <2>2 DEF Quiet, AckIn
<1>5. QED
  BY <1>2, <1>3, <1>4, MessageNext

(* A step that does none of this keeps the invariant. *)
LEMMA QuietStep ==
    ASSUME InInv, TransitKept, BackKept, HeldKept, StatesKept, LinkKept,
           UNCHANGED clean_session
    PROVE  InInv'
<1>1. SoleIn'
  BY DEF InInv, SoleIn, StatesKept, InFlight, Lasting
<1>2. LinkIn'
  <2>1. ASSUME sock' = "open", ~accepted'
        PROVE  /\ rx' = <<>> /\ toClient' = <<>>
               /\ \A m \in Lasting, type \in AckTypes :
                    ~Has(toBroker', Acks(type, m))
               /\ clean_session => \A m \in Doubles : ~Has(session', Recs(m))
    BY <2>1 DEF InInv, LinkIn, LinkKept, BackKept, HeldKept, Held
  <2>2. ASSUME session_init', ~clean_session
        PROVE  /\ sock' # "open" /\ rx' = <<>>
               /\ \A m \in Doubles : ~Has(session', Recs(m))
    BY <2>2 DEF InInv, LinkIn, LinkKept, HeldKept, Held
  <2>3. QED
    BY <2>1, <2>2, SameFrames DEF LinkIn, Held
<1>3. \A n \in Lasting : Quiet(n)
  <2> SUFFICES ASSUME NEW n \in Lasting PROVE Quiet(n)
    OBVIOUS
  <2>1. {"PUBACK", "PUBREC", "PUBCOMP"} = AckTypes
    BY DEF AckTypes
  <2>2. QED
    BY <2>1 DEF TransitKept, BackKept, HeldKept, StatesKept, Quiet, Recs, Comps
<1>4. \A m \in Lasting : MessageIn(m)'
  BY <1>3, QuietMessage DEF LinkKept
<1>5. QED
  BY <1>1, <1>2, <1>4, SameFrames DEF InInv

(* A link in use is not new. *)
LEMMA LinkBusy ==
    ASSUME LinkIn, UNCHANGED <<sock, accepted, session_init, clean_session>>,
           rx # <<>> \/ (sock = "open" /\ accepted)
    PROVE  LinkIn'
BY DEF LinkIn

(* What is on the way to the client is a sequence of frames. *)
LEMMA TransitType ==
    ASSUME Inv
    PROVE  /\ Transit \in Seq(Incoming) /\ Transit \in Seq(Frames)
           /\ Incoming \subseteq Frames /\ Len(Transit) \in Nat
           /\ rx \in Seq(Seq(Incoming) \ {<<>>}) /\ toClient \in Seq(Incoming)
           /\ Len(rx) = 0 <=> rx = <<>>
           /\ Len(toClient) = 0 <=> toClient = <<>>
<1>1. rx \in Seq(Seq(Incoming) \ {<<>>}) /\ toClient \in Seq(Incoming)
  BY DEF Inv, LinkInv, Packets
<1>2. Incoming \subseteq Frames
  BY DEF Incoming
<1>3. Transit \in Seq(Incoming)
  BY <1>1, TransitElements DEF Transit
<1>4. QED
  BY <1>1, <1>2, <1>3, SeqMonotonic, LenProperties, EmptySeq

(* Reading a packet takes the first frame in transit. *)
LEMMA ReceivingTransit ==
    ASSUME Inv, NEW type, Receiving(type), UNCHANGED toClient
    PROVE  /\ Transit # <<>> /\ Head(Transit) = Received
           /\ Transit' = Tail(Transit)
BY TransitType, TransitTail DEF Transit, Receiving, Received

(* Losing frames of a sequence. *)
LEMMA ThinTransit ==
    ASSUME Inv, Len(Transit') \in Nat, Thins(Transit', Transit)
    PROVE  TransitKept
BY TransitType, ThinKeeps DEF TransitKept

(* The steps that only lose frames on their way to the client. *)
LEMMA TransitThinned ==
    ASSUME Inv,
           \/ UNCHANGED <<rx, toClient>>
           \/ UNCHANGED toClient /\ \E type : Receiving(type)
           \/ RecvCallback
           \/ UNCHANGED rx /\ toClient' = <<>>
           \/ rx' = <<>> /\ toClient' = <<>>
    PROVE  TransitKept
<1>1. /\ rx \in Seq(Seq(Incoming) \ {<<>>}) /\ toClient \in Seq(Incoming)
      /\ Transit \in Seq(Incoming) /\ Len(Transit) \in Nat
  BY TransitType
<1>2. CASE UNCHANGED <<rx, toClient>>
  BY <1>2 DEF TransitKept, Transit
<1>3. CASE UNCHANGED toClient /\ \E type : Receiving(type)
  <2>1. Transit # <<>> /\ Transit' = Tail(Transit)
    BY <1>3, ReceivingTransit
  <2>2. Thins(Tail(Transit), Transit) /\ Len(Tail(Transit)) \in Nat
    BY <1>1, <2>1, ThinTail, HeadTailProperties, LenProperties
  <2>3. QED
    BY <2>1, <2>2, ThinTransit
<1>4. CASE RecvCallback
  <2>1. PICK n \in 1..MaxPacket :
          /\ n <= Len(toClient)
          /\ rx' = Append(rx, SubSeq(toClient, 1, n))
          /\ toClient' = SubSeq(toClient, n + 1, Len(toClient))
    BY <1>4 DEF RecvCallback
  <2>2. n \in 1..Len(toClient)
    BY <1>1, <2>1, LenProperties, ClientAssumption
  <2>3. /\ rx' \in Seq(Seq(Incoming) \ {<<>>}) /\ toClient' \in Seq(Incoming)
        /\ Thins(Heads(rx') \o toClient', Heads(rx) \o toClient)
    BY <1>1, <2>1, <2>2, TransitPacket
  <2>4. /\ Thins(Transit', Transit) /\ Transit' = Heads(rx') \o toClient'
    BY <2>3 DEF Transit, Heads
  <2>5. Len(Transit') \in Nat
    BY <2>3, <2>4, TransitElements, LenProperties
  <2>6. QED
    BY <2>4, <2>5, ThinTransit
<1>5. CASE UNCHANGED rx /\ toClient' = <<>>
  <2>1. toClient' \in Seq(Incoming) /\ Len(toClient') = 0
    BY <1>5, EmptySeq
  <2>2. Thins(Heads(rx) \o toClient', Heads(rx) \o toClient)
    BY <1>1, <2>1, TransitGone
  <2>3. Transit' = Heads(rx) \o toClient'
    BY <1>5 DEF Transit, Heads
  <2>4. Len(Transit') \in Nat
    BY <1>1, <2>1, <2>3, TransitElements, LenProperties
  <2>5. QED
    BY <2>2, <2>3, <2>4, ThinTransit DEF Transit
<1>6. CASE rx' = <<>> /\ toClient' = <<>>
  <2>1. /\ rx' \in Seq(Seq(Incoming) \ {<<>>}) /\ Len(rx') = 0
        /\ toClient' \in Seq(Incoming) /\ Len(toClient') = 0
    BY <1>6, EmptySeq
  <2>2. Heads(rx') \o toClient' = <<>>
    BY <2>1, TransitEmpty
  <2>3. Transit' = <<>>
    BY <2>2 DEF Transit, Heads
  <2>4. QED
    BY <2>3, EmptyHas DEF TransitKept
<1>7. QED
  BY <1>2, <1>3, <1>4, <1>5, <1>6

(* A frame that the broker sends comes last. *)
LEMMA SendTransit ==
    ASSUME Inv, NEW f \in Frames, UNCHANGED rx,
           toClient' = Append(toClient, f)
    PROVE  Transit' = Append(Transit, f)
<1>1. /\ rx \in Seq(Seq(Incoming) \ {<<>>}) /\ toClient \in Seq(Incoming)
      /\ Incoming \subseteq Frames
  BY TransitType
<1>2. Seq(Incoming) \ {<<>>} \subseteq Seq(Frames) \ {<<>>}
  BY <1>1, SeqMonotonic
<1>3. rx \in Seq(Seq(Frames) \ {<<>>}) /\ toClient \in Seq(Frames)
  BY <1>1, <1>2, SeqMonotonic
<1>4. Heads(rx) \o Append(toClient, f) = Append(Heads(rx) \o toClient, f)
  BY <1>3, TransitSend
<1>5. QED
  BY <1>4 DEF Transit, Heads

(* An answer to a request, CONNACK, PINGRESP, a message of QoS 0. *)
LEMMA TransitAnswered ==
    ASSUME Inv, NEW f \in Frames, f.type # "PUBREL",
           f.type = "PUBLISH" => f.msg \notin Lasting,
           UNCHANGED rx, toClient' = Append(toClient, f)
    PROVE  TransitKept
<1>1. Transit \in Seq(Frames) /\ Transit' = Append(Transit, f)
  BY TransitType, SendTransit
<1>2. \A m \in Lasting : f \notin Pubs(m) /\ f \notin Rels(m)
  BY DEF Pubs, Rels, Acks
<1>3. QED
  BY <1>1, <1>2, AppendHas DEF TransitKept

(* Frames for the broker that are lost or that it has taken. *)
LEMMA BackThinned ==
    ASSUME Inv, \/ toBroker' = toBroker \/ toBroker' = <<>>
                \/ toBroker # <<>> /\ toBroker' = Tail(toBroker)
    PROVE  BackKept
<1>1. CASE toBroker' = toBroker
  BY <1>1 DEF BackKept
<1>2. CASE toBroker' = <<>>
  BY <1>2, EmptyHas DEF BackKept
<1>3. CASE toBroker # <<>> /\ toBroker' = Tail(toBroker)
  <2>1. toBroker \in Seq(Frames)
    BY SeqTypes
  <2>2. /\ Thins(Tail(toBroker), toBroker)
        /\ Len(toBroker) \in Nat /\ Len(Tail(toBroker)) \in Nat
    BY <1>3, <2>1, ThinTail, HeadTailProperties, LenProperties
  <2>3. QED
    BY <1>3, <2>2, ThinKeeps DEF BackKept
<1>4. QED
  BY <1>1, <1>2, <1>3

(* A frame for the broker that is no PUBACK, PUBREC or PUBCOMP. *)
LEMMA BackPut ==
    ASSUME Inv, NEW f \in Outgoing, f.type \notin AckTypes, NEW ok, Put(f, ok)
    PROVE  BackKept
<1>1. CASE toBroker' = toBroker
  BY <1>1 DEF BackKept
<1>2. CASE toBroker' = Append(toBroker, f)
  <2>1. toBroker \in Seq(Frames) /\ f \in Frames
    BY SeqTypes
  <2>2. \A m, type : type \in AckTypes => f \notin Acks(type, m)
    BY DEF Acks
  <2>3. \A m : f \notin Recs(m) /\ f \notin Comps(m)
    BY <2>2 DEF Recs, Comps, AckTypes
  <2>4. "PUBACK" \in AckTypes
    BY DEF AckTypes
  <2>5. QED
    BY <1>2, <2>1, <2>2, <2>3, <2>4, AppendHas DEF BackKept
<1>3. QED
  BY <1>1, <1>2 DEF Put

(* Adding an item that is no PUBREC.                                       *)
LEMMA HeldAdd ==
    ASSUME NEW s \in Seq(Frames), NEW f \in Frames, f.type # "PUBREC", NEW m
    PROVE  Has(AddItem(s, f), Recs(m)) <=> Has(s, Recs(m))
<1>1. f \notin Recs(m)
  BY DEF Recs, Acks
<1>2. QED
  BY <1>1, AppendHas DEF AddItem

(* The item of another id is left where it is. *)
LEMMA HeldRemove ==
    ASSUME NEW s \in Seq(Frames), NEW m, NEW id, id # BId[m]
    PROVE  Has(RemoveItem(s, id), Recs(m)) <=> Has(s, Recs(m))
<1>1. \A x \in Recs(m) : x.id # id
  BY DEF Recs, Acks
<1>2. QED
  BY <1>1, RemoveOther, RemoveTidy

(* The item of a message is the item of its id. *)
LEMMA HeldItem ==
    ASSUME ~Wrap, Inv, OutInv, IdsApart, NEW m \in Doubles
    PROVE  /\ ItemExist(session, BId[m]) <=> Held(m)
           /\ ~Has(RemoveItem(session, BId[m]), Recs(m))
<1>1. session \in Seq(Frames) /\ session \in Seq(Outgoing)
  BY SeqTypes DEF Inv, SessionInv
<1>2. ASSUME NEW i \in 1..Len(session), session[i] \in WithId(BId[m])
      PROVE  session[i] \in Recs(m)
  <2>1. session[i] \in Outgoing /\ session[i].id = BId[m]
        /\ session[i] \in Frames
    BY <1>1, <1>2, ElementOfSeq DEF WithId
  <2>2. \A r \in Requests : ret[r] # BId[m]
    BY DEF IdsApart, Doubles
  <2>3. session[i].type \in ItemTypes
    BY DEF OutInv, ItemsOut, Tidy
  <2>4. session[i].type \notin RequestTypes
    BY <2>1, <2>2 DEF Outgoing, Carries
  <2>5. session[i].type # "PUBREL"
    BY <2>1, <2>2 DEF Outgoing, Known
  <2>6. QED
    BY <2>1, <2>3, <2>4, <2>5 DEF ItemTypes, Recs, Acks
<1>3. Recs(m) \subseteq WithId(BId[m])
  BY DEF Recs, Acks, WithId
<1>4. Has(session, WithId(BId[m])) <=> Has(session, Recs(m))
  BY <1>2, <1>3 DEF Has
<1>5. BId[m] \in Ids
  BY ClientAssumption DEF Doubles, Ids
<1>6. ~Has(RemoveItem(session, BId[m]), WithId(BId[m]))
  BY <1>1, <1>5, RemoveTidy DEF OutInv, ItemsOut
<1>7. ~Has(RemoveItem(session, BId[m]), Recs(m))
  BY <1>3, <1>6 DEF Has
<1>8. QED
  BY <1>1, <1>4, <1>7, NoItem DEF Held

-----------------------------------------------------------------------------
(* The steps that keep it: calls, callbacks, the heartbeat                 *)

(* The calls of the application but connect. *)
LEMMA CallsIn ==
    ASSUME Inv, InInv, UNCHANGED <<brokerVars, clean_session>>,
           \/ UNCHANGED clientVars
           \/ \E r \in Requests : Request(r)
           \/ Disconnect
    PROVE  InInv'
<1>1. UNCHANGED <<session, session_init, delivered, bState, sock, rx,
                  toClient, toBroker, accepted>>
  BY Zenon
  DEF clientVars, netVars, appVars, Request, Disconnect, brokerVars
<1>2. TransitKept /\ BackKept
  BY <1>1, TransitThinned, BackThinned
<1>3. HeldKept /\ StatesKept /\ LinkKept
  BY <1>1 DEF HeldKept, StatesKept, LinkKept
<1>4. QED
  BY <1>2, <1>3, QuietStep

(* The heartbeat pings. *)
LEMMA TickPingIn ==
    ASSUME Inv, InInv, UNCHANGED <<brokerVars, clean_session>>, TickPing
    PROVE  InInv'
<1>1. UNCHANGED <<session, session_init, delivered, bState, sock, rx,
                  toClient, accepted>>
  BY Zenon DEF TickPing, appVars, brokerVars
<1>2. TransitKept
  BY <1>1, TransitThinned
<1>3. BackKept
  <2>1. Bare("PINGREQ") \in Outgoing /\ Bare("PINGREQ").type \notin AckTypes
    BY BareType DEF FrameTypes, AckTypes, Bare, Frame
  <2>2. QED
    BY <2>1, BackPut DEF TickPing, PutPingreq
<1>4. HeldKept /\ StatesKept /\ LinkKept
  BY <1>1 DEF HeldKept, StatesKept, LinkKept
<1>5. QED
  BY <1>2, <1>3, <1>4, QuietStep

(* The link is lost, or found dead. *)
LEMMA LinkLostIn ==
    ASSUME Inv, InInv, UNCHANGED <<brokerVars, clean_session>>,
           TickTimeout \/ DisconnectCallback
    PROVE  InInv'
<1>1. UNCHANGED <<session, session_init, delivered, bState, rx>>
  BY Zenon DEF TickTimeout, DisconnectCallback, appVars, brokerVars
<1>2. \/ UNCHANGED <<sock, toBroker, toClient, accepted>>
      \/ /\ sock' = "broken" /\ toBroker' = <<>> /\ toClient' = <<>>
         /\ ~accepted'
  BY DEF TickTimeout, DisconnectCallback, BreakLink, LinkGone
<1>3. TransitKept /\ BackKept
  BY <1>1, <1>2, TransitThinned, BackThinned
<1>4. HeldKept /\ StatesKept /\ LinkKept
  BY <1>1, <1>2 DEF HeldKept, StatesKept, LinkKept
<1>5. QED
  BY <1>3, <1>4, QuietStep

(* A packet arrives: only on a link that was accepted. *)
LEMMA RecvCallbackIn ==
    ASSUME Inv, InInv, UNCHANGED <<brokerVars, clean_session>>, RecvCallback
    PROVE  InInv'
<1>1. UNCHANGED <<session, session_init, delivered, bState, sock, toBroker,
                  accepted>>
  BY Zenon DEF RecvCallback, appVars, brokerVars
<1>2. sock = "open" /\ toClient # <<>>
  <2>1. sock = "open" /\ \E n \in 1..MaxPacket : n <= Len(toClient)
    BY DEF RecvCallback
  <2>2. Len(toClient) \in Nat /\ Len(toClient) # 0
    BY <2>1, TransitType, LenProperties, ClientAssumption
  <2>3. QED
    BY <2>1, <2>2, TransitType
<1>3. accepted
  BY <1>2 DEF InInv, LinkIn
<1>4. TransitKept /\ BackKept
  BY <1>1, TransitThinned, BackThinned
<1>5. HeldKept /\ StatesKept /\ LinkKept
  BY <1>1, <1>2, <1>3 DEF HeldKept, StatesKept, LinkKept
<1>6. QED
  BY <1>4, <1>5, QuietStep

-----------------------------------------------------------------------------
(* Mqttmain: sending                                                       *)

(* CONNECT is sent. *)
LEMMA SendConnectIn ==
    ASSUME Inv, InInv, UNCHANGED <<brokerVars, clean_session>>, SendConnect
    PROVE  InInv'
<1>1. UNCHANGED <<session, session_init, delivered, bState, sock, rx,
                  toClient, accepted>>
  BY Zenon DEF SendConnect, HandlerRest, brokerVars
<1>2. TransitKept
  BY <1>1, TransitThinned
<1>3. BackKept
  <2>1. Bare("CONNECT") \in Outgoing /\ Bare("CONNECT").type \notin AckTypes
    BY BareType DEF FrameTypes, AckTypes, Bare, Frame
  <2>2. QED
    BY <2>1, BackPut DEF SendConnect, PutConnect
<1>4. HeldKept /\ StatesKept /\ LinkKept
  BY <1>1 DEF HeldKept, StatesKept, LinkKept
<1>5. QED
  BY <1>2, <1>3, <1>4, QuietStep

(* The connection is closed, on either side's account. *)
LEMMA CloseIn ==
    ASSUME Inv, InInv, UNCHANGED <<brokerVars, clean_session>>,
           SendDisconnect \/ HandleDisconnect
    PROVE  InInv'
<1>1. UNCHANGED <<session, session_init, delivered, bState>>
  BY Zenon DEF SendDisconnect, HandleDisconnect, brokerVars
<1>2. \/ UNCHANGED <<sock, rx, toBroker, toClient, accepted>>
      \/ /\ sock' = "none" /\ toBroker' = <<>> /\ toClient' = <<>>
         /\ ~accepted' /\ rx' = <<>>
  BY DEF SendDisconnect, HandleDisconnect, ConnectionClose, ConnectionDeinit,
         LinkGone, netVars
<1>3. TransitKept /\ BackKept
  BY <1>1, <1>2, TransitThinned, BackThinned
<1>4. HeldKept /\ StatesKept /\ LinkKept
  BY <1>1, <1>2 DEF HeldKept, StatesKept, LinkKept
<1>5. QED
  BY <1>3, <1>4, QuietStep

(* A request is no PUBREC item, and its id is not that of one. *)
LEMMA SendRequestIn ==
    ASSUME ~Wrap, Inv, InInv, IdsApart,
           UNCHANGED <<brokerVars, clean_session>>,
           SendSubscribe \/ SendUnsubscribe \/ SendPublish
    PROVE  InInv'
<1>1. UNCHANGED <<session_init, delivered, bState, sock, rx, toClient,
                  accepted>>
  BY Zenon
  DEF SendSubscribe, SendUnsubscribe, SendPublish, HandlerRest, brokerVars
<1>2. /\ Pop("SEND") /\ Popped.type \in RequestTypes
      /\ \E ok \in SendResults : Put(Popped, ok)
      /\ session' \in {AddItem(session, Popped),
                       RemoveItem(AddItem(session, Popped), Popped.id)}
  BY DEF SendSubscribe, SendUnsubscribe, SendPublish, Sending, Popped,
         RequestTypes
<1>3. Popped \in Outgoing /\ Popped \in Frames
  BY <1>2, PopType DEF Inv, Outgoing
<1>4. /\ Popped.type \notin AckTypes /\ Popped.type # "PUBREC"
      /\ Popped.msg \in Requests /\ ret[Popped.msg] = Popped.id
  BY <1>2, <1>3 DEF Outgoing, Carries, RequestTypes, AckTypes
<1>5. TransitKept
  BY <1>1, TransitThinned
<1>6. BackKept
  BY <1>2, <1>3, <1>4, BackPut
<1>7. HeldKept
  <2>1. /\ session \in Seq(Frames) /\ Len(session) <= SessionSize
        /\ AddItem(session, Popped) \in Seq(Frames)
    BY <1>3, SeqTypes, AddItemType DEF Inv, SessionInv
  <2>2. \A m \in Doubles : Popped.id # BId[m]
    BY <1>4 DEF IdsApart, Doubles
  <2>3. QED
    BY <1>2, <1>3, <1>4, <2>1, <2>2, HeldAdd, HeldRemove DEF HeldKept
<1>8. StatesKept /\ LinkKept
  BY <1>1 DEF StatesKept, LinkKept
<1>9. QED
  BY <1>5, <1>6, <1>7, <1>8, QuietStep

-----------------------------------------------------------------------------
(* Mqttmain: receiving                                                     *)

(* What every handler of a frame leaves alone. *)
LEMMA HandlerIn ==
    ASSUME Inv, UNCHANGED HandlerRest, UNCHANGED <<brokerVars, clean_session>>,
           \/ rx' = rx
           \/ \E type : Receiving(type)
    PROVE  TransitKept /\ LinkKept
<1>1. UNCHANGED <<session_init, sock, toClient, accepted>>
  BY Zenon DEF HandlerRest
<1>2. TransitKept
  BY <1>1, TransitThinned
<1>3. rx = <<>> => rx' = <<>>
  BY DEF Receiving
<1>4. QED
  BY <1>1, <1>2, <1>3 DEF LinkKept

(* Nothing to read, or the answer to CONNECT. *)
LEMMA ReadNothingIn ==
    ASSUME Inv, InInv, UNCHANGED <<brokerVars, clean_session>>,
           ReceiveNothing \/ GetConnack
    PROVE  InInv'
<1>1. /\ UNCHANGED HandlerRest
      /\ UNCHANGED <<session, toBroker, delivered, bState>>
      /\ rx' = rx \/ \E type : Receiving(type)
  BY Zenon DEF ReceiveNothing, GetConnack, brokerVars
<1>2. TransitKept /\ LinkKept /\ BackKept
  BY <1>1, HandlerIn, BackThinned
<1>3. HeldKept /\ StatesKept
  BY <1>1 DEF HeldKept, StatesKept
<1>4. QED
  BY <1>2, <1>3, QuietStep

(* A message of QoS 0. *)
LEMMA GetPublish0In ==
    ASSUME Inv, InInv, UNCHANGED <<brokerVars, clean_session>>,
           GetPublish, RecvPublish0
    PROVE  InInv'
<1>1. /\ UNCHANGED HandlerRest
      /\ UNCHANGED <<session, toBroker, bState>>
      /\ Receiving("PUBLISH")
  BY Zenon DEF GetPublish, RecvPublish0, brokerVars
<1>2. TransitKept /\ LinkKept /\ BackKept
  BY <1>1, HandlerIn, BackThinned
<1>3. HeldKept
  BY <1>1 DEF HeldKept
<1>4. \A m \in Lasting : delivered'[m] = delivered[m]
  BY DEF RecvPublish0, Deliver, Lasting, Inv, DeliveredInv
<1>5. QED
  BY <1>1, <1>2, <1>3, <1>4, QuietStep DEF StatesKept

(* What ends the exchange of a request does not touch a PUBREC item. *)
LEMMA AnswerIn ==
    ASSUME ~Wrap, Inv, InInv, IdsApart,
           UNCHANGED <<brokerVars, clean_session>>,
           GetPuback \/ GetPubcomp \/ GetSuback \/ GetUnsuback
    PROVE  InInv'
<1>1. /\ UNCHANGED HandlerRest
      /\ UNCHANGED <<toBroker, delivered, bState>>
      /\ session' = RemoveItem(session, Received.id)
  BY Zenon
  DEF GetPuback, GetPubcomp, GetSuback, GetUnsuback, RecvPuback, RecvPubcomp,
      RecvSuback, RecvUnsuback, brokerVars
<1>2. \E kind \in RequestTypes, type \in FrameTypes :
         Receiving(type) /\ type \in AnswersTo(kind)
  BY DEF GetPuback, GetPubcomp, GetSuback, GetUnsuback, AnswersTo,
         RequestTypes, FrameTypes
<1>3. TransitKept /\ LinkKept /\ BackKept
  BY <1>1, <1>2, HandlerIn, BackThinned
<1>4. PICK r \in Requests : ret[r] = Received.id
  BY <1>2, ReceivingType DEF Inv, Incoming, Known
<1>5. \A m \in Doubles : Received.id # BId[m]
  BY <1>4 DEF IdsApart, Doubles
<1>6. HeldKept
  BY <1>1, <1>5, SeqTypes, HeldRemove DEF HeldKept
<1>7. StatesKept
  BY <1>1 DEF StatesKept
<1>8. QED
  BY <1>3, <1>6, <1>7, QuietStep

(* Nor does the PUBREC of a request. *)
LEMMA GetPubrecIn ==
    ASSUME ~Wrap, Inv, InInv, IdsApart,
           UNCHANGED <<brokerVars, clean_session>>,
           GetPubrec
    PROVE  InInv'
<1> DEFINE removed == RemoveItem(session, Received.id)
           pubrel == Ack("PUBREL", Received.id)
<1>1. /\ UNCHANGED HandlerRest
      /\ UNCHANGED <<delivered, bState>>
      /\ Receiving("PUBREC")
      /\ \E ok \in SendResults : Put(pubrel, ok)
      /\ session' \in {removed, AddItem(removed, pubrel)}
  BY DEF GetPubrec, RecvPubrec, brokerVars
<1>2. Received.id \in Ids /\ Known(Received.id, "PUBLISH")
  BY <1>1, ReceivingType
  DEF Inv, Incoming, Frames, RequestTypes, AnswersTo, FrameTypes
<1>3. PICK r \in Requests : ret[r] = Received.id
  BY <1>2 DEF Known
<1>4. \A m \in Doubles : Received.id # BId[m]
  BY <1>3 DEF IdsApart, Doubles
<1>5. pubrel \in Outgoing
  BY <1>2, AckType DEF FrameTypes, RequestTypes
<1>6. pubrel.type = "PUBREL" /\ pubrel \in Frames
  BY <1>5 DEF Ack, Frame, Outgoing
<1>7. TransitKept /\ LinkKept
  BY <1>1, HandlerIn
<1>8. pubrel.type \notin AckTypes /\ pubrel.type # "PUBREC"
  BY <1>6 DEF AckTypes
<1> HIDE DEF pubrel
<1>9. BackKept
  BY <1>1, <1>5, <1>8, BackPut
<1>10. HeldKept
  <2>1. session \in Seq(Frames) /\ removed \in Seq(Frames)
    BY SeqTypes, RemoveItemType
  <2>2. \A m \in Doubles : Has(removed, Recs(m)) <=> Has(session, Recs(m))
    BY <1>4, <2>1, HeldRemove
  <2> HIDE DEF removed
  <2>3. \A m : Has(AddItem(removed, pubrel), Recs(m))
               <=> Has(removed, Recs(m))
    BY <1>6, <1>8, <2>1, HeldAdd
  <2>4. QED
    BY <1>1, <2>2, <2>3 DEF HeldKept
<1>11. StatesKept
  BY <1>1 DEF StatesKept
<1>12. QED
  BY <1>7, <1>9, <1>10, <1>11, QuietStep

-----------------------------------------------------------------------------
(* The broker: what is not about a message above QoS 0                     *)

(* It refuses a link. *)
LEMMA BrokerRejectIn ==
    ASSUME Inv, InInv, UNCHANGED clean_session, BrokerReject
    PROVE  InInv'
<1>1. /\ UNCHANGED <<session, session_init, delivered, bState, rx>>
      /\ sock' = "broken" /\ toBroker' = <<>> /\ toClient' = <<>>
      /\ ~accepted'
  BY DEF BrokerReject, BrokerLeaves, LinkGone, appVars, brokerVars
<1>2. TransitKept /\ BackKept
  BY <1>1, TransitThinned, BackThinned
<1>3. HeldKept /\ StatesKept /\ LinkKept
  BY <1>1 DEF HeldKept, StatesKept, LinkKept
<1>4. QED
  BY <1>2, <1>3, QuietStep

(* It answers a request or a ping. *)
LEMMA BrokerAnswersIn ==
    ASSUME Inv, InInv, UNCHANGED clean_session,
           \/ BrokerTakePublish \/ BrokerTakePubrel \/ BrokerTakeSubscribe
           \/ BrokerTakeUnsubscribe \/ BrokerTakePing
    PROVE  InInv'
<1>1. /\ \E type : Takes(type)
      /\ UNCHANGED bState
      /\ \/ UNCHANGED toClient
         \/ \E type \in {"PUBACK", "PUBREC", "PUBCOMP", "SUBACK", "UNSUBACK"} :
               Reply(type, Taken.id)
         \/ Reply("PINGRESP", 0)
  <2>1. ASSUME BrokerTakePublish
        PROVE  \/ UNCHANGED toClient
               \/ Reply("PUBACK", Taken.id) \/ Reply("PUBREC", Taken.id)
    <3>1. Takes("PUBLISH")
      BY <2>1 DEF BrokerTakePublish
    <3>2. Taken \in Outgoing /\ Taken.type = "PUBLISH"
      BY <3>1, HeadTailProperties DEF Takes, Taken, Inv, LinkInv
    <3>3. Qos[Taken.msg] \in 0..2
      BY <3>2, ClientAssumption DEF Outgoing, Carries, RequestTypes
    <3>4. Qos[Taken.msg] = 0 \/ Qos[Taken.msg] = 1 \/ Qos[Taken.msg] = 2
      BY <3>3
    <3>5. QED
      BY <2>1, <3>4 DEF BrokerTakePublish
  <2>2. QED
    BY <2>1, Zenon
    DEF BrokerTakePublish, BrokerTakePubrel, BrokerTakeSubscribe,
        BrokerTakeUnsubscribe, BrokerTakePing, brokerVars
<1>2. /\ UNCHANGED <<session, session_init, delivered, rx, sock, accepted>>
      /\ toBroker # <<>> /\ toBroker' = Tail(toBroker) /\ accepted
  BY <1>1 DEF Takes, BrokerLeaves, appVars
<1>3. TransitKept
  <2>1. ASSUME NEW type \in {"PUBACK", "PUBREC", "PUBCOMP", "SUBACK",
                             "UNSUBACK", "PINGRESP"},
               NEW id \in Ids, Reply(type, id)
        PROVE  TransitKept
    <3>1. /\ Ack(type, id) \in Frames /\ Ack(type, id).type # "PUBREL"
          /\ Ack(type, id).type # "PUBLISH"
      BY DEF Ack, Frame, Frames, FrameTypes, Msgs
    <3>2. QED
      BY <1>2, <2>1, <3>1, TransitAnswered DEF Reply
  <2>2. Taken.id \in Ids
    <3>1. Taken \in Frames
      BY <1>2, SeqTypes, HeadTailProperties DEF Taken
    <3>2. QED
      BY <3>1 DEF Frames
  <2>3. 0 \in Ids
    BY ClientAssumption DEF Ids
  <2>4. ASSUME UNCHANGED toClient PROVE TransitKept
    BY <1>2, <2>4, TransitThinned
  <2>5. QED
    BY <1>1, <2>1, <2>2, <2>3, <2>4
<1>4. BackKept
  BY <1>2, BackThinned
<1>5. HeldKept /\ StatesKept /\ LinkKept
  BY <1>1, <1>2 DEF HeldKept, StatesKept, LinkKept
<1>6. QED
  BY <1>3, <1>4, <1>5, QuietStep

(* A message of QoS 0 is sent once, without a delivery to follow. *)
LEMMA BrokerPublish0In ==
    ASSUME Inv, InInv, UNCHANGED clean_session,
           NEW m \in BMsgs, BQos[m] = 0, BrokerPublish(m)
    PROVE  InInv'
<1> DEFINE f == Frame("PUBLISH", BId[m], m)
<1>1. /\ UNCHANGED <<session, session_init, delivered, rx, sock, accepted,
                     toBroker>>
      /\ accepted /\ toClient' = Append(toClient, f)
      /\ bState' = [n \in BMsgs |-> IF n = m THEN "done" ELSE bState[n]]
  BY DEF BrokerPublish, BrokerLeaves, appVars, Becomes
<1>2. m \notin Lasting
  BY DEF Lasting
<1>3. f \in Frames /\ f.type = "PUBLISH" /\ f.msg = m
  BY ClientAssumption DEF Frame, Frames, FrameTypes, Msgs, Ids
<1> HIDE DEF f
<1>4. TransitKept
  BY <1>1, <1>2, <1>3, TransitAnswered
<1>5. BackKept
  BY <1>1, BackThinned
<1>6. HeldKept /\ LinkKept
  BY <1>1 DEF HeldKept, LinkKept
<1>7. StatesKept
  BY <1>1, <1>2 DEF StatesKept, Lasting
<1>8. QED
  BY <1>4, <1>5, <1>6, <1>7, QuietStep

-----------------------------------------------------------------------------
(* Steps of one delivery                                                   *)

(* What a frame read, and a frame put, mean for the sequences. *)
LEMMA ReadKeeps ==
    ASSUME Inv, NEW type, Receiving(type), UNCHANGED toClient
    PROVE  /\ Received \in Incoming /\ Received \in Frames
           /\ Received.type = type /\ rx # <<>>
           /\ \A A : Has(Transit', A) => Has(Transit, A)
           /\ \A A : Received \in A => Has(Transit, A)
           /\ \A A : Once(Transit, A) => Once(Transit', A)
           /\ \A A : Once(Transit, A) /\ Received \in A => ~Has(Transit', A)
           /\ \A A, B : Before(Transit, A, B) => Before(Transit', A, B)
           /\ \A A, B : Before(Transit, A, B) /\ Received \in B
                        => ~Has(Transit, A)
<1>1. /\ Received \in Incoming /\ Received \in Frames
      /\ Received.type = type /\ rx # <<>>
  BY ReceivingType DEF Inv, Incoming, Receiving
<1>2. /\ Transit \in Seq(Frames) /\ Transit # <<>>
      /\ Head(Transit) = Received /\ Transit' = Tail(Transit)
  BY TransitType, ReceivingTransit
<1>3. QED
  BY <1>1, <1>2, TakeHead

(* A frame put for the broker is the last, if it is sent. *)
LEMMA PutKeeps ==
    ASSUME Inv, NEW f \in Frames, \E ok \in SendResults : Put(f, ok)
    PROVE  /\ \A A : Has(toBroker, A) => Has(toBroker', A)
           /\ \A A : Has(toBroker', A) => Has(toBroker, A) \/ f \in A
           /\ \A A : Once(toBroker, A) /\ (f \in A => ~Has(toBroker, A))
                     => Once(toBroker', A)
           /\ \A A, B : /\ Before(toBroker, A, B)
                        /\ f \in A => ~Has(toBroker, B) /\ f \notin B
                        => Before(toBroker', A, B)
<1>1. toBroker' = toBroker \/ toBroker' = Append(toBroker, f)
  BY DEF Put
<1>2. toBroker \in Seq(Frames)
  BY SeqTypes
<1>3. CASE toBroker' = Append(toBroker, f)
  <2>1. /\ \A A : Has(toBroker', A) <=> Has(toBroker, A) \/ f \in A
        /\ \A A : Once(toBroker, A) /\ (f \in A => ~Has(toBroker, A))
                  => Once(toBroker', A)
        /\ \A A, B : /\ Before(toBroker, A, B)
                     /\ f \in A => ~Has(toBroker, B)
                     /\ ~(f \in A /\ f \in B)
                     => Before(toBroker', A, B)
    BY <1>2, <1>3, AppendHas
  <2>2. QED
    BY <2>1, Zenon
<1>4. QED
  BY <1>1, <1>3, Zenon

(* A step of the deliveries that share an id and a QoS. *)
LEMMA PeersStep ==
    ASSUME InInv, NEW k \in Lasting, SoleIn', LinkIn',
           accepted' => accepted, UNCHANGED clean_session,
           \A m \in Lasting : ~Peer(k, m) => Quiet(m),
           \A m \in Lasting : Peer(k, m) => MessageIn(m)'
    PROVE  InInv'
<1>1. ASSUME NEW m \in Lasting, ~Peer(k, m) PROVE MessageIn(m)'
  <2>1. \A n \in Lasting : Peer(m, n) => ~Peer(k, n)
    BY <1>1 DEF Peer
  <2>2. QED
    BY <2>1, QuietMessage
<1>2. QED
  BY <1>1, SameFrames DEF InInv

(* No two of them are in flight, and none becomes so by an answer. *)
LEMMA SoleKept ==
    ASSUME SoleIn, \A m \in Lasting : InFlight(m)' => InFlight(m)
    PROVE  SoleIn'
BY SameFrames DEF SoleIn

(* One that is not in flight has nothing in transit. *)
LEMMA RestingPeer ==
    ASSUME InInv, NEW m \in Lasting, ~InFlight(m),
           bState'[m] = bState[m], delivered'[m] = delivered[m],
           Has(Transit', Pubs(m)) => Has(Transit, Pubs(m)),
           m \in Doubles =>
             (Has(session', Recs(m)) \/ Has(toBroker', Recs(m)) =>
                  \E n \in Doubles : BId[n] = BId[m] /\ InFlight(n)'
                                     /\ delivered'[n] > 0),
           m \in Singles =>
             /\ Once(toBroker', Acks("PUBACK", m))
             /\ Has(toBroker', Acks("PUBACK", m)) =>
                  \E n \in Singles :
                     /\ BId[n] = BId[m] /\ bState'[n] = "sent"
                     /\ delivered'[n] > 0 /\ ~Has(Transit', Pubs(n))
    PROVE  MessageIn(m)'
<1>1. MessageIn(m)
  BY DEF InInv
<1>2. ~Has(Transit', Pubs(m))
  BY <1>1 DEF MessageIn, PublishIn, InFlight
<1>3. /\ Once(Transit', Pubs(m))
      /\ Before(Transit', Rels(m), Pubs(m))
      /\ Before(Transit', Pubs(m), Rels(m))
  BY <1>2 DEF Has, Once, Before
<1>4. /\ bState'[m] = "new" => delivered'[m] = 0
      /\ bState'[m] \in {"released", "rerelease", "done"} => delivered'[m] > 0
  BY <1>1 DEF MessageIn, PublishIn
<1>5. m \in Doubles => delivered'[m] <= 1
  BY <1>1 DEF MessageIn, SuppressIn
<1>6. bState'[m] \notin {"sent", "resend", "released", "rerelease"}
  BY DEF InFlight
<1>7. QED
  BY <1>2, <1>3, <1>4, <1>5, <1>6, MessageNext

(* Only a message that is sent or released is read. *)
LEMMA ReadPublish ==
    ASSUME Inv, InInv, Receiving("PUBLISH"), BQos[Received.msg] > 0
    PROVE  /\ Received.msg \in Lasting /\ Received.id = BId[Received.msg]
           /\ Received.id \in Ids /\ Received \in Pubs(Received.msg)
           /\ Has(Transit, Pubs(Received.msg))
           /\ Once(Transit, Pubs(Received.msg))
           /\ bState[Received.msg] \in {"sent", "released"}
<1>1. /\ Received \in Incoming /\ Received.type = "PUBLISH"
      /\ Received \in Frames /\ Received.id \in Ids
  BY ReceivingType DEF Inv, Incoming, Frames
<1>2. /\ Received.msg \in Lasting /\ Received.id = BId[Received.msg]
      /\ Received \in Pubs(Received.msg)
  BY <1>1 DEF Incoming, Lasting, Pubs
<1>3. Has(Transit, Pubs(Received.msg))
  <2>1. Transit \in Seq(Frames) /\ Transit # <<>> /\ Head(Transit) = Received
    <3>1. /\ rx \in Seq(Seq(Incoming) \ {<<>>}) /\ toClient \in Seq(Incoming)
          /\ rx # <<>> /\ Transit \in Seq(Frames)
      BY TransitType DEF Receiving
    <3>2. QED
      BY <3>1, TransitTail DEF Transit, Received
  <2>2. QED
    BY <1>2, <2>1, TakeHead
<1>4. QED
  BY <1>1, <1>2, <1>3 DEF InInv, MessageIn, PublishIn

(* A message of QoS 1 is given to the application and acknowledged: it was *)
(* sent and not delivered, or sent again, and now nothing of it is in      *)
(* transit.                                                                *)
LEMMA GetPublish1In ==
    ASSUME Inv, InInv, UNCHANGED <<brokerVars, clean_session>>,
           GetPublish, RecvPublish1
    PROVE  InInv'
<1> DEFINE k == Received.msg
           ack == Ack("PUBACK", Received.id)
<1>1. /\ UNCHANGED HandlerRest /\ UNCHANGED <<session, bState>>
      /\ UNCHANGED <<session_init, sock, toClient, accepted>>
      /\ Receiving("PUBLISH")
      /\ \E ok \in SendResults : Put(ack, ok)
      /\ Deliver(k) /\ BQos[k] = 1
  BY DEF GetPublish, RecvPublish1, brokerVars, HandlerRest
<1>2. /\ k \in Lasting /\ Received.id = BId[k] /\ Received.id \in Ids
      /\ Received \in Pubs(k)
      /\ Has(Transit, Pubs(k)) /\ Once(Transit, Pubs(k))
      /\ bState[k] \in {"sent", "released"}
  BY <1>1, ReadPublish
<1>3. k \in Singles /\ k \notin Doubles /\ bState[k] = "sent"
  BY <1>1, <1>2
  DEF Singles, Doubles, Lasting, Inv, BrokerInv, Deliveries
<1>4. ack \in Frames /\ ack.type = "PUBACK" /\ ack.id = BId[k]
  BY <1>2 DEF Ack, Frame, Frames, FrameTypes, Msgs
<1>5. ack \in Acks("PUBACK", k)
  BY <1>4 DEF Acks
<1>6. TransitKept /\ LinkIn' /\ rx # <<>>
  BY <1>1, HandlerIn, LinkBusy, ReadKeeps DEF InInv
<1>7. SoleIn'
  BY <1>1, SoleKept DEF InInv, InFlight
<1>8. \A m \in BMsgs : delivered'[m] = IF m = k THEN Upto2(delivered[k])
                                                ELSE delivered[m]
  BY <1>1, <1>2 DEF Deliver, Inv, DeliveredInv, Lasting
<1>9. delivered'[k] > 0
  BY <1>2, <1>8 DEF Upto2, Lasting, Inv, DeliveredInv
<1>10. ~Has(Transit', Pubs(k))
  BY <1>1, <1>2, ReadKeeps
<1> HIDE DEF k, ack
<1>11. ASSUME NEW m \in Singles, InFlight(m), BId[m] = BId[k] PROVE m = k
  BY <1>2, <1>3, <1>11, SameFrames DEF InInv, SoleIn, InFlight
<1>12. ~Has(toBroker, Acks("PUBACK", k))
  <2> SUFFICES ASSUME Has(toBroker, Acks("PUBACK", k)) PROVE FALSE
    OBVIOUS
  <2>1. PICK n \in Singles : /\ BId[n] = BId[k] /\ bState[n] = "sent"
                             /\ ~Has(Transit, Pubs(n))
    BY <1>3, SameFrames DEF InInv, MessageIn, AckIn
  <2>2. n = k
    BY <1>11, <2>1 DEF InFlight
  <2>3. QED
    BY <1>2, <2>1, <2>2
<1>13. /\ Once(toBroker', Acks("PUBACK", k))
       /\ \E n \in Singles : /\ BId[n] = BId[k] /\ bState'[n] = "sent"
                             /\ delivered'[n] > 0 /\ ~Has(Transit', Pubs(n))
  <2>1. Once(toBroker, Acks("PUBACK", k))
    BY <1>3, SameFrames DEF InInv, MessageIn, AckIn
  <2>2. QED
    BY <1>1, <1>3, <1>4, <1>9, <1>10, <1>12, <2>1, PutKeeps
<1>14. ASSUME NEW m \in Lasting, ~Peer(k, m) PROVE Quiet(m)
  <2>1. m \in BMsgs /\ m # k
    BY <1>14 DEF Peer, Lasting
  <2>2. m \in Singles => ack \notin Acks("PUBACK", m)
    BY <1>3, <1>4, <1>14 DEF Acks, Peer, Singles
  <2>3. ack \notin Recs(m) /\ ack \notin Comps(m)
    BY <1>4 DEF Acks, Recs, Comps
  <2>4. bState'[m] = bState[m] /\ delivered'[m] = delivered[m]
    BY <1>1, <1>8, <2>1
  <2>5. Has(session', Recs(m)) <=> Has(session, Recs(m))
    BY <1>1
  <2>6. m \in Singles =>
         /\ Has(toBroker', Acks("PUBACK", m))
            => Has(toBroker, Acks("PUBACK", m))
         /\ Once(toBroker, Acks("PUBACK", m))
            => Once(toBroker', Acks("PUBACK", m))
    BY <1>1, <1>4, <2>2, PutKeeps
  <2>7. /\ Has(toBroker', Recs(m)) => Has(toBroker, Recs(m))
        /\ Has(toBroker', Comps(m)) => Has(toBroker, Comps(m))
        /\ Before(toBroker, Recs(m), Comps(m))
           => Before(toBroker', Recs(m), Comps(m))
        /\ Before(toBroker, Comps(m), Recs(m))
           => Before(toBroker', Comps(m), Recs(m))
    BY <1>1, <1>4, <2>3, PutKeeps
  <2>8. QED
    BY <1>6, <2>4, <2>5, <2>6, <2>7 DEF TransitKept, Quiet
<1>15. ASSUME NEW m \in Lasting, Peer(k, m) PROVE MessageIn(m)'
  <2>1. m \in Singles /\ m \notin Doubles /\ BId[m] = BId[k]
    BY <1>3, <1>15 DEF Peer, Lasting, Singles, Doubles
  <2>2. Acks("PUBACK", m) = Acks("PUBACK", k)
    BY <2>1 DEF Acks
  <2>3. CASE m = k
    <3>1. Once(Transit', Pubs(m))
      BY <1>1, <1>2, <2>3, ReadKeeps
    <3>2. QED
      BY <1>1, <1>3, <1>9, <1>10, <1>13, <2>1, <2>3, <3>1, MessageNext
  <2>4. CASE m # k
    <3>1. ~InFlight(m)
      BY <1>11, <2>1, <2>4
    <3>2. bState'[m] = bState[m] /\ delivered'[m] = delivered[m]
      BY <1>1, <1>8, <2>4 DEF Lasting
    <3>3. Has(Transit', Pubs(m)) => Has(Transit, Pubs(m))
      BY <1>6 DEF TransitKept
    <3>4. QED
      BY <1>13, <2>1, <2>2, <3>1, <3>2, <3>3, RestingPeer
  <2>5. QED
    BY <2>3, <2>4
<1>16. QED
  BY <1>1, <1>2, <1>6, <1>7, <1>14, <1>15, PeersStep

(* A message of QoS 2 is given to the application unless its PUBREC item   *)
(* exists; now the item exists, and the message was delivered, once.       *)
LEMMA GetPublish2In ==
    ASSUME ~Wrap, Inv, OutInv, InInv, IdsApart, HasRoom,
           UNCHANGED <<brokerVars, clean_session>>,
           GetPublish, RecvPublish2
    PROVE  InInv'
<1> DEFINE k == Received.msg
           rec == Ack("PUBREC", Received.id)
<1>1. /\ UNCHANGED HandlerRest /\ UNCHANGED bState
      /\ UNCHANGED <<session_init, sock, toClient, accepted>>
      /\ Receiving("PUBLISH")
      /\ \E ok \in SendResults : Put(rec, ok)
      /\ IF ItemExist(session, Received.id)
         THEN UNCHANGED <<session, delivered>>
         ELSE session' = AddItem(session, rec) /\ Deliver(k)
      /\ BQos[k] = 2
  BY DEF GetPublish, RecvPublish2, brokerVars, HandlerRest
<1>2. /\ k \in Lasting /\ Received.id = BId[k] /\ Received.id \in Ids
      /\ Received \in Pubs(k)
      /\ Has(Transit, Pubs(k)) /\ Once(Transit, Pubs(k))
      /\ bState[k] \in {"sent", "released"}
  BY <1>1, ReadPublish
<1>3. k \in Doubles /\ k \notin Singles
  BY <1>1, <1>2 DEF Singles, Doubles, Lasting
<1>4. rec \in Frames /\ rec.type = "PUBREC" /\ rec.id = BId[k]
  BY <1>2 DEF Ack, Frame, Frames, FrameTypes, Msgs
<1>5. rec \in Recs(k)
  BY <1>4 DEF Acks, Recs
<1>6. TransitKept /\ LinkIn' /\ rx # <<>>
  BY <1>1, HandlerIn, LinkBusy, ReadKeeps DEF InInv
<1>7. SoleIn'
  BY <1>1, SoleKept DEF InInv, InFlight
<1>8. MessageIn(k) /\ OrderIn(k) /\ SuppressIn(k) /\ ReleaseIn(k)
  BY <1>2, <1>3 DEF InInv, MessageIn
<1>9. ~Has(Transit', Pubs(k)) /\ Once(Transit', Pubs(k))
  BY <1>1, <1>2, ReadKeeps
<1>10. bState[k] = "sent" => ~Has(Transit, Rels(k))
  BY <1>1, <1>2, <1>8, ReadKeeps DEF OrderIn
<1>11. ItemExist(session, Received.id) <=> Held(k)
  BY <1>2, <1>3, HeldItem
<1> HIDE DEF k, rec
<1>12. ASSUME NEW m \in Doubles, InFlight(m), BId[m] = BId[k] PROVE m = k
  BY <1>2, <1>3, <1>12, SameFrames DEF InInv, SoleIn, InFlight
<1>13. /\ Has(session', Recs(k)) /\ delivered'[k] > 0 /\ delivered'[k] <= 1
       /\ \A m \in BMsgs \ {k} : delivered'[m] = delivered[m]
  <2>1. delivered[k] \in 0..2 /\ delivered \in [BMsgs -> 0..2]
    BY <1>2 DEF Inv, DeliveredInv, Lasting
  <2>2. CASE Held(k)
    <3>1. delivered[k] > 0
      BY <1>8, <1>12, <2>2 DEF SuppressIn
    <3>2. QED
      BY <1>1, <1>8, <1>11, <2>2, <3>1 DEF Held, SuppressIn
  <2>3. CASE ~Held(k)
    <3>1. delivered[k] = 0
      BY <1>2, <1>8, <2>1, <2>3 DEF SuppressIn
    <3>2. session' = AddItem(session, rec) /\ Deliver(k)
      BY <1>1, <1>11, <2>3
    <3>3. Has(session', Recs(k))
      BY <1>4, <1>5, <3>2, SeqTypes, AddItemHas DEF HasRoom
    <3>4. k \in BMsgs
      BY <1>2 DEF Lasting
    <3>5. QED
      BY <2>1, <3>1, <3>2, <3>3, <3>4 DEF Deliver, Upto2
  <2>4. QED
    BY <2>2, <2>3
<1>14. ASSUME NEW m \in Lasting, ~Peer(k, m) PROVE Quiet(m)
  <2>1. m \in BMsgs \ {k}
    BY <1>14 DEF Peer, Lasting
  <2>2. m \in Doubles => rec \notin Recs(m)
    BY <1>3, <1>4, <1>14 DEF Acks, Recs, Peer, Doubles
  <2>3. rec \notin Acks("PUBACK", m) /\ rec \notin Comps(m)
    BY <1>4 DEF Acks, Comps
  <2>4. bState'[m] = bState[m] /\ delivered'[m] = delivered[m]
    BY <1>1, <1>13, <2>1
  <2>5. m \in Doubles => (Has(session', Recs(m)) <=> Has(session, Recs(m)))
    <3>1. session' = session \/ session' = Append(session, rec)
      BY <1>1 DEF AddItem
    <3>2. \A A : Has(Append(session, rec), A) <=> Has(session, A) \/ rec \in A
      BY <1>4, SeqTypes, AppendHas
    <3>3. QED
      BY <2>2, <3>1, <3>2
  <2>6. /\ Has(toBroker', Acks("PUBACK", m))
           => Has(toBroker, Acks("PUBACK", m))
        /\ Once(toBroker, Acks("PUBACK", m))
           => Once(toBroker', Acks("PUBACK", m))
    BY <1>1, <1>4, <2>3, PutKeeps
  <2>7. m \in Doubles =>
        /\ Has(toBroker', Recs(m)) => Has(toBroker, Recs(m))
        /\ Has(toBroker', Comps(m)) => Has(toBroker, Comps(m))
        /\ Before(toBroker, Recs(m), Comps(m))
           => Before(toBroker', Recs(m), Comps(m))
        /\ Before(toBroker, Comps(m), Recs(m))
           => Before(toBroker', Comps(m), Recs(m))
    BY <1>1, <1>4, <2>2, <2>3, PutKeeps
  <2>8. QED
    BY <1>6, <2>4, <2>5, <2>6, <2>7 DEF TransitKept, Quiet
<1>15. ASSUME NEW m \in Lasting, Peer(k, m) PROVE MessageIn(m)'
  <2>1. m \in Doubles /\ m \notin Singles /\ BId[m] = BId[k]
    BY <1>3, <1>15 DEF Peer, Lasting, Singles, Doubles
  <2>2. \E n \in Doubles : BId[n] = BId[m] /\ InFlight(n)'
                           /\ delivered'[n] > 0
    BY <1>1, <1>2, <1>3, <1>13, <2>1 DEF InFlight
  <2>3. CASE m = k
    <3>1. /\ Before(Transit', Rels(k), Pubs(k))
          /\ Before(Transit', Pubs(k), Rels(k))
      BY <1>9 DEF Has, Before
    <3>2. bState[k] = "sent" => ~Has(Transit', Rels(k))
      BY <1>1, <1>10, ReadKeeps
    <3>3. bState[k] = "sent" => Before(toBroker', Comps(k), Recs(k))
      <4>1. rec \notin Comps(k)
        BY <1>4 DEF Acks, Comps
      <4>2. QED
        BY <1>1, <1>4, <1>8, <4>1, PutKeeps DEF ReleaseIn
    <3>4. bState[k] = "released" =>
            Before(toBroker', Recs(k), Comps(k)) /\ ~Has(toBroker', Comps(k))
      <4>1. rec \notin Comps(k)
        BY <1>4 DEF Acks, Comps
      <4>2. bState[k] = "released" => /\ Before(toBroker, Recs(k), Comps(k))
                                      /\ ~Has(toBroker, Comps(k))
        BY <1>2, <1>8 DEF ReleaseIn
      <4>3. QED
        BY <1>1, <1>4, <4>1, <4>2, PutKeeps
    <3>5. QED
      BY <1>1, <1>2, <1>9, <1>13, <2>1, <2>2, <2>3, <3>1, <3>2, <3>3, <3>4,
         MessageNext
  <2>4. CASE m # k
    <3>1. ~InFlight(m)
      BY <1>12, <2>1, <2>4
    <3>2. bState'[m] = bState[m] /\ delivered'[m] = delivered[m]
      BY <1>1, <1>13, <2>4 DEF Lasting
    <3>3. Has(Transit', Pubs(m)) => Has(Transit, Pubs(m))
      BY <1>6 DEF TransitKept
    <3>4. QED
      BY <2>1, <2>2, <3>1, <3>2, <3>3, RestingPeer
  <2>5. QED
    BY <2>3, <2>4
<1>16. QED
  BY <1>1, <1>2, <1>6, <1>7, <1>14, <1>15, PeersStep

(* PUBREL ends the exchange here, or answers an exchange that had ended    *)
(* before: then the message that has the id now was not delivered.         *)
LEMMA GetPubrelIn ==
    ASSUME ~Wrap, Inv, OutInv, InInv, IdsApart,
           UNCHANGED <<brokerVars, clean_session>>, GetPubrel
    PROVE  InInv'
<1> DEFINE id == Received.id
           comp == Ack("PUBCOMP", Received.id)
<1>1. /\ UNCHANGED HandlerRest /\ UNCHANGED <<delivered, bState>>
      /\ UNCHANGED <<session_init, sock, toClient, accepted>>
      /\ Receiving("PUBREL")
      /\ \E ok \in SendResults : Put(comp, ok)
      /\ session' = RemoveItem(session, id)
  BY DEF GetPubrel, RecvPubrel, brokerVars, HandlerRest
<1>2. /\ Received \in Incoming /\ Received.type = "PUBREL"
      /\ Received \in Frames /\ id \in Ids /\ rx # <<>>
  BY <1>1, ReadKeeps DEF Frames
<1>3. PICK k \in Doubles : BId[k] = id
  BY <1>2 DEF Incoming, FromBroker, Doubles
<1>4. comp \in Frames /\ comp.type = "PUBCOMP" /\ comp.id = id
  BY <1>2 DEF Ack, Frame, Frames, FrameTypes, Msgs
<1>5. TransitKept /\ LinkIn'
  BY <1>1, <1>2, HandlerIn, LinkBusy DEF InInv
<1>6. SoleIn'
  BY <1>1, SoleKept DEF InInv, InFlight
<1>7. k \in Lasting /\ k \notin Singles
  BY DEF Lasting, Doubles, Singles
<1>8. \A m : comp \notin Recs(m) /\ comp \notin Acks("PUBACK", m)
  BY <1>4 DEF Recs, Acks
<1>9. \A m \in Doubles : BId[m] = id =>
        Received \in Rels(m) /\ ~Has(session', Recs(m))
  BY <1>1, <1>2, HeldItem DEF Rels, Acks
<1> HIDE DEF id, comp
<1>10. ASSUME NEW m \in Lasting, ~Peer(k, m) PROVE Quiet(m)
  <2>1. m \in Doubles => comp \notin Comps(m) /\ id # BId[m]
    BY <1>3, <1>4, <1>10 DEF Acks, Comps, Peer, Doubles
  <2>2. bState'[m] = bState[m] /\ delivered'[m] = delivered[m]
    BY <1>1
  <2>3. m \in Doubles => (Has(session', Recs(m)) <=> Has(session, Recs(m)))
    BY <1>1, <2>1, SeqTypes, HeldRemove
  <2>4. /\ Has(toBroker', Acks("PUBACK", m))
           => Has(toBroker, Acks("PUBACK", m))
        /\ Once(toBroker, Acks("PUBACK", m))
           => Once(toBroker', Acks("PUBACK", m))
    BY <1>1, <1>4, <1>8, PutKeeps
  <2>5. m \in Doubles =>
        /\ Has(toBroker', Recs(m)) => Has(toBroker, Recs(m))
        /\ Has(toBroker', Comps(m)) => Has(toBroker, Comps(m))
        /\ Before(toBroker, Recs(m), Comps(m))
           => Before(toBroker', Recs(m), Comps(m))
        /\ Before(toBroker, Comps(m), Recs(m))
           => Before(toBroker', Comps(m), Recs(m))
    BY <1>1, <1>4, <1>8, <2>1, PutKeeps
  <2>6. QED
    BY <1>5, <2>2, <2>3, <2>4, <2>5 DEF TransitKept, Quiet
<1>11. ASSUME NEW m \in Lasting, Peer(k, m) PROVE MessageIn(m)'
  <2>1. m \in Doubles /\ m \notin Singles /\ BId[m] = id
    BY <1>3, <1>11 DEF Peer, Lasting, Singles, Doubles
  <2>2. MessageIn(m) /\ OrderIn(m) /\ SuppressIn(m) /\ ReleaseIn(m)
    BY <2>1 DEF InInv, MessageIn
  <2>3. /\ Once(Transit', Pubs(m))
        /\ Has(Transit', Pubs(m)) => bState'[m] \in {"sent", "released"}
        /\ bState'[m] = "new" => delivered'[m] = 0
        /\ bState'[m] \in {"released", "rerelease", "done"}
           => delivered'[m] > 0
    BY <1>1, <1>5, <2>2 DEF MessageIn, PublishIn, TransitKept
  <2>4. /\ bState'[m] = "sent" => Before(Transit', Rels(m), Pubs(m))
        /\ delivered'[m] > 0 => Before(Transit', Pubs(m), Rels(m))
    BY <1>1, <1>5, <2>2 DEF OrderIn, TransitKept
  <2>5. Has(Transit, Rels(m))
    BY <1>1, <1>9, <2>1, ReadKeeps
  <2>6. delivered[m] > 0 => ~Has(Transit', Pubs(m))
    <3>1. delivered[m] > 0 => ~Has(Transit, Pubs(m))
      BY <1>1, <1>9, <2>1, <2>2, ReadKeeps DEF OrderIn
    <3>2. QED
      BY <1>5, <3>1 DEF TransitKept
  <2>7. bState[m] \in {"sent", "resend"} => ~(delivered[m] > 0)
    BY <2>2, <2>5 DEF SuppressIn
  <2>8. ~Has(session', Recs(m))
    BY <1>9, <2>1
  <2>9. Has(toBroker', Recs(m)) => Has(toBroker, Recs(m))
    BY <1>1, <1>4, <1>8, PutKeeps
  <2>10. Has(session', Recs(m)) \/ Has(toBroker', Recs(m)) =>
           \E n \in Doubles : BId[n] = BId[m] /\ InFlight(n)'
                              /\ delivered'[n] > 0
    BY <1>1, <2>2, <2>8, <2>9 DEF SuppressIn, InFlight
  <2>11. ASSUME bState[m] \in {"sent", "resend"}
         PROVE  Before(toBroker', Comps(m), Recs(m))
    <3>1. ~Has(toBroker, Recs(m))
      <4> SUFFICES ASSUME Has(toBroker, Recs(m)) PROVE FALSE
        OBVIOUS
      <4>1. PICK n \in Doubles : BId[n] = BId[m] /\ InFlight(n)
                                 /\ delivered[n] > 0
        BY <2>2 DEF SuppressIn
      <4>2. n = m
        BY <2>1, <2>11, <4>1, SameFrames DEF InInv, SoleIn, InFlight
      <4>3. QED
        BY <2>7, <2>11, <4>1, <4>2
    <3>2. QED
      BY <1>1, <1>4, <1>8, <2>2, <2>11, <3>1, PutKeeps DEF ReleaseIn
  <2>12. bState[m] \in {"released", "rerelease"}
           => Before(toBroker', Recs(m), Comps(m))
    BY <1>1, <1>4, <1>8, <2>2, PutKeeps DEF ReleaseIn
  <2>13. bState[m] \in {"released", "rerelease"} => delivered[m] > 0
    BY <2>2 DEF MessageIn, PublishIn
  <2>14. delivered'[m] <= 1
    BY <1>1, <2>2 DEF SuppressIn
  <2> HIDE DEF Peer
  <2>15. QED
    BY <1>1, <2>1, <2>3, <2>4, <2>6, <2>7, <2>8, <2>10, <2>11, <2>12, <2>13,
       <2>14, MessageNext
<1>12. QED
  BY <1>1, <1>5, <1>6, <1>7, <1>10, <1>11, PeersStep

(* The session is sent again: PUBREC of what is remembered, and no other   *)
(* frame about a message of the broker.                                    *)
LEMMA GetPingresIn ==
    ASSUME Inv, OutInv, InInv, UNCHANGED <<brokerVars, clean_session>>,
           GetPingres
    PROVE  InInv'
<1>1. /\ UNCHANGED HandlerRest /\ UNCHANGED <<session, delivered, bState>>
      /\ UNCHANGED <<session_init, sock, toClient, accepted>>
      /\ Receiving("PINGRESP") /\ ResendSession
  BY DEF GetPingres, RecvPingres, brokerVars, HandlerRest
<1>2. PICK u \in Seq(Frames) : /\ toBroker' = toBroker \o u
                               /\ \A A : Has(u, A) => Has(session, A)
  BY <1>1, ResentOut
<1>3. /\ \A A : Has(toBroker', A) <=> Has(toBroker, A) \/ Has(u, A)
      /\ \A A, B : /\ Before(toBroker, A, B) /\ Before(u, A, B)
                   /\ ~(Has(toBroker, B) /\ Has(u, A))
                   => Before(toBroker', A, B)
      /\ \A A : Once(toBroker, A) /\ ~Has(u, A) => Once(toBroker', A)
  BY <1>2, SeqTypes, ConcatHas, ConcatOnce
<1>4. ASSUME NEW m PROVE ~Has(u, Acks("PUBACK", m)) /\ ~Has(u, Comps(m))
  <2>1. \A i \in 1..Len(session) : session[i].type \in ItemTypes
    BY DEF OutInv, ItemsOut, Tidy
  <2>2. "PUBACK" \notin ItemTypes /\ "PUBCOMP" \notin ItemTypes
    BY DEF ItemTypes, RequestTypes
  <2>3. ~Has(session, Acks("PUBACK", m)) /\ ~Has(session, Comps(m))
    BY <2>1, <2>2 DEF Has, Acks, Comps
  <2>4. QED
    BY <1>2, <2>3
<1>5. TransitKept /\ LinkIn'
  BY <1>1, HandlerIn, LinkBusy, ReadKeeps DEF InInv
<1>6. SoleIn'
  BY <1>1, SoleKept DEF InInv, InFlight
<1>7. ASSUME NEW m \in Lasting PROVE MessageIn(m)'
  <2>1. MessageIn(m)
    BY DEF InInv
  <2>2. /\ Once(Transit', Pubs(m))
        /\ Has(Transit', Pubs(m)) => bState'[m] \in {"sent", "released"}
        /\ bState'[m] = "new" => delivered'[m] = 0
        /\ bState'[m] \in {"released", "rerelease", "done"}
           => delivered'[m] > 0
    BY <1>1, <1>5, <2>1 DEF MessageIn, PublishIn, TransitKept
  <2>3. ASSUME m \in Singles
        PROVE  /\ Once(toBroker', Acks("PUBACK", m))
               /\ Has(toBroker', Acks("PUBACK", m)) =>
                    \E n \in Singles :
                       /\ BId[n] = BId[m] /\ bState'[n] = "sent"
                       /\ delivered'[n] > 0 /\ ~Has(Transit', Pubs(n))
    <3>1. AckIn(m)
      BY <2>1, <2>3 DEF MessageIn
    <3>2. \A n \in Singles : Has(Transit', Pubs(n)) => Has(Transit, Pubs(n))
      BY <1>5, SameFrames DEF TransitKept
    <3>3. QED
      BY <1>1, <1>3, <1>4, <3>1, <3>2 DEF AckIn
  <2>4. ASSUME m \in Doubles
        PROVE
        /\ bState'[m] = "sent" => Before(Transit', Rels(m), Pubs(m))
        /\ delivered'[m] > 0 => Before(Transit', Pubs(m), Rels(m))
        /\ Has(session', Recs(m)) \/ Has(toBroker', Recs(m)) =>
             \E n \in Doubles : BId[n] = BId[m] /\ InFlight(n)'
                                /\ delivered'[n] > 0
        /\ delivered'[m] > 0 /\ Has(Transit', Pubs(m))
           => Has(session', Recs(m))
        /\ delivered'[m] > 0 /\ bState'[m] \in {"sent", "resend"} =>
             /\ Has(session', Recs(m)) \/ (clean_session' /\ ~accepted')
             /\ ~Has(Transit', Rels(m))
        /\ delivered'[m] <= 1
        /\ bState'[m] \in {"sent", "resend"}
           => Before(toBroker', Comps(m), Recs(m))
        /\ bState'[m] \in {"released", "rerelease"} =>
             /\ Before(toBroker', Recs(m), Comps(m))
             /\ Has(toBroker', Comps(m))
                => ~Has(session', Recs(m)) /\ ~Has(Transit', Pubs(m))
    <3>1. OrderIn(m) /\ SuppressIn(m) /\ ReleaseIn(m)
      BY <2>1, <2>4 DEF MessageIn
    <3>2. /\ Has(Transit', Pubs(m)) => Has(Transit, Pubs(m))
          /\ Has(Transit', Rels(m)) => Has(Transit, Rels(m))
          /\ bState'[m] = "sent" => Before(Transit', Rels(m), Pubs(m))
          /\ delivered'[m] > 0 => Before(Transit', Pubs(m), Rels(m))
      BY <1>1, <1>5, <3>1 DEF OrderIn, TransitKept
    <3>3. Has(toBroker', Recs(m)) => Has(toBroker, Recs(m)) \/ Held(m)
      BY <1>2, <1>3 DEF Held
    <3>4. Has(session', Recs(m)) \/ Has(toBroker', Recs(m)) =>
             \E n \in Doubles : BId[n] = BId[m] /\ InFlight(n)'
                                /\ delivered'[n] > 0
      BY <1>1, <3>1, <3>3 DEF SuppressIn, Held, InFlight
    <3>5. Has(toBroker', Comps(m)) => Has(toBroker, Comps(m))
      BY <1>3, <1>4
    <3>6. Before(u, Comps(m), Recs(m)) /\ Before(u, Recs(m), Comps(m))
      BY <1>4 DEF Has, Before
    <3>7. Before(toBroker, Comps(m), Recs(m))
            => Before(toBroker', Comps(m), Recs(m))
      BY <1>3, <1>4, <3>6
    <3>8. /\ Before(toBroker, Recs(m), Comps(m))
          /\ Has(toBroker, Comps(m)) => ~Held(m)
          => Before(toBroker', Recs(m), Comps(m))
      BY <1>2, <1>3, <3>6 DEF Held
    <3>9. /\ bState'[m] \in {"sent", "resend"}
             => Before(toBroker', Comps(m), Recs(m))
          /\ bState'[m] \in {"released", "rerelease"} =>
               /\ Before(toBroker', Recs(m), Comps(m))
               /\ Has(toBroker', Comps(m))
                  => ~Has(session', Recs(m)) /\ ~Has(Transit', Pubs(m))
      BY <1>1, <3>1, <3>2, <3>5, <3>7, <3>8 DEF ReleaseIn, Held
    <3>10. QED
      BY <1>1, <3>1, <3>2, <3>4, <3>9 DEF SuppressIn, Held
  <2>5. QED
    BY <2>2, <2>3, <2>4, MessageNext
<1>8. QED
  BY <1>5, <1>6, <1>7, SameFrames DEF InInv

-----------------------------------------------------------------------------
(* A new link                                                              *)

(* connect: the link is empty, and the session is emptied only if it is    *)
(* not to be kept or was never used.                                       *)
LEMMA ConnectIn ==
    ASSUME Inv, InInv, UNCHANGED <<brokerVars, clean_session>>, Connect
    PROVE  InInv'
<1>1. /\ UNCHANGED <<delivered, bState, clean_session>>
      /\ rx' = <<>> /\ toClient' = <<>> /\ toBroker' = <<>> /\ ~accepted'
      /\ \/ sock' = "open" /\ InitSession
         \/ sock' = "none" /\ UNCHANGED <<session, session_init>>
  BY DEF Connect, LinkGone, brokerVars
<1>2. Transit' = <<>>
  <2>1. /\ rx' \in Seq(Seq(Incoming) \ {<<>>}) /\ Len(rx') = 0
        /\ toClient' \in Seq(Incoming) /\ Len(toClient') = 0
    BY <1>1, EmptySeq
  <2>2. QED
    BY <2>1, TransitEmpty DEF Transit, Heads
<1>3. \A A, B : /\ ~Has(Transit', A) /\ Once(Transit', A)
                /\ Before(Transit', A, B)
                /\ ~Has(toBroker', A) /\ Once(toBroker', A)
                /\ Before(toBroker', A, B)
  BY <1>1, <1>2, EmptyHas
<1>4. \A m \in Doubles :
         /\ Has(session', Recs(m)) => Held(m)
         /\ sock' = "open" /\ clean_session => ~Has(session', Recs(m))
         /\ Held(m) /\ ~clean_session => Has(session', Recs(m))
  BY <1>1, EmptyHas DEF InitSession, Held, InInv, LinkIn
<1>5. LinkIn'
  <2>1. session_init' /\ ~clean_session =>
          sock' = "none" /\ UNCHANGED <<session, session_init>>
    BY <1>1, Zenon DEF InitSession
  <2>2. session_init' /\ ~clean_session
          => sock' # "open" /\ \A m \in Doubles : ~Has(session', Recs(m))
    BY <2>1 DEF InInv, LinkIn, Held
  <2>3. QED
    BY <1>1, <1>3, <1>4, <2>2, SameFrames DEF LinkIn, Held
<1>6. SoleIn'
  BY <1>1, SoleKept DEF InInv, InFlight
<1>7. ASSUME NEW m \in Lasting PROVE MessageIn(m)'
  <2>1. MessageIn(m)
    BY DEF InInv
  <2>2. /\ bState'[m] = "new" => delivered'[m] = 0
        /\ bState'[m] \in {"released", "rerelease", "done"}
           => delivered'[m] > 0
    BY <1>1, <2>1 DEF MessageIn, PublishIn
  <2>3. ASSUME m \in Doubles
        PROVE  /\ Has(session', Recs(m)) =>
                    \E n \in Doubles : BId[n] = BId[m] /\ InFlight(n)'
                                       /\ delivered'[n] > 0
               /\ delivered'[m] > 0 /\ bState'[m] \in {"sent", "resend"}
                    => Has(session', Recs(m)) \/ (clean_session' /\ ~accepted')
               /\ delivered'[m] <= 1
    BY <1>1, <1>4, <2>1, <2>3 DEF MessageIn, SuppressIn, InFlight
  <2>4. QED
    BY <1>3, <2>2, <2>3, MessageNext
<1>8. QED
  BY <1>5, <1>6, <1>7, SameFrames DEF InInv

(* The broker accepts the link: what was sent will be sent again, or is    *)
(* dropped with the session on both sides.                                 *)
LEMMA BrokerConnectIn ==
    ASSUME Inv, InInv, UNCHANGED clean_session, BrokerConnect
    PROVE  InInv'
<1>1. /\ UNCHANGED <<session, session_init, delivered, rx, sock,
                     clean_session>>
      /\ sock = "open" /\ ~accepted /\ accepted'
      /\ toBroker # <<>> /\ toBroker' = Tail(toBroker)
      /\ toClient' = Append(toClient, Ack("CONNACK", 0))
  BY DEF BrokerConnect, BrokerLeaves, appVars, Reply
<1>2. \A m \in BMsgs : bState'[m] =
        CASE InFlight(m) /\ clean_session -> "dropped"
          [] bState[m] = "sent" /\ ~clean_session -> "resend"
          [] bState[m] = "released" /\ ~clean_session -> "rerelease"
          [] OTHER -> bState[m]
  BY DEF BrokerConnect
<1>3. ASSUME NEW m \in Lasting
      PROVE  /\ ~InFlight(m) => bState'[m] = bState[m]
             /\ InFlight(m) /\ clean_session => bState'[m] = "dropped"
             /\ InFlight(m) /\ ~clean_session => InFlight(m)'
             /\ bState'[m] = "new" => bState[m] = "new"
             /\ bState'[m] \in {"released", "rerelease", "done"}
                => bState[m] \in {"released", "rerelease", "done"}
             /\ bState'[m] \in {"sent", "resend"}
                => bState[m] \in {"sent", "resend"} /\ ~clean_session
             /\ InFlight(m)' => InFlight(m) /\ ~clean_session
  <2>1. m \in BMsgs
    BY DEF Lasting
  <2>2. CASE ~InFlight(m)
    <3>1. bState'[m] = bState[m]
      BY <1>2, <2>1, <2>2 DEF InFlight
    <3>2. QED
      BY <2>2, <3>1 DEF InFlight
  <2>3. CASE InFlight(m) /\ clean_session
    <3>1. bState'[m] = "dropped"
      BY <1>2, <2>1, <2>3
    <3>2. QED
      BY <2>3, <3>1 DEF InFlight
  <2>4. CASE InFlight(m) /\ ~clean_session
    <3>1. bState'[m] = CASE bState[m] = "sent" -> "resend"
                         [] bState[m] = "released" -> "rerelease"
                         [] OTHER -> bState[m]
      BY <1>2, <2>1, <2>4
    <3>2. QED
      BY <2>4, <3>1 DEF InFlight
  <2>5. QED
    BY <2>2, <2>3, <2>4
<1>4. /\ rx = <<>> /\ toClient = <<>>
      /\ \A m \in Lasting, type \in AckTypes : ~Has(toBroker, Acks(type, m))
      /\ clean_session => \A m \in Doubles : ~Held(m)
  BY <1>1 DEF InInv, LinkIn
<1>5. ASSUME NEW m \in Lasting
      PROVE  /\ ~Has(Transit', Pubs(m)) /\ ~Has(Transit', Rels(m))
             /\ \A type \in AckTypes : ~Has(toBroker', Acks(type, m))
  <2>1. Transit = <<>>
    BY <1>4, TransitType, TransitEmpty DEF Transit
  <2>2. Ack("CONNACK", 0) \in Frames /\ Ack("CONNACK", 0).type = "CONNACK"
    BY ClientAssumption DEF Ack, Frame, Frames, FrameTypes, Ids, Msgs
  <2>3. TransitKept
    BY <1>1, <2>2, TransitAnswered
  <2>4. BackKept
    BY <1>1, BackThinned
  <2>5. QED
    BY <1>4, <2>1, <2>3, <2>4, EmptyHas DEF TransitKept, BackKept
<1>6. LinkIn'
  BY <1>1 DEF InInv, LinkIn
<1>7. SoleIn'
  BY <1>3, SoleKept DEF InInv
<1>8. ASSUME NEW m \in Lasting PROVE MessageIn(m)'
  <2>1. MessageIn(m)
    BY DEF InInv
  <2>2. /\ ~Has(toBroker', Acks("PUBACK", m))
        /\ ~Has(toBroker', Recs(m)) /\ ~Has(toBroker', Comps(m))
    BY <1>5 DEF AckTypes, Recs, Comps
  <2>3. /\ Once(Transit', Pubs(m)) /\ Once(toBroker', Acks("PUBACK", m))
        /\ Before(Transit', Rels(m), Pubs(m))
        /\ Before(Transit', Pubs(m), Rels(m))
        /\ Before(toBroker', Recs(m), Comps(m))
        /\ Before(toBroker', Comps(m), Recs(m))
    BY <1>5, <2>2 DEF Has, Once, Before
  <2>4. /\ bState'[m] = "new" => delivered'[m] = 0
        /\ bState'[m] \in {"released", "rerelease", "done"}
           => delivered'[m] > 0
    BY <1>1, <1>3, <2>1 DEF MessageIn, PublishIn
  <2>5. ASSUME m \in Doubles
        PROVE  /\ Has(session', Recs(m)) =>
                    \E n \in Doubles : BId[n] = BId[m] /\ InFlight(n)'
                                       /\ delivered'[n] > 0
               /\ delivered'[m] > 0 /\ bState'[m] \in {"sent", "resend"}
                    => Has(session', Recs(m))
               /\ delivered'[m] <= 1
    <3>1. SuppressIn(m) /\ (Has(session', Recs(m)) <=> Held(m))
      BY <1>1, <2>1, <2>5 DEF MessageIn, Held
    <3>2. \A n \in Doubles : InFlight(n) /\ ~clean_session => InFlight(n)'
      BY <1>3, SameFrames
    <3>3. Held(m) => ~clean_session
      BY <1>4, <2>5
    <3>4. Has(session', Recs(m)) =>
            \E n \in Doubles : BId[n] = BId[m] /\ InFlight(n)'
                               /\ delivered'[n] > 0
      BY <1>1, <3>1, <3>2, <3>3 DEF SuppressIn
    <3>5. QED
      BY <1>1, <1>3, <3>1, <3>4 DEF SuppressIn
  <2>6. QED
    BY <1>5, <2>2, <2>3, <2>4, <2>5, MessageNext
<1>9. QED
  BY <1>6, <1>7, <1>8, SameFrames DEF InInv

-----------------------------------------------------------------------------
(* The broker takes an acknowledgement                                     *)

(* What taking a frame leaves alone, and what it says of the link. *)
LEMMA TakesKeeps ==
    ASSUME Inv, InInv, NEW type, Takes(type), UNCHANGED clean_session
    PROVE  /\ UNCHANGED <<session, session_init, delivered, rx, sock, accepted,
                          clean_session>>
           /\ accepted /\ LinkIn' /\ BackKept
           /\ Taken \in Outgoing /\ Taken \in Frames /\ Taken.id \in Ids
           /\ Taken.type = type
           /\ \A A : Taken \in A => Has(toBroker, A)
           /\ \A A : Has(toBroker', A) => Has(toBroker, A)
           /\ \A A : Once(toBroker, A) => Once(toBroker', A)
           /\ \A A : Once(toBroker, A) /\ Taken \in A => ~Has(toBroker', A)
           /\ \A A, B : Before(toBroker, A, B) => Before(toBroker', A, B)
           /\ \A A, B : Before(toBroker, A, B) /\ Taken \in B
                        => ~Has(toBroker, A)
<1>1. /\ UNCHANGED <<session, session_init, delivered, rx, sock, accepted,
                     clean_session>>
      /\ accepted /\ sock = "open"
      /\ toBroker # <<>> /\ toBroker' = Tail(toBroker)
      /\ Taken = Head(toBroker) /\ Taken.type = type
  BY DEF Takes, BrokerLeaves, appVars, Taken
<1>2. Taken \in Outgoing /\ Taken \in Frames /\ Taken.id \in Ids
  BY <1>1, HeadTailProperties DEF Inv, LinkInv, Outgoing, Frames
<1>3. LinkIn' /\ BackKept
  BY <1>1, LinkBusy, BackThinned DEF InInv
<1>4. toBroker \in Seq(Frames)
  BY SeqTypes
<1>5. QED
  BY <1>1, <1>2, <1>3, <1>4, TakeHead

(* The message an acknowledgement is for is the one in flight. *)
LEMMA OneAcknowledged ==
    ASSUME InInv, NEW k \in Lasting, InFlight(k)
    PROVE  /\ Acknowledged(BId[k], BQos[k]) = {k}
           /\ \A m \in Lasting : Peer(k, m) /\ m # k => ~InFlight(m)
<1>1. \A m \in Lasting : InFlight(m) /\ BId[m] = BId[k] => m = k
  BY DEF InInv, SoleIn
<1>2. BQos[k] > 0 /\ k \in BMsgs
  BY DEF Lasting
<1>3. \A m \in BMsgs : BQos[m] = BQos[k] => m \in Lasting
  BY <1>2 DEF Lasting
<1>4. Acknowledged(BId[k], BQos[k]) = {k}
  BY <1>1, <1>2, <1>3 DEF Acknowledged
<1>5. QED
  BY <1>1, <1>4 DEF Peer

(* PUBACK ends the exchange of the one message it is for. *)
LEMMA BrokerTakePubackIn ==
    ASSUME Inv, InInv, UNCHANGED clean_session, BrokerTakePuback
    PROVE  InInv'
<1>1. /\ Takes("PUBACK") /\ UNCHANGED toClient
      /\ Becomes(Acknowledged(Taken.id, 1), "done")
  BY DEF BrokerTakePuback
<1>2. /\ Taken.type = "PUBACK" /\ Taken \in Frames
      /\ FromBroker(Taken.id, 1)
  BY <1>1, TakesKeeps DEF Outgoing
<1>3. PICK j \in Singles : BId[j] = Taken.id
  BY <1>2 DEF FromBroker, Singles
<1>4. Taken \in Acks("PUBACK", j)
  BY <1>2, <1>3 DEF Acks
<1>5. PICK k \in Singles : /\ BId[k] = Taken.id /\ bState[k] = "sent"
                           /\ delivered[k] > 0 /\ ~Has(Transit, Pubs(k))
  <2>1. Has(toBroker, Acks("PUBACK", j))
    BY <1>1, <1>4, TakesKeeps
  <2>2. QED
    BY <1>3, <2>1, SameFrames DEF InInv, MessageIn, AckIn
<1>6. k \in Lasting /\ k \in BMsgs /\ BQos[k] = 1 /\ k \notin Doubles
  BY DEF Singles, Lasting, Doubles
<1>7. Acks("PUBACK", j) = Acks("PUBACK", k)
  BY <1>3, <1>5 DEF Acks
<1>8. ~Has(toBroker', Acks("PUBACK", k))
  <2>1. Once(toBroker, Acks("PUBACK", k))
    BY <1>6, SameFrames DEF InInv, MessageIn, AckIn
  <2>2. QED
    BY <1>1, <1>4, <1>7, <2>1, TakesKeeps
<1>9. /\ Acknowledged(Taken.id, 1) = {k}
      /\ \A m \in Lasting : Peer(k, m) /\ m # k => ~InFlight(m)
  BY <1>5, <1>6, OneAcknowledged DEF InFlight
<1>10. bState' = [m \in BMsgs |-> IF m = k THEN "done" ELSE bState[m]]
  BY <1>1, <1>9 DEF Becomes
<1>11. UNCHANGED <<session, delivered, rx, toClient, accepted>> /\ BackKept
  BY <1>1, TakesKeeps
<1>12. Transit' = Transit
  BY <1>11 DEF Transit, Heads
<1>13. SoleIn'
  BY <1>10, SoleKept DEF InInv, InFlight, Lasting
<1>14. ASSUME NEW m \in Lasting, ~Peer(k, m) PROVE Quiet(m)
  <2>1. m # k /\ m \in BMsgs
    BY <1>14 DEF Peer, Lasting
  <2>2. {"PUBACK", "PUBREC", "PUBCOMP"} = AckTypes
    BY DEF AckTypes
  <2>3. QED
    BY <1>10, <1>11, <1>12, <2>1, <2>2 DEF BackKept, Quiet, Recs, Comps
<1>15. ASSUME NEW m \in Lasting, Peer(k, m) PROVE MessageIn(m)'
  <2>1. m \in Singles /\ m \notin Doubles /\ m \in BMsgs /\ BId[m] = BId[k]
    BY <1>6, <1>15 DEF Peer, Singles, Doubles, Lasting
  <2>2. Acks("PUBACK", m) = Acks("PUBACK", k)
    BY <2>1 DEF Acks
  <2>3. Once(toBroker', Acks("PUBACK", m))
        /\ ~Has(toBroker', Acks("PUBACK", m))
    BY <1>8, <2>2 DEF Has, Once
  <2>4. CASE m = k
    <3>1. Once(Transit', Pubs(m)) /\ ~Has(Transit', Pubs(m))
      BY <1>5, <1>12, <2>4 DEF Has, Once
    <3>2. bState'[m] = "done" /\ delivered'[m] > 0
      BY <1>5, <1>10, <1>11, <2>1, <2>4
    <3>3. QED
      BY <2>1, <2>3, <3>1, <3>2, MessageNext
  <2>5. CASE m # k
    <3>1. ~InFlight(m)
      BY <1>9, <1>15, <2>5
    <3>2. bState'[m] = bState[m] /\ delivered'[m] = delivered[m]
      BY <1>10, <1>11, <2>1, <2>5
    <3>3. QED
      BY <1>12, <2>1, <2>3, <3>1, <3>2, RestingPeer
  <2>6. QED
    BY <2>4, <2>5
<1>16. QED
  BY <1>1, <1>6, <1>11, <1>13, <1>14, <1>15, PeersStep, TakesKeeps

(* What a frame sent adds. *)
LEMMA TransitSent ==
    ASSUME Inv, NEW f \in Frames, UNCHANGED rx,
           toClient' = Append(toClient, f)
    PROVE  /\ \A A : Has(Transit', A) <=> Has(Transit, A) \/ f \in A
           /\ \A A : Once(Transit, A) /\ (f \in A => ~Has(Transit, A))
                     => Once(Transit', A)
           /\ \A A, B : /\ Before(Transit, A, B)
                        /\ f \in A => ~Has(Transit, B)
                        /\ ~(f \in A /\ f \in B)
                        => Before(Transit', A, B)
<1>1. Transit \in Seq(Frames) /\ Transit' = Append(Transit, f)
  BY TransitType, SendTransit
<1> DEFINE s == Transit
           t == Append(s, f)
<1>2. /\ \A A : Has(t, A) <=> Has(s, A) \/ f \in A
      /\ \A A : Once(s, A) /\ (f \in A => ~Has(s, A)) => Once(t, A)
      /\ \A A, B : /\ Before(s, A, B) /\ (f \in A => ~Has(s, B))
                   /\ ~(f \in A /\ f \in B)
                   => Before(t, A, B)
  <2>1. s \in Seq(Frames)
    BY <1>1
  <2> HIDE DEF s
  <2>2. QED
    BY <2>1, AppendHas
<1>3. QED
  BY <1>1, <1>2, Zenon

(* PUBREC is of a message that was delivered: PUBREL answers it. *)
LEMMA BrokerTakePubrecIn ==
    ASSUME Inv, InInv, UNCHANGED clean_session, BrokerTakePubrec
    PROVE  InInv'
<1> DEFINE id == Taken.id
           rel == Ack("PUBREL", id)
<1>1. /\ Takes("PUBREC")
      /\ Becomes(Acknowledged(id, 2), "released")
      /\ Acknowledged(id, 2) # {} => toClient' = Append(toClient, rel)
  BY DEF BrokerTakePubrec, Reply
<1>2. /\ Taken.type = "PUBREC" /\ Taken \in Frames /\ id \in Ids
      /\ FromBroker(id, 2)
  BY <1>1, TakesKeeps DEF Outgoing
<1>3. PICK j \in Doubles : BId[j] = id
  BY <1>2 DEF FromBroker, Doubles
<1>4. Taken \in Recs(j)
  BY <1>2, <1>3 DEF Acks, Recs
<1>5. PICK k \in Doubles : BId[k] = id /\ InFlight(k) /\ delivered[k] > 0
  <2>1. Has(toBroker, Recs(j))
    BY <1>1, <1>4, TakesKeeps
  <2>2. QED
    BY <1>3, <2>1, SameFrames DEF InInv, MessageIn, SuppressIn
<1>6. k \in Lasting /\ k \in BMsgs /\ BQos[k] = 2 /\ k \notin Singles
  BY DEF Singles, Lasting, Doubles
<1>7. Taken \in Recs(k)
  BY <1>2, <1>5 DEF Acks, Recs
<1>8. /\ Acknowledged(id, 2) = {k}
      /\ \A m \in Lasting : Peer(k, m) /\ m # k => ~InFlight(m)
  BY <1>5, <1>6, OneAcknowledged
<1>9. bState' = [m \in BMsgs |-> IF m = k THEN "released" ELSE bState[m]]
  BY <1>1, <1>8 DEF Becomes
<1>10. UNCHANGED <<session, delivered, rx, accepted>> /\ BackKept
  BY <1>1, TakesKeeps
<1>11. rel \in Frames /\ rel.type = "PUBREL" /\ rel.id = id
  BY <1>2 DEF Ack, Frame, Frames, FrameTypes, Msgs
<1>12. toClient' = Append(toClient, rel)
  BY <1>1, <1>8
<1>13. /\ \A A : Has(Transit', A) <=> Has(Transit, A) \/ rel \in A
       /\ \A A : Once(Transit, A) /\ rel \notin A => Once(Transit', A)
       /\ \A A, B : /\ Before(Transit, A, B) /\ rel \notin A
                    => Before(Transit', A, B)
       /\ \A m : rel \notin Pubs(m)
  <2>1. \A m : rel \notin Pubs(m)
    BY <1>11 DEF Pubs
  <2> HIDE DEF rel
  <2>2. /\ \A A : Has(Transit', A) <=> Has(Transit, A) \/ rel \in A
        /\ \A A : Once(Transit, A) /\ (rel \in A => ~Has(Transit, A))
                  => Once(Transit', A)
        /\ \A A, B : /\ Before(Transit, A, B)
                     /\ rel \in A => ~Has(Transit, B)
                     /\ ~(rel \in A /\ rel \in B)
                     => Before(Transit', A, B)
    BY <1>10, <1>11, <1>12, TransitSent
  <2>3. QED
    BY <2>1, <2>2
<1>14. MessageIn(k) /\ OrderIn(k) /\ SuppressIn(k) /\ ReleaseIn(k)
  BY <1>6 DEF InInv, MessageIn
<1>15. SoleIn'
  BY <1>5, <1>9, SoleKept DEF InInv, InFlight, Lasting
<1> HIDE DEF id, rel
<1>16. ASSUME NEW m \in Lasting, ~Peer(k, m) PROVE Quiet(m)
  <2>1. m # k /\ m \in BMsgs
    BY <1>16 DEF Peer, Lasting
  <2>2. {"PUBACK", "PUBREC", "PUBCOMP"} = AckTypes
    BY DEF AckTypes
  <2>3. m \in Doubles => rel \notin Rels(m)
    BY <1>5, <1>11, <1>16 DEF Peer, Doubles, Rels, Acks
  <2>4. bState'[m] = bState[m] /\ delivered'[m] = delivered[m]
    BY <1>9, <1>10, <2>1
  <2>5. /\ Has(Transit', Pubs(m)) => Has(Transit, Pubs(m))
        /\ Once(Transit, Pubs(m)) => Once(Transit', Pubs(m))
        /\ m \in Doubles =>
             /\ Has(Transit', Rels(m)) => Has(Transit, Rels(m))
             /\ Before(Transit, Pubs(m), Rels(m))
                => Before(Transit', Pubs(m), Rels(m))
             /\ Before(Transit, Rels(m), Pubs(m))
                => Before(Transit', Rels(m), Pubs(m))
    BY <1>13, <2>3
  <2>6. QED
    BY <1>10, <2>2, <2>4, <2>5 DEF BackKept, Quiet, Recs, Comps
<1>17. ASSUME NEW m \in Lasting, Peer(k, m) PROVE MessageIn(m)'
  <2>1. m \in Doubles /\ m \notin Singles /\ m \in BMsgs /\ BId[m] = BId[k]
    BY <1>6, <1>17 DEF Peer, Singles, Doubles, Lasting
  <2>2. \E n \in Doubles : BId[n] = BId[m] /\ InFlight(n)'
                           /\ delivered'[n] > 0
    BY <1>5, <1>6, <1>9, <1>10, <2>1 DEF InFlight
  <2>3. CASE m = k
    <3>1. bState'[k] = "released" /\ delivered'[k] = delivered[k]
      BY <1>6, <1>9, <1>10
    <3>2. Once(Transit', Pubs(k))
      BY <1>13, <1>14 DEF MessageIn, PublishIn
    <3>3. Before(Transit', Pubs(k), Rels(k))
      BY <1>5, <1>13, <1>14 DEF OrderIn
    <3>4. Has(Transit', Pubs(k)) => Has(session', Recs(k))
      BY <1>5, <1>10, <1>13, <1>14 DEF SuppressIn, Held
    <3>5. Before(toBroker', Recs(k), Comps(k))
      <4>1. CASE bState[k] \in {"sent", "resend"}
        <5>1. ~Has(toBroker, Comps(k))
          BY <1>1, <1>7, <1>14, <4>1, TakesKeeps DEF ReleaseIn
        <5>2. QED
          BY <1>1, <5>1, TakesKeeps DEF Has, Before
      <4>2. CASE bState[k] \in {"released", "rerelease"}
        BY <1>1, <1>14, <4>2, TakesKeeps DEF ReleaseIn
      <4>3. QED
        BY <1>5, <4>1, <4>2 DEF InFlight
    <3>6. Has(toBroker', Comps(k))
            => ~Has(session', Recs(k)) /\ ~Has(Transit', Pubs(k))
      <4>1. Has(toBroker', Comps(k)) => Has(toBroker, Comps(k))
        BY <1>1, TakesKeeps
      <4>2. CASE bState[k] \in {"sent", "resend"}
        <5>1. ~Has(toBroker, Comps(k))
          BY <1>1, <1>7, <1>14, <4>2, TakesKeeps DEF ReleaseIn
        <5>2. QED
          BY <4>1, <5>1
      <4>3. CASE bState[k] \in {"released", "rerelease"}
        BY <1>10, <1>13, <1>14, <4>1, <4>3 DEF ReleaseIn, Held
      <4>4. QED
        BY <1>5, <4>2, <4>3 DEF InFlight
    <3>7. delivered'[k] > 0 /\ delivered'[k] <= 1
      BY <1>5, <1>14, <3>1 DEF SuppressIn
    <3>8. QED
      BY <2>1, <2>2, <2>3, <3>1, <3>2, <3>3, <3>4, <3>5, <3>6, <3>7,
         MessageNext
  <2>4. CASE m # k
    <3>1. ~InFlight(m)
      BY <1>8, <1>17, <2>4
    <3>2. bState'[m] = bState[m] /\ delivered'[m] = delivered[m]
      BY <1>9, <1>10, <2>1, <2>4
    <3>3. Has(Transit', Pubs(m)) => Has(Transit, Pubs(m))
      BY <1>13
    <3>4. QED
      BY <2>1, <2>2, <3>1, <3>2, <3>3, RestingPeer
  <2>5. QED
    BY <2>3, <2>4
<1>18. QED
  BY <1>1, <1>6, <1>10, <1>15, <1>16, <1>17, PeersStep, TakesKeeps

(* PUBCOMP ends an exchange, of which nothing is left, or is late. *)
LEMMA BrokerTakePubcompIn ==
    ASSUME Inv, InInv, UNCHANGED clean_session, BrokerTakePubcomp
    PROVE  InInv'
<1> DEFINE id == Taken.id
           S == {m \in Acknowledged(id, 2) :
                   bState[m] \in {"released", "rerelease"}}
<1>1. /\ Takes("PUBCOMP") /\ UNCHANGED toClient /\ Becomes(S, "done")
  BY DEF BrokerTakePubcomp
<1>2. /\ UNCHANGED <<session, session_init, delivered, rx, toClient, accepted,
                     sock>>
      /\ BackKept /\ accepted /\ LinkIn'
  BY <1>1, TakesKeeps
<1>3. Transit' = Transit
  BY <1>2 DEF Transit, Heads
<1>4. bState' = [m \in BMsgs |-> IF m \in S THEN "done" ELSE bState[m]]
  BY <1>1 DEF Becomes
<1>5. SoleIn'
  BY <1>4, SoleKept DEF InInv, InFlight, Lasting
<1> HIDE DEF S
<1>6. CASE S = {}
  <2>1. \A m \in Lasting : bState'[m] = bState[m]
    BY <1>4, <1>6 DEF Lasting
  <2>2. HeldKept /\ StatesKept /\ TransitKept /\ LinkKept
    BY <1>2, <1>3, <2>1 DEF HeldKept, StatesKept, TransitKept, LinkKept
  <2>3. QED
    BY <1>2, <2>2, QuietStep
<1>7. CASE S # {}
  <2>1. PICK k \in BMsgs : /\ InFlight(k) /\ BId[k] = id /\ BQos[k] = 2
                           /\ bState[k] \in {"released", "rerelease"}
                           /\ k \in S
    BY <1>7 DEF S, Acknowledged
  <2>2. k \in Doubles /\ k \in Lasting /\ k \notin Singles
    BY <2>1 DEF Doubles, Lasting, Singles
  <2>3. Acknowledged(id, 2) = {k}
        /\ \A m \in Lasting : Peer(k, m) /\ m # k => ~InFlight(m)
    BY <2>1, <2>2, OneAcknowledged
  <2>4. S = {k}
    BY <2>1, <2>3 DEF S
  <2>5. bState' = [m \in BMsgs |-> IF m = k THEN "done" ELSE bState[m]]
    BY <1>4, <2>4
  <2>6. MessageIn(k) /\ OrderIn(k) /\ SuppressIn(k) /\ ReleaseIn(k)
        /\ delivered[k] > 0
    BY <2>1, <2>2 DEF InInv, MessageIn, PublishIn
  <2>7. Taken \in Comps(k)
    BY <1>1, <2>1, TakesKeeps DEF Comps, Acks
  <2>8. ~Has(toBroker, Recs(k)) /\ ~Held(k) /\ ~Has(Transit, Pubs(k))
    BY <1>1, <2>1, <2>6, <2>7, TakesKeeps DEF ReleaseIn
  <2>9. ~Has(toBroker', Recs(k)) /\ ~Has(session', Recs(k))
        /\ ~Has(Transit', Pubs(k))
    <3>1. Has(toBroker', Recs(k)) => Has(toBroker, Recs(k))
      BY <1>1, TakesKeeps
    <3>2. QED
      BY <1>2, <1>3, <2>8, <3>1 DEF Held
  <2>10. ASSUME NEW m \in Lasting, ~Peer(k, m) PROVE Quiet(m)
    <3>1. m # k /\ m \in BMsgs
      BY <2>10 DEF Peer, Lasting
    <3>2. {"PUBACK", "PUBREC", "PUBCOMP"} = AckTypes
      BY DEF AckTypes
    <3>3. QED
      BY <1>2, <1>3, <2>5, <3>1, <3>2 DEF BackKept, Quiet, Recs, Comps
  <2>11. ASSUME NEW m \in Lasting, Peer(k, m) PROVE MessageIn(m)'
    <3>1. m \in Doubles /\ m \notin Singles /\ m \in BMsgs
          /\ BId[m] = BId[k]
      BY <2>1, <2>11 DEF Peer, Singles, Doubles, Lasting
    <3>2. Recs(m) = Recs(k)
      BY <3>1 DEF Recs, Acks
    <3>3. CASE m = k
      <4>1. Once(Transit', Pubs(m))
        BY <1>3, <2>6, <3>3 DEF MessageIn, PublishIn
      <4>2. Before(Transit', Pubs(m), Rels(m))
        BY <1>3, <2>6, <3>3 DEF OrderIn
      <4>3. bState'[m] = "done" /\ delivered'[m] > 0 /\ delivered'[m] <= 1
        BY <1>2, <2>1, <2>5, <2>6, <3>3 DEF SuppressIn
      <4>4. QED
        BY <2>9, <3>1, <3>3, <4>1, <4>2, <4>3, MessageNext
    <3>4. CASE m # k
      <4>1. ~InFlight(m)
        BY <2>3, <2>11, <3>4
      <4>2. bState'[m] = bState[m] /\ delivered'[m] = delivered[m]
        BY <1>2, <2>5, <3>1, <3>4
      <4>3. QED
        BY <1>3, <2>9, <3>1, <3>2, <4>1, <4>2, RestingPeer
    <3>5. QED
      BY <3>3, <3>4
  <2>12. QED
    BY <1>2, <1>5, <2>2, <2>10, <2>11, PeersStep
<1>8. QED
  BY <1>6, <1>7

-----------------------------------------------------------------------------
(* The broker sends                                                        *)

(* A message is sent when its id is free, or again on a new link: then it  *)
(* was not delivered, or the client remembers it.                          *)
LEMMA BrokerPublishIn ==
    ASSUME Inv, InInv, UNCHANGED clean_session,
           NEW k \in Lasting, BrokerPublish(k)
    PROVE  InInv'
<1> DEFINE f == Frame("PUBLISH", BId[k], k)
<1>1. /\ UNCHANGED <<session, session_init, delivered, rx, sock, accepted,
                     toBroker>>
      /\ sock = "open" /\ accepted /\ toClient' = Append(toClient, f)
      /\ \/ /\ bState[k] = "new"
            /\ \A n \in BMsgs \ {k} : BId[n] = BId[k] => ~InFlight(n)
         \/ bState[k] = "resend"
      /\ bState' = [m \in BMsgs |-> IF m = k THEN "sent" ELSE bState[m]]
  BY DEF BrokerPublish, BrokerLeaves, appVars, Becomes, Lasting
<1>2. k \in BMsgs /\ BQos[k] \in {1, 2}
  BY ClientAssumption DEF Lasting
<1>3. f \in Frames /\ f.type = "PUBLISH" /\ f.msg = k
  BY <1>2, ClientAssumption DEF Frame, Frames, FrameTypes, Msgs, Ids
<1>4. /\ f \in Pubs(k) /\ \A m : m # k => f \notin Pubs(m)
      /\ \A m : f \notin Rels(m)
  BY <1>3 DEF Pubs, Rels, Acks
<1> HIDE DEF f
<1>5. /\ \A A : Has(Transit', A) <=> Has(Transit, A) \/ f \in A
      /\ \A A : Once(Transit, A) /\ (f \in A => ~Has(Transit, A))
                => Once(Transit', A)
      /\ \A A, B : /\ Before(Transit, A, B)
                   /\ f \in A => ~Has(Transit, B)
                   /\ ~(f \in A /\ f \in B)
                   => Before(Transit', A, B)
  BY <1>1, <1>3, TransitSent
<1>6. MessageIn(k)
  BY DEF InInv
<1>7. ~Has(Transit, Pubs(k))
  BY <1>1, <1>6 DEF MessageIn, PublishIn
<1>8. ASSUME NEW m \in Lasting, m # k, BId[m] = BId[k] PROVE ~InFlight(m)
  BY <1>1, <1>8 DEF InInv, SoleIn, InFlight, Lasting
<1>9. \A m \in Lasting : InFlight(m) => InFlight(m)'
  BY <1>1 DEF InFlight, Lasting
<1>10. SoleIn'
  <2>1. ASSUME NEW m \in Lasting, NEW n \in Lasting,
               InFlight(m)', InFlight(n)', BId[m] = BId[n]
        PROVE  m = n
    <3>1. /\ m # k => InFlight(m)
          /\ n # k => InFlight(n)
      BY <1>1, <2>1 DEF InFlight, Lasting
    <3>2. QED
      BY <1>8, <2>1, <3>1 DEF InInv, SoleIn
  <2>2. QED
    BY <2>1, SameFrames DEF SoleIn
<1>11. LinkIn'
  BY <1>1, LinkBusy DEF InInv
<1>12. ASSUME NEW m \in Lasting, ~Peer(k, m) PROVE Quiet(m)
  <2>1. m # k /\ m \in BMsgs
    BY <1>12 DEF Peer, Lasting
  <2>2. QED
    BY <1>1, <1>4, <1>5, <2>1 DEF Quiet
<1>13. ASSUME NEW m \in Lasting, Peer(k, m) PROVE MessageIn(m)'
  <2>1. BId[m] = BId[k] /\ m \in BMsgs /\ BQos[m] = BQos[k]
    BY <1>13 DEF Peer, Lasting
  <2>2. MessageIn(m)
    BY DEF InInv
  <2>3. m \in Doubles =>
          (Has(session', Recs(m)) \/ Has(toBroker', Recs(m)) =>
             \E n \in Doubles : BId[n] = BId[m] /\ InFlight(n)'
                                /\ delivered'[n] > 0)
    <3>1. ASSUME m \in Doubles, Held(m) \/ Has(toBroker, Recs(m))
          PROVE  \E n \in Doubles : BId[n] = BId[m] /\ InFlight(n)
                                    /\ delivered[n] > 0
      BY <2>2, <3>1 DEF MessageIn, SuppressIn
    <3>2. QED
      BY <1>1, <1>9, <3>1, SameFrames DEF Held
  <2>4. m \in Singles => ~Has(toBroker', Acks("PUBACK", m))
    <3> SUFFICES ASSUME m \in Singles, Has(toBroker, Acks("PUBACK", m))
                 PROVE  FALSE
      BY <1>1
    <3>1. PICK n \in Singles : BId[n] = BId[m] /\ bState[n] = "sent"
      BY <2>2 DEF MessageIn, AckIn
    <3>2. n \in Lasting /\ InFlight(n)
      BY <3>1, SameFrames DEF InFlight
    <3>3. n = k
      BY <1>8, <2>1, <3>1, <3>2
    <3>4. QED
      BY <1>1, <3>1, <3>3
  <2>5. m \in Singles =>
          ~Has(toBroker', Acks("PUBACK", m))
          /\ Once(toBroker', Acks("PUBACK", m))
    BY <2>4 DEF Has, Once
  <2>6. CASE m = k
    <3>1. bState'[m] = "sent" /\ delivered'[m] = delivered[m]
      BY <1>1, <1>2, <2>6
    <3>2. Once(Transit', Pubs(m))
      BY <1>5, <1>6, <1>7, <2>6 DEF MessageIn, PublishIn
    <3>3. Before(Transit', Rels(m), Pubs(m))
      <4>1. Before(Transit, Rels(m), Pubs(m))
        BY <1>7, <2>6 DEF Has, Before
      <4>2. QED
        BY <1>4, <1>5, <4>1
    <3>4. ASSUME m \in Doubles
          PROVE  /\ delivered[m] > 0 => Held(m) /\ ~Has(Transit, Rels(m))
                 /\ delivered[m] <= 1
                 /\ Before(toBroker, Comps(m), Recs(m))
      <4>1. SuppressIn(m) /\ ReleaseIn(m) /\ PublishIn(m)
        BY <2>2, <3>4 DEF MessageIn
      <4>2. CASE bState[k] = "resend"
        BY <1>1, <2>6, <4>1, <4>2 DEF SuppressIn, ReleaseIn
      <4>3. CASE /\ bState[k] = "new"
                 /\ \A n \in BMsgs \ {k} : BId[n] = BId[k] => ~InFlight(n)
        <5>1. ~Has(toBroker, Recs(m))
          <6> SUFFICES ASSUME Has(toBroker, Recs(m)) PROVE FALSE
            OBVIOUS
          <6>1. PICK n \in Doubles : BId[n] = BId[m] /\ InFlight(n)
            BY <4>1 DEF SuppressIn
          <6>2. n \in BMsgs /\ n # k
            BY <4>3, <6>1 DEF InFlight, Doubles
          <6>3. QED
            BY <2>1, <4>3, <6>1, <6>2
        <5>2. Before(toBroker, Comps(m), Recs(m))
          BY <5>1 DEF Has, Before
        <5>3. delivered[m] = 0
          BY <2>6, <4>1, <4>3 DEF PublishIn
        <5>4. QED
          BY <5>2, <5>3
      <4>4. QED
        BY <1>1, <4>2, <4>3
    <3>5. m \in Doubles =>
            /\ delivered[m] > 0 =>
                 /\ Has(session', Recs(m)) /\ ~Has(Transit', Rels(m))
                 /\ Before(Transit', Pubs(m), Rels(m))
            /\ Before(toBroker', Comps(m), Recs(m))
      <4>1. Has(Transit', Rels(m)) => Has(Transit, Rels(m))
        BY <1>4, <1>5
      <4>2. ~Has(Transit', Rels(m)) => Before(Transit', Pubs(m), Rels(m))
        BY DEF Has, Before
      <4>3. QED
        BY <1>1, <3>4, <4>1, <4>2 DEF Held
    <3>6. QED
      BY <2>3, <2>5, <3>1, <3>2, <3>3, <3>4, <3>5, MessageNext
  <2>7. CASE m # k
    <3>1. ~InFlight(m)
      BY <1>8, <2>1, <2>7
    <3>2. bState'[m] = bState[m] /\ delivered'[m] = delivered[m]
      BY <1>1, <2>1, <2>7
    <3>3. Has(Transit', Pubs(m)) => Has(Transit, Pubs(m))
      BY <1>4, <1>5, <2>7
    <3>4. QED
      BY <2>3, <2>5, <3>1, <3>2, <3>3, RestingPeer
  <2>8. QED
    BY <2>6, <2>7
<1>14. QED
  BY <1>1, <1>10, <1>11, <1>12, <1>13, PeersStep

(* PUBREL is sent again on a new link. *)
LEMMA BrokerReleaseIn ==
    ASSUME Inv, InInv, UNCHANGED clean_session,
           NEW k \in BMsgs, BrokerRelease(k)
    PROVE  InInv'
<1> DEFINE f == Ack("PUBREL", BId[k])
<1>1. /\ UNCHANGED <<session, session_init, delivered, rx, sock, accepted,
                     toBroker>>
      /\ sock = "open" /\ accepted /\ toClient' = Append(toClient, f)
      /\ bState[k] = "rerelease"
      /\ bState' = [m \in BMsgs |-> IF m = k THEN "released" ELSE bState[m]]
  BY DEF BrokerRelease, BrokerLeaves, appVars, Becomes, Reply
<1>2. k \in Doubles /\ k \in Lasting /\ k \notin Singles
  BY <1>1 DEF Inv, BrokerInv, Deliveries, Doubles, Lasting, Singles
<1>3. f \in Frames /\ f.type = "PUBREL" /\ f.id = BId[k]
  BY ClientAssumption DEF Ack, Frame, Frames, FrameTypes, Msgs, Ids
<1>4. /\ \A m : f \notin Pubs(m)
      /\ \A m : BId[m] # BId[k] => f \notin Rels(m)
  BY <1>3 DEF Pubs, Rels, Acks
<1> HIDE DEF f
<1>5. /\ \A A : Has(Transit', A) <=> Has(Transit, A) \/ f \in A
      /\ \A A : Once(Transit, A) /\ (f \in A => ~Has(Transit, A))
                => Once(Transit', A)
      /\ \A A, B : /\ Before(Transit, A, B)
                   /\ f \in A => ~Has(Transit, B)
                   /\ ~(f \in A /\ f \in B)
                   => Before(Transit', A, B)
  BY <1>1, <1>3, TransitSent
<1>6. MessageIn(k) /\ SuppressIn(k) /\ ReleaseIn(k) /\ PublishIn(k)
  BY <1>2 DEF InInv, MessageIn
<1>7. ~Has(Transit, Pubs(k)) /\ ~Has(Transit', Pubs(k))
  BY <1>1, <1>4, <1>5, <1>6 DEF PublishIn
<1>8. \A m \in Lasting : Peer(k, m) /\ m # k => ~InFlight(m)
  BY <1>1, <1>2, OneAcknowledged DEF InFlight
<1>9. \A m \in Lasting : InFlight(m)' <=> InFlight(m)
  BY <1>1 DEF InFlight, Lasting
<1>10. SoleIn' /\ LinkIn'
  BY <1>1, <1>9, SoleKept, LinkBusy DEF InInv
<1>11. ASSUME NEW m \in Lasting, ~Peer(k, m) PROVE Quiet(m)
  <2>1. m # k /\ m \in BMsgs
    BY <1>11 DEF Peer, Lasting
  <2>2. m \in Doubles => f \notin Rels(m)
    BY <1>2, <1>4, <1>11 DEF Peer, Doubles
  <2>3. QED
    BY <1>1, <1>4, <1>5, <2>1, <2>2 DEF Quiet
<1>12. ASSUME NEW m \in Lasting, Peer(k, m) PROVE MessageIn(m)'
  <2>1. /\ m \in Doubles /\ m \notin Singles /\ m \in BMsgs
        /\ BId[m] = BId[k]
    BY <1>2, <1>12 DEF Peer, Singles, Doubles, Lasting
  <2>2. SuppressIn(m)
    BY <2>1 DEF InInv, MessageIn
  <2>3. Has(session', Recs(m)) \/ Has(toBroker', Recs(m)) =>
             \E n \in Doubles : BId[n] = BId[m] /\ InFlight(n)'
                                /\ delivered'[n] > 0
    BY <1>1, <1>9, <2>2, SameFrames DEF SuppressIn, Held
  <2>4. CASE m = k
    <3>1. bState'[m] = "released" /\ delivered'[m] = delivered[m]
      BY <1>1, <2>1, <2>4
    <3>2. Once(Transit', Pubs(m)) /\ Before(Transit', Pubs(m), Rels(m))
      BY <1>7, <2>4 DEF Has, Once, Before
    <3>3. delivered[m] > 0 /\ delivered[m] <= 1
      BY <1>1, <1>6, <2>4 DEF PublishIn, SuppressIn
    <3>4. /\ Before(toBroker', Recs(m), Comps(m))
          /\ Has(toBroker', Comps(m)) => ~Has(session', Recs(m))
      BY <1>1, <1>6, <2>4 DEF ReleaseIn, Held
    <3>5. QED
      BY <1>7, <2>1, <2>3, <2>4, <3>1, <3>2, <3>3, <3>4, MessageNext
  <2>5. CASE m # k
    <3>1. ~InFlight(m)
      BY <1>8, <1>12, <2>5
    <3>2. bState'[m] = bState[m] /\ delivered'[m] = delivered[m]
      BY <1>1, <2>1, <2>5
    <3>3. Has(Transit', Pubs(m)) => Has(Transit, Pubs(m))
      BY <1>4, <1>5
    <3>4. QED
      BY <2>1, <2>3, <3>1, <3>2, <3>3, RestingPeer
  <2>6. QED
    BY <2>4, <2>5
<1>13. QED
  BY <1>1, <1>2, <1>10, <1>11, <1>12, PeersStep

-----------------------------------------------------------------------------
(* Every step, and what follows                                            *)

(* Before the first link there is nothing to remember. *)
LEMMA InitIn == Init => InInv
<1> SUFFICES ASSUME Init PROVE InInv
  OBVIOUS
<1>1. /\ session = <<>> /\ rx = <<>> /\ toClient = <<>> /\ toBroker = <<>>
      /\ sock = "none"
  BY DEF Init, ClientInit
<1>2. \A m \in BMsgs : bState[m] = "new" /\ delivered[m] = 0
  BY DEF Init, ClientInit, BrokerInit
<1>3. rx \in Seq(Seq(Frames) \ {<<>>}) /\ toClient \in Seq(Frames)
      /\ Len(rx) = 0 /\ Len(toClient) = 0
  BY <1>1
<1>4. Transit = <<>>
  BY <1>3, TransitEmpty DEF Transit
<1>5. \A A, B : ~Has(<<>>, A) /\ Once(<<>>, A) /\ Before(<<>>, A, B)
  BY EmptyHas
<1>6. \A m : ~Held(m)
  BY <1>1, <1>5 DEF Held
<1>7. SoleIn
  BY <1>2 DEF SoleIn, InFlight, Lasting
<1>8. LinkIn
  BY <1>1, <1>6 DEF LinkIn
<1>9. ASSUME NEW m \in Lasting PROVE MessageIn(m)
  <2>1. bState[m] = "new" /\ delivered[m] = 0
    BY <1>2 DEF Lasting
  <2>2. PublishIn(m) /\ OrderIn(m) /\ ReleaseIn(m)
    BY <1>1, <1>4, <1>5, <2>1 DEF PublishIn, OrderIn, ReleaseIn
  <2>3. SuppressIn(m) /\ AckIn(m)
    BY <1>1, <1>5, <1>6, <2>1 DEF SuppressIn, AckIn
  <2>4. QED
    BY <2>2, <2>3 DEF MessageIn
<1>10. QED
  BY <1>7, <1>8, <1>9 DEF InInv

(* What arrives from the broker, and what the client answers to it. *)
LEMMA ReceiveIn ==
    ASSUME ~Wrap, Inv, OutInv, InInv, IdsApart, HasRoom,
           UNCHANGED <<brokerVars, clean_session>>, HandleReceive
    PROVE  InInv'
<1>1. CASE GetPublish
  <2>1. RecvPublish0 \/ RecvPublish1 \/ RecvPublish2
    BY <1>1 DEF GetPublish
  <2>2. QED
    BY <1>1, <2>1, GetPublish0In, GetPublish1In, GetPublish2In
<1>2. CASE GetPubrec \/ GetPubrel \/ GetPingres
  BY <1>2, GetPubrecIn, GetPubrelIn, GetPingresIn
<1>3. CASE \/ ReceiveNothing \/ GetConnack \/ GetPuback \/ GetPubcomp
           \/ GetSuback \/ GetUnsuback
  BY <1>3, ReadNothingIn, AnswerIn
<1>4. QED
  BY <1>1, <1>2, <1>3 DEF HandleReceive

(* What the broker does. *)
LEMMA BrokerIn ==
    ASSUME Inv, InInv, UNCHANGED clean_session, Broker
    PROVE  InInv'
<1>1. CASE BrokerTakes
  BY <1>1, BrokerConnectIn, BrokerRejectIn, BrokerAnswersIn,
     BrokerTakePubackIn, BrokerTakePubrecIn, BrokerTakePubcompIn
  DEF BrokerTakes
<1>2. ASSUME NEW m \in BMsgs, BrokerPublish(m) PROVE InInv'
  <2>1. BQos[m] = 0 \/ m \in Lasting
    BY ClientAssumption DEF Lasting
  <2>2. QED
    BY <1>2, <2>1, BrokerPublish0In, BrokerPublishIn
<1>3. ASSUME NEW m \in BMsgs, BrokerRelease(m) PROVE InInv'
  BY <1>3, BrokerReleaseIn
<1>4. QED
  BY <1>1, <1>2, <1>3 DEF Broker, BrokerSends

(* Every step keeps the invariant. *)
LEMMA NextIn ==
    ASSUME ~Wrap
    PROVE  Inv /\ IdsApart /\ HasRoom /\ OutInv /\ InInv /\ [Next]_vars
           => InInv'
<1> SUFFICES ASSUME Inv, IdsApart, HasRoom, OutInv, InInv, [Next]_vars
             PROVE  InInv'
  OBVIOUS
<1>1. CASE UNCHANGED vars
  <2>1. UNCHANGED <<brokerVars, clean_session>> /\ UNCHANGED clientVars
    BY <1>1 DEF vars, clientVars
  <2>2. QED
    BY <2>1, CallsIn
<1>2. CASE Client /\ UNCHANGED clean_session
  <2>1. ClientNext /\ UNCHANGED <<brokerVars, clean_session>>
    BY <1>2 DEF Client
  <2>2. CASE Application
    <3>1. \/ \E r \in Requests : Request(r)
          \/ Connect \/ Disconnect
      BY <2>2 DEF Application, Publish, Subscribe, Unsubscribe
    <3>2. QED
      BY <2>1, <3>1, CallsIn, ConnectIn
  <2>3. CASE HandleSend
    BY <2>1, <2>3, SendConnectIn, CloseIn, SendRequestIn DEF HandleSend
  <2>4. CASE HandleReceive \/ HandleDisconnect
    BY <2>1, <2>4, ReceiveIn, CloseIn
  <2>5. CASE Worker
    BY <2>1, <2>5, TickPingIn, LinkLostIn, RecvCallbackIn DEF Worker
  <2>6. QED
    BY <2>1, <2>2, <2>3, <2>4, <2>5 DEF ClientNext, Mqttmain
<1>3. CASE Broker /\ UNCHANGED clean_session
  BY <1>3, BrokerIn
<1>4. QED
  BY <1>1, <1>2, <1>3 DEF Next

(* The invariant holds in every run in which the ids are apart and the     *)
(* session has room.                                                       *)
LEMMA InInvHolds ==
    ASSUME ~Wrap
    PROVE  Spec /\ []IdsApart /\ []HasRoom => []InInv
BY InvHolds, OutInvHolds, InitIn, NextIn, PTL DEF Spec

(* The PUBREC item suppresses a QoS 2 message that is sent again, after a  *)
(* lost PUBREC, a reconnect or a new session: the application is given     *)
(* each message at most once.                                              *)
THEOREM ExactlyOnceInHolds ==
    ASSUME ~Wrap
    PROVE  Spec /\ []IdsApart /\ []HasRoom => []ExactlyOnceIn
<1>1. InInv => ExactlyOnceIn
  BY DEF InInv, MessageIn, SuppressIn, Lasting, Doubles, ExactlyOnceIn
<1>2. QED
  BY <1>1, InInvHolds, PTL

(* PUBACK and PUBREC are sent by the handler that gives the message to the *)
(* application (mqtt_manager.c): what the broker had acknowledged arrived. *)
THEOREM AckedIsDeliveredHolds ==
    ASSUME ~Wrap
    PROVE  Spec /\ []IdsApart /\ []HasRoom => []AckedIsDelivered
<1>1. InInv => AckedIsDelivered
  BY DEF InInv, MessageIn, PublishIn, Lasting, AckedIsDelivered
<1>2. QED
  BY <1>1, InInvHolds, PTL

(* Every PUBREC item is of a message in flight: none is left behind, when  *)
(* PUBREL removes it, to suppress the next message with its id.            *)
THEOREM NoStalePubrecHolds ==
    ASSUME ~Wrap
    PROVE  Spec /\ []IdsApart /\ []HasRoom => []NoStalePubrec
<1>1. Inv /\ InInv => NoStalePubrec
  <2> SUFFICES ASSUME Inv, InInv, NEW i \in DOMAIN session,
                      session[i].type = "PUBREC"
               PROVE  \E m \in BMsgs : BId[m] = session[i].id /\ InFlight(m)
    BY DEF NoStalePubrec
  <2>1. i \in 1..Len(session) /\ session[i] \in Frames
        /\ session[i] \in Outgoing
    BY SeqTypes, LenProperties, ElementOfSeq DEF Inv, SessionInv
  <2>2. PICK m \in Doubles : BId[m] = session[i].id
    BY <2>1 DEF Outgoing, FromBroker, Doubles
  <2>3. m \in Lasting /\ Held(m)
    BY <2>1, <2>2 DEF Held, Has, Recs, Acks, Doubles, Lasting
  <2>4. PICK n \in Doubles : BId[n] = BId[m] /\ InFlight(n)
    BY <2>2, <2>3 DEF InInv, MessageIn, SuppressIn
  <2>5. QED
    BY <2>2, <2>4 DEF Doubles
<1>2. QED
  BY <1>1, InvHolds, InInvHolds, PTL
-----------------------------------------------------------------------------
(* The system keeps the promise of MqttDelivery                            *)

Promised == [Delivery!Next]_Delivery!vars

(* What MqttDelivery knows of the requests, of the messages.               *)
RequestsKept == UNCHANGED <<ret, bGot, told, clean_session>>
MessagesKept == UNCHANGED <<delivered, Fate>>

(* A step that changes nothing of either is a stutter. *)
LEMMA StutterPromised == ASSUME RequestsKept, MessagesKept PROVE Promised
BY DEF RequestsKept, MessagesKept, Promised, Delivery!vars

(* Where the broker's states stay as they are, so do the fates. *)
LEMMA FateKept ==
    ASSUME \A m \in BMsgs :
              bState'[m] = bState[m]
              \/ BQos[m] = 0
              \/ /\ bState[m] \notin {"done", "dropped"}
                 /\ bState'[m] \notin {"done", "dropped"}
    PROVE  UNCHANGED Fate
BY DEF Fate

(* A call returns 0, or an id that is greater than all before. *)
LEMMA RequestPromised ==
    ASSUME ~Wrap, Inv, NEW r \in Requests, Request(r),
           UNCHANGED <<brokerVars, clean_session>>
    PROVE  Promised
<1> DEFINE id == IF QueueFull THEN 0 ELSE (packet_id + 1) % IdMod
<1>1. /\ ret[r] = NotCalled /\ packet_id < IdMod - 1
      /\ ret' = [ret EXCEPT ![r] = id]
      /\ UNCHANGED <<bGot, told, delivered, clean_session, bState>>
  BY DEF Request, brokerVars
<1>2. packet_id \in Ids /\ IdMod \in Nat \ {0}
  BY ClientAssumption DEF Inv, CountsInv
<1>3. (packet_id + 1) % IdMod = packet_id + 1
  BY <1>1, <1>2 DEF Ids
<1>4. id \in {0, packet_id + 1} /\ id \in Ids
  BY <1>1, <1>2, <1>3 DEF Ids
<1> HIDE DEF id
<1>5. \A q \in Requests : ret[q] \in Int /\ ret[q] <= packet_id
  BY DEF Inv, RetInv, Ids, NotCalled
<1>6. ASSUME id > 0, NEW q \in Requests PROVE ret[q] # id
  BY <1>2, <1>4, <1>5, <1>6 DEF Ids
<1>7. UNCHANGED Fate
  BY <1>1 DEF Fate
<1>8. Delivery!Call(r, id)
  BY <1>1, <1>6, <1>7 DEF Delivery!Call
<1>9. QED
  BY <1>4, <1>8 DEF Promised, Delivery!Next

(* What is reported is the one request that has the id, and was taken.     *)
LEMMA TellPromised ==
    ASSUME ~Wrap, Inv, NEW kind, NEW id, Known(id, kind), Tell(kind, id),
           UNCHANGED <<ret, bGot, delivered, clean_session, bState>>
    PROVE  Promised
<1>1. PICK r \in Requests : /\ ret[r] = id /\ id > 0
                            /\ Kind[r] = kind /\ bGot[r] > 0
  BY DEF Known
<1>2. told \in [Requests -> 0..2]
  BY DEF Inv, ToldInv
<1>3. \A q \in Requests : ret[q] = id => q = r
  BY <1>1 DEF Inv, RetInv
<1>4. \A q \in Requests :
         told'[q] = IF q = r THEN Upto2(told[q]) ELSE told[q]
  BY <1>1, <1>3 DEF Tell
<1>5. told' = [q \in Requests |-> told'[q]]
  BY DEF Tell
<1>6. told' = [told EXCEPT ![r] = Delivery!Counted(told[r])]
  BY <1>2, <1>4, <1>5 DEF Upto2, Delivery!Counted
<1>7. UNCHANGED Fate
  BY DEF Fate
<1>8. Delivery!Report(r)
  BY <1>1, <1>6, <1>7 DEF Delivery!Report
<1>9. QED
  BY <1>8 DEF Promised, Delivery!Next

(* PUBACK, PUBCOMP, SUBACK and UNSUBACK. *)
LEMMA AnswersPromised ==
    ASSUME ~Wrap, Inv, GetPuback \/ GetPubcomp \/ GetSuback \/ GetUnsuback,
           UNCHANGED <<brokerVars, clean_session>>
    PROVE  Promised
<1>1. ASSUME NEW kind \in RequestTypes, NEW type \in AnswersTo(kind),
             Receiving(type), Tell(kind, Received.id),
             UNCHANGED HandlerRest, UNCHANGED delivered
      PROVE  Promised
  <2>1. Received \in Incoming /\ Received.type = type
    BY <1>1, ReceivingType DEF Inv
  <2>2. Known(Received.id, kind)
    BY <1>1, <2>1 DEF Incoming
  <2>3. QED
    BY <1>1, <2>2, TellPromised DEF HandlerRest, brokerVars
<1>2. CASE GetPuback
  BY <1>1, <1>2 DEF GetPuback, AnswersTo, RequestTypes, FrameTypes
<1>3. CASE GetPubcomp
  BY <1>1, <1>3 DEF GetPubcomp, AnswersTo, RequestTypes, FrameTypes
<1>4. CASE GetSuback
  BY <1>1, <1>4 DEF GetSuback, AnswersTo, RequestTypes, FrameTypes
<1>5. CASE GetUnsuback
  BY <1>1, <1>5 DEF GetUnsuback, AnswersTo, RequestTypes, FrameTypes
<1>6. QED
  BY <1>2, <1>3, <1>4, <1>5

(* A QoS 0 publish is reported when it is sent; no other sending reports.  *)
LEMMA SendPublishPromised ==
    ASSUME ~Wrap, Inv, OutInv, SendPublish,
           UNCHANGED <<brokerVars, clean_session>>
    PROVE  Promised
<1> DEFINE r == Popped.msg
<1>1. /\ Sending("PUBLISH")
      /\ \/ UNCHANGED told
         \/ Qos[r] = 0 /\ told' = [told EXCEPT ![r] = Upto2(@)]
      /\ UNCHANGED <<ret, bGot, delivered, clean_session, bState>>
  BY DEF SendPublish, HandlerRest, brokerVars
<1>2. r \in Requests /\ ret[r] > 0 /\ Kind[r] = "PUBLISH"
  BY <1>1, PoppedOut DEF RequestTypes, OutInv
<1>3. UNCHANGED Fate
  BY <1>1 DEF Fate
<1>4. CASE UNCHANGED told
  BY <1>1, <1>3, <1>4, StutterPromised DEF RequestsKept, MessagesKept
<1>5. CASE Qos[r] = 0 /\ told' = [told EXCEPT ![r] = Upto2(@)]
  <2>1. ~Delivery!Answered(r)
    BY <1>2, <1>5 DEF Delivery!Answered
  <2>2. told' = [told EXCEPT ![r] = Delivery!Counted(told[r])]
    BY <1>5 DEF Upto2, Delivery!Counted
  <2>3. Delivery!Report(r)
    BY <1>1, <1>2, <1>3, <2>1, <2>2 DEF Delivery!Report
  <2>4. QED
    BY <1>2, <2>3 DEF Promised, Delivery!Next
<1>6. QED
  BY <1>1, <1>4, <1>5

(* A message that is handed over has not ended; at QoS 2 it was not handed *)
(* over before.                                                            *)
LEMMA GetPublishPromised ==
    ASSUME ~Wrap, Inv, OutInv, InInv, IdsApart, GetPublish,
           UNCHANGED <<brokerVars, clean_session>>
    PROVE  Promised
<1> DEFINE k == Received.msg
<1>1. /\ Receiving("PUBLISH")
      /\ UNCHANGED <<ret, bGot, told, clean_session, bState>>
      /\ \/ delivered' = delivered
         \/ /\ Deliver(k)
            /\ BQos[k] = 2 => ~ItemExist(session, Received.id)
  BY DEF GetPublish, RecvPublish0, RecvPublish1, RecvPublish2, HandlerRest,
         brokerVars
<1>2. Received \in Incoming /\ Received.type = "PUBLISH" /\ k \in BMsgs
  BY <1>1, ReceivingType DEF Inv, Incoming
<1>3. UNCHANGED Fate
  BY <1>1 DEF Fate
<1>4. CASE delivered' = delivered
  BY <1>1, <1>3, <1>4, StutterPromised DEF RequestsKept, MessagesKept
<1>5. CASE Deliver(k) /\ (BQos[k] = 2 => ~ItemExist(session, Received.id))
  <2>1. Fate[k] = "pending"
    <3>1. BQos[k] > 0 => bState[k] \in {"sent", "released"}
      BY <1>1, ReadPublish
    <3>2. QED
      BY <1>2, <3>1 DEF Fate
  <2>2. ASSUME BQos[k] = 2 PROVE delivered[k] = 0
    <3>1. /\ k \in Doubles /\ k \in Lasting /\ Received.id = BId[k]
          /\ Has(Transit, Pubs(k))
      BY <1>1, <1>2, <2>2, ReadPublish DEF Doubles, Lasting
    <3>2. ~Held(k)
      BY <1>5, <2>2, <3>1, HeldItem
    <3>3. ~(delivered[k] > 0)
      BY <3>1, <3>2 DEF InInv, MessageIn, SuppressIn
    <3>4. delivered[k] \in 0..2
      BY <1>2 DEF Inv, DeliveredInv
    <3>5. QED
      BY <3>3, <3>4
  <2>3. delivered' = [delivered EXCEPT ![k] = Delivery!Counted(delivered[k])]
    BY <1>5 DEF Deliver, Upto2, Delivery!Counted
  <2>4. Delivery!Deliver(k)
    BY <1>1, <1>3, <2>1, <2>2, <2>3 DEF Delivery!Deliver
  <2>5. QED
    BY <1>2, <2>4 DEF Promised, Delivery!Next
<1>6. QED
  BY <1>1, <1>4, <1>5

(* A request that the broker takes, at QoS 2 for the first time. *)
LEMMA TookPromised ==
    ASSUME Inv, NEW r \in Requests, Took(r), ret[r] > 0,
           Kind[r] = "PUBLISH" /\ Qos[r] = 2 => bGot[r] = 0,
           UNCHANGED <<ret, told, delivered, clean_session, bState>>
    PROVE  Promised
<1>1. UNCHANGED Fate
  BY DEF Fate
<1>2. bGot' = [bGot EXCEPT ![r] = Delivery!Counted(bGot[r])]
  BY DEF Took, Upto2, Delivery!Counted
<1>3. Delivery!Take(r)
  BY <1>1, <1>2 DEF Delivery!Take, Delivery!Once
<1>4. QED
  BY <1>3 DEF Promised, Delivery!Next

(* PUBLISH, SUBSCRIBE and UNSUBSCRIBE. *)
LEMMA TakesPromised ==
    ASSUME ~Wrap, Inv, OutInv,
           BrokerTakePublish \/ BrokerTakeSubscribe \/ BrokerTakeUnsubscribe,
           UNCHANGED clean_session
    PROVE  Promised
<1> DEFINE r == Taken.msg
<1>1. PICK type \in RequestTypes : Takes(type)
  BY DEF BrokerTakePublish, BrokerTakeSubscribe, BrokerTakeUnsubscribe,
         RequestTypes
<1>2. /\ UNCHANGED <<ret, told, delivered, clean_session, bState>>
      /\ toBroker # <<>> /\ Taken = Head(toBroker)
  BY <1>1, TakesType
  DEF Takes, Taken, BrokerTakePublish, BrokerTakeSubscribe,
      BrokerTakeUnsubscribe
<1>3. Taken \in Outgoing /\ Taken.type = type
  BY <1>1, TakesType
<1>4. r \in Requests
  BY <1>3 DEF Outgoing, Carries
<1>5. Taken.id = ret[r] /\ ret[r] > 0 /\ Kind[r] = type
  BY <1>3, <1>4, AskedId
<1>6. ~Nowhere(r)
  <2>1. 1 \in 1..Len(toBroker) /\ toBroker[1] = Taken
    BY <1>2, SeqTypes, EmptySeq
  <2>2. Taken \in Asks(r)
    BY <1>3 DEF Asks, Outgoing
  <2>3. QED
    BY <2>1, <2>2 DEF Nowhere, Has
<1>7. \/ Took(r) /\ (type = "PUBLISH" /\ Qos[r] = 2 => ret[r] \notin bStored)
      \/ UNCHANGED bGot
  <2>1. CASE BrokerTakePublish
    BY <1>5, <2>1 DEF BrokerTakePublish
  <2>2. CASE BrokerTakeSubscribe \/ BrokerTakeUnsubscribe
    <3>1. Takes("SUBSCRIBE") \/ Takes("UNSUBSCRIBE")
      BY <2>2 DEF BrokerTakeSubscribe, BrokerTakeUnsubscribe
    <3>2. type # "PUBLISH"
      BY <1>3, <3>1, TakesType
    <3>3. QED
      BY <2>2, <3>2 DEF BrokerTakeSubscribe, BrokerTakeUnsubscribe
  <2>3. QED
    BY <2>1, <2>2
<1>8. CASE UNCHANGED bGot
  <2>1. UNCHANGED Fate
    BY <1>2 DEF Fate
  <2>2. QED
    BY <1>2, <1>8, <2>1, StutterPromised DEF RequestsKept, MessagesKept
<1>9. CASE Took(r)
           /\ (type = "PUBLISH" /\ Qos[r] = 2 => ret[r] \notin bStored)
  <2>1. ASSUME Kind[r] = "PUBLISH", Qos[r] = 2 PROVE bGot[r] = 0
    <3>1. r \in Twice /\ ret[r] \notin bStored
      BY <1>4, <1>5, <1>9, <2>1 DEF Twice
    <3>2. ~(bGot[r] > 0)
      BY <1>6, <3>1 DEF OutInv, SpentOut
    <3>3. bGot[r] \in 0..2
      BY <1>4 DEF Inv, BrokerInv
    <3>4. QED
      BY <3>2, <3>3
  <2>2. QED
    BY <1>2, <1>4, <1>5, <1>9, <2>1, TookPromised
<1>10. QED
  BY <1>7, <1>8, <1>9

(* The delivery of one message ends. *)
LEMMA DonePromised ==
    ASSUME RequestsKept, UNCHANGED delivered,
           NEW k \in Lasting, InFlight(k), delivered[k] > 0,
           bState' = [m \in BMsgs |-> IF m = k THEN "done" ELSE bState[m]]
    PROVE  Promised
<1>1. k \in BMsgs /\ BQos[k] > 0
  BY DEF Lasting
<1>2. Fate[k] = "pending" /\ Fate' = [Fate EXCEPT ![k] = "done"]
  BY <1>1 DEF Fate, InFlight
<1>3. Delivery!Finish(k)
  BY <1>2 DEF Delivery!Finish, RequestsKept
<1>4. QED
  BY <1>1, <1>3 DEF Promised, Delivery!Next

(* PUBACK and PUBCOMP end it; both come after the message was handed over. *)
LEMMA FinishPromised ==
    ASSUME Inv, InInv, BrokerTakePuback \/ BrokerTakePubcomp,
           UNCHANGED clean_session
    PROVE  Promised
<1>1. PICK type \in {"PUBACK", "PUBCOMP"} : Takes(type)
  BY DEF BrokerTakePuback, BrokerTakePubcomp
<1>2. UNCHANGED <<ret, told, delivered, clean_session>> /\ UNCHANGED bGot
  BY <1>1, TakesType DEF BrokerTakePuback, BrokerTakePubcomp
<1>3. RequestsKept
  BY <1>2 DEF RequestsKept
<1>4. CASE BrokerTakePuback
  <2>1. PICK k \in Lasting :
           /\ BId[k] = Taken.id /\ BQos[k] = 1 /\ bState[k] = "sent"
           /\ delivered[k] > 0
    <3>1. /\ Takes("PUBACK") /\ Taken.type = "PUBACK" /\ Taken \in Frames
          /\ FromBroker(Taken.id, 1)
      BY <1>4, TakesKeeps DEF BrokerTakePuback, Outgoing
    <3>2. PICK j \in Singles : BId[j] = Taken.id
      BY <3>1 DEF FromBroker, Singles
    <3>3. Has(toBroker, Acks("PUBACK", j))
      BY <3>1, <3>2, TakesKeeps DEF Acks
    <3>4. QED
      BY <3>2, <3>3, SameFrames DEF InInv, MessageIn, AckIn, Singles, Lasting
  <2>2. InFlight(k)
    BY <2>1 DEF InFlight
  <2>3. Acknowledged(Taken.id, 1) = {k}
    BY <2>1, <2>2, OneAcknowledged
  <2>4. bState' = [m \in BMsgs |-> IF m = k THEN "done" ELSE bState[m]]
    BY <1>4, <2>3 DEF BrokerTakePuback, Becomes
  <2>5. QED
    BY <1>2, <1>3, <2>1, <2>2, <2>4, DonePromised
<1>5. CASE BrokerTakePubcomp
  <2> DEFINE S == {m \in Acknowledged(Taken.id, 2) :
                     bState[m] \in {"released", "rerelease"}}
  <2>1. bState' = [m \in BMsgs |-> IF m \in S THEN "done" ELSE bState[m]]
    BY <1>5 DEF BrokerTakePubcomp, Becomes
  <2>2. CASE S = {}
    <3>1. UNCHANGED Fate
      BY <2>1, <2>2, FateKept
    <3>2. QED
      BY <1>2, <1>3, <3>1, StutterPromised DEF MessagesKept
  <2>3. CASE S # {}
    <3>1. PICK k \in BMsgs : /\ InFlight(k) /\ BId[k] = Taken.id
                             /\ BQos[k] = 2 /\ k \in S
                             /\ bState[k] \in {"released", "rerelease"}
      BY <2>3 DEF Acknowledged
    <3>2. k \in Lasting
      BY <3>1 DEF Lasting
    <3>3. Acknowledged(Taken.id, 2) = {k}
      BY <3>1, <3>2, OneAcknowledged
    <3>4. bState' = [m \in BMsgs |-> IF m = k THEN "done" ELSE bState[m]]
      BY <2>1, <3>1, <3>3
    <3>5. delivered[k] > 0
      BY <3>1, <3>2 DEF InInv, MessageIn, PublishIn
    <3>6. QED
      BY <1>2, <1>3, <3>1, <3>2, <3>4, <3>5, DonePromised
  <2>4. QED
    BY <2>2, <2>3
<1>6. QED
  BY <1>4, <1>5

(* A new session of the broker drops what was in flight; one that is kept  *)
(* does not.                                                               *)
LEMMA ConnectPromised ==
    ASSUME Inv, BrokerConnect, UNCHANGED clean_session
    PROVE  Promised
<1>1. /\ UNCHANGED <<ret, bGot, told, delivered, clean_session>>
      /\ bState' = [m \in BMsgs |->
                      CASE InFlight(m) /\ clean_session -> "dropped"
                        [] bState[m] = "sent" /\ ~clean_session -> "resend"
                        [] bState[m] = "released" /\ ~clean_session
                           -> "rerelease"
                        [] OTHER -> bState[m]]
  BY DEF BrokerConnect, BrokerLeaves, appVars
<1>2. RequestsKept
  BY <1>1 DEF RequestsKept
<1>3. CASE ~clean_session
  <2>1. UNCHANGED Fate
    BY <1>1, <1>3, FateKept
  <2>2. QED
    BY <1>1, <1>2, <2>1, StutterPromised DEF MessagesKept
<1>4. CASE clean_session
  <2> DEFINE S == {m \in Lasting : InFlight(m)}
  <2>1. \A m \in BMsgs :
           bState'[m] = IF InFlight(m) THEN "dropped" ELSE bState[m]
    BY <1>1, <1>4
  <2>2. \A m \in S : Fate[m] = "pending"
    BY DEF Fate, InFlight, Lasting
  <2>3. \A m \in BMsgs : BQos[m] \in 0..2
    BY ClientAssumption
  <2>4. Fate' = [m \in BMsgs |-> IF m \in S THEN "dropped" ELSE Fate[m]]
    BY <2>1, <2>3 DEF Fate, InFlight, Lasting
  <2>5. S \in SUBSET BMsgs
    BY DEF Lasting
  <2> HIDE DEF S
  <2>6. Delivery!Drop(S)
    BY <1>1, <1>4, <2>2, <2>4 DEF Delivery!Drop
  <2>7. QED
    BY <2>5, <2>6 DEF Promised, Delivery!Next
<1>5. QED
  BY <1>3, <1>4

(* The broker does nothing else that the promise is about. *)
LEMMA BrokerPromised ==
    ASSUME ~Wrap, Inv, OutInv, InInv, Broker, UNCHANGED clean_session
    PROVE  Promised
<1>1. CASE BrokerReject \/ BrokerTakePubrel \/ BrokerTakePing
  <2>1. UNCHANGED <<ret, bGot, told, delivered, bState>>
    BY <1>1 DEF BrokerReject, BrokerTakePubrel, BrokerTakePing, Takes,
                BrokerLeaves, appVars, brokerVars
  <2>2. UNCHANGED Fate
    BY <2>1 DEF Fate
  <2>3. QED
    BY <2>1, <2>2, StutterPromised DEF RequestsKept, MessagesKept
<1>2. CASE BrokerTakePubrec
  <2>1. UNCHANGED <<ret, bGot, told, delivered>>
        /\ Becomes(Acknowledged(Taken.id, 2), "released")
    BY <1>2 DEF BrokerTakePubrec, Takes, BrokerLeaves, appVars
  <2>2. UNCHANGED Fate
    BY <2>1, FateKept DEF Becomes, Acknowledged, InFlight
  <2>3. QED
    BY <2>1, <2>2, StutterPromised DEF RequestsKept, MessagesKept
<1>3. ASSUME NEW m \in BMsgs, BrokerPublish(m) \/ BrokerRelease(m)
      PROVE  Promised
  <2>1. /\ UNCHANGED <<ret, bGot, told, delivered>>
        /\ bState[m] \in {"new", "resend", "rerelease"}
        /\ \E state : /\ bState' = [n \in BMsgs |-> IF n \in {m} THEN state
                                                    ELSE bState[n]]
                      /\ BQos[m] = 0 \/ state \in {"sent", "released"}
    BY <1>3 DEF BrokerPublish, BrokerRelease, Becomes, BrokerLeaves, appVars
  <2>2. UNCHANGED Fate
    BY <2>1, FateKept
  <2>3. QED
    BY <2>1, <2>2, StutterPromised DEF RequestsKept, MessagesKept
<1>4. QED
  BY <1>1, <1>2, <1>3, TakesPromised, FinishPromised, ConnectPromised
  DEF Broker, BrokerTakes, BrokerSends

(* Nor does the client. *)
LEMMA ClientPromised ==
    ASSUME ~Wrap, Inv, OutInv, InInv, IdsApart, ClientNext,
           UNCHANGED <<brokerVars, clean_session>>
    PROVE  Promised
<1>1. ASSUME UNCHANGED <<ret, told, delivered>> PROVE Promised
  <2>1. UNCHANGED Fate
    BY DEF Fate, brokerVars
  <2>2. QED
    BY <1>1, <2>1, StutterPromised
    DEF RequestsKept, MessagesKept, brokerVars
<1>2. CASE Application
  <2>1. (\E r \in Requests : Request(r)) \/ Connect \/ Disconnect
    BY <1>2 DEF Application, Publish, Subscribe, Unsubscribe
  <2>2. CASE Connect \/ Disconnect
    BY <1>1, <2>2 DEF Connect, Disconnect, appVars
  <2>3. QED
    BY <2>1, <2>2, RequestPromised
<1>3. CASE Worker
  BY <1>1, <1>3
  DEF Worker, TickPing, TickTimeout, RecvCallback, DisconnectCallback,
      appVars
<1>4. CASE \/ SendConnect \/ SendDisconnect \/ SendSubscribe
           \/ SendUnsubscribe \/ HandleDisconnect
  BY <1>1, <1>4
  DEF SendConnect, SendDisconnect, SendSubscribe, SendUnsubscribe,
      HandleDisconnect, HandlerRest
<1>5. CASE \/ ReceiveNothing \/ GetConnack \/ GetPubrec \/ GetPubrel
           \/ GetPingres
  BY <1>1, <1>5
  DEF ReceiveNothing, GetConnack, GetPubrec, GetPubrel, GetPingres,
      HandlerRest
<1>6. QED
  BY <1>2, <1>3, <1>4, <1>5, AnswersPromised, SendPublishPromised,
     GetPublishPromised
  DEF ClientNext, Mqttmain, HandleSend, HandleReceive

(* Whatever is lost, resent or reconnected: each step of the client and of *)
(* the broker is one step of what MqttDelivery promises the application,   *)
(* or none, if the ids at both ends differ and the session has room.       *)
THEOREM ImplementsDeliveryHolds ==
    ASSUME ~Wrap
    PROVE  Spec /\ []IdsApart /\ []HasRoom => ImplementsDelivery
<1>1. Init => Delivery!Init
  <2> SUFFICES ASSUME Init PROVE Delivery!Init
    OBVIOUS
  <2>1. \A m \in BMsgs : bState[m] = "new"
    BY DEF Init, BrokerInit
  <2>2. Fate = [m \in BMsgs |-> "pending"]
    BY <2>1 DEF Fate
  <2>3. clean_session \in BOOLEAN
    BY ClientAssumption DEF Init, ClientInit
  <2>4. QED
    BY <2>2, <2>3 DEF Init, ClientInit, BrokerInit, Delivery!Init
<1>2. Inv /\ OutInv /\ InInv /\ IdsApart /\ [Next]_vars
         => [Delivery!Next]_Delivery!vars
  <2> SUFFICES ASSUME Inv, OutInv, InInv, IdsApart, [Next]_vars
               PROVE  Promised
    BY DEF Promised
  <2>1. CASE UNCHANGED vars
    <3>1. UNCHANGED <<ret, bGot, told, delivered, clean_session, bState>>
      BY <2>1 DEF vars, clientVars, brokerVars, appVars
    <3>2. UNCHANGED Fate
      BY <3>1 DEF Fate
    <3>3. QED
      BY <3>1, <3>2, StutterPromised DEF RequestsKept, MessagesKept
  <2>2. CASE Next
    BY <2>2, ClientPromised, BrokerPromised DEF Next, Client
  <2>3. QED
    BY <2>1, <2>2
<1>3. QED
  BY <1>1, <1>2, InvHolds, OutInvHolds, InInvHolds, PTL
  DEF Spec, ImplementsDelivery, Delivery!Spec
=============================================================================
