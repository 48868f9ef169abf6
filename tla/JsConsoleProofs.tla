--------------------------- MODULE JsConsoleProofs ---------------------------
(***************************************************************************)
(* What holds of the console for every set of characters, every length of  *)
(* the line and every size of the history: the screen shows the line, and  *)
(* the console is a line editor.                                           *)
(***************************************************************************)
EXTENDS JsConsole, SequenceTheorems, TLAPS

-----------------------------------------------------------------------------
(* The sequences that editing makes                                        *)

(* A part of a sequence, element by element. *)
LEMMA PartElements ==
    ASSUME NEW S, NEW s \in Seq(S), NEW m \in 1..(Len(s) + 1),
           NEW n \in (m - 1)..Len(s)
    PROVE  /\ SubSeq(s, m, n) \in Seq(S)
           /\ Len(SubSeq(s, m, n)) = n - m + 1
           /\ \A i \in 1..(n - m + 1) : SubSeq(s, m, n)[i] = s[m + i - 1]
<1>1. Len(s) \in Nat /\ \A i \in m..n : s[i] \in S
  BY LenProperties, ElementOfSeq
<1>2. /\ SubSeq(s, m, n) \in Seq(S)
      /\ Len(SubSeq(s, m, n)) = IF m <= n THEN n - m + 1 ELSE 0
      /\ \A i \in 1..(n - m + 1) : SubSeq(s, m, n)[i] = s[m + i - 1]
  BY <1>1, SubSeqProperties
<1>3. QED
  BY <1>1, <1>2

(* The rest of a sequence. *)
LEMMA FromElements ==
    ASSUME NEW S, NEW s \in Seq(S), NEW i \in 0..Len(s)
    PROVE  /\ From(s, i) \in Seq(S) /\ Len(From(s, i)) = Len(s) - i
           /\ \A j \in 1..(Len(s) - i) : From(s, i)[j] = s[i + j]
<1>1. Len(s) \in Nat /\ i + 1 \in 1..(Len(s) + 1)
      /\ Len(s) \in ((i + 1) - 1)..Len(s) /\ Len(s) - (i + 1) + 1 = Len(s) - i
  BY LenProperties
<1>2. /\ From(s, i) \in Seq(S) /\ Len(From(s, i)) = Len(s) - (i + 1) + 1
      /\ \A j \in 1..(Len(s) - (i + 1) + 1) :
           From(s, i)[j] = s[(i + 1) + j - 1]
  BY <1>1, PartElements DEF From
<1>3. \A j \in 1..(Len(s) - i) : (i + 1) + j - 1 = i + j
  BY <1>1
<1>4. QED
  BY <1>1, <1>2, <1>3

(* A character put in moves the ones behind it. *)
LEMMA InsertElements ==
    ASSUME NEW S, NEW s \in Seq(S), NEW e \in S, NEW i \in 1..(Len(s) + 1)
    PROVE  /\ InsertAt(s, i, e) \in Seq(S)
           /\ Len(InsertAt(s, i, e)) = Len(s) + 1
           /\ \A j \in 1..(Len(s) + 1) : InsertAt(s, i, e)[j] =
                IF j < i THEN s[j] ELSE IF j = i THEN e ELSE s[j - 1]
<1> DEFINE a == SubSeq(s, 1, i - 1)
           c == SubSeq(s, i, Len(s))
<1>1. Len(s) \in Nat
  BY LenProperties
<1>2. /\ a \in Seq(S) /\ Len(a) = i - 1 /\ \A j \in 1..(i - 1) : a[j] = s[j]
  <2>1. /\ SubSeq(s, 1, i - 1) \in Seq(S)
        /\ Len(SubSeq(s, 1, i - 1)) = (i - 1) - 1 + 1
        /\ \A j \in 1..((i - 1) - 1 + 1) :
             SubSeq(s, 1, i - 1)[j] = s[1 + j - 1]
    BY <1>1, PartElements
  <2>2. QED
    BY <1>1, <2>1
<1>3. /\ c \in Seq(S) /\ Len(c) = Len(s) - i + 1
      /\ \A j \in 1..(Len(s) - i + 1) : c[j] = s[i + j - 1]
  BY <1>1, PartElements
<1> HIDE DEF a, c
<1>4. <<e>> \in Seq(S) /\ Len(<<e>>) = 1 /\ <<e>>[1] = e
  OBVIOUS
<1> DEFINE g == a \o <<e>>
           h == g \o c
<1>5. /\ g \in Seq(S) /\ Len(g) = i
      /\ \A j \in 1..i : g[j] = IF j < i THEN s[j] ELSE e
  <2>1. /\ g \in Seq(S) /\ Len(g) = Len(a) + Len(<<e>>)
        /\ \A j \in 1..(Len(a) + Len(<<e>>)) :
             g[j] = IF j <= Len(a) THEN a[j] ELSE <<e>>[j - Len(a)]
    BY <1>2, <1>4, ConcatProperties
  <2> HIDE DEF g
  <2>2. ASSUME NEW j \in 1..i PROVE g[j] = IF j < i THEN s[j] ELSE e
    <3>1. CASE j < i
      BY <1>1, <1>2, <1>4, <2>1, <3>1
    <3>2. CASE j = i
      <4>1. j - Len(a) = 1 /\ ~(j <= Len(a)) /\ j \in 1..(Len(a) + 1)
        BY <1>1, <1>2, <3>2
      <4>2. QED
        BY <1>4, <2>1, <3>2, <4>1
    <3>3. QED
      BY <3>1, <3>2
  <2>3. QED
    BY <1>1, <1>2, <1>4, <2>1, <2>2
<1> HIDE DEF g
<1>6. /\ h \in Seq(S) /\ Len(h) = Len(g) + Len(c)
      /\ \A j \in 1..(Len(g) + Len(c)) :
           h[j] = IF j <= Len(g) THEN g[j] ELSE c[j - Len(g)]
  BY <1>3, <1>5, ConcatProperties
<1> HIDE DEF h
<1>7. ASSUME NEW j \in 1..(Len(s) + 1)
      PROVE  h[j] = IF j < i THEN s[j] ELSE IF j = i THEN e ELSE s[j - 1]
  <2>0. j \in 1..(Len(g) + Len(c))
    BY <1>1, <1>3, <1>5
  <2>1. CASE j <= i
    <3>1. j \in 1..i /\ h[j] = g[j]
      BY <1>1, <1>5, <1>6, <2>0, <2>1
    <3>2. QED
      BY <1>5, <2>1, <3>1
  <2>2. CASE j > i
    <3>1. j - i \in 1..(Len(s) - i + 1) /\ i + (j - i) - 1 = j - 1
      BY <1>1, <2>2
    <3>2. h[j] = c[j - i]
      BY <1>1, <1>5, <1>6, <2>0, <2>2
    <3>3. QED
      BY <1>3, <2>2, <3>1, <3>2
  <2>3. QED
    BY <1>1, <2>1, <2>2
<1>8. h \in Seq(S) /\ Len(h) = Len(s) + 1
  BY <1>1, <1>3, <1>5, <1>6
<1>9. InsertAt(s, i, e) = h
  BY DEF InsertAt, a, c, g, h
<1>10. QED
  BY <1>7, <1>8, <1>9

(* A character taken out lets the ones behind it move up. *)
LEMMA RemoveElements ==
    ASSUME NEW S, NEW s \in Seq(S), NEW i \in 1..Len(s)
    PROVE  /\ RemoveAt(s, i) \in Seq(S)
           /\ Len(RemoveAt(s, i)) = Len(s) - 1
           /\ \A j \in 1..(Len(s) - 1) :
                RemoveAt(s, i)[j] = IF j < i THEN s[j] ELSE s[j + 1]
<1> DEFINE a == SubSeq(s, 1, i - 1)
           c == SubSeq(s, i + 1, Len(s))
<1>1. Len(s) \in Nat
  BY LenProperties
<1>2. /\ a \in Seq(S) /\ Len(a) = i - 1 /\ \A j \in 1..(i - 1) : a[j] = s[j]
  <2>1. /\ SubSeq(s, 1, i - 1) \in Seq(S)
        /\ Len(SubSeq(s, 1, i - 1)) = (i - 1) - 1 + 1
        /\ \A j \in 1..((i - 1) - 1 + 1) :
             SubSeq(s, 1, i - 1)[j] = s[1 + j - 1]
    BY <1>1, PartElements
  <2>2. QED
    BY <1>1, <2>1
<1>3. /\ c \in Seq(S) /\ Len(c) = Len(s) - i
      /\ \A j \in 1..(Len(s) - i) : c[j] = s[i + j]
  BY <1>1, FromElements DEF From
<1> HIDE DEF a, c
<1> DEFINE h == a \o c
<1>4. /\ h \in Seq(S) /\ Len(h) = Len(a) + Len(c)
      /\ \A j \in 1..(Len(a) + Len(c)) :
           h[j] = IF j <= Len(a) THEN a[j] ELSE c[j - Len(a)]
  BY <1>2, <1>3, ConcatProperties
<1> HIDE DEF h
<1>5. ASSUME NEW j \in 1..(Len(s) - 1)
      PROVE  h[j] = IF j < i THEN s[j] ELSE s[j + 1]
  <2>0. j \in 1..(Len(a) + Len(c))
    BY <1>1, <1>2, <1>3
  <2>1. CASE j < i
    <3>1. j <= Len(a) /\ j \in 1..(i - 1)
      BY <1>1, <1>2, <2>1
    <3>2. QED
      BY <1>2, <1>4, <2>0, <2>1, <3>1
  <2>2. CASE j >= i
    <3>1. j - Len(a) \in 1..(Len(s) - i) /\ i + (j - Len(a)) = j + 1
          /\ ~(j <= Len(a)) /\ ~(j < i)
      BY <1>1, <1>2, <2>2
    <3>2. QED
      BY <1>3, <1>4, <2>0, <3>1
  <2>3. QED
    BY <1>1, <2>1, <2>2
<1>6. h \in Seq(S) /\ Len(h) = Len(s) - 1
  BY <1>1, <1>2, <1>3, <1>4
<1>7. RemoveAt(s, i) = h
  BY DEF RemoveAt, a, c, h
<1>8. QED
  BY <1>5, <1>6, <1>7

-----------------------------------------------------------------------------
(* The screen                                                              *)

(* What is written replaces as many cells from the column on. *)
LEMMA ShowElements ==
    ASSUME NEW S, NEW t, t.cells \in Seq(S), t.col \in 0..Len(t.cells),
           NEW s \in Seq(S)
    PROVE  /\ Show(t, s) \in [cells : Seq(S), col : Nat]
           /\ Show(t, s).col = t.col + Len(s)
           /\ Len(Show(t, s).cells) = IF t.col + Len(s) <= Len(t.cells)
                                      THEN Len(t.cells)
                                      ELSE t.col + Len(s)
           /\ \A i \in 1..Len(Show(t, s).cells) : Show(t, s).cells[i] =
                IF i <= t.col THEN t.cells[i]
                ELSE IF i <= t.col + Len(s) THEN s[i - t.col]
                ELSE t.cells[i]
<1> DEFINE c == t.cells
           n == t.col
           e == n + Len(s)
           a == SubSeq(c, 1, n)
           z == SubSeq(c, e + 1, Len(c))
           g == a \o s
           h == g \o z
<1>1. Len(c) \in Nat /\ Len(s) \in Nat /\ n \in 0..Len(c)
  BY LenProperties
<1>0. e \in Nat /\ e = n + Len(s)
  BY <1>1
<1>2. a \in Seq(S) /\ Len(a) = n /\ \A i \in 1..n : a[i] = c[i]
  <2>1. /\ SubSeq(c, 1, n) \in Seq(S) /\ Len(SubSeq(c, 1, n)) = n - 1 + 1
        /\ \A i \in 1..(n - 1 + 1) : SubSeq(c, 1, n)[i] = c[1 + i - 1]
    BY <1>1, PartElements
  <2>2. QED
    BY <1>1, <2>1
<1>3. /\ z \in Seq(S) /\ Len(z) = IF e <= Len(c) THEN Len(c) - e ELSE 0
      /\ \A i \in 1..Len(z) : z[i] = c[e + i]
  <2>1. CASE e <= Len(c)
    <3>1. e \in 0..Len(c)
      BY <1>0, <1>1, <2>1
    <3>2. z = From(c, e)
      BY DEF From
    <3> HIDE DEF e, z
    <3>3. /\ z \in Seq(S) /\ Len(z) = Len(c) - e
          /\ \A i \in 1..(Len(c) - e) : z[i] = c[e + i]
      BY <3>1, <3>2, FromElements
    <3>4. QED
      BY <2>1, <3>3
  <2>2. CASE e > Len(c)
    <3>1. z = <<>>
      BY <1>0, <1>1, <2>2, SubSeqEmpty
    <3> HIDE DEF e, z
    <3>2. z \in Seq(S) /\ Len(z) = 0
      BY <3>1
    <3>3. QED
      BY <1>0, <1>1, <2>2, <3>2
  <2> HIDE DEF e, z
  <2>3. QED
    BY <1>0, <1>1, <2>1, <2>2
<1>4. Show(t, s) = [cells |-> h, col |-> e]
  BY DEF Show
<1> HIDE DEF a, e, z
<1>5. /\ g \in Seq(S) /\ Len(g) = Len(a) + Len(s)
      /\ \A i \in 1..(Len(a) + Len(s)) :
           g[i] = IF i <= Len(a) THEN a[i] ELSE s[i - Len(a)]
  BY <1>2, ConcatProperties
<1> HIDE DEF g
<1>6. /\ h \in Seq(S) /\ Len(h) = Len(g) + Len(z)
      /\ \A i \in 1..(Len(g) + Len(z)) :
           h[i] = IF i <= Len(g) THEN g[i] ELSE z[i - Len(g)]
  <2>1. g \in Seq(S) /\ z \in Seq(S)
    BY <1>3, <1>5
  <2>2. QED
    BY <2>1, ConcatProperties
<1> HIDE DEF h
<1>7. Len(h) = IF e <= Len(c) THEN Len(c) ELSE e
  BY <1>0, <1>1, <1>2, <1>3, <1>5, <1>6
<1>8. ASSUME NEW i \in 1..Len(h)
      PROVE  h[i] = IF i <= n THEN c[i] ELSE IF i <= e THEN s[i - n]
                                                       ELSE c[i]
  <2>1. i \in 1..(Len(g) + Len(z)) /\ Len(g) = e /\ Len(a) = n
    BY <1>0, <1>1, <1>2, <1>3, <1>5, <1>6
  <2>2. CASE i <= e
    <3>1. i \in 1..(Len(a) + Len(s)) /\ h[i] = g[i]
      BY <1>0, <1>1, <1>6, <2>1, <2>2
    <3>2. i <= n => i \in 1..n
      BY <1>1
    <3>3. QED
      BY <1>2, <1>5, <2>1, <2>2, <3>1, <3>2
  <2>3. CASE ~(i <= e)
    <3>1. h[i] = z[i - e]
      <4>1. h[i] = IF i <= Len(g) THEN g[i] ELSE z[i - Len(g)]
        BY <1>6, <2>1
      <4>2. QED
        BY <2>1, <2>3, <4>1, Zenon
    <3>2. i - e \in 1..Len(z) /\ e + (i - e) = i /\ ~(i <= n)
      <4>1. i \in Nat /\ e \in Nat /\ Len(z) \in Nat /\ n \in Nat
            /\ i <= e + Len(z) /\ n <= e /\ i > e
        BY <1>0, <1>1, <1>3, <2>1, <2>3, LenProperties
      <4>2. QED
        BY <4>1
    <3>3. QED
      BY <1>3, <2>3, <3>1, <3>2
  <2>4. QED
    BY <2>2, <2>3
<1>9. QED
  BY <1>0, <1>1, <1>4, <1>6, <1>7, <1>8

(* The screen shows a line, and blanks behind it. *)
Cells == Typed \cup {Space}
Screen == [cells : Seq(Cells), col : Nat]
Shows(t, line) ==
    /\ Len(line) <= Len(t.cells)
    /\ \A i \in 1..Len(t.cells) :
         t.cells[i] = IF i <= Len(line) THEN line[i] ELSE Space

(* Writing the rest of a line, where nothing before it differs and nothing *)
(* of the old line stays behind it, shows that line.                       *)
LEMMA Echo ==
    ASSUME NEW t \in Screen, NEW old \in Seq(Typed), NEW new \in Seq(Typed),
           NEW s \in Seq(Cells), Shows(t, old),
           t.col <= Len(old), t.col <= Len(new),
           \A i \in 1..t.col : new[i] = old[i],
           \A i \in 1..Len(s) : s[i] = IF t.col + i <= Len(new)
                                       THEN new[t.col + i] ELSE Space,
           \/ t.col + Len(s) >= Len(old) /\ t.col + Len(s) >= Len(new)
           \/ new = old /\ t.col + Len(s) <= Len(new)
    PROVE  /\ Show(t, s) \in Screen /\ Show(t, s).col = t.col + Len(s)
           /\ Shows(Show(t, s), new)
<1> DEFINE u == Show(t, s)
           n == t.col
           c == t.cells
<1>1. /\ Len(s) \in Nat /\ Len(old) \in Nat /\ Len(new) \in Nat
      /\ c \in Seq(Cells) /\ Len(c) \in Nat /\ n \in 0..Len(c)
      /\ Len(old) <= Len(c)
  BY LenProperties DEF Screen, Shows
<1>2. /\ u \in Screen /\ u.col = n + Len(s)
      /\ Len(u.cells) = IF n + Len(s) <= Len(c) THEN Len(c) ELSE n + Len(s)
      /\ \A i \in 1..Len(u.cells) : u.cells[i] =
           IF i <= n THEN c[i] ELSE IF i <= n + Len(s) THEN s[i - n] ELSE c[i]
  <2>1. t.cells \in Seq(Cells) /\ t.col \in 0..Len(t.cells)
    BY <1>1
  <2>2. QED
    BY <2>1, ShowElements DEF Screen
<1> HIDE DEF u
<1>3. Len(new) <= Len(u.cells)
  BY <1>1, <1>2
<1>4. ASSUME NEW i \in 1..Len(u.cells)
      PROVE  u.cells[i] = IF i <= Len(new) THEN new[i] ELSE Space
  <2>1. CASE i <= n
    <3>1. i \in 1..n /\ i \in 1..Len(c) /\ i <= Len(old) /\ i <= Len(new)
      BY <1>1, <2>1
    <3>2. QED
      BY <1>2, <2>1, <3>1 DEF Shows
  <2>2. CASE n < i /\ i <= n + Len(s)
    <3>1. i - n \in 1..Len(s) /\ n + (i - n) = i /\ ~(i <= n)
      BY <1>1, <2>2
    <3>2. QED
      BY <1>2, <2>2, <3>1
  <2>3. CASE n + Len(s) < i
    <3>1. /\ i \in 1..Len(c) /\ ~(i <= n) /\ ~(i <= n + Len(s))
          /\ (i <= Len(old)) = (i <= Len(new))
      BY <1>1, <1>2, <2>3
    <3>2. c[i] = IF i <= Len(old) THEN old[i] ELSE Space
      BY <3>1 DEF Shows
    <3>3. i <= Len(new) => new = old
      BY <1>1, <2>3
    <3>4. QED
      BY <1>2, <3>1, <3>2, <3>3
  <2>4. QED
    BY <1>1, <2>1, <2>2, <2>3
<1>5. QED
  BY <1>2, <1>3, <1>4 DEF Shows, u

-----------------------------------------------------------------------------
(* The history                                                             *)

(* A number below the modulus is its own remainder, and so is what is left *)
(* of a number below its double.                                           *)
LEMMA Remainder ==
    ASSUME NEW H \in Nat \ {0}, NEW x \in 0..(2 * H - 1)
    PROVE  x % H = IF x < H THEN x ELSE x - H
<1>1. CASE x < H
  BY <1>1, SMT
<1>2. CASE x >= H
  BY <1>2, SMT
<1>3. QED
  BY <1>1, <1>2

Lines == {s \in Seq(Typed) : Len(s) < LineLen}

(* The ring holds lines that fit into the buffer. *)
HistoryInv ==
    /\ num_lines \in 0..HistoryLen
    /\ newest_line \in 0..HistoryLen
    /\ HistoryLen > 0 => newest_line < HistoryLen
    /\ history \in [0..(HistoryLen - 1) -> Lines]

(* Counted back from the newest line, the ring's index stays in the ring. *)
LEMMA RingIndex ==
    ASSUME NEW H \in Nat \ {0}, NEW a \in 0..(H - 1), NEW k \in 0..(H - 1)
    PROVE  /\ (a + H - k) % H = IF k <= a THEN a - k ELSE a + H - k
           /\ (a + H - k) % H \in 0..(H - 1)
<1>1. a + H - k \in 0..(2 * H - 1)
  OBVIOUS
<1>2. (a + H - k) % H = IF a + H - k < H THEN a + H - k ELSE (a + H - k) - H
  BY <1>1, Remainder
<1>3. CASE k <= a
  BY <1>2, <1>3
<1>4. CASE k > a
  BY <1>2, <1>4
<1>5. QED
  BY <1>3, <1>4

(* Whatever line is recalled fits, if only the empty one. *)
LEMMA LoadedLine ==
    ASSUME HistoryInv, NEW k \in Nat
    PROVE  HistoryLoadLine(k) \in Lines
<1>1. <<>> \in Lines
  BY ConsoleAssumption, EmptySeq DEF Lines
<1>2. CASE k < num_lines
  <2>1. /\ HistoryLen \in Nat \ {0} /\ k \in 0..(HistoryLen - 1)
        /\ newest_line \in 0..(HistoryLen - 1)
    BY <1>2, ConsoleAssumption DEF HistoryInv
  <2>2. (newest_line + HistoryLen - k) % HistoryLen \in 0..(HistoryLen - 1)
    BY <2>1, RingIndex
  <2>3. HistoryLoadLine(k)
          = history[(newest_line + HistoryLen - k) % HistoryLen]
    BY <1>2 DEF HistoryLoadLine, HistoryInv
  <2>4. QED
    BY <2>2, <2>3 DEF HistoryInv
<1>3. CASE k >= num_lines
  BY <1>1, <1>3 DEF HistoryLoadLine
<1>4. QED
  BY <1>2, <1>3 DEF HistoryInv

(* Storing a line keeps the ring as it should be. *)
LEMMA StoreKeeps ==
    ASSUME HistoryInv, NEW s \in Lines, HistoryStoreLine(s)
    PROVE  HistoryInv' /\ num_lines <= num_lines'
<1>1. CASE HistoryLen > 0
  <2>1. /\ HistoryLen \in Nat \ {0} /\ newest_line \in 0..(HistoryLen - 1)
        /\ newest_line + 1 \in 0..(2 * HistoryLen - 1)
    BY <1>1, ConsoleAssumption DEF HistoryInv
  <2>2. (newest_line + 1) % HistoryLen \in 0..(HistoryLen - 1)
    BY <2>1, Remainder
  <2>3. /\ newest_line' = (newest_line + 1) % HistoryLen
        /\ history' = [history EXCEPT ![newest_line'] = s]
        /\ num_lines' = IF num_lines < HistoryLen THEN num_lines + 1
                                                  ELSE num_lines
    BY <1>1 DEF HistoryStoreLine
  <2> HIDE DEF HistoryStoreLine
  <2>4. newest_line' \in 0..(HistoryLen - 1)
    BY <2>2, <2>3
  <2>5. history' \in [0..(HistoryLen - 1) -> Lines]
    BY <2>3 DEF HistoryInv
  <2>6. num_lines' \in 0..HistoryLen /\ num_lines <= num_lines'
    BY <2>1, <2>3 DEF HistoryInv
  <2>7. QED
    BY <2>1, <2>4, <2>5, <2>6 DEF HistoryInv
<1>2. CASE ~(HistoryLen > 0)
  BY <1>2, ConsoleAssumption DEF HistoryStoreLine, HistoryInv, historyVars
<1>3. QED
  BY <1>1, <1>2

-----------------------------------------------------------------------------
(* The line                                                                *)

(* The terminal shows the line, with its column at the cursor. *)
LineInv ==
    /\ buffer \in Lines /\ cursor \in 0..Len(buffer)
    /\ current_line \in 0..num_lines
    /\ term \in Screen /\ term.col = cursor /\ Shows(term, buffer)

(* Moving the column changes no cell. *)
LEMMA ColumnMoves ==
    ASSUME NEW t \in Screen, NEW n \in 0..t.col
    PROVE  /\ Back(t, n) \in Screen /\ Back(t, n).col = t.col - n
           /\ ToPrompt(t) \in Screen /\ ToPrompt(t).col = 0
           /\ \A line : Shows(t, line) =>
                Shows(Back(t, n), line) /\ Shows(ToPrompt(t), line)
<1>1. t.col \in Nat /\ t.col - n \in Nat
  BY DEF Screen
<1>2. Back(t, n) \in Screen /\ Back(t, n).col = t.col - n
      /\ Back(t, n).cells = t.cells
  BY <1>1 DEF Back, Screen
<1>3. ToPrompt(t) \in Screen /\ ToPrompt(t).col = 0
      /\ ToPrompt(t).cells = t.cells
  BY DEF ToPrompt, Screen
<1>4. QED
  BY <1>2, <1>3 DEF Shows

(* Blanks are blank. *)
LEMMA SpacesElements ==
    ASSUME NEW n \in Nat
    PROVE  /\ Spaces(n) \in Seq(Cells) /\ Len(Spaces(n)) = n
           /\ \A i \in 1..n : Spaces(n)[i] = Space
BY DEF Spaces, Cells

(* A line is a sequence of characters that the terminal may show. *)
LEMMA LineCells ==
    ASSUME NEW s \in Seq(Typed)
    PROVE  s \in Seq(Cells)
BY DEF Cells

(* A line of the history takes the place of a longer or a shorter one. *)
LEMMA LoadKeeps ==
    ASSUME LineInv, HistoryInv, NEW n \in 0..num_lines, LoadLine(n),
           UNCHANGED num_lines
    PROVE  LineInv'
<1> DEFINE new == IF n > 0 THEN HistoryLoadLine(n - 1) ELSE <<>>
           rest == IF Len(buffer) > Len(new) THEN Len(buffer) - Len(new) ELSE 0
           t == ToPrompt(term)
           s == new \o Spaces(rest)
           u == Show(t, s)
<1>1. new \in Lines
  <2>1. <<>> \in Lines
    BY ConsoleAssumption, EmptySeq DEF Lines
  <2>2. n > 0 => n - 1 \in Nat
    BY DEF HistoryInv
  <2>3. QED
    BY <2>1, <2>2, LoadedLine
<1>2. buffer' = new /\ cursor' = Len(new) /\ current_line' = n
      /\ term' = Back(u, rest)
  BY DEF LoadLine
<1> HIDE DEF new
<1>3. /\ new \in Seq(Typed) /\ buffer \in Seq(Typed) /\ new \in Seq(Cells)
      /\ Len(new) \in Nat /\ Len(buffer) \in Nat /\ rest \in Nat
      /\ Len(new) + rest >= Len(buffer)
  BY <1>1, LenProperties, LineCells DEF Lines, LineInv
<1> HIDE DEF rest
<1>4. t \in Screen /\ t.col = 0 /\ Shows(t, buffer)
  <2>1. 0 \in 0..term.col
    BY DEF LineInv, Screen
  <2>2. QED
    BY <2>1, ColumnMoves DEF LineInv
<1> HIDE DEF t
<1>5. /\ s \in Seq(Cells) /\ Len(s) = Len(new) + rest
      /\ \A i \in 1..Len(s) : s[i] = IF i <= Len(new) THEN new[i] ELSE Space
  <2>1. /\ Spaces(rest) \in Seq(Cells) /\ Len(Spaces(rest)) = rest
        /\ \A i \in 1..rest : Spaces(rest)[i] = Space
    BY <1>3, SpacesElements
  <2>2. /\ s \in Seq(Cells) /\ Len(s) = Len(new) + Len(Spaces(rest))
        /\ \A i \in 1..(Len(new) + Len(Spaces(rest))) : s[i] =
             IF i <= Len(new) THEN new[i] ELSE Spaces(rest)[i - Len(new)]
    BY <1>3, <2>1, ConcatProperties
  <2> HIDE DEF s
  <2>3. ASSUME NEW i \in 1..Len(s), ~(i <= Len(new)) PROVE s[i] = Space
    <3>1. i - Len(new) \in 1..rest
      BY <1>3, <2>1, <2>2, <2>3
    <3>2. QED
      BY <2>1, <2>2, <2>3, <3>1
  <2>4. QED
    BY <2>1, <2>2, <2>3
<1> HIDE DEF s
<1>6. /\ u \in Screen /\ u.col = Len(new) + rest /\ Shows(u, new)
  <2>1. /\ t.col <= Len(buffer) /\ t.col <= Len(new)
        /\ \A i \in 1..t.col : new[i] = buffer[i]
        /\ \A i \in 1..Len(s) : s[i] = IF t.col + i <= Len(new)
                                       THEN new[t.col + i] ELSE Space
        /\ t.col + Len(s) >= Len(buffer) /\ t.col + Len(s) >= Len(new)
        /\ t.col + Len(s) = Len(new) + rest
    BY <1>3, <1>4, <1>5
  <2>2. QED
    BY <1>3, <1>4, <1>5, <2>1, Echo
<1> HIDE DEF u
<1>7. term' \in Screen /\ term'.col = Len(new) /\ Shows(term', new)
  <2>1. rest \in 0..u.col /\ u.col - rest = Len(new)
    BY <1>3, <1>6
  <2>2. QED
    BY <1>2, <1>6, <2>1, ColumnMoves
<1>8. QED
  BY <1>1, <1>2, <1>3, <1>7 DEF LineInv

(* A character goes in; the ones behind it are written again. *)
LEMMA InsertKeeps ==
    ASSUME LineInv, HistoryInv, NEW c \in Typed, Len(buffer) + 1 < LineLen,
           InsertChar(c), UNCHANGED num_lines
    PROVE  LineInv'
<1> DEFINE new == InsertAt(buffer, cursor + 1, c)
           s == From(new, cursor)
           u == Show(term, s)
<1>0. /\ buffer \in Seq(Typed) /\ Len(buffer) \in Nat
      /\ cursor \in 0..Len(buffer) /\ num_lines \in Nat
      /\ cursor + 1 \in 1..(Len(buffer) + 1)
  BY LenProperties DEF LineInv, HistoryInv, Lines
<1>1. /\ new \in Seq(Typed) /\ Len(new) = Len(buffer) + 1
      /\ \A j \in 1..(Len(buffer) + 1) : new[j] =
           IF j < cursor + 1 THEN buffer[j]
           ELSE IF j = cursor + 1 THEN c ELSE buffer[j - 1]
  BY <1>0, InsertElements
<1>2. /\ buffer' = new /\ cursor' = cursor + 1 /\ current_line' = 0
      /\ term' = Back(u, Len(new) - (cursor + 1))
  BY DEF InsertChar
<1> HIDE DEF new
<1>3. /\ s \in Seq(Cells) /\ Len(s) = Len(new) - cursor
      /\ \A j \in 1..Len(s) : s[j] = new[cursor + j]
  <2>1. cursor \in 0..Len(new)
    BY <1>0, <1>1
  <2>2. QED
    BY <1>1, <2>1, FromElements, LineCells
<1> HIDE DEF s
<1>4. u \in Screen /\ u.col = Len(new) /\ Shows(u, new)
  <2>1. term \in Screen /\ term.col = cursor /\ Shows(term, buffer)
    BY DEF LineInv
  <2>2. /\ term.col <= Len(buffer) /\ term.col <= Len(new)
        /\ \A i \in 1..term.col : new[i] = buffer[i]
        /\ \A i \in 1..Len(s) : s[i] = IF term.col + i <= Len(new)
                                       THEN new[term.col + i] ELSE Space
        /\ term.col + Len(s) >= Len(buffer) /\ term.col + Len(s) >= Len(new)
        /\ term.col + Len(s) = Len(new)
    BY <1>0, <1>1, <1>3, <2>1
  <2>3. QED
    BY <1>0, <1>1, <1>3, <2>1, <2>2, Echo
<1> HIDE DEF u
<1>5. term' \in Screen /\ term'.col = cursor + 1 /\ Shows(term', new)
  <2>1. /\ Len(new) - (cursor + 1) \in 0..u.col
        /\ u.col - (Len(new) - (cursor + 1)) = cursor + 1
    BY <1>0, <1>1, <1>4
  <2>2. QED
    BY <1>2, <1>4, <2>1, ColumnMoves
<1>6. QED
  BY <1>0, <1>1, <1>2, <1>5 DEF LineInv, Lines

(* A character comes out; the ones behind it are written again, and a      *)
(* blank over the last.                                                    *)
LEMMA RemoveKeeps ==
    ASSUME LineInv, HistoryInv, NEW at \in 0..(Len(buffer) - 1),
           NEW t \in Screen, t.col = at, Shows(t, buffer),
           RemoveChar(at, t), UNCHANGED num_lines
    PROVE  LineInv'
<1> DEFINE new == RemoveAt(buffer, at + 1)
           r == From(new, at)
           s == r \o <<Space>>
           u == Show(t, s)
<1>0. /\ buffer \in Seq(Typed) /\ Len(buffer) \in Nat /\ num_lines \in Nat
      /\ at + 1 \in 1..Len(buffer) /\ at \in Nat
  BY LenProperties DEF LineInv, HistoryInv, Lines
<1>1. /\ new \in Seq(Typed) /\ Len(new) = Len(buffer) - 1
      /\ \A j \in 1..(Len(buffer) - 1) :
           new[j] = IF j < at + 1 THEN buffer[j] ELSE buffer[j + 1]
  BY <1>0, RemoveElements
<1>2. /\ buffer' = new /\ cursor' = at /\ current_line' = 0
      /\ term' = Back(Back(u, 1), Len(new) - at)
  BY DEF RemoveChar
<1> HIDE DEF new
<1>3. /\ r \in Seq(Cells) /\ Len(r) = Len(new) - at
      /\ \A j \in 1..Len(r) : r[j] = new[at + j]
  <2>1. at \in 0..Len(new)
    BY <1>0, <1>1
  <2>2. QED
    BY <1>1, <2>1, FromElements, LineCells
<1> HIDE DEF r
<1>4. /\ s \in Seq(Cells) /\ Len(s) = Len(buffer) - at
      /\ \A j \in 1..Len(s) : s[j] = IF at + j <= Len(new) THEN new[at + j]
                                                           ELSE Space
  <2>1. <<Space>> \in Seq(Cells) /\ Len(<<Space>>) = 1 /\ <<Space>>[1] = Space
    BY DEF Cells
  <2>2. /\ s \in Seq(Cells) /\ Len(s) = Len(r) + Len(<<Space>>)
        /\ \A j \in 1..(Len(r) + Len(<<Space>>)) :
             s[j] = IF j <= Len(r) THEN r[j] ELSE <<Space>>[j - Len(r)]
    BY <1>3, <2>1, ConcatProperties
  <2> HIDE DEF s
  <2>3. ASSUME NEW j \in 1..Len(s)
        PROVE  s[j] = IF at + j <= Len(new) THEN new[at + j] ELSE Space
    <3>1. CASE j <= Len(r)
      <4>1. j \in 1..Len(r) /\ at + j <= Len(new)
        BY <1>0, <1>1, <1>3, <3>1
      <4>2. j \in 1..(Len(r) + Len(<<Space>>))
        BY <1>3, <2>1, <2>2
      <4>3. QED
        BY <1>3, <2>2, <3>1, <4>1, <4>2
    <3>2. CASE ~(j <= Len(r))
      <4>1. Len(r) \in Nat /\ Len(new) \in Nat /\ Len(r) + at = Len(new)
        BY <1>0, <1>1, <1>3
      <4>2. j \in 1..(Len(r) + 1) /\ j \in 1..(Len(r) + Len(<<Space>>))
        BY <2>1, <2>2
      <4>3. j = Len(r) + 1
        BY <3>2, <4>1, <4>2
      <4>4. j - Len(r) = 1 /\ ~(at + j <= Len(new))
        BY <1>0, <4>1, <4>3
      <4>5. QED
        BY <2>1, <2>2, <3>2, <4>2, <4>4
    <3>3. QED
      BY <3>1, <3>2
  <2>4. QED
    BY <1>0, <1>1, <1>3, <2>1, <2>2, <2>3
<1> HIDE DEF s
<1>5. u \in Screen /\ u.col = Len(buffer) /\ Shows(u, new)
  <2>1. /\ t.col <= Len(buffer) /\ t.col <= Len(new)
        /\ \A i \in 1..t.col : new[i] = buffer[i]
        /\ \A i \in 1..Len(s) : s[i] = IF t.col + i <= Len(new)
                                       THEN new[t.col + i] ELSE Space
        /\ t.col + Len(s) >= Len(buffer) /\ t.col + Len(s) >= Len(new)
        /\ t.col + Len(s) = Len(buffer)
    <3>1. /\ t.col = at /\ Len(new) = Len(buffer) - 1
          /\ Len(s) = Len(buffer) - at
      BY <1>1, <1>4
    <3>2. \A i \in 1..at : i \in 1..(Len(buffer) - 1) /\ i < at + 1
      BY <1>0
    <3>3. \A i \in 1..at : new[i] = buffer[i]
      BY <1>1, <3>2
    <3>4. QED
      BY <1>0, <1>4, <3>1, <3>3
  <2>2. QED
    BY <1>0, <1>1, <1>4, <2>1, Echo
<1> HIDE DEF u
<1>6. /\ Back(u, 1) \in Screen /\ Back(u, 1).col = Len(new)
      /\ Shows(Back(u, 1), new)
  <2>1. 1 \in 0..u.col /\ u.col - 1 = Len(new)
    BY <1>0, <1>1, <1>5
  <2>2. QED
    BY <1>5, <2>1, ColumnMoves
<1>7. term' \in Screen /\ term'.col = at /\ Shows(term', new)
  <2>1. Len(new) - at \in 0..Back(u, 1).col /\ Len(new) - (Len(new) - at) = at
    BY <1>0, <1>1, <1>6
  <2>2. QED
    BY <1>2, <1>6, <2>1, ColumnMoves
<1>8. QED
  <2>1. new \in Lines /\ at \in 0..Len(new)
    BY <1>0, <1>1, ConsoleAssumption DEF Lines, LineInv
  <2>2. QED
    BY <1>0, <1>2, <1>7, <2>1 DEF LineInv

(* The cursor moves with the column, over the line as it is. *)
LEMMA MoveKeeps ==
    ASSUME LineInv, NEW at \in 0..Len(buffer), NEW t \in Screen, t.col = at,
           Shows(t, buffer), MoveTo(at, t), UNCHANGED num_lines
    PROVE  LineInv'
BY DEF LineInv, MoveTo

(* What follows the cursor, or a part of it, is written again. *)
LEMMA RightShows ==
    ASSUME LineInv, NEW s \in Seq(Cells), cursor + Len(s) <= Len(buffer),
           \A i \in 1..Len(s) : s[i] = buffer[cursor + i]
    PROVE  /\ Show(term, s) \in Screen
           /\ Show(term, s).col = cursor + Len(s)
           /\ Shows(Show(term, s), buffer)
<1>1. /\ buffer \in Seq(Typed) /\ Len(buffer) \in Nat /\ Len(s) \in Nat
      /\ cursor \in 0..Len(buffer)
      /\ term \in Screen /\ term.col = cursor /\ Shows(term, buffer)
  BY LenProperties DEF LineInv, Lines
<1>2. /\ term.col <= Len(buffer)
      /\ \A i \in 1..term.col : buffer[i] = buffer[i]
      /\ \A i \in 1..Len(s) : s[i] = IF term.col + i <= Len(buffer)
                                     THEN buffer[term.col + i] ELSE Space
      /\ term.col + Len(s) <= Len(buffer)
  BY <1>1
<1>3. QED
  BY <1>1, <1>2, Echo

(* What a key may do that is not a newline. *)
Typing == \E c \in Typed : Len(buffer) + 1 < LineLen /\ InsertChar(c)
Edits == \/ DoHome \/ DoEnd \/ DoUp \/ DoDown \/ DoLeft \/ DoRight
         \/ DoDelete \/ DoBackspace \/ Bell \/ Typing

(* Whatever key edits the line or recalls one, the screen shows it. *)
LEMMA EditKeeps ==
    ASSUME LineInv, HistoryInv, UNCHANGED num_lines, Edits
    PROVE  LineInv'
<1>0. /\ buffer \in Seq(Typed) /\ Len(buffer) \in Nat
      /\ cursor \in 0..Len(buffer)
      /\ term \in Screen /\ term.col = cursor /\ Shows(term, buffer)
      /\ num_lines \in Nat /\ current_line \in 0..num_lines
  BY LenProperties DEF LineInv, HistoryInv, Lines
<1>a. cursor > 0 => /\ Back(term, 1) \in Screen
                    /\ Back(term, 1).col = cursor - 1
                    /\ Shows(Back(term, 1), buffer)
  <2>1. cursor > 0 => 1 \in 0..term.col
    BY <1>0
  <2>2. QED
    BY <1>0, <2>1, ColumnMoves
<1>1. CASE Bell
  BY <1>1 DEF Bell, LineInv, lineVars
<1>2. CASE DoHome
  <2>1. /\ ToPrompt(term) \in Screen /\ ToPrompt(term).col = 0
        /\ Shows(ToPrompt(term), buffer)
    <3>1. 0 \in 0..term.col
      BY <1>0
    <3>2. QED
      BY <1>0, <3>1, ColumnMoves
  <2>2. 0 \in 0..Len(buffer)
    BY <1>0
  <2>3. QED
    BY <1>2, <2>1, <2>2, MoveKeeps DEF DoHome
<1>3. CASE DoEnd
  <2> DEFINE s == From(buffer, cursor)
  <2>1. /\ s \in Seq(Cells) /\ Len(s) = Len(buffer) - cursor
        /\ \A i \in 1..Len(s) : s[i] = buffer[cursor + i]
    <3>1. /\ s \in Seq(Typed) /\ Len(s) = Len(buffer) - cursor
          /\ \A i \in 1..(Len(buffer) - cursor) : s[i] = buffer[cursor + i]
      BY <1>0, FromElements
    <3> HIDE DEF s
    <3>2. QED
      BY <3>1, LineCells
  <2>2. cursor + Len(s) = Len(buffer)
    BY <1>0, <2>1
  <2>3. MoveTo(Len(buffer), Show(term, s))
    BY <1>3 DEF DoEnd
  <2> HIDE DEF s
  <2>4. /\ Show(term, s) \in Screen /\ Show(term, s).col = Len(buffer)
        /\ Shows(Show(term, s), buffer)
    BY <1>0, <2>1, <2>2, RightShows
  <2>5. Len(buffer) \in 0..Len(buffer)
    BY <1>0
  <2>6. QED
    BY <2>3, <2>4, <2>5, MoveKeeps
<1>4. CASE DoRight /\ cursor < Len(buffer)
  <2> DEFINE s == <<buffer[cursor + 1]>>
  <2>1. cursor + 1 \in 1..Len(buffer)
    BY <1>0, <1>4
  <2>2. buffer[cursor + 1] \in Cells
    BY <1>0, <2>1, ElementOfSeq DEF Cells
  <2>3. /\ s \in Seq(Cells) /\ Len(s) = 1
        /\ \A i \in 1..Len(s) : s[i] = buffer[cursor + i]
    BY <2>2
  <2>4. MoveTo(cursor + 1, Show(term, s))
    BY <1>4 DEF DoRight
  <2> HIDE DEF s
  <2>5. /\ Show(term, s) \in Screen /\ Show(term, s).col = cursor + 1
        /\ Shows(Show(term, s), buffer)
    <3>1. cursor + Len(s) <= Len(buffer) /\ cursor + Len(s) = cursor + 1
      BY <1>0, <1>4, <2>3
    <3>2. QED
      BY <2>3, <3>1, RightShows
  <2>6. cursor + 1 \in 0..Len(buffer)
    BY <1>0, <1>4
  <2>7. QED
    BY <2>4, <2>5, <2>6, MoveKeeps
<1>5. CASE DoUp /\ current_line < num_lines
  <2>1. current_line + 1 \in 0..num_lines /\ LoadLine(current_line + 1)
    BY <1>0, <1>5 DEF DoUp
  <2>2. QED
    BY <2>1, LoadKeeps
<1>6. CASE DoDown /\ current_line > 0
  <2>1. current_line - 1 \in 0..num_lines /\ LoadLine(current_line - 1)
    BY <1>0, <1>6 DEF DoDown
  <2>2. QED
    BY <2>1, LoadKeeps
<1>7. CASE DoLeft /\ cursor > 0
  <2>1. cursor - 1 \in 0..Len(buffer) /\ MoveTo(cursor - 1, Back(term, 1))
    BY <1>0, <1>7 DEF DoLeft
  <2>2. QED
    BY <1>a, <1>7, <2>1, MoveKeeps
<1>8. CASE DoDelete /\ cursor < Len(buffer)
  <2>1. cursor \in 0..(Len(buffer) - 1) /\ RemoveChar(cursor, term)
    BY <1>0, <1>8 DEF DoDelete
  <2>2. QED
    BY <1>0, <2>1, RemoveKeeps
<1>9. CASE DoBackspace /\ cursor > 0
  <2>1. /\ cursor - 1 \in 0..(Len(buffer) - 1)
        /\ RemoveChar(cursor - 1, Back(term, 1))
    BY <1>0, <1>9 DEF DoBackspace
  <2>2. QED
    BY <1>a, <1>9, <2>1, RemoveKeeps
<1>10. CASE Typing
  BY <1>10, InsertKeeps DEF Typing
<1>11. QED
  BY <1>1, <1>2, <1>3, <1>4, <1>5, <1>6, <1>7, <1>8, <1>9, <1>10
  DEF Edits, DoUp, DoDown, DoLeft, DoRight, DoDelete, DoBackspace

(* A newline stores the line, or not, and begins an empty one. *)
LEMMA NewlineKeeps ==
    ASSUME LineInv, HistoryInv, DoNewline
    PROVE  LineInv' /\ HistoryInv'
<1>1. HistoryInv' /\ num_lines <= num_lines'
  <2>1. HistoryStoreLine(buffer) \/ UNCHANGED historyVars
    BY DEF DoNewline, DoEnter, historyVars
  <2>2. CASE HistoryStoreLine(buffer)
    BY <2>2, StoreKeeps DEF LineInv
  <2>3. CASE UNCHANGED historyVars
    BY <2>3, ConsoleAssumption DEF HistoryInv, historyVars
  <2>4. QED
    BY <2>1, <2>2, <2>3
<1>2. /\ buffer' = <<>> /\ cursor' = 0 /\ term' = NewLine
      /\ current_line' \in {0, current_line}
  BY DEF DoNewline, DoEnter
<1>3. <<>> \in Lines /\ Len(<<>>) = 0 /\ <<>> \in Seq(Cells)
  BY ConsoleAssumption DEF Lines
<1>4. NewLine \in Screen /\ NewLine.col = 0 /\ Shows(NewLine, <<>>)
  BY <1>3 DEF NewLine, Screen, Shows
<1>5. current_line' \in 0..num_lines'
  BY <1>1, <1>2 DEF LineInv, HistoryInv
<1>6. QED
  BY <1>1, <1>2, <1>3, <1>4, <1>5 DEF LineInv

-----------------------------------------------------------------------------
(* Every step                                                              *)

EscInv == /\ in_esc \in BOOLEAN /\ esc_last \in Digits \cup {"other"}
          /\ NoStaleParam

(* console_deinit succeeds only once the thread has ended. *)
ThreadInv ==
    /\ quit \in BOOLEAN /\ thread \in {"running", "ended"}
    /\ deinit \in {"no", "waiting", "failed", "done"}
    /\ deinit = "done" => thread = "ended"

Inv == LineInv /\ HistoryInv /\ EscInv /\ ThreadInv

(* A key edits the line, is a newline, or leaves the line alone; and only  *)
(* a running thread takes a key.                                           *)
LEMMA StepKinds ==
    ASSUME [Next]_vars
    PROVE  \/ Edits /\ UNCHANGED historyVars
           \/ DoNewline
           \/ UNCHANGED <<lineVars, historyVars>>
<1>1. CASE \E c \in Typed : TypeChar(c)
  BY <1>1, Zenon DEF TypeChar, Plain, Edits, Typing
<1>2. CASE \E c \in Controls : Control(c)
  BY <1>2, Zenon DEF Control, Plain, Edits
<1>3. CASE \E c \in EscKeys : EscSeq(c)
  <2>1. PICK c \in EscKeys : EscSeq(c)
    BY <1>3
  <2>2. CASE c = "~"
    <3>1. DoHome \/ DoDelete \/ DoEnd \/ Bell
      BY <2>1, <2>2 DEF EscSeq, Params, Digits, Bell
    <3>2. QED
      BY <2>1, <3>1, Zenon DEF EscSeq, Edits
  <2>3. CASE c # "~"
    BY <2>1, <2>3, Zenon DEF EscSeq, Edits
  <2>4. QED
    BY <2>2, <2>3
<1>4. CASE Enter
  BY <1>4, Zenon DEF Enter
<1>5. CASE \/ Escape \/ ReceiveTimeout \/ Deinit \/ DeinitDone
           \/ DeinitTimesOut \/ UNCHANGED vars
  BY <1>5
  DEF Escape, ReceiveTimeout, Deinit, DeinitDone, DeinitTimesOut, vars
<1>6. QED
  BY <1>1, <1>2, <1>3, <1>4, <1>5 DEF Next

(* Neither the thread nor console_deinit changes while a key is handled,   *)
(* and the line only while the thread runs.                                *)
LEMMA ThreadStep ==
    ASSUME ThreadInv, [Next]_vars
    PROVE  /\ ThreadInv'
           /\ \/ thread = "running" /\ UNCHANGED threadVars
              \/ UNCHANGED <<lineVars, historyVars, escVars>>
<1>1. CASE \/ ReceiveTimeout \/ Deinit \/ DeinitDone \/ DeinitTimesOut
           \/ UNCHANGED vars
  BY <1>1
  DEF ThreadInv, ReceiveTimeout, Deinit, DeinitDone, DeinitTimesOut, vars,
      threadVars
<1>2. CASE Receive
  BY <1>2 DEF Receive, ThreadInv, threadVars
<1>3. QED
  BY <1>1, <1>2 DEF Next, TypeChar, Control, Plain, EscSeq, Enter, Escape

(* An escape sequence ends with the last character forgotten. *)
LEMMA EscStep ==
    ASSUME EscInv, [Next]_vars
    PROVE  EscInv'
<1>1. CASE \E c \in EscKeys : EscSeq(c)
  <2>1. PICK c \in EscKeys : EscLast(c)
    BY <1>1 DEF EscSeq
  <2>2. in_esc' = (c \in Params)
        /\ esc_last' = IF c \in Digits THEN c ELSE "other"
    BY <2>1 DEF EscLast
  <2>3. in_esc' \in BOOLEAN
    <3>1. (c \in Params) \in BOOLEAN
      OBVIOUS
    <3>2. QED
      BY <2>2, <3>1, SMT
  <2>4. ~in_esc' => c \notin Params
    BY <2>2, Zenon
  <2>5. esc_last' \in Digits \cup {"other"}
    BY <2>2
  <2>6. ~in_esc' => esc_last' = "other"
    BY <2>2, <2>4 DEF Params
  <2>7. QED
    BY <2>3, <2>5, <2>6, Zenon DEF EscInv, NoStaleParam
<1>2. CASE Escape
  BY <1>2 DEF Escape, EscInv, NoStaleParam
<1>3. CASE UNCHANGED escVars
  BY <1>3 DEF EscInv, NoStaleParam, escVars
<1>4. QED
  BY <1>1, <1>2, <1>3
  DEF Next, TypeChar, Control, Plain, Enter, ReceiveTimeout, Deinit,
      DeinitDone, DeinitTimesOut, vars

(* The invariant holds in every run. *)
LEMMA InvHolds == Spec => []Inv
<1>1. Init => Inv
  <2> SUFFICES ASSUME Init PROVE Inv
    OBVIOUS
  <2>1. <<>> \in Lines /\ Len(<<>>) = 0 /\ <<>> \in Seq(Cells)
    BY ConsoleAssumption DEF Lines
  <2>2. term \in Screen /\ term.col = 0 /\ Shows(term, <<>>)
    BY <2>1 DEF Init, Screen, Shows
  <2>3. HistoryInv
    BY <2>1, ConsoleAssumption DEF Init, HistoryInv
  <2>4. LineInv
    BY <2>1, <2>2, <2>3 DEF Init, LineInv, HistoryInv
  <2>5. EscInv /\ ThreadInv
    BY DEF Init, EscInv, NoStaleParam, ThreadInv
  <2>6. QED
    BY <2>3, <2>4, <2>5 DEF Inv
<1>2. Inv /\ [Next]_vars => Inv'
  <2> SUFFICES ASSUME Inv, [Next]_vars PROVE Inv'
    OBVIOUS
  <2>1. EscInv' /\ ThreadInv'
    BY EscStep, ThreadStep DEF Inv
  <2>2. CASE Edits /\ UNCHANGED historyVars
    <3>1. HistoryInv' /\ UNCHANGED num_lines
      BY <2>2 DEF Inv, HistoryInv, historyVars
    <3>2. LineInv'
      BY <2>2, <3>1, EditKeeps DEF Inv
    <3>3. QED
      BY <2>1, <3>1, <3>2 DEF Inv
  <2>3. CASE DoNewline
    BY <2>1, <2>3, NewlineKeeps DEF Inv
  <2>4. CASE UNCHANGED <<lineVars, historyVars>>
    BY <2>1, <2>4 DEF Inv, LineInv, HistoryInv, lineVars, historyVars
  <2>5. QED
    BY <2>2, <2>3, <2>4, StepKinds
<1>3. QED
  BY <1>1, <1>2, PTL DEF Spec

(* The line never fills the buffer to its last byte, the cursor stays in   *)
(* it and the ring's indices in the ring (js_console.c).                   *)
THEOREM TypeOKHolds == Spec => []TypeOK
<1>1. Inv => TypeOK
  <2> SUFFICES ASSUME Inv PROVE TypeOK
    OBVIOUS
  <2>1. /\ buffer \in Seq(Typed) /\ Len(buffer) < LineLen
        /\ cursor \in 0..Len(buffer)
        /\ term.cells \in Seq(Cells) /\ term.col = cursor
        /\ Len(buffer) <= Len(term.cells)
    BY DEF Inv, LineInv, Lines, Screen, Shows
  <2>2. term.col \in 0..Len(term.cells)
    BY <2>1, LenProperties
  <2>3. history \in [0..(HistoryLen - 1) -> Seq(Typed)]
    BY DEF Inv, HistoryInv, Lines
  <2>4. current_line \in 0..HistoryLen
    BY ConsoleAssumption DEF Inv, LineInv, HistoryInv
  <2>5. QED
    BY <2>1, <2>2, <2>3, <2>4
    DEF Inv, HistoryInv, EscInv, ThreadInv, TypeOK, Cells
<1>2. QED
  BY <1>1, InvHolds, PTL

(* Whatever mix of edits and recalled lines: what console_thread_func has  *)
(* echoed is the line that a newline will run, the cursor in its place.    *)
THEOREM ScreenShowsLineHolds == Spec => []ScreenShowsLine
<1>1. Inv => ScreenShowsLine
  <2> SUFFICES ASSUME Inv PROVE ScreenShowsLine
    OBVIOUS
  <2> DEFINE c == term.cells
             n == Len(buffer)
  <2>1. /\ buffer \in Seq(Cells) /\ c \in Seq(Cells)
        /\ n \in Nat /\ Len(c) \in Nat /\ n <= Len(c) /\ term.col = cursor
        /\ \A i \in 1..Len(c) : c[i] = IF i <= n THEN buffer[i] ELSE Space
    BY LineCells, LenProperties DEF Inv, LineInv, Lines, Screen, Shows
  <2>2. SubSeq(buffer, 1, n) = buffer
    BY <2>1, SubSeqFull
  <2>3. SubSeq(c, 1, n) = buffer
    <3> DEFINE a == SubSeq(c, 1, n)
    <3>1. n \in (1 - 1)..Len(c) /\ 1 \in 1..(Len(c) + 1)
      BY <2>1
    <3>2. /\ a \in Seq(Cells) /\ Len(a) = n - 1 + 1
          /\ \A i \in 1..(n - 1 + 1) : a[i] = c[1 + i - 1]
      BY <2>1, <3>1, PartElements
    <3> HIDE DEF a
    <3>3. Len(a) = n /\ \A i \in 1..n : a[i] = buffer[i]
      BY <2>1, <3>2
    <3>4. a = buffer
      BY <2>1, <3>2, <3>3, SeqEqual
    <3>5. QED
      BY <3>4 DEF a
  <2>4. ToSet(From(c, n)) \subseteq {Space}
    <3> DEFINE z == From(c, n)
    <3>1. n \in 0..Len(c)
      BY <2>1
    <3>2. /\ z \in Seq(Cells) /\ Len(z) = Len(c) - n
          /\ \A i \in 1..(Len(c) - n) : z[i] = c[n + i]
      BY <2>1, <3>1, FromElements
    <3> HIDE DEF z
    <3>3. \A i \in 1..Len(z) : z[i] = Space
      BY <2>1, <3>2
    <3>4. QED
      BY <3>2, <3>3, LenProperties DEF ToSet, z
  <2>5. QED
    BY <2>1, <2>2, <2>3, <2>4 DEF ScreenShowsLine, IsPrefix
<1>2. QED
  BY <1>1, InvHolds, PTL

(* No escape sequence gets its meaning from a digit of an earlier one.     *)
THEOREM NoStaleParamHolds == Spec => []NoStaleParam
<1>1. Inv => NoStaleParam
  BY DEF Inv, EscInv
<1>2. QED
  BY <1>1, InvHolds, PTL

(* After console_deinit has returned success no key changes the line, the  *)
(* history or the escape state: their memory may be reused.                *)
THEOREM QuietAfterDeinitHolds == Spec => QuietAfterDeinit
<1>1. Inv /\ [Next]_vars =>
        [deinit = "done" => UNCHANGED <<lineVars, historyVars, escVars>>]_vars
  BY ThreadStep DEF Inv, ThreadInv
<1>2. QED
  BY <1>1, InvHolds, PTL DEF Spec, QuietAfterDeinit

-----------------------------------------------------------------------------
(* The console is a line editor                                            *)

(* The past is a sequence of lines, the newest first. *)
LEMMA PastElements ==
    ASSUME HistoryInv
    PROVE  /\ Past \in Seq(Lines) /\ Len(Past) = num_lines
           /\ \A i \in 1..num_lines : Past[i] = HistoryLoadLine(i - 1)
<1>1. num_lines \in Nat
  BY DEF HistoryInv
<1>2. \A i \in 1..num_lines : HistoryLoadLine(i - 1) \in Lines
  <2> SUFFICES ASSUME NEW i \in 1..num_lines
               PROVE  HistoryLoadLine(i - 1) \in Lines
    OBVIOUS
  <2>1. i - 1 \in Nat
    BY <1>1
  <2>2. QED
    BY <2>1, LoadedLine
<1>3. QED
  BY <1>1, <1>2 DEF Past

(* A line that is stored comes first in the ring, and the others follow as *)
(* before, but for the oldest of a full ring, which it replaces.           *)
LEMMA StoredLine ==
    ASSUME HistoryInv, HistoryLen > 0, NEW s \in Lines, HistoryStoreLine(s),
           NEW k \in 0..(num_lines' - 1)
    PROVE  HistoryLoadLine(k)' = IF k = 0 THEN s ELSE HistoryLoadLine(k - 1)
<1> DEFINE H == HistoryLen
           a == newest_line
           b == newest_line'
<1>1. /\ H \in Nat \ {0} /\ a \in 0..(H - 1) /\ num_lines \in 0..H
      /\ a + 1 \in 0..(2 * H - 1)
      /\ history \in [0..(H - 1) -> Lines]
  BY ConsoleAssumption DEF HistoryInv
<1>2. /\ b = (a + 1) % H
      /\ history' = [history EXCEPT ![b] = s]
      /\ num_lines' = IF num_lines < H THEN num_lines + 1 ELSE num_lines
  BY DEF HistoryStoreLine
<1>3. b = (IF a + 1 < H THEN a + 1 ELSE (a + 1) - H) /\ b \in 0..(H - 1)
  <2>1. (a + 1) % H = IF a + 1 < H THEN a + 1 ELSE (a + 1) - H
    BY <1>1, Remainder
  <2>2. QED
    BY <1>1, <1>2, <2>1
<1>4. k \in 0..(H - 1) /\ k < num_lines'
      /\ (k # 0 => k - 1 \in 0..(H - 1) /\ k - 1 < num_lines)
  BY <1>1, <1>2
<1>5. /\ (b + H - k) % H = IF k <= b THEN b - k ELSE b + H - k
      /\ (b + H - k) % H \in 0..(H - 1)
  BY <1>1, <1>3, <1>4, RingIndex
<1>6. HistoryLoadLine(k)' = history'[(b + H - k) % H]
  BY <1>1, <1>2, <1>4 DEF HistoryLoadLine
<1>7. CASE k = 0
  <2>1. (b + H - k) % H = b
    BY <1>3, <1>5, <1>7
  <2>2. QED
    BY <1>1, <1>2, <1>3, <1>6, <1>7, <2>1
<1>8. CASE k # 0
  <2>1. (a + H - (k - 1)) % H
          = IF k - 1 <= a THEN a - (k - 1) ELSE a + H - (k - 1)
    BY <1>1, <1>4, <1>8, RingIndex
  <2>2. HistoryLoadLine(k - 1) = history[(a + H - (k - 1)) % H]
    BY <1>1, <1>4, <1>8 DEF HistoryLoadLine
  <2>3. (b + H - k) % H = (a + H - (k - 1)) % H
    <3> PICK x : x = (b + H - k) % H
      OBVIOUS
    <3> PICK y : y = (a + H - (k - 1)) % H
      OBVIOUS
    <3>1. x = IF k <= b THEN b - k ELSE b + H - k
      BY <1>5
    <3>2. y = IF k - 1 <= a THEN a - (k - 1) ELSE a + H - (k - 1)
      BY <2>1
    <3>3. x = y
      BY <1>1, <1>3, <1>4, <1>8, <3>1, <3>2
    <3>4. QED
      BY <3>3
  <2>4. (b + H - k) % H # b
    BY <1>1, <1>3, <1>4, <1>5, <1>8
  <2>5. history'[(b + H - k) % H] = history[(b + H - k) % H]
    BY <1>1, <1>2, <1>5, <2>4
  <2>6. QED
    BY <1>6, <1>8, <2>2, <2>3, <2>5
<1>9. QED
  BY <1>7, <1>8

(* The past with a new line in front, cut to what the ring holds. *)
LEMMA StoredPast ==
    ASSUME HistoryInv, NEW s \in Lines, HistoryStoreLine(s)
    PROVE  Past' = SubSeq(<<s>> \o Past, 1,
                          IF Len(Past) < HistoryLen THEN Len(Past) + 1
                                                    ELSE HistoryLen)
<1> DEFINE n == IF Len(Past) < HistoryLen THEN Len(Past) + 1 ELSE HistoryLen
           w == <<s>> \o Past
<1>1. /\ Past \in Seq(Lines) /\ Len(Past) = num_lines /\ num_lines \in Nat
      /\ \A i \in 1..num_lines : Past[i] = HistoryLoadLine(i - 1)
      /\ num_lines <= HistoryLen /\ HistoryLen \in Nat
  BY PastElements, ConsoleAssumption DEF HistoryInv
<1>2. /\ w \in Seq(Lines) /\ Len(w) = num_lines + 1
      /\ \A i \in 1..(num_lines + 1) :
           w[i] = IF i <= 1 THEN s ELSE HistoryLoadLine(i - 2)
  <2>1. <<s>> \in Seq(Lines) /\ Len(<<s>>) = 1 /\ <<s>>[1] = s
    OBVIOUS
  <2>2. /\ w \in Seq(Lines) /\ Len(w) = Len(<<s>>) + Len(Past)
        /\ \A i \in 1..(Len(<<s>>) + Len(Past)) :
             w[i] = IF i <= Len(<<s>>) THEN <<s>>[i]
                                       ELSE Past[i - Len(<<s>>)]
    BY <1>1, <2>1, ConcatProperties
  <2> HIDE DEF w
  <2>3. ASSUME NEW i \in 1..(num_lines + 1)
        PROVE  w[i] = IF i <= 1 THEN s ELSE HistoryLoadLine(i - 2)
    <3>1. CASE i <= 1
      <4>1. i = 1 /\ i \in 1..(Len(<<s>>) + Len(Past))
        BY <1>1, <2>1, <3>1
      <4>2. QED
        BY <2>1, <2>2, <4>1
    <3>2. CASE ~(i <= 1)
      <4>1. /\ i - 1 \in 1..num_lines /\ (i - 1) - 1 = i - 2
            /\ i \in 1..(Len(<<s>>) + Len(Past))
        BY <1>1, <2>1, <3>2
      <4>2. w[i] = Past[i - 1]
        BY <2>1, <2>2, <3>2, <4>1
      <4>3. Past[i - 1] = HistoryLoadLine((i - 1) - 1)
        BY <1>1, <4>1
      <4>4. QED
        BY <3>2, <4>1, <4>2, <4>3
    <3>3. QED
      BY <3>1, <3>2
  <2>4. QED
    BY <1>1, <2>1, <2>2, <2>3
<1> HIDE DEF w
<1>3. n = num_lines' /\ n \in 0..(num_lines + 1)
  BY <1>1 DEF HistoryStoreLine, historyVars
<1>4. /\ SubSeq(w, 1, n) \in Seq(Lines) /\ Len(SubSeq(w, 1, n)) = n
      /\ \A i \in 1..n : SubSeq(w, 1, n)[i] = w[i]
  <2>1. 1 \in 1..(Len(w) + 1) /\ n \in (1 - 1)..Len(w) /\ n \in Nat
    BY <1>1, <1>2, <1>3
  <2> HIDE DEF n
  <2>2. /\ SubSeq(w, 1, n) \in Seq(Lines) /\ Len(SubSeq(w, 1, n)) = n - 1 + 1
        /\ \A i \in 1..(n - 1 + 1) : SubSeq(w, 1, n)[i] = w[1 + i - 1]
    BY <1>2, <2>1, PartElements
  <2>3. QED
    BY <2>1, <2>2
<1> HIDE DEF n
<1>5. Past' = [i \in 1..n |-> HistoryLoadLine(i - 1)']
  BY <1>3 DEF Past
<1>6. ASSUME NEW i \in 1..n
      PROVE  HistoryLoadLine(i - 1)' = w[i]
  <2>1. HistoryLen > 0 /\ i - 1 \in 0..(num_lines' - 1)
    BY <1>1, <1>3, <1>6 DEF n
  <2>2. HistoryLoadLine(i - 1)'
          = IF i - 1 = 0 THEN s ELSE HistoryLoadLine((i - 1) - 1)
    BY <2>1, StoredLine
  <2>3. i \in 1..(num_lines + 1) /\ (i - 1 = 0) = (i <= 1)
        /\ (i - 1) - 1 = i - 2
    BY <1>1, <1>3, <1>6
  <2>4. QED
    BY <1>2, <2>2, <2>3
<1>7. Past' \in Seq(Lines) /\ Len(Past') = n
      /\ \A i \in 1..n : Past'[i] = w[i]
  <2>1. n \in Nat /\ \A i \in 1..n : w[i] \in Lines
    BY <1>1, <1>2, <1>3, ElementOfSeq
  <2>2. QED
    BY <1>5, <1>6, <2>1
<1>8. Past' = SubSeq(w, 1, n)
  BY <1>4, <1>7, SeqEqual
<1>9. QED
  BY <1>8 DEF n, w

(* An edit is a change of the text, a move in it or a line recalled, or no *)
(* more than a bell.                                                       *)
LEMMA EditsImplement ==
    ASSUME LineInv, HistoryInv, Edits, UNCHANGED historyVars
    PROVE  [Editor!Next]_(Editor!editorVars)
<1>0. /\ buffer \in Seq(Typed) /\ Len(buffer) \in Nat
      /\ DOMAIN buffer = 1..Len(buffer)
      /\ cursor \in 0..Len(buffer) /\ LineLen \in Nat
      /\ num_lines \in Nat /\ current_line \in 0..num_lines
      /\ Len(Past) = num_lines
      /\ \A i \in 1..num_lines : Past[i] = HistoryLoadLine(i - 1)
  BY PastElements, LenProperties, ConsoleAssumption
  DEF LineInv, HistoryInv, Lines
<1>1. Past' = Past
  BY DEF historyVars, Past, HistoryLoadLine
<1>2. CASE Bell
  BY <1>1, <1>2 DEF Bell, lineVars, Editor!editorVars
<1>3. ASSUME NEW at \in 0..Len(buffer), NEW t, MoveTo(at, t),
             at \in {cursor - 1, cursor + 1, 0, Len(buffer)}
      PROVE  Editor!Move
  BY <1>1, <1>3 DEF MoveTo, Editor!Move
<1>4. CASE DoHome
  <2>1. MoveTo(0, ToPrompt(term)) /\ 0 \in 0..Len(buffer)
    BY <1>0, <1>4 DEF DoHome
  <2>2. QED
    BY <2>1, <1>3 DEF Editor!Next
<1>5. CASE DoEnd
  <2>1. /\ MoveTo(Len(buffer), Show(term, From(buffer, cursor)))
        /\ Len(buffer) \in 0..Len(buffer)
    BY <1>0, <1>5 DEF DoEnd
  <2>2. QED
    BY <2>1, <1>3 DEF Editor!Next
<1>6. CASE DoLeft /\ cursor > 0
  <2>1. MoveTo(cursor - 1, Back(term, 1)) /\ cursor - 1 \in 0..Len(buffer)
    BY <1>0, <1>6 DEF DoLeft
  <2>2. QED
    BY <2>1, <1>3 DEF Editor!Next
<1>7. CASE DoRight /\ cursor < Len(buffer)
  <2>1. /\ MoveTo(cursor + 1, Show(term, <<buffer[cursor + 1]>>))
        /\ cursor + 1 \in 0..Len(buffer)
    BY <1>0, <1>7 DEF DoRight
  <2>2. QED
    BY <2>1, <1>3 DEF Editor!Next
<1>8. ASSUME NEW n \in {current_line - 1, current_line + 1} \cap 0..num_lines,
             LoadLine(n)
      PROVE  Editor!Next
  <2>1. /\ current_line' = n /\ cursor' = Len(buffer')
        /\ buffer' = IF n > 0 THEN HistoryLoadLine(n - 1) ELSE <<>>
    BY <1>8 DEF LoadLine
  <2>2. buffer' = IF n = 0 THEN <<>> ELSE Past[n]
    BY <1>0, <2>1
  <2>3. QED
    BY <1>0, <1>1, <2>1, <2>2 DEF Editor!Next, Editor!Recall
<1>9. CASE DoUp /\ current_line < num_lines
  <2>1. current_line + 1 \in 0..num_lines /\ LoadLine(current_line + 1)
    BY <1>0, <1>9 DEF DoUp
  <2>2. QED
    BY <2>1, <1>8
<1>10. CASE DoDown /\ current_line > 0
  <2>1. current_line - 1 \in 0..num_lines /\ LoadLine(current_line - 1)
    BY <1>0, <1>10 DEF DoDown
  <2>2. QED
    BY <2>1, <1>8
<1>11. ASSUME NEW at, NEW t, RemoveChar(at, t),
              at \in {cursor - 1, cursor}, at + 1 \in 1..Len(buffer)
       PROVE  Editor!Next
  <2>1. /\ buffer' = RemoveAt(buffer, at + 1) /\ cursor' = at
        /\ current_line' = 0
    BY <1>11 DEF RemoveChar
  <2>2. at + 1 \in {cursor, cursor + 1} \cap DOMAIN buffer /\ (at + 1) - 1 = at
    BY <1>0, <1>11
  <2>3. RemoveAt(buffer, at + 1) = Editor!RemoveAt(buffer, at + 1)
    BY DEF RemoveAt, Editor!RemoveAt
  <2>4. QED
    BY <1>1, <2>1, <2>2, <2>3 DEF Editor!Next, Editor!Delete, Editor!Change
<1>12. CASE DoDelete /\ cursor < Len(buffer)
  <2>1. RemoveChar(cursor, term) /\ cursor + 1 \in 1..Len(buffer)
    BY <1>0, <1>12 DEF DoDelete
  <2>2. QED
    BY <2>1, <1>11
<1>13. CASE DoBackspace /\ cursor > 0
  <2>1. /\ RemoveChar(cursor - 1, Back(term, 1))
        /\ (cursor - 1) + 1 \in 1..Len(buffer)
    BY <1>0, <1>13 DEF DoBackspace
  <2>2. QED
    BY <2>1, <1>11
<1>14. CASE Typing
  <2>1. PICK c \in Typed : Len(buffer) + 1 < LineLen /\ InsertChar(c)
    BY <1>14 DEF Typing
  <2>2. Len(buffer) < LineLen - 1
    BY <1>0, <2>1
  <2>3. /\ buffer' = InsertAt(buffer, cursor + 1, c) /\ cursor' = cursor + 1
        /\ current_line' = 0
    BY <2>1 DEF InsertChar
  <2>4. InsertAt(buffer, cursor + 1, c)
          = Editor!InsertAt(buffer, cursor + 1, c)
    BY DEF InsertAt, Editor!InsertAt
  <2>5. QED
    BY <1>1, <2>2, <2>3, <2>4
    DEF Editor!Next, Editor!Insert, Editor!Change
<1>15. QED
  BY <1>2, <1>4, <1>5, <1>6, <1>7, <1>9, <1>10, <1>12, <1>13, <1>14
  DEF Edits, DoUp, DoDown, DoLeft, DoRight, DoDelete, DoBackspace

(* A newline enters the text, or finds it empty. *)
LEMMA NewlineImplements ==
    ASSUME LineInv, HistoryInv, DoNewline
    PROVE  [Editor!Next]_(Editor!editorVars)
<1>1. ASSUME UNCHANGED historyVars PROVE Past' = Past
  BY <1>1 DEF historyVars, Past, HistoryLoadLine
<1>2. CASE buffer = <<>>
  <2>1. cursor = 0
    BY <1>2 DEF LineInv
  <2>2. UNCHANGED <<buffer, cursor, current_line>> /\ Past' = Past
    BY <1>1, <1>2, <2>1 DEF DoNewline
  <2>3. QED
    BY <2>2 DEF Editor!editorVars
<1>3. CASE buffer # <<>>
  <2>1. /\ buffer' = <<>> /\ cursor' = 0 /\ current_line' = 0
        /\ IF ToSet(buffer) \subseteq Delimiters THEN UNCHANGED historyVars
                                                 ELSE HistoryStoreLine(buffer)
    BY <1>3 DEF DoNewline, DoEnter
  <2>2. Past' = IF ToSet(buffer) \subseteq Delimiters THEN Past
                ELSE SubSeq(<<buffer>> \o Past, 1,
                            IF Len(Past) < HistoryLen THEN Len(Past) + 1
                                                      ELSE HistoryLen)
    <3>1. CASE ToSet(buffer) \subseteq Delimiters
      BY <1>1, <2>1, <3>1
    <3>2. CASE ~(ToSet(buffer) \subseteq Delimiters)
      <4>1. HistoryStoreLine(buffer) /\ buffer \in Lines
        BY <2>1, <3>2 DEF LineInv
      <4>2. QED
        BY <3>2, <4>1, StoredPast
    <3>3. QED
      BY <3>1, <3>2
  <2>3. ToSet(buffer) = Editor!ToSet(buffer)
    BY DEF ToSet, Editor!ToSet
  <2>4. QED
    BY <2>1, <2>2, <2>3 DEF Editor!Next, Editor!Enter
<1>4. QED
  BY <1>2, <1>3

(* Every key the console handles is a step of the line editor or none: the *)
(* ring and its indices are a past read backwards from the newest line.    *)
THEOREM ImplementsEditorHolds == Spec => ImplementsEditor
<1>1. Init => Editor!Init
  <2> SUFFICES ASSUME Init PROVE Editor!Init
    OBVIOUS
  <2>1. Past = <<>>
    BY DEF Init, Past
  <2>2. QED
    BY <2>1 DEF Init, Editor!Init
<1>2. Inv /\ [Next]_vars => [Editor!Next]_(Editor!editorVars)
  <2> SUFFICES ASSUME Inv, [Next]_vars
               PROVE  [Editor!Next]_(Editor!editorVars)
    OBVIOUS
  <2>1. CASE Edits /\ UNCHANGED historyVars
    BY <2>1, EditsImplement DEF Inv
  <2>2. CASE DoNewline
    BY <2>2, NewlineImplements DEF Inv
  <2>3. CASE UNCHANGED <<lineVars, historyVars>>
    BY <2>3
    DEF lineVars, historyVars, Past, HistoryLoadLine, Editor!editorVars
  <2>4. QED
    BY <2>1, <2>2, <2>3, StepKinds
<1>3. QED
  BY <1>1, <1>2, InvHolds, PTL DEF Spec, ImplementsEditor, Editor!Spec
=============================================================================
