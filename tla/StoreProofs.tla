----------------------------- MODULE StoreProofs -----------------------------
(***************************************************************************)
(* What the operations on lists, data objects and scopes do for all        *)
(* memories, values and keys: on linked cells that are changed in place    *)
(* the list operations are those on sequences, for the list they are given *)
(* and for no other.                                                       *)
(***************************************************************************)
EXTENDS Store, SequenceTheorems, WellFoundedInduction, TLAPS

\* Cells whose items are in I.
Cell(I) == [item : I, next : Nat, freed : BOOLEAN]

\* A record with these fields, whatever else it holds.
Memory(st) == st = [f \in DOMAIN st |-> st[f]] /\ {"cells", "lists"} \subseteq DOMAIN st

\* A memory in which each list l has the chain of cells p[l].
Heap(st, p, I) ==
    /\ Memory(st)
    /\ st.cells \in Seq(Cell(I)) /\ st.lists \in Seq(Nat)
    /\ p \in [1 .. Len(st.lists) -> Seq(Nat)]
    /\ Linked(st, p)

\* What the lists stand for.
Contents(st, p) == [l \in DOMAIN p |-> ItemsOf(st.cells, p[l])]

\* From st to t list l became the sequence v, no other list changed, and t is a
\* linked memory again.
Becomes(st, t, p, l, v, I) ==
    \E q : Heap(t, q, I) /\ Contents(t, q) = [Contents(st, p) EXCEPT ![l] = v]

\* The memory a program starts with holds no list, and is linked.
THEOREM EmptyHeap ==
    ASSUME NEW I, NEW st, Memory(st), st.cells = <<>>, st.lists = <<>>
    PROVE  Heap(st, <<>>, I)
    BY DEF Heap, Linked
-----------------------------------------------------------------------------
(* Cells. *)

LEMMA Indices ==
    ASSUME NEW n \in Nat, NEW i \in 1 .. n
    PROVE  /\ i \in Nat /\ i + 1 \in 1 .. n + 1
           /\ i # n => i + 1 \in 1 .. n
           /\ i # 1 => i - 1 \in 1 .. n /\ i = (i - 1) + 1
    OBVIOUS

LEMMA CellFields ==
    ASSUME NEW I, NEW k \in Cell(I)
    PROVE  k.item \in I /\ k.next \in Nat /\ k.freed \in BOOLEAN
    BY DEF Cell

LEMMA NodeIsCell ==
    ASSUME NEW I, NEW x \in I, NEW n \in Nat
    PROVE  /\ ListNode(x, n) \in Cell(I)
           /\ ListNode(x, n).item = x /\ ListNode(x, n).next = n /\ ListNode(x, n).freed = FALSE
    BY DEF ListNode, Cell

LEMMA ItemsShape ==
    ASSUME NEW I, NEW cells \in Seq(Cell(I)), NEW s \in Seq(Nat),
           \A i \in DOMAIN s : s[i] \in DOMAIN cells
    PROVE  /\ ItemsOf(cells, s) \in Seq(I)
           /\ Len(ItemsOf(cells, s)) = Len(s)
           /\ \A i \in 1 .. Len(s) : ItemsOf(cells, s)[i] = cells[s[i]].item
<1>1. DOMAIN s = 1 .. Len(s) /\ Len(s) \in Nat
    OBVIOUS
<1>2. ASSUME NEW i \in 1 .. Len(s) PROVE cells[s[i]].item \in I
  <2>1. cells[s[i]] \in Cell(I)
      BY <1>1
  <2> QED
      BY <2>1, CellFields, Zenon
<1> QED
    BY <1>1, <1>2 DEF ItemsOf

LEMMA HeapParts ==
    ASSUME NEW I, NEW st, NEW p, Heap(st, p, I)
    PROVE  /\ DOMAIN p = 1 .. Len(st.lists) /\ \A m \in DOMAIN p : p[m] \in Seq(Nat)
           /\ st.lists \in Seq(Nat) /\ DOMAIN st.lists = DOMAIN p
           /\ st.cells \in Seq(Cell(I)) /\ DOMAIN st.cells = 1 .. Len(st.cells)
           /\ Len(st.cells) \in Nat /\ Len(st.lists) \in Nat
           /\ \A m \in DOMAIN p : Chained(st.cells, st.lists[m], p[m])
           /\ \A m \in DOMAIN p : \A i \in DOMAIN p[m] : p[m][i] \in DOMAIN st.cells
           /\ \A m, n \in DOMAIN p : \A i \in DOMAIN p[m], j \in DOMAIN p[n] :
                p[m][i] = p[n][j] => m = n /\ i = j
<1>1. \A m \in DOMAIN p : Chained(st.cells, st.lists[m], p[m])
    BY DEF Heap, Linked
<1>2. \A m \in DOMAIN p : \A i \in DOMAIN p[m] : p[m][i] \in DOMAIN st.cells
    BY <1>1 DEF Chained
<1>3. \A m, n \in DOMAIN p : \A i \in DOMAIN p[m], j \in DOMAIN p[n] :
        p[m][i] = p[n][j] => m = n /\ i = j
    BY Zenon DEF Heap, Linked
<1> QED
    BY <1>1, <1>2, <1>3 DEF Heap

\* One list: q are its cells from c on, all different.
OneList(cells, c, q, I) ==
    /\ cells \in Seq(Cell(I)) /\ c \in Nat /\ q \in Seq(Nat) /\ Len(q) \in Nat
    /\ DOMAIN q = 1 .. Len(q) /\ DOMAIN cells = 1 .. Len(cells) /\ Len(cells) \in Nat
    /\ Len(q) = 0 <=> q = <<>>
    /\ Len(q) = 0 => c = 0
    /\ Len(q) # 0 => c = q[1] /\ Len(q) \in DOMAIN q /\ 1 \in DOMAIN q
    /\ \A i \in DOMAIN q : q[i] \in DOMAIN cells /\ cells[q[i]].freed = FALSE
    /\ \A i \in DOMAIN q : i # Len(q) => cells[q[i]].next = q[i + 1]
    /\ \A i \in DOMAIN q : i = Len(q) => cells[q[i]].next = 0
    /\ \A i, j \in DOMAIN q : q[i] = q[j] => i = j

LEMMA ListOfHeap ==
    ASSUME NEW I, NEW st, NEW p, Heap(st, p, I), NEW l \in DOMAIN p
    PROVE  /\ Memory(st) /\ DOMAIN st.lists = DOMAIN p
           /\ OneList(st.cells, st.lists[l], p[l], I)
           /\ Contents(st, p)[l] = ItemsOf(st.cells, p[l])
<1>1. \A m, o \in DOMAIN p : \A i \in DOMAIN p[m], j \in DOMAIN p[o] :
         p[m][i] = p[o][j] => m = o /\ i = j
    BY HeapParts, Zenon
<1>2. \A i, j \in DOMAIN p[l] : p[l][i] = p[l][j] => i = j
    BY <1>1
<1>3. /\ st.cells \in Seq(Cell(I)) /\ st.lists \in Seq(Nat)
      /\ DOMAIN st.lists = DOMAIN p /\ p[l] \in Seq(Nat)
      /\ Chained(st.cells, st.lists[l], p[l])
  <2>1. st.cells \in Seq(Cell(I)) /\ st.lists \in Seq(Nat)
      BY DEF Heap
  <2>2. DOMAIN st.lists = DOMAIN p /\ p[l] \in Seq(Nat)
      BY DEF Heap
  <2>3. Chained(st.cells, st.lists[l], p[l])
      BY Zenon DEF Heap, Linked
  <2> QED
      BY <2>1, <2>2, <2>3
<1>4. Memory(st) /\ st.lists[l] \in Nat
    BY <1>3 DEF Heap
<1>5. Len(p[l]) = 0 <=> p[l] = <<>>
    BY <1>3, EmptySeq
<1>6. /\ Len(p[l]) = 0 => st.lists[l] = 0
      /\ Len(p[l]) # 0 => st.lists[l] = p[l][1]
      /\ \A i \in DOMAIN p[l] : p[l][i] \in DOMAIN st.cells /\ st.cells[p[l][i]].freed = FALSE
      /\ \A i \in DOMAIN p[l] : i # Len(p[l]) => st.cells[p[l][i]].next = p[l][i + 1]
      /\ \A i \in DOMAIN p[l] : i = Len(p[l]) => st.cells[p[l][i]].next = 0
    BY <1>3, <1>5 DEF Chained
<1>7. OneList(st.cells, st.lists[l], p[l], I)
    BY <1>2, <1>3, <1>4, <1>5, <1>6 DEF OneList
<1> QED
    BY <1>3, <1>4, <1>7 DEF Contents

LEMMA LinksMake ==
    ASSUME NEW cells, NEW c, NEW s \in Seq(Nat),
           Len(s) = 0 => c = 0, Len(s) # 0 => c = s[1],
           \A i \in DOMAIN s : s[i] \in DOMAIN cells /\ cells[s[i]].freed = FALSE,
           \A i \in DOMAIN s : i # Len(s) => cells[s[i]].next = s[i + 1],
           \A i \in DOMAIN s : i = Len(s) => cells[s[i]].next = 0
    PROVE  Chained(cells, c, s)
<1>1. Len(s) = 0 <=> s = <<>>
    BY EmptySeq
<1> QED
    BY <1>1 DEF Chained

\* A chain is the same in cells that agree on it.
LEMMA ChainedAgree ==
    ASSUME NEW cells, NEW other, NEW c, NEW s, Chained(cells, c, s),
           \A i \in DOMAIN s : s[i] \in DOMAIN other /\ other[s[i]] = cells[s[i]]
    PROVE  Chained(other, c, s) /\ ItemsOf(other, s) = ItemsOf(cells, s)
    BY DEF Chained, ItemsOf

\* Writing the cells.
LEMMA CellsWritten ==
    ASSUME NEW st, Memory(st), NEW cells
    PROVE  /\ Memory([st EXCEPT !.cells = cells])
           /\ [st EXCEPT !.cells = cells].cells = cells
           /\ [st EXCEPT !.cells = cells].lists = st.lists
    BY DEF Memory

LEMMA HeadKept ==
    ASSUME NEW lists \in Seq(Nat), NEW l, NEW c, c = lists[l]
    PROVE  [lists EXCEPT ![l] = c] = lists
    OBVIOUS

\* A list with the cells q became, in the cells new, the list of s from c on: no
\* cell but its own was written, and s is made of its own and of new ones.
Rewritten(cells, new, q, c, s, I) ==
    /\ new \in Seq(Cell(I)) /\ c \in Nat /\ s \in Seq(Nat)
    /\ Chained(new, c, s)
    /\ \A k \in DOMAIN cells : (\A i \in DOMAIN q : q[i] # k) =>
           k \in DOMAIN new /\ new[k] = cells[k]
    /\ \A i, j \in DOMAIN s : s[i] = s[j] => i = j
    /\ \A i \in DOMAIN s : s[i] \notin DOMAIN cells \/ \E j \in DOMAIN q : s[i] = q[j]

\* That is all it takes for no other list to notice.
LEMMA Rechained ==
    ASSUME NEW I, NEW st, NEW t, NEW p, Heap(st, p, I), NEW l \in DOMAIN p,
           NEW c, NEW s, Memory(t), t.lists = [st.lists EXCEPT ![l] = c],
           Rewritten(st.cells, t.cells, p[l], c, s, I)
    PROVE  Becomes(st, t, p, l, ItemsOf(t.cells, s), I)
<1> DEFINE q == [p EXCEPT ![l] = s]
<1>1. /\ DOMAIN p = 1 .. Len(st.lists) /\ \A m \in DOMAIN p : p[m] \in Seq(Nat)
      /\ st.lists \in Seq(Nat) /\ DOMAIN st.lists = 1 .. Len(st.lists)
      /\ t.lists \in Seq(Nat) /\ Len(t.lists) = Len(st.lists) /\ DOMAIN t.lists = DOMAIN p
      /\ t.lists[l] = c /\ \A m \in DOMAIN p : m # l => t.lists[m] = st.lists[m]
  <2>1. /\ DOMAIN p = 1 .. Len(st.lists) /\ \A m \in DOMAIN p : p[m] \in Seq(Nat)
        /\ st.lists \in Seq(Nat) /\ DOMAIN st.lists = 1 .. Len(st.lists)
      BY DEF Heap
  <2>2. c \in Nat
      BY Zenon DEF Rewritten
  <2> QED
      BY <2>1, <2>2
<1>2. q \in [1 .. Len(t.lists) -> Seq(Nat)] /\ DOMAIN q = DOMAIN p
      /\ q[l] = s /\ \A m \in DOMAIN p : m # l => q[m] = p[m]
    BY <1>1 DEF Heap, Rewritten
<1> HIDE DEF q
<1>r. /\ Chained(t.cells, c, s)
      /\ \A k \in DOMAIN st.cells : (\A i \in DOMAIN p[l] : p[l][i] # k) =>
             k \in DOMAIN t.cells /\ t.cells[k] = st.cells[k]
      /\ \A i, j \in DOMAIN s : s[i] = s[j] => i = j
      /\ \A i \in DOMAIN s : s[i] \notin DOMAIN st.cells \/ \E j \in DOMAIN p[l] : s[i] = p[l][j]
    BY Zenon DEF Rewritten
<1>a. /\ \A m \in DOMAIN p : Chained(st.cells, st.lists[m], p[m])
      /\ \A m \in DOMAIN p : \A i \in DOMAIN p[m] : p[m][i] \in DOMAIN st.cells
    BY HeapParts, Zenon
<1>b. \A m, n \in DOMAIN p : \A i \in DOMAIN p[m], j \in DOMAIN p[n] :
           p[m][i] = p[n][j] => m = n /\ i = j
    BY HeapParts, Zenon
<1>3. ASSUME NEW m \in DOMAIN p, m # l, NEW i \in DOMAIN p[m]
      PROVE  p[m][i] \in DOMAIN t.cells /\ t.cells[p[m][i]] = st.cells[p[m][i]]
  <2>1. p[m][i] \in DOMAIN st.cells
      BY <1>a, <1>3
  <2>2. \A j \in DOMAIN p[l] : p[l][j] # p[m][i]
      BY <1>b, <1>3, Zenon
  <2> QED
      BY <1>r, <2>1, <2>2
<1>4. ASSUME NEW m \in DOMAIN p PROVE Chained(t.cells, t.lists[m], q[m])
  <2>1. CASE m = l
      BY <1>1, <1>2, <1>r, <2>1
  <2>2. CASE m # l
    <3>1. Chained(t.cells, st.lists[m], p[m])
        BY <1>a, <1>3, <2>2, ChainedAgree
    <3> QED
        BY <1>1, <1>2, <2>2, <3>1
  <2> QED
      BY <2>1, <2>2
<1>5. ASSUME NEW m \in DOMAIN p, NEW n \in DOMAIN p,
             NEW i \in DOMAIN q[m], NEW j \in DOMAIN q[n], q[m][i] = q[n][j]
      PROVE  m = n /\ i = j
  <2>1. ASSUME NEW k \in DOMAIN p, k # l, NEW a \in DOMAIN s, NEW b \in DOMAIN p[k]
        PROVE  s[a] # p[k][b]
    <3>1. p[k][b] \in DOMAIN st.cells
        BY <1>a, <2>1
    <3>2. \A d \in DOMAIN p[l] : p[l][d] # p[k][b]
        BY <1>b, <2>1, Zenon
    <3> QED
        BY <1>r, <3>1, <3>2
  <2>2. CASE m = l /\ n = l
      BY <1>2, <1>5, <1>r, <2>2
  <2>3. CASE m # l /\ n = l
      BY <1>2, <1>5, <2>1, <2>3
  <2>4. CASE m = l /\ n # l
      BY <1>2, <1>5, <2>1, <2>4
  <2>5. CASE m # l /\ n # l
    <3>1. q[m] = p[m] /\ q[n] = p[n]
        BY <1>2, <2>5
    <3>2. i \in DOMAIN p[m] /\ j \in DOMAIN p[n] /\ p[m][i] = p[n][j]
        BY <1>5, <3>1
    <3> HIDE DEF q
    <3> QED
        BY <1>b, <3>2
  <2> QED
      BY <2>2, <2>3, <2>4, <2>5
<1>6. Linked(t, q)
    BY <1>1, <1>2, <1>4, <1>5 DEF Linked
<1>7. ASSUME NEW m \in DOMAIN p, m # l PROVE ItemsOf(t.cells, p[m]) = ItemsOf(st.cells, p[m])
    BY <1>3, <1>7 DEF ItemsOf
<1>8. Contents(t, q) = [Contents(st, p) EXCEPT ![l] = ItemsOf(t.cells, s)]
  <2>1. \A m \in DOMAIN p : ItemsOf(t.cells, q[m]) =
             IF m = l THEN ItemsOf(t.cells, s) ELSE ItemsOf(st.cells, p[m])
      BY <1>2, <1>7
  <2> QED
      BY <1>2, <2>1, Zenon DEF Contents
<1> QED
    BY <1>1, <1>2, <1>6, <1>8 DEF Heap, Rewritten, Becomes
-----------------------------------------------------------------------------
(* One list under each operation. *)

\* The cells after value_list_append, and the head.
Appended(cells, q, x) ==
    LET grown == Append(cells, ListNode(x, 0))
    IN IF q = <<>> THEN grown ELSE [grown EXCEPT ![q[Len(q)]].next = Len(cells) + 1]
AppendedHead(cells, c, q) == IF q = <<>> THEN Len(cells) + 1 ELSE c

LEMMA AppendCells ==
    ASSUME NEW I, NEW cells, NEW c, NEW q, OneList(cells, c, q, I), NEW x \in I
    PROVE  /\ Rewritten(cells, Appended(cells, q, x), q, AppendedHead(cells, c, q),
                        Append(q, Len(cells) + 1), I)
           /\ ItemsOf(Appended(cells, q, x), Append(q, Len(cells) + 1)) = Append(ItemsOf(cells, q), x)
<1> DEFINE n == Len(cells) + 1
           grown == Append(cells, ListNode(x, 0))
           new == Appended(cells, q, x)
           s == Append(q, n)
           d == AppendedHead(cells, c, q)
           last == q[Len(q)]
<1>0. /\ q = <<>> => new = grown /\ d = n
      /\ q # <<>> => new = [grown EXCEPT ![last].next = n] /\ d = c
    BY DEF Appended, AppendedHead
<1>1. /\ cells \in Seq(Cell(I)) /\ c \in Nat /\ q \in Seq(Nat) /\ Len(q) \in Nat
      /\ DOMAIN q = 1 .. Len(q) /\ DOMAIN cells = 1 .. Len(cells) /\ Len(cells) \in Nat
      /\ \A i \in DOMAIN q : q[i] \in DOMAIN cells /\ cells[q[i]].freed = FALSE
      /\ \A i, j \in DOMAIN q : q[i] = q[j] => i = j
    BY DEF OneList
<1>2. ListNode(x, 0) \in Cell(I) /\ ListNode(x, 0).item = x /\ ListNode(x, 0).next = 0
      /\ ListNode(x, 0).freed = FALSE
    BY DEF ListNode, Cell
<1>3. /\ grown \in Seq(Cell(I)) /\ n \in Nat /\ grown[n] = ListNode(x, 0)
      /\ DOMAIN grown = 1 .. n /\ n \in DOMAIN grown
      /\ \A k \in DOMAIN cells : k \in DOMAIN grown /\ grown[k] = cells[k] /\ k # n
    BY <1>1, <1>2, AppendProperties
<1>4. /\ s \in Seq(Nat) /\ Len(s) = Len(q) + 1 /\ s[Len(s)] = n /\ s # <<>>
      /\ DOMAIN s = 1 .. Len(s)
      /\ \A i \in DOMAIN q : s[i] = q[i] /\ i \in DOMAIN s /\ i # Len(s) /\ s[i] # n
      /\ \A i \in DOMAIN s : i \in DOMAIN q \/ i = Len(s)
    BY <1>1, <1>3, AppendProperties
<1> HIDE DEF s, n, grown, new, d
<1>5. /\ new \in Seq(Cell(I)) /\ DOMAIN new = DOMAIN grown
      /\ \A k \in DOMAIN grown : (q # <<>> /\ k = last) \/ new[k] = grown[k]
      /\ \A k \in DOMAIN grown : new[k].item = grown[k].item /\ new[k].freed = grown[k].freed
      /\ q # <<>> => new[last].next = n
  <2>1. CASE q = <<>>
      BY <1>0, <1>3, <2>1
  <2>2. CASE q # <<>>
    <3>1. last \in DOMAIN grown
        BY <1>1, <1>3, <2>2, EmptySeq
    <3> HIDE DEF last
    <3>2. /\ [grown[last] EXCEPT !.next = n] \in Cell(I)
          /\ [grown[last] EXCEPT !.next = n].next = n
          /\ [grown[last] EXCEPT !.next = n].item = grown[last].item
          /\ [grown[last] EXCEPT !.next = n].freed = grown[last].freed
      <4>1. grown[last] \in Cell(I)
          BY <1>3, <3>1
      <4> QED
          BY <1>3, <4>1 DEF Cell
    <3>3. new = [grown EXCEPT ![last] = [grown[last] EXCEPT !.next = n]]
        BY <1>0, <2>2
    <3>4. /\ new \in Seq(Cell(I)) /\ DOMAIN new = DOMAIN grown
          /\ \A k \in DOMAIN grown : k = last \/ new[k] = grown[k]
          /\ new[last] = [grown[last] EXCEPT !.next = n]
        BY <1>3, <3>1, <3>2, <3>3
    <3> QED
        BY <2>2, <3>2, <3>4
  <2> QED
      BY <2>1, <2>2
<1>6. /\ \A i \in DOMAIN q : i # Len(q) => cells[q[i]].next = q[i + 1]
      /\ Len(q) # 0 => c = q[1] /\ Len(q) \in DOMAIN q /\ 1 \in DOMAIN q
      /\ Len(q) = 0 <=> q = <<>>
    BY DEF OneList
<1>7. ASSUME NEW i \in DOMAIN q PROVE new[q[i]].next = s[i + 1]
  <2>1. q[i] \in DOMAIN cells /\ grown[q[i]] = cells[q[i]] /\ q[i] \in DOMAIN grown
      BY <1>1, <1>3
  <2>2. CASE i = Len(q)
    <3>1. s[i + 1] = n /\ q[i] = last /\ q # <<>>
        BY <1>1, <1>4, <1>6, <2>2
    <3> HIDE DEF last
    <3> QED
        BY <1>5, <3>1
  <2>3. CASE i # Len(q)
    <3>1. s[i + 1] = q[i + 1]
      <4>1. i + 1 \in DOMAIN q
          BY <1>1, <2>3, Indices, Zenon
      <4> QED
          BY <1>4, <4>1, Zenon
    <3>2. q # <<>> => q[i] # last
        BY <1>1, <1>6, <2>3
    <3> HIDE DEF last
    <3>3. new[q[i]] = cells[q[i]]
        BY <1>5, <2>1, <3>2
    <3> QED
        BY <1>6, <2>3, <3>1, <3>3
  <2> QED
      BY <2>2, <2>3
<1>8. Chained(new, d, s)
  <2> HIDE DEF last
  <2>1. Len(s) # 0 /\ d = s[1]
    <3>1. CASE q = <<>>
        BY <1>0, <1>1, <1>4, <1>6, <3>1
    <3>2. CASE q # <<>>
      <4>1. s[1] = q[1] /\ c = q[1] /\ Len(s) # 0
          BY <1>1, <1>4, <1>6, <3>2
      <4> QED
          BY <1>0, <3>2, <4>1
    <3> QED
        BY <3>1, <3>2
  <2> HIDE DEF d
  <2>2. n \in DOMAIN new /\ new[n] = ListNode(x, 0)
    <3>1. q # <<>> => n # last
        BY <1>1, <1>3, <1>6 DEF last
    <3> QED
        BY <1>3, <1>5, <3>1
  <2>3. \A i \in DOMAIN q : s[i] \in DOMAIN new /\ new[s[i]].freed = FALSE
    <3> TAKE i \in DOMAIN q
    <3>1. s[i] = q[i] /\ q[i] \in DOMAIN cells /\ cells[q[i]].freed = FALSE
        BY <1>1, <1>4
    <3>2. q[i] \in DOMAIN grown /\ grown[q[i]] = cells[q[i]]
        BY <1>3, <3>1
    <3> QED
        BY <1>5, <3>1, <3>2
  <2>4. \A i \in DOMAIN s : s[i] \in DOMAIN new /\ new[s[i]].freed = FALSE
      BY <1>2, <1>4, <2>2, <2>3
  <2>5. \A i \in DOMAIN s : i # Len(s) => new[s[i]].next = s[i + 1]
      BY <1>4, <1>7
  <2>6. \A i \in DOMAIN s : i = Len(s) => new[s[i]].next = 0
      BY <1>2, <1>4, <2>2
  <2> QED
      BY <1>4, <2>1, <2>4, <2>5, <2>6, LinksMake
<1>9. Rewritten(cells, new, q, d, s, I)
  <2>1. d \in Nat
      BY <1>0, <1>1, <1>3
  <2>2. \A i, j \in DOMAIN s : s[i] = s[j] => i = j
      BY <1>1, <1>4
  <2>3. \A i \in DOMAIN s : s[i] \notin DOMAIN cells \/ \E j \in DOMAIN q : s[i] = q[j]
      BY <1>3, <1>4
  <2>4. \A k \in DOMAIN cells : (\A i \in DOMAIN q : q[i] # k) => k \in DOMAIN new /\ new[k] = cells[k]
      BY <1>3, <1>5, <1>6
  <2> HIDE DEF d
  <2> QED
      BY <1>4, <1>5, <1>8, <2>1, <2>2, <2>3, <2>4 DEF Rewritten
<1>10. ItemsOf(new, s) = Append(ItemsOf(cells, q), x)
  <2>1. /\ ItemsOf(cells, q) \in Seq(I) /\ Len(ItemsOf(cells, q)) = Len(q)
        /\ \A i \in 1 .. Len(q) : ItemsOf(cells, q)[i] = cells[q[i]].item
    <3>1. cells \in Seq(Cell(I)) /\ q \in Seq(Nat) /\ \A i \in DOMAIN q : q[i] \in DOMAIN cells
        BY <1>1, Zenon
    <3> QED
        BY <3>1, ItemsShape, Zenon
  <2>2. \A i \in DOMAIN s : s[i] \in DOMAIN new
      BY <1>8 DEF Chained
  <2>3. /\ ItemsOf(new, s) \in Seq(I) /\ Len(ItemsOf(new, s)) = Len(s)
        /\ \A i \in 1 .. Len(s) : ItemsOf(new, s)[i] = new[s[i]].item
    <3>1. new \in Seq(Cell(I)) /\ s \in Seq(Nat)
        BY <1>4, <1>5, Zenon
    <3> QED
        BY <2>2, <3>1, ItemsShape, Zenon
  <2> HIDE DEF ItemsOf
  <2>4. /\ Append(ItemsOf(cells, q), x) \in Seq(I) /\ Len(Append(ItemsOf(cells, q), x)) = Len(s)
        /\ \A i \in 1 .. Len(q) : Append(ItemsOf(cells, q), x)[i] = ItemsOf(cells, q)[i]
        /\ Append(ItemsOf(cells, q), x)[Len(s)] = x
      BY <1>4, <2>1, AppendProperties
  <2>5. \A i \in DOMAIN q : ItemsOf(new, s)[i] = Append(ItemsOf(cells, q), x)[i]
    <3> TAKE i \in DOMAIN q
    <3>1. s[i] = q[i] /\ i \in DOMAIN s
        BY <1>4
    <3>2. new[q[i]].item = cells[q[i]].item
        BY <1>1, <1>3, <1>5
    <3> QED
        BY <1>1, <1>4, <2>1, <2>3, <2>4, <3>1, <3>2
  <2>6. ItemsOf(new, s)[Len(s)] = x
    <3>1. new[n].item = x
        BY <1>2, <1>3, <1>5
    <3>2. Len(s) \in 1 .. Len(s)
        BY <1>1, <1>4
    <3> QED
        BY <1>4, <2>3, <3>1, <3>2
  <2>7. \A i \in 1 .. Len(s) : ItemsOf(new, s)[i] = Append(ItemsOf(cells, q), x)[i]
      BY <1>4, <2>4, <2>5, <2>6
  <2> QED
      BY <2>3, <2>4, <2>7, SeqEqual
<1> QED
    BY <1>9, <1>10 DEF s, d, n, new

\* The cells after value_list_insert_front, the head and the cells of the list.
Inserted(cells, c, x) == Append(cells, ListNode(x, c))
NewCell(cells) == Len(cells) + 1
Fronted(cells, q) == <<NewCell(cells)>> \o q

LEMMA InsertCells ==
    ASSUME NEW I, NEW cells, NEW c, NEW q, OneList(cells, c, q, I), NEW x \in I
    PROVE  /\ Rewritten(cells, Inserted(cells, c, x), q, NewCell(cells), Fronted(cells, q), I)
           /\ ItemsOf(Inserted(cells, c, x), Fronted(cells, q)) = <<x>> \o ItemsOf(cells, q)
<1> DEFINE n == Len(cells) + 1
           node == ListNode(x, c)
           new == Append(cells, node)
           s == <<n>> \o q
<1>1. /\ cells \in Seq(Cell(I)) /\ c \in Nat /\ q \in Seq(Nat) /\ Len(q) \in Nat
      /\ DOMAIN q = 1 .. Len(q) /\ DOMAIN cells = 1 .. Len(cells) /\ Len(cells) \in Nat
      /\ \A i \in DOMAIN q : q[i] \in DOMAIN cells /\ cells[q[i]].freed = FALSE
      /\ \A i, j \in DOMAIN q : q[i] = q[j] => i = j
    BY DEF OneList
<1>2. /\ Len(q) = 0 => c = 0
      /\ Len(q) # 0 => c = q[1] /\ 1 \in DOMAIN q
      /\ \A i \in DOMAIN q : i # Len(q) => cells[q[i]].next = q[i + 1]
      /\ \A i \in DOMAIN q : i = Len(q) => cells[q[i]].next = 0
    BY DEF OneList
<1>3. node \in Cell(I) /\ node.item = x /\ node.next = c /\ node.freed = FALSE
  <2>1. c \in Nat
      BY <1>1, Zenon
  <2> QED
      BY <2>1 DEF ListNode, Cell
<1> HIDE DEF node
<1>4. /\ new \in Seq(Cell(I)) /\ n \in Nat /\ new[n] = node /\ DOMAIN new = 1 .. n /\ n \in DOMAIN new
      /\ \A k \in DOMAIN cells : k \in DOMAIN new /\ new[k] = cells[k] /\ k # n
    BY <1>1, <1>3, AppendProperties
<1> HIDE DEF new
<1>5. /\ s \in Seq(Nat) /\ Len(s) = Len(q) + 1 /\ s[1] = n /\ DOMAIN s = 1 .. Len(s)
      /\ \A i \in DOMAIN q : s[i + 1] = q[i]
  <2> HIDE DEF n
  <2>1. <<n>> \in Seq(Nat) /\ Len(<<n>>) = 1 /\ <<n>>[1] = n
      BY <1>4
  <2>2. /\ s \in Seq(Nat) /\ Len(s) = Len(<<n>>) + Len(q)
        /\ \A i \in 1 .. Len(<<n>>) + Len(q) : s[i] = IF i <= Len(<<n>>) THEN <<n>>[i] ELSE q[i - Len(<<n>>)]
      BY <1>1, <2>1, ConcatProperties
  <2>3. /\ s \in Seq(Nat) /\ Len(s) = 1 + Len(q)
        /\ \A i \in 1 .. 1 + Len(q) : s[i] = IF i <= 1 THEN <<n>>[i] ELSE q[i - 1]
      BY <2>1, <2>2
  <2> HIDE DEF s
  <2> QED
      BY <1>1, <2>1, <2>3
<1> HIDE DEF s, n
<1>6. \A i \in DOMAIN s : i = 1 \/ \E j \in DOMAIN q : i = j + 1 /\ s[i] = q[j]
  <2>1. \A i \in 1 .. Len(q) + 1 : i = 1 \/ (i - 1 \in 1 .. Len(q) /\ i = (i - 1) + 1)
      BY <1>1
  <2>2. DOMAIN s = 1 .. Len(q) + 1
      BY <1>5, Zenon
  <2> TAKE i \in DOMAIN s
  <2>3. CASE i # 1
    <3>1. i - 1 \in DOMAIN q /\ i = (i - 1) + 1
        BY <1>1, <2>1, <2>2, <2>3, Zenon
    <3> QED
        BY <1>5, <3>1
  <2> QED
      BY <2>3
<1>7. ASSUME NEW i \in DOMAIN q
      PROVE  /\ s[i + 1] = q[i] /\ q[i] \in DOMAIN cells /\ q[i] \in DOMAIN new
             /\ new[q[i]] = cells[q[i]] /\ q[i] # n
             /\ i + 1 \in DOMAIN s
  <2>1. i + 1 \in DOMAIN s
      BY <1>1, <1>5, Indices, Zenon
  <2> QED
      BY <1>1, <1>4, <1>5, <2>1, Zenon
<1>8. Chained(new, n, s)
  <2>1. Len(s) # 0
      BY <1>1, <1>5
  <2>2. \A i \in DOMAIN s : s[i] \in DOMAIN new /\ new[s[i]].freed = FALSE
    <3>1. \A j \in DOMAIN q : s[j + 1] \in DOMAIN new /\ new[s[j + 1]].freed = FALSE
        BY <1>1, <1>7
    <3> QED
        BY <1>3, <1>4, <1>5, <1>6, <3>1
  <2>3. \A i \in DOMAIN s : i # Len(s) => new[s[i]].next = s[i + 1]
    <3>1. 1 # Len(s) => new[s[1]].next = s[1 + 1]
      <4>1. 1 # Len(s) => Len(q) # 0 /\ s[1 + 1] = q[1]
        <5>1. 1 # Len(s) => Len(q) # 0
            BY <1>1, <1>5
        <5>2. Len(q) # 0 => 1 \in DOMAIN q
            BY <1>2, Zenon
        <5> QED
            BY <1>5, <5>1, <5>2, Zenon
      <4> QED
          BY <1>2, <1>3, <1>4, <1>5, <4>1
    <3>2. ASSUME NEW j \in DOMAIN q, j + 1 # Len(s) PROVE new[s[j + 1]].next = s[(j + 1) + 1]
      <4>1. j # Len(q) /\ s[(j + 1) + 1] = q[j + 1]
        <5>1. j # Len(q)
            BY <1>5, <3>2, Zenon
        <5>2. j + 1 \in DOMAIN q
            BY <1>1, <5>1, Indices, Zenon
        <5> QED
            BY <1>5, <5>1, <5>2, Zenon
      <4> QED
          BY <1>2, <1>7, <4>1
    <3> TAKE i \in DOMAIN s
    <3>3. CASE i = 1
        BY <3>1, <3>3
    <3>4. ASSUME NEW j \in DOMAIN q, i = j + 1 PROVE i # Len(s) => new[s[i]].next = s[i + 1]
        BY <3>2, <3>4, Zenon
    <3> QED
        BY <1>6, <3>3, <3>4
  <2>4. \A i \in DOMAIN s : i = Len(s) => new[s[i]].next = 0
    <3>1. 1 = Len(s) => new[s[1]].next = 0
      <4>1. 1 = Len(s) => Len(q) = 0
          BY <1>1, <1>5
      <4> QED
          BY <1>2, <1>3, <1>4, <1>5, <4>1
    <3>2. ASSUME NEW j \in DOMAIN q, j + 1 = Len(s) PROVE new[s[j + 1]].next = 0
      <4>1. j = Len(q)
          BY <1>1, <1>5, <3>2
      <4> QED
          BY <1>2, <1>7, <4>1
    <3> QED
        BY <1>6, <3>1, <3>2
  <2> QED
      BY <1>5, <2>1, <2>2, <2>3, <2>4, LinksMake
<1>9. Rewritten(cells, new, q, n, s, I)
  <2>1. \A i, j \in DOMAIN s : s[i] = s[j] => i = j
    <3>1. \A i \in DOMAIN s : i = 1 \/ s[i] # n
        BY <1>6, <1>7
    <3> TAKE i, j \in DOMAIN s
    <3>2. CASE i = 1
        BY <1>5, <3>1, <3>2
    <3>3. CASE j = 1
        BY <1>5, <3>1, <3>3
    <3>4. CASE i # 1 /\ j # 1
      <4>1. PICK a \in DOMAIN q : i = a + 1 /\ s[i] = q[a]
          BY <1>6, <3>4, Zenon
      <4>2. PICK b \in DOMAIN q : j = b + 1 /\ s[j] = q[b]
          BY <1>6, <3>4, Zenon
      <4> QED
          BY <1>1, <4>1, <4>2
    <3> QED
        BY <3>2, <3>3, <3>4
  <2>2. \A i \in DOMAIN s : s[i] \notin DOMAIN cells \/ \E j \in DOMAIN q : s[i] = q[j]
      BY <1>4, <1>5, <1>6
  <2> QED
      BY <1>4, <1>5, <1>8, <2>1, <2>2 DEF Rewritten
<1>10. ItemsOf(new, s) = <<x>> \o ItemsOf(cells, q)
  <2>1. /\ ItemsOf(cells, q) \in Seq(I) /\ Len(ItemsOf(cells, q)) = Len(q)
        /\ \A i \in 1 .. Len(q) : ItemsOf(cells, q)[i] = cells[q[i]].item
    <3>1. cells \in Seq(Cell(I)) /\ q \in Seq(Nat) /\ \A i \in DOMAIN q : q[i] \in DOMAIN cells
        BY <1>1, Zenon
    <3> QED
        BY <3>1, ItemsShape, Zenon
  <2>2. \A i \in DOMAIN s : s[i] \in DOMAIN new
      BY <1>8 DEF Chained
  <2>3. /\ ItemsOf(new, s) \in Seq(I) /\ Len(ItemsOf(new, s)) = Len(s)
        /\ \A i \in 1 .. Len(s) : ItemsOf(new, s)[i] = new[s[i]].item
    <3>1. new \in Seq(Cell(I)) /\ s \in Seq(Nat)
        BY <1>4, <1>5, Zenon
    <3> QED
        BY <2>2, <3>1, ItemsShape, Zenon
  <2> DEFINE u == ItemsOf(cells, q)
             v == <<x>> \o u
             w == ItemsOf(new, s)
  <2> HIDE DEF u, w
  <2>4. <<x>> \in Seq(I) /\ Len(<<x>>) = 1 /\ <<x>>[1] = x
      OBVIOUS
  <2>5. /\ v \in Seq(I) /\ Len(v) = Len(<<x>>) + Len(u)
        /\ \A i \in 1 .. Len(<<x>>) + Len(u) : v[i] = IF i <= Len(<<x>>) THEN <<x>>[i] ELSE u[i - Len(<<x>>)]
      BY <2>1, <2>4, ConcatProperties DEF u
  <2> HIDE DEF v
  <2>6. /\ Len(v) = Len(s) /\ v[1] = x /\ \A j \in DOMAIN q : v[j + 1] = u[j]
    <3>1. Len(u) = Len(q)
        BY <2>1 DEF u
    <3>2. /\ Len(v) = 1 + Len(q)
          /\ \A i \in 1 .. 1 + Len(q) : v[i] = IF i <= 1 THEN <<x>>[i] ELSE u[i - 1]
        BY <2>4, <2>5, <3>1
    <3>3. Len(v) = Len(s)
        BY <1>1, <1>5, <3>2
    <3>4. v[1] = x
        BY <1>1, <2>4, <3>2
    <3>5. ASSUME NEW j \in DOMAIN q PROVE v[j + 1] = u[j]
      <4>1. j + 1 \in 1 .. 1 + Len(q) /\ ~(j + 1 <= 1) /\ (j + 1) - 1 = j
          BY <1>1
      <4>2. v[j + 1] = u[(j + 1) - 1]
          BY <3>2, <4>1, Zenon
      <4> QED
          BY <4>1, <4>2
    <3> QED
        BY <3>3, <3>4, <3>5
  <2>7. w[1] = x
    <3>1. 1 \in 1 .. Len(s)
        BY <1>1, <1>5
    <3>2. w[1] = new[s[1]].item
        BY <2>3, <3>1, Zenon DEF w
    <3> QED
        BY <1>3, <1>4, <1>5, <3>2
  <2>8. ASSUME NEW j \in DOMAIN q PROVE w[j + 1] = u[j]
    <3>1. j + 1 \in 1 .. Len(s) /\ j \in 1 .. Len(q)
        BY <1>1, <1>5
    <3>2. w[j + 1] = new[s[j + 1]].item /\ u[j] = cells[q[j]].item
        BY <2>1, <2>3, <3>1, Zenon DEF u, w
    <3> QED
        BY <1>7, <3>2
  <2>9. \A i \in 1 .. Len(s) : w[i] = v[i]
      BY <1>5, <1>6, <2>6, <2>7, <2>8
  <2> QED
      BY <2>3, <2>5, <2>6, <2>9, SeqEqual DEF u, v, w
<1> QED
    BY <1>9, <1>10 DEF new, node, n, s, Inserted, NewCell, Fronted

\* The cells after list[i] = item.
Assigned(cells, q, i, x) == [cells EXCEPT ![q[i]].item = x]

LEMMA AssignCells ==
    ASSUME NEW I, NEW cells, NEW c, NEW q, OneList(cells, c, q, I), NEW x \in I, NEW i \in DOMAIN q
    PROVE  /\ Rewritten(cells, Assigned(cells, q, i, x), q, c, q, I)
           /\ ItemsOf(Assigned(cells, q, i, x), q) = [ItemsOf(cells, q) EXCEPT ![i] = x]
<1> DEFINE new == Assigned(cells, q, i, x)
           k == q[i]
<1>1. /\ cells \in Seq(Cell(I)) /\ c \in Nat /\ q \in Seq(Nat) /\ k \in DOMAIN cells
      /\ DOMAIN q = 1 .. Len(q) /\ DOMAIN cells = 1 .. Len(cells)
      /\ \A j \in DOMAIN q : q[j] \in DOMAIN cells /\ cells[q[j]].freed = FALSE
      /\ \A a, b \in DOMAIN q : q[a] = q[b] => a = b
    BY DEF OneList
<1>2. /\ Len(q) = 0 => c = 0
      /\ Len(q) # 0 => c = q[1]
      /\ \A j \in DOMAIN q : j # Len(q) => cells[q[j]].next = q[j + 1]
      /\ \A j \in DOMAIN q : j = Len(q) => cells[q[j]].next = 0
    BY DEF OneList
<1>3. new = [cells EXCEPT ![k].item = x] /\ q[i] = k
    BY DEF Assigned
<1> HIDE DEF new, k
<1>4. /\ new \in Seq(Cell(I)) /\ DOMAIN new = DOMAIN cells
      /\ \A j \in DOMAIN cells : j # k => new[j] = cells[j]
      /\ new[k].item = x
      /\ \A j \in DOMAIN cells : new[j].next = cells[j].next /\ new[j].freed = cells[j].freed
  <2>1. cells[k] \in Cell(I)
      BY <1>1
  <2>2. /\ [cells[k] EXCEPT !.item = x] \in Cell(I)
        /\ [cells[k] EXCEPT !.item = x].item = x
        /\ [cells[k] EXCEPT !.item = x].next = cells[k].next
        /\ [cells[k] EXCEPT !.item = x].freed = cells[k].freed
      BY <2>1 DEF Cell
  <2>3. new = [cells EXCEPT ![k] = [cells[k] EXCEPT !.item = x]]
      BY <1>3
  <2>4. /\ new \in Seq(Cell(I)) /\ DOMAIN new = DOMAIN cells
        /\ \A j \in DOMAIN cells : j # k => new[j] = cells[j]
        /\ new[k] = [cells[k] EXCEPT !.item = x]
      BY <1>1, <2>2, <2>3
  <2> QED
      BY <2>2, <2>4
<1>5. Chained(new, c, q)
  <2>1. \A j \in DOMAIN q : q[j] \in DOMAIN new /\ new[q[j]].freed = FALSE
      BY <1>1, <1>4, Zenon
  <2>2. \A j \in DOMAIN q : new[q[j]].next = cells[q[j]].next
      BY <1>1, <1>4, Zenon
  <2>3. \A j \in DOMAIN q : j # Len(q) => new[q[j]].next = q[j + 1]
      BY <1>2, <2>2, Zenon
  <2>4. \A j \in DOMAIN q : j = Len(q) => new[q[j]].next = 0
      BY <1>2, <2>2, Zenon
  <2> QED
      BY <1>1, <1>2, <2>1, <2>3, <2>4, LinksMake, Zenon
<1>6. Rewritten(cells, new, q, c, q, I)
  <2>1. \A j \in DOMAIN cells : (\A a \in DOMAIN q : q[a] # j) => j \in DOMAIN new /\ new[j] = cells[j]
      BY <1>3, <1>4
  <2> QED
      BY <1>1, <1>4, <1>5, <2>1 DEF Rewritten
<1>7. ItemsOf(new, q) = [ItemsOf(cells, q) EXCEPT ![i] = x]
  <2>1. \A j \in DOMAIN q : new[q[j]].item = IF j = i THEN x ELSE cells[q[j]].item
      BY <1>1, <1>3, <1>4
  <2> QED
      BY <2>1 DEF ItemsOf
<1> QED
    BY <1>6, <1>7 DEF new

\* A sequence without its i-th element.
Without(s, i) == [j \in 1 .. Len(s) - 1 |-> IF j < i THEN s[j] ELSE s[j + 1]]

\* The cells after list.delete of the i-th, and the head.
Removed(cells, q, i) ==
    LET freed == [cells EXCEPT ![q[i]].freed = TRUE]
    IN IF i = 1 THEN freed ELSE [freed EXCEPT ![q[i - 1]].next = cells[q[i]].next]
RemovedHead(cells, c, q, i) == IF i = 1 THEN cells[q[i]].next ELSE c

LEMMA WithoutShape ==
    ASSUME NEW S, NEW s \in Seq(S), NEW i \in 1 .. Len(s)
    PROVE  /\ Without(s, i) \in Seq(S) /\ Len(Without(s, i)) = Len(s) - 1
           /\ Len(s) - 1 \in Nat /\ DOMAIN Without(s, i) = 1 .. Len(s) - 1
           /\ \A j \in 1 .. Len(s) - 1 : /\ j < i => Without(s, i)[j] = s[j]
                                         /\ ~(j < i) => Without(s, i)[j] = s[j + 1]
                                         /\ j \in 1 .. Len(s) /\ j + 1 \in 1 .. Len(s)
<1>1. Len(s) \in Nat /\ Len(s) - 1 \in Nat
    OBVIOUS
<1>2. \A j \in 1 .. Len(s) - 1 : j \in 1 .. Len(s) /\ j + 1 \in 1 .. Len(s)
    BY <1>1
<1>3. \A j \in 1 .. Len(s) : s[j] \in S
    OBVIOUS
<1> DEFINE n == Len(s) - 1
<1>4. n \in Nat /\ \A j \in 1 .. n : j \in 1 .. Len(s) /\ j + 1 \in 1 .. Len(s)
    BY <1>1, <1>2
<1>5. Without(s, i) = [j \in 1 .. n |-> IF j < i THEN s[j] ELSE s[j + 1]]
    BY DEF Without
<1> HIDE DEF n
<1>6. Without(s, i) \in Seq(S) /\ Len(Without(s, i)) = n /\ DOMAIN Without(s, i) = 1 .. n
    BY <1>3, <1>4, <1>5
<1> QED
    BY <1>4, <1>5, <1>6 DEF n

LEMMA RemoveCells ==
    ASSUME NEW I, NEW cells, NEW c, NEW q, OneList(cells, c, q, I), NEW i \in DOMAIN q
    PROVE  /\ Rewritten(cells, Removed(cells, q, i), q, RemovedHead(cells, c, q, i), Without(q, i), I)
           /\ ItemsOf(Removed(cells, q, i), Without(q, i)) = Without(ItemsOf(cells, q), i)
<1> DEFINE new == Removed(cells, q, i)
           d == RemovedHead(cells, c, q, i)
           s == Without(q, i)
           freed == [cells EXCEPT ![q[i]].freed = TRUE]
           next == cells[q[i]].next
<1>1. /\ cells \in Seq(Cell(I)) /\ c \in Nat /\ q \in Seq(Nat) /\ Len(q) \in Nat
      /\ DOMAIN q = 1 .. Len(q) /\ DOMAIN cells = 1 .. Len(cells)
      /\ \A j \in DOMAIN q : q[j] \in DOMAIN cells /\ cells[q[j]].freed = FALSE
      /\ \A a, b \in DOMAIN q : q[a] = q[b] => a = b
    BY DEF OneList
<1>2. /\ Len(q) # 0 => c = q[1]
      /\ \A j \in DOMAIN q : j # Len(q) => cells[q[j]].next = q[j + 1]
      /\ \A j \in DOMAIN q : j = Len(q) => cells[q[j]].next = 0
    BY DEF OneList
<1>3. /\ i = 1 => new = freed /\ d = next
      /\ i # 1 => new = [freed EXCEPT ![q[i - 1]].next = next] /\ d = c
    BY DEF Removed, RemovedHead
<1>4. /\ s \in Seq(Nat) /\ Len(s) = Len(q) - 1 /\ Len(s) \in Nat /\ DOMAIN s = 1 .. Len(s)
      /\ \A j \in DOMAIN s : /\ j < i => s[j] = q[j]
                             /\ ~(j < i) => s[j] = q[j + 1]
                             /\ j \in DOMAIN q /\ j + 1 \in DOMAIN q
  <2>1. i \in 1 .. Len(q) /\ q \in Seq(Nat)
      BY <1>1
  <2>2. /\ s \in Seq(Nat) /\ Len(s) = Len(q) - 1
        /\ Len(q) - 1 \in Nat /\ DOMAIN s = 1 .. Len(q) - 1
        /\ \A j \in 1 .. Len(q) - 1 : /\ j < i => s[j] = q[j]
                                      /\ ~(j < i) => s[j] = q[j + 1]
                                      /\ j \in 1 .. Len(q) /\ j + 1 \in 1 .. Len(q)
      BY <2>1, WithoutShape, Zenon
  <2> HIDE DEF s
  <2> QED
      BY <1>1, <2>2
<1> HIDE DEF new, d, s
<1>5. /\ freed \in Seq(Cell(I)) /\ DOMAIN freed = DOMAIN cells
      /\ \A k \in DOMAIN cells : k # q[i] => freed[k] = cells[k]
      /\ \A k \in DOMAIN cells : freed[k].item = cells[k].item /\ freed[k].next = cells[k].next
  <2> DEFINE k == q[i]
  <2>1. k \in DOMAIN cells /\ cells[k] \in Cell(I)
    <3>1. k \in DOMAIN cells
        BY <1>1
    <3> HIDE DEF k
    <3> QED
        BY <1>1, <3>1
  <2> HIDE DEF k
  <2>2. /\ [cells[k] EXCEPT !.freed = TRUE] \in Cell(I)
        /\ [cells[k] EXCEPT !.freed = TRUE].item = cells[k].item
        /\ [cells[k] EXCEPT !.freed = TRUE].next = cells[k].next
      BY <2>1 DEF Cell
  <2>3. freed = [cells EXCEPT ![k] = [cells[k] EXCEPT !.freed = TRUE]]
      BY DEF k
  <2> HIDE DEF freed
  <2>4. /\ freed \in Seq(Cell(I)) /\ DOMAIN freed = DOMAIN cells
        /\ \A j \in DOMAIN cells : j # k => freed[j] = cells[j]
        /\ freed[k] = [cells[k] EXCEPT !.freed = TRUE]
      BY <1>1, <2>1, <2>2, <2>3
  <2>5. \A j \in DOMAIN cells : freed[j].item = cells[j].item /\ freed[j].next = cells[j].next
      BY <2>2, <2>4
  <2>6. \A j \in DOMAIN cells : j # q[i] => freed[j] = cells[j]
      BY <2>4 DEF k
  <2> QED
      BY <2>4, <2>5, <2>6
<1>6. next \in Nat
  <2>1. cells[q[i]] \in Cell(I)
      BY <1>1
  <2> QED
      BY <2>1, CellFields, Zenon
<1> HIDE DEF freed, next
<1>7. /\ new \in Seq(Cell(I)) /\ DOMAIN new = DOMAIN cells
      /\ \A k \in DOMAIN cells : k # q[i] => new[k].freed = cells[k].freed
      /\ \A k \in DOMAIN cells : new[k].item = cells[k].item
      /\ \A k \in DOMAIN cells : (i # 1 /\ k = q[i - 1]) \/ new[k].next = cells[k].next
      /\ \A k \in DOMAIN cells : (i # 1 /\ k = q[i - 1]) \/ new[k] = freed[k]
      /\ i # 1 => new[q[i - 1]].next = next
  <2>1. CASE i = 1
      BY <1>3, <1>5, <2>1
  <2>2. CASE i # 1
    <3> DEFINE k == q[i - 1]
    <3>1. i - 1 \in DOMAIN q /\ k \in DOMAIN cells
        BY <1>1, <2>2
    <3>2. new = [freed EXCEPT ![k] = [freed[k] EXCEPT !.next = next]]
        BY <1>3, <2>2
    <3>3. i # 1 => k = q[i - 1]
        OBVIOUS
    <3> HIDE DEF k
    <3>4. freed[k] \in Cell(I)
        BY <1>5, <3>1
    <3>5. /\ [freed[k] EXCEPT !.next = next] \in Cell(I)
          /\ [freed[k] EXCEPT !.next = next].item = freed[k].item
          /\ [freed[k] EXCEPT !.next = next].freed = freed[k].freed
          /\ [freed[k] EXCEPT !.next = next].next = next
        BY <1>6, <3>4 DEF Cell
    <3>6. /\ new \in Seq(Cell(I)) /\ DOMAIN new = DOMAIN cells
          /\ \A j \in DOMAIN cells : j # k => new[j] = freed[j]
          /\ new[k] = [freed[k] EXCEPT !.next = next]
        BY <1>5, <3>1, <3>2, <3>5
    <3>7. \A j \in DOMAIN cells : /\ new[j].item = cells[j].item
                                  /\ new[j].freed = freed[j].freed
                                  /\ j # k => new[j].next = cells[j].next
        BY <1>5, <3>5, <3>6
    <3>8. \A j \in DOMAIN cells : j # q[i] => new[j].freed = cells[j].freed
        BY <1>5, <3>7
    <3>9. new[q[i - 1]].next = next
        BY <2>2, <3>3, <3>5, <3>6
    <3>10. \A j \in DOMAIN cells : (i # 1 /\ j = q[i - 1]) <=> j = k
        BY <2>2, <3>3
    <3> QED
        BY <3>6, <3>7, <3>8, <3>9, <3>10
  <2> QED
      BY <2>1, <2>2
<1>8. next = cells[q[i]].next
    BY DEF next
<1>n. /\ i \in Nat /\ 1 <= i /\ i <= Len(q) /\ Len(q) \in Nat /\ Len(s) = Len(q) - 1 /\ Len(s) \in Nat
      /\ \A j \in DOMAIN s : j \in Nat /\ 1 <= j /\ j <= Len(s)
      /\ \A j \in Nat : 1 <= j /\ j <= Len(s) => j \in DOMAIN s
      /\ \A j \in Nat : 1 <= j /\ j <= Len(q) => j \in DOMAIN q
  <2>1. i \in 1 .. Len(q)
      BY <1>1
  <2>2. i \in Nat /\ 1 <= i /\ i <= Len(q) /\ Len(q) \in Nat
      BY <1>1, <2>1
  <2>3. Len(s) = Len(q) - 1 /\ Len(s) \in Nat /\ DOMAIN s = 1 .. Len(s)
      BY <1>4, <2>2
  <2>4. \A j \in 1 .. Len(s) : j \in Nat /\ 1 <= j /\ j <= Len(s)
      BY <2>3
  <2>5. \A j \in Nat : 1 <= j /\ j <= Len(s) => j \in 1 .. Len(s)
      BY <2>3
  <2>6. \A j \in Nat : 1 <= j /\ j <= Len(q) => j \in 1 .. Len(q)
      BY <2>2
  <2> QED
      BY <1>1, <2>2, <2>3, <2>4, <2>5, <2>6, Zenon
<1>a. \A j \in DOMAIN s : \E a \in DOMAIN q :
         s[j] = q[a] /\ a # i /\ ((a = j /\ j < i) \/ (a = j + 1 /\ ~(j < i)))
  <2> TAKE j \in DOMAIN s
  <2>1. CASE j < i
    <3>1. j # i /\ j \in DOMAIN q /\ s[j] = q[j]
        BY <1>n, <1>4, <2>1
    <3> QED
        BY <2>1, <3>1
  <2>2. CASE ~(j < i)
    <3>1. j + 1 # i
        BY <1>n, <2>2
    <3> QED
        BY <1>4, <2>2, <3>1
  <2> QED
      BY <2>1, <2>2
<1>9. Chained(new, d, s)
  <2>1. \A j \in DOMAIN s : s[j] \in DOMAIN new /\ new[s[j]].freed = FALSE
    <3> TAKE j \in DOMAIN s
    <3>1. PICK a \in DOMAIN q : s[j] = q[a] /\ a # i
        BY <1>a
    <3>2. q[a] # q[i] /\ q[a] \in DOMAIN cells /\ cells[q[a]].freed = FALSE
        BY <1>1, <3>1
    <3> QED
        BY <1>7, <3>1, <3>2, Zenon
  <2>2. ASSUME NEW j \in DOMAIN s
        PROVE  /\ j # Len(s) => new[s[j]].next = s[j + 1]
               /\ j = Len(s) => new[s[j]].next = 0
    <3>1. CASE j < i - 1
      <4>1. j < i /\ j + 1 < i /\ j # Len(s) /\ j # Len(q) /\ j \in DOMAIN q /\ j + 1 \in DOMAIN s
        <5>1. j \in Nat /\ 1 <= j /\ j <= Len(s)
            BY <1>n
        <5>2. j < i /\ j + 1 < i /\ j # Len(s) /\ j # Len(q)
              /\ j + 1 \in Nat /\ 1 <= j + 1 /\ j + 1 <= Len(s) /\ j <= Len(q)
            BY <1>n, <3>1, <5>1
        <5> QED
            BY <1>n, <5>1, <5>2, Zenon
      <4>2. s[j] = q[j] /\ s[j + 1] = q[j + 1]
          BY <1>4, <4>1, Zenon
      <4>3. i # 1 => j # i - 1 /\ i - 1 \in DOMAIN q
          BY <1>1, <3>1
      <4>4. i # 1 => q[j] # q[i - 1]
          BY <1>1, <4>1, <4>3
      <4>5. new[q[j]].next = cells[q[j]].next
          BY <1>1, <1>7, <4>1, <4>4
      <4> QED
          BY <1>2, <4>1, <4>2, <4>5
    <3>2. CASE j = i - 1
      <4>1. j < i /\ i # 1 /\ j + 1 = i /\ (j = Len(s) <=> i = Len(q))
          BY <1>n, <1>4, <3>2
      <4>2. s[j] = q[i - 1]
          BY <1>4, <3>2, <4>1
      <4>3. new[s[j]].next = cells[q[i]].next
          BY <1>7, <1>8, <4>1, <4>2
      <4>4. j # Len(s) => j + 1 \in DOMAIN s /\ ~(j + 1 < i)
        <5>1. j \in Nat /\ 1 <= j /\ j <= Len(s)
            BY <1>n
        <5>2. ~(j + 1 < i)
            BY <1>n, <4>1
        <5>3. j # Len(s) => j + 1 \in Nat /\ 1 <= j + 1 /\ j + 1 <= Len(s)
            BY <1>n, <5>1
        <5> QED
            BY <1>n, <5>2, <5>3, Zenon
      <4>5. j # Len(s) => s[j + 1] = q[(j + 1) + 1]
          BY <1>4, <4>4, Zenon
      <4> QED
          BY <1>2, <4>1, <4>3, <4>5
    <3>3. CASE ~(j < i)
      <4>1. s[j] = q[j + 1] /\ j + 1 \in DOMAIN q /\ (j = Len(s) <=> j + 1 = Len(q))
          BY <1>n, <1>4, <3>3
      <4>2. i # 1 => j + 1 # i - 1 /\ i - 1 \in DOMAIN q
        <5>1. j \in Nat
            BY <1>n
        <5>2. i # 1 => i - 1 \in Nat /\ 1 <= i - 1 /\ i - 1 <= Len(q)
            BY <1>n
        <5>3. i # 1 => j + 1 # i - 1
            BY <1>n, <3>3, <5>1
        <5> QED
            BY <1>n, <5>2, <5>3, Zenon
      <4>3. i # 1 => q[j + 1] # q[i - 1]
          BY <1>1, <4>1, <4>2
      <4>4. new[s[j]].next = cells[q[j + 1]].next
          BY <1>1, <1>7, <4>1, <4>3
      <4>5. j # Len(s) => j + 1 \in DOMAIN s /\ ~(j + 1 < i)
          BY <1>n, <1>4, <3>3
      <4>6. j # Len(s) => s[j + 1] = q[(j + 1) + 1]
          BY <1>4, <4>5, Zenon
      <4> QED
          BY <1>2, <4>1, <4>4, <4>6
    <3> QED
        BY <1>n, <3>1, <3>2, <3>3
  <2>3. (Len(s) = 0 => d = 0) /\ (Len(s) # 0 => d = s[1])
    <3>1. CASE i = 1
      <4>1. Len(s) = 0 => i = Len(q)
          BY <1>n, <1>4, <3>1
      <4>2. Len(s) # 0 => i # Len(q) /\ 1 \in DOMAIN s /\ ~(1 < i)
          BY <1>n, <1>4, <3>1
      <4>3. Len(s) # 0 => s[1] = q[1 + 1]
          BY <1>4, <4>2, Zenon
      <4> QED
          BY <1>2, <1>3, <1>8, <3>1, <4>1, <4>2, <4>3
    <3>2. CASE i # 1
      <4>1. Len(s) # 0 /\ Len(q) # 0 /\ 1 \in DOMAIN s /\ 1 < i
          BY <1>n, <1>4, <3>2
      <4> QED
          BY <1>2, <1>3, <1>4, <3>2, <4>1
    <3> QED
        BY <3>1, <3>2
  <2> QED
      BY <1>4, <2>1, <2>2, <2>3, LinksMake
<1>10. Rewritten(cells, new, q, d, s, I)
  <2>1. d \in Nat
      BY <1>1, <1>3, <1>6
  <2>2. \A a, b \in DOMAIN s : s[a] = s[b] => a = b
    <3> TAKE a, b \in DOMAIN s
    <3>1. PICK e \in DOMAIN q : s[a] = q[e] /\ ((e = a /\ a < i) \/ (e = a + 1 /\ ~(a < i)))
        BY <1>a
    <3>2. PICK f \in DOMAIN q : s[b] = q[f] /\ ((f = b /\ b < i) \/ (f = b + 1 /\ ~(b < i)))
        BY <1>a
    <3>3. s[a] = s[b] => e = f
        BY <1>1, <3>1, <3>2
    <3>4. e = f => a = b
        BY <1>n, <3>1, <3>2
    <3> QED
        BY <3>3, <3>4
  <2>3. \A a \in DOMAIN s : s[a] \notin DOMAIN cells \/ \E j \in DOMAIN q : s[a] = q[j]
      BY <1>a
  <2>4. ASSUME NEW k \in DOMAIN cells, \A a \in DOMAIN q : q[a] # k
        PROVE  k \in DOMAIN new /\ new[k] = cells[k]
    <3>1. k # q[i] /\ (i # 1 => k # q[i - 1])
      <4>1. i # 1 => i - 1 \in DOMAIN q
          BY <1>1
      <4> QED
          BY <2>4, <4>1
    <3> QED
        BY <1>5, <1>7, <3>1
  <2> QED
      BY <1>4, <1>7, <1>9, <2>1, <2>2, <2>3, <2>4 DEF Rewritten
<1>11. ItemsOf(new, s) = Without(ItemsOf(cells, q), i)
  <2> DEFINE u == ItemsOf(cells, q)
             v == Without(u, i)
             w == ItemsOf(new, s)
  <2>1. u \in Seq(I) /\ Len(u) = Len(q) /\ \A j \in 1 .. Len(q) : u[j] = cells[q[j]].item
    <3>1. cells \in Seq(Cell(I)) /\ q \in Seq(Nat) /\ \A j \in DOMAIN q : q[j] \in DOMAIN cells
        BY <1>1, Zenon
    <3> QED
        BY <3>1, ItemsShape, Zenon
  <2>2. w \in Seq(I) /\ Len(w) = Len(s) /\ \A j \in 1 .. Len(s) : w[j] = new[s[j]].item
    <3>1. new \in Seq(Cell(I)) /\ s \in Seq(Nat)
        BY <1>4, <1>7, Zenon
    <3>2. \A j \in DOMAIN s : s[j] \in DOMAIN new
        BY <1>9 DEF Chained
    <3> QED
        BY <3>1, <3>2, ItemsShape, Zenon
  <2> HIDE DEF u, w
  <2>3. /\ v \in Seq(I) /\ Len(v) = Len(u) - 1
        /\ \A j \in 1 .. Len(u) - 1 : /\ j < i => v[j] = u[j]
                                      /\ ~(j < i) => v[j] = u[j + 1]
    <3>1. i \in 1 .. Len(u)
        BY <1>1, <2>1
    <3> QED
        BY <2>1, <3>1, WithoutShape, Zenon
  <2> HIDE DEF v
  <2>4. Len(v) = Len(w)
      BY <1>4, <2>1, <2>2, <2>3
  <2>5. ASSUME NEW j \in 1 .. Len(w) PROVE w[j] = v[j]
    <3>1. j \in DOMAIN s /\ j \in 1 .. Len(u) - 1 /\ j \in 1 .. Len(s)
        BY <1>4, <2>1, <2>2
    <3>2. w[j] = cells[s[j]].item
      <4>1. s[j] \in DOMAIN cells
          BY <1>1, <1>a, <3>1
      <4> QED
          BY <1>7, <2>2, <3>1, <4>1
    <3>3. CASE j < i
      <4>1. s[j] = q[j] /\ v[j] = u[j] /\ j \in 1 .. Len(q)
          BY <1>1, <1>4, <2>3, <3>1, <3>3
      <4> QED
          BY <2>1, <3>2, <4>1
    <3>4. CASE ~(j < i)
      <4>1. s[j] = q[j + 1] /\ v[j] = u[j + 1] /\ j + 1 \in 1 .. Len(q)
          BY <1>1, <1>4, <2>3, <3>1, <3>4
      <4> QED
          BY <2>1, <3>2, <4>1
    <3> QED
        BY <3>3, <3>4
  <2> QED
      BY <2>2, <2>3, <2>4, <2>5, SeqEqual DEF u, v, w
<1> QED
    BY <1>10, <1>11 DEF new, d, s

\* The new cells of a relinked list, and its head.
FreshCells(cells, items) == [i \in 1 .. Len(items) |-> Len(cells) + i]
RelinkedHead(cells, items) == IF items = <<>> THEN 0 ELSE Len(cells) + 1

LEMMA RelinkCells ==
    ASSUME NEW I, NEW cells, NEW c, NEW q, OneList(cells, c, q, I), NEW items \in Seq(I)
    PROVE  /\ Rewritten(cells, cells \o NewCells(Len(cells), items), q, RelinkedHead(cells, items),
                        FreshCells(cells, items), I)
           /\ ItemsOf(cells \o NewCells(Len(cells), items), FreshCells(cells, items)) = items
<1> DEFINE m == Len(items)
           n == Len(cells)
           s == FreshCells(cells, items)
           fresh == NewCells(Len(cells), items)
           new == cells \o fresh
           d == RelinkedHead(cells, items)
<1>1. /\ cells \in Seq(Cell(I)) /\ n \in Nat /\ DOMAIN cells = 1 .. n
      /\ m \in Nat /\ DOMAIN items = 1 .. m /\ (items = <<>> <=> m = 0)
      /\ \A i \in 1 .. m : items[i] \in I
  <2>1. items = <<>> <=> m = 0
      BY EmptySeq
  <2> QED
      BY <2>1 DEF OneList
<1>2. fresh = [i \in 1 .. m |-> ListNode(items[i], IF i = m THEN 0 ELSE n + i + 1)]
    BY <1>1 DEF NewCells
<1>3. s = [i \in 1 .. m |-> n + i] /\ d = IF items = <<>> THEN 0 ELSE n + 1
    BY DEF FreshCells, RelinkedHead
<1> HIDE DEF m, n, s, fresh, d
<1>4. /\ fresh \in Seq(Cell(I)) /\ Len(fresh) = m
      /\ \A i \in 1 .. m : /\ fresh[i].item = items[i] /\ fresh[i].freed = FALSE
                           /\ fresh[i].next = IF i = m THEN 0 ELSE n + i + 1
  <2>1. \A i \in 1 .. m : (IF i = m THEN 0 ELSE n + i + 1) \in Nat
      BY <1>1
  <2>2. \A i \in 1 .. m : /\ fresh[i] \in Cell(I)
                          /\ fresh[i].item = items[i] /\ fresh[i].freed = FALSE
                          /\ fresh[i].next = IF i = m THEN 0 ELSE n + i + 1
    <3> TAKE i \in 1 .. m
    <3> DEFINE e == IF i = m THEN 0 ELSE n + i + 1
    <3>1. e \in Nat /\ items[i] \in I /\ fresh[i] = ListNode(items[i], e)
        BY <1>1, <1>2, <2>1
    <3> HIDE DEF e
    <3>2. /\ ListNode(items[i], e) \in Cell(I) /\ ListNode(items[i], e).item = items[i]
          /\ ListNode(items[i], e).next = e /\ ListNode(items[i], e).freed = FALSE
        BY <3>1 DEF ListNode, Cell
    <3> QED
        BY <3>1, <3>2 DEF e
  <2>3. fresh \in [1 .. m -> Cell(I)]
      BY <1>2, <2>2
  <2> QED
      BY <1>1, <2>2, <2>3
<1>5. /\ new \in Seq(Cell(I)) /\ Len(new) = n + m /\ DOMAIN new = 1 .. n + m
      /\ \A k \in 1 .. n + m : new[k] = IF k <= n THEN cells[k] ELSE fresh[k - n]
  <2>1. /\ new \in Seq(Cell(I)) /\ Len(new) = Len(cells) + Len(fresh)
        /\ \A k \in 1 .. Len(cells) + Len(fresh) :
             new[k] = IF k <= Len(cells) THEN cells[k] ELSE fresh[k - Len(cells)]
    <3>1. fresh \in Seq(Cell(I)) /\ cells \in Seq(Cell(I))
        BY <1>1, <1>4, Zenon
    <3> QED
        BY <3>1, ConcatProperties
  <2> HIDE DEF new
  <2> QED
      BY <1>4, <2>1 DEF n
<1> HIDE DEF new
<1>6. /\ \A k \in DOMAIN cells : k \in DOMAIN new /\ new[k] = cells[k]
      /\ \A i \in 1 .. m : n + i \in DOMAIN new /\ new[n + i] = fresh[i] /\ n + i \notin DOMAIN cells
  <2>1. \A i \in 1 .. m : n + i \in 1 .. n + m /\ ~(n + i <= n) /\ (n + i) - n = i
      BY <1>1
  <2>2. \A k \in 1 .. n : k \in 1 .. n + m /\ k <= n
      BY <1>1
  <2> QED
      BY <1>1, <1>5, <2>1, <2>2
<1>7. /\ s \in Seq(Nat) /\ Len(s) = m /\ DOMAIN s = 1 .. m
      /\ \A i \in 1 .. m : s[i] = n + i
    BY <1>1, <1>3
<1>8. Chained(new, d, s)
  <2>1. \A i \in DOMAIN s : s[i] \in DOMAIN new /\ new[s[i]].freed = FALSE
      BY <1>4, <1>6, <1>7
  <2>2. \A i \in DOMAIN s : i # Len(s) => new[s[i]].next = s[i + 1]
    <3> TAKE i \in DOMAIN s
    <3>1. i # m => i + 1 \in 1 .. m /\ n + i + 1 = n + (i + 1)
        BY <1>1, <1>7
    <3>2. i # m => s[i + 1] = n + i + 1
        BY <1>7, <3>1
    <3>3. new[s[i]] = fresh[i] /\ i \in 1 .. m
        BY <1>6, <1>7
    <3> QED
        BY <1>4, <1>7, <3>2, <3>3
  <2>3. \A i \in DOMAIN s : i = Len(s) => new[s[i]].next = 0
      BY <1>4, <1>6, <1>7
  <2>4. (Len(s) = 0 => d = 0) /\ (Len(s) # 0 => d = s[1])
      BY <1>1, <1>3, <1>7
  <2> QED
      BY <1>7, <2>1, <2>2, <2>3, <2>4, LinksMake
<1>9. Rewritten(cells, new, q, d, s, I)
  <2>1. d \in Nat
      BY <1>1, <1>3
  <2>2. \A a, b \in DOMAIN s : s[a] = s[b] => a = b
      BY <1>1, <1>7
  <2> HIDE DEF d
  <2> QED
      BY <1>5, <1>6, <1>7, <1>8, <2>1, <2>2 DEF Rewritten
<1>10. ItemsOf(new, s) = items
  <2>1. ItemsOf(new, s) \in Seq(I) /\ Len(ItemsOf(new, s)) = Len(s)
        /\ \A j \in 1 .. Len(s) : ItemsOf(new, s)[j] = new[s[j]].item
    <3>1. new \in Seq(Cell(I)) /\ s \in Seq(Nat)
        BY <1>5, <1>7, Zenon
    <3>2. \A j \in DOMAIN s : s[j] \in DOMAIN new
        BY <1>8 DEF Chained
    <3> QED
        BY <3>1, <3>2, ItemsShape, Zenon
  <2>2. \A j \in 1 .. m : ItemsOf(new, s)[j] = items[j]
      BY <1>4, <1>6, <1>7, <2>1
  <2> QED
      BY <1>1, <1>7, <2>1, <2>2, SeqEqual DEF m
<1> QED
    BY <1>9, <1>10 DEF m, n, s, fresh, d, new
-----------------------------------------------------------------------------
(* The operations on lists. *)

\* value_list_append adds the item behind all others: the last of the cells is
\* the one whose next is NULL, wherever in the memory it is.
THEOREM ListAppend ==
    ASSUME NEW I, NEW st, NEW p, Heap(st, p, I), NEW l \in DOMAIN p, NEW x \in I
    PROVE  Becomes(st, AppendCell(st, l, p[l], x), p, l, Append(Contents(st, p)[l], x), I)
<1> DEFINE t == AppendCell(st, l, p[l], x)
           new == Appended(st.cells, p[l], x)
           c == AppendedHead(st.cells, st.lists[l], p[l])
           s == Append(p[l], Len(st.cells) + 1)
<1>1. /\ Memory(st) /\ DOMAIN st.lists = DOMAIN p
      /\ OneList(st.cells, st.lists[l], p[l], I)
      /\ Contents(st, p)[l] = ItemsOf(st.cells, p[l])
    BY ListOfHeap
<1>2. Rewritten(st.cells, new, p[l], c, s, I) /\ ItemsOf(new, s) = Append(ItemsOf(st.cells, p[l]), x)
    BY <1>1, AppendCells
<1>3. Memory(t) /\ t.cells = new /\ t.lists = [st.lists EXCEPT ![l] = c]
  <2>0. st.lists \in Seq(Nat) /\ Len(Append(st.cells, ListNode(x, 0))) = Len(st.cells) + 1
      BY <1>1, NodeIsCell, AppendProperties DEF Heap
  <2>1. CASE p[l] = <<>>
      BY <1>1, <2>0, <2>1 DEF AppendCell, Appended, AppendedHead, Memory
  <2>2. CASE p[l] # <<>>
    <3>1. t = [st EXCEPT !.cells = new] /\ c = st.lists[l]
        BY <2>0, <2>2 DEF AppendCell, Appended, AppendedHead
    <3> HIDE DEF t, new, c
    <3>2. Memory(t) /\ t.cells = new /\ t.lists = st.lists
        BY <1>1, <3>1, CellsWritten
    <3>3. [st.lists EXCEPT ![l] = c] = st.lists
        BY <2>0, <3>1, HeadKept, Zenon
    <3> QED
        BY <3>2, <3>3, Zenon
  <2> QED
      BY <2>1, <2>2
<1> HIDE DEF t, new, c, s
<1> QED
  <2>1. Becomes(st, t, p, l, ItemsOf(t.cells, s), I)
    <3>1. Rewritten(st.cells, t.cells, p[l], c, s, I)
        BY <1>2, <1>3
    <3> QED
        BY <1>3, <3>1, Rechained
  <2> QED
      BY <1>1, <1>2, <1>3, <2>1 DEF t

\* value_list_insert_front adds the item before all others.
THEOREM ListInsert ==
    ASSUME NEW I, NEW st, NEW p, Heap(st, p, I), NEW l \in DOMAIN p, NEW x \in I
    PROVE  Becomes(st, value_list_insert_front(st, l, x), p, l, <<x>> \o Contents(st, p)[l], I)
<1> DEFINE t == value_list_insert_front(st, l, x)
           new == Inserted(st.cells, st.lists[l], x)
           c == NewCell(st.cells)
           s == Fronted(st.cells, p[l])
<1>1. /\ Memory(st) /\ DOMAIN st.lists = DOMAIN p
      /\ OneList(st.cells, st.lists[l], p[l], I)
      /\ Contents(st, p)[l] = ItemsOf(st.cells, p[l])
    BY ListOfHeap
<1>2. Rewritten(st.cells, new, p[l], c, s, I) /\ ItemsOf(new, s) = <<x>> \o ItemsOf(st.cells, p[l])
    BY <1>1, InsertCells
<1>3. Memory(t) /\ t.cells = new /\ t.lists = [st.lists EXCEPT ![l] = c]
  <2>1. st.lists \in Seq(Nat) /\ st.cells \in Seq(Cell(I))
      BY DEF Heap
  <2> QED
      BY <1>1, <2>1 DEF value_list_insert_front, Inserted, NewCell, Memory
<1> HIDE DEF t, new, c, s
<1> QED
  <2>1. Becomes(st, t, p, l, ItemsOf(t.cells, s), I)
    <3>1. Rewritten(st.cells, t.cells, p[l], c, s, I)
        BY <1>2, <1>3
    <3> QED
        BY <1>3, <3>1, Rechained
  <2> QED
      BY <1>1, <1>2, <1>3, <2>1 DEF t

\* list.delete takes out the i-th item, and the freed cell is in no list.
THEOREM ListDelete ==
    ASSUME NEW I, NEW st, NEW p, Heap(st, p, I), NEW l \in DOMAIN p, NEW i \in DOMAIN p[l]
    PROVE  Becomes(st, RemoveCell(st, l, p[l], i), p, l, Without(Contents(st, p)[l], i), I)
<1> DEFINE t == RemoveCell(st, l, p[l], i)
           new == Removed(st.cells, p[l], i)
           c == RemovedHead(st.cells, st.lists[l], p[l], i)
           s == Without(p[l], i)
<1>1. /\ Memory(st) /\ DOMAIN st.lists = DOMAIN p
      /\ OneList(st.cells, st.lists[l], p[l], I)
      /\ Contents(st, p)[l] = ItemsOf(st.cells, p[l])
    BY ListOfHeap
<1>2. Rewritten(st.cells, new, p[l], c, s, I) /\ ItemsOf(new, s) = Without(ItemsOf(st.cells, p[l]), i)
    BY <1>1, RemoveCells
<1>3. Memory(t) /\ t.cells = new /\ t.lists = [st.lists EXCEPT ![l] = c]
  <2>1. st.lists \in Seq(Nat) /\ st.cells \in Seq(Cell(I))
      BY DEF Heap
  <2> QED
    <3>1. CASE i = 1
        BY <1>1, <2>1, <3>1 DEF RemoveCell, Removed, RemovedHead, Memory
    <3>2. CASE i # 1
      <4>1. t = [st EXCEPT !.cells = new] /\ c = st.lists[l]
          BY <3>2 DEF RemoveCell, Removed, RemovedHead
      <4> HIDE DEF t, new, c
      <4>2. Memory(t) /\ t.cells = new /\ t.lists = st.lists
          BY <1>1, <4>1, CellsWritten
      <4>3. t.lists = [st.lists EXCEPT ![l] = c]
        <5>1. [st.lists EXCEPT ![l] = c] = st.lists
            BY <2>1, <4>1, HeadKept
        <5> QED
            BY <4>2, <5>1
      <4> QED
          BY <4>2, <4>3
    <3> QED
        BY <3>1, <3>2
<1> HIDE DEF t, new, c, s
<1> QED
  <2>1. Becomes(st, t, p, l, ItemsOf(t.cells, s), I)
    <3>1. Rewritten(st.cells, t.cells, p[l], c, s, I)
        BY <1>2, <1>3
    <3> QED
        BY <1>3, <3>1, Rechained
  <2> QED
      BY <1>1, <1>2, <1>3, <2>1 DEF t

\* list[i] = x replaces the i-th item.
THEOREM ListAssign ==
    ASSUME NEW I, NEW st, NEW p, Heap(st, p, I), NEW l \in DOMAIN p, NEW x \in I, NEW i \in DOMAIN p[l]
    PROVE  Becomes(st, SetItem(st, p[l], i, x), p, l, [Contents(st, p)[l] EXCEPT ![i] = x], I)
<1> DEFINE t == SetItem(st, p[l], i, x)
           new == Assigned(st.cells, p[l], i, x)
           c == st.lists[l]
           s == p[l]
<1>1. /\ Memory(st) /\ DOMAIN st.lists = DOMAIN p
      /\ OneList(st.cells, st.lists[l], p[l], I)
      /\ Contents(st, p)[l] = ItemsOf(st.cells, p[l])
    BY ListOfHeap
<1>2. Rewritten(st.cells, new, p[l], c, s, I) /\ ItemsOf(new, s) = [ItemsOf(st.cells, p[l]) EXCEPT ![i] = x]
    BY <1>1, AssignCells
<1>3. Memory(t) /\ t.cells = new /\ t.lists = [st.lists EXCEPT ![l] = c]
  <2>1. st.lists \in Seq(Nat) /\ st.cells \in Seq(Cell(I))
      BY DEF Heap
  <2> QED
    <3>1. t = [st EXCEPT !.cells = new]
        BY <1>1 DEF SetItem, Assigned, Memory
    <3> HIDE DEF t, new
    <3>2. Memory(t) /\ t.cells = new /\ t.lists = st.lists
        BY <1>1, <3>1, CellsWritten
    <3> QED
        BY <1>1, <2>1, <3>2
<1> HIDE DEF t, new, c, s
<1> QED
  <2>1. Becomes(st, t, p, l, ItemsOf(t.cells, s), I)
    <3>1. Rewritten(st.cells, t.cells, p[l], c, s, I)
        BY <1>2, <1>3
    <3> QED
        BY <1>3, <3>1, Rechained
  <2> QED
      BY <1>1, <1>2, <1>3, <2>1 DEF t

\* A list whose cells are built anew, as sort does, has the items it is given,
\* whatever the cells it had.
THEOREM ListRelink ==
    ASSUME NEW I, NEW st, NEW p, Heap(st, p, I), NEW l \in DOMAIN p, NEW items \in Seq(I)
    PROVE  Becomes(st, Relink(st, l, items), p, l, items, I)
<1> DEFINE t == Relink(st, l, items)
           new == st.cells \o NewCells(Len(st.cells), items)
           c == RelinkedHead(st.cells, items)
           s == FreshCells(st.cells, items)
<1>1. /\ Memory(st) /\ DOMAIN st.lists = DOMAIN p
      /\ OneList(st.cells, st.lists[l], p[l], I)
      /\ Contents(st, p)[l] = ItemsOf(st.cells, p[l])
    BY ListOfHeap
<1>2. Rewritten(st.cells, new, p[l], c, s, I) /\ ItemsOf(new, s) = items
    BY <1>1, RelinkCells
<1>3. Memory(t) /\ t.cells = new /\ t.lists = [st.lists EXCEPT ![l] = c]
  <2>1. st.lists \in Seq(Nat) /\ st.cells \in Seq(Cell(I))
      BY DEF Heap
  <2> QED
      BY <1>1, <2>1 DEF Relink, RelinkedHead, Memory
<1> HIDE DEF t, new, c, s
<1> QED
  <2>1. Becomes(st, t, p, l, ItemsOf(t.cells, s), I)
    <3>1. Rewritten(st.cells, t.cells, p[l], c, s, I)
        BY <1>2, <1>3
    <3> QED
        BY <1>3, <3>1, Rechained
  <2> QED
      BY <1>1, <1>2, <1>3, <2>1 DEF t

\* A list literal is a new list with these items, behind all others.
THEOREM ListNew ==
    ASSUME NEW I, NEW st, NEW p, Heap(st, p, I), NEW items \in Seq(I)
    PROVE  \E q : /\ Heap(list_new(st, items), q, I)
                  /\ Contents(list_new(st, items), q) =
                       [l \in 1 .. Len(st.lists) + 1 |->
                          IF l = Len(st.lists) + 1 THEN items ELSE Contents(st, p)[l]]
<1> DEFINE m == Len(st.lists) + 1
           u == [st EXCEPT !.lists = Append(@, 0)]
           r == [l \in 1 .. m |-> IF l = m THEN <<>> ELSE p[l]]
<1>1. /\ DOMAIN p = 1 .. Len(st.lists) /\ \A l \in DOMAIN p : p[l] \in Seq(Nat)
      /\ st.lists \in Seq(Nat) /\ Len(st.lists) \in Nat /\ st.cells \in Seq(Cell(I)) /\ Memory(st)
  <2>1. Memory(st)
      BY DEF Heap
  <2> QED
      BY <2>1, HeapParts, Zenon
<1>2. /\ \A l \in DOMAIN p : Chained(st.cells, st.lists[l], p[l])
      /\ \A l, n \in DOMAIN p : \A i \in DOMAIN p[l], j \in DOMAIN p[n] :
           p[l][i] = p[n][j] => l = n /\ i = j
    BY HeapParts, Zenon
<1>3. Memory(u) /\ u.cells = st.cells /\ u.lists = Append(st.lists, 0)
    BY <1>1 DEF Memory
<1>4. /\ u.lists \in Seq(Nat) /\ Len(u.lists) = m /\ m \in Nat /\ DOMAIN u.lists = 1 .. m
      /\ u.lists[m] = 0 /\ \A l \in DOMAIN p : u.lists[l] = st.lists[l]
    BY <1>1, <1>3, AppendProperties
<1>5. /\ DOMAIN r = 1 .. m /\ r[m] = <<>> /\ m \in DOMAIN r
      /\ \A l \in DOMAIN r : l = m \/ (l \in DOMAIN p /\ r[l] = p[l])
      /\ \A l \in DOMAIN p : l \in DOMAIN r /\ l # m /\ r[l] = p[l]
    BY <1>1
<1> HIDE DEF u, r, m
<1>6. \A l \in DOMAIN r : r[l] \in Seq(Nat) /\ Chained(u.cells, u.lists[l], r[l])
  <2>1. Chained(u.cells, 0, <<>>)
      BY DEF Chained
  <2> TAKE l \in DOMAIN r
  <2>2. CASE l = m
      BY <1>4, <1>5, <2>1, <2>2
  <2>3. CASE l # m
    <3>1. l \in DOMAIN p /\ r[l] = p[l] /\ u.lists[l] = st.lists[l]
        BY <1>4, <1>5, <2>3
    <3> QED
        BY <1>1, <1>2, <1>3, <3>1
  <2> QED
      BY <2>2, <2>3
<1>7. \A l, n \in DOMAIN r : \A i \in DOMAIN r[l], j \in DOMAIN r[n] :
         r[l][i] = r[n][j] => l = n /\ i = j
  <2> TAKE l, n \in DOMAIN r
  <2>1. CASE l = m \/ n = m
      BY <1>5, <2>1
  <2>2. CASE l # m /\ n # m
    <3>1. l \in DOMAIN p /\ n \in DOMAIN p /\ r[l] = p[l] /\ r[n] = p[n]
        BY <1>5, <2>2
    <3>2. \A i \in DOMAIN p[l], j \in DOMAIN p[n] : p[l][i] = p[n][j] => l = n /\ i = j
        BY <1>2, <3>1, Zenon
    <3> QED
        BY <3>1, <3>2
  <2> QED
      BY <2>1, <2>2
<1>8. Heap(u, r, I)
  <2>1. r \in [1 .. Len(u.lists) -> Seq(Nat)]
    <3>1. r = [l \in DOMAIN r |-> r[l]]
        BY DEF r
    <3> QED
        BY <1>4, <1>5, <1>6, <3>1
  <2>2. Linked(u, r)
      BY <1>4, <1>5, <1>6, <1>7, Zenon DEF Linked
  <2> QED
      BY <1>1, <1>3, <1>4, <2>1, <2>2 DEF Heap
<1>9. \E q : Heap(list_new(st, items), q, I)
             /\ Contents(list_new(st, items), q) = [Contents(u, r) EXCEPT ![m] = items]
  <2>1. list_new(st, items) = Relink(u, m, items)
      BY DEF list_new, u, m
  <2>2. Becomes(u, Relink(u, m, items), r, m, items, I)
      BY <1>5, <1>8, ListRelink
  <2> QED
      BY <2>1, <2>2 DEF Becomes
<1>10. [Contents(u, r) EXCEPT ![m] = items] =
         [l \in 1 .. m |-> IF l = m THEN items ELSE Contents(st, p)[l]]
  <2>1. /\ DOMAIN Contents(u, r) = 1 .. m
        /\ Contents(u, r) = [l \in DOMAIN Contents(u, r) |-> Contents(u, r)[l]]
        /\ \A l \in 1 .. m : l # m => Contents(u, r)[l] = Contents(st, p)[l]
      BY <1>3, <1>5 DEF Contents
  <2> QED
      BY <2>1
<1> QED
    BY <1>9, <1>10 DEF m
-----------------------------------------------------------------------------
(* Data objects. *)

\* A memory whose data objects have keys in K and values in V.
Pair(K, V) == [key : K, val : V]
Datas(st, K, V) ==
    /\ st = [f \in DOMAIN st |-> st[f]] /\ "datas" \in DOMAIN st
    /\ st.datas \in Seq(Seq(Pair(K, V)))

\* The first pair with this key, 0 if there is none, and its value.
First(pairs, key) ==
    LET hit == {i \in DOMAIN pairs : pairs[i].key = key}
    IN IF hit = {} THEN 0 ELSE Min(hit)
Found(pairs, key) == IF First(pairs, key) = 0 THEN None ELSE pairs[First(pairs, key)].val

\* No key twice.
KeysOnce(pairs) == \A i, j \in DOMAIN pairs : pairs[i].key = pairs[j].key => i = j

LEMMA LeastNatural ==
    ASSUME NEW S \in SUBSET Nat, S # {}
    PROVE  \E n \in S : \A i \in S : n <= i
<1> DEFINE less == OpToRel(<, Nat)
<1>1. IsWellFoundedOn(less, Nat)
    BY NatLessThanWellFounded, Zenon
<1>2. \A i, n \in Nat : i < n => <<i, n>> \in less
    BY DEF OpToRel
<1> HIDE DEF less
<1>3. PICK n \in S : \A i \in S : ~(<<i, n>> \in less)
    BY <1>1, WFMin
<1>4. \A i \in S : ~(i < n)
    BY <1>2, <1>3
<1> QED
    BY <1>3, <1>4

LEMMA FirstIs ==
    ASSUME NEW S, NEW pairs \in Seq(S), NEW key
    PROVE  \/ First(pairs, key) = 0 /\ \A i \in DOMAIN pairs : pairs[i].key # key
           \/ /\ First(pairs, key) \in DOMAIN pairs /\ pairs[First(pairs, key)].key = key
              /\ \A i \in DOMAIN pairs : i < First(pairs, key) => pairs[i].key # key
<1> DEFINE hit == {i \in DOMAIN pairs : pairs[i].key = key}
<1>1. CASE hit = {}
    BY <1>1 DEF First
<1>2. CASE hit # {}
  <2>1. hit \in SUBSET Nat
      OBVIOUS
  <2>2. First(pairs, key) = Min(hit)
      BY <1>2 DEF First
  <2>3. \A i \in DOMAIN pairs : pairs[i].key = key => i \in hit
      OBVIOUS
  <2>4. \A i \in hit : i \in DOMAIN pairs /\ pairs[i].key = key
      OBVIOUS
  <2>5. \A i \in DOMAIN pairs : i \in Nat
      OBVIOUS
  <2> HIDE DEF hit
  <2>6. \E n \in hit : \A i \in hit : n <= i
      BY <1>2, <2>1, LeastNatural
  <2>7. Min(hit) \in hit /\ \A i \in hit : Min(hit) <= i
      BY <2>6 DEF Min
  <2>8. ASSUME NEW i \in DOMAIN pairs, i < Min(hit) PROVE pairs[i].key # key
    <3>1. Min(hit) \in Nat /\ i \in Nat
        BY <2>4, <2>5, <2>7
    <3>2. ~(Min(hit) <= i)
        BY <2>8, <3>1
    <3> QED
        BY <2>3, <2>7, <3>2
  <2> QED
      BY <2>2, <2>4, <2>7, <2>8
<1> QED
    BY <1>1, <1>2

LEMMA FirstOnly ==
    ASSUME NEW S, NEW pairs \in Seq(S), NEW key, NEW i \in DOMAIN pairs, pairs[i].key = key,
           \A j \in DOMAIN pairs : j < i => pairs[j].key # key
    PROVE  First(pairs, key) = i
<1>1. First(pairs, key) \in DOMAIN pairs /\ pairs[First(pairs, key)].key = key
      /\ \A j \in DOMAIN pairs : j < First(pairs, key) => pairs[j].key # key
    BY FirstIs
<1>2. ~(First(pairs, key) < i) /\ ~(i < First(pairs, key))
    BY <1>1
<1> QED
    BY <1>1, <1>2

LEMMA NoneFirst ==
    ASSUME NEW S, NEW pairs \in Seq(S), NEW key, \A j \in DOMAIN pairs : pairs[j].key # key
    PROVE  First(pairs, key) = 0
    BY FirstIs

\* A pair put before all others is the one its key finds, and hides no other key.
LEMMA PairAdded ==
    ASSUME NEW K, NEW V, NEW pairs \in Seq(Pair(K, V)), NEW x \in Pair(K, V),
           First(pairs, x.key) = 0
    PROVE  /\ <<x>> \o pairs \in Seq(Pair(K, V))
           /\ Found(<<x>> \o pairs, x.key) = x.val
           /\ \A k : k # x.key => Found(<<x>> \o pairs, k) = Found(pairs, k)
           /\ KeysOnce(pairs) => KeysOnce(<<x>> \o pairs)
<1> DEFINE s == <<x>> \o pairs
           P == Pair(K, V)
<1> HIDE DEF P
<1>1. pairs \in Seq(P) /\ x \in P /\ Len(pairs) \in Nat /\ DOMAIN pairs = 1 .. Len(pairs)
    BY DEF P
<1>2. /\ s \in Seq(P) /\ Len(s) = Len(pairs) + 1 /\ DOMAIN s = 1 .. Len(s)
      /\ s[1] = x /\ 1 \in DOMAIN s
      /\ \A i \in DOMAIN pairs : i + 1 \in DOMAIN s /\ s[i + 1] = pairs[i]
      /\ \A i \in DOMAIN s : i = 1 \/ \E j \in DOMAIN pairs : i = j + 1 /\ s[i] = pairs[j]
  <2>1. <<x>> \in Seq(P) /\ Len(<<x>>) = 1 /\ <<x>>[1] = x
      BY <1>1
  <2>2. /\ s \in Seq(P) /\ Len(s) = Len(<<x>>) + Len(pairs)
        /\ \A i \in 1 .. Len(<<x>>) + Len(pairs) :
             s[i] = IF i <= Len(<<x>>) THEN <<x>>[i] ELSE pairs[i - Len(<<x>>)]
      BY <1>1, <2>1, ConcatProperties
  <2>3. /\ Len(s) = 1 + Len(pairs)
        /\ \A i \in 1 .. 1 + Len(pairs) : s[i] = IF i <= 1 THEN <<x>>[i] ELSE pairs[i - 1]
      BY <2>1, <2>2
  <2> HIDE DEF s
  <2>4. s[1] = x /\ 1 \in DOMAIN s /\ Len(s) = Len(pairs) + 1
      BY <1>1, <2>1, <2>2, <2>3
  <2>5. ASSUME NEW i \in DOMAIN pairs PROVE i + 1 \in DOMAIN s /\ s[i + 1] = pairs[i]
    <3>1. i + 1 \in 1 .. 1 + Len(pairs) /\ ~(i + 1 <= 1) /\ (i + 1) - 1 = i
        BY <1>1
    <3>2. s[i + 1] = pairs[(i + 1) - 1]
        BY <2>3, <3>1, Zenon
    <3> QED
        BY <2>2, <2>3, <3>1, <3>2
  <2>6. ASSUME NEW i \in DOMAIN s, i # 1 PROVE \E j \in DOMAIN pairs : i = j + 1 /\ s[i] = pairs[j]
    <3>1. i - 1 \in DOMAIN pairs /\ i = (i - 1) + 1
        BY <1>1, <2>2, <2>4, <2>6
    <3> QED
        BY <2>5, <3>1
  <2> QED
      BY <2>2, <2>4, <2>5, <2>6
<1> HIDE DEF s
<1>3. Found(s, x.key) = x.val
  <2>1. \A j \in DOMAIN s : ~(j < 1)
      BY <1>2
  <2>2. First(s, x.key) = 1
      BY <1>2, <2>1, FirstOnly
  <2> QED
      BY <1>2, <2>2 DEF Found
<1>4. ASSUME NEW k, k # x.key PROVE Found(s, k) = Found(pairs, k)
  <2>1. CASE First(pairs, k) = 0
    <3>1. \A j \in DOMAIN pairs : pairs[j].key # k
        BY <1>1, <2>1, FirstIs
    <3>2. \A j \in DOMAIN s : s[j].key # k
        BY <1>2, <1>4, <3>1
    <3>3. First(s, k) = 0
        BY <1>2, <3>2, NoneFirst
    <3> QED
        BY <2>1, <3>3 DEF Found
  <2>2. CASE First(pairs, k) # 0
    <3> DEFINE i == First(pairs, k)
    <3>1. i \in DOMAIN pairs /\ pairs[i].key = k /\ \A j \in DOMAIN pairs : j < i => pairs[j].key # k
        BY <1>1, <2>2, FirstIs
    <3> HIDE DEF i
    <3>2. i + 1 \in DOMAIN s /\ s[i + 1] = pairs[i] /\ i + 1 # 0
        BY <1>1, <1>2, <3>1
    <3>3. ASSUME NEW j \in DOMAIN s, j < i + 1 PROVE s[j].key # k
      <4>1. CASE j = 1
          BY <1>2, <1>4, <4>1
      <4>2. ASSUME NEW b \in DOMAIN pairs, j = b + 1, s[j] = pairs[b] PROVE s[j].key # k
        <5>1. b < i
            BY <1>1, <3>1, <3>3, <4>2
        <5> QED
            BY <3>1, <4>2, <5>1
      <4> QED
          BY <1>2, <4>1, <4>2
    <3>4. First(s, k) = i + 1
      <4>1. i + 1 \in DOMAIN s /\ s[i + 1].key = k /\ s \in Seq(P)
          BY <1>2, <3>1, <3>2
      <4> QED
          BY <3>3, <4>1, FirstOnly
    <3> QED
        BY <2>2, <3>2, <3>4 DEF Found, i
  <2> QED
      BY <2>1, <2>2
<1>5. ASSUME KeysOnce(pairs) PROVE KeysOnce(s)
  <2>1. \A j \in DOMAIN pairs : pairs[j].key # x.key
      BY <1>1, FirstIs
  <2> SUFFICES ASSUME NEW a \in DOMAIN s, NEW b \in DOMAIN s, s[a].key = s[b].key
               PROVE  a = b
      BY DEF KeysOnce
  <2>2. CASE a = 1
      BY <1>2, <2>1, <2>2
  <2>3. CASE b = 1
      BY <1>2, <2>1, <2>3
  <2>4. CASE a # 1 /\ b # 1
    <3>1. PICK e \in DOMAIN pairs : a = e + 1 /\ s[a] = pairs[e]
        BY <1>2, <2>4
    <3>2. PICK f \in DOMAIN pairs : b = f + 1 /\ s[b] = pairs[f]
        BY <1>2, <2>4
    <3> QED
        BY <1>5, <3>1, <3>2 DEF KeysOnce
  <2> QED
      BY <2>2, <2>3, <2>4
<1> QED
    BY <1>2, <1>3, <1>4, <1>5 DEF s, P

\* A pair whose value is replaced keeps its place, so every key finds what it did.
Revalued(pairs, i, v) == [pairs EXCEPT ![i].val = v]

LEMMA PairChanged ==
    ASSUME NEW K, NEW V, NEW pairs \in Seq(Pair(K, V)), NEW key, NEW v \in V, NEW i,
           i = First(pairs, key), i # 0
    PROVE  /\ Revalued(pairs, i, v) \in Seq(Pair(K, V))
           /\ Found(Revalued(pairs, i, v), key) = v
           /\ \A k : k # key => Found(Revalued(pairs, i, v), k) = Found(pairs, k)
           /\ KeysOnce(pairs) => KeysOnce(Revalued(pairs, i, v))
<1> DEFINE s == [pairs EXCEPT ![i].val = v]
           x == [pairs[i] EXCEPT !.val = v]
<1>1. i \in DOMAIN pairs /\ pairs[i].key = key /\ \A j \in DOMAIN pairs : j < i => pairs[j].key # key
    BY FirstIs
<1>2. pairs[i] \in Pair(K, V)
    BY <1>1
<1>3. x \in Pair(K, V) /\ x.key = pairs[i].key /\ x.val = v
    BY <1>2 DEF Pair
<1>4. s = [pairs EXCEPT ![i] = x]
    OBVIOUS
<1> HIDE DEF x, s
<1>5. /\ s \in Seq(Pair(K, V)) /\ DOMAIN s = DOMAIN pairs /\ s[i].val = v
      /\ \A j \in DOMAIN pairs : s[j].key = pairs[j].key
      /\ \A j \in DOMAIN pairs : j # i => s[j] = pairs[j]
    BY <1>1, <1>3, <1>4
<1>6. \A k : First(s, k) = First(pairs, k)
  <2> TAKE k
  <2>1. {j \in DOMAIN s : s[j].key = k} = {j \in DOMAIN pairs : pairs[j].key = k}
      BY <1>5
  <2> QED
      BY <2>1, Zenon DEF First
<1>7. Found(s, key) = v
    BY <1>5, <1>6 DEF Found
<1>8. ASSUME NEW k, k # key PROVE Found(s, k) = Found(pairs, k)
  <2>1. CASE First(pairs, k) = 0
      BY <1>6, <2>1 DEF Found
  <2>2. CASE First(pairs, k) # 0
    <3>1. First(pairs, k) \in DOMAIN pairs /\ pairs[First(pairs, k)].key = k
        BY <2>2, FirstIs
    <3> QED
        BY <1>1, <1>5, <1>6, <1>8, <2>2, <3>1 DEF Found
  <2> QED
      BY <2>1, <2>2
<1>9. KeysOnce(pairs) => KeysOnce(s)
    BY <1>5 DEF KeysOnce
<1> QED
    BY <1>5, <1>7, <1>8, <1>9 DEF s, Revalued

LEMMA GetFinds ==
    ASSUME NEW st, NEW d, NEW key
    PROVE  KeyAt(st, d, key) = First(st.datas[d], key)
           /\ value_data_get(st, d, key) = Found(st.datas[d], key)
    BY Zenon DEF KeyAt, First, value_data_get, Found

\* value_data_set: what was set is what value_data_get gives, every other key of
\* the object and every other object keeps its value, and no key comes to be in
\* an object twice.
THEOREM DataSetGet ==
    ASSUME NEW K, NEW V, NEW st, Datas(st, K, V), NEW d \in DOMAIN st.datas, NEW key \in K, NEW v \in V
    PROVE  /\ Datas(value_data_set(st, d, key, v), K, V)
           /\ value_data_get(value_data_set(st, d, key, v), d, key) = v
           /\ \A e \in DOMAIN st.datas : \A k : e # d \/ k # key =>
                value_data_get(value_data_set(st, d, key, v), e, k) = value_data_get(st, e, k)
           /\ \A e \in DOMAIN st.datas : KeysOnce(st.datas[e]) =>
                KeysOnce(value_data_set(st, d, key, v).datas[e])
<1> DEFINE t == value_data_set(st, d, key, v)
           old == st.datas[d]
           i == First(old, key)
           x == [key |-> key, val |-> v]
           new == IF i = 0 THEN <<x>> \o old ELSE Revalued(old, i, v)
<1>1. /\ st = [f \in DOMAIN st |-> st[f]] /\ "datas" \in DOMAIN st
      /\ st.datas \in Seq(Seq(Pair(K, V))) /\ old \in Seq(Pair(K, V))
    BY DEF Datas
<1>2. x \in Pair(K, V) /\ x.key = key /\ x.val = v
    BY DEF Pair
<1>3. KeyAt(st, d, key) = i
    BY GetFinds
<1> HIDE DEF x, i
<1>4. /\ new \in Seq(Pair(K, V)) /\ Found(new, key) = v
      /\ \A k : k # key => Found(new, k) = Found(old, k)
      /\ KeysOnce(old) => KeysOnce(new)
  <2>1. CASE i = 0
    <3>1. First(old, x.key) = 0
        BY <1>2, <2>1 DEF i
    <3> HIDE DEF old
    <3> QED
        BY <1>1, <1>2, <2>1, <3>1, PairAdded
  <2>2. CASE i # 0
    <3>1. i = First(old, key) /\ new = Revalued(old, i, v)
        BY <2>2 DEF i
    <3> HIDE DEF old, new
    <3>2. /\ Revalued(old, i, v) \in Seq(Pair(K, V))
          /\ Found(Revalued(old, i, v), key) = v
          /\ \A k : k # key => Found(Revalued(old, i, v), k) = Found(old, k)
          /\ KeysOnce(old) => KeysOnce(Revalued(old, i, v))
      <4>1. old \in Seq(Pair(K, V))
          BY <1>1
      <4> QED
          BY <2>2, <3>1, <4>1, PairChanged
    <3> QED
        BY <3>1, <3>2
  <2> QED
      BY <2>1, <2>2
<1>5. t = [st EXCEPT !.datas = [st.datas EXCEPT ![d] = new]]
  <2>1. CASE i = 0
      BY <1>1, <1>3, <2>1 DEF value_data_set, x
  <2>2. CASE i # 0
      BY <1>1, <1>3, <2>2 DEF value_data_set, Revalued
  <2> QED
      BY <2>1, <2>2
<1> HIDE DEF t, new
<1>6. /\ t = [f \in DOMAIN t |-> t[f]] /\ "datas" \in DOMAIN t
      /\ t.datas = [st.datas EXCEPT ![d] = new]
    BY <1>1, <1>5
<1>7. /\ t.datas \in Seq(Seq(Pair(K, V))) /\ DOMAIN t.datas = DOMAIN st.datas
      /\ t.datas[d] = new /\ \A e \in DOMAIN st.datas : e # d => t.datas[e] = st.datas[e]
    BY <1>1, <1>4, <1>6
<1>8. Datas(t, K, V)
    BY <1>6, <1>7 DEF Datas
<1>9. value_data_get(t, d, key) = v
    BY <1>4, <1>7, GetFinds
<1>10. \A e \in DOMAIN st.datas : \A k : e # d \/ k # key => value_data_get(t, e, k) = value_data_get(st, e, k)
    BY <1>4, <1>7, GetFinds
<1>11. \A e \in DOMAIN st.datas : KeysOnce(st.datas[e]) => KeysOnce(t.datas[e])
    BY <1>4, <1>7
<1> QED
    BY <1>8, <1>9, <1>10, <1>11 DEF t
-----------------------------------------------------------------------------
(* Scopes. *)

\* A memory whose scopes bind names in N to values in V.
Binding(N, V) == [name : N, v : V, fixed : BOOLEAN]
Scope(N, V) == [parent : Nat, vars : Seq(Binding(N, V))]
Scopes(st, N, V) ==
    /\ st = [f \in DOMAIN st |-> st[f]] /\ "envs" \in DOMAIN st
    /\ st.envs \in Seq(Scope(N, V))

\* What a name means in scope e itself.
BindingIn(st, e, name) ==
    IF NewestIn(st, e, name) = 0 THEN None ELSE st.envs[e].vars[NewestIn(st, e, name)]

\* The last binding of a name, 0 if there is none.
Last(vars, name) ==
    LET hit == {i \in DOMAIN vars : vars[i].name = name}
    IN IF hit = {} THEN 0 ELSE Max(hit)

LEMMA GreatestBelow ==
    ASSUME NEW n \in Nat, NEW S \in SUBSET (1 .. n), S # {}
    PROVE  \E m \in S : \A i \in S : m >= i
<1> DEFINE T == {n - i : i \in S}
<1>0. \A i \in S : n - i \in Nat
    OBVIOUS
<1>1. T \in SUBSET Nat /\ T # {}
    BY <1>0
<1>2. \A i \in S : n - i \in T
    OBVIOUS
<1>3. \A k \in T : \E i \in S : k = n - i
    OBVIOUS
<1> HIDE DEF T
<1>4. PICK k \in T : \A j \in T : k <= j
    BY <1>1, LeastNatural
<1>5. PICK m \in S : k = n - m
    BY <1>3
<1>6. \A i \in S : m >= i
    BY <1>2, <1>4, <1>5
<1> QED
    BY <1>6

LEMMA LastIs ==
    ASSUME NEW S, NEW vars \in Seq(S), NEW name
    PROVE  \/ Last(vars, name) = 0 /\ \A i \in DOMAIN vars : vars[i].name # name
           \/ /\ Last(vars, name) \in DOMAIN vars /\ vars[Last(vars, name)].name = name
              /\ \A i \in DOMAIN vars : Last(vars, name) < i => vars[i].name # name
<1> DEFINE hit == {i \in DOMAIN vars : vars[i].name = name}
<1>1. CASE hit = {}
    BY <1>1 DEF Last
<1>2. CASE hit # {}
  <2>1. hit \in SUBSET (1 .. Len(vars)) /\ Len(vars) \in Nat
      OBVIOUS
  <2>2. Last(vars, name) = Max(hit)
      BY <1>2 DEF Last
  <2>3. \A i \in DOMAIN vars : vars[i].name = name => i \in hit
      OBVIOUS
  <2>4. \A i \in hit : i \in DOMAIN vars /\ vars[i].name = name
      OBVIOUS
  <2>5. \A i \in DOMAIN vars : i \in Nat
      OBVIOUS
  <2> HIDE DEF hit
  <2>6. \E n \in hit : \A i \in hit : n >= i
      BY <1>2, <2>1, GreatestBelow
  <2>7. Max(hit) \in hit /\ \A i \in hit : Max(hit) >= i
      BY <2>6 DEF Max
  <2>8. ASSUME NEW i \in DOMAIN vars, Max(hit) < i PROVE vars[i].name # name
    <3>1. Max(hit) \in Nat /\ i \in Nat
        BY <2>4, <2>5, <2>7
    <3>2. ~(Max(hit) >= i)
        BY <2>8, <3>1
    <3> QED
        BY <2>3, <2>7, <3>2
  <2> QED
      BY <2>2, <2>4, <2>7, <2>8
<1> QED
    BY <1>1, <1>2

LEMMA LastOnly ==
    ASSUME NEW S, NEW vars \in Seq(S), NEW name, NEW i \in DOMAIN vars, vars[i].name = name,
           \A j \in DOMAIN vars : i < j => vars[j].name # name
    PROVE  Last(vars, name) = i
<1>1. Last(vars, name) \in DOMAIN vars /\ vars[Last(vars, name)].name = name
      /\ \A j \in DOMAIN vars : Last(vars, name) < j => vars[j].name # name
    BY LastIs
<1>2. ~(Last(vars, name) < i) /\ ~(i < Last(vars, name))
    BY <1>1
<1> QED
    BY <1>1, <1>2

LEMMA NewestIsLast ==
    ASSUME NEW st, NEW e, NEW name
    PROVE  NewestIn(st, e, name) = Last(st.envs[e].vars, name)
    BY Zenon DEF NewestIn, Last

\* A new binding is the one found, and moves no other name.
LEMMA BindingAdded ==
    ASSUME NEW B, NEW vars \in Seq(B), NEW x \in B
    PROVE  /\ Last(Append(vars, x), x.name) = Len(vars) + 1
           /\ \A n : n # x.name => Last(Append(vars, x), n) = Last(vars, n)
<1> DEFINE s == Append(vars, x)
<1>1. /\ s \in Seq(B) /\ Len(vars) \in Nat /\ DOMAIN vars = 1 .. Len(vars)
      /\ DOMAIN s = 1 .. Len(vars) + 1 /\ Len(vars) + 1 \in DOMAIN s /\ s[Len(vars) + 1] = x
      /\ \A i \in DOMAIN vars : i \in DOMAIN s /\ s[i] = vars[i]
    BY AppendProperties
<1> HIDE DEF s
<1>2. \A i \in DOMAIN s : i \in DOMAIN vars \/ i = Len(vars) + 1
    BY <1>1
<1>3. Last(s, x.name) = Len(vars) + 1
  <2>1. \A j \in DOMAIN s : ~(Len(vars) + 1 < j)
      BY <1>1
  <2> QED
      BY <1>1, <2>1, LastOnly
<1>4. ASSUME NEW n, n # x.name PROVE Last(s, n) = Last(vars, n)
  <2>1. {i \in DOMAIN s : s[i].name = n} = {i \in DOMAIN vars : vars[i].name = n}
      BY <1>1, <1>2, <1>4
  <2> QED
      BY <2>1, Zenon DEF Last
<1> QED
    BY <1>3, <1>4 DEF s

\* env_define: the name means the new binding in that scope from now on, even if
\* it was bound there before; every other name there, and every other scope, keep
\* their meaning.
THEOREM DefineBinds ==
    ASSUME NEW N, NEW V, NEW st, Scopes(st, N, V), NEW e \in DOMAIN st.envs,
           NEW name \in N, NEW v \in V, NEW fixed \in BOOLEAN
    PROVE  /\ Scopes(env_define(st, e, name, v, fixed), N, V)
           /\ BindingIn(env_define(st, e, name, v, fixed), e, name) =
                [name |-> name, v |-> v, fixed |-> fixed]
           /\ \A f \in DOMAIN st.envs : \A n : f # e \/ n # name =>
                BindingIn(env_define(st, e, name, v, fixed), f, n) = BindingIn(st, f, n)
           /\ \A f \in DOMAIN st.envs :
                env_define(st, e, name, v, fixed).envs[f].parent = st.envs[f].parent
<1> DEFINE t == env_define(st, e, name, v, fixed)
           x == [name |-> name, v |-> v, fixed |-> fixed]
           old == st.envs[e].vars
           scope == [st.envs[e] EXCEPT !.vars = Append(old, x)]
<1>1. /\ st = [f \in DOMAIN st |-> st[f]] /\ "envs" \in DOMAIN st
      /\ st.envs \in Seq(Scope(N, V)) /\ st.envs[e] \in Scope(N, V)
    BY DEF Scopes
<1>2. x \in Binding(N, V) /\ x.name = name
    BY DEF Binding
<1>3. t = [st EXCEPT !.envs = [st.envs EXCEPT ![e] = scope]]
    BY <1>1 DEF env_define
<1> HIDE DEF x, t
<1>4. old \in Seq(Binding(N, V)) /\ Append(old, x) \in Seq(Binding(N, V))
    BY <1>1, <1>2 DEF Scope
<1>5. scope \in Scope(N, V) /\ scope.vars = Append(old, x) /\ scope.parent = st.envs[e].parent
    BY <1>1, <1>4 DEF Scope
<1> HIDE DEF scope, old
<1>6. /\ t = [f \in DOMAIN t |-> t[f]] /\ "envs" \in DOMAIN t
      /\ t.envs = [st.envs EXCEPT ![e] = scope]
    BY <1>1, <1>3
<1>7. /\ t.envs \in Seq(Scope(N, V)) /\ t.envs[e] = scope
      /\ \A f \in DOMAIN st.envs : f # e => t.envs[f] = st.envs[f]
    BY <1>1, <1>5, <1>6
<1>8. Scopes(t, N, V)
    BY <1>6, <1>7 DEF Scopes
<1>9. /\ Last(Append(old, x), name) = Len(old) + 1
      /\ \A n : n # name => Last(Append(old, x), n) = Last(old, n)
    BY <1>2, <1>4, BindingAdded
<1>10. BindingIn(t, e, name) = x
  <2>1. NewestIn(t, e, name) = Len(old) + 1
      BY <1>5, <1>7, <1>9, NewestIsLast
  <2>2. Append(old, x)[Len(old) + 1] = x /\ Len(old) + 1 # 0
      BY <1>2, <1>4, AppendProperties
  <2> QED
      BY <1>5, <1>7, <2>1, <2>2 DEF BindingIn
<1>11. ASSUME NEW f \in DOMAIN st.envs, NEW n, f # e \/ n # name
       PROVE  BindingIn(t, f, n) = BindingIn(st, f, n)
  <2>1. CASE f # e
    <3>1. t.envs[f] = st.envs[f]
        BY <1>7, <2>1
    <3>2. NewestIn(t, f, n) = NewestIn(st, f, n)
        BY <3>1, NewestIsLast
    <3> QED
        BY <3>1, <3>2 DEF BindingIn
  <2>2. CASE f = e
    <3>1. NewestIn(t, e, n) = Last(old, n) /\ NewestIn(st, e, n) = Last(old, n)
        BY <1>5, <1>7, <1>9, <1>11, <2>2, NewestIsLast DEF old
    <3>2. Last(old, n) # 0 => Append(old, x)[Last(old, n)] = old[Last(old, n)]
      <4>1. Last(old, n) # 0 => Last(old, n) \in DOMAIN old
          BY <1>4, LastIs
      <4> QED
          BY <1>2, <1>4, <4>1, AppendProperties
    <3> QED
        BY <1>5, <1>7, <2>2, <3>1, <3>2 DEF BindingIn, old
  <2> QED
      BY <2>1, <2>2
<1>12. \A f \in DOMAIN st.envs : t.envs[f].parent = st.envs[f].parent
    BY <1>5, <1>7
<1> QED
    BY <1>8, <1>10, <1>11, <1>12 DEF t, x

\* An assignment changes the value of the binding it found, and nothing else: not
\* whether it is fixed, no other name, no other scope.
THEOREM RebindSets ==
    ASSUME NEW N, NEW V, NEW st, Scopes(st, N, V), NEW e \in DOMAIN st.envs,
           NEW name \in N, NEW v \in V, NewestIn(st, e, name) # 0
    PROVE  /\ Scopes(Rebind(st, e, NewestIn(st, e, name), v), N, V)
           /\ BindingIn(Rebind(st, e, NewestIn(st, e, name), v), e, name) =
                [BindingIn(st, e, name) EXCEPT !.v = v]
           /\ \A f \in DOMAIN st.envs : \A n : f # e \/ n # name =>
                BindingIn(Rebind(st, e, NewestIn(st, e, name), v), f, n) = BindingIn(st, f, n)
           /\ \A f \in DOMAIN st.envs :
                Rebind(st, e, NewestIn(st, e, name), v).envs[f].parent = st.envs[f].parent
<1> DEFINE i == NewestIn(st, e, name)
           t == Rebind(st, e, i, v)
           old == st.envs[e].vars
           x == [old[i] EXCEPT !.v = v]
           vars == [old EXCEPT ![i] = x]
           scope == [st.envs[e] EXCEPT !.vars = vars]
<1>1. /\ st = [f \in DOMAIN st |-> st[f]] /\ "envs" \in DOMAIN st
      /\ st.envs \in Seq(Scope(N, V)) /\ st.envs[e] \in Scope(N, V)
    BY DEF Scopes
<1>2. old \in Seq(Binding(N, V))
    BY <1>1 DEF Scope
<1>3. i \in DOMAIN old /\ old[i].name = name /\ i # 0
  <2>1. i = Last(old, name)
      BY NewestIsLast
  <2> HIDE DEF i, old
  <2>2. i # 0
      BY DEF i
  <2> QED
      BY <1>2, <2>1, <2>2, LastIs
<1>4. t = [st EXCEPT !.envs = [st.envs EXCEPT ![e] = scope]]
    BY <1>1 DEF Rebind
<1>5. old[i] = BindingIn(st, e, name)
    BY <1>3 DEF BindingIn
<1> HIDE DEF i, t, old
<1>6. x \in Binding(N, V) /\ x.name = old[i].name
  <2>1. old[i] \in Binding(N, V)
      BY <1>2, <1>3
  <2> QED
      BY <2>1 DEF Binding
<1> HIDE DEF x
<1>7. /\ vars \in Seq(Binding(N, V)) /\ DOMAIN vars = DOMAIN old /\ vars[i] = x
      /\ \A j \in DOMAIN old : vars[j].name = old[j].name
      /\ \A j \in DOMAIN old : j # i => vars[j] = old[j]
    BY <1>2, <1>3, <1>6
<1> HIDE DEF vars
<1>8. scope \in Scope(N, V) /\ scope.vars = vars /\ scope.parent = st.envs[e].parent
    BY <1>1, <1>7 DEF Scope
<1> HIDE DEF scope
<1>9. /\ t = [f \in DOMAIN t |-> t[f]] /\ "envs" \in DOMAIN t
      /\ t.envs = [st.envs EXCEPT ![e] = scope]
    BY <1>1, <1>4
<1>10. /\ t.envs \in Seq(Scope(N, V)) /\ t.envs[e] = scope
       /\ \A f \in DOMAIN st.envs : f # e => t.envs[f] = st.envs[f]
    BY <1>1, <1>8, <1>9
<1>11. Scopes(t, N, V)
    BY <1>9, <1>10 DEF Scopes
<1>12. \A n : Last(vars, n) = Last(old, n)
  <2> TAKE n
  <2>1. {j \in DOMAIN vars : vars[j].name = n} = {j \in DOMAIN old : old[j].name = n}
      BY <1>7
  <2> QED
      BY <2>1, Zenon DEF Last
<1>13. \A n : NewestIn(t, e, n) = Last(old, n) /\ NewestIn(st, e, n) = Last(old, n)
    BY <1>8, <1>10, <1>12, NewestIsLast DEF old
<1>14. BindingIn(t, e, name) = x
  <2>1. NewestIn(t, e, name) = i
      BY <1>13 DEF i
  <2> QED
      BY <1>3, <1>7, <1>8, <1>10, <2>1 DEF BindingIn
<1>15. ASSUME NEW f \in DOMAIN st.envs, NEW n, f # e \/ n # name
       PROVE  BindingIn(t, f, n) = BindingIn(st, f, n)
  <2>1. CASE f # e
    <3>1. t.envs[f] = st.envs[f]
        BY <1>10, <2>1
    <3>2. NewestIn(t, f, n) = NewestIn(st, f, n)
        BY <3>1, NewestIsLast
    <3> QED
        BY <3>1, <3>2 DEF BindingIn
  <2>2. CASE f = e
    <3>1. Last(old, n) # 0 => vars[Last(old, n)] = old[Last(old, n)]
      <4>1. Last(old, n) # 0 => Last(old, n) \in DOMAIN old /\ old[Last(old, n)].name = n
          BY <1>2, LastIs
      <4> QED
          BY <1>3, <1>7, <1>15, <2>2, <4>1
    <3> QED
        BY <1>8, <1>10, <1>13, <2>2, <3>1 DEF BindingIn, old
  <2> QED
      BY <2>1, <2>2
<1>16. \A f \in DOMAIN st.envs : t.envs[f].parent = st.envs[f].parent
    BY <1>8, <1>10
<1> QED
    BY <1>5, <1>11, <1>14, <1>15, <1>16 DEF t, i, x
=============================================================================
