-------------------------------- MODULE Store --------------------------------
(***************************************************************************)
(* The memory of the interpreter (src/src/interp/value.c): list cells,     *)
(* data objects and scopes, and what changes one of them.  The C code's    *)
(* pointers are numbers, 0 is NULL, and a state st is a record:            *)
(*   envs     scopes: the parent (0 is none) and the bindings, oldest      *)
(*            first, so that the newest of a name is the one found         *)
(*   lists    the head cell of each list; cells are the linked nodes       *)
(*   datas    the key-value pairs of each data object, newest first        *)
(* with the fields of module Values.  Walking from cell to cell and from   *)
(* scope to scope is in Values: here the cells of a list come as an        *)
(* argument, cs.                                                           *)
(***************************************************************************)
EXTENDS Integers, Sequences, FiniteSetsExt

None == [k |-> "none"]                 \* a NULL Value pointer
-----------------------------------------------------------------------------
(* Lists. *)

ListNode(item, next) == [item |-> item, next |-> next, freed |-> FALSE]

\* s are the cells one meets from cell c on, up to NULL.
Chained(cells, c, s) ==
  /\ c = IF s = <<>> THEN 0 ELSE s[1]
  /\ \A i \in DOMAIN s :
       /\ s[i] \in DOMAIN cells /\ cells[s[i]].freed = FALSE
       /\ cells[s[i]].next = IF i = Len(s) THEN 0 ELSE s[i + 1]

\* Each list has its chain of cells, p[l], which ends, holds no freed cell and
\* shares no cell with another list.
Linked(st, p) ==
  /\ DOMAIN p = DOMAIN st.lists
  /\ \A l \in DOMAIN p : Chained(st.cells, st.lists[l], p[l])
  /\ \A l, m \in DOMAIN p : \A i \in DOMAIN p[l], j \in DOMAIN p[m] :
       p[l][i] = p[m][j] => l = m /\ i = j

ItemsOf(cells, s) == [i \in DOMAIN s |-> cells[s[i]].item]

\* value_list_append, behind the last of the cells.
AppendCell(st, l, cs, item) ==
  LET grown == Append(st.cells, ListNode(item, 0))
  IN IF cs = <<>> THEN [st EXCEPT !.cells = grown, !.lists[l] = Len(grown)]
                  ELSE [st EXCEPT !.cells = [grown EXCEPT ![cs[Len(cs)]].next = Len(grown)]]

value_list_insert_front(st, l, item) ==
  [st EXCEPT !.cells = Append(@, ListNode(item, st.lists[l])), !.lists[l] = Len(st.cells) + 1]

\* list.delete: the i-th cell is unlinked and freed.
RemoveCell(st, l, cs, i) ==
  LET next == st.cells[cs[i]].next
      freed == [st.cells EXCEPT ![cs[i]].freed = TRUE]
  IN IF i = 1 THEN [st EXCEPT !.cells = freed, !.lists[l] = next]
              ELSE [st EXCEPT !.cells = [freed EXCEPT ![cs[i - 1]].next = next]]

\* list[i] = item
SetItem(st, cs, i, item) == [st EXCEPT !.cells[cs[i]].item = item]

\* A fresh chain holding these items becomes the list's; the old cells stay.
NewCells(n, items) ==
  [i \in DOMAIN items |-> ListNode(items[i], IF i = Len(items) THEN 0 ELSE n + i + 1)]
Relink(st, l, items) ==
  [st EXCEPT !.cells = @ \o NewCells(Len(st.cells), items),
             !.lists[l] = IF items = <<>> THEN 0 ELSE Len(st.cells) + 1]

list_new(st, items) == Relink([st EXCEPT !.lists = Append(@, 0)], Len(st.lists) + 1, items)
-----------------------------------------------------------------------------
(* Data objects. *)

\* The position of a key in a data object's pairs, 0 if it has none.
KeyAt(st, d, key) ==
  LET hit == {i \in DOMAIN st.datas[d] : st.datas[d][i].key = key}
  IN IF hit = {} THEN 0 ELSE Min(hit)

value_data_get(st, d, key) ==
  IF KeyAt(st, d, key) = 0 THEN None ELSE st.datas[d][KeyAt(st, d, key)].val

value_data_set(st, d, key, v) ==
  IF KeyAt(st, d, key) = 0
    THEN [st EXCEPT !.datas[d] = <<[key |-> key, val |-> v]>> \o @]
    ELSE [st EXCEPT !.datas[d][KeyAt(st, d, key)].val = v]
-----------------------------------------------------------------------------
(* Scopes. *)

env_new(st, parent) == [st EXCEPT !.envs = Append(@, [parent |-> parent, vars |-> <<>>])]

env_define(st, e, name, v, fixed) ==
  [st EXCEPT !.envs[e].vars = Append(@, [name |-> name, v |-> v, fixed |-> fixed])]

\* The position of a name's newest binding in scope e itself, 0 if it has none.
NewestIn(st, e, name) ==
  LET hit == {i \in DOMAIN st.envs[e].vars : st.envs[e].vars[i].name = name}
  IN IF hit = {} THEN 0 ELSE Max(hit)

\* An assignment to the i-th binding of scope e.
Rebind(st, e, i, v) == [st EXCEPT !.envs[e].vars[i].v = v]
=============================================================================
