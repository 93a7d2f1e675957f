---------------------------- MODULE FreeRtosList ----------------------------
(***************************************************************************)
(* list.c of the FreeRTOS kernel.  A list is the sequence of its items     *)
(* from xListEnd on; index is the position of pxIndex in it, 0 when it     *)
(* points to xListEnd.  Only ready lists are ever walked: the others keep  *)
(* pxIndex at xListEnd and are plain sequences in the modules that use     *)
(* this one.                                                               *)
(***************************************************************************)
EXTENDS Naturals, SequencesExt

EmptyList == [items |-> <<>>, index |-> 0]

(* vListInsertEnd: just before pxIndex, the last place a walk comes to.    *)
InsertEnd(list, item) ==
  IF list.index = 0
  THEN [list EXCEPT !.items = Append(@, item)]
  ELSE [items |-> InsertAt(list.items, list.index, item),
        index |-> list.index + 1]

(* Mutant: pxIndex is left behind the removed item.                        *)
ListRemoveNoStepBack(list, item) ==
  IF ~Contains(list.items, item)
  THEN list
  ELSE LET left == RemoveAt(list.items,
                            SelectInSeq(list.items, LAMBDA x : x = item))
       IN [items |-> left,
           index |-> IF list.index > Len(left) THEN 0 ELSE list.index]

(* uxListRemove: a pxIndex that pointed to the item falls back by one.     *)
ListRemove(list, item) ==
  IF ~Contains(list.items, item)
  THEN list
  ELSE LET p == SelectInSeq(list.items, LAMBDA x : x = item)
       IN [items |-> RemoveAt(list.items, p),
           index |-> IF p <= list.index THEN list.index - 1 ELSE list.index]

(* listGET_OWNER_OF_NEXT_ENTRY: on to the next item, past xListEnd.        *)
Advance(list) ==
  [list EXCEPT !.index = IF @ = Len(list.items) THEN 1 ELSE @ + 1]

(* vListInsert: sorted by key, behind the items of the same key.           *)
InsertSorted(items, item, key) ==
  LET after == SelectInSeq(items, LAMBDA x : key[x] > key[item])
  IN IF after = 0 THEN Append(items, item) ELSE InsertAt(items, after, item)
=============================================================================
