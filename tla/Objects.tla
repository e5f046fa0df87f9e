------------------------------ MODULE Objects ------------------------------
(***************************************************************************)
(* The dynamic types (FIOBJ): counted objects, arrays and hashes of them.  *)
(*                                                                         *)
(* A value is null, true, false, a number or a reference to a cell of the  *)
(* heap; a cell is a string, a float, an array or a hash. An array's items *)
(* have no key. A hash map keeps the order of insertion (HashMap).         *)
(***************************************************************************)
EXTENDS Integers, Sequences, SequencesExt, FiniteSetsExt

Val(t, n) == [t |-> t, n |-> n]
FIOBJ_INVALID == Val("", 0)
FIOBJ_IS_ALLOCATED(v) == v.t = "ref"

(* `bad`: a cell was released more often than it was referred to.          *)
NoObjects == [cells |-> <<>>, bad |-> FALSE]
Cell(t, text, n) == [t |-> t, ref |-> 1, text |-> text, n |-> n, items |-> <<>>]
TypeOf(h, v) == IF FIOBJ_IS_ALLOCATED(v) THEN h.cells[v.n].t ELSE v.t
Items(h, v) == IF FIOBJ_IS_ALLOCATED(v) THEN h.cells[v.n].items ELSE <<>>
FirstOf(is) == IF is = {} THEN 0 ELSE Min(is)   \* of some places; 0: nowhere
HasEach(h, v) == TypeOf(h, v) \in {"array", "hash"}

(* What is left of a released object has no value anyone may rely on.      *)
Cleared(h) == [h EXCEPT !.cells = [i \in DOMAIN @ |-> IF @[i].ref = 0 THEN [Cell("", <<>>, 0) EXCEPT !.ref = 0] ELSE @[i]]]

(* A new object takes the first free cell.                                 *)
FreeCell(h) == Min({i \in 1..(Len(h.cells) + 1) : i \in DOMAIN h.cells => h.cells[i].ref = 0})
NewAt(h, i, cell) ==
    [h |-> [h EXCEPT !.cells = [k \in DOMAIN @ \cup {i} |-> IF k = i THEN cell ELSE @[k]]], v |-> Val("ref", i)]
New(h, cell) == NewAt(h, FreeCell(h), cell)

-----------------------------------------------------------------------------
fiobj_dup(h, v) ==
    IF FIOBJ_IS_ALLOCATED(v) THEN [h EXCEPT !.cells[v.n].ref = @ + 1] ELSE h

(* Released cells are emptied once their items are released: an object     *)
(* that was its last reference joins the stack when it has items.          *)
Drop(h, v) ==
    IF ~FIOBJ_IS_ALLOCATED(v) THEN h
    ELSE IF h.cells[v.n].ref = 0 THEN [h EXCEPT !.bad = TRUE]
    ELSE [h EXCEPT !.cells[v.n].ref = @ - 1]
Dead(h, v) == FIOBJ_IS_ALLOCATED(v) /\ h.cells[v.n].ref = 0
(* The values are put to the task, the keys are released at once.          *)
FreedItem(acc, g, v) ==
    <<g, IF Dead(g, v) /\ ~Dead(acc[1], v) /\ Items(g, v) # <<>> THEN Append(acc[2], v) ELSE acc[2]>>
FreeItem(acc, v) == FreedItem(acc, Drop(acc[1], v), v)
FreeEntry(acc, e) == FreeItem(FreeItem(acc, e[1]), e[2])
RECURSIVE FreeLoop(_)
FreeLoop(task) ==   \* the objects, and a stack of those to empty
    IF task[2] = <<>> THEN task[1]
    ELSE FreeLoop(FoldLeft(FreeEntry, <<[task[1] EXCEPT !.cells[Last(task[2]).n].items = <<>>], Front(task[2])>>,
                           Items(task[1], Last(task[2]))))
FreeDropped(g, v) ==
    IF FIOBJ_IS_ALLOCATED(v) /\ Dead(g, v) /\ Items(g, v) # <<>> /\ ~g.bad THEN FreeLoop(<<g, <<v>>>>) ELSE g
fiobj_free(h, v) == FreeDropped(Drop(h, v), v)

-----------------------------------------------------------------------------
(* Equal values; hashes also hold them in the same order.                  *)
iseq_simple(h, a, b) ==
    \/ a = b
    \/ /\ FIOBJ_IS_ALLOCATED(a) /\ FIOBJ_IS_ALLOCATED(b) /\ TypeOf(h, a) = TypeOf(h, b)
       /\ h.cells[a.n].text = h.cells[b.n].text /\ h.cells[a.n].n = h.cells[b.n].n
       /\ Len(Items(h, a)) = Len(Items(h, b))
Deeper(h, a, b) == SelectSeq([i \in DOMAIN a |-> <<a[i][2], b[i][2]>>], LAMBDA p : Items(h, p[1]) # <<>>)
EqItems(h, a, b) == \A i \in DOMAIN a : iseq_simple(h, a[i][2], b[i][2]) /\ iseq_simple(h, a[i][1], b[i][1])
RECURSIVE EqLoop(_, _)
EqLoop(h, queue) ==
    queue # <<>> => /\ EqItems(h, Items(h, queue[1][1]), Items(h, queue[1][2]))
                    /\ EqLoop(h, Tail(queue) \o Deeper(h, Items(h, queue[1][1]), Items(h, queue[1][2])))
fiobj_iseq(h, a, b) == iseq_simple(h, a, b) /\ (a = b \/ EqLoop(h, <<<<a, b>>>>))

(* fiobj_each2: the object and all that is in it, each with its key, the   *)
(* items of a container right after it.                                    *)
RECURSIVE EachLoop(_, _, _, _, _)
EachLoop(h, o, pos, stack, seen) ==
    LET items == Items(h, o)
        nested == FirstOf({i \in DOMAIN items : i > pos /\ HasEach(h, items[i][2])})
        rest == seen \o SubSeq(items, pos + 1, IF nested = 0 THEN Len(items) ELSE nested)
    IN IF nested # 0 THEN EachLoop(h, items[nested][2], 0, Append(stack, <<o, nested>>), rest)
       ELSE IF stack = <<>> THEN rest
       ELSE EachLoop(h, Last(stack)[1], Last(stack)[2], Front(stack), rest)
fiobj_each2(h, o) == EachLoop(h, o, 0, <<>>, <<<<FIOBJ_INVALID, o>>>>)

-----------------------------------------------------------------------------
(* Arrays take over the caller's reference.                                *)
Put(h, o, items) == [h EXCEPT !.cells[o.n].items = items]
Owned(v) == <<FIOBJ_INVALID, v>>
fiobj_ary_push(h, a, v) == Put(h, a, Append(Items(h, a), Owned(v)))
fiobj_ary_unshift(h, a, v) == Put(h, a, <<Owned(v)>> \o Items(h, a))
fiobj_ary_index(h, a, i) == IF i < Len(Items(h, a)) THEN Items(h, a)[i + 1][2] ELSE FIOBJ_INVALID
(* ... and give it to the caller, who gets the invalid value when empty.   *)
fiobj_ary_pop(h, a) ==
    LET s == Items(h, a) IN
    IF s = <<>> THEN [h |-> h, v |-> FIOBJ_INVALID] ELSE [h |-> Put(h, a, Front(s)), v |-> Last(s)[2]]
fiobj_ary_shift(h, a) ==
    LET s == Items(h, a) IN
    IF s = <<>> THEN [h |-> h, v |-> FIOBJ_INVALID] ELSE [h |-> Put(h, a, Tail(s)), v |-> s[1][2]]
fiobj_ary_set(h, a, v, i) ==
    LET s == Items(h, a)
        longer == IF i < Len(s) THEN s ELSE s \o [k \in 1..(i + 1 - Len(s)) |-> Owned(FIOBJ_INVALID)]
    IN fiobj_free(Put(h, a, ReplaceAt(longer, i + 1, Owned(v))), fiobj_ary_index(h, a, i))
(* The value that is returned has been released.                           *)
fiobj_ary_replace(h, a, v, i) == [h |-> fiobj_ary_set(h, a, v, i), v |-> fiobj_ary_index(h, a, i)]
fiobj_ary_remove(h, a, i) ==
    IF i >= Len(Items(h, a)) THEN h
    ELSE fiobj_free(Put(h, a, RemoveAt(Items(h, a), i + 1)), fiobj_ary_index(h, a, i))
fiobj_ary_find(h, a, v) == FirstOf({i \in DOMAIN Items(h, a) : fiobj_iseq(h, Items(h, a)[i][2], v)}) - 1
fiobj_ary_remove2(h, a, v) ==
    LET i == fiobj_ary_find(h, a, v) IN IF i < 0 THEN h ELSE fiobj_ary_remove(h, a, i)
fiobj_ary_compact(h, a) == Put(h, a, SelectSeq(Items(h, a), LAMBDA e : e[2] # FIOBJ_INVALID))

(* A hash has its own reference to a key; the caller's reference to the    *)
(* object is taken over.                                                   *)
KeyAt(h, o, k) == FirstOf({i \in DOMAIN Items(h, o) : fiobj_iseq(h, Items(h, o)[i][1], k)})
HashAt(h, o, i) == IF i = 0 THEN FIOBJ_INVALID ELSE Items(h, o)[i][2]
fiobj_hash_get(h, o, k) == HashAt(h, o, KeyAt(h, o, k))
InsertEntry(h, o, k, v, s, i) ==
    IF i = 0 THEN Put(fiobj_dup(fiobj_dup(h, k), v), o, Append(s, <<k, v>>))
    ELSE Put(fiobj_dup(fiobj_free(h, s[i][2]), v), o, ReplaceAt(s, i, <<s[i][1], v>>))
HashInsert(h, o, k, v) == InsertEntry(h, o, k, v, Items(h, o), KeyAt(h, o, k))
fiobj_hash_set_Keeps(h, o, k, v) == HashInsert(h, o, k, v)   \* mutant
fiobj_hash_set(h, o, k, v) == fiobj_free(HashInsert(h, o, k, v), v)
ReplaceHeld(h, o, k, v, old) == [h |-> fiobj_free(HashInsert(fiobj_dup(h, old), o, k, v), v), v |-> old]
fiobj_hash_replace(h, o, k, v) == ReplaceHeld(h, o, k, v, fiobj_hash_get(h, o, k))
TakeEntry(h, o, i, e) == fiobj_free(fiobj_free(Put(h, o, RemoveAt(Items(h, o), i)), e[1]), e[2])
HashTake(h, o, i) == IF i = 0 THEN h ELSE TakeEntry(h, o, i, Items(h, o)[i])
RemoveHeld(h, o, i, old) == [h |-> HashTake(fiobj_dup(h, old), o, i), v |-> old]
RemoveFrom(h, o, i) == RemoveHeld(h, o, i, HashAt(h, o, i))
fiobj_hash_remove(h, o, k) == RemoveFrom(h, o, KeyAt(h, o, k))
fiobj_hash_delete(h, o, k) == HashTake(h, o, KeyAt(h, o, k))
fiobj_hash_clear(h, o) ==
    FoldLeft(LAMBDA g, e : fiobj_free(fiobj_free(g, e[1]), e[2]), Put(h, o, <<>>), Items(h, o))
(* Its test of the count is inverted: only an empty hash is popped.        *)
fiobj_hash_pop(h, o) == [h |-> h, v |-> FIOBJ_INVALID]
=============================================================================
