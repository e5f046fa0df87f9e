----------------------------- MODULE Structures -----------------------------
(***************************************************************************)
(* The containers of fio.h that the rest of the program is built on, each  *)
(* driven by any sequence of its calls beside the plain value it stands    *)
(* for.                                                                    *)
(***************************************************************************)
EXTENDS HashMap, FioStr

CONSTANTS
    Nodes, List, FIO_ARY_PADDING, UNSHIFT_ROOM,
    Keys, Objs,           \* each key's objects; an array's elements are those of every key
    Letters,
    MaxItems, MaxCapa, MaxObjs, MaxRefs,   \* bounds
    Structs,              \* the containers that are driven
    Unsound               \* calls that break their container (README 5), for separate runs

L == INSTANCE Lists
O == INSTANCE Objects

VARIABLES
    which,   \* the container
    rep,     \* its memory
    abs      \* what it stands for: a sequence; for objects, the references the caller has

vars == <<which, rep, abs>>

Init ==
    /\ which \in Structs
    /\ rep = CASE which = "list" -> L!FIO_LS_INIT [] which = "array" -> L!FIO_ARY_INIT
               [] which = "string" -> FIO_STR_INIT [] which = "map" -> FIO_SET_INIT
               [] which = "objects" -> O!NoObjects
    /\ abs = IF which = "objects" THEN [i \in 1..MaxObjs |-> 0] ELSE <<>>

Call(w, new, value) == which = w /\ rep' = new /\ abs' = value /\ UNCHANGED which
Tight(seq) == IF seq = <<>> THEN seq ELSE Front(seq)
Rest(seq) == IF seq = <<>> THEN seq ELSE Tail(seq)

-----------------------------------------------------------------------------
ListStep ==
    /\ which = "list"
    /\ \/ \E n \in Nodes \ Range(abs) :
            \/ Call("list", L!fio_ls_embd_push(rep, List, n), Append(abs, n))
            \/ Call("list", L!fio_ls_embd_unshift(rep, List, n), <<n>> \o abs)
       \/ \E n \in Nodes : Call("list", L!fio_ls_embd_remove(rep, n), SelectSeq(abs, LAMBDA m : m # n))
       \/ Call("list", L!fio_ls_embd_pop(rep, List), Tight(abs))
       \/ Call("list", L!fio_ls_embd_shift(rep, List), Rest(abs))

Elems == UNION Range(Objs)
(* An index from the end is counted back, but never below the first.       *)
Index(i) == IF i >= 0 THEN i ELSE IF i + Len(abs) >= 0 THEN i + Len(abs) ELSE 0
Without(i) == IF i >= Len(abs) THEN abs ELSE SubSeq(abs, 1, i) \o SubSeq(abs, i + 2, Len(abs))
SetAt(i, e) ==
    [k \in 1..(IF i < Len(abs) THEN Len(abs) ELSE i + 1) |->
       IF k = i + 1 THEN e ELSE IF k <= Len(abs) THEN abs[k] ELSE L!FIO_ARY_INVALID]
Ary(new, value) == Call("array", L!Unused(new), value)
ArrayStep ==
    /\ which = "array"
    /\ \/ Ary(L!ary_pop(rep), Tight(abs))
       \/ Ary(L!ary_shift(rep), Rest(abs))
       \/ Ary(L!ary_compact(rep), SelectSeq(abs, LAMBDA e : e # L!FIO_ARY_INVALID))
       \/ \E i \in -2..MaxItems : Ary(L!ary_remove(rep, i), Without(Index(i)))
       \/ \E e \in Elems : Ary(L!ary_remove2(rep, e),
                               IF e \in Range(abs) THEN Without(SelectInSeq(abs, LAMBDA x : x = e) - 1) ELSE abs)
       \/ \E i \in -2..(MaxItems - 1), e \in Elems :
            \* beyond the end of an array that was shifted: Unsound
            /\ rep.start \in {0, rep.end} \/ Index(i) < Len(abs) \/ "set" \in Unsound
            /\ Ary(L!ary_set(rep, i, e), SetAt(Index(i), e))
       \/ /\ L!Capa(rep) < MaxCapa /\ Len(abs) < MaxItems
          /\ \E e \in Elems : \/ Ary(L!ary_push(rep, e), Append(abs, e))
                             \/ Ary(L!ary_unshift(rep, e), <<e>> \o abs)
                             \/ Ary(L!ary_concat(rep, L!ary_push(L!FIO_ARY_INIT, e)), Append(abs, e))

(* Bytes that a longer size uncovers are not specified.                    *)
Sized(n) == [i \in 1..n |-> IF i <= Len(abs) THEN abs[i] ELSE "?"]
Words == {<<>>} \cup {<<c>> : c \in Letters} \cup {<<c, c, c>> : c \in Letters}
Spliced(i, n, w) == SubSeq(abs, 1, i) \o w \o SubSeq(abs, i + n + 1, Len(abs))
Edit(new, value) == Call("string", new, IF rep.frozen THEN abs ELSE value)
StringStep ==
    /\ which = "string"
    /\ \/ \E w \in Words : /\ Len(abs) + Len(w) <= MaxItems
                           /\ \/ Edit(fio_str_write(rep, w), abs \o w)
                              \/ Edit(fio_str_concat(rep, FIO_STR_INIT_STATIC(w)), abs \o w)
                              \/ \E i \in 0..Len(abs), n \in 0..2 :
                                    \* an erased end is not marked by a NUL: Unsound
                                    /\ w # <<>> \/ n = 0 \/ i + n < Len(abs) \/ "erase" \in Unsound
                                    /\ Edit(fio_str_replace(rep, i, n, w), Spliced(i, n, w))
       \/ \E n \in 0..MaxItems : Edit(fio_str_resize(rep, n), Sized(n))
       \/ \E n \in 0..MaxItems : Edit(fio_str_capa_assert(rep, n), abs)
       \/ (rep.ref = 0 \/ "compact" \in Unsound) /\ Call("string", fio_str_compact(rep), abs)
       \/ Call("string", fio_str_freeze(rep), abs)
       \/ rep.ref = 0 /\ Call("string", fio_str_dup(rep), abs)
       \/ Call("string", fio_str_free(rep), IF rep.ref > 0 THEN abs ELSE <<>>)
       \/ (~rep.small \/ "detach" \in Unsound) /\ Call("string", fio_str_detach(rep), <<>>)

Has(k) == \E i \in DOMAIN abs : abs[i][1] = k
With(k, v) ==
    IF Has(k) THEN [i \in DOMAIN abs |-> IF abs[i][1] = k THEN <<k, v>> ELSE abs[i]]
    ELSE Append(abs, <<k, v>>)
MapStep ==
    /\ which = "map"
    /\ \/ \E k \in Keys :
            \/ \E v \in Objs[k], overwrite \in BOOLEAN :
                 Call("map", insert_or_overwrite(rep, k, v, overwrite), IF Has(k) /\ ~overwrite THEN abs ELSE With(k, v))
            \/ Call("map", find_map_pos(rep, k).set, abs)
            \/ Call("map", remove(rep, k), SelectSeq(abs, LAMBDA e : e[1] # k))
       \/ \E call \in {"capa_require", "compact"} \cup (Unsound \cap {"pop"}) :
            Call("map",
                 CASE call = "capa_require" -> capa_require(rep, 5)
                   [] call = "compact" -> compact(rep)
                   [] call = "pop" -> pop(rep),
                 IF call = "pop" THEN Tight(abs) ELSE abs)

(* Objects are passed to calls by those who have a reference to them; a    *)
(* container is never put into itself.                                     *)
Mine == {O!Val("ref", i) : i \in {j \in 1..MaxObjs : abs[j] > 0}}
Mines(t) == {v \in Mine : O!TypeOf(rep, v) = t}
Given(o) == {v \in Mine : \A e \in Range(O!fiobj_each2(rep, v)) : e[2] # o}
Refs(v, n) == IF O!FIOBJ_IS_ALLOCATED(v) THEN [abs EXCEPT ![v.n] = @ + n] ELSE abs
Swap(v, old) == [i \in 1..MaxObjs |-> Refs(v, -1)[i] + (IF old = O!Val("ref", i) THEN 1 ELSE 0)]
Object(h, refs) == Call("objects", O!Cleared(h), refs)
Taking(r) == Object(r.h, Refs(r.v, 1))
Room(o) == Len(O!Items(rep, o)) < MaxItems - 2
ObjectStep ==
    /\ which = "objects"
    /\ \/ \E c \in {O!Cell("array", <<>>, 0), O!Cell("hash", <<>>, 0)} \cup {O!Cell("str", <<x>>, 0) : x \in Letters} :
            O!FreeCell(rep) <= MaxObjs /\ Taking(O!New(rep, c))
       \/ \E v \in Mine : rep.cells[v.n].ref < MaxRefs /\ Object(O!fiobj_dup(rep, v), Refs(v, 1))
       \/ \E v \in Mine : Object(O!fiobj_free(rep, v), Refs(v, -1))
       \/ \E a \in Mines("array") :
            \/ Taking(O!fiobj_ary_pop(rep, a)) \/ Taking(O!fiobj_ary_shift(rep, a))
            \/ Object(O!fiobj_ary_compact(rep, a), abs)
            \/ \E i \in 0..1 : Object(O!fiobj_ary_remove(rep, a, i), abs)
            \/ \E v \in Mine : Object(O!fiobj_ary_remove2(rep, a, v), abs)
            \/ \E v \in Given(a) :
                 \/ Room(a) /\ Object(O!fiobj_ary_push(rep, a, v), Refs(v, -1))
                 \/ Room(a) /\ Object(O!fiobj_ary_unshift(rep, a, v), Refs(v, -1))
                 \/ \E i \in 0..1, call \in {"set"} \cup (Unsound \cap {"replace"}) :
                      LET old == IF call = "set" THEN O!FIOBJ_INVALID ELSE O!fiobj_ary_replace(rep, a, v, i).v IN
                      Object(O!fiobj_ary_set(rep, a, v, i), Swap(v, old))
       \/ \E o \in Mines("hash"), k \in Mines("str") :
            \/ Object(O!fiobj_hash_delete(rep, o, k), abs) \/ Object(O!fiobj_hash_clear(rep, o), abs)
            \/ Taking(O!fiobj_hash_remove(rep, o, k)) \/ Taking(O!fiobj_hash_pop(rep, o))
            \/ \E v \in Given(o) :
                 /\ Room(o) \/ O!KeyAt(rep, o, k) # 0
                 /\ \/ Object(O!fiobj_hash_set(rep, o, k, v), Refs(v, -1))
                    \/ LET r == O!fiobj_hash_replace(rep, o, k, v) IN Object(r.h, Swap(v, r.v))

Next == ListStep \/ ArrayStep \/ StringStep \/ MapStep \/ ObjectStep
Spec == Init /\ [][Next]_vars

-----------------------------------------------------------------------------
(* Whatever was called before, and wherever the memory was moved to, each  *)
(* container holds what it stands for: a list reads the same in both       *)
(* directions and its removed nodes are on their own; an array answers     *)
(* every index; a string ends with a NUL inside its memory; a map finds    *)
(* exactly the keys that were set and not removed, in the order of their   *)
(* insertion, however its holes were re-used; an object is there as long   *)
(* as its caller or a container refers to it, and no longer.               *)
ListHolds ==
    /\ L!Forward(rep) = abs /\ L!Backward(rep) = Reverse(abs)
    /\ \A n \in Nodes \ Range(abs) : rep.next[n] = n /\ rep.prev[n] = n
ArrayHolds ==
    /\ L!Elements(rep) = abs
    /\ \A i \in 0..MaxItems : L!ary_get(rep, i) = IF i < Len(abs) THEN abs[i + 1] ELSE L!FIO_ARY_INVALID
StringHolds ==
    /\ rep.len = Len(abs) /\ \A i \in DOMAIN abs : abs[i] \in {"?", rep.mem[i]}
    /\ rep.len < Len(rep.mem) /\ rep.mem[rep.len + 1] = NUL
    /\ ~rep.small /\ rep.dealloc => Len(rep.mem) = rep.capa + 1
MapHolds ==
    /\ rep.count = Len(abs)
    /\ [i \in 1..Len(Held(rep)) |-> <<Held(rep)[i].key, Held(rep)[i].obj>>] = abs
    /\ \A k \in Keys : LET at == SelectInSeq(abs, LAMBDA e : e[1] = k) IN
                       find(rep, k) = IF at = 0 THEN FIO_SET_OBJ_INVALID ELSE abs[at][2]
Inside(i) == Cardinality({p \in (DOMAIN rep.cells) \X (1..MaxItems) \X {1, 2} :
                           /\ p[2] \in DOMAIN rep.cells[p[1]].items
                           /\ rep.cells[p[1]].items[p[2]][p[3]] = O!Val("ref", i)})
ObjectsHold ==
    /\ ~rep.bad
    /\ \A i \in DOMAIN rep.cells : rep.cells[i].ref = abs[i] + Inside(i)
Represents ==
    CASE which = "list" -> ListHolds [] which = "array" -> ArrayHolds
      [] which = "string" -> StringHolds [] which = "map" -> MapHolds
      [] which = "objects" -> ObjectsHold
=============================================================================
