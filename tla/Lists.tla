------------------------------ MODULE Lists ------------------------------
(***************************************************************************)
(* The dynamic array template of fio.h: its elements are at start..end-1   *)
(* of a memory block of `capa` cells, which grows at either end.           *)
(***************************************************************************)
EXTENDS Integers, Sequences, SequencesExt, FiniteSetsExt

CONSTANTS FIO_ARY_PADDING, UNSHIFT_ROOM   \* 4 and 8

FIO_ARY_INVALID == "invalid"
FIO_ARY_INIT == [start |-> 0, end |-> 0, arry |-> <<>>]
Capa(a) == Len(a.arry)

(* Elements are pointers: a size is rounded up to the next even number.    *)
FIO_ARY_SIZE2WORDS(size) == (size - (size % 2)) + 2

Garbage(n) == [i \in 1..n |-> "?"]
Elements(a) == SubSeq(a.arry, a.start + 1, a.end)
count(a) == a.end - a.start
(* Cells that hold no element have no value anyone may rely on.            *)
Unused(a) == [a EXCEPT !.arry = [i \in DOMAIN @ |-> IF i \in (a.start + 1)..a.end THEN @[i] ELSE "?"]]

rel2absolute(a, index) ==
    IF index >= 0 THEN index
    ELSE IF index + count(a) >= 0 THEN index + count(a) ELSE 0

require_on_top(a, len) ==
    IF a.end + len < Capa(a) THEN a
    ELSE LET n == FIO_ARY_SIZE2WORDS(len + a.end) IN
         [a EXCEPT !.arry = SubSeq(@, 1, a.end) \o Garbage(n - a.end)]

(* The elements move to the end of the memory, or of a larger block.       *)
require_on_bottom(a, len) ==
    IF a.start >= len THEN a
    ELSE LET n == FIO_ARY_SIZE2WORDS((len - a.start) + a.end)
             capa == Max({n, Capa(a)})
             els == Elements(a)
             start == capa - Len(els)
         IN [start |-> start, end |-> capa, arry |-> Garbage(start) \o els]

Reset(a) == IF a.start = a.end THEN [a EXCEPT !.start = 0, !.end = 0] ELSE a

ary_set(a0, index0, data) ==
    LET a == Reset(a0)
        index == rel2absolute(a, index0)
        spaces == index - count(a)
        b == require_on_top(a, spaces + 1)
        cell(x, i) == x.start + i + 1
    IN IF spaces < 0 THEN [a EXCEPT !.arry[cell(a, index)] = data]
       ELSE [b EXCEPT !.arry = [i \in DOMAIN @ |->
                          IF i = cell(b, index) THEN data
                          ELSE IF i > b.end /\ i <= b.end + spaces THEN FIO_ARY_INVALID ELSE @[i]],
                      !.end = index + 1]

ary_get(a, index0) ==
    LET index == rel2absolute(a, index0) IN
    IF index >= count(a) THEN FIO_ARY_INVALID ELSE a.arry[a.start + index + 1]

ary_find(a, data) ==
    LET at == {i \in a.start..(a.end - 1) : a.arry[i + 1] = data} IN
    IF at = {} THEN -1 ELSE Min(at) - a.start

(* The first element leaves from the front, others are moved over.         *)
ary_remove(a, index0) ==
    LET index == rel2absolute(a, index0)
        at == a.start + index
    IN IF index >= count(a) THEN a
       ELSE IF at = a.start THEN [a EXCEPT !.start = @ + 1]
       ELSE [a EXCEPT !.end = @ - 1,
                      !.arry = [i \in DOMAIN @ |-> IF i > at /\ i <= a.end - 1 THEN @[i + 1] ELSE @[i]]]
ary_remove2(a, data) == IF ary_find(a, data) = -1 THEN a ELSE ary_remove(a, ary_find(a, data))

ary_push(a0, data) ==
    LET a == Reset(IF Capa(a0) <= a0.end THEN require_on_top(a0, 1 + FIO_ARY_PADDING) ELSE a0) IN
    [a EXCEPT !.arry[a.end + 1] = data, !.end = @ + 1]
ary_pop(a) == IF count(a) = 0 THEN a ELSE [a EXCEPT !.end = @ - 1]
ary_unshift(a0, data) ==
    LET a == IF a0.start = 0 THEN require_on_bottom(a0, UNSHIFT_ROOM) ELSE a0 IN
    [a EXCEPT !.arry[a.start] = data, !.start = @ - 1]
ary_shift(a) == IF count(a) = 0 THEN a ELSE [a EXCEPT !.start = @ + 1]

ary_concat(dest, src) ==
    LET added == count(src)
        d == require_on_top(dest, added)
    IN IF added = 0 THEN dest
       ELSE [d EXCEPT !.arry = SubSeq(@, 1, d.end) \o Elements(src)
                                 \o SubSeq(@, d.end + added + 1, Len(@)),
                      !.end = @ + added]

ary_compact(a) ==
    LET kept == SelectSeq(Elements(a), LAMBDA e : e # FIO_ARY_INVALID) IN
    IF count(a) = 0 THEN a
    ELSE [a EXCEPT !.arry = SubSeq(@, 1, a.start) \o kept \o SubSeq(@, a.start + Len(kept) + 1, Len(@)),
                   !.end = a.start + Len(kept)]

-----------------------------------------------------------------------------
(* The embedded linked list of fio.h: a ring of nodes through its head, in *)
(* which a node that belongs to no list points at itself.                  *)

CONSTANTS Nodes, List   \* the nodes, and the one that heads the list

FIO_LS_INIT == [next |-> [n \in Nodes \cup {List} |-> n], prev |-> [n \in Nodes \cup {List} |-> n]]

fio_ls_embd_remove(l, node) ==
    IF l.next[node] = node THEN l
    ELSE LET m == [l EXCEPT !.prev[l.next[node]] = l.prev[node],
                            !.next[l.prev[node]] = l.next[node]]
         IN [m EXCEPT !.next[node] = node, !.prev[node] = node]

fio_ls_embd_push(l, dest, node) ==
    LET m == [l EXCEPT !.prev[node] = l.prev[dest], !.next[node] = dest] IN
    [m EXCEPT !.next[m.prev[dest]] = node, !.prev[dest] = node]
fio_ls_embd_unshift(l, dest, node) == fio_ls_embd_push(l, l.next[dest], node)
fio_ls_embd_pop(l, list) == fio_ls_embd_remove(l, l.prev[list])
fio_ls_embd_shift(l, list) == fio_ls_embd_remove(l, l.next[list])
fio_ls_embd_is_empty(l, list) == l.next[list] = list

(* FIO_LS_EMBD_FOR: the nodes from the head's next on; the other way round *)
(* from its prev.                                                          *)
RECURSIVE Along(_, _, _)
Along(link, n, seen) == IF n = List \/ n \in seen THEN <<>> ELSE <<n>> \o Along(link, link[n], seen \cup {n})
Forward(l) == Along(l.next, l.next[List], {})
Backward(l) == Along(l.prev, l.prev[List], {})
=============================================================================
