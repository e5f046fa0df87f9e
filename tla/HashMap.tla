------------------------------ MODULE HashMap ------------------------------
(***************************************************************************)
(* The Set / Hash Map template of fio.h: an array of objects in the order  *)
(* of their insertion, with holes where objects were removed, and a map    *)
(* from hash values to positions in it.                                    *)
(***************************************************************************)
EXTENDS Integers, Sequences, SequencesExt, FiniteSetsExt, Bitwise

CONSTANTS
    Hash,           \* the hash value of each key
    HashBits,       \* the width of a hash value
    FIO_SET_CUCKOO_STEPS, FIO_SET_MAX_MAP_SEEK, FIO_SET_MAX_MAP_FULL_COLLISIONS

FIO_SET_HASH_INVALID == 0
FIO_SET_HASH_FORCE == 2^HashBits - 1
HashOf(key) == IF Hash[key] = FIO_SET_HASH_INVALID THEN FIO_SET_HASH_FORCE ELSE Hash[key]

(* fio_rrot(hash, bits) ^ (bits ? hash : 0)                                *)
FIO_SET_HASH2UINTPTR(h, bits) ==
    LET n == bits % HashBits
        rot == (h \div 2^n) + (h % 2^n) * 2^(HashBits - n)
    IN IF bits = 0 THEN h ELSE rot ^^ h

Nowhere == 0
FIO_SET_OBJ_INVALID == "invalid"
FIO_SET_INIT == [count |-> 0, capa |-> 0, pos |-> 0, ordered |-> <<>>, map |-> <<>>,
                 has_collisions |-> FALSE, used_bits |-> 0, under_attack |-> FALSE]
Empty == [hash |-> FIO_SET_HASH_INVALID, key |-> Nowhere, obj |-> Nowhere]

Held(s) == SelectSeq(SubSeq(s.ordered, 1, s.pos), LAMBDA e : e.hash # FIO_SET_HASH_INVALID)

-----------------------------------------------------------------------------
(* _compact_ordered_array_ and _reallocate_set_mem_                        *)
compact_ordered_array(s) ==
    IF s.count = s.pos THEN s
    ELSE LET held == Held(s) IN
         [s EXCEPT !.ordered = held, !.pos = Len(held), !.count = Len(held)]
reallocate_set_mem(s) ==
    LET new_capa == 2^s.used_bits IN
    [s EXCEPT !.capa = new_capa,
              !.map = [i \in 1..new_capa |-> [hash |-> FIO_SET_HASH_INVALID, pos |-> Nowhere]],
              !.ordered = SubSeq(@, 1, s.pos) \o [i \in 1..(new_capa - s.pos) |-> Empty]]

(* One place after another, `steps` apart: the first that is free, that    *)
(* belongs to the key, or that belonged to a removed key of the same hash. *)
RECURSIVE Seek(_, _, _, _, _)
Seek(s, h, key, i, full) ==
    LET limit == FIO_SET_CUCKOO_STEPS * (IF s.capa > FIO_SET_MAX_MAP_SEEK * 4
                                           THEN FIO_SET_MAX_MAP_SEEK ELSE s.capa \div 4)
        at == ((FIO_SET_HASH2UINTPTR(h, s.used_bits) + i) % 2^s.used_bits) + 1
        m == s.map[at]
        attack == s.under_attack \/ full + 1 >= FIO_SET_MAX_MAP_FULL_COLLISIONS
        next(t, f) == IF i < limit THEN Seek(t, h, key, i + FIO_SET_CUCKOO_STEPS, f)
                      ELSE [set |-> t, at |-> Nowhere]
    IN CASE m.hash = FIO_SET_HASH_INVALID -> [set |-> s, at |-> at]
         [] m.hash = h /\ (m.pos = Nowhere \/ s.ordered[m.pos].key = key) -> [set |-> s, at |-> at]
         [] m.hash = h /\ m.pos # Nowhere /\ s.ordered[m.pos].key # key ->
              LET t == [s EXCEPT !.has_collisions = TRUE] IN
              IF i > 0 /\ attack
                THEN [set |-> [t EXCEPT !.under_attack = TRUE], at |-> at]
                ELSE next(t, full + 1)
         [] m.hash \notin {FIO_SET_HASH_INVALID, h} -> next(s, full)

(* rehash: more bits until every object finds its place.                   *)
Place(s, i) ==
    LET e == s.ordered[i]
        At(found) == [set |-> IF found.at = Nowhere THEN found.set
                              ELSE [found.set EXCEPT !.map[found.at] = [hash |-> e.hash, pos |-> i]],
                      ok |-> found.at # Nowhere]
    IN At(Seek(s, e.hash, e.key, 0, 0))
RECURSIVE Mapped(_)
Mapped(s) ==
    LET Else(placed) == IF placed.ok THEN placed.set ELSE Mapped([placed.set EXCEPT !.used_bits = @ + 1])
    IN Else(FoldLeft(LAMBDA r, i : IF r.ok THEN Place(r.set, i) ELSE r,
                     [set |-> reallocate_set_mem(s), ok |-> TRUE], [i \in 1..s.pos |-> i]))
rehash(s) == Mapped([compact_ordered_array(s) EXCEPT !.has_collisions = FALSE])

(* _find_map_pos_: with holes and full collisions the map is rebuilt first *)
BeforeSeek_Never(s) == s   \* mutant
BeforeSeek(s) == IF s.has_collisions /\ s.pos # s.count THEN rehash(s) ELSE s
find_map_pos(s, key) ==
    IF s.map = <<>> THEN [set |-> s, at |-> Nowhere]
    ELSE Seek(BeforeSeek(s), HashOf(key), key, 0, 0)

-----------------------------------------------------------------------------
is_fragmented(s) == s.pos - s.count > s.count \div 2

(* _insert_or_overwrite_                                                   *)
MakeRoom(s) ==
    IF is_fragmented(s) \/ s.pos >= s.capa
      THEN rehash([s EXCEPT !.used_bits = IF is_fragmented(s) THEN @ ELSE @ + 1]) ELSE s
insert_or_overwrite(s, key, obj, overwrite) ==
    LET e == [hash |-> HashOf(key), key |-> key, obj |-> obj]
        Added(t) == [t EXCEPT !.ordered[t.pos + 1] = e, !.pos = @ + 1, !.count = @ + 1]
        Over(t, held) == IF overwrite THEN [t EXCEPT !.ordered[held].obj = obj] ELSE t
        At(t, at) ==
          IF at = Nowhere THEN rehash(Added(t))
          ELSE IF t.map[at].pos # Nowhere THEN Over(t, t.map[at].pos)
          ELSE [Added(t) EXCEPT !.map[at] = [hash |-> e.hash, pos |-> t.pos + 1]]
        Found(f) == At(f.set, f.at)
    IN Found(find_map_pos(MakeRoom(s), key))

find(s, key) ==
    LET ObjAt(t, held) == IF held = Nowhere THEN FIO_SET_OBJ_INVALID ELSE t.ordered[held].obj
        Found(f) == ObjAt(f.set, IF f.at = Nowhere THEN Nowhere ELSE f.set.map[f.at].pos)
    IN Found(find_map_pos(s, key))

(* The position after the last object that is left.                        *)
LastHeld(s) == Max({0} \cup {i \in 1..s.pos : s.ordered[i].hash # FIO_SET_HASH_INVALID})
remove(s, key) ==
    LET Hole(t, at) == [t EXCEPT !.count = @ - 1, !.ordered[t.map[at].pos].hash = FIO_SET_HASH_INVALID,
                                 !.map[at].pos = Nowhere]
        Ends(t, at) == [t EXCEPT !.map[at].hash = FIO_SET_HASH_INVALID, !.pos = LastHeld(t)]
        At(t, at) ==
          IF at = Nowhere THEN t
          ELSE IF t.map[at].pos = Nowhere THEN t
          ELSE IF t.map[at].pos = t.pos THEN Ends(Hole(t, at), at) ELSE Hole(t, at)
        Found(f) == At(f.set, f.at)
    IN Found(find_map_pos(s, key))

last(s) == IF s.pos = 0 THEN Nowhere ELSE s.ordered[s.pos].key
pop(s) ==
    IF s.pos = 0 THEN s
    ELSE LET t == [s EXCEPT !.ordered[s.pos].hash = FIO_SET_HASH_INVALID, !.count = @ - 1]
         IN [t EXCEPT !.pos = LastHeld(t)]

(* The least number of bits, 2 or more, with which a map's capacity        *)
(* 2^b fits.                                                               *)
BitsFor(fitting) == Min({b \in 2..8 : 2^b \in fitting})
capa_require(s, min_capa) ==
    IF min_capa <= s.capa THEN s
    ELSE rehash([s EXCEPT !.used_bits = BitsFor({n \in 4..256 : min_capa <= n})])
compact(s) ==
    LET Small(t) == [t EXCEPT !.used_bits = BitsFor({n \in 4..256 : t.count < n})]
    IN rehash(Small(compact_ordered_array(s)))
=============================================================================
