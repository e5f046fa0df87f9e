------------------------------- MODULE FioStr -------------------------------
(***************************************************************************)
(* The String type of fio.h.  A short string lives in the container (its   *)
(* length in the `small` flag), a longer one in allocated memory, or in    *)
(* memory it does not own.                                                 *)
(***************************************************************************)
EXTENDS Integers, Sequences, SequencesExt, FiniteSetsExt

CONSTANTS
    FIO_STR_SMALL_CAPA,   \* bytes of the container, the NUL included
    WORD                  \* sizeof(long double)

NUL == "0"
Nuls(n) == [i \in 1..n |-> NUL]

(* `mem` holds every byte of the memory in use: capa + 1 of them.          *)
Small(data, len) == [small |-> TRUE, mem |-> data, len |-> len, capa |-> 0, ref |-> 0,
                     frozen |-> FALSE, dealloc |-> FALSE]
FIO_STR_INIT == Small(Nuls(FIO_STR_SMALL_CAPA), 0)
FIO_STR_INIT_STATIC(data) == [FIO_STR_INIT EXCEPT !.small = FALSE, !.mem = Append(data, NUL), !.len = Len(data)]

Content(s) == SubSeq(s.mem, 1, s.len)
fio_str_capa(s) == IF s.frozen THEN 0 ELSE IF s.small THEN FIO_STR_SMALL_CAPA - 1 ELSE s.capa

(* Bytes from position `at` + 1 on.                                        *)
Write(mem, at, data) ==
    [i \in DOMAIN mem |-> IF i > at /\ i <= at + Len(data) THEN data[i - at] ELSE mem[i]]
Garbage(n) == [i \in 1..n |-> "?"]

(* (num + 1) | (WORD - 1)                                                  *)
ROUND_UP_CAPA2WORDS(num) == (((num + 1) \div WORD) + 1) * WORD - 1

-----------------------------------------------------------------------------
(* The memory that is kept is len + 1 bytes.                               *)
Grown(s, needed) ==
    LET capa == ROUND_UP_CAPA2WORDS(needed) IN
    [s EXCEPT !.small = FALSE, !.capa = capa, !.dealloc = TRUE,
              !.mem = SubSeq(s.mem, 1, s.len + 1) \o Garbage(capa - s.len)]
fio_str_capa_assert(s, needed) ==
    IF s.frozen \/ needed < (IF s.small THEN FIO_STR_SMALL_CAPA ELSE s.capa) THEN s
    ELSE Grown(s, needed)

fio_str_resize_Keeps(s, size) ==   \* mutant
    LET big == IF s.small \/ size >= s.capa THEN fio_str_capa_assert(s, size - 1) ELSE s IN
    IF s.frozen THEN s
    ELSE IF s.small /\ size < FIO_STR_SMALL_CAPA
      THEN [s EXCEPT !.len = size, !.mem = Write(@, size, <<NUL>>)]
    ELSE [big EXCEPT !.len = size, !.mem = Write(@, size, <<NUL>>)]
fio_str_resize(s, size) ==
    LET whole == [s EXCEPT !.len = IF s.small THEN FIO_STR_SMALL_CAPA - 1
                                   ELSE IF s.dealloc THEN s.capa ELSE s.len]
        big == IF s.small \/ size >= s.capa THEN fio_str_capa_assert(whole, size) ELSE s
    IN IF s.frozen THEN s
       ELSE IF s.small /\ size < FIO_STR_SMALL_CAPA
         THEN [s EXCEPT !.len = size, !.mem = Write(@, size, <<NUL>>)]
       ELSE [big EXCEPT !.len = size, !.mem = Write(@, size, <<NUL>>)]

fio_str_write(s, src) ==
    LET r == fio_str_resize(s, Len(src) + s.len) IN
    IF src = <<>> \/ s.frozen THEN s ELSE [r EXCEPT !.mem = Write(@, r.len - Len(src), src)]
fio_str_concat(dest, src) == fio_str_write(dest, Content(src))

(* fio_str_replace: at the end it is a write, in the middle the rest of    *)
(* the string moves, by a count that is taken after the string was made    *)
(* longer (bytes that would fall outside the memory are left out here).    *)
(* A negative position counts from s->len, which is not the length of a    *)
(* small string: only a long one is given a negative one.                  *)
fio_str_replace(s, start0, old_len, src) ==
    LET start == IF start0 >= 0 THEN start0 ELSE Max({0, start0 + s.len + 1})
        new_size == s.len + Len(src) - old_len
        t == IF old_len < Len(src) THEN fio_str_resize(s, new_size) ELSE s
        rest == SubSeq(t.mem, start + old_len + 1, t.len)
        moved == [t EXCEPT !.mem = Write(Write(@, start + Len(src), rest), start, src)]
    IN IF s.frozen \/ (old_len = 0 /\ src = <<>>) THEN s
       ELSE IF start + old_len >= s.len THEN fio_str_write([s EXCEPT !.len = start], src)
       ELSE fio_str_resize(moved, new_size)

fio_str_compact(s) ==
    CASE s.small -> s
      [] ~s.small /\ s.len < FIO_STR_SMALL_CAPA ->
           [Small(Write(Nuls(FIO_STR_SMALL_CAPA), 0, Content(s)), s.len) EXCEPT !.frozen = s.frozen]
      [] ~s.small /\ s.len >= FIO_STR_SMALL_CAPA ->
           [s EXCEPT !.mem = SubSeq(@, 1, s.len + 1), !.capa = s.len]

fio_str_freeze(s) == [s EXCEPT !.frozen = TRUE]
fio_str_dup(s) == [s EXCEPT !.ref = @ + 1]
fio_str_free(s) == IF s.ref > 0 THEN [s EXCEPT !.ref = @ - 1] ELSE FIO_STR_INIT
fio_str_iseq(s, t) == Content(s) = Content(t)

(* What fio_str_detach leaves in the container: a small string keeps its   *)
(* `small` flag, which is its length.                                      *)
fio_str_detach(s) ==
    [Small(Nuls(FIO_STR_SMALL_CAPA), IF s.small THEN s.len ELSE 0) EXCEPT !.ref = s.ref]
=============================================================================
