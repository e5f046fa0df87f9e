----------------------------- MODULE DataStreams -----------------------------
(***************************************************************************)
(* A request's body: it arrives in chunks, moves to a file when it grows,  *)
(* and is read, sliced and written, by the library and by the application  *)
(* through rack.input, in any order.  Each stream is driven beside the     *)
(* bytes it stands for and the position in them.                           *)
(***************************************************************************)
EXTENDS Integers, FiniteSets, SequencesExt

CONSTANTS
    PAGE,                    \* the bytes a buffer grows by and a file is read by (4096)
    HTTP_MAX_HEADER_LENGTH,  \* the body's bytes that are kept in memory
    Chunks,                  \* what is written
    MaxLen, MaxStreams       \* bounds

-----------------------------------------------------------------------------
(* The data streams of fiobj_data.c, in which a request's body is kept: in *)
(* memory, in a file behind a buffer, or as a slice of another stream.     *)
(* `h` is a sequence of streams; a result carries the streams and the      *)
(* bytes that the caller is shown.                                         *)

(* What a buffer holds before something is written to it (and never a LF). *)
Garbage == "?"
Blank(n) == [i \in 1..n |-> Garbage]
(* realloc: the first bytes are kept *)
Resized(mem, n) == [i \in 1..n |-> IF i <= Len(mem) THEN mem[i] ELSE Garbage]
Put(mem, at, bytes) == [i \in 1..Len(mem) |-> IF i > at /\ i <= at + Len(bytes) THEN bytes[i - at] ELSE mem[i]]
(* `n` bytes behind a pointer into mem: past its end, or of a freed or     *)
(* missing buffer, they are anything                                       *)
Peek(mem, at, n) == [i \in 1..n |-> IF at + i <= Len(mem) THEN mem[at + i] ELSE Garbage]
(* pread(2), which stops at the end of the file                            *)
PRead(disk, at, n) ==
    IF at >= Len(disk) THEN <<>>
    ELSE SubSeq(disk, at + 1, IF at + n < Len(disk) THEN at + n ELSE Len(disk))

(* fd: "str" (-1), "slice" (-2) or "file"; mem: buffer; owned: its dealloc  *)
(* is fio_free; capa: for a slice its offset; disk: the file's bytes       *)
Stream(fd, mem) ==
    [fd |-> fd, mem |-> mem, owned |-> FALSE, parent |-> 0, capa |-> 0, len |-> 0, pos |-> 0,
     fpos |-> 0, disk |-> <<>>, ref |-> 1]
fiobj_data_newstr == [Stream("str", Blank(PAGE)) EXCEPT !.capa = PAGE, !.owned = TRUE]
fiobj_data_newstr2(bytes) == [Stream("str", bytes) EXCEPT !.capa = Len(bytes), !.len = Len(bytes)]
fiobj_data_newfd(disk) == [Stream("file", Blank(PAGE)) EXCEPT !.disk = disk]

fiobj_data_len(h, o) == IF h[o].fd = "file" THEN Len(h[o].disk) ELSE h[o].len
fiobj_data_pos(h, o) == IF h[o].fd = "file" THEN h[o].fpos ELSE h[o].pos

Shown(h, bytes) == [h |-> h, data |-> bytes]
Nothing(h) == Shown(h, <<>>)

Pages(n) == ((n \div PAGE) + 1) * PAGE
(* the end of fiobj_data_pre_write: room for `n` more bytes                *)
Room(d, n) ==
    IF d.capa >= d.len + n THEN d
    ELSE [d EXCEPT !.capa = Pages(d.len + n), !.mem = Resized(@, Pages(d.len + n))]

-----------------------------------------------------------------------------
(* Reading at a position of the caller's                                   *)

From(len, start) == IF start >= 0 THEN start ELSE IF len + start < 0 THEN 0 ELSE len + start
Clipped(len, start, n) ==
    LET at == IF From(len, start) > len THEN len ELSE From(len, start)
    IN  [at |-> at, n |-> IF at + n > len THEN len - at ELSE n]

fiobj_data_pread_str(h, o, start, n) ==
    LET c == Clipped(h[o].len, start, n) IN Shown(h, Peek(h[o].mem, c.at, c.n))

fiobj_data_pread_file(h, o, start, n) ==
    LET at == From(Len(h[o].disk), start)
        m == IF at + n > Len(h[o].disk) THEN Len(h[o].disk) - at ELSE n
        read == [h[o] EXCEPT !.len = 0, !.pos = 0]
    IN  CASE m > 0 -> Shown([h EXCEPT ![o] = Room(read, m + 1)], PRead(h[o].disk, at, m))
          [] m = 0 -> Nothing([h EXCEPT ![o].capa = 0, ![o].mem = <<>>])
          [] m = -1 -> Nothing([h EXCEPT ![o] = read])
          [] OTHER -> Nothing([h EXCEPT ![o] = [read EXCEPT !.capa = 0, !.mem = <<>>]])   \* the room wraps to 0

(* slices are of a stream that is not one *)
fiobj_data_pread_slice(h, o, start, n) ==
    LET c == Clipped(h[o].len, start, n) IN
    IF c.n = 0 THEN Nothing(h)
    ELSE IF h[h[o].parent].fd = "str" THEN fiobj_data_pread_str(h, h[o].parent, c.at, c.n)
    ELSE fiobj_data_pread_file(h, h[o].parent, c.at, c.n)

fiobj_data_pread(h, o, start, n) ==
    CASE h[o].fd = "str" -> fiobj_data_pread_str(h, o, start, n)
      [] h[o].fd = "slice" -> fiobj_data_pread_slice(h, o, start, n)
      [] h[o].fd = "file" -> fiobj_data_pread_file(h, o, start, n)

-----------------------------------------------------------------------------
(* Reading on                                                              *)

(* the bytes a read of `length` asks for: none or fewer count from the end *)
Wanted(left, length) == IF length > 0 THEN length ELSE left + length

(* where a read of a string or a slice ends *)
Reach(d, length) ==
    LET n == d.pos + Wanted(d.len - d.pos, length) IN IF n > d.len THEN d.len ELSE n

fiobj_data_read_str(h, o, length) ==
    LET d == h[o] IN
    IF d.pos = d.len \/ Wanted(d.len - d.pos, length) <= 0 THEN Nothing(h)
    ELSE Shown([h EXCEPT ![o].pos = Reach(d, length)], Peek(d.mem, d.pos, Reach(d, length) - d.pos))

fiobj_data_read_slice(h, o, length) ==
    LET d == h[o] IN
    IF d.pos = d.len \/ Wanted(d.len - d.pos, length) <= 0 THEN Nothing(h)
    ELSE fiobj_data_pread([h EXCEPT ![o].pos = Reach(d, length)], d.parent, d.pos + d.capa,
                          Reach(d, length) - d.pos)

fiobj_data_read_file(h, o, length) ==
    LET d == h[o]
        n == Wanted(Len(d.disk) - d.fpos, length)
        new == PRead(d.disk, d.fpos, n)
        r == Room([d EXCEPT !.len = 0, !.pos = 0], n)
    IN  CASE n <= 0 -> Nothing(h)
          [] n > 0 /\ n + d.pos <= d.len ->
               Shown([h EXCEPT ![o].pos = @ + n, ![o].fpos = @ + n], Peek(d.mem, d.pos, n))
          [] OTHER -> Shown([h EXCEPT ![o] = [r EXCEPT !.mem = Put(@, 0, new), !.fpos = @ + Len(new)]], new)

fiobj_data_read(h, o, length) ==
    CASE h[o].fd = "str" -> fiobj_data_read_str(h, o, length)
      [] h[o].fd = "slice" -> fiobj_data_read_slice(h, o, length)
      [] h[o].fd = "file" -> fiobj_data_read_file(h, o, length)

-----------------------------------------------------------------------------
(* Reading up to a byte                                                    *)

(* swallow_ch: the bytes up to and with the first `token`, or all of them  *)
Swallowed(bytes, token) ==
    LET at == SelectInSeq(bytes, LAMBDA b : b = token) IN IF at = 0 THEN Len(bytes) ELSE at

fiobj_data_read2ch_str(h, o, token) ==
    LET d == h[o]
        Upto(rest, n) == Shown([h EXCEPT ![o].pos = @ + n], SubSeq(rest, 1, n))
        In(rest) == Upto(rest, Swallowed(rest, token))
    IN  In(Peek(d.mem, d.pos, d.len - d.pos))

(* a file is read by pages until one has the token, or to its end          *)
PageFill(h, o, token, rest, m) ==
    LET found == token \in Range(rest)
        pages == ((m + PAGE - 1) \div PAGE) * PAGE
        Filled(len) ==
          LET room == Room([h[o] EXCEPT !.len = IF ~found THEN len ELSE IF len > PAGE THEN len - PAGE ELSE 0, !.pos = 0],
                           PAGE)   \* a last, empty read finds the end
          IN [h EXCEPT ![o] = [room EXCEPT !.mem = Put(@, 0, SubSeq(rest, 1, len)), !.len = len,
                                           !.pos = IF found THEN m ELSE 0, !.fpos = @ + m]]
    IN  Shown(Filled(IF found /\ pages < Len(rest) THEN pages ELSE Len(rest)), SubSeq(rest, 1, m))
fiobj_data_read2ch_file(h, o, token) ==
    LET d == h[o]
        Held(left, n) == Shown([h EXCEPT ![o].pos = @ + n, ![o].fpos = @ + n], SubSeq(left, 1, n))
        Paging(rest) == IF rest = <<>> THEN Nothing([h EXCEPT ![o] = Room([d EXCEPT !.len = 0, !.pos = 0], PAGE)])
                        ELSE PageFill(h, o, token, rest, Swallowed(rest, token))
        In(left) == IF token \in Range(left) THEN Held(left, Swallowed(left, token))
                    ELSE Paging(PRead(d.disk, d.fpos, Len(d.disk)))
    IN  In(Peek(d.mem, d.pos, d.len - d.pos))

Cutoff(h, o, data) ==
    IF Len(data) + h[o].pos > h[o].len THEN Shown([h EXCEPT ![o].pos = h[o].len], SubSeq(data, 1, h[o].len - h[o].pos))
    ELSE Shown(h, data)
(* the parent's position is lent to the slice *)
fiobj_data_read2ch_slice(h, o, token) ==
    LET d == h[o]
        lent == [h EXCEPT ![d.parent].pos = d.capa + d.pos]
        Back(r) == Cutoff([r.h EXCEPT ![d.parent].pos = h[d.parent].pos], o, r.data)
    IN  IF d.pos = d.len THEN Nothing(h)
        ELSE Back(IF h[d.parent].fd = "str" THEN fiobj_data_read2ch_str(lent, d.parent, token)
                  ELSE fiobj_data_read2ch_file(lent, d.parent, token))

fiobj_data_read2ch(h, o, token) ==
    CASE h[o].fd = "str" -> fiobj_data_read2ch_str(h, o, token)
      [] h[o].fd = "slice" -> fiobj_data_read2ch_slice(h, o, token)
      [] h[o].fd = "file" -> fiobj_data_read2ch_file(h, o, token)

(* Mutant: the bytes that were buffered at the old position are kept.      *)
fiobj_data_seek_KeepsBuffer(h, o, position) ==
    LET len == fiobj_data_len(h, o)
        at == IF position >= 0 THEN IF position > len THEN len ELSE position
              ELSE IF 0 - position > len THEN 0 ELSE len + position
    IN  IF h[o].fd = "file" THEN [h EXCEPT ![o].fpos = at] ELSE [h EXCEPT ![o].pos = at]
fiobj_data_seek(h, o, position) ==
    LET len == fiobj_data_len(h, o)
        at == CASE position >= 0 -> IF position > len THEN len ELSE position
                [] OTHER -> IF 0 - position > len THEN 0 ELSE len + position
    IN  IF h[o].fd = "file" THEN [h EXCEPT ![o].pos = 0, ![o].len = 0, ![o].fpos = at]
        ELSE [h EXCEPT ![o].pos = at]

(* fio_io2str *)
fiobj_obj2cstr(h, o) ==
    LET d == h[o] IN
    CASE d.fd = "str" -> Shown(h, Peek(d.mem, 0, d.len))
      [] d.fd = "slice" -> fiobj_data_pread(h, d.parent, d.capa, d.len)
      [] d.fd = "file" /\ d.disk = <<>> -> Shown(h, Peek(d.mem, 0, d.len))
      [] OTHER -> LET r == Room([d EXCEPT !.len = 0, !.pos = 0], Len(d.disk) + 1)
                  IN  Shown([h EXCEPT ![o] = [r EXCEPT !.mem = Put(@, 0, d.disk)]], d.disk)

-----------------------------------------------------------------------------
(* Slices, writing, saving and the end                                     *)

fiobj_data_slice(h, p, offset, length) ==
    LET off == IF offset < 0 THEN fiobj_data_len(h, p) + 1 + offset ELSE offset
        up == h[p].fd = "slice"
        root == IF up THEN h[p].parent ELSE p
        at == (IF off < 0 THEN 0 ELSE off) + (IF up THEN h[p].capa ELSE 0)
        len == fiobj_data_len(h, root)
        s == [Stream("slice", <<>>) EXCEPT !.parent = root, !.capa = IF len <= at THEN len ELSE at,
                  !.len = IF len <= at THEN 0 ELSE IF len < at + length THEN len - at ELSE length]
    IN  Append([h EXCEPT ![root].ref = @ + 1], s)

RECURSIVE fiobj_free(_, _)
fiobj_free(h, o) ==
    LET f == [h EXCEPT ![o].ref = @ - 1] IN
    IF f[o].ref = 0 /\ f[o].fd = "slice" THEN fiobj_free(f, f[o].parent) ELSE f

(* the pages of a slice, up to the first that is not full, one after the   *)
(* other: what fiobj_data_save_slice and fiobj_data_copy_parent copy       *)
RECURSIVE Paged(_, _, _)
Paged(h, o, total) ==
    LET d == h[o]
        Joined(bytes, rest) == Shown(rest.h, bytes \o rest.data)
        OnFrom(g, bytes) == IF Len(bytes) < PAGE THEN Shown(g, bytes) ELSE Joined(bytes, Paged(g, o, total + PAGE))
        Cut(page) == OnFrom(page.h, IF Len(page.data) + total > d.len THEN SubSeq(page.data, 1, d.len - total) ELSE page.data)
    IN  Cut(fiobj_data_pread(h, d.parent, d.capa + total, PAGE))

fiobj_data_copy_buffer(d) ==
    [d EXCEPT !.capa = Pages(d.len), !.mem = Resized(SubSeq(@, 1, d.len), Pages(d.len)), !.owned = TRUE]

(* a slice becomes a stream of its parent's kind *)
fiobj_data_copy_parent(h, o) ==
    LET d == h[o]
        Copied(all) == [fiobj_free(all.h, d.parent) EXCEPT
             ![o] = [d EXCEPT !.fd = "file", !.mem = <<>>, !.disk = all.data, !.capa = 0, !.fpos = d.pos,
                              !.len = Len(all.data), !.pos = 0, !.parent = 0]]
    IN
    IF h[d.parent].fd = "str"
    THEN [fiobj_free(h, d.parent) EXCEPT
             ![o] = [d EXCEPT !.fd = "str", !.mem = Append(Peek(h[d.parent].mem, d.capa, d.len), "nul"),
                              !.capa = d.len, !.owned = TRUE, !.parent = 0]]
    ELSE Copied(Paged(h, o, 0))

fiobj_data_pre_write(h, o, n) ==
    [(CASE h[o].fd = "str" /\ ~h[o].owned -> [h EXCEPT ![o] = fiobj_data_copy_buffer(@)]
        [] h[o].fd = "slice" -> fiobj_data_copy_parent(h, o)
        [] OTHER -> h) EXCEPT ![o] = Room(@, n)]

fiobj_data_assert_dynamic(h, o) == fiobj_data_pre_write(h, o, 0)

Unsliced(h, o) == IF h[o].fd = "slice" THEN fiobj_data_assert_dynamic(h, o) ELSE h

(* to the file, or into the buffer, which then has room                    *)
WrittenTo(h, o, disk, mem, n) ==
    LET Into(w) == [w EXCEPT ![o].mem = Put(@, w[o].len, mem), ![o].len = @ + n]
        To(u) == IF u[o].fd = "file" THEN [u EXCEPT ![o].disk = @ \o disk]
                 ELSE Into(fiobj_data_pre_write(u, o, Len(mem)))
    IN  To(Unsliced(h, o))
fiobj_data_write(h, o, bytes) == WrittenTo(h, o, bytes, Append(bytes, "nul"), Len(bytes))

(* to a file the line is written twice, and no end of line                 *)
fiobj_data_puts(h, o, bytes, eol) == WrittenTo(h, o, bytes \o bytes, bytes \o eol, Len(bytes) + Len(eol))

(* the bytes of the file that is written *)
fiobj_data_save_str(h, o) == Shown(h, Peek(h[o].mem, 0, h[o].len))
fiobj_data_save_file(h, o) == Shown(h, h[o].disk)
fiobj_data_save_slice(h, o) == Paged(h, o, 0)
fiobj_data_save(h, o) ==
    CASE h[o].fd = "str" -> fiobj_data_save_str(h, o)
      [] h[o].fd = "slice" -> fiobj_data_save_slice(h, o)
      [] h[o].fd = "file" -> fiobj_data_save_file(h, o)

-----------------------------------------------------------------------------

VARIABLES
    io,      \* the streams: the body, then slices; a stream no one holds stays, with ref 0
    ref,     \* what each stands for: [text, pos, held], and in `spent` whether
             \* a file's buffer is left over (see Stale), in `astray` whether its
             \* position was lost
    body,    \* the request's body, among the streams
    input,   \* rack.input: "open" or "closed"
    out      \* a call's answer and the one it should have been, if they differ

vars == <<io, ref, body, input, out>>

LF == "n"
NIL == <<"nil">>
Plain(text) == [text |-> text, pos |-> 0, held |-> TRUE, spent |-> FALSE, astray |-> FALSE]

Init ==
    /\ \/ io = <<fiobj_data_newstr>> /\ ref = <<Plain(<<>>)>>
       \/ \E c \in Chunks : \/ io = <<fiobj_data_newstr2(c)>> /\ ref = <<Plain(c)>>
                            \/ io = <<fiobj_data_newfd(c)>> /\ ref = <<Plain(c)>>
    /\ body = 1 /\ input = "open" /\ out = <<>>

Handles == {o \in 1..Len(io) : ref[o].held}
Rest(o) == SubSeq(ref[o].text, ref[o].pos + 1, Len(ref[o].text))
Line(bytes) == SubSeq(bytes, 1, Swallowed(bytes, LF))
RECURSIVE Lines(_)
Lines(bytes) ==
    IF bytes = <<>> THEN <<>>
    ELSE <<Line(bytes)>> \o Lines(SubSeq(bytes, Swallowed(bytes, LF) + 1, Len(bytes)))

(* Bytes of a buffer that no call can show again, and streams that were    *)
(* freed, are forgotten.                                                   *)
Forgotten(d) ==
    IF d.ref = 0 THEN [Stream("freed", <<>>) EXCEPT !.ref = 0]
    ELSE [d EXCEPT !.mem = [i \in 1..Len(@) |-> IF i > d.len \/ (d.fd = "file" /\ i <= d.pos) THEN Garbage ELSE @[i]]]
Keeps(h, refs) ==
    /\ io' = [o \in 1..Len(h) |-> Forgotten(h[o])]
    /\ ref' = [o \in 1..Len(refs) |-> IF h[o].ref = 0 THEN [Plain(<<>>) EXCEPT !.held = refs[o].held] ELSE refs[o]]
(* A call that shows bytes, beside the bytes it should show.               *)
ShowsOr(r, Right(_), bytes, refs) ==
    /\ Keeps(r.h, refs)
    /\ out' = IF Right(r.data) THEN <<>> ELSE <<r.data, bytes>>
Shows(r, bytes, refs) == ShowsOr(r, LAMBDA data : data = bytes, bytes, refs)
Changes(h, refs) ==
    Keeps(h, refs) /\ out' = <<>>
Advance(o, n) == [ref EXCEPT ![o].pos = @ + n]
Written(o, bytes) == [ref EXCEPT ![o].text = @ \o bytes, ![o].spent = @ \/ io[o].fd = "slice"]

(* Left over in a file's buffer by a line without an end, or by a buffer   *)
(* that was freed or never filled: a read shows it, and may go beyond the  *)
(* end.  The bytes are old ones of the body, or no one's.                  *)
Stale(o) ==
    io[o].fd = "file" /\ io[o].pos < io[o].len /\ (ref[o].spent \/ io[o].mem = <<>>)
Astray(o) == ref[o].astray \/ Stale(o)
Whole(o) == IF io[o].fd = "slice" THEN ref[io[o].parent].text ELSE ref[o].text
Piece(bytes, text) ==
    \E i \in 0..(Len(text) - Len(bytes)) : SubSeq(text, i + 1, i + Len(bytes)) = bytes
OldOrNoOnes(o, data) == Garbage \in Range(data) \/ Piece(data, Whole(o))
Strays(refs, o) == [refs EXCEPT ![o].astray = @ \/ Stale(o)]

(* A slice leaves its position where it was, unless the line goes on       *)
(* beyond its end; one of a file reads on where its parent stands, and     *)
(* both lose their places.                                                 *)
OfFile(o) == io[o].fd = "slice" /\ io[io[o].parent].fd = "file" /\ io[o].pos < io[o].len
Stays(o) == io[o].fd = "slice" /\ (LF \in Range(Rest(o)) \/ io[io[o].parent].len = io[o].capa + io[o].len)
Unended(o) ==
    IF OfFile(o) THEN [ref EXCEPT ![o].astray = TRUE, ![io[o].parent].astray = TRUE]
    ELSE [ref EXCEPT ![o].pos = IF Stays(o) THEN @ ELSE @ + Len(Line(Rest(o))),
                     ![o].spent = io[o].fd = "file" /\ LF \notin Range(Rest(o))]

-----------------------------------------------------------------------------
Lengths == -1..2
Amount(o, length) ==
    LET left == Len(Rest(o)) n == Wanted(left, length) IN IF n > left THEN left ELSE IF n < 0 THEN 0 ELSE n

Reads ==
    \E o \in Handles, length \in Lengths :
      LET bytes == SubSeq(Rest(o), 1, Amount(o, length)) IN
      /\ ShowsOr(fiobj_data_read(io, o, length), LAMBDA data : data = bytes \/ (Astray(o) /\ OldOrNoOnes(o, data)),
                 bytes, Strays(Advance(o, Amount(o, length)), o))
      /\ UNCHANGED <<body, input>>

(* (Bound: of a slice not once its parent's place is beyond the end.)      *)
Gets ==
    \E o \in Handles :
      /\ OfFile(o) => io[io[o].parent].fpos <= Len(io[io[o].parent].disk)
      /\ ShowsOr(fiobj_data_read2ch(io, o, LF),
                 LAMBDA data : data = Line(Rest(o)) \/ ((ref[o].astray \/ OfFile(o)) /\ OldOrNoOnes(o, data)),
                 Line(Rest(o)), Unended(o))
      /\ UNCHANGED <<body, input>>

(* A position before the start, in the middle, or after the end.           *)
Seeks ==
    \E o \in Handles, at \in {-4, -1, 0, 1, 9} :
      LET len == Len(ref[o].text)
          to == IF at >= 0 THEN IF at > len THEN len ELSE at ELSE IF len + at < 0 THEN 0 ELSE len + at
      IN  Changes(fiobj_data_seek(io, o, at), [ref EXCEPT ![o].pos = to, ![o].spent = FALSE, ![o].astray = FALSE]) /\ UNCHANGED <<body, input>>

(* Of a slice its parent's bytes are shown, without the slice's offset.    *)
PReads ==
    \E o \in Handles, start \in -2..2, n \in 1..2 :
      LET len == Len(ref[o].text)
          at == IF From(len, start) > len THEN len ELSE From(len, start)
          bytes == SubSeq(Whole(o), at + 1, IF at + n > len THEN len ELSE at + n)
      IN  Shows(fiobj_data_pread(io, o, start, n), bytes, ref) /\ UNCHANGED <<body, input>>

Texted ==
    \E o \in Handles : Shows(fiobj_obj2cstr(io, o), ref[o].text, ref) /\ UNCHANGED <<body, input>>

Saves ==
    \E o \in Handles : Shows(fiobj_data_save(io, o), ref[o].text, ref) /\ UNCHANGED <<body, input>>

(* A slice of a slice is cut at the end of its parent.                     *)
Slices ==
    \E o \in Handles, at \in 0..2, n \in 1..3 :
      LET len == Len(Whole(o))
          offset == at + (IF io[o].fd = "slice" THEN io[o].capa ELSE 0)
          from == IF offset > len THEN len ELSE offset
      IN  /\ Len(io) < MaxStreams
          /\ Changes(fiobj_data_slice(io, o, at, n),
                     Append(ref, Plain(SubSeq(Whole(o), from + 1, IF from + n > len THEN len ELSE from + n))))
          /\ UNCHANGED <<body, input>>

Writes ==
    \E o \in Handles, c \in Chunks :
      /\ Len(ref[o].text) + Len(c) <= MaxLen
      /\ Changes(fiobj_data_write(io, o, c), Written(o, c))
      /\ UNCHANGED <<body, input>>

(* A line, which a file gets twice and without its end.                    *)
Puts ==
    \E o \in Handles, c \in Chunks :
      /\ Len(ref[o].text) + 2 * Len(c) <= MaxLen
      /\ LET files == io[o].fd = "file" \/ (io[o].fd = "slice" /\ io[io[o].parent].fd = "file") IN
         Changes(fiobj_data_puts(io, o, c, <<LF>>), Written(o, IF files THEN c \o c ELSE Append(c, LF)))
      /\ UNCHANGED <<body, input>>

Releases ==
    \E o \in Handles \ {body} :
      /\ Changes(fiobj_free(io, o), [ref EXCEPT ![o].held = FALSE])
      /\ UNCHANGED <<body, input>>

-----------------------------------------------------------------------------
(* The body arrives before the application sees it.                        *)

http1_on_body_chunk(h, o, data) ==
    LET len == fiobj_data_len(h, o)
        file == [fiobj_data_newfd(<<>>) EXCEPT !.disk = fiobj_obj2cstr(h, o).data]
    IN  IF len <= HTTP_MAX_HEADER_LENGTH /\ len + Len(data) > HTTP_MAX_HEADER_LENGTH
        THEN fiobj_data_write([h EXCEPT ![o] = file], o, data)
        ELSE fiobj_data_write(h, o, data)

Arrives ==
    \E c \in Chunks :
      /\ Len(io) = 1 /\ Handles = {1} /\ Len(ref[1].text) + Len(c) <= MaxLen /\ ref[1].pos = 0
      /\ Changes(http1_on_body_chunk(io, 1, c), Written(1, c))
      /\ UNCHANGED <<body, input>>

-----------------------------------------------------------------------------
(* rack.input: `get_data` is the body until the request ends               *)

Open == input # "closed"
rio_gets == IF Open THEN fiobj_data_read2ch(io, body, LF) ELSE Nothing(io)
(* a length of 0 is answered at once; without one all is read              *)
rio_read(length) ==
    IF Open /\ length # 0 THEN fiobj_data_read(io, body, IF length = -1 THEN 0 ELSE length) ELSE Nothing(io)
rio_rewind == IF Open THEN fiobj_data_seek(io, body, 0) ELSE io
RECURSIVE Yields(_, _)
Yields(h, lines) ==
    LET line == fiobj_data_read2ch(h, body, LF) IN
    IF line.data = <<>> THEN Shown(line.h, lines) ELSE Yields(line.h, Append(lines, line.data))
rio_each == IF Open THEN Yields(rio_rewind, <<>>) ELSE Nothing(io)

OrNil(r, nil) == [r EXCEPT !.data = IF r.data = <<>> /\ nil THEN NIL ELSE r.data]
Answer(bytes, nil) == IF bytes = <<>> /\ nil THEN NIL ELSE bytes
Unread == IF Open THEN Rest(body) ELSE <<>>
Moved(n) == IF Open THEN Advance(body, n) ELSE ref

RackReads ==
    \E length \in {-1, 0, 1, 3} :   \* -1: none given
      LET all == Unread
          n == IF length = -1 THEN Len(all) ELSE IF length > Len(all) THEN Len(all) ELSE length
          bytes == Answer(SubSeq(all, 1, n), length > 0)
      IN  /\ ShowsOr(OrNil(rio_read(length), length > 0),
                     LAMBDA data : data = bytes \/ (Open /\ Astray(body) /\ (data = NIL \/ OldOrNoOnes(body, data))),
                     bytes, IF Open /\ length # 0 THEN Strays(Moved(n), body) ELSE ref)
          /\ UNCHANGED <<body, input>>

RackGets ==
    /\ ShowsOr(OrNil(rio_gets, TRUE),
               LAMBDA data : \/ data = Answer(Line(Unread), TRUE)
                             \/ Open /\ ref[body].astray /\ (data = NIL \/ OldOrNoOnes(body, data)),
               Answer(Line(Unread), TRUE), IF Open THEN Unended(body) ELSE ref)
    /\ UNCHANGED <<body, input>>

Rewound(n) == [ref EXCEPT ![body].pos = n, ![body].spent = FALSE, ![body].astray = FALSE]
RackRewinds == Changes(rio_rewind, IF Open THEN Rewound(0) ELSE ref) /\ UNCHANGED <<body, input>>

RackEach ==
    /\ Shows(rio_each, IF Open THEN Lines(ref[body].text) ELSE <<>>,
             IF Open THEN Rewound(Len(ref[body].text)) ELSE ref)
    /\ UNCHANGED <<body, input>>

(* rio_close, which leaves the body to the server                          *)
RackCloses == input' = "closed" /\ Changes(io, ref) /\ UNCHANGED body

(* close_rack_io, then the end of the request, which frees its body        *)
Ends ==
    /\ ref[body].held
    /\ input' = "closed"
    /\ Changes(fiobj_free(io, body), [ref EXCEPT ![body].held = FALSE])
    /\ UNCHANGED body

Next == \/ Reads \/ Gets \/ Seeks \/ PReads \/ Texted \/ Saves \/ Slices \/ Writes \/ Puts \/ Releases
        \/ Arrives \/ RackReads \/ RackGets \/ RackRewinds \/ RackEach \/ RackCloses \/ Ends
Spec == Init /\ [][Next]_vars

-----------------------------------------------------------------------------
(* What any call shows is what the stream stands for at its position,      *)
(* whichever way it is stored and whatever its slices and its parent did   *)
(* in between; lengths and positions agree with it; a held stream, and the *)
(* parent of a held slice, has not been released (fiobj_data.c).  There is *)
(* one exception: a read of a file whose buffer is left over (Stale) shows *)
(* old bytes of the same body, or bytes that nothing wrote, and its place  *)
(* is lost until the next seek; so are those of a slice of a file and of   *)
(* its parent after a line was read of it.  What a stream stands for is    *)
(* the code's in three more places: pread of a slice (PReads), a slice of  *)
(* a slice (Slices), puts to a file (Puts).                                *)
StreamsReadAsWritten ==
    /\ out = <<>>
    /\ \A o \in Handles : /\ io[o].ref > 0
                          /\ io[o].fd = "slice" => io[io[o].parent].ref > 0
                          /\ fiobj_data_len(io, o) = Len(ref[o].text)
                          /\ ref[o].astray \/ fiobj_data_pos(io, o) = ref[o].pos
    /\ \A o \in 1..Len(io) :
         io[o].ref = (IF ref[o].held THEN 1 ELSE 0)
                       + Cardinality({s \in 1..Len(io) : io[s].fd = "slice" /\ io[s].parent = o /\ io[s].ref > 0})
==============================================================================
