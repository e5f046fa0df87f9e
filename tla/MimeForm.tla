------------------------------ MODULE MimeForm ------------------------------
(***************************************************************************)
(* A multipart form's body, parsed window by window (http_mime_parser.h    *)
(* with the callbacks and the loop of http.c).  The text of a header line  *)
(* is one symbol, and HeaderLine gives what it says: the name and the file *)
(* name of a content-disposition ("" for none), or a content-type.         *)
(***************************************************************************)
EXTENDS Bytes, FiniteSetsExt

CONSTANTS boundary, HeaderLine

Delimiter == <<"-", "-">> \o boundary
HEADER_LIMIT == 5

(* http_fio_mime_s: `partial` is what is remembered of a value that does   *)
(* not fit in the window; a file's data goes to its temporary file.        *)
NoPart == [name |-> "", file |-> "", mime |-> "", value |-> <<>>]
FormFresh(body, window) ==
    [body |-> body, window |-> window, at |-> 0, buf |-> <<>>, pos |-> 1, in_obj |-> FALSE,
     first_run |-> TRUE, done |-> FALSE, error |-> FALSE, halt |-> FALSE,
     partial |-> NoPart, partial_offset |-> 0, partial_length |-> 0, out |-> <<>>]

HaltForm(p) == [p EXCEPT !.halt = TRUE]
FormError(p) == [p EXCEPT !.halt = TRUE, !.error = TRUE]
StopOf(p) == Len(p.buf) + 1

(* The first line, at or after `from`, that is a delimiter or is too close *)
(* to the window's end to tell; 0 when no line begins there.               *)
NextLine(p, from) ==
    LET starts == {k + 1 : k \in {j \in from..Len(p.buf) : p.buf[j] = LF}}
        hits == {e \in starts : \/ StopOf(p) - e < 2 + Len(Delimiter)
                                \/ Has(p.buf, e, Delimiter)}
    IN IF hits = {} THEN 0 ELSE Min(hits)
NearEnd_Wide(p, end) == end + 4 + Len(Delimiter) >= StopOf(p)   \* mutant
NearEnd(p, end) == end + 2 + Len(Delimiter) >= StopOf(p)

(* The value's bytes from `from` to the line end before `end`.             *)
ValueEnd(p, end) == IF At(p.buf, end - 2) = CR THEN end - 3 ELSE end - 2

-----------------------------------------------------------------------------
http_mime_parser_on_data(p, part, value) ==
    [p EXCEPT !.out = Append(@, [part EXCEPT !.value = value])]
http_mime_parser_on_partial_start(p, part) == [p EXCEPT !.partial = part]

(* A file's bytes are written to it, of another value only the place in    *)
(* the body is kept.                                                       *)
http_mime_parser_on_partial_data(p, from, to) ==
    IF p.partial.file # "" THEN [p EXCEPT !.partial.value = @ \o SubSeq(p.buf, from, to)]
    ELSE [p EXCEPT !.partial_offset = IF @ = 0 THEN p.at + from - 1 ELSE @,
                   !.partial_length = @ + (to - from + 1)]
http_mime_parser_on_partial_end_Keep(p) ==   \* mutant
    LET value == IF p.partial.file # "" THEN p.partial.value
                 ELSE SubSeq(p.body, p.partial_offset + 1, p.partial_offset + p.partial_length)
    IN [http_mime_parser_on_data(p, p.partial, value) EXCEPT !.partial = NoPart, !.partial_length = 0]
http_mime_parser_on_partial_end(p) ==
    LET value == IF p.partial.file # "" THEN p.partial.value
                 ELSE SubSeq(p.body, p.partial_offset + 1, p.partial_offset + p.partial_length)
    IN [http_mime_parser_on_data(p, p.partial, value)
          EXCEPT !.partial = NoPart, !.partial_offset = 0, !.partial_length = 0]

(* An object longer than the window.  Of a value that is over before it    *)
(* begins a negative length is handed on: it is taken off the length that  *)
(* is kept, and write(2) refuses it.                                       *)
DataUpTo(p, to) == IF to = p.pos - 1 THEN p ELSE http_mime_parser_on_partial_data(p, p.pos, to)
ConsumePartial(p) ==
    LET end == NextLine(p, p.pos)
        kept == IF At(p.buf, end - 2) = CR THEN end - 3 ELSE end - 2
    IN CASE end = 0 -> HaltForm([DataUpTo(p, Len(p.buf)) EXCEPT !.pos = StopOf(p)])
         [] end # 0 /\ NearEnd(p, end) -> HaltForm([DataUpTo(p, kept - 1) EXCEPT !.pos = kept])
         [] end # 0 /\ ~NearEnd(p, end) ->
              [http_mime_parser_on_partial_end(DataUpTo(p, ValueEnd(p, end)))
                 EXCEPT !.pos = end, !.in_obj = FALSE, !.first_run = FALSE]

-----------------------------------------------------------------------------
(* The headers of the part at `start`: where they end, and what they say.  *)
AddHeader(part, text) ==
    LET says == HeaderLine[text] IN
    IF says.name # "" THEN [part EXCEPT !.name = says.name, !.file = says.file]
    ELSE IF says.mime # "" THEN [part EXCEPT !.mime = says.mime] ELSE part
RECURSIVE Headers(_, _, _, _)
Headers(p, start, part, count) ==
    LET end == memchr(p.buf, start, Len(p.buf), LF) IN
    IF start + 4 >= StopOf(p) \/ At(p.buf, start) = LF \/ At(p.buf, start + 1) = LF
      THEN [start |-> start, part |-> part, result |-> "ok"]
    ELSE IF end = 0
      THEN [start |-> start, part |-> part, result |-> IF p.first_run THEN "error" ELSE "end"]
    ELSE IF count >= HEADER_LIMIT
      THEN [start |-> start, part |-> part, result |-> "error"]
    ELSE Headers(p, end + 1, AddHeader(part, p.buf[start]), count + 1)

(* The part whose delimiter is at pos, or the end of the form.             *)
FormEnds(p) == Has(p.buf, p.pos + Len(Delimiter), <<"-", "-">>)
DoneForm(p) ==
    LET pos == p.pos + 3 + Len(Delimiter)
        after == IF pos > StopOf(p) THEN StopOf(p)
                 ELSE IF At(p.buf, pos) = LF THEN pos + 1 ELSE pos
    IN [p EXCEPT !.pos = after, !.done = TRUE, !.halt = TRUE]
NextPart(p) ==
    LET ValueOf(part, value, end) ==
          IF end # 0 /\ ~NearEnd(p, end)
            THEN [http_mime_parser_on_data(p, part, SubSeq(p.buf, value, ValueEnd(p, end)))
                    EXCEPT !.pos = end, !.first_run = FALSE]
          ELSE IF p.first_run
            THEN ConsumePartial([http_mime_parser_on_partial_start(p, part) EXCEPT !.in_obj = TRUE, !.pos = value])
          ELSE HaltForm(p)
        From(part, value) == ValueOf(part, value, NextLine(p, value))
        Named(h, blank) ==
          CASE h.result = "error" -> FormError(p)
            [] h.result = "end" -> HaltForm(p)
            [] h.result = "ok" /\ h.part.name = "" ->
                 IF h.start + 4 >= StopOf(p) THEN HaltForm(p) ELSE FormError(p)
            [] h.result = "ok" /\ h.part.name # "" -> From(h.part, IF At(p.buf, blank) = LF THEN blank + 1 ELSE blank)
        After(h) == Named(h, h.start + 1)
        line == p.pos + 1 + Len(Delimiter)
    IN After(Headers(p, IF At(p.buf, line) = LF THEN line + 1 ELSE line, NoPart, 0))

RECURSIVE Parts(_)
Parts(p) == IF p.halt \/ p.pos >= StopOf(p) THEN p
            ELSE Parts(IF FormEnds(p) THEN DoneForm(p) ELSE NextPart(p))

http_mime_parse(p) ==
    IF p.buf = <<>> THEN p
    ELSE IF ~p.in_obj /\ (Len(p.buf) < 2 + Len(Delimiter) \/ ~Has(p.buf, 1, Delimiter)) THEN FormError(p)
    ELSE Parts(IF p.in_obj THEN ConsumePartial(p) ELSE p)

(* http_parse_multipart: one turn of its loop reads the window that begins *)
(* where the last one was left.                                            *)
fiobj_data_pread(p) == SubSeq(p.body, p.at + 1, Min({p.at + p.window, Len(p.body)}))
FormRuns(p) == ~p.done /\ ~p.error /\ p.at < Len(p.body)
http_parse_multipart(p) ==
    LET Left(q) == [q EXCEPT !.at = @ + q.pos - 1, !.buf = <<>>, !.pos = 1]
    IN Left(http_mime_parse([p EXCEPT !.buf = fiobj_data_pread(p), !.pos = 1,
                                      !.halt = FALSE, !.first_run = TRUE]))

-----------------------------------------------------------------------------
(* A form as a client writes it.                                           *)
TextOf(name, file, mime) ==
    CHOOSE t \in DOMAIN HeaderLine : HeaderLine[t] = [name |-> name, file |-> file, mime |-> mime]
WrittenPart(part) ==
    Delimiter \o EOL \o <<TextOf(part.name, part.file, "")>> \o EOL
      \o (IF part.mime = "" THEN <<>> ELSE <<TextOf("", "", part.mime)>> \o EOL)
      \o EOL \o part.value \o EOL
WrittenForm(parts) ==
    FlattenSeq([i \in DOMAIN parts |-> WrittenPart(parts[i])]) \o Delimiter \o <<"-", "-">> \o EOL
=============================================================================
