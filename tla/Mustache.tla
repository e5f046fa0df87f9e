------------------------------ MODULE Mustache ------------------------------
(***************************************************************************)
(* The mustache template engine: mustache_load turns a template and its    *)
(* partials into a list of instructions, mustache_build runs them over the *)
(* data of a Ruby program.                                                 *)
(*                                                                         *)
(* A template is a sequence of tokens <<kind, name, del, new>>: a          *)
(* character ("ch"), or a tag with its kind, its name (dotted names in     *)
(* parts), the pair of delimiters around it and, for "=", the new pair.    *)
(***************************************************************************)
EXTENDS Integers, Sequences, SequencesExt, FiniteSetsExt

CONSTANTS
    Files,                    \* the template files: <<folder, name>> to tokens
    MUSTACHE_NESTING_LIMIT

Ch(c) == <<"ch", <<c>>, 0, 0>>
NewLine == Ch("\n")
IsBlank(t) == t \in {Ch(" "), Ch("\t")}
Alphanumeric == {"x", "y", "z", "1"}

(* Data: the value's type, text, entries (key and value) and elements.     *)
Data(t, s, h, a) == [t |-> t, s |-> s, h |-> h, a |-> a]
Qnil == Data("nil", <<>>, <<>>, <<>>)
Qfalse == Data("false", <<>>, <<>>, <<>>)

Inst(op, text, name, end) == [op |-> op, text |-> text, name |-> name, end |-> end, goto |-> 0]

-----------------------------------------------------------------------------
(* Loading.                                                                *)
Fresh == [insts |-> <<>>, segs |-> <<>>, stack |-> <<>>, padding |-> 0, err |-> "ok"]
Fail(l, err) == [l EXCEPT !.err = err]
Top(l) == Last(l.stack)
SetTop(l, f) == [l EXCEPT !.stack = Append(Front(@), f)]

instruction_push(l, inst) == [l EXCEPT !.insts = Append(@, inst)]

(* A padding instruction after each new line.                              *)
RECURSIVE push_text_instruction(_, _)
push_text_instruction(l, text) ==
    LET nl == SelectInSeq(text, LAMBDA t : t = NewLine) IN
    IF text = <<>> THEN l
    ELSE IF nl = 0 THEN instruction_push(l, Inst("TEXT", text, <<>>, 0))
    ELSE LET lined == instruction_push(l, Inst("TEXT", SubSeq(text, 1, nl), <<>>, 0)) IN
         push_text_instruction(instruction_push(lined, Inst("PADDING_WRITE", <<>>, <<>>, 0)),
                               SubSeq(text, nl + 1, Len(text)))

(* The stack's frame 0 is not used: the limit counts it.                   *)
load_data(l, path, toks) ==
    LET m == instruction_push([l EXCEPT !.segs = Append(@, [path |-> path, toks |-> toks,
                                                             inst_start |-> Len(l.insts) + 1])],
                              Inst("START", <<>>, <<>>, 0))
    IN IF Len(l.stack) + 1 >= MUSTACHE_NESTING_LIMIT THEN Fail(m, "too deep")
       ELSE [m EXCEPT !.stack = Append(@, [seg |-> Len(m.segs), pos |-> 1, del |-> 1, open |-> 0])]

(* The header of a loaded template holds the position of the next one from *)
(* the start of the data, and the search adds it to where it stands: no    *)
(* more than the first two are found.                                      *)
file_is_loaded(l, path) ==
    LET at == {i \in 1..Len(l.segs) : i <= 2 /\ l.segs[i].path = path} IN
    IF at = {} THEN 0 ELSE l.segs[Min(at)].inst_start

(* The folders of the templates that are being read, innermost first, down *)
(* to one in the local folder.                                             *)
Folders(l) ==
    LET all == Reverse([i \in 1..Len(l.stack) |-> l.segs[l.stack[i].seg].path[1]])
        local == SelectInSeq(all, LAMBDA f : f = "")
    IN IF l.stack = <<>> THEN <<"">> ELSE IF local = 0 THEN all ELSE SubSeq(all, 1, local)

(* The result tells whether a template was opened.                         *)
GoTo(l, i) == instruction_push(l, [Inst("GOTO", <<>>, <<>>, Len(l.insts) + 1) EXCEPT !.goto = i])
LoadPath(l, path, known) ==
    IF Files[path] = <<>> THEN [l |-> l, opened |-> FALSE]
    ELSE IF known # 0 THEN [l |-> GoTo(l, known), opened |-> FALSE]
    ELSE [l |-> load_data(l, path, Files[path]), opened |-> TRUE]
LoadFound(l, name, folders) ==
    LET found == {i \in DOMAIN folders : <<folders[i], name>> \in DOMAIN Files} IN
    IF found # {} THEN LoadPath(l, <<folders[Min(found)], name>>, file_is_loaded(l, <<folders[Min(found)], name>>))
    \* a root template that is not a file may still name itself
    ELSE IF l.segs # <<>> /\ l.segs[1].path = <<"", name>> THEN [l |-> GoTo(l, 1), opened |-> FALSE]
    ELSE [l |-> Fail(l, "not found"), opened |-> FALSE]
load_file(l, name) ==
    IF name = "" THEN [l |-> Fail(l, "name too short"), opened |-> FALSE] ELSE LoadFound(l, name, Folders(l))

(* A tag alone on its line takes the line with it.                         *)
StandAlone(toks, from, k) ==
    LET pads == {p \in (from - 1)..(k - 1) : \A q \in (p + 1)..(k - 1) : IsBlank(toks[q])}
        pad == Min(pads)
        begins == pad = 0 \/ toks[pad] = NewLine
    IN IF (k = Len(toks) \/ toks[k + 1] = NewLine) /\ begins THEN k - 1 - pad ELSE -1
stand_alone_adjust(l, alone) ==
    LET last == Last(l.insts)
        m == SetTop(l, [Top(l) EXCEPT !.pos = @ + 1])
    IN IF alone < 0 THEN l
       ELSE IF last.op # "TEXT" THEN m
       ELSE IF Len(last.text) <= alone THEN [m EXCEPT !.insts = Front(@)]
       ELSE [m EXCEPT !.insts[Len(l.insts)].text = SubSeq(@, 1, Len(@) - alone)]

section_start(l, tag) ==
    LET f == Top(l) IN
    IF f.open + 1 >= MUSTACHE_NESTING_LIMIT THEN Fail(l, "too deep")
    ELSE instruction_push(SetTop(l, [f EXCEPT !.open = @ + 1]),
                          Inst(IF tag[1] = "#" THEN "START" ELSE "START_INV", <<>>, tag[2], 0))

(* The last section start that has no end yet.                             *)
Opens(i) == i.op \in {"START", "START_INV"}
Unclosed(insts) ==
    LET depth(p) == Cardinality({q \in p..Len(insts) : Opens(insts[q])})
                      - Cardinality({q \in p..Len(insts) : insts[q].op = "END"})
    IN Max({0} \cup {p \in 1..Len(insts) : Opens(insts[p]) /\ depth(p) = 1})
section_end(l, tag) ==
    LET f == Top(l)
        pos == Unclosed(l.insts)
    IN IF f.open = 0 \/ pos = 0 THEN Fail(l, "closure mismatch")
       ELSE IF l.insts[pos].name # tag[2] THEN Fail(l, "closure mismatch")
       ELSE instruction_push(SetTop([l EXCEPT !.insts[pos].end = Len(l.insts) + 1],
                                    [f EXCEPT !.open = @ - 1]),
                             Inst("END", <<>>, tag[2], Len(l.insts) + 1))

partial(l0, tag, alone, pad) ==
    LET padded == alone > 0
        l == IF padded THEN [instruction_push(l0, Inst("PADDING_PUSH", pad, <<>>, l0.padding))
                               EXCEPT !.padding = Len(l0.insts) + 1]
             ELSE l0
        Then(r) == IF r.l.err # "ok" \/ ~padded THEN r.l
                   ELSE instruction_push(r.l, IF r.opened THEN Inst("TEXT", pad, <<>>, 0)
                                              ELSE Inst("PADDING_POP", <<>>, <<>>, 0))
    IN Then(load_file(l, tag[2][1]))

Adjusted(l, tag, alone, pad) ==
    CASE tag[1] = "!" -> l
      [] tag[1] = "=" -> SetTop(l, [Top(l) EXCEPT !.del = tag[4]])
      [] tag[1] \in {"#", "^"} -> section_start(l, tag)
      [] tag[1] = "/" -> section_end(l, tag)
      [] tag[1] = ">" -> partial(l, tag, alone, pad)
TagAt(l, toks, k, alone) ==
    LET tag == toks[k] IN
    IF tag[1] \in {"{", "&"} THEN instruction_push(l, Inst("ARG_UNESCAPED", <<>>, tag[2], 0))
    ELSE IF tag[1] = "" THEN instruction_push(l, Inst("ARG", <<>>, tag[2], 0))
    ELSE Adjusted(stand_alone_adjust(l, alone), tag, alone, SubSeq(toks, k - alone, k - 1))
ParseTag(l0, toks, from, k) ==
    TagAt(SetTop(l0, [Top(l0) EXCEPT !.pos = k + 1]), toks, k, StandAlone(toks, from, k))

(* The padding after the template's last line is written after its end,    *)
(* when the padding of the partial no longer counts.                       *)
CloseTemplate_Inside(l) ==   \* mutant
    LET f == Top(l)
        start == l.segs[f.seg].inst_start
        m == instruction_push([l EXCEPT !.insts[start].end = Len(l.insts) + 1], Inst("END", <<>>, <<>>, 0))
        ends == l.padding # 0 /\ l.padding + 1 = start
        popped == IF ends THEN instruction_push([m EXCEPT !.padding = m.insts[m.padding].end],
                                                Inst("PADDING_POP", <<>>, <<>>, 0))
                  ELSE m
    IN [popped EXCEPT !.stack = Front(@)]
CloseTemplate(l) ==
    LET f == Top(l)
        start == l.segs[f.seg].inst_start
        tail == Last(l.insts).op = "PADDING_WRITE"
        cut == IF tail THEN [l EXCEPT !.insts = Front(@)] ELSE l
        m == instruction_push([cut EXCEPT !.insts[start].end = Len(cut.insts) + 1], Inst("END", <<>>, <<>>, 0))
        ends == l.padding # 0 /\ l.padding + 1 = start
        popped == IF ends THEN instruction_push([m EXCEPT !.padding = m.insts[m.padding].end],
                                                Inst("PADDING_POP", <<>>, <<>>, 0))
                  ELSE m
        moved == IF tail THEN instruction_push(popped, Inst("PADDING_WRITE", <<>>, <<>>, 0)) ELSE popped
    IN IF f.open # 0 THEN Fail(l, "closure mismatch") ELSE [moved EXCEPT !.stack = Front(@)]

TextUpto(l, f, toks, to) == push_text_instruction(l, SubSeq(toks, f.pos, to))
LoadStep(l, f, toks) ==
    LET tags == {i \in f.pos..Len(toks) : toks[i][1] # "ch" /\ toks[i][3] = f.del} IN
    IF f.pos > Len(toks) THEN CloseTemplate(l)
    ELSE IF tags = {} THEN SetTop(TextUpto(l, f, toks, Len(toks)), [f EXCEPT !.pos = Len(toks) + 1])
    ELSE ParseTag(TextUpto(l, f, toks, Min(tags) - 1), toks, f.pos, Min(tags))
RECURSIVE LoadLoop(_)
LoadLoop(l) ==
    IF l.stack = <<>> \/ l.err # "ok" THEN l ELSE LoadLoop(LoadStep(l, Top(l), l.segs[Top(l).seg].toks))
mustache_load(name, toks) == LoadLoop(load_data(Fresh, <<"", name>>, toks))

-----------------------------------------------------------------------------
(* Looking a name up in the data.                                          *)
find_obj_absolute(o, name) ==
    LET at == {i \in DOMAIN o.h : o.h[i][1] = name} IN
    IF o.t # "hash" THEN IF name = <<".">> THEN o ELSE Qnil
    ELSE IF at = {} THEN Qnil ELSE o.h[Min(at)][2]
Or(o, other) == IF o # Qnil THEN o ELSE other

(* mustache_section_parent: the nearest frame with other data.             *)
section_parent(stack, i) == Max({0} \cup {j \in 1..(i - 1) : stack[j].sec # stack[i].sec})
RECURSIVE find_obj_tree(_, _, _)
find_obj_tree(stack, i, name) ==
    IF i = 0 THEN Qnil
    ELSE Or(find_obj_absolute(stack[i].sec, name), find_obj_tree(stack, section_parent(stack, i), name))

RECURSIVE FindWithin(_, _)
FindWithin(o, name) ==
    Or(find_obj_absolute(o, name),
       IF Len(name) = 1 \/ find_obj_absolute(o, <<name[1]>>) = Qnil THEN Qnil
       ELSE FindWithin(find_obj_absolute(o, <<name[1]>>), Tail(name)))
find_obj(stack, name) ==
    Or(find_obj_tree(stack, Len(stack), name),
       IF Len(name) = 1 THEN Qnil ELSE FindWithin(find_obj_tree(stack, Len(stack), <<name[1]>>), Tail(name)))

-----------------------------------------------------------------------------
(* Building.                                                               *)
RECURSIVE PaddingText(_, _)
PaddingText(insts, p) == IF p = 0 THEN <<>> ELSE insts[p].text \o PaddingText(insts, insts[p].end)

Escaped(c) == IF c \in Alphanumeric THEN Ch(c) ELSE <<"esc", <<c>>, 0, 0>>
write_text(b, s, escape) ==
    LET pad == PaddingText(b.insts, b.padding)
        written(c) == IF c = "\n" /\ (b.padding # 0 \/ ~escape) THEN <<NewLine>> \o pad
                      ELSE <<IF escape THEN Escaped(c) ELSE Ch(c)>>
    IN FlattenSeq([i \in DOMAIN s |-> written(s[i])])

ArgText(b, o, escape) ==
    IF o.t \in {"nil", "false"} THEN <<>>
    ELSE IF o.t = "true" THEN [i \in 1..2 |-> Ch("true")]   \* then to_s
    ELSE write_text(b, o.s, escape)
on_arg(b, name, escape) == [b EXCEPT !.out = @ \o ArgText(b, find_obj(b.stack, name), escape)]

(* How often the section runs; a lambda writes its own text instead.       *)
SectionOf(b, o, calls) ==
    [count |-> IF o.t \in {"nil", "false"} \/ calls THEN 0 ELSE IF o.t = "array" THEN Len(o.a) ELSE 1,
     text |-> IF calls THEN write_text(b, o.s, FALSE) ELSE <<>>]
TestOf(b, o, callable) == SectionOf(b, o, o.t = "lambda" /\ callable)
on_section_test(b, name, callable) == TestOf(b, find_obj(b.stack, name), callable)
StartOf(stack, o, index) ==
    IF o.t = "array" THEN IF index < Len(o.a) THEN o.a[index + 1] ELSE Qnil
    ELSE IF o.t = "hash" THEN o ELSE Last(stack).sec
on_section_start(stack, name, index) == StartOf(stack, find_obj(stack, name), index)

(* MUSTACHE_SECTION_END: once more, or on to the end.                      *)
Again(b, fresh, name, index) ==
    [b EXCEPT !.pos = Last(fresh).start,
              !.stack = IF name = <<>> THEN fresh
                        ELSE Append(Front(fresh), [Last(fresh) EXCEPT !.sec = on_section_start(fresh, name, index)])]
Repeat(b) ==
    LET f == Last(b.stack) IN
    IF f.index < f.count
      THEN Again(b, Append(Front(b.stack), [f EXCEPT !.sec = b.stack[Len(b.stack) - 1].sec, !.index = @ + 1]),
                 b.insts[f.start].name, f.index)
      ELSE [b EXCEPT !.pos = f.end, !.stack = Front(@)]
Counted(c, inverted, test) ==
    [c EXCEPT !.stack[Len(c.stack)].count = IF inverted THEN IF test.count = 0 THEN 1 ELSE 0 ELSE test.count,
              !.out = @ \o test.text]
Entered(c, i) ==
    Repeat(IF i.name = <<>> THEN c ELSE Counted(c, i.op = "START_INV", on_section_test(c, i.name, i.op = "START")))
Enter(b) ==
    LET i == b.insts[b.pos]
        f == [sec |-> Last(b.stack).sec, start |-> IF i.op = "GOTO" THEN i.goto ELSE b.pos,
              end |-> i.end, index |-> 0, count |-> 1]
    IN IF Len(b.stack) >= MUSTACHE_NESTING_LIMIT THEN [b EXCEPT !.err = "too deep"]
       ELSE Entered([b EXCEPT !.stack = Append(@, f)], i)

Perform(b) ==
    LET i == b.insts[b.pos] IN
    CASE i.op = "TEXT" -> [b EXCEPT !.out = @ \o i.text]
      [] i.op = "ARG" -> on_arg(b, i.name, TRUE)
      [] i.op = "ARG_UNESCAPED" -> on_arg(b, i.name, FALSE)
      [] i.op \in {"START", "START_INV", "GOTO"} -> Enter(b)
      [] i.op = "END" -> Repeat(b)
      [] i.op = "PADDING_PUSH" -> [b EXCEPT !.padding = b.pos]
      [] i.op = "PADDING_POP" -> [b EXCEPT !.padding = b.insts[b.padding].end]
      [] i.op = "PADDING_WRITE" -> [b EXCEPT !.out = @ \o PaddingText(b.insts, b.padding)]
RECURSIVE BuildLoop(_)
BuildLoop(b) ==
    IF b.pos > Len(b.insts) \/ b.err # "ok" THEN b
    ELSE BuildLoop([Perform(b) EXCEPT !.pos = @ + 1])
mustache_build(l, data) ==
    BuildLoop([insts |-> l.insts, pos |-> 1, padding |-> 0, out |-> <<>>, err |-> l.err,
               stack |-> <<[sec |-> data, start |-> 1, end |-> 0, index |-> 0, count |-> 0]>>])

(* Iodine::Mustache.render: what is written, or the error that is raised.  *)
iodine_mustache_render(name, toks, data) ==
    LET Written(b) == [err |-> b.err, out |-> IF b.err = "ok" THEN b.out ELSE <<>>]
    IN Written(mustache_build(mustache_load(name, toks), data))

-----------------------------------------------------------------------------
(* What a mustache template means: a tree of lines, sections and partials, *)
(* how it is written down and what it should render to.                    *)

CONSTANT Trees   \* the tree of each template file

(* A line's parts: text, variable, unescaped, section, inverted section. A *)
(* template's parts: line, section, inverted section, partial, comment.    *)
Node(k, name, text, sub, pad) == [k |-> k, name |-> name, text |-> text, sub |-> sub, pad |-> pad]
Text(s) == Node("text", <<>>, s, <<>>, 0)
Var(name) == Node("var", name, <<>>, <<>>, 0)
Raw(name) == Node("raw", name, <<>>, <<>>, 0)
Sec(name, sub) == Node("sec", name, <<>>, sub, 0)
Inv(name, sub) == Node("inv", name, <<>>, sub, 0)
Line(sub) == Node("line", <<>>, <<>>, sub, 0)
Partial(name, pad) == Node("par", <<name>>, <<>>, <<>>, pad)
Comment == Node("note", <<>>, <<>>, <<>>, 1)

Blanks(n) == [i \in 1..n |-> Ch(" ")]
Chars(s) == [i \in DOMAIN s |-> Ch(s[i])]

-----------------------------------------------------------------------------
(* A template whose tags have the delimiters `del`.                        *)
RECURSIVE InlineToks(_, _)
InlineToks(sub, del) ==
    FlattenSeq([i \in DOMAIN sub |->
      LET n == sub[i]
          tag(k) == <<<<k, n.name, del, 0>>>>
      IN CASE n.k = "text" -> Chars(n.text)
           [] n.k = "var" -> tag("")
           [] n.k = "raw" -> tag("&")
           [] n.k = "sec" -> tag("#") \o InlineToks(n.sub, del) \o tag("/")
           [] n.k = "inv" -> tag("^") \o InlineToks(n.sub, del) \o tag("/")])
RECURSIVE Toks(_, _)
Toks(tree, del) ==
    FlattenSeq([i \in DOMAIN tree |->
      LET n == tree[i]
          tagline(k) == Blanks(n.pad) \o <<<<k, n.name, del, 0>>, NewLine>>
      IN CASE n.k = "line" -> Append(InlineToks(n.sub, del), NewLine)
           [] n.k = "sec" -> tagline("#") \o Toks(n.sub, del) \o tagline("/")
           [] n.k = "inv" -> tagline("^") \o Toks(n.sub, del) \o tagline("/")
           [] n.k = "par" -> tagline(">")
           [] n.k = "note" -> tagline("!")])

-----------------------------------------------------------------------------
Member(o, part) ==
    IF \E i \in DOMAIN o.h : o.h[i][1] = <<part>>
      THEN (CHOOSE e \in Range(o.h) : e[1] = <<part>>)[2] ELSE Qnil
RECURSIVE Lookup(_, _)
Lookup(ctxs, name) ==
    LET here == {i \in DOMAIN ctxs : Member(ctxs[i], name[1]) # Qnil}
        first == Member(ctxs[Max(here)], name[1])
    IN IF name = <<".">> THEN Last(ctxs)
       ELSE IF here = {} THEN Qnil
       ELSE FoldLeft(LAMBDA o, part : Member(o, part), first, Tail(name))

Value(o, escape, pads) ==
    FlattenSeq([i \in DOMAIN o.s |->
      IF o.s[i] = "\n" /\ (pads > 0 \/ ~escape) THEN <<NewLine>> \o Blanks(pads)
      ELSE <<IF escape THEN Escaped(o.s[i]) ELSE Ch(o.s[i])>>])

(* The contexts of each turn of a section.                                 *)
TurnsOf(ctxs, n, o) ==
    LET on == o.t \notin {"nil", "false"} /\ ~(o.t = "array" /\ o.a = <<>>)
    IN IF n.k = "inv" THEN IF on THEN <<>> ELSE <<ctxs>>
       ELSE IF ~on \/ o.t = "lambda" THEN <<>>
       ELSE IF o.t = "array" THEN [i \in DOMAIN o.a |-> Append(ctxs, o.a[i])]
       ELSE IF o.t = "hash" THEN <<Append(ctxs, o)>> ELSE <<ctxs>>
Turns(ctxs, n) == TurnsOf(ctxs, n, Lookup(ctxs, n.name))
Lambda(ctxs, n, pads) ==
    LET o == Lookup(ctxs, n.name) IN
    IF n.k = "sec" /\ o.t = "lambda" THEN Value(o, FALSE, pads) ELSE <<>>

RECURSIVE InlineMeans(_, _, _)
InlineMeans(sub, ctxs, pads) ==
    FlattenSeq([i \in DOMAIN sub |->
      LET n == sub[i] IN
      CASE n.k = "text" -> Chars(n.text)
        [] n.k = "var" -> Value(Lookup(ctxs, n.name), TRUE, pads)
        [] n.k = "raw" -> Value(Lookup(ctxs, n.name), FALSE, pads)
        [] n.k \in {"sec", "inv"} ->
             FoldLeft(LAMBDA out, c : out \o InlineMeans(n.sub, c, pads), Lambda(ctxs, n, pads), Turns(ctxs, n))])
RECURSIVE Means(_, _, _)
Means(tree, ctxs, pads) ==
    FlattenSeq([i \in DOMAIN tree |->
      LET n == tree[i] IN
      CASE n.k = "line" -> Append(Blanks(pads) \o InlineMeans(n.sub, ctxs, pads), NewLine)
        [] n.k \in {"sec", "inv"} ->
             FoldLeft(LAMBDA out, c : out \o Means(n.sub, c, pads), Lambda(ctxs, n, pads), Turns(ctxs, n))
        [] n.k = "par" -> Means(Trees[n.name[1]], ctxs, pads + n.pad)
        [] n.k = "note" -> <<>>])
=============================================================================
