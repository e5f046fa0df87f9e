------------------------------ MODULE Allocator ------------------------------
(***************************************************************************)
(* The memory allocator of fio.c: threads cut slices off the block of an   *)
(* arena they lock; a block goes back to the pool when its last slice is   *)
(* freed, by any thread and without the arena's lock, and blocks that were *)
(* mapped together go back to the system when the last of them does.       *)
(* Memory is counted in slices (16 bytes) and pages.                       *)
(***************************************************************************)
EXTENDS Integers, FiniteSets, SequencesExt

CONSTANTS
    Pthread, Arena,
    Mapping,                           \* places where the system may map blocks
    FIO_MEMORY_BLOCKS_PER_ALLOCATION,
    FIO_MEMORY_BLOCK_SLICES, FIO_MEMORY_BLOCK_START_POS,
    Sizes,                             \* sizes asked for, in slices
    FIO_MEMORY_BLOCK_ALLOC_LIMIT,      \* from this size on memory comes from the system
    Slots,                             \* the application's pointers
    NULL,
    Faults                             \* what else may happen (README 5), for separate runs

FIO_MEMORY_MAX_SLICES_PER_BLOCK == FIO_MEMORY_BLOCK_SLICES - FIO_MEMORY_BLOCK_START_POS
MemBlock == Mapping \X (0..(FIO_MEMORY_BLOCKS_PER_ALLOCATION - 1))
Root(b) == <<b[1], 0>>
Unit == FIO_MEMORY_BLOCK_START_POS..(FIO_MEMORY_BLOCK_SLICES - 1)
Zero == [u \in Unit |-> 0]

VARIABLES
    mapped,    \* the places that are mapped
    head,      \* each block's header: [ref, pos, root_ref]
    mem,       \* ... and its slices: 0, or the pointer whose owner wrote it
    pool,      \* memory.available
    arena,     \* each arena's block
    lock,      \* ... and the thread that locked it
    last,      \* arena_last_used of each thread
    live,      \* what each of the application's pointers points to
    big,       \* pages that belong to pointers: [size, pages] as in the header and as mapped
    pages,     \* pages that are mapped and that no header counts
    th,        \* each thread's call
    good       \* every answer so far was what was promised

vars == <<mapped, head, mem, pool, arena, lock, last, live, big, pages, th, good>>

NoHead == [ref |-> 0, pos |-> 0, root_ref |-> 0]
Idle == [pc |-> "idle", n |-> 0, blk |-> NULL, then |-> "idle", slot |-> 0, old |-> NULL]

(* fio_mem_init: the block it asks for is freed at once, so nothing stays  *)
fio_mem_init ==
    /\ mapped = {}
    /\ head = [b \in MemBlock |-> NoHead]
    /\ mem = [b \in MemBlock |-> Zero]
    /\ pool = <<>>
    /\ arena = [a \in Arena |-> NULL]
    /\ lock = [a \in Arena |-> NULL]
    /\ last = [t \in Pthread |-> NULL]
    /\ live = [s \in Slots |-> NULL]
    /\ big = [s \in Slots |-> NULL]
    /\ pages = 0
    /\ th = [t \in Pthread |-> Idle]
    /\ good = TRUE
Init == fio_mem_init

Goes(t, pc) == th' = [th EXCEPT ![t].pc = pc]
Mine(t) == last[t]
Cuts(b, at, n) == {u \in Unit : u >= at /\ u < at + n}
Held(s) == \E t \in Pthread : th[t].pc # "idle" /\ th[t].slot = s

-----------------------------------------------------------------------------
(* Arenas                                                                  *)

(* the one used last if it is free; after a failed try any other that is   *)
arena_lock(t, a) ==
    /\ lock[a] = NULL
    /\ last[t] # NULL /\ lock[last[t]] = NULL => a = last[t]

(* where block_slice goes: the arena's block is missing, has no room, or   *)
(* is cut; only the thread that holds the arena's lock reads or moves pos  *)
block_slice(a, n) ==
    LET b == arena[a] IN
    CASE b = NULL -> [Idle EXCEPT !.pc = "new"]
      [] b # NULL /\ head[b].pos + n > FIO_MEMORY_MAX_SLICES_PER_BLOCK ->
           [Idle EXCEPT !.pc = "drop", !.blk = b, !.then = "new"]
      [] OTHER -> [Idle EXCEPT !.pc = "cut"]

arena_enter(t, n, slot, old) ==
    \E a \in Arena :
      /\ arena_lock(t, a)
      /\ lock' = [lock EXCEPT ![a] = t] /\ last' = [last EXCEPT ![t] = a]
      /\ th' = [th EXCEPT ![t] = [block_slice(a, n) EXCEPT !.n = n, !.slot = slot, !.old = old]]

(* fio_malloc of less than the limit, and fio_calloc                       *)
fio_malloc(t) ==
    /\ th[t].pc = "idle"
    /\ \E n \in Sizes, s \in Slots :
         /\ n < FIO_MEMORY_BLOCK_ALLOC_LIMIT /\ live[s] = NULL /\ big[s] = NULL /\ ~Held(s)
         /\ arena_enter(t, n, s, NULL)
    /\ UNCHANGED <<mapped, head, mem, pool, arena, live, big, pages, good>>

-----------------------------------------------------------------------------
(* block_slice, under the arena's lock                                     *)

(* Mutant: a block taken from the pool is not counted by its mapping.      *)
block_init_Uncounted(b) == [head EXCEPT ![b].ref = 1, ![b].pos = FIO_MEMORY_BLOCK_START_POS]
block_init(b) == [head EXCEPT ![b].ref = 1, ![b].pos = FIO_MEMORY_BLOCK_START_POS, ![Root(b)].root_ref = @ + 1]
block_init_root(c) ==
    [b \in MemBlock |-> IF b[1] = c THEN [ref |-> 1, pos |-> FIO_MEMORY_BLOCK_START_POS, root_ref |-> 1] ELSE head[b]]

(* memory.lock is held from the first line to the last                     *)
block_new(t) ==
    /\ th[t].pc = "new"
    /\ \/ /\ pool # <<>>
          /\ pool' = Front(pool) /\ head' = block_init(Last(pool))
          /\ arena' = [arena EXCEPT ![Mine(t)] = Last(pool)]
          /\ Goes(t, "cut") /\ UNCHANGED <<mapped, mem>>
       \/ \E c \in Mapping \ mapped :
            /\ pool = <<>>
            /\ mapped' = mapped \union {c} /\ head' = block_init_root(c)
            /\ mem' = [b \in MemBlock |-> IF b[1] = c THEN Zero ELSE mem[b]]
            /\ pool' = [i \in 1..(FIO_MEMORY_BLOCKS_PER_ALLOCATION - 1) |-> <<c, i>>]
            /\ arena' = [arena EXCEPT ![Mine(t)] = <<c, 0>>]
            /\ Goes(t, "cut")
       \/ /\ pool = <<>> /\ Mapping = mapped      \* no memory
          /\ arena' = [arena EXCEPT ![Mine(t)] = NULL]
          /\ Goes(t, "exit") /\ UNCHANGED <<mapped, head, mem, pool>>
    /\ UNCHANGED <<lock, last, live, big, pages, good>>

(* the slice is the caller's from here on *)
block_cut(t) ==
    LET b == arena[Mine(t)]
        end == head[b].pos + th[t].n
        full == end >= FIO_MEMORY_MAX_SLICES_PER_BLOCK
    IN
    /\ th[t].pc = "cut"
    /\ head' = [head EXCEPT ![b].ref = @ + 1, ![b].pos = end]
    /\ live' = [live EXCEPT ![th[t].slot] = [blk |-> b, at |-> head[b].pos, n |-> th[t].n]]
    /\ th' = IF full THEN [th EXCEPT ![t].pc = "drop", ![t].blk = b, ![t].then = "exit"] ELSE [th EXCEPT ![t].pc = "exit"]
    /\ UNCHANGED <<mapped, mem, pool, arena, lock, last, big, pages, good>>

(* an arena lets go of a block that is full; arena_exit, and what the      *)
(* caller finds: zeroes from fio_malloc, the old  *)
(* content from fio_realloc, which then frees it; the caller writes        *)
arena_exit(t) ==
    LET s == th[t].slot got == live[s] old == th[t].old
        kept == IF old = NULL THEN 0 ELSE IF old.n < got.n THEN old.n ELSE got.n
    IN
    /\ th[t].pc = "exit"
    /\ lock' = [lock EXCEPT ![Mine(t)] = NULL]
    /\ arena' = [arena EXCEPT ![Mine(t)] = IF @ # NULL /\ head[@].pos >= FIO_MEMORY_MAX_SLICES_PER_BLOCK THEN NULL ELSE @]
    /\ IF got = old \/ got = NULL    \* no memory: a reallocation leaves the old
       THEN th' = [th EXCEPT ![t] = Idle] /\ UNCHANGED <<mem, good>>
       ELSE /\ good' = /\ good
                       /\ old = NULL => \A u \in Cuts(got.blk, got.at, got.n) : mem[got.blk][u] = 0
                       /\ \A k \in 0..(kept - 1) : mem[old.blk][old.at + k] = s
            /\ mem' = [mem EXCEPT ![got.blk] = [u \in Unit |-> IF u \in Cuts(got.blk, got.at, got.n) THEN s ELSE @[u]]]
            /\ th' = [th EXCEPT ![t] = IF old = NULL THEN Idle
                                       ELSE [Idle EXCEPT !.pc = "drop", !.blk = old.blk, !.slot = s]]
    /\ UNCHANGED <<mapped, head, pool, last, live, big, pages>>

-----------------------------------------------------------------------------
(* block_free                                                              *)

Returns(t) == IF th[t].then = "idle" THEN Idle ELSE [th[t] EXCEPT !.pc = th[t].then, !.blk = NULL, !.then = "idle"]

block_free(t) ==
    LET b == th[t].blk ref == (head[b].ref - 1) % 65536 IN
    /\ th[t].pc = "drop"
    /\ head' = [head EXCEPT ![b].ref = ref]
    /\ th' = [th EXCEPT ![t] = IF ref # 0 THEN Returns(t) ELSE [@ EXCEPT !.pc = "push"]]
    /\ UNCHANGED <<mapped, mem, pool, arena, lock, last, live, big, pages, good>>

(* Mutant: the blocks of a mapping stay in the pool when the last is freed. *)
block_push_Keeps(t) ==
    LET b == th[t].blk IN
    /\ th[t].pc = "push"
    /\ mem' = [mem EXCEPT ![b] = Zero]
    /\ head' = [head EXCEPT ![Root(b)].root_ref = @ - 1]
    /\ pool' = Append(pool, b) /\ th' = [th EXCEPT ![t] = Returns(t)]
    /\ UNCHANGED <<mapped, arena, lock, last, live, big, pages, good>>
(* the block is wiped; under memory.lock it becomes available, and when it *)
(* was the last in use its whole mapping leaves the pool                   *)
block_push(t) ==
    LET b == th[t].blk left == head[Root(b)].root_ref - 1 IN
    /\ th[t].pc = "push"
    /\ mem' = [mem EXCEPT ![b] = Zero]
    /\ head' = [head EXCEPT ![Root(b)].root_ref = left]
    /\ IF left # 0 THEN pool' = Append(pool, b) /\ th' = [th EXCEPT ![t] = Returns(t)]
       ELSE pool' = SelectSeq(pool, LAMBDA p : p[1] # b[1]) /\ Goes(t, "unmap")
    /\ UNCHANGED <<mapped, arena, lock, last, live, big, pages, good>>

block_unmap(t) ==
    /\ th[t].pc = "unmap"
    /\ mapped' = mapped \ {th[t].blk[1]}
    /\ head' = [b \in MemBlock |-> IF b[1] = th[t].blk[1] THEN NoHead ELSE head[b]]
    /\ th' = [th EXCEPT ![t] = Returns(t)]
    /\ UNCHANGED <<mem, pool, arena, lock, last, live, big, pages, good>>

(* fio_free of a slice *)
fio_free(t) ==
    /\ th[t].pc = "idle"
    /\ \E s \in Slots :
         /\ live[s] # NULL /\ ~Held(s)
         /\ good' = (good /\ \A u \in Cuts(live[s].blk, live[s].at, live[s].n) : mem[live[s].blk][u] = s)
         /\ th' = [th EXCEPT ![t] = [Idle EXCEPT !.pc = "drop", !.blk = live[s].blk, !.slot = s]]
         /\ live' = [live EXCEPT ![s] = NULL]
    /\ UNCHANGED <<mapped, head, mem, pool, arena, lock, last, big, pages>>

(* fio_realloc2 of a slice: to a slice, or to pages of the system          *)
fio_realloc(t) ==
    /\ th[t].pc = "idle"
    /\ \E s \in Slots, n \in Sizes :
         /\ live[s] # NULL /\ ~Held(s)
         /\ IF n < FIO_MEMORY_BLOCK_ALLOC_LIMIT
            THEN arena_enter(t, n, s, live[s]) /\ UNCHANGED <<live, big>>
            ELSE /\ big' = [big EXCEPT ![s] = [size |-> n, pages |-> n]] /\ live' = [live EXCEPT ![s] = NULL]
                 /\ th' = [th EXCEPT ![t] = [Idle EXCEPT !.pc = "drop", !.blk = live[s].blk, !.slot = s]]
                 /\ UNCHANGED <<lock, last>>
    /\ UNCHANGED <<mapped, head, mem, pool, arena, pages, good>>

-----------------------------------------------------------------------------
(* Pages of the system                                                     *)

big_alloc(t) ==
    /\ th[t].pc = "idle"
    /\ \E s \in Slots, n \in Sizes :
         /\ n >= FIO_MEMORY_BLOCK_ALLOC_LIMIT /\ live[s] = NULL /\ big[s] = NULL /\ ~Held(s)
         /\ big' = [big EXCEPT ![s] = [size |-> n, pages |-> n]]
    /\ UNCHANGED <<mapped, head, mem, pool, arena, lock, last, live, pages, th, good>>

(* munmap of as many pages as the header says *)
big_free(t) ==
    /\ th[t].pc = "idle"
    /\ \E s \in Slots :
         /\ big[s] # NULL /\ ~Held(s)
         /\ pages' = pages + (big[s].pages - big[s].size)
         /\ big' = [big EXCEPT ![s] = NULL]
    /\ UNCHANGED <<mapped, head, mem, pool, arena, lock, last, live, th, good>>

(* sys_realloc: more pages are mapped; fewer are unmapped, unless it is    *)
(* only one.  It stays big, whatever the size                              *)
sys_realloc(b, n) ==
    [size |-> n, pages |-> IF n > b.size THEN b.pages + n - b.size
                           ELSE IF n + 1 < b.size THEN b.pages - (b.size - n) ELSE b.pages]
big_realloc(t) ==
    /\ th[t].pc = "idle"
    /\ \E s \in Slots, n \in Sizes :
         /\ big[s] # NULL /\ ~Held(s)
         /\ n + 1 = big[s].size => "page" \in Faults
         /\ big' = [big EXCEPT ![s] = sys_realloc(@, n)]
    /\ UNCHANGED <<mapped, head, mem, pool, arena, lock, last, live, pages, th, good>>

-----------------------------------------------------------------------------
(* fio_mem_destroy, at the exit, by the only thread left                   *)
fio_mem_destroy(t) ==
    /\ th[t].pc = "idle" /\ \A u \in Pthread : th[u].pc = "idle"
    /\ \A s \in Slots : live[s] = NULL /\ big[s] = NULL
    /\ \E a \in Arena :
         /\ arena[a] # NULL
         /\ th' = [th EXCEPT ![t] = [Idle EXCEPT !.pc = "drop", !.blk = arena[a]]]
         /\ arena' = [arena EXCEPT ![a] = NULL]
    /\ UNCHANGED <<mapped, head, mem, pool, lock, last, live, big, pages, good>>

Step(t) ==
    \/ fio_malloc(t) \/ block_new(t) \/ block_cut(t) \/ arena_exit(t)
    \/ block_free(t) \/ block_push(t) \/ block_unmap(t)
    \/ fio_free(t) \/ fio_realloc(t) \/ big_alloc(t) \/ big_free(t) \/ big_realloc(t) \/ fio_mem_destroy(t)
Next == \E t \in Pthread : Step(t)
Spec == Init /\ [][Next]_vars

(* fio_malloc_after_fork, in the child: it has the thread that forked and  *)
(* the others' memory                                                      *)
fio_malloc_after_fork(t) ==
    /\ th[t].pc = "idle"
    /\ th' = [u \in Pthread |-> Idle]
    /\ lock' = [a \in Arena |-> NULL] /\ last' = [u \in Pthread |-> NULL]
    /\ live' = [s \in Slots |-> IF Held(s) THEN NULL ELSE live[s]]
    /\ UNCHANGED <<mapped, head, mem, pool, arena, big, pages, good>>
ForkSpec == Init /\ [][Next \/ \E t \in Pthread : fio_malloc_after_fork(t)]_vars

-----------------------------------------------------------------------------
(* What fio_malloc hands out is zeroed and no one else's: its blocks are   *)
(* mapped and not in the pool, no two pointers share a slice, no thread    *)
(* wipes or unmaps it, and what was written stays until it is freed and is *)
(* copied by fio_realloc (fio.c, block_slice and block_free).              *)
AllocationsApart ==
    /\ good
    /\ \A s \in Slots : live[s] # NULL =>
         /\ live[s].blk[1] \in mapped
         /\ live[s].blk \notin Range(pool)
         /\ ~Held(s) => \A u \in Cuts(live[s].blk, live[s].at, live[s].n) : mem[live[s].blk][u] = s

(* When nothing is allocated, no arena has a block and no call is under    *)
(* way, all memory has gone back to the system (fio.c, root_ref).          *)
AllReturned ==
    (/\ \A s \in Slots : live[s] = NULL /\ big[s] = NULL
     /\ \A a \in Arena : arena[a] = NULL
     /\ \A t \in Pthread : th[t].pc = "idle") => mapped = {} /\ pool = <<>> /\ pages = 0
=============================================================================
