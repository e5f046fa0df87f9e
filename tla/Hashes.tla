-------------------------------- MODULE Hashes --------------------------------
(***************************************************************************)
(* SHA-1 and SHA-2 of fio.c as streams: a message is written in pieces,    *)
(* full blocks are mixed into the digest, the end is padded and carries    *)
(* the length.  The rounds that mix a block are left out: the digest is    *)
(* the sequence of blocks mixed so far, and a byte is its place in the     *)
(* message.                                                                *)
(***************************************************************************)
EXTENDS Integers, SequencesExt

CONSTANTS
    Variants,   \* [hash, block, tail, buffer]: the bytes of a block, of the length at its end, and
                \* of the buffer ("sha1": 64, 8, 64; "sha256": 64, 8, 128; "sha512": 128, 16, 128)
    Pieces,     \* lengths of the pieces that are written
    MaxMessage, \* bounds
    MaxResults

VARIABLES
    variant, s,   \* the hash's state: [digest, buffer, length]
    written,      \* the bytes written so far
    misplaced,    \* history: what was left of a piece went to the wrong place
    result        \* the digests that were asked for: [of |-> bytes written, digest, misplaced]

vars == <<variant, s, written, misplaced, result>>

(* A byte is [of, at]; a digest that was overwritten, and one whose words  *)
(* were turned, hold a block of their own.                                 *)
Byte(of, at) == [of |-> of, at |-> at]
Pad == Byte("80", 0)
None == Byte("00", 0)
Lost == <<Byte("lost", 0)>>
Swapped == <<Byte("swapped", 0)>>
Zeroes(n) == [i \in 1..n |-> None]
LengthOf(v, n) == Append(Zeroes(v.tail - 1), Byte("length", n))
Message(from, n) == [i \in 1..n |-> Byte("message", from + i)]

(* memcpy into the buffer: what does not fit overwrites the digest behind  *)
Copied(st, at, data) ==
    [st EXCEPT !.buffer = [i \in 1..Len(@) |-> IF i > at /\ i <= at + Len(data) THEN data[i - at] ELSE @[i]],
               !.digest = IF at + Len(data) > Len(st.buffer) THEN <<Lost>> ELSE @]
perform_all_rounds(st, block) == [st EXCEPT !.digest = Append(@, block)]

Fresh(v) == [digest |-> <<>>, buffer |-> Zeroes(v.buffer), length |-> 0]

RECURSIVE FullBlocks(_, _, _)
FullBlocks(v, st, data) ==
    IF Len(data) < v.block THEN [st |-> st, data |-> data]
    ELSE FullBlocks(v, perform_all_rounds(st, SubSeq(data, 1, v.block)), SubSeq(data, v.block + 1, Len(data)))

fio_sha1_write(v, st, data) ==
    LET in_buffer == st.length % v.block
        partial == v.block - in_buffer
        counted == [st EXCEPT !.length = @ + Len(data)]
        filled == Copied(counted, in_buffer, SubSeq(data, 1, partial))
        first == IF in_buffer = 0 THEN [st |-> counted, data |-> data]
                 ELSE [st |-> perform_all_rounds(filled, SubSeq(filled.buffer, 1, v.block)),
                       data |-> SubSeq(data, partial + 1, Len(data))]
        rest == FullBlocks(v, first.st, first.data)
    IN  IF partial > Len(data) THEN Copied(counted, in_buffer, data)
        ELSE Copied(rest.st, in_buffer, rest.data)

(* Mutant: a block with no room for the padding's first byte is not ended. *)
fio_sha1_result_56(v, st) ==
    LET in_buffer == st.length % v.block
        room == v.block - v.tail
        padding == <<Pad>> \o Zeroes(v.block)
        over == perform_all_rounds(st, SubSeq(Copied(st, in_buffer, SubSeq(padding, 1, v.block - in_buffer)).buffer, 1, v.block))
        open == IF in_buffer > room THEN Copied(over, 0, Zeroes(room))
                ELSE Copied(st, in_buffer, SubSeq(padding, 1, room - in_buffer))
        ended == Copied(open, room, LengthOf(v, st.length))
    IN  perform_all_rounds(ended, SubSeq(ended.buffer, 1, v.block))
fio_sha1_result(v, st) ==
    LET in_buffer == st.length % v.block
        room == v.block - v.tail
        padding == <<Pad>> \o Zeroes(v.block)
        over == perform_all_rounds(st, SubSeq(Copied(st, in_buffer, SubSeq(padding, 1, v.block - in_buffer)).buffer, 1, v.block))
        open == IF in_buffer > room - 1 THEN Copied(over, 0, Zeroes(room))
                ELSE Copied(st, in_buffer, SubSeq(padding, 1, room - in_buffer))
        ended == Copied(open, room, LengthOf(v, st.length))
    IN  perform_all_rounds(ended, SubSeq(ended.buffer, 1, v.block))

(* SHA-2 does the same with blocks of either size; the high word of the    *)
(* length of a message of 2^64 bytes is left out                           *)
fio_sha2_write(v, st, data) == fio_sha1_write(v, st, data)
fio_sha2_result(v, st) == fio_sha1_result(v, st)
fio_sha1_init(v) == Fresh(v)
fio_sha2_init(v) == Fresh(v)

(* The digest's words are turned to big endian where they are, and so is   *)
(* SHA-512's length, whose low word is then zero: the state is no longer   *)
(* one that a message can be written to.                                   *)
Finalized(v, st) ==
    [st EXCEPT !.digest = Append(@, Swapped), !.length = IF v.hash = "sha512" THEN 0 ELSE @]

-----------------------------------------------------------------------------
Sha1 == variant.hash = "sha1"
Init ==
    /\ variant \in Variants
    /\ s = (IF Sha1 THEN fio_sha1_init(variant) ELSE fio_sha2_init(variant))
    /\ written = 0 /\ misplaced = FALSE /\ result = <<>>

(* A piece that fills a partly filled block and has more: what is left     *)
(* when the full blocks are mixed is copied behind the place where the     *)
(* piece began, not to the start of the buffer.                            *)
Misplaces(n) ==
    LET in_buffer == s.length % variant.block
    IN  in_buffer # 0 /\ in_buffer + n > variant.block /\ (in_buffer + n) % variant.block # 0

Writes ==
    \E n \in Pieces :
      /\ written + n <= MaxMessage
      /\ s' = IF Sha1 THEN fio_sha1_write(variant, s, Message(written, n)) ELSE fio_sha2_write(variant, s, Message(written, n))
      /\ written' = written + n
      /\ misplaced' = (misplaced \/ Misplaces(n))
      /\ UNCHANGED <<variant, result>>

Asks ==
    /\ Len(result) < MaxResults
    /\ LET r == IF Sha1 THEN fio_sha1_result(variant, s) ELSE fio_sha2_result(variant, s)
       IN  /\ s' = Finalized(variant, r)
           /\ result' = Append(result, [of |-> written, digest |-> r.digest, misplaced |-> misplaced])
    /\ UNCHANGED <<variant, written, misplaced>>

Next == Writes \/ Asks
Spec == Init /\ [][Next]_vars

-----------------------------------------------------------------------------
(* The padded message, as the standard has it: one bit, zeroes up to the   *)
(* last block's length field, the length.                                  *)
Padded(v, n) ==
    LET k == CHOOSE k \in 0..(v.block - 1) : (n + 1 + k + v.tail) % v.block = 0
    IN  Message(0, n) \o <<Pad>> \o Zeroes(k) \o LengthOf(v, n)
InBlocks(v, bytes) == [i \in 1..(Len(bytes) \div v.block) |-> SubSeq(bytes, (i - 1) * v.block + 1, i * v.block)]

DigestOf(v, n) == InBlocks(v, Padded(v, n))

(* The first digest that is asked for mixes exactly the blocks of the      *)
(* padded message, whether it ends before, at or behind the last block's   *)
(* length field and however it was cut, unless some piece overran a block  *)
(* that was partly filled and left a rest: the rest is misplaced           *)
(* (fio.c:9166-9167), and then the digest is never the message's.  Of the  *)
(* digests asked for later nothing is said (fio_sha1_write to              *)
(* fio_sha2_result).                                                       *)
HashOfTheWhole ==
    result # <<>> => LET r == Head(result) IN (r.digest = DigestOf(variant, r.of)) <=> ~r.misplaced

(* What fio.h and fio.c say of asking twice, "the finalization will only   *)
(* be performed the first time": it is performed again on the finalized    *)
(* state and the digest is another one (fio.h:2714, fio.c:9612).           *)
SameWhenAskedAgain == \A i, j \in DOMAIN result : result[i].of = result[j].of => result[i].digest = result[j].digest
===============================================================================
