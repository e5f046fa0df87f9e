----------------------------- MODULE MCLibrary -----------------------------
(* Small instances of the parts.                                           *)
EXTENDS Library

(* A form's delimiter and the header lines of its parts.                   *)
MCboundary == <<"B", "C">>
MCHeaderLine ==
    [t \in {"Ha", "Hb", "Hf", "Ht"} |->
       CASE t = "Ha" -> [name |-> "a", file |-> "", mime |-> ""]
         [] t = "Hb" -> [name |-> "b", file |-> "", mime |-> ""]
         [] t = "Hf" -> [name |-> "f", file |-> "file", mime |-> ""]
         [] t = "Ht" -> [name |-> "", file |-> "", mime |-> "type"]]
MS == INSTANCE MCStreams WITH want <- messages, input <- arriving, Cases <- <<>>, boundary <- MCboundary,
                              HeaderLine <- MCHeaderLine
MX == INSTANCE MCTexts WITH Jobs <- {}, Files <- <<>>, Trees <- <<>>, Templates <- <<>>, Contexts <- <<>>,
                            CliNames <- <<>>, MimeTypes <- {}, public_folder <- <<>>, Roots <- <<>>

MCCases == MS!MCCases
MCJobs == MX!MCJobs
MCFiles == MX!MCFiles
MCTrees == MX!MCTrees
MCTemplates == MX!MCTemplates
MCContexts == MX!MCContexts
MCCliNames == MX!MCCliNames
MCMimeTypes == MX!MCMimeTypes
MCFolder == MX!MCFolder
MCRoots == MX!MCRoots

(* Two keys with the same hash, and one whose place is before theirs.      *)
MCHash == [k \in Keys |-> CASE k = "a" -> 5 [] k = "b" -> 5 [] k = "c" -> 20]
MCObjs == [k \in Keys |-> IF k = "a" THEN {"x", "y"} ELSE {"x"}]
(* ... and one whose place is the next the first two would try.            *)
ChainedHash == [MCHash EXCEPT !["c"] = 10]

MCChunks == {<<"a", "n">>, <<"b">>}

(* Hashes with small blocks; the last one has a longer tail.               *)
MCVariants == {[hash |-> "sha1", block |-> 6, tail |-> 2, buffer |-> 6],
               [hash |-> "sha256", block |-> 6, tail |-> 2, buffer |-> 12],
               [hash |-> "sha512", block |-> 8, tail |-> 3, buffer |-> 8]}

(* What a process has: two listeners, two tasks, or one each of two kinds. *)
Processes == [role : {"single", "root", "worker"},
              uses : {{"l1", "l2"}, {"l1", "c1"}, {"l1", "a"}, {"c1", "a"}, {"a", "b"}}]

(* The inputs of README 5.                                                 *)
PaddingJobs == {MX!PaddingJobs}
OddJsonJobs == {MX!OddJsonJobs}
OddOwners == MX!OddOwners
OddCodecJobs == MX!OddCodecJobs
OddHpackJobs == {MX!OddHpackJobs}
ForwardedJobs == {MX!ForwardedJobs}
OddFileJobs == MX!OddFileJobs
OddCookieJobs == {MX!OddCookieJobs}
=============================================================================
