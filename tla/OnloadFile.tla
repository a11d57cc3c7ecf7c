------------------------------ MODULE OnloadFile ------------------------------
(***************************************************************************)
(* `-P <list> <file>`: onload_load_prefixes (src/src/onload.c) reads a     *)
(* prefix file with fgets into a LINE_MAX_LEN buffer, scans each buffer   *)
(* for one address token, and stores every token onload_add_prefix        *)
(* accepts at the tail of the named prefix list.                           *)
(*                                                                         *)
(* A file is a sequence of characters of a few classes:                    *)
(*   " "   space or tab;                                                   *)
(*   "p"   "q"  characters of an address, 0-9 a-f A-F . : / ;              *)
(*   "#"   "\n" the comment sign and the end of a line;                    *)
(*   "x"   anything else.                                                  *)
(* onload_add_prefix (modelled in detail in StaticRules) is reduced to     *)
(* which tokens it accepts: "p" stands for an address and "pq" for an      *)
(* address with a mask length; any other token is refused with -EINVAL.   *)
(***************************************************************************)
EXTENDS Integers, Sequences, SequencesExt, FiniteSetsExt

CONSTANTS
    LineMax,   \* LINE_MAX_LEN, the fgets buffer (512), scaled down
    FileLen    \* bound: characters in a prefix file

Chars == {" ", "p", "q", "#", "x", "\n"}
Blank == {" "}
AddrChars == {"p", "q"}
\* what ends the scan of a line: a comment, the newline, the string's NUL
LineEnd == {"#", "\n", "NUL"}

\* onload_add_prefix's verdict on a token.
Parses(t) == t \in {<<"p">>, <<"p", "q">>}

EINVAL == 22

\* The character at index i of a buffer read as a C string.
Ch(b, i) == IF i <= Len(b) THEN b[i] ELSE "NUL"

(***************************************************************************)
(* fgets(buf, LINE_MAX_LEN, fp): up to LineMax - 1 characters, ending     *)
(* after the first newline.                                                *)
(***************************************************************************)
ChunkLen(f) ==
    LET n == IF Len(f) < LineMax - 1 THEN Len(f) ELSE LineMax - 1
        nl == {i \in 1..n : f[i] = "\n"}
    IN  IF nl = {} THEN n ELSE Min(nl)

RECURSIVE Fgets(_)
Fgets(f) ==
    IF f = <<>> THEN <<>>
    ELSE <<SubSeq(f, 1, ChunkLen(f))>> \o Fgets(SubSeq(f, ChunkLen(f) + 1, Len(f)))

RECURSIVE SkipWhile(_, _, _)
SkipWhile(b, i, S) == IF Ch(b, i) \in S THEN SkipWhile(b, i + 1, S) ELSE i

\* Mutant: the check that only blanks and a comment follow the token
\* dropped, so the token of "p x" is stored.
ScanLineNoTrail(b) ==
    LET i == SkipWhile(b, 1, Blank)
        e == SkipWhile(b, i, AddrChars)
    IN  IF Ch(b, i) \in LineEnd THEN "skip" ELSE SubSeq(b, i, e - 1)

\* The body of onload_fread_prefix's loop on one buffer: skip blanks; a
\* comment or an empty line is skipped; the do-while over the four
\* character loops takes the longest run of address characters (the
\* order of the inner loops only decides how many rounds it takes);
\* a line with anything but blanks and a comment after it is skipped.
ScanLine(b) ==
    LET i == SkipWhile(b, 1, Blank)
        e == SkipWhile(b, i, AddrChars)
        j == SkipWhile(b, e, Blank)
    IN  IF Ch(b, i) \in LineEnd \/ Ch(b, j) \notin LineEnd THEN "skip"
        ELSE SubSeq(b, i, e - 1)

\* onload_store_prefix with get_or_create_prefix_list: the list of that
\* name, created empty on its first prefix, gets the prefix at its tail.
StorePrefix(lists, name, t) ==
    IF name \in DOMAIN lists
    THEN [lists EXCEPT ![name] = Append(@, t)]
    ELSE lists @@ (name :> <<t>>)

(***************************************************************************)
(* The syntax of a prefix file (spec.md 5): one CIDR per line; `#` and    *)
(* blank lines ignored; leading whitespace, trailing whitespace and        *)
(* comments tolerated; malformed lines abort loading with an error.        *)
(***************************************************************************)
RECURSIVE SplitLines(_)
SplitLines(f) ==
    IF f = <<>> THEN <<>>
    ELSE LET nl == {i \in DOMAIN f : f[i] = "\n"}
             n == IF nl = {} THEN Len(f) ELSE Min(nl)
         IN  <<SubSeq(f, 1, n)>> \o SplitLines(SubSeq(f, n + 1, Len(f)))

IsBlanks(s) == \A i \in DOMAIN s : s[i] \in Blank
IsComment(s) == s = <<>> \/ s = <<"\n">> \/ s[1] = "#"

\* The CIDRs a line holds: <<>> for an ignored line, <<t>> for a line with
\* CIDR t, and no value (the empty set) for a malformed line.
LineCidrs(l) ==
    LET cuts == {k \in (0..Len(l)) \X (0..Len(l)) \X (0..Len(l)) : k[1] < k[2] /\ k[2] <= k[3]}
        ok(k) == /\ IsBlanks(SubSeq(l, 1, k[1]))
                 /\ IsBlanks(SubSeq(l, k[2] + 1, k[3]))
                 /\ IsComment(SubSeq(l, k[3] + 1, Len(l)))
        ign == \E a \in 0..Len(l) : IsBlanks(SubSeq(l, 1, a))
                                    /\ IsComment(SubSeq(l, a + 1, Len(l)))
    IN  IF ign THEN {<<>>}
        ELSE {<<SubSeq(l, k[1] + 1, k[2])>> :
                k \in {k \in cuts : ok(k) /\ Parses(SubSeq(l, k[1] + 1, k[2]))}}

Malformed(l) == LineCidrs(l) = {}

\* The CIDRs of the well-formed lines of f, in file order.
RefCidrs(f) ==
    FoldLeft(LAMBDA acc, l : IF Malformed(l) THEN acc ELSE acc \o CHOOSE s \in LineCidrs(l) : TRUE,
             <<>>, SplitLines(f))

\* The prefix files of up to FileLen characters whose lines fit the buffer.
FitFiles == {f \in UNION {[1..n -> Chars] : n \in 0..FileLen} :
                Len(Fgets(f)) = Len(SplitLines(f))}

-----------------------------------------------------------------------------
(***************************************************************************)
(* The load as steps: one step per fgets buffer of onload_fread_prefix's   *)
(* loop, then the end of the file or the first refused token.  `given`   *)
(* is the content of the file being read, a history variable kept for the *)
(* property until fclose.                                                  *)
(***************************************************************************)
VARIABLES
    given,   \* the -P file (<<>> once closed)
    chunks,  \* the buffers fgets has still to return
    lists,   \* config->prefix_list_head: list name -> prefixes
    reading, \* onload_load_prefixes has not returned yet
    lret     \* its return value

loadVars == <<given, chunks, lists, reading, lret>>

\* options_parse meets `-P onload <file>` before any other prefix.
LoadInit ==
    /\ given \in FitFiles
    /\ chunks = Fgets(given)
    /\ lists = <<>>
    /\ reading = TRUE
    /\ lret = 0

\* A buffer the scanner skips: a comment, a blank line, or a line with
\* something other than one token, blanks and a comment.
SkipLine ==
    /\ reading /\ chunks # <<>>
    /\ ScanLine(Head(chunks)) = "skip"
    /\ chunks' = Tail(chunks)
    /\ UNCHANGED <<given, lists, reading, lret>>

\* A token onload_add_prefix accepts is stored in the list "onload".
StoreLine ==
    /\ reading /\ chunks # <<>>
    /\ ScanLine(Head(chunks)) # "skip" /\ Parses(ScanLine(Head(chunks)))
    /\ chunks' = Tail(chunks)
    /\ lists' = StorePrefix(lists, "onload", ScanLine(Head(chunks)))
    /\ UNCHANGED <<given, reading, lret>>

\* The first token onload_add_prefix refuses: -EINVAL is returned, the
\* file closed, and prefixes stored before it stay.
RefuseLine ==
    /\ reading /\ chunks # <<>>
    /\ ScanLine(Head(chunks)) # "skip" /\ ~Parses(ScanLine(Head(chunks)))
    /\ reading' = FALSE /\ lret' = -EINVAL
    /\ given' = <<>> /\ chunks' = <<>>
    /\ UNCHANGED lists

\* fgets returns NULL: onload_fread_prefix returns 0, the loop of
\* onload_load_prefixes ends, and the file is closed.
LoadEof ==
    /\ reading /\ chunks = <<>>
    /\ reading' = FALSE /\ lret' = 0 /\ given' = <<>>
    /\ UNCHANGED <<chunks, lists>>

LoadStep == SkipLine \/ StoreLine \/ RefuseLine \/ LoadEof

\* The prefixes the list "onload" holds.
Onload(l) == IF "onload" \in DOMAIN l THEN l["onload"] ELSE <<>>

-----------------------------------------------------------------------------
(* Properties *)

\* When onload_load_prefixes returns, it has stored prefixes only from
\* lines of the file the syntax accepts, in file order; it has returned
\* -EINVAL only for a file with a malformed line; and for a file without
\* one it has returned 0 with every CIDR of the file stored.
OnloadFileSound ==
    [][reading /\ ~reading' =>
        LET bad == \E i \in DOMAIN SplitLines(given) : Malformed(SplitLines(given)[i])
        IN  /\ IsPrefix(Onload(lists'), RefCidrs(given))
            /\ lret' = -EINVAL => bad
            /\ ~bad => lret' = 0 /\ Onload(lists') = RefCidrs(given)]_loadVars
=============================================================================
