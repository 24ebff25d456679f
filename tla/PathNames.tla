------------------------------ MODULE PathNames ------------------------------
(* How the client library turns the name of a file into the path it sends:   *)
(* str_replace() of 4/fs_client_api.c, one turn of its loop a step, and the   *)
(* calls that fsOpenDir, fsOpen and fsRemove make of it.                      *)
EXTENDS Integers, Sequences, SequencesExt, FiniteSets

CONSTANTS
  Names,         \* what a program passes to the library
  Mounts,        \* <<mountedDir, alias>>: the folders of client and server
  UpDir, Slash,  \* "/../" and "/"
  NUL, Junk,     \* the end of a string, an uninitialised character
  NULL,          \* mountedDir before fsMount
  Char

ASSUME PathNamesAssumption ==
  /\ Names \subseteq Seq(Char)
  /\ \A m \in Mounts : m \in (Seq(Char) \ {<<>>}) \X Seq(Char)
  /\ \A m \in Mounts : m[1] # UpDir
  /\ UpDir \in Seq(Char) \ {<<>>} /\ Slash \in Seq(Char)
  /\ NUL \notin Char /\ Junk \notin Char /\ NUL # Junk
  /\ NULL \notin Seq(Char)

VARIABLES
  call,                   \* the function that the program called
  fname, mountedDir, alias,
  string,                 \* the arguments of str_replace()
  substr, replacement,
  newstr,                 \* its buffer, with the NUL
  head,                   \* the offset of head in newstr
  at                      \* "called", "loop", "returned", "sends", "crashed"

vars == <<call, fname, mountedDir, alias, string, substr, replacement, newstr, head, at>>

strlen(buf) == SelectInSeq(buf, LAMBDA c : c = NUL) - 1
strdup(s)   == Append(s, NUL)
Text(buf)   == SubSeq(buf, 1, strlen(buf))

\* The offsets at which sub occurs in s.
Matches(s, sub) ==
  {i \in 0 .. Len(s) - Len(sub) : SubSeq(s, i + 1, i + Len(sub)) = sub}

\* strstr(head, substr), as an offset in newstr; -1 is NULL.
tok ==
  LET found == {i \in Matches(Text(newstr), substr) : i >= head}
  IN IF found = {} THEN -1 ELSE CHOOSE i \in found : \A j \in found : i <= j

-----------------------------------------------------------------------------
\* Mutant: no room for the NUL.
NoNul == strlen(newstr) - Len(substr) + Len(replacement)

allocated == strlen(newstr) - Len(substr) + Len(replacement) + 1

malloc(size) == [i \in 1 .. size |-> Junk]

\* n characters of src, from an offset in it, to an offset in dst.  Nothing keeps
\* it to the blocks: behind src it reads Junk, and behind dst it writes on, which
\* makes dst longer than it was allocated.
memcpy(dst, to, src, from, n) ==
  [i \in DOMAIN dst \cup (to + 1 .. to + n) |->
     IF i \notin to + 1 .. to + n THEN dst[i]
     ELSE IF i - to + from \in DOMAIN src THEN src[i - to + from] ELSE Junk]

\* One NUL, at an offset in dst.
memset(dst, to) == memcpy(dst, to, <<NUL>>, 0, 1)

\* Mutant: the tail is as long as the old string's head.
tailOfHead == tok

\* How many characters follow the occurrence.
tail == strlen(newstr) - Len(substr) - tok

rewritten ==
  LET before   == memcpy(malloc(allocated), 0, newstr, 0, tok)
      replaced == memcpy(before, tok, replacement, 0, Len(replacement))
      whole    == memcpy(replaced, tok + Len(replacement), newstr, tok + Len(substr), tail)
  IN memset(whole, strlen(newstr) - Len(substr) + Len(replacement))

\* Mutants: to the start of the last replacement; as far as what was replaced.
lastReplacement == tok
afterReplaced   == tok + Len(substr)

\* "move back head right after the last replacement"
afterReplacement == tok + Len(replacement)

\* The early return for NULL, or the start of the search.
duplicates ==
  /\ at = "called"
  /\ newstr' = strdup(string) /\ head' = 0
  /\ at' = IF substr = NULL THEN "returned" ELSE "loop"
  /\ UNCHANGED <<call, fname, mountedDir, alias, string, substr, replacement>>

replaces ==
  /\ at = "loop" /\ tok >= 0
  /\ newstr' = rewritten
  /\ head' = afterReplacement
  /\ UNCHANGED <<call, fname, mountedDir, alias, string, substr, replacement, at>>

\* Neither strdup() nor the caller looks at a NULL: strstr() and strlen() get it.
runsOutOfMemory ==
  /\ at = "called" \/ (at = "loop" /\ tok >= 0)
  /\ at' = "crashed"
  /\ UNCHANGED <<call, fname, mountedDir, alias, string, substr, replacement, newstr, head>>

returns ==
  /\ at = "loop" /\ tok < 0
  /\ at' = "returned"
  /\ UNCHANGED <<call, fname, mountedDir, alias, string, substr, replacement, newstr, head>>

-----------------------------------------------------------------------------
\* The result goes into the request: fsOpenDir has enough with one.
sends ==
  /\ at = "returned" /\ (call = "fsOpenDir" \/ substr = UpDir)
  /\ at' = "sends"
  /\ UNCHANGED <<call, fname, mountedDir, alias, string, substr, replacement, newstr, head>>

\* fsOpen and fsRemove replace "/../" in it.
replacesUpDir ==
  /\ at = "returned" /\ call # "fsOpenDir" /\ substr # UpDir
  /\ string' = Text(newstr) /\ substr' = UpDir /\ replacement' = Slash
  /\ newstr' = <<>> /\ head' = 0
  /\ at' = "called"
  /\ UNCHANGED <<call, fname, mountedDir, alias>>

Init ==
  /\ call \in {"fsOpenDir", "fsOpen", "fsRemove"}
  /\ fname \in Names
  /\ \/ \E m \in Mounts : mountedDir = m[1] /\ alias = m[2]
     \/ mountedDir = NULL /\ alias = <<>>
  /\ string = fname /\ substr = mountedDir /\ replacement = alias
  /\ newstr = <<>> /\ head = 0
  /\ at = "called"

Next == duplicates \/ replaces \/ runsOutOfMemory \/ returns \/ sends \/ replacesUpDir

Spec == Init /\ [][Next]_vars

-----------------------------------------------------------------------------
\* What replacing every occurrence means: those that overlap no chosen one to
\* their left are chosen, and each chosen one is exchanged for rep.
Chosen(s, sub) ==
  CHOOSE P \in SUBSET Matches(s, sub) :
    \A i \in Matches(s, sub) :
      i \in P <=> \A j \in P : j < i => j + Len(sub) <= i

Replaced(s, sub, rep) ==
  LET P == Chosen(s, sub)
      Piece(i) == IF i \in P THEN rep
                  ELSE IF \E j \in P : j < i /\ i < j + Len(sub) THEN <<>>
                  ELSE <<s[i + 1]>>
  IN FlattenSeq([i \in 1 .. Len(s) |-> Piece(i - 1)])

\* Without a substring to look for, the string itself.
Result(s, sub, rep) == IF sub = NULL THEN s ELSE Replaced(s, sub, rep)

\* A call of str_replace() returns its string with the occurrences of substr
\* that one pass from the left finds replaced, ended by the only NUL of a
\* buffer with no uninitialised character (fs_client_api.c:30-50).
ReplacesEveryOccurrence ==
  at = "returned" => newstr = strdup(Result(string, substr, replacement))

\* The three copies and the NUL fill the new buffer, and write nothing behind it
\* (fs_client_api.c:36-45).
StaysInBlock == [][at = "loop" /\ at' = "loop" => Len(newstr') = allocated]_vars

\* What was replaced is not looked at again: the text before head is final and
\* the text after it is still the end of the string.
HeadSplitsTheString ==
  at = "loop" =>
    \E k \in 0 .. Len(string) :
      /\ SubSeq(Text(newstr), head + 1, strlen(newstr)) = SubSeq(string, k + 1, Len(string))
      /\ SubSeq(Text(newstr), 1, head) = Replaced(SubSeq(string, 1, k), substr, replacement)

\* Every turn of the loop leaves less to search, whatever the replacement holds:
\* so the loop ends (fs_client_api.c:48).
SearchesLess ==
  [][at = "loop" /\ at' = "loop" /\ substr' = substr =>
       strlen(newstr') - head' < strlen(newstr) - head]_vars

\* A name below the mounted folder becomes the same name below the server's,
\* when the rest of it does not contain the folder's name (fs_client_api.c:97).
MountNameBecomesAlias ==
  at = "sends" /\ call = "fsOpenDir" /\ mountedDir # NULL =>
    \A rest \in Names :
      fname = mountedDir \o rest /\ Matches(fname, mountedDir) = {0} =>
        Text(newstr) = alias \o rest

=============================================================================
