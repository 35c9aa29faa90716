----------------------------- MODULE PathMatch -----------------------------
(***************************************************************************)
(* How the open-file manager decides that a list entry belongs to a path.  *)
(*                                                                         *)
(* The C code never compares whole paths: it takes strnlen() of the path   *)
(* it is asked about, strnlen() + 1 of the path an entry was opened with,  *)
(* and runs strncmp() over the smaller of the two.  A path is a sequence   *)
(* of characters without the terminating NUL.                              *)
(***************************************************************************)
EXTENDS Naturals, Sequences

CONSTANTS
  Chars,       \* characters a path is made of
  NUL,         \* the terminating zero byte
  MaxPathLen   \* MAX_PATH_LEN

ASSUME PathMatchAssumption ==
  /\ NUL \notin Chars
  /\ MaxPathLen \in Nat

\* The byte at position i of the C string that holds s (1-based).
CharAt(s, i) == IF i <= Len(s) THEN s[i] ELSE NUL

\* strnlen(s, MAX_PATH_LEN)
StrNLen(s) == IF Len(s) < MaxPathLen THEN Len(s) ELSE MaxPathLen

\* OpenFileList_t.path: openFile() copies at most MAX_PATH_LEN characters
\* into a zeroed buffer.
Stored(s) == SubSeq(s, 1, StrNLen(s))

\* OpenFileList_t.pathLen counts the terminating NUL.
StoredLen(s) == StrNLen(s) + 1

\* strncmp(a, b, n) = 0: equal up to n bytes or up to a common NUL.
StrNCmpEqual(a, b, n) ==
  \A i \in 1..n :
    (\A j \in 1..(i - 1) : CharAt(a, j) # NUL) => CharAt(a, i) = CharAt(b, i)

\* Fault: comparing over the entry's path without its NUL.
CmpLenWithoutNul(p, entry) ==
  IF StrNLen(p) > StrNLen(entry) THEN StrNLen(entry) ELSE StrNLen(p)

\* The smaller of the two lengths: the number of bytes compared.
CmpLen(p, entry) ==
  IF StrNLen(p) > StoredLen(entry) THEN StoredLen(entry) ELSE StrNLen(p)

\* The test in getFileContext_locked() and closeFile(): does the entry that
\* was opened with path entry answer a request for path p?
Matches(p, entry) == StrNCmpEqual(p, Stored(entry), CmpLen(p, entry))

-----------------------------------------------------------------------------
\* The reference definition: p, cut at MAX_PATH_LEN, begins the entry's path.
BeginsWith(entry, p) ==
  /\ StrNLen(p) <= StrNLen(entry)
  /\ \A i \in 1..StrNLen(p) : p[i] = entry[i]

\* Two paths whose requests can be answered by one and the same entry.
Overlap(p, q) == Matches(p, q) \/ Matches(q, p)
=============================================================================
