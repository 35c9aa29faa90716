----------------------------- MODULE FolderKeys -----------------------------
(***************************************************************************)
(* Under which path data-container.c caches a folder.  readdir asks for    *)
(* the folder itself, the other handlers for the parent of their file, and *)
(* the check of an answer goes back from the key to the folder: PathCache  *)
(* takes these to be one and the same folder.                              *)
(***************************************************************************)
EXTENDS PathMatch, SequencesExt

CONSTANT Slash

ASSUME FolderKeysAssumption == Slash \in Chars

\* loadDir(): a slash is put at the end unless there is one.
FolderKey(d) == IF d[StrNLen(d)] = Slash THEN d ELSE Stored(d) \o <<Slash>>

LastSlash(p) == CHOOSE i \in DOMAIN p :
  p[i] = Slash /\ \A j \in (i + 1)..Len(p) : p[j] # Slash

\* Fault: the slash itself is cut off.
ParentKeyBare(p) == SubSeq(Stored(p), 1, LastSlash(Stored(p)) - 1)

\* getActualSubelement(): cut behind the last slash.
ParentKey(p) == SubSeq(Stored(p), 1, LastSlash(Stored(p)))

\* ... and what is searched for in the folder.
BaseName(p) == SubSeq(Stored(p), LastSlash(Stored(p)) + 1, StrNLen(p))

\* updatePathInfo(): the cached key answers a request for key.
SameKey(key, cached) == StrNCmpEqual(key, cached, MaxPathLen)

\* updatePathInfo(): the "path" an entry must have, for any key but "/".
ExpectedPath(key) ==
  LET copy == SubSeq(key, 1, IF Len(key) < MaxPathLen - 1 THEN Len(key) ELSE MaxPathLen - 1)
  IN IF Len(copy) > 1 /\ copy[Len(copy)] = Slash THEN Front(copy) ELSE copy

-----------------------------------------------------------------------------
\* Folders as FUSE names them: "/", or components each behind a slash.
Folder(d) ==
  /\ Len(d) >= 1 /\ d[1] = Slash
  /\ \A i \in 2..Len(d) : d[i] = Slash => d[i - 1] # Slash
  /\ Len(d) > 1 => d[Len(d)] # Slash

\* The path of the file n in folder d.
FileIn(d, n) == IF Len(d) = 1 THEN d \o n ELSE d \o <<Slash>> \o n
=============================================================================
