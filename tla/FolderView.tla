----------------------------- MODULE FolderView -----------------------------
(***************************************************************************)
(* What readdir and getattr make of one and the same listing.  An entry's  *)
(* fields may be absent or of another type; how it is shown and what is    *)
(* said of it is decided in different places of data-container.c and       *)
(* fuse-dataloader.c, by different fields.                                 *)
(***************************************************************************)
EXTENDS Naturals, Sequences

CONSTANTS Names, Absent, NotString   \* file names; no such field; no string

ASSUME FolderViewAssumption ==
  /\ Absent # NotString
  /\ {Absent, NotString} \cap (Names \cup {"folder", "file", "other"}) = {}

\* "type" starts with "folder" or "file", or is another string, or absent;
\* of the other fields it only matters whether they are there.
Entries == [name : Names \cup {Absent, NotString},
            type : {"folder", "file", "other", Absent},
            path : BOOLEAN, created : BOOLEAN, size : BOOLEAN]

\* loadDir(): an entry is passed to FUSE with its name if name, type and path
\* are strings.
Shown(list) ==
  {list[i].name : i \in {j \in DOMAIN list :
     list[j].name \in Names /\ list[j].type # Absent /\ list[j].path}}

\* Fault: an entry without a string for a name ends the search as well.
FoundStrict(list, n, i) ==
  /\ list[i].name = n
  /\ \A j \in 1..(i - 1) : list[j].name \notin {n, Absent, NotString}

\* getSubElementByNamedPath(): the first entry called n, unless an entry
\* without a name comes first.
Found(list, n, i) ==
  /\ list[i].name = n
  /\ \A j \in 1..(i - 1) : list[j].name \notin {n, Absent}

\* getInfo(): without a type or a creation time it succeeds and leaves
\* file_info as it was on the stack, which statForPath() then switches on.
InfoOf(e) ==
  IF e.type = Absent \/ ~e.created THEN {"folder", "file", "error"}
  ELSE IF e.type = "folder" \/ (e.type = "file" /\ e.size) THEN {e.type}
  ELSE {"error"}

\* getattr_callback(): the possible answers for name n of this folder.
Getattr(list, n) ==
  IF \E i \in DOMAIN list : Found(list, n, i)
    THEN UNION {InfoOf(list[i]) : i \in {j \in DOMAIN list : Found(list, n, j)}}
    ELSE {"error"}

-----------------------------------------------------------------------------
Complete(e) ==
  e.path /\ e.created /\ (e.type = "folder" \/ (e.type = "file" /\ e.size))

\* Every entry has a name, and no other entry has it.
Named(list) ==
  /\ \A i \in DOMAIN list : list[i].name # Absent
  /\ \A i, j \in DOMAIN list :
       list[i].name = list[j].name /\ list[i].name \in Names => i = j
=============================================================================
