---------------------------- MODULE MCAlgorithms ----------------------------
(* The functions of the program that compute and keep no state, over all      *)
(* bounded inputs: one step picks a function and an input of it.              *)
EXTENDS UrlPath, FolderKeys, ReadSlice, FolderView

CONSTANTS
  FewChars,     \* characters of the longest paths
  MaxChars,     \* bound: length of those with few characters
  MaxShort,     \* bound: length of those with all
  MaxContent,   \* bound: length of a file's content
  MaxEntries    \* bound: entries of a listing

ASSUME MCAlgorithmsAssumption == FewChars \subseteq Chars \ {Slash}

\* One byte stands for BASEURL.
ShortBase == <<104>>

VARIABLES topic, input

vars == <<topic, input>>

Words(A, n) == UNION {[1..k -> A] : k \in 1..n}

Folders == {d \in Words({Slash} \cup FewChars, MaxPathLen - 1) : Folder(d)}

Paths == Words(FewChars, MaxChars)

URLs == Words(Chars, MaxShort) \cup Paths

Keys == {f \in [dir : Folders, other : Folders, name : Words(FewChars, 2)] :
           Len(FileIn(f.dir, f.name)) <= MaxPathLen}

Reads == {r \in [length : 0..MaxContent, size : 1..Word, next : 1..Word, offset : 0..Word] :
            KernelRead(r.size + r.next, r.offset)}

Pick(t, inputs) == topic = "none" /\ topic' = t /\ input' \in inputs

Init == topic = "none" /\ input = << >>

Next ==
  \/ Pick("match", Paths \X Paths)
  \/ Pick("url", URLs)
  \/ Pick("key", Keys)
  \/ Pick("read", Reads)
  \/ Pick("listing", Words(Entries, MaxEntries))

Spec == Init /\ [][Next]_vars

Is(t) == topic = t

-----------------------------------------------------------------------------
\* The length arithmetic and strncmp() of open-file-manager.c:49-51 answer
\* exactly when the asked path begins the opened one, whatever their lengths
\* and however they compare to MAX_PATH_LEN: no byte past a NUL is compared,
\* and a longer asked path never hits a shorter entry.
MatchIsPrefix ==
  Is("match") => (Matches(input[1], input[2]) <=> BeginsWith(input[2], input[1]))

\* escapeURL() writes every byte, its escapes and the terminating NUL into the
\* buffer it has by then, wherever the escapes are, also for a path that is
\* cut at MAX_PATH_LEN, whose next byte is written in place of the NUL.
EscapeInBounds == Is("url") => InBounds(input)

\* A server that decodes is asked for the very folder, if and only if the path has no
\* '#' or '?', which the table lets through, and its escaped form is not cut:
\* checkPathLen() measures the unescaped one.
UrlNamesPath ==
  Is("url") /\ Accepted(input) =>
    (Asked(input) = input <=>
       /\ Len(EscapedURL(input)) <= Room
       /\ \A i \in DOMAIN input : input[i] \notin {35, 63})

\* Whichever handler asks for it, a folder has one key and no other folder has
\* it; the file is searched under its name, and the listing of the folder is
\* the one that is expected, up to the longest path that is not cut.
KeyNamesFolder ==
  Is("key") =>
    /\ ParentKey(FileIn(input.dir, input.name)) = FolderKey(input.dir)
    /\ BaseName(FileIn(input.dir, input.name)) = input.name
    /\ SameKey(FolderKey(input.dir), FolderKey(input.other)) <=> input.dir = input.other
    /\ Len(input.dir) > 1 => ExpectedPath(FolderKey(input.dir)) = input.dir

\* A read copies the bytes that exist from its offset on and no other, and
\* two consecutive reads are one: files come out whole in any sizes.
ReadsJoin ==
  Is("read") =>
    LET content == [i \in 1..input.length |-> i]
        first == Slice(content, input.size, input.offset)
        second == Slice(content, input.next, input.offset + input.size)
    IN /\ IsRange(first, content, input.size, input.offset)
       /\ first \o second = Slice(content, input.size + input.next, input.offset)

\* In a listing whose entries have names of their own, what readdir shows and
\* getattr answers for certain is what is complete, with its own type; any
\* other entry is not shown, refused, or answered from uninitialised memory.
ViewsAgree ==
  Is("listing") /\ Named(input) =>
    \A i \in DOMAIN input : input[i].name \in Names =>
      LET n == input[i].name
      IN Complete(input[i]) <=>
           n \in Shown(input) /\ Getattr(input, n) = {input[i].type}
=============================================================================
