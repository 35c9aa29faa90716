------------------------------ MODULE UrlPath ------------------------------
(***************************************************************************)
(* How http-connector.c turns a folder's path into the URL it requests.    *)
(* Characters are bytes; a path is a sequence of them without the NUL.     *)
(***************************************************************************)
EXTENDS PathMatch, Integers, SequencesExt

CONSTANT BaseURL   \* the bytes of BASEURL

ASSUME UrlPathAssumption ==
  /\ Chars \subseteq 1..255
  /\ BaseURL \in Seq(1..255)
  /\ MaxPathLen > Len(BaseURL) + 1

Cut(s, n) == SubSeq(s, 1, IF Len(s) < n THEN Len(s) ELSE n)

\* Fault: the table keeps '%' as well.
KeptPercent == {33, 35, 36, 37, 38, 93, 95} \cup (40..59) \cup (63..91) \cup (97..126)

\* The bytes SUBSITUTE_LOOKUP keeps: letters, digits, and !#$&()*+,-./:;?@[]_{|}~
Kept == {33, 35, 36, 38, 93, 95} \cup (40..59) \cup (63..91) \cup (97..126)

Percent == 37

HexDigit(n) == IF n < 10 THEN 48 + n ELSE 55 + n

\* sprintf("%%%02X")
Encode(c) == <<Percent, HexDigit(c \div 16), HexDigit(c % 16)>>

Escape(c) == IF c \in Kept THEN <<c>> ELSE Encode(c)

\* strnlen(path, MAX_PATH_LEN): the loop copies this many bytes, and the one
\* behind them unless it is the NUL.
Copied(p) == Cut(p, MaxPathLen + 1)

\* The loop of escapeURL() runs from i = 0 to i = len.  Round n has the path's
\* n-th byte, or its NUL.
Rounds(p) == 1..(StrNLen(p) + 1)

Escaped(p, n) == n \in DOMAIN p /\ p[n] \notin Kept

Escapes(p, n) == Cardinality({i \in 1..n : Escaped(p, i)})

\* Round n writes up to this index (0-based): a kept byte and the NUL are one
\* byte, an escape is three and a NUL behind them.  Each escape before moved
\* the place on by two.
LastWritten(p, n) ==
  (n - 1) + 2 * Escapes(p, n - 1) + IF Escaped(p, n) THEN 3 ELSE 0

\* Fault: newSize starts at len, without room for the terminating NUL.
BufferSizeNoNul(p, n) == StrNLen(p) + 3 * Escapes(p, n)

\* The buffer has this many bytes by then.
BufferSize(p, n) == StrNLen(p) + 1 + 3 * Escapes(p, n)

EscapedURL(p) == FlattenSeq([i \in DOMAIN Copied(p) |-> Escape(p[i])])

\* ListPath(): strncat() appends as much as the buffer was sized for.
Room == MaxPathLen - Len(BaseURL)
URL(p) == BaseURL \o Cut(EscapedURL(p), Room)

\* checkPathLen(p) = 0: STRLEN counts the NUL, and the path is not escaped.
Accepted(p) == Len(p) >= 1 /\ Len(p) <= Room - 1

-----------------------------------------------------------------------------
\* Every byte that is written, the terminating NUL among them, is inside the
\* buffer as it is at that time.
InBounds(p) == \A n \in Rounds(p) : LastWritten(p, n) < BufferSize(p, n)

\* How a server that decodes reads a URL: up to '#' or '?', with %XX turned
\* into its byte; half an escape is no character.  The test server of the
\* repository takes the escaped path as it comes.
Digit(h) == IF h < 58 THEN h - 48 ELSE h - 55

Decode(s) ==
  LET from[i \in Nat] ==
        IF i > Len(s) \/ s[i] \in {35, 63} THEN << >>
        ELSE IF s[i] # Percent THEN <<s[i]>> \o from[i + 1]
        ELSE IF i + 2 > Len(s) THEN <<0>>
        ELSE <<16 * Digit(s[i + 1]) + Digit(s[i + 2])>> \o from[i + 3]
  IN from[1]

\* The folder the server is asked for.
Asked(p) == Decode(SubSeq(URL(p), Len(BaseURL) + 1, Len(URL(p))))
=============================================================================
