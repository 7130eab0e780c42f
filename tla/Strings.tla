------------------------------ MODULE Strings ------------------------------
(***************************************************************************)
(* The strings of the program in their memory: src/src/string.c on         *)
(* src/src/buffer.c, called in any order the program's use of them allows. *)
(***************************************************************************)
EXTENDS RequestBuilder, Searching

CONSTANTS
    Junk,       \* what malloc leaves in a block
    Name,       \* the variables that hold strings
    Inputs,     \* the C strings that are written
    Needles     \* the C strings, of one character and of more, that are searched for

INSTANCE Buffer

ASSUME StringsAssumption ==
    /\ Junk \notin Token
    /\ Inputs \cup Needles \subseteq Text \ {<<>>}

VARIABLES
    str,        \* the buffer of each string there is
    fresh       \* the strings nothing has been written to

vars == <<str, fresh>>

TypeOK ==
    /\ DOMAIN str \subseteq Name /\ fresh \subseteq DOMAIN str
    /\ \A n \in DOMAIN str : IsBuffer(str[n], Token)

Init == str = [n \in {} |-> NewString] /\ fresh = {}

\* The program goes on.
Running == \A n \in DOMAIN str : ~Failed(str[n])

\* A string takes one text of any length, as the first one: what a client has sent, a
\* value of the store, a field of a message that is copied whole.  Those that are
\* written again, verbs and answers, are written with less than a chunk.
MayTake(n, length) == n \in fresh \/ length <= Chunk

Becomes(n, s) == str' = [m \in DOMAIN str \cup {n} |-> IF m = n THEN s ELSE str[m]]

Create(n) ==
    /\ Running /\ n \notin DOMAIN str
    /\ Becomes(n, NewString)
    /\ fresh' = fresh \cup {n}

Set(n, t) ==
    /\ Running /\ n \in DOMAIN str /\ MayTake(n, Len(t))
    /\ Becomes(n, StringSet(str[n], t))
    /\ fresh' = fresh \ {n}

Amend(n, from, t) ==
    /\ Running /\ n \in DOMAIN str \ fresh
    /\ from \in 1 .. Len(Held(str[n])) /\ MayTake(n, from + Len(t))
    /\ Becomes(n, StringWrite(str[n], from, t))
    /\ UNCHANGED fresh

\* Zeros over the beginning, which may be the whole text and more; the size stays.
FillWith(n, size) ==
    /\ Running /\ n \in DOMAIN str /\ MayTake(n, size)
    /\ Becomes(n, StringFill(str[n], size, NUL))
    /\ fresh' = fresh \ {n}

Copy(n, to) ==
    /\ Running /\ {n, to} \subseteq DOMAIN str /\ n # to
    /\ MayTake(to, Len(Held(str[n])))
    /\ Becomes(to, CopyBuffer(str[n], str[to]))
    /\ fresh' = fresh \ {to}

Clone(n, new) ==
    /\ Running /\ n \in DOMAIN str /\ new \notin DOMAIN str
    /\ Becomes(new, StringClone(str[n]))
    /\ UNCHANGED fresh

Cut(n, from, to, new) ==
    /\ Running /\ n \in DOMAIN str /\ new \notin DOMAIN str
    /\ from < to /\ to <= Len(Held(str[n]))
    /\ Becomes(new, StringSlice(str[n], from, to))
    /\ UNCHANGED fresh

Dispose(n) ==
    /\ Running /\ n \in DOMAIN str
    /\ str' = [m \in DOMAIN str \ {n} |-> str[m]]
    /\ fresh' = fresh \ {n}

Next ==
    \E n \in Name :
        \/ Create(n) \/ Dispose(n)
        \/ \E t \in Inputs : Set(n, t)
        \/ \E size \in 1 .. 2 * Chunk : FillWith(n, size)
        \/ n \in DOMAIN str /\
            \/ \E t \in Inputs, from \in 1 .. Len(Held(str[n])) : Amend(n, from, t)
            \/ \E m \in Name : Copy(n, m) \/ Clone(n, m)
            \/ \E m \in Name, from, to \in 0 .. Len(Held(str[n])) : Cut(n, from, to, m)

Spec == Init /\ [][Next]_vars
-----------------------------------------------------------------------------
\* As the program uses strings no block is written or read outside of its bounds and
\* nothing ends the process, although p_end says less than the block (buffer.c:126) and
\* each setting of the size grows a block that is large enough (buffer.c:94).
StaysInBounds == Running

\* What zob_string_get hands out is a C string: its NUL is inside of the block, behind
\* its last byte.
EndsInNul ==
    \A n \in DOMAIN str :
        ~Failed(str[n]) => /\ str[n].size \in 1 .. Len(str[n].mem)
                           /\ str[n].mem[str[n].size] = NUL

\* Strings hold the texts the parser's model works on: what is set is Kept, what is cut
\* is a Slice, whatever the string held before.
Abstract == INSTANCE Texts WITH text <- [n \in DOMAIN str |-> Held(str[n])]
HoldTexts == Abstract!Spec

\* The searches of a text between two of its positions, the last one included.
SearchesOf(t) == {b \in [buf : {t}, first : 0 .. Len(t), last : 0 .. Len(t)] : b.first <= b.last}
Char(needle) == IF Len(needle) = 1 THEN needle[1] ELSE NUL

FoundChar(s, b, needle) == SearchChar(s.mem, Char(needle), b.first, b.last)
FoundString(s, b, needle) == SearchString(s.mem, s.size, needle, b.first, b.last)

Occurrences(b, needle) ==
    {p \in b.first .. b.last : \A i \in DOMAIN needle : At(b.buf, p + i - 1) = needle[i]}

\* Over whatever a block has gone through, the loops find what the parser's model says:
\* the least position between the bounds, or the last position, and two strings compare
\* equal when they are.  A needle that starts in the bounds is found even where it ends
\* behind them (buffer.c:283 does not look).
FindsTheLeast ==
    Running =>
        /\ \A n \in DOMAIN str, needle \in Needles : \A b \in SearchesOf(Held(str[n])) :
            LET c == FoundChar(str[n], b, needle)
                s == FoundString(str[n], b, needle)
                all == Occurrences(b, needle)
                refused == Refused(str[n].size, needle)
            IN  /\ c.found <=> Finds(b, Char(needle))
                /\ c.position = IF c.found THEN Position(b, Char(needle)) ELSE b.last
                /\ s.found <=> ~refused /\ all # {}
                /\ s.position = IF refused THEN 0 ELSE IF s.found THEN Least(all) ELSE b.last
        /\ \A n, m \in DOMAIN str : Equal(str[n], str[m]) <=> Held(str[n]) = Held(str[m])

\* No search reads behind the NUL of its text, where older bytes may be: they stop by
\* comparing with the last position for equality only (buffer.c:241, buffer.c:296), and a
\* needle is compared without looking where the text ends (buffer.c:283).
ReadsInside ==
    Running =>
        \A n \in DOMAIN str, needle \in Needles : \A b \in SearchesOf(Held(str[n])) :
            /\ FoundChar(str[n], b, needle).read < str[n].size
            /\ FoundString(str[n], b, needle).read < str[n].size
=============================================================================
