------------------------------- MODULE Texts -------------------------------
(***************************************************************************)
(* What the strings of the program promise: named texts that are set,      *)
(* amended, copied and sliced.  The parser's model, which works on texts   *)
(* and not on memory, says with Kept and Slice what is expected of them.   *)
(***************************************************************************)
EXTENDS RequestBuilder

CONSTANTS
    Name,       \* the variables that hold strings
    Inputs      \* the C strings that are written

VARIABLE text   \* the text of each string there is

Becomes(n, t) == text' = [m \in DOMAIN text \cup {n} |-> IF m = n THEN t ELSE text[m]]

Create(n) == Becomes(n, <<>>)

Set(n, t) == n \in DOMAIN text /\ Becomes(n, Kept(t))

\* Writing from a position on cuts what is behind the bytes written.
Amend(n, from, t) ==
    /\ n \in DOMAIN text /\ from <= Len(text[n])
    /\ Becomes(n, SubSeq(text[n], 1, from) \o t)

\* Zeros do not shorten a text.
FillWith(n, size) ==
    /\ n \in DOMAIN text
    /\ Becomes(n, [i \in DOMAIN text[n] |-> IF i <= size THEN NUL ELSE text[n][i]])

Copy(n, to) == {n, to} \subseteq DOMAIN text /\ Becomes(to, text[n])

\* A clone and a slice are strings of their own.
Clone(n, new) == n \in DOMAIN text /\ Becomes(new, text[n])

Cut(n, from, to, new) ==
    /\ n \in DOMAIN text /\ IsSlice(from, to) /\ to <= Len(text[n])
    /\ Becomes(new, Slice(text[n], from, to))

Dispose(n) == text' = [m \in DOMAIN text \ {n} |-> text[m]]

Init == text = [n \in {} |-> <<>>]

Next ==
    \E n \in Name :
        \/ Create(n) \/ Dispose(n)
        \/ \E t \in Inputs : Set(n, t)
        \/ n \in DOMAIN text /\
            \/ \E size \in 0 .. Len(text[n]) : FillWith(n, size)
            \/ \E t \in Inputs, from \in 1 .. Len(text[n]) : Amend(n, from, t)
            \/ \E m \in Name : Copy(n, m) \/ Clone(n, m)
            \/ \E m \in Name, from, to \in 0 .. Len(text[n]) : Cut(n, from, to, m)

Spec == Init /\ [][Next]_text
=============================================================================
