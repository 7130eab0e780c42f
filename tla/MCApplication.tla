--------------------------- MODULE MCApplication ---------------------------
(* Names with and without directories, some of them the name of a module.  *)
EXTENDS Application

Program == {"zob", "zobd", "other"}

MCNames ==
    {<<p>> : p \in Program} \cup {<<".", Slash, p>> : p \in Program}
        \cup {<<Slash, d, Slash, p>> : d \in Program, p \in Program} \cup {<<Slash, "zobd">>}
=============================================================================
