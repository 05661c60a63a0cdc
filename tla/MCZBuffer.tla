----------------------------- MODULE MCZBuffer -----------------------------
(* ZBuffer on blocks of a few bytes. *)
EXTENDS ZBuffer

CONSTANTS t1, t2, x, y

\* Two threads share blocks: one fills a buffer and copies it, the other
\* empties and destroys the copy and may end.
Sharing ==
    [calls |-> t1 :> {<<"append", x>>, <<"copy", y>>, <<"destroy", x>>}
            @@ t2 :> {<<"popn", y>>, <<"destroy", y>>, <<"exit", nobuffer>>},
     bytes |-> 4, length |-> 4]

\* One thread makes a ring grow after references were taken out of it or moved
\* to another buffer.
Growing ==
    [calls |-> t1 :> {<<"append", x>>, <<"copy", y>>, <<"popn", y>>, <<"move", x>>}
            @@ t2 :> {},
     bytes |-> 3, length |-> 6]

\* References travel through a deque to another thread.
Dumping ==
    [calls |-> t1 :> {<<"append", x>>, <<"copy", y>>, <<"dump", y>>}
            @@ t2 :> {<<"take", nobuffer>>, <<"exit", nobuffer>>},
     bytes |-> 3, length |-> 5]

\* Blocks are filled from a descriptor and moved to another buffer.
Filling ==
    [calls |-> t1 :> {<<"read", x>>, <<"append", y>>}
            @@ t2 :> {<<"popn", x>>, <<"move", x>>, <<"exit", nobuffer>>},
     bytes |-> 4, length |-> 4]

\* Blocks are filled from a descriptor and by the caller itself; a read may
\* need several new ones and get bytes into two of them.
Reading ==
    [calls |-> t1 :> {<<"read", x>>, <<"ref", x>>}
            @@ t2 :> {<<"popn", x>>, <<"exit", nobuffer>>},
     bytes |-> 5, length |-> 5]

MCPrograms == {Sharing, Growing, Dumping, Filling, Reading}
=============================================================================
