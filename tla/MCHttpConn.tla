----------------------------- MODULE MCHttpConn -----------------------------
(* Instances of HttpConn for TLC. *)
EXTENDS HttpConn

R(method, path, cl, body) == [method |-> method, path |-> path, cl |-> cl, body |-> body]

\* Bodies that fit their Content-Length, are shorter, longer or too long for the
\* server, and a negative Content-Length.
MCRequests ==
    {R("GET", p, 0, <<>>) : p \in {<<>>, <<"5", "y">>, <<"5", "x">>}}
    \cup {R("POST", <<"5", "y">>, cl, <<"a", "b">>) : cl \in {-3, -1, 1, 2, 3}}
    \cup {R("POST", <<>>, 3, <<"a", "b", "c">>)}

T(method, pattern) == [method |-> method, pattern |-> pattern]

\* Newest first: routes that share a prefix with the one that matches.
MCTables ==
    {<<>>, <<T("GET", <<>>)>>,
     <<T("POST", <<"{a}", "x">>), T("GET", <<"{a}", "x">>), T("POST", <<"{b}", "y">>), T("GET", <<"{b}", "{c}">>)>>}

MCParam == {"{a}", "{b}", "{c}"}
F(key, len, long) == [key |-> key, len |-> len, long |-> long]

\* A field that needs no care, one too long for a line, and lengths that are less
\* than the body's, more, none and negative.
MCHeaders ==
    {F("X", 0, FALSE), F("X", 0, TRUE)}
    \cup {F("Content-Length", n, FALSE) : n \in {-1, 1, 3}} \cup {F("content-length", 0, FALSE)}

MCBodies == {<<>>, <<"r", "s">>, <<"r", "s", "t">>}
=============================================================================
