-------------------------------- MODULE MCWeb -------------------------------
(***************************************************************************)
(* Two clients for the only connection, one of which may give up: the      *)
(* requests of the first with each of the second.                          *)
(***************************************************************************)
EXTENDS Web

CONSTANTS a, b

Get(uri) == [kind |-> "end", uri |-> uri, lines |-> 1, body |-> 0, expect |-> FALSE,
             close |-> FALSE, upgrade |-> FALSE, valid |-> TRUE]
Post(uri, body) == [Get(uri) EXCEPT !.body = body]

Steady == {<<Get("id")>>, <<Post("id", 2), Get("other")>>,
           <<[Get("id") EXCEPT !.upgrade = TRUE], Post("other", 1)>>,
           <<[Post("other", 2) EXCEPT !.expect = TRUE], [Post("id", 1) EXCEPT !.close = TRUE]>>}
Fickle == {<<Get("other")>>, <<Post("id", 2)>>, <<Get("quit")>>,
           <<[Get("id") EXCEPT !.lines = 3]>>, <<[Get("id") EXCEPT !.valid = FALSE]>>,
           <<[Post("quit", 1) EXCEPT !.expect = TRUE], Post("id", 1)>>}

MCClients == {a, b}
MCScripts == {[c \in MCClients |-> IF c = a THEN s ELSE f] : s \in Steady, f \in Fickle}
MCLeavers == {b}
MCData == <<"data 1", "data 2", "data 3", "data 4">>
=============================================================================
