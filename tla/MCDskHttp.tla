------------------------------ MODULE MCDskHttp ------------------------------
(* Instances of DskHttp. *)
EXTENDS DskHttp

Get == [method |-> "GET", body |-> "none", n |-> 0]
HeadRequest == [method |-> "HEAD", body |-> "none", n |-> 0]
Post(body, n) == [method |-> "POST", body |-> body, n |-> n]

MCScripts == {<<Post("chunked", 1), HeadRequest>>, <<HeadRequest, Get>>, <<Get, Post("length", 2)>>,
              <<Post("chunked", 2)>>, <<Post("none", 0)>>}
Slab(n, close) == [n |-> n, body |-> TRUE, close |-> close]
Stream(close) == [n |-> -1, body |-> TRUE, close |-> close]

NoBody == [n |-> -1, body |-> FALSE, close |-> FALSE]

MCAnswers == {Slab(0, FALSE), Slab(2, TRUE), Stream(FALSE), Stream(TRUE), NoBody}
=============================================================================
