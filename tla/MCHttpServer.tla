----------------------------- MODULE MCHttpServer -----------------------------
(***************************************************************************)
(* A small instance of HttpServer with endpoints: a file and a directory   *)
(* of the same name, the home page, and what is handed everything else.    *)
(***************************************************************************)
EXTENDS HttpRouting

CONSTANT w1

TwoMethods == {"GET", "POST"}

SomeNames == {<<>>, <<"/">>, <<"a">>, <<"a", "/">>}

\* "ab" begins with a name but is none.
SomePaths == {<<>>, <<"a">>, <<"a", "/">>, <<"a", "/", "b">>, <<"a", "b">>, <<"registry">>}

RegistryPath == <<"registry">>
=============================================================================
