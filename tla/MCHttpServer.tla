---------------------------- MODULE MCHttpServer ----------------------------
(* An instance of HttpServer for TLC.                                      *)
EXTENDS HttpServer, TLC

CONSTANTS Ann, Bob, a1, b1, d1

\* One session for an administrator, one for another user, one for develLogin.
MCSids   == {a1, b1, d1}
MCUserOf == (a1 :> Ann) @@ (b1 :> Bob) @@ (d1 :> Devel)
=============================================================================
