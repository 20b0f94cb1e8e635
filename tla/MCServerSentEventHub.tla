------------------------ MODULE MCServerSentEventHub ------------------------
(* A small instance of ServerSentEventHub.                                  *)
EXTENDS ServerSentEventHub

CONSTANTS p1, f1, s1
=============================================================================
