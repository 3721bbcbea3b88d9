---------------------------- MODULE MCJWTClient ----------------------------
(***************************************************************************)
(* Instance of JWTClient for TLC.                                          *)
(***************************************************************************)
EXTENDS JWTClient

CONSTANTS c1, c2

TwoCallers == {c1, c2}

=============================================================================
