------------------------ MODULE MCBufferedPublisher ------------------------
(***************************************************************************)
(* BufferedPublisher for TLC.                                              *)
(***************************************************************************)
EXTENDS BufferedPublisher
=============================================================================
