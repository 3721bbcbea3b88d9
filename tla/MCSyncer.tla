------------------------------ MODULE MCSyncer ------------------------------
(***************************************************************************)
(* Instance of the syncer, within the whole service, for TLC; the cfg      *)
(* gives the two times.                                                    *)
(***************************************************************************)
EXTENDS Readiness

=============================================================================
