-------------------------- MODULE MCIngestService --------------------------
(***************************************************************************)
(* Instances of IngestService for TLC.  The devices are models of one      *)
(* maker with one serial number, the case in which the fallback matters.   *)
(***************************************************************************)
EXTENDS IngestService, TLC

CONSTANTS k1, k2, h1, h2, t1, t2, maker

KeyOne  == {k1}
KeyTwo  == {k1, k2}
SameMaker == [k \in Keys |-> maker]
AllDated == [k \in Keys |-> "sync_updated_at"]
FirstSynced == [k \in Keys |-> IF k = k1 THEN "sync_updated_at" ELSE "properties_updated_at"]
FirstUndated == [k \in Keys |-> IF k = k1 THEN "none" ELSE "properties_updated_at"]
Nothing == {}
OneHandler == {h1}
TwoHandlers == {h1, h2}
OneTag == {t1}
TwoTags == {t1, t2}

(* Handlers serve any request, and no tag is treated unlike another.       *)
Alike == Permutations(Handlers) \cup Permutations(Tags)

=============================================================================
