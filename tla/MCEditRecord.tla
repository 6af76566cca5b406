---------------------------- MODULE MCEditRecord ----------------------------
(* Two figures and a data file. *)
EXTENDS EditRecord

MCAssets == <<"a.png", "b.png", "d.csv">>

MCDataFiles == {"d.csv"}
=============================================================================
