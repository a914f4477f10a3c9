------------------------- MODULE MCProtectiveStops -------------------------
(* Instances of ProtectiveStops for TLC: a position that is added to or     *)
(* opened anew.                                                             *)
EXTENDS ProtectiveStops

MCEntries == <<1, 1>>
=============================================================================
