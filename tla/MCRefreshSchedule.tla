------------------------- MODULE MCRefreshSchedule -------------------------
(***************************************************************************)
(* RefreshSchedule over three days of some fifty slots, with the intervals *)
(* of the code in their order and proportion, and over one trading day in  *)
(* slots of five minutes.                                                  *)
(***************************************************************************)
EXTENDS RefreshSchedule

WithDaysOff == <<"weekend", "early", "holiday">>
OneDay == <<"full">>
=============================================================================
