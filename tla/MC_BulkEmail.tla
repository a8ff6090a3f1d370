---------------------------- MODULE MC_BulkEmail ----------------------------
(* Two campaigns for two attendees, one mail to a batch. *)
EXTENDS BulkEmail

CONSTANTS a1, a2
=============================================================================
