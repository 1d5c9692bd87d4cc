---------------------------- MODULE MCScrapeRuns ----------------------------
(* Instances of ScrapeRuns for TLC.                                         *)
EXTENDS ScrapeRuns

CONSTANTS m1, s1, main, social
=============================================================================
