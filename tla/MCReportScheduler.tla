------------------------- MODULE MCReportScheduler -------------------------
(***************************************************************************)
(* ReportScheduler on a small instance: a DMARC domain, and a TLS domain   *)
(* with two policies.                                                      *)
(***************************************************************************)
EXTENDS ReportScheduler

CONSTANTS d, t, p1, p2
=============================================================================
