--------------------------- MODULE MCReportStore ---------------------------
(***************************************************************************)
(* ReportStore with two versions, the second one shorter.                  *)
(***************************************************************************)
EXTENDS ReportStore

CONSTANTS r1, r2

MCRequests == {r1, r2}
MCSize     == <<2, 1>>
=============================================================================
