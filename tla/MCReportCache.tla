--------------------------- MODULE MCReportCache ---------------------------
(* The instances of ReportCache that TLC checks. *)
EXTENDS ReportCache, TLC

CONSTANTS dashboard, bceao

\* Minutes rather than seconds: the dashboard's time to live is the shortest.
MCTTL == [k \in Reports |-> IF k = dashboard THEN 1 ELSE 3]

\* The dashboard is in both rows of the map, bceao in one.
MCPatterns == "ENTRY_POSTED" :> <<dashboard>>
           @@ "FISCAL_YEAR_CLOSED" :> <<bceao, dashboard>>

Symmetric == Permutations(Requests)

=============================================================================
