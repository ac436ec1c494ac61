---------------------------- MODULE MCIngestion ----------------------------
(***************************************************************************)
(* A small instance of Ingestion: two runs over a source that shows two    *)
(* records of one item, one of them late, and one of noise, and a source    *)
(* that announces a record of the future.                                  *)
(***************************************************************************)
EXTENDS Ingestion

Rec(s, d, n, i, g, m, z) ==
  [source |-> s, date |-> d, shown |-> n, item |-> i, gate |-> g, sem |-> m, size |-> z]

MCSources == {"arxiv", "crossref"}
MCRecords ==
  {Rec("arxiv", 0, 2, "i", "accepted", 40, 2),
   Rec("arxiv", 1, 1, "i", "borderline", 27, 3),
   Rec("arxiv", 3, 3, "j", "rejected", 0, 1),
   Rec("crossref", 3, 1, "k", "borderline", 35, 1)}
MCRuns == {1, 2}
=============================================================================
