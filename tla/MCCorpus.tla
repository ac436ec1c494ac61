------------------------------ MODULE MCCorpus ------------------------------
(* Three records of one paper (two of which share no lock) and one that only *)
(* shares authors with them.                                                 *)
EXTENDS Corpus

Record(source, title, doi, arxiv, cites, byline, topics) ==
  [source |-> source, title |-> title, doi |-> doi, arxiv |-> arxiv,
   cites |-> cites, authors |-> byline, topics |-> topics]

MCRecords ==
  {Record(1, 1, 1, 1, 1, <<1>>, <<>>),
   Record(2, 2, 1, 0, 3, <<2, 3>>, <<>>),
   Record(3, 3, 0, 1, 2, <<3, 2>>, <<1>>),
   Record(4, 2, 2, 0, 0, <<3>>, <<1>>)}
MCRows == 1..4
=============================================================================
