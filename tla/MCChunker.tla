----------------------------- MODULE MCChunker ------------------------------
(* Budgets of a few bytes, blocks below, between and above them, and a     *)
(* heading that reads like the path of two.  Blank lines may stand before  *)
(* every block and every heading.                                          *)
EXTENDS Chunker

CONSTANTS t1, t2

MCTitles == {<<t1>>, <<t1, t2>>, <<Blank>>}

Headings == scanned - Len(blocks)

\* A heading line takes a byte; what no block and no heading takes is blank.
BlankBytes ==
    length - Headings
      - FoldLeft(LAMBDA sum, b : sum + (b.end - b.start), 0, blocks)

\* A fifth block only makes three sections, and nothing in it is blank.
FifthIsThirdSection ==
    pc = "scan" /\ scanned > 4 => Headings = 2 /\ BlankBytes = 0
=============================================================================
