------------------------------ MODULE Chunking ------------------------------
(***************************************************************************)
(* chunk_document: how a document is cut into the parts that are sent for  *)
(* recognition.  Pages are counted from 0; an image is one page.           *)
(***************************************************************************)
EXTENDS Integers

LesserOf(a, b) == IF a <= b THEN a ELSE b

\* range(0, pages, maxPages).
ChunkStarts(pages, maxPages) ==
    {start \in {k * maxPages : k \in 0 .. pages} : start < pages}

ChunkPages(start, pages, maxPages) == start .. LesserOf(start + maxPages, pages) - 1
=============================================================================
