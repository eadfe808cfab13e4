----------------------------- MODULE MCCuration -----------------------------
(***************************************************************************)
(* Corpora of three and four documents over two slices and two buckets.    *)
(* The one-line texts chain near-duplicates through the second band only,  *)
(* {2,3} ~ {1,2,3} ~ {1,3} ~ {3}, repeat spans of two words and differ in  *)
(* capitals; the others have several lines, some of them shared.           *)
(***************************************************************************)
EXTENDS CurationFlow

MinHashFns == << <<1, 0>>, <<2, 1>>, <<3, 1>>, <<4, 3>> >>
Examples == << {<<1, 3>>}, {<<0, 2>>, <<2, 1>>}, {<<3>>}, {} >>

Doc(id, text, emb, img) == [id |-> id, text |-> text, emb |-> emb, img |-> img]
Shapes ==
    << Doc(1, << <<3>> >>, 0, <<0, 0, 0>>),
       Doc(2, << <<3, 1>> >>, 1, <<0, 1, 0>>),
       Doc(3, << <<2, 13, 1>> >>, 2, <<1, 1, 0>>),
       Doc(4, << <<2, 3>> >>, 4, <<1, 1, 1>>),
       Doc(5, << <<12, 3>> >>, NULL, NULL),
       Doc(6, NULL, 3, <<0, 0, 1>>),
       Doc(7, << <<0, 2>>, <<1, 2>> >>, 3, <<1, 0, 0>>),
       Doc(8, << <<10, 2>>, <<3, 4>>, <<>> >>, 5, <<1, 0, 1>>) >>
Corpus(ids) == [i \in DOMAIN ids |-> [Shapes[ids[i]] EXCEPT !.id = i]]
WideCorpora == [1..3 -> 1..8] \cup [1..4 -> 1..3]
Ops == { "exact_dedup", "fuzzy_dedup", "semantic_dedup", "image_dedup", "quality_filter",
          "language_filter", "decontaminate", "chunk_text", "c4_line_filter",
          "corpus_line_dedup", "substring_dedup", "redact_pii" }
FlowCorpora == { <<1, 7, 3, 8>>, <<8, 2, 5, 4>>, <<6, 3, 7, 7>>, <<6, 6, 8, 2>>, <<1, 2, 3, 1>> }
Chunked == <<"chunk_text", "chunk_text">>     \* rows by the square of the lines: on one corpus
Case(ids, ops) == [table |-> Corpus(ids), steps |-> ops]
AllCases ==
    {Case(ids, <<>>) : ids \in WideCorpora}
    \cup {Case(ids, ops) : ids \in FlowCorpora, ops \in [1..2 -> Ops] \ {Chunked}}
    \cup {Case(<<6, 3, 7, 7>>, Chunked)}
=============================================================================
