----------------------------- MODULE MCMapReduce ----------------------------
(***************************************************************************)
(* MapReduce on the empty file and all files of one or two short lines, on *)
(* one whose last line is behind the last block, on ones with a line of    *)
(* one letter, and on ones with white space or an empty line.              *)
(***************************************************************************)
EXTENDS MapReduce

Words == UNION {[1..n -> {1, 2}] : n \in 1..3}

SmallFiles ==
    [lines : UNION {[1..n -> Words] : n \in 1..2}, ended : BOOLEAN]

MCInputs ==
    SmallFiles
    \union [lines : {<<>>, <<<<>>>>, <<<<1>>, <<1>>, <<1>>, <<2>>>>, <<<<1, 1>>, <<>>, <<1, 1, 1>>>>}, ended : {TRUE}]
    \union [lines : {<<<<1>>, <<2, 1>>, <<2, 2>>>>, <<<<1, 1>>, <<1, 2>>, <<2>>>>,
                     <<<<1, 1>>, <<1, 2>>, <<2, 1>>, <<3, 1>>>>,
                     <<<<1, 0, 1>>, <<1, 0, 2>>>>, <<<<0, 1, 1>>, <<1, 0, 2>>, <<1, 1, 1>>>>,
                     <<<<1, 1, 0>>, <<1, 0, 1>>, <<1, 1, 1>>>>}, ended : BOOLEAN]
=============================================================================
