--------------------------- MODULE MCBlockUpdate ---------------------------
(***************************************************************************)
(* A transfer list for BlockUpdate, with every type of command.             *)
(***************************************************************************)
EXTENDS BlockUpdate

CONSTANTS h1, h2, h3, h4

C(type, hash, src, loads, tgt) ==
  [type |-> type, hash |-> hash, src |-> src, loads |-> loads, tgt |-> tgt]

\* Block 0 is stashed and overwritten; its stash is a part of the source of a
\* diff that overwrites the other part; a move shifts blocks 4 and 5 by one.
MCAll == << C("stash", h1, {0}, {}, {}),
            C("move",  h2, {1}, {}, {0}),
            C("new",   h1, {}, {}, {7}),
            C("diff",  h3, {2}, {h1}, {1, 2}),
            C("free",  h1, {}, {}, {}),
            C("zero",  h1, {}, {}, {3}),
            C("move",  h4, {4, 5}, {}, {5, 6}) >>
=============================================================================
