----------------------------- MODULE MCWebpage -----------------------------
(***************************************************************************)
(* A page for TLC: a comment that is no tag, a table, a tag that does not  *)
(* end, another table, a tag with white space in it, and what follows the  *)
(* last tag.                                                               *)
(***************************************************************************)
EXTENDS Webpage

CONSTANTS c1, c2

MCFile == <<"<", "x", "-", ">", "<", "#", "list", "-", ">",
            "<", "#", "list", "-", "x", "<", "#", "keys", "-", ">",
            "<", "#", " ", "status", " ", "-", ">", "x">>
MCLeadIn == <<"<", "#">>
MCLeadOut == <<"-", ">">>
MCTables == {<<"list">>, <<"keys">>}
MCTexts == {<<"status">>}
=============================================================================
