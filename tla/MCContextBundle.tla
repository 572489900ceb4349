--------------------------- MODULE MCContextBundle ---------------------------
(***************************************************************************)
(* Questions on the corpus of MCLexicalIngest, with limits that some of    *)
(* them reach and some do not.                                             *)
(***************************************************************************)
EXTENDS MCLexicalIngest, LexicalTools

Anchor(book, chapter, lo, hi) == [book |-> book, chapter |-> chapter, lo |-> lo, hi |-> hi]
MCQuestions ==
  {<<Anchor("Genesis", 1, 1, 1), Anchor("John", 1, 1, 1), Anchor("Genesis", 1, 1, 1)>>,
   <<Anchor("Genesis", 1, 15, 17), Unparsed>>,
   <<Anchor("John", 1, 1, 2)>>,
   <<Anchor("Matthew", 6, 9, 9), Anchor("3 John", 1, 16, 16)>>,
   <<Anchor("3 John", 1, 1, 2), Anchor("Nowhere", 1, 1, 1)>>,
   <<Unparsed>>}
MCBookNames ==
  "Genesis" :> "Gen" @@ "John" :> "John" @@ "Matthew" :> "Matt" @@ "3 John" :> "3John"
=============================================================================
