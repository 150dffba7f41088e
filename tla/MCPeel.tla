------------------------------- MODULE MCPeel -------------------------------
(***************************************************************************)
(* The peel builder on a project of six files, one of which varies.        *)
(***************************************************************************)
EXTENDS Peel

CONSTANTS one, two

MCProof == {"axiom_a", "axiom_b", "lemma_a", "lemma_b"}
MCAxioms == {"axiom_a", "axiom_b"}
MCOther == {"map", "decompress", "helper"}
MCSpec == {"map"}

(* An axiom with blocks in its contract, and one on a line.                *)
AxiomA == <<"axiom_a", "(", ")", "nl", "requires", "(", "{", "pre", "}", ")", ",", "nl",
            "ensures", "if", "{", "post", "}", "else", "{", "post", "}", ",", "nl",
            "{", "nl", "assert", "(", "pf", ")", ";", "nl", "admit", "nl", "}", "nl">>
AxiomB == <<"axiom_b", "(", ")", "{", "admit", "}", "nl">>
(* Lemmas: documented, with a block in the contract; with comments and     *)
(* strings that hold braces and the word; already an admit.                *)
LemmaA == <<"///", "word", "nl", "lemma_a", "(", ")", "nl", "requires", "pre", ",", "nl",
            "ensures", "post", "{", "post", "}", ",", "nl", "{", "nl",
            "assert", "(", "pf", ")", "by", "{", "pf", "}", "nl", "pf", "nl", "}", "nl">>
LemmaB == <<"lemma_b", "(", ")", "nl", "{", "nl",
            "pf", "//", "admit", "nl", "admit", ";", "/*", "/*", "admit", "*/", "admit", "*/", "nl",
            "quote", "esc", "quote", "admit", "quote", "nl", "raw", "admit", "quote", "nl",
            "}", "nl">>
(* Executable code: with proof, with a nested function, with a string of   *)
(* braces; a specification; section comments.                              *)
Anchor == <<"///", "word", "nl", "decompress", "(", ")", "nl", "requires", "pre", ",", "nl",
            "ensures", "post", ",", "nl", "{", "nl", "stmt", "nl", "proof", "{", "pf", "{", "pf", "}",
            "nl", "}", "nl", "assert", "(", "pf", "(", ")", ")", "by", "(", "pf", ")", "nl",
            "requires", "pf", ",", ";", "nl", "stmt", "nl", "}", "nl">>
Helper == <<"helper", "(", ")", "{", "nl", "quote", "{", "quote", ";", "stmt", "//", "{", "proof", "nl",
            "assert", "(", "pf", ")", ";", "nl", "stmt", "}", "nl">>
Nested == <<"decompress", "(", ")", "ensures", "post", ",", "{", "nl", "let", "nl",
            "helper", "(", ")", "{", "proof", "{", "pf", "}", "stmt", "}", "nl", "proof", "{", "pf", "}",
            "stmt", "nl", "}", "nl">>
Trait == <<"helper", "(", ")", ";", "nl">>
Map == <<"///", "word", "nl", "//", "word", "nl", "map", "(", ")", "{", "def", "}", "nl">>
Section == <<"///", "word", "nl", "//", "word", "nl", "nl">>

MCPaths == {"edwards_lemmas", "field_lemmas", "axioms", "edwards", "backend_field", "specs"}
MCKind == [p \in MCPaths |->
  CASE p = "edwards_lemmas" -> "above" [] p \in {"field_lemmas", "axioms"} -> "field"
    [] p = "edwards" -> "api" [] p = "backend_field" -> "backend" [] p = "specs" -> "other"]
MCGlue == {"axioms"}
MCLemmaPaths == {"edwards_lemmas", "field_lemmas", "axioms", "specs"}
MCBranch == [d \in {one, two} |-> d]
Symmetry == Permutations({one, two})

Usual == [p \in MCPaths |->
  CASE p = "edwards_lemmas" -> LemmaA [] p = "field_lemmas" -> LemmaB [] p = "axioms" -> AxiomA
    [] p = "edwards" -> Anchor [] p = "backend_field" -> Helper [] p = "specs" -> Map \o LemmaB]
(* A lemma named in a comment, above an axiom and above executable code.   *)
MentionA == <<"/*", "lemma_a", "*/", "nl">> \o AxiomA
MentionHelper == <<"//", "lemma_a", "nl">> \o Helper
LemmaStarts == <<<<>>, AxiomA, AxiomB, Section, LemmaA, MentionA>>
LemmaEnds == <<LemmaB, LemmaA, AxiomB, Map>>
CodeStarts == <<Anchor, Nested, Trait, LemmaB>>
CodeEnds == <<<<>>, Helper, LemmaA, Trait, Map, MentionHelper>>
MCSources ==
  {[Usual EXCEPT !["edwards_lemmas"] = LemmaStarts[i] \o LemmaEnds[j],
                 !["edwards"] = CodeStarts[j] \o CodeEnds[i]] : i \in 1 .. 6, j \in 1 .. 4}

Whole(op) == [op |-> op, lemmas |-> {"lemma_a", "lemma_b"}, specs |-> {"map"},
              contracts |-> {"decompress", "lemma_a"}, bare |-> {"decompress"}]
MCManifests ==
  {[p \in {"edwards_lemmas", "edwards", "specs"} |-> Whole(op)] : op \in PROOF_OPS}
  \cup {[p \in {"edwards", "moved"} |-> Entry("admit", {"lemma_a"})]}
MCCuts == [depth : 0 .. 3, pin : {FALSE}, seal : {TRUE}]
          \cup {[depth |-> n, pin |-> TRUE, seal |-> n = 4] : n \in {3, 4}}
=============================================================================
