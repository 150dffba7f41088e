------------------------------- MODULE Admits -------------------------------
(***************************************************************************)
(* lib/admits.py and the pure half of admit.py: what counts as an admit(), *)
(* and how proven source becomes an admit() skeleton.  A text is a         *)
(* sequence of tokens; the token of a function header, "proof fn f" with   *)
(* all that precedes it, is the name f.  Blanks other than newlines and    *)
(* the spelling of everything else are left out.                           *)
(***************************************************************************)
EXTENDS Integers, Sequences, FiniteSets, SequencesExt, FiniteSetsExt

CONSTANTS
  ProofFns,  (* names declared `proof fn`                                  *)
  Axioms,    (* those of them called axiom_*                               *)
  OtherFns   (* names of the spec and exec functions                       *)

ASSUME AdmitsAssumption == Axioms \subseteq ProofFns /\ ProofFns \cap OtherFns = {}

Names == ProofFns \cup OtherFns
Comment == {"//", "///"}
Quotes == {"quote", "raw"}
Openers == Comment \cup {"/*", "quote", "raw", "chr"}
Count(t, from, to, S) == Cardinality({k \in from .. to : t[k] \in S})
Min0(S) == IF S = {} THEN 0 ELSE Min(S)
FirstIn(t, from, S) == Min({k \in from .. Len(t) : t[k] \in S} \cup {Len(t) + 1})

---------------------------------------------------------------------------
(* Masking.                                                                *)

(* A quote after an odd run of backslashes does not close its string.      *)
Escaped(t, from, k) ==
  \E a \in from .. k - 1 : /\ \A j \in a .. k - 1 : t[j] = "esc"
                           /\ t[a - 1] # "esc" \/ a = from
                           /\ (k - a) % 2 = 1
StringEnd(t, i) ==
  Min({k \in i + 1 .. Len(t) : t[k] \in Quotes /\ ~Escaped(t, i + 1, k)} \cup {Len(t)}) + 1

CommentEnd(t, i) ==
  Min({k \in i .. Len(t) : t[k] = "*/" /\ Count(t, i, k, {"/*"}) = Count(t, i, k, {"*/"})}
      \cup {Len(t)}) + 1

(* Where the lexeme that starts at i ends.                                 *)
LexemeEnd(t, i) ==
  CASE t[i] \in Comment -> FirstIn(t, i, {"nl"})
    [] t[i] = "/*"      -> CommentEnd(t, i)
    [] t[i] = "quote"   -> StringEnd(t, i)
    [] t[i] = "raw"     -> Min({FirstIn(t, i + 1, Quotes), Len(t)}) + 1
    [] OTHER            -> i + 1

Live(t) ==
  LET from[i \in 1 .. Len(t) + 1] ==
        IF i > Len(t) THEN <<>>
        ELSE (IF t[i] \in Openers THEN <<>> ELSE <<i>>) \o from[LexemeEnd(t, i)]
  IN  ToSet(from[1])

strip_comments_strings(t) ==
  LET live == Live(t)
  IN  [i \in DOMAIN t |-> IF i \in live \/ t[i] = "nl" THEN t[i] ELSE "blank"]

---------------------------------------------------------------------------
(* Functions, bodies and the admits in them.  0 stands for None.           *)

LineStart(t, i) == Max({k \in 1 .. i - 1 : t[k] = "nl"} \cup {0}) + 1
Prefix(t, i) == SelectSeq(SubSeq(t, LineStart(t, i), i - 1), LAMBDA x : x # "blank")

find_matching_brace(t, b) ==
  Min0({k \in b .. Len(t) : t[k] = "}" /\ Count(t, b, k, {"{"}) = Count(t, b, k, {"}"})})

(* A brace opens the body on a line of its own, on the line of the fn, or  *)
(* after the `)` or the comma that ends the header; others belong to the   *)
(* contract.  Mutant: the first brace outside parentheses.                 *)
FirstBrace(t, fn) ==
  Min0({i \in fn .. Len(t) : t[i] = "{" /\ Count(t, fn, i, {"("}) = Count(t, fn, i, {")"})})
find_proof_fn_body_brace(t, fn) ==
  Min0({i \in fn .. Len(t) :
          /\ t[i] = "{" /\ Count(t, fn, i, {"("}) = Count(t, fn, i, {")"})
          /\ LET p == Prefix(t, i)
             IN  \/ p \in {<<>>, <<")">>} \/ (p # <<>> /\ Last(p) = ",")
                 \/ \E k \in DOMAIN p : p[k] \in Names})

Body(t, fn) ==
  LET b == find_proof_fn_body_brace(t, fn)
  IN  [open |-> b, close |-> IF b = 0 THEN 0 ELSE find_matching_brace(t, b)]

AxiomHeaders(m) == {h \in DOMAIN m : m[h] \in Axioms /\ Prefix(m, h) = <<>>}

(* One admit per line is looked at, the first: `line.find`.                *)
classify_admit_lines(t) ==
  LET m == strip_comments_strings(t)
      spans == {s \in {Body(m, h) : h \in AxiomHeaders(m)} : s.close # 0}
      lines == {i \in DOMAIN m : m[i] = "admit" /\ ~Contains(Prefix(m, i), "admit")}
      trusted == {i \in lines : \E s \in spans : s.open <= i /\ i <= s.close}
  IN  [non_axiom |-> lines \ trusted, axiom |-> trusted]

count_non_axiom(t) == Cardinality(classify_admit_lines(t).non_axiom)

(* skills/admit_inventory.py over the files of a project.                  *)
inventory_files(texts) ==
  LET n == Cardinality(UNION {{p} \X classify_admit_lines(texts[p]).non_axiom : p \in DOMAIN texts})
  IN  [okay_for_complete |-> n = 0, non_axiom_count |-> n]

---------------------------------------------------------------------------
(* Skeletons.                                                              *)

(* A function from positions to edits [from, to, with], in the order of     *)
(* the text: an edit that starts before the end of the last one still      *)
(* moves the cursor to its own end.                                        *)
Splice(t, edit) ==
  LET at == SelectSeq([i \in DOMAIN t |-> i], LAMBDA i : i \in DOMAIN edit)
      upto[n \in 0 .. Len(at)] ==
        IF n = 0 THEN [out |-> <<>>, cursor |-> 1]
        ELSE LET r == upto[n - 1]
                 e == edit[at[n]]
             IN  [out |-> r.out \o SubSeq(t, r.cursor, e.from - 1) \o e.with, cursor |-> e.to + 1]
      done(r) == r.out \o SubSeq(t, r.cursor, Len(t))
  IN  done(upto[Len(at)])

admit_proof_fn_bodies(t) ==
  Splice(t, [h \in {x \in DOMAIN t : t[x] \in ProofFns \ Axioms /\ Body(t, x).close # 0} |->
              [from |-> Body(t, h).open, to |-> Body(t, h).close,
               with |-> <<"{", "nl", "admit", "nl", "}">>]])

(* The next token that is not a newline.                                   *)
NextToken(t, i) == Min({k \in i .. Len(t) : t[k] # "nl"} \cup {Len(t) + 1})
Opens(t, i, brace) == NextToken(t, i) <= Len(t) /\ t[NextToken(t, i)] = brace

admit_proof_blocks(t) ==
  LET brace(i) == NextToken(t, i + 1)
      blocks == {i \in DOMAIN t : /\ t[i] = "proof" /\ Opens(t, i + 1, "{")
                                  /\ find_matching_brace(t, brace(i)) # 0}
  IN  Splice(t, [i \in blocks |-> [from |-> brace(i), to |-> find_matching_brace(t, brace(i)),
                                   with |-> <<"{", "admit", ";", "}">>]])

(* admit.py as the builders call it, with `auto`: the bodies of the proof   *)
(* functions in lemma and spec files, the blocks of proof in the others.   *)
resolve_mode(isLemmaPath) == IF isLemmaPath THEN "fn-bodies" ELSE "proof-blocks"
admit_text(t, mode) ==
  IF mode = "fn-bodies" THEN admit_proof_fn_bodies(t) ELSE admit_proof_blocks(t)
=============================================================================
