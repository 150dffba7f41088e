----------------------------- MODULE StripSpecs -----------------------------
(***************************************************************************)
(* strip_specs.py on the token texts of module Admits: contract clauses    *)
(* off a header, whole functions out of a file, proof blocks and asserts   *)
(* out of a body.  Its scanners know //, /* */ and "..." only: comments do *)
(* not nest, and a raw string is read as a string.  Layout is left out:    *)
(* which blank lines go with what is removed.                              *)
(***************************************************************************)
EXTENDS Admits

Clauses == {"requires", "ensures", "decreases"}

---------------------------------------------------------------------------
(* Scanning.                                                               *)

SkipEnd(t, i) ==
  CASE t[i] \in Comment         -> Min({FirstIn(t, i, {"nl"}), Len(t)}) + 1
    [] t[i] = "/*"              -> Min({FirstIn(t, i, {"*/"}), Len(t)}) + 1
    [] t[i] \in {"quote", "raw"} -> StringEnd(t, i)
    [] OTHER                    -> i + 1

(* What a scan that starts at `from`, taken for code, sees as code: the     *)
(* positions, in order, and how deep in delimiters each lies.              *)
Seen(t, from) ==
  LET at[i \in 1 .. Len(t) + 1] ==
        IF i > Len(t) THEN <<>>
        ELSE (IF t[i] \in Comment \cup {"/*", "quote", "raw", "nl"} THEN <<>> ELSE <<i>>)
             \o at[SkipEnd(t, i)]
  IN  at[Min({from, Len(t) + 1})]
Levels(t, C, opening, closing) ==
  LET until[n \in 0 .. Len(C)] ==
        IF n = 0 THEN <<0>>
        ELSE LET d == until[n - 1]
             IN  Append(d, CASE t[C[n]] \in opening -> Last(d) + 1
                             [] t[C[n]] \in closing -> Last(d) - 1
                             [] OTHER -> Last(d))
  IN  until[Len(C)]

TokenAfter(t, C, i) == Min({k \in ToSet(C) : k > i} \cup {Len(t) + 1})
Is(t, i, x) == i <= Len(t) /\ t[i] = x

(* Past the delimiter that matches the one at i: _find_body_end and        *)
(* _match_delim.                                                           *)
MatchEnd(t, i, open, close) ==
  LET end(C, level) ==
        Min({C[n] : n \in {m \in DOMAIN C : t[C[m]] = close /\ level[m + 1] = 0}} \cup {Len(t)}) + 1
      scan(C) == end(C, Levels(t, C, {open}, {close}))
  IN  scan(Seen(t, i))

(* The header after its name: the clause keywords at the top level and     *)
(* where it ends, at the brace of the body or past the semicolon of a      *)
(* declaration.  Within a clause a brace opens the body after a comma      *)
(* only; otherwise it is a block of the expression.  A text that breaks     *)
(* off within a header (end = 0) is left alone, clauses or not.            *)
HeaderIn(t, C, level) ==
  LET top(S) == {n \in DOMAIN C : level[n] = 0 /\ t[C[n]] \in S}
      keywords == top(Clauses \cup {"where"})
      inline(n) == (\E m \in keywords : m < n) /\ ~(n > 1 /\ t[C[n - 1]] = ",")
      upTo(n) ==
        [end |-> CASE n = 0 -> 0 [] Is(t, C[n], ";") -> C[n] + 1 [] OTHER -> C[n],
         keywords |-> {C[k] : k \in {m \in keywords : m < n}}]
  IN  upTo(Min0(top({";"}) \cup {n \in top({"{"}) : ~inline(n)}))
_scan_header(t, from) ==
  LET scan(C) == HeaderIn(t, C, Levels(t, C, {"(", "{"}, {")", "}"}))
  IN  scan(Seen(t, from))

Headers(t, names) == {h \in DOMAIN t : t[h] \in names /\ _scan_header(t, h + 1).end # 0}
HeaderEnd(t, h) == _scan_header(t, h + 1).end
HasBody(t, h) == Is(t, HeaderEnd(t, h), "{")
BodyEnd(t, h) ==
  LET past(end) == IF Is(t, end, "{") THEN MatchEnd(t, end, "{", "}") ELSE end
  IN  past(HeaderEnd(t, h))

---------------------------------------------------------------------------
(* Clauses.                                                                *)

_clause_body_end(t, kw, next) ==
  LET j == TokenAfter(t, Seen(t, kw), kw)
  IN  IF Is(t, j, "{") THEN MatchEnd(t, j, "{", "}") ELSE next

(* Each clause goes with the comma that follows it.                        *)
ClauseEdit(t, header, kw) ==
  LET next == Min({k \in header.keywords : k > kw} \cup {header.end})
      to == _clause_body_end(t, kw, next)
  IN  [from |-> kw, to |-> IF Is(t, to, ",") THEN to ELSE to - 1, with |-> <<>>]

strip_text(t, only) ==
  LET header == [h \in Headers(t, only) |-> _scan_header(t, h + 1)]
      clauses == {c \in (DOMAIN header) \X (DOMAIN t) :
                    c[2] \in header[c[1]].keywords /\ t[c[2]] \in Clauses}
      owner(k) == CHOOSE h \in DOMAIN header : <<h, k>> \in clauses
  IN  Splice(t, [k \in {c[2] : c \in clauses} |-> ClauseEdit(t, header[owner(k)], k)])

---------------------------------------------------------------------------
(* Whole functions.                                                        *)

(* The start of the line, and of the doc comments right above it.          *)
_walk_back_doc_comments(t, i) ==
  LET from[s \in 1 .. Len(t)] ==
        IF s > 1 /\ t[LineStart(t, s - 1)] = "///" THEN from[LineStart(t, s - 1)] ELSE s
  IN  from[LineStart(t, i)]

_walk_forward_trailing(t, i) ==
  IF ~Is(t, i, "nl") THEN i ELSE IF Is(t, i + 1, "nl") THEN i + 2 ELSE i + 1

(* Doc lines with nothing left to document.                                *)
DocLine(t, i) == [from |-> i, to |-> Min({FirstIn(t, i, {"nl"}), Len(t)}), with |-> <<>>]
_drop_orphan_outer_doc_comments(t) ==
  LET next(i) == TokenAfter(t, Seen(t, FirstIn(t, i, {"nl"})), i)
      orphans == {i \in DOMAIN t : /\ t[i] = "///" /\ LineStart(t, i) = i
                                   /\ (next(i) > Len(t) \/ t[next(i)] = "}")}
  IN  Splice(t, [i \in orphans |-> DocLine(t, i)])

delete_text(t, names) ==
  LET hs == Headers(t, names)
      out == Splice(t, [h \in hs |->
               [from |-> _walk_back_doc_comments(t, h),
                to |-> _walk_forward_trailing(t, BodyEnd(t, h)) - 1, with |-> <<>>]])
  IN  IF hs = {} THEN t ELSE _drop_orphan_outer_doc_comments(out)

---------------------------------------------------------------------------
(* Proof out of bodies.                                                    *)

_stmt_semicolon_end(t, i) ==
  LET end(C, level) ==
        Min({C[n] : n \in {m \in DOMAIN C : t[C[m]] = ";" /\ level[m] = 0}} \cup {Len(t)}) + 1
      scan(C) == end(C, Levels(t, C, {"(", "{"}, {")", "}"}))
  IN  scan(Seen(t, i))

(* assert(e);   assert(e) by (..);   assert(e) by {..}   and the requires  *)
(* of a bit_vector proof.                                                  *)
AssertEnd(t, C, e) ==
  LET token(i) == TokenAfter(t, C, i - 1)
      semicolon(i) == IF Is(t, token(i), ";") THEN token(i) + 1 ELSE i
      tail(i) == IF Is(t, token(i), "requires") THEN _stmt_semicolon_end(t, token(i))
                 ELSE semicolon(i)
      after(by) ==
        CASE Is(t, by, "{") -> semicolon(MatchEnd(t, by, "{", "}"))
          [] Is(t, by, "(") -> tail(MatchEnd(t, by, "(", ")"))
          [] OTHER          -> tail(token(e) + 1)
  IN  IF Is(t, token(e), "by") THEN after(token(token(e) + 1)) ELSE tail(e)
_assert_stmt_end(t, paren) == AssertEnd(t, Seen(t, paren), MatchEnd(t, paren, "(", ")"))

_proof_spans_in_body(t, open, end) ==
  LET C == {k \in ToSet(Seen(t, open + 1)) : k < end}
      block == {k \in C : t[k] = "proof" /\ Opens(t, k + 1, "{")}
      claim == {k \in C : t[k] = "assert" /\ Opens(t, k + 1, "(")}
  IN  {[from |-> k, to |-> MatchEnd(t, NextToken(t, k + 1), "{", "}") - 1] : k \in block}
      \cup {[from |-> k, to |-> _assert_stmt_end(t, NextToken(t, k + 1)) - 1] : k \in claim}

(* An axiom keeps its body, whoever names it.  Mutant: unless it is named. *)
ProofSpansNamed(t, names) ==
  UNION {_proof_spans_in_body(t, HeaderEnd(t, h), BodyEnd(t, h)) :
           h \in {x \in Headers(t, names) : HasBody(t, x)}}
ProofSpans(t, names) ==
  UNION {_proof_spans_in_body(t, HeaderEnd(t, h), BodyEnd(t, h)) :
           h \in {x \in Headers(t, names \ Axioms) : HasBody(t, x)}}

(* Spans that overlap, of a block within a block or a function within a    *)
(* function, are merged: what goes is their union.                         *)
Without(t, spans) ==
  LET kept == SelectSeq([i \in DOMAIN t |-> i],
                        LAMBDA i : \A s \in spans : i < s.from \/ s.to < i)
  IN  [n \in DOMAIN kept |-> t[kept[n]]]
strip_proof_from_fns(t, names) == Without(t, ProofSpans(t, names))
=============================================================================
