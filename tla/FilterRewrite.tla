--------------------------- MODULE FilterRewrite ---------------------------
(***************************************************************************)
(* ParseFilter (src/servers/clienthandler.go): the rewrite of a "bare"    *)
(* subscription filter, such as  gas > 1000 and from = abc , into the     *)
(* braced dialect the conditions parser reads,                             *)
(* ({gas} > 1000) and ({from} == '0xabc').                                 *)
(*                                                                         *)
(* The tokenizer (padding of ( ) [ ] , = < > ! with spaces, re-joining of  *)
(* <= >= !=, trim, lowercase, split on one space) is abstracted to its     *)
(* result: a sequence of tokens in which every padded symbol is flanked    *)
(* by the empty strings the split leaves.  Whitespace the rewrite writes   *)
(* is layout and is dropped: the output is a sequence of tokens too.       *)
(*                                                                         *)
(* A filter is a tree of records; Bare(e) is what a client writes and      *)
(* Braced(e) the braced form spec 4.H and 8 say it must be turned into.    *)
(***************************************************************************)
EXTENDS Integers, Sequences, SequencesExt, Strconv

CONSTANTS Fields,      \* field names used in filters, a subset of availableFilters
          Ops,         \* comparison operators used, a subset of operators
          Values,      \* literal values written by the client
          NestValue    \* the one value of the clauses nested two levels deep

(* The package-level tables ParseFilter consults. *)
availableFilters == {"gas", "gas_price", "value", "to", "from", "method_id",
                     "type", "chain_id", "max_fee_per_gas",
                     "max_priority_fee_per_gas"}
operators == {"=", ">", "<", "!=", ">=", "<=", "in"}
operands == {"and", "or"}
Punctuation == {"(", ")", ",", "]", "["}

-----------------------------------------------------------------------------
(* The default branch: a token that is no symbol, operator, connective or *)
(* field is a value.  A non-integer of two or more characters is quoted,   *)
(* with 0x prepended unless present; anything else is written raw.         *)
QuoteValue(elem) ==
    LET isString == ~AtoiOk(elem)
    IN  CASE isString /\ Len(elem) >= 2 /\ SubSeq(elem, 1, 2) /= "0x"
               -> "'0x" \o elem \o "'"
          [] isString /\ Len(elem) >= 2 /\ SubSeq(elem, 1, 2) = "0x"
               -> "'" \o elem \o "'"
          [] OTHER -> elem

(* Mutant of RewriteElem: "=" is written as is, not doubled to "==". *)
RewriteElemNoDouble(elem) ==
    CASE elem = ""                -> <<>>
      [] elem \in Punctuation     -> <<elem>>
      [] elem \in operators       -> <<elem>>
      [] elem \in operands        -> <<")", elem>>
      [] elem \in availableFilters -> <<"(", "{" \o elem \o "}">>
      [] OTHER                    -> <<QuoteValue(elem)>>

(* One iteration of the rewrite loop: the tokens written for one element. *)
(* A connective first closes the clause before it; a field opens one.      *)
RewriteElem(elem) ==
    CASE elem = ""                -> <<>>
      [] elem \in Punctuation     -> <<elem>>
      [] elem \in operators       -> <<IF elem = "=" THEN "==" ELSE elem>>
      [] elem \in operands        -> <<")", elem>>
      [] elem \in availableFilters -> <<"(", "{" \o elem \o "}">>
      [] OTHER                    -> <<QuoteValue(elem)>>

(* The bare-dialect path of ParseFilter: every element rewritten in turn, *)
(* then one ")" closing the last clause.                                   *)
ParseFilterRewrite(toks) ==
    FlattenSeq([i \in DOMAIN toks |-> RewriteElem(toks[i])]) \o <<")">>

-----------------------------------------------------------------------------
(* Filter trees and the two dialects. *)
Clause(f, op, vals) == [kind |-> "clause", f |-> f, op |-> op, vals |-> vals]

InClauses(vs) ==
    IF "in" \in Ops
    THEN {Clause(f, "in", <<v, w>>) : f \in Fields, v \in vs, w \in vs}
    ELSE {}

ClausesOver(vs) ==
    {Clause(f, op, <<v>>) : f \in Fields, op \in Ops \ {"in"}, v \in vs}
    \cup InClauses(vs)

RECURSIVE Exprs(_, _)
(* Filters of nesting depth at most n over clauses C. *)
Exprs(n, C) ==
    IF n = 0 THEN C
    ELSE LET E == Exprs(n - 1, C)
         IN  E \cup {[kind |-> "paren", e |-> e] : e \in E}
               \cup {[kind |-> "bin", l |-> l, opnd |-> o, r |-> r]
                       : l \in E, o \in operands, r \in E}

Padded(t) == <<"", t, "">>

BareVals(c) ==
    IF c.op = "in"
    THEN Padded("[") \o <<c.vals[1]>> \o Padded(",") \o <<c.vals[2]>> \o Padded("]")
    ELSE <<c.vals[1]>>

RECURSIVE Bare(_)
(* The tokens a bare filter splits into. *)
Bare(e) ==
    CASE e.kind = "clause" -> <<e.f>> \o Padded(e.op) \o BareVals(e)
      [] e.kind = "paren"  -> Padded("(") \o Bare(e.e) \o Padded(")")
      [] e.kind = "bin"    -> Bare(e.l) \o <<"", e.opnd, "">> \o Bare(e.r)

(* Spec 4.H: a decimal literal stays a number; a hex literal becomes a    *)
(* quoted string, with 0x prepended when missing.                          *)
SpecValue(v) ==
    CASE IsDigits(v)                       -> v
      [] Len(v) >= 2 /\ SubSeq(v, 1, 2) = "0x" -> "'" \o v \o "'"
      [] OTHER                             -> "'0x" \o v \o "'"

BracedVals(c) ==
    IF c.op = "in"
    THEN <<"[", SpecValue(c.vals[1]), ",", SpecValue(c.vals[2]), "]">>
    ELSE <<SpecValue(c.vals[1])>>

RECURSIVE Braced(_)
(* The braced form: every clause parenthesised, the field in braces, the  *)
(* conditions parser's equality "==".                                      *)
Braced(e) ==
    CASE e.kind = "clause" ->
            <<"(", "{" \o e.f \o "}", IF e.op = "=" THEN "==" ELSE e.op>>
            \o BracedVals(e) \o <<")">>
      [] e.kind = "paren"  -> <<"(">> \o Braced(e.e) \o <<")">>
      [] e.kind = "bin"    -> Braced(e.l) \o <<e.opnd>> \o Braced(e.r)

(* Every filter of depth one over all clauses, and of depth two over the  *)
(* ">" clauses on NestValue.                                               *)
Inputs ==
    Exprs(1, ClausesOver(Values))
    \cup Exprs(2, {c \in ClausesOver({NestValue}) : c.op = ">"})

-----------------------------------------------------------------------------
VARIABLE filter

Init == filter \in Inputs

Next == UNCHANGED filter

Spec == Init /\ [][Next]_filter

(* Spec 8: a bare filter such as "gas > 1000 and from = abc" parses to    *)
(* what its braced form parses to.  ParseFilter's rewrite loop must turn  *)
(* the client's tokens into exactly the braced tokens, whatever the        *)
(* nesting of parentheses and connectives, and quote hex values as 4.H     *)
(* says.                                                                   *)
RewriteMatchesBraced == ParseFilterRewrite(Bare(filter)) = Braced(filter)

=============================================================================
