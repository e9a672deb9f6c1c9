--------------------------- MODULE MCLookupScan ---------------------------
(***************************************************************************)
(* LookupScan on every store of up to three records over a pool of         *)
(* patterns, and every name of up to three labels.  The pool has an exact  *)
(* name, leading and inner stars, nested ones, and two different patterns  *)
(* that are equally specific for the same name.                            *)
(***************************************************************************)
EXTENDS LookupScan

MCStar == "*"
MCType == "A"
MCTypes == {"A", "TXT"}

MCLabels == {"c", "x", "*"}
MCNames == BoundedSeq({"c", "x"}, 3)

Patterns3 == {<<"c", "*", "x">>, <<"*", "c", "x">>, <<"c", "c", "x">>}
Pool ==
    {[name |-> p, type |-> "A"] :
        p \in Patterns3 \cup {<<"*">>, <<"c">>, <<"c", "*">>, <<"*", "*">>}}
    \cup {[name |-> <<"c", "c", "x">>, type |-> "TXT"]}
MCStores == BoundedSeq(Pool, 3)
=============================================================================
