---------------------------- MODULE MCOwnership ----------------------------
(* Small bodies for TLC.  Each set of forms is deep enough for one kind of *)
(* mistake; AllForms mixes them in shorter bodies.                         *)
EXTENDS Ownership

Body(params, first, later, forms, size) ==
    [params |-> params, first |-> first, kinds |-> later, forms |-> forms, size |-> size]

Own == {"own"}
OwnVar == {"own", "var"}

Moves == Body(<<>>, <<OwnVar>>, {}, {"consume", "assign", "break", "continue", "return", "if", "while"}, 8)
Drops == Body(<<Own>>, <<>>, {Own}, {"declare", "return", "break", "if", "while"}, 7)
Results == Body(<<>>, <<{"result", "var"}>>, {},
                {"read", "assign", "return", "break", "match", "while"}, 8)
Loans == Body(<<>>, <<OwnVar>>, {}, {"consume", "assign", "replace", "edit", "for", "if", "continue"}, 7)
(* while c { if d { consume($v); break } } for x in v { }, and the like.   *)
JumpLoans == Body(<<Own>>, <<>>, {}, {"consume", "for", "break", "if", "while"}, 8)
(* Values of iterators, and iterators the loop holds.                      *)
Iterators == Body(<<>>, <<OwnVar>>, {Own}, {"for", "consume", "return", "break", "continue"}, 6)
(* The error of a guard, the payloads of a match and a select.             *)
Arms == Body(<<>>, <<>>, {Own, {"result"}}, {"guard", "select", "read", "consume", "return", "while", "break"}, 6)
AllForms == Body(<<Own, {"own", "result"}>>, <<>>, {Own, OwnVar},
                 {"declare", "consume", "read", "assign", "replace", "edit", "return", "panic",
                  "break", "continue", "if", "match", "select", "guard", "while", "for"}, 4)
AllBodies == {Moves, Drops, Results, Loans, JumpLoans, Iterators, Arms, AllForms}
=============================================================================
