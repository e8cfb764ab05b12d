---------------------------- MODULE MCKqueueFork ----------------------------
(* Model-checking instance of KqueueFork.                                  *)
EXTENDS KqueueFork, TLC

On(f) == [filter |-> f, on |-> TRUE, form |-> "Struct"]
Off(f) == [filter |-> f, on |-> FALSE, form |-> "Struct"]
Ary(f) == [filter |-> f, on |-> TRUE, form |-> "Array"]

Lists == UNION {{<<On(f)>>, <<Off(f)>>, <<On(f), Ary(f)>>} : f \in Filter}
=============================================================================
