------------------------------- MODULE MCCopy -------------------------------
(* Model-checking instance of Copy.  Liveness is checked, so there is no    *)
(* symmetry reduction.                                                      *)
EXTENDS Copy, TLC

\* The flags as an Integer, a Symbol and an Array; a misspelt one raises.
MCKeywords == {[flags |-> IntArg({}), exception |-> TRUE],
               [flags |-> SymArg("nonblock"), exception |-> TRUE],
               [flags |-> AryArg(<<"nonblock", "more">>), exception |-> FALSE],
               [flags |-> SymArg("nonblok"), exception |-> TRUE]}

\* Every method and build; the destination is an IO in some and an Integer in
\* others.
MCConf == {c \in Confs : c.int = (c.nb \/ (c.method = "splice" /\ c.from = "file"))}
=============================================================================
