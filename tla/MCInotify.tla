----------------------------- MODULE MCInotify -----------------------------
(* Model-checking instance of Inotify.  Liveness is checked, so there is no *)
(* symmetry reduction.                                                      *)
EXTENDS Inotify, TLC

MCNewFlags == {NilArg, AryArg(<<"CLOEXEC", "NONBLOCK">>), IntArg({31})}
MCMasks == {AryArg(<<"MOVED_FROM", "MOVED_TO">>), NilArg, OtherArg}
=============================================================================
