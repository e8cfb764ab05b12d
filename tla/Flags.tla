------------------------------- MODULE Flags -------------------------------
(***************************************************************************)
(* The flag arguments of the extension (ext/sleepy_penguin/util.c:         *)
(* rb_sp_get_flags, rb_sp_get_uflags) and of SleepyPenguin.splice and .tee *)
(* (lib/sleepy_penguin/splice.rb: __map_splice_flags).                     *)
(*                                                                         *)
(* A C integer of flags is the set of its bits.  A Ruby value is a record  *)
(* with its type and its contents; klass maps the names of constants to    *)
(* the bits of their values.  A conversion raises or gives bits.           *)
(***************************************************************************)
EXTENDS Naturals, Sequences

NilArg == [type |-> "nil"]
IntArg(bits) == [type |-> "integer", bits |-> bits]
SymArg(name) == [type |-> "symbol", name |-> name]
AryArg(names) == [type |-> "array", names |-> names]
OtherArg == [type |-> "other"]
ArgType == {"nil", "integer", "symbol", "array", "other"}

Bits(S) == [raises |-> FALSE, bits |-> S]
Raise == [raises |-> TRUE, bits |-> {}]

\* NUM2INT and NUM2UINT of a non-negative Integer: RangeError above the width.
ToC(bits, width) == IF bits \subseteq 0 .. width - 1 THEN Bits(bits) ELSE Raise

\* rb_const_get, which raises NameError, and the conversion of its value.
ConstGet(klass, name, width) ==
    IF name \in DOMAIN klass THEN ToC(klass[name], width) ELSE Raise

\* Mutant: the loop assigns each flag instead of adding it.
FromArrayLast(klass, names, width) ==
    IF names = <<>> THEN Bits({}) ELSE ConstGet(klass, names[Len(names)], width)

\* The loop over an Array: every element is looked up, then the bits are
\* combined.
FromArray(klass, names, width) ==
    LET got == {ConstGet(klass, names[i], width) : i \in DOMAIN names}
    IN  IF \E r \in got : r.raises THEN Raise ELSE Bits(UNION {r.bits : r \in got})

GetFlags(klass, flags, default, width) ==
    CASE flags.type = "nil"     -> Bits(default)
      [] flags.type = "integer" -> ToC(flags.bits, width)
      [] flags.type = "symbol"  -> ConstGet(klass, flags.name, width)
      [] flags.type = "array"   -> FromArray(klass, flags.names, width)
      [] flags.type = "other"   -> Raise

\* An int has 31 bits for flags, an unsigned int 32: EPOLLET and IN_ONESHOT are
\* bit 31 and only pass through the second.
rb_sp_get_flags(klass, flags, default) == GetFlags(klass, flags, default, 31)
rb_sp_get_uflags(klass, flags) == GetFlags(klass, flags, {}, 32)

\* __map_splice_flags and the NUM2UINT of __splice and __tee.  An Array goes
\* through inject; a symbol that is not in the map and nil reach NUM2UINT, which
\* raises TypeError, as a nil in inject does.
__map_splice_flags(map, flags) ==
    CASE flags.type = "symbol" /\ flags.name \in DOMAIN map -> Bits(map[flags.name])
      [] flags.type = "array"   -> FromArray(map, flags.names, 32)
      [] flags.type = "integer" -> ToC(flags.bits, 32)
      [] OTHER -> Raise

\* Reference: the bits that a caller names, whichever way it does.
Named(klass, flags) ==
    CASE flags.type = "integer" -> flags.bits
      [] flags.type = "symbol"  -> klass[flags.name]
      [] flags.type = "array"   -> UNION {klass[flags.names[i]] : i \in DOMAIN flags.names}
      [] OTHER -> {}
=============================================================================
