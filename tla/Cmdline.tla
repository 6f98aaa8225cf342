------------------------------ MODULE Cmdline -------------------------------
(***************************************************************************)
(* The kernel command line (kernel/util/cmdline.cpp): cmdline_init splits  *)
(* it into arguments key=value,value,... and the lookups search the list.  *)
(* A string is a sequence of characters; a word of the command line may    *)
(* stand for a character.                                                  *)
(*                                                                         *)
(* Definitions whose name starts with Bug are faulty variants of the       *)
(* definition that follows them; no specification uses them.               *)
(***************************************************************************)
EXTENDS Integers, Sequences, FiniteSets, SequencesExt

\* What a pointer one past NULL points to: strchr(...) + 1 without a match.
Wild == <<"wild">>

count_chars(str, chr) == Cardinality({i \in DOMAIN str : str[i] = chr})

\* The string in front of the first chr, and the string behind the first n.
Before(str, chr) ==
  IF chr \in Range(str) THEN SubSeq(str, 1, SelectInSeq(str, LAMBDA x : x = chr) - 1)
                        ELSE str
Behind(str, chr, n) ==
  IF n = 0 THEN str
  ELSE IF count_chars(str, chr) < n THEN Wild
  ELSE LET i == CHOOSE i \in DOMAIN str :
                  str[i] = chr /\ count_chars(SubSeq(str, 1, i), chr) = n
       IN  SubSeq(str, i + 1, Len(str))

\* One value too few.
Bugparse_arg(str) ==
  LET params == Behind(str, "=", 1)
      param_count == IF "=" \in Range(str) /\ params # <<>>
                       THEN count_chars(params, ",") ELSE 0
  IN  [key |-> Before(str, "="),
       values |-> [k \in 1 .. param_count |-> Before(Behind(params, ",", k - 1), ",")]]

parse_arg(str) ==
  LET params == Behind(str, "=", 1)
      param_count == IF "=" \in Range(str) /\ params # <<>>
                       THEN count_chars(params, ",") + 1 ELSE 0
  IN  [key |-> Before(str, "="),
       values |-> [k \in 1 .. param_count |-> Before(Behind(params, ",", k - 1), ",")]]

\* The loop over the arguments ends early where the string does.
cmdline_init(cmdline) ==
  LET Rest(k) == Behind(cmdline, " ", k - 1)
      cmd_arg_count == count_chars(cmdline, " ") + 1
      parsed == {n \in 1 .. cmd_arg_count : \A k \in 1 .. n : Rest(k) # <<>>}
  IN  [k \in parsed |-> parse_arg(Before(Rest(k), " "))]

\* The values of the first argument with that name.
cmdline_get_values(arg_list, name) ==
  LET i == SelectInSeq(arg_list, LAMBDA a : a.key = name) IN
    IF i = 0 THEN <<>> ELSE arg_list[i].values

\* Some argument with that name has the value.
cmdline_has_value(arg_list, name, value) ==
  \E a \in Range(arg_list) : a.key = name /\ value \in Range(a.values)

-----------------------------------------------------------------------------
(* What the arguments stand for: the text they were written as.            *)

RECURSIVE Joined(_, _)
Joined(parts, sep) ==
  IF parts = <<>> THEN <<>>
  ELSE IF Len(parts) = 1 THEN parts[1]
  ELSE parts[1] \o <<sep>> \o Joined(Tail(parts), sep)

Written(arg) ==
  IF arg.values = <<>> THEN arg.key
                       ELSE arg.key \o <<"=">> \o Joined(arg.values, ",")

\* str without a space at its end, and without an argument's first "=" where
\* nothing follows it.
Tidied(str) ==
  LET Dropped(i) ==
        \/ str[i] = " " /\ i = Len(str)
        \/ /\ str[i] = "=" /\ (i = Len(str) \/ str[i + 1] = " ")
           /\ "=" \notin Range(Before(Reverse(SubSeq(str, 1, i - 1)), " "))
      kept == SelectSeq([i \in DOMAIN str |-> i], LAMBDA i : ~Dropped(i))
  IN  [n \in DOMAIN kept |-> str[kept[n]]]

=============================================================================
