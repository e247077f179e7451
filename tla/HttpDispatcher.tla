---------------------------- MODULE HttpDispatcher ----------------------------
(***************************************************************************)
(* The table of HTTP processors (reactor/HttpDispatcher.cpp): filled by    *)
(* regist() before the server runs, and read by dispatch() afterwards.     *)
(*                                                                         *)
(* A path is the sequence of what follows each of its slashes, and such a  *)
(* segment is a number: the order of the numbers is the order of the       *)
(* bytes, and segments that differ only in case are congruent modulo Case. *)
(* 0 is the empty segment: / is <<0>>, and a path that begins with it is   *)
(* one of two slashes.  A registered path holds no character that means    *)
(* something in a regular expression.                                      *)
(***************************************************************************)
EXTENDS Naturals, Sequences, SequencesExt

CONSTANTS
  Case,          \* distance of a lower-case segment from its upper-case form
  NotFound       \* the reply 404

\* One call of regist(): the path and whether fuzzy matches are wanted.
Registration(str, fuzzy) == [str |-> str, fuzzy |-> fuzzy]

\* The path / has one segment, the empty one.
Root == <<0>>

EmptyTable == [processors |-> <<>>, fuzzy |-> <<>>]

\* The assignment m[str] = hp.
Put(m, str, hp) == [s \in DOMAIN m \cup {str} |-> IF s = str THEN hp ELSE m[s]]

-----------------------------------------------------------------------------
\* Mutant: a later registration replaces the fuzzy one too.
MutOverwrite(table, str, hp) == Put(table, str, hp)

\* A path that is in the fuzzy table keeps its processor.
fuzzyRegist(table, str, hp) == IF str \in DOMAIN table THEN table ELSE Put(table, str, hp)

\* The processor is named by the number of its registration.
regist(table, r, hp) ==
  [processors |-> Put(table.processors, r.str, hp),
   fuzzy |-> IF r.fuzzy THEN fuzzyRegist(table.fuzzy, r.str, hp) ELSE table.fuzzy]

\* The regular expression (^str/+.*)|(str), without regard to case: str itself
\* and what has a further slash behind it.  That of / matches / and paths of two
\* slashes, and not /a.
Matches(str, path) ==
  LET upper(p) == [i \in DOMAIN p |-> p[i] % Case] IN IsPrefix(upper(str), upper(path))

\* The order of std::map<std::string, ...>.
Before(s, t) ==
  \/ IsStrictPrefix(s, t)
  \/ \E i \in DOMAIN s \cap DOMAIN t : s[i] < t[i] /\ \A j \in 1 .. i - 1 : s[j] = t[j]

\* The exact table first, then the first match in the order of the fuzzy one.
dispatch(table, path) ==
  LET hits == {str \in DOMAIN table.fuzzy : Matches(str, path)} IN
  IF path \in DOMAIN table.processors THEN table.processors[path]
  ELSE IF hits = {} THEN NotFound
  ELSE table.fuzzy[CHOOSE s \in hits : \A t \in hits \ {s} : Before(s, t)]

-----------------------------------------------------------------------------
\* What a caller of regist() can rely on, said of the calls and not of the
\* tables: the last processor registered for the path itself, or else one that
\* wants fuzzy matches and matches, with none for a shorter path above its own
\* and none for the same path before it.  Where all paths are registered in
\* one case that is a single one; between cases the order of bytes decides.
Expected(regs, path) ==
  LET exact == {i \in DOMAIN regs : regs[i].str = path}
      above == {i \in DOMAIN regs : regs[i].fuzzy /\ Matches(regs[i].str, path)}
      first == {i \in above : \A j \in above : IsPrefix(regs[j].str, regs[i].str)
                                               => regs[j].str = regs[i].str /\ i <= j} IN
  IF exact # {} THEN {Max(exact)} ELSE IF above # {} THEN first ELSE {NotFound}

=============================================================================
