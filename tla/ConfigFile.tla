------------------------------ MODULE ConfigFile ------------------------------
(***************************************************************************)
(* What a configuration file says to the registered items: the traversal   *)
(* of its nodes (config/Config.cpp) and the conversion of the node "logs"  *)
(* (config/ItemConverter.hpp, log/LogConfItem.h).                          *)
(*                                                                         *)
(* A document is a function from the paths of its nodes to what is there.  *)
(* A path is the sequence of its words; a key that holds a dot is two of   *)
(* them, as it is for the code, which joins keys by dots.                  *)
(***************************************************************************)
EXTENDS Naturals, Sequences

CONSTANTS
  Invalid,       \* words with other characters than a-z, 0-9 and "_"
  Scalar,        \* a node that is a scalar
  List           \* a node that is a list where a scalar is asked for

IsNodeNameValid(path) == \A i \in DOMAIN path : path[i] \notin Invalid

\* A node with an invalid name is passed over with all that is below it.
VisitNodesDFS(doc) == {path \in DOMAIN doc : IsNodeNameValid(path)}

\* The one item whose value this project follows.
Logs == <<"logs">>

\* The names of the nodes are put into lower case only now, when all are.
SearchBase(doc) == Logs \in VisitNodesDFS(doc)

\* What a loop over a list has pushed back after each of its rounds, if it skips
\* all positions but those of a set; and at its end.
KeptUpTo(s, keep) ==
  LET upto[n \in 0 .. Len(s)] ==
        IF n = 0 THEN <<>>
        ELSE IF n \in keep THEN Append(upto[n - 1], s[n]) ELSE upto[n - 1]
  IN  upto

Kept(s, keep) == KeptUpTo(s, keep)[Len(s)]

\* A scalar has no entries.  In an entry, an outputter that is no map is left out.
Entries(node) == IF node = Scalar THEN {} ELSE DOMAIN node

Converted(node) ==
  [l \in Entries(node) |->
     [node[l] EXCEPT !.outputters = Kept(@, {i \in DOMAIN @ : @[i] # Scalar})]]

\* An entry has a level and a list of outputters and of nodes that are no maps.
IsEntry(entry) ==
  LET list == entry.outputters IN
  /\ entry = [level |-> entry.level, outputters |-> list]
  /\ list \in Seq({list[i] : i \in DOMAIN list})
  /\ \A i \in DOMAIN list : list[i] = Scalar \/ list[i] = [type |-> list[i].type, own |-> list[i].own]

\* as<std::string>() throws for what is no scalar.
Throws(node) == \E l \in Entries(node) : node[l].level = List

=============================================================================
