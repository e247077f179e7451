---------------------------- MODULE MCHttpSession -----------------------------
(* Requests for /A/b, and odd ones for /; registrations for /, /a, /a/b    *)
(* and /A/B.                                                               *)
EXTENDS HttpSession

A == 11
B == 12

MCPaths == {<<A - Case, B>>}

\* Fuzzy processors that shadow one another: in one case, with one for / that is
\* found by its own path and matches none of /A/b; or, the longer one first in the
\* order of bytes, in two cases.
MCRegistrations ==
  {<<Registration(Root, TRUE), Registration(<<A, B>>, TRUE), Registration(<<A>>, TRUE),
     Registration(<<A>>, TRUE)>>,
   <<Registration(<<A>>, TRUE), Registration(<<A - Case, B - Case>>, TRUE)>>}

=============================================================================
