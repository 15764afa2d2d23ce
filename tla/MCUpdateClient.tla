--------------------------- MODULE MCUpdateClient ---------------------------
(* Small instances of UpdateClient.                                        *)
EXTENDS UpdateClient

CONSTANTS v1, v2, v3

\* v1 and v2 can be patched into one another, v3 can only be pulled whole.
SomeCompatible == {v1, v2} \X {v1, v2}

\* v2 has a directory where v1 has one of the same name.
OneInapplicable == {<<v1, v2>>}
=============================================================================
