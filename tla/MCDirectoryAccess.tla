------------------------- MODULE MCDirectoryAccess -------------------------
(* Small instances of DirectoryAccess.                                     *)
EXTENDS DirectoryAccess, TLC

CONSTANTS s1, s2, a1, a2, r1, r2, t1, x1, x2

\* A directory and one below it.
OnePath == {<<>>}
TwoPaths == {<<>>, <<"docs">>}

Manage == {"create", "update", "secret", "delete"}
FreshnessPlans == {[operations |-> {"check", "create", "delete"}, changes |-> 2]}
\* Visitors ask for directories, or enter the passwords of rules that are changed.
FailurePlans == {[operations |-> Manage \cup {"check"}, changes |-> 1],
                 [operations |-> Manage \cup {"submit"}, changes |-> 2]}
LostUpdatePlans == {[operations |-> {"create", "secret", "submit"}, changes |-> 4]}
RecreationPlans == {[operations |-> {"create", "delete", "submit"}, changes |-> 4]}

\* Administrators and request slots are interchangeable; a slot is also the tag
\* it stands for, and is permuted with it.
Symmetry == Permutations(Admins) \cup Permutations(Visitors) \cup Permutations(Servers)
=============================================================================
