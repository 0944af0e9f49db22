------------------------ MODULE MCOrganizationRuntime ------------------------
\* Instances of OrganizationRuntime for TLC.
EXTENDS OrganizationRuntime, TLC

CONSTANTS root, a, b, r1, r2, x, a1, none

MCNodes == {root, a, b}
MCReqs == {r1, r2}
\* Every node has an objective of its own.
Distinct == [n \in MCNodes |-> n]
\* The two children share an objective: one may double the other.
Doubled == [n \in MCNodes |-> IF n = root THEN root ELSE x]
BetweenSiblings == {<<a, b>>, <<b, a>>}
\* The children are interchangeable, and so are the requirements.
Symmetry == Permutations({a, b}) \cup Permutations(MCReqs)
\* No guard reads the links, and of the properties checked with this view only
\* TypeOK does: states that differ in them alone are explored once.
WithoutLinks == <<status, parent, gap, held, req, deps, settled, stopped>>
=============================================================================
