--------------------------- MODULE MCDeveloperGroups ---------------------------
EXTENDS DeveloperGroups, TLC

CONSTANTS ann, bob, unit, form, timer
Start == {("standard" :> s) @@ ("premium" :> {}) @@ (unit :> {ann}) : s \in {{ann}, {ann, bob}}}
Edits == {<<bob, "standard">>}
=============================================================================
