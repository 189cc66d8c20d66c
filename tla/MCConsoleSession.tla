--------------------------- MODULE MCConsoleSession ---------------------------
EXTENDS ConsoleSession, TLC

CONSTANTS ann, bob
OneOfEach == {<<"http", "direct">>, <<"direct", "http">>}
Sym == Permutations(Users)
============================================================================
