---------------------------- MODULE MCConsoleChange ----------------------------
EXTENDS ConsoleChange, TLC

CONSTANTS f1, f2, f3
MCKind == (f1 :> "change") @@ (f2 :> "action") @@ (f3 :> "signout")
MCStores == {[value |-> 1, extra |-> 0, siblings |-> 1, rev |-> 1]}
============================================================================
