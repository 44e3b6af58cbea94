--------------------------- MODULE MCConsoleAccess ---------------------------
(* Small instances of ConsoleAccess. *)
EXTENDS ConsoleAccess, TLC

AllOperations == {"login", "request", "logout", "revokeSession", "rotateSession",
                  "changePassword", "setPassword", "deactivate", "codes", "keys"}

Symmetry == Permutations(Sessions) \cup Permutations(Requests)
=============================================================================
