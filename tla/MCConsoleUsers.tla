-------------------------- MODULE MCConsoleUsers ----------------------------
(* TLC instance of ConsoleUsers.                                           *)
EXTENDS ConsoleUsers
=============================================================================
