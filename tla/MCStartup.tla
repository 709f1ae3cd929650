------------------------------ MODULE MCStartup ------------------------------
(***************************************************************************)
(* A small instance of Startup: two threads of one process, and a process  *)
(* whose release has another second migration.                             *)
(***************************************************************************)
EXTENDS Startup

MCProcessOf == [t \in Thread |-> IF t = "t3" THEN "o2" ELSE "o1"]
MCMigrations == [o \in OsProcess |-> IF o = "o1" THEN <<"a", "b">> ELSE <<"a", "c">>]
=============================================================================
