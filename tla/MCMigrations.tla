--------------------------- MODULE MCMigrations -----------------------------
(* A small instance of Migrations for TLC: the two files of the program,    *)
(* with two tables and two of the columns, and a third file that a later    *)
(* version would add.                                                       *)
EXTENDS Migrations

MCObjects == {"runs", "experiments", "task_id", "provider", "later"}
MCScript == <<<<"runs", "experiments">>, <<"task_id", "provider">>, <<"later">>>>
MCBase == [o \in MCObjects |-> IF o \in {"runs", "experiments"}
                               THEN NoObject ELSE "experiments"]
=============================================================================
