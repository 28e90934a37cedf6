------------------------------ MODULE MCLifecycle ------------------------------
(* A small instance of Lifecycle for TLC. *)
EXTENDS Lifecycle, TLC

\* A flag for one database; a variable that is unset, empty or names another.
MCFlags == {NoUrl, "postgres://db"}
MCEnvironments == {NoUrl, "", "sqlite://db"}

\* The characters of a text.
MCLength(x) == Len(x)

\* The processes differ in nothing but their names.
Symmetry == Permutations(Processes)
===============================================================================
