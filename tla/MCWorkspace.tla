---------------------------- MODULE MCWorkspace ----------------------------
(* A small instance of Workspace for TLC. *)
EXTENDS Workspace, TLC

CONSTANTS p1, p2, p3, ea, eb, upper, lower, t1, t2

\* Two photos of one event and one of another.
TwoEvents == p1 :> ea @@ p2 :> ea @@ p3 :> eb

\* One name in two spellings.
OneName == upper :> lower @@ lower :> lower

SomeTags == {{}, {t1}, {t2}}

\* Requests are interchangeable.
Interchangeable == Permutations(Workers)
=============================================================================
