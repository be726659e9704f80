--------------------------------- MODULE CallMC ---------------------------------
(* Two sets of problems an answer can have, and two tools, one of them allowed. *)
EXTENDS Call, TLC

CONSTANTS p1, p2, author, git, pytest

MCProblems == {p1, p2}
MCIds == {author}
MCTools == {git, pytest}
MCAllowed == {git}
MCAll == {"claude", "codex", "api"}
==============================================================================
