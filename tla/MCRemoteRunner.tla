---------------------------- MODULE MCRemoteRunner ----------------------------
(* The Windows side over two requests for the same working directory.        *)
EXTENDS RemoteRunner, TLC

CONSTANTS r1, r2, repo
MCRequest == {r1, r2}
MCDirectory == {repo}
MCcwd == [r \in MCRequest |-> repo]

MCSymmetry == Permutations(MCRequest) \cup Permutations(Command)
=============================================================================
