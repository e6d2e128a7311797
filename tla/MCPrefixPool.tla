----------------------------- MODULE MCPrefixPool -----------------------------
(* Small instances of PrefixPool for TLC.                                   *)
EXTENDS PrefixPool, TLC

(* Two prompts that share their first chunk; the longer one slides the      *)
(* drafter's window.                                                        *)
MCPrompts == {<<"a", "b", "c">>, <<"a", "d">>}

MCSymmetry == Permutations(Blocks) \cup Permutations(Reqs)
=============================================================================
