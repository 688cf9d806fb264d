---------------------------- MODULE MCGitHubClient ----------------------------
(***************************************************************************)
(* The instance of GitHubClient for TLC: two concurrent callers.           *)
(***************************************************************************)
EXTENDS GitHubClientProperties

CONSTANTS c1, c2
==============================================================================
