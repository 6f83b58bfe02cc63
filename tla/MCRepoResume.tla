---------------------------- MODULE MCRepoResume ----------------------------
EXTENDS RepoResume

(* FilterReposToResume against what its comment says of it: the names of   *)
(* the resume info that still exist and all that follows the last of them. *)
Kept(repos, info) ==
    LET found == info \cap repos
    IN found \cup {r \in repos : \A f \in found : r > f}

(* It is exact while every name still exists, and keeps all repositories   *)
(* when none does.  One deleted name can hide those that follow it: the    *)
(* walk moves on by one name for each repository, and is a name behind     *)
(* until it meets a repository that is not in the resume info.             *)
ASSUME FilterIsExact ==
    \A repos, info \in SUBSET (1..6) :
        info \subseteq repos \/ info \cap repos = {} => Filter(repos, info) = Kept(repos, info)

ASSUME DeletedNameHidesAnother ==
    /\ Kept({1, 3, 4, 5}, {1, 2, 3, 5}) = {1, 3, 5}
    /\ Filter({1, 3, 4, 5}, {1, 2, 3, 5}) = {1, 5}
=============================================================================
