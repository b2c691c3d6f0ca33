------------------------------- MODULE MCRateLimit -------------------------------
(***********************************************************************************)
(* Instances of RateLimit: the windows of sign-in (300 s) and of the API (60 s)    *)
(* keep their order, and in RepositoryWindows, which counts minutes, their ratio.  *)
(***********************************************************************************)
EXTENDS RateLimit, TLC

MixedWindows == [login |-> 2, api |-> 1]
EqualWindows == [login |-> 2, api |-> 2]
RepositoryWindows == [login |-> 5, api |-> 1]

Deployment(backend, seconds, purge, threshold) ==
    [backend |-> backend, seconds |-> seconds, purge |-> purge, threshold |-> threshold]

\* A purge with the longer or the shorter window; dictionaries that are pruned at every
\* opportunity or have room for every request.
AllDeployments ==
    {Deployment("database", MixedWindows, 2, 0), Deployment("database", MixedWindows, 1, 0),
     Deployment("memory", EqualWindows, 1, 1),
     Deployment("memory", MixedWindows, 1, 1), Deployment("memory", MixedWindows, 1, 4)}

\* The settings of the repository with a dictionary that is full with two counters.
FullDictionary == {Deployment("memory", RepositoryWindows, 5, 1)}

SmallLimits == [login |-> 1, api |-> 2]

RequestSymmetry == Permutations(Request)
===================================================================================
