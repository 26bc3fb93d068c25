---------------------------- MODULE MCThreadPool ----------------------------
(***************************************************************************)
(* Instances of ThreadPool for TLC.                                        *)
(***************************************************************************)
EXTENDS ThreadPool, TLC

CONSTANTS w1, w2, p1, p2, owner, other

MCWorkers == {w1, w2}

\* Workers are interchangeable, and so are the two producers.
Symmetry == Permutations(MCWorkers) \union Permutations({p1, p2})

\* One thread makes all the stop() and stopTasks() calls.
MCProducers == {p1, p2}
MCOneController == {owner}

\* Somebody else calls stopTasks(), also while the owner is in stop().
MCTwoControllers == {owner, other}

MCLongTasks == {2}
=============================================================================
