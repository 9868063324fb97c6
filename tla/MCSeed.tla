------------------------------- MODULE MCSeed -------------------------------
EXTENDS Seed, Chain, TLC

\* One of the images and one of the documents.
MayFail == {<<0>>, <<1, 2>>}

Symmetric == Permutations(Procs)
=============================================================================
