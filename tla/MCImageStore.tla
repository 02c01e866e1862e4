---------------------------- MODULE MCImageStore ----------------------------
(* ImageStore with two images, a tag, two files and two calls.             *)
EXTENDS ImageStore, TLC

Symmetry == Permutations(Calls) \cup Permutations(Refs) \cup Permutations(Files)

-----------------------------------------------------------------------------
\* "GetImageByRef looks up an image by any of its repo tags": a tag names one
\* image.  It does not hold: a tag that moved in the registry stays in the
\* record of the image it named before.
TagNamesOneImage == \A i, j \in Ids : rec[i] # NoRecord /\ rec[j] # NoRecord /\ i # j
                        => rec[i] \cap rec[j] = {}
=============================================================================
