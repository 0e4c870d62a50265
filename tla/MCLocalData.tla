---------------------------- MODULE MCLocalData ----------------------------
(* Small instances of the parts that keep local data.  They share nothing, so  *)
(* one behaviour is a behaviour of one of them: the run costs the sum of their  *)
(* states and not the product.                                                  *)
EXTENDS ProfileStore, RssFeeds, TLC

CONSTANTS w1, w2, r, f1, f2, p1, s1, s2

VARIABLE part

Symmetry == Permutations(Windows)

\* A part that does not move starts in one state.
LocalInit ==
  /\ part \in {"profile", "feeds"} /\ Init /\ FeedsInit
  /\ part # "feeds" => subscription = [x \in Feeds |-> "active"]

LocalNext ==
  \/ part = "profile" /\ Next /\ UNCHANGED <<part, feedVars>>
  \/ part = "feeds" /\ FeedsNext /\ UNCHANGED <<part, vars>>

LocalSpec == LocalInit /\ [][LocalNext]_<<part, vars, feedVars>>
=============================================================================
