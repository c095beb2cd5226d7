---------------------------- MODULE MCMergeLoop -----------------------------
(***************************************************************************)
(* A small instance of MergeLoop: two ids, one of them also in its padded  *)
(* form, a blank id, and two versions of an element.                       *)
(***************************************************************************)
EXTENDS MergeLoop

MCTrimSpace ==
  [s \in {"", "a", "b"} |-> s] @@ (" a" :> "a") @@ (" " :> "")

MCElements == [id : {"a", " a", "b"}, version : {1, 2}] \cup {[id |-> " ", version |-> 1]}

MCNoKeys == [k \in {} |-> ""]
=============================================================================
