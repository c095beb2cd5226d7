----------------------------- MODULE MergeLoop ------------------------------
(***************************************************************************)
(* mergePeers (and mergeRelays, the same code on relays) statement by      *)
(* statement: the loop over the ids to remove (normalizedIDSet), the loop  *)
(* over the current elements and the loop over the upserts, with the maps  *)
(* they keep. MapDelta uses the definition MergeByID instead; this module  *)
(* is where that definition answers to the code.                           *)
(***************************************************************************)
EXTENDS MapDelta

CONSTANTS
  Elements,  \* the peers or relays of the lists
  IDs,       \* the ids of a removal list
  MaxLen     \* bound on the length of each list

ASSUME MergeAssumption == MaxLen \in Nat

VARIABLES
  current, upserts, removeIDs,  \* the arguments, which nothing changes
  phase,    \* the loop at work: "remove", "keep", "upsert", or "done"
  pos,      \* the position of that loop
  remove,   \* the set of trimmed ids to remove
  result,   \* the list under construction
  index,    \* map from id to position in result
  seen,     \* the trimmed ids of the upserts so far
  failed    \* an error was returned

args == <<current, upserts, removeIDs>>
lvars == <<current, upserts, removeIDs, phase, pos, remove, result, index, seen, failed>>

Init ==
  /\ current \in BoundedSeq(Elements, MaxLen)
  /\ upserts \in BoundedSeq(Elements, MaxLen)
  /\ removeIDs \in BoundedSeq(IDs, MaxLen)
  /\ phase = "remove" /\ pos = 1
  /\ remove = {} /\ result = <<>> /\ index = [id \in {} |-> 0] /\ seen = {}
  /\ failed = FALSE

Fail ==
  /\ phase' = "done" /\ failed' = TRUE
  /\ UNCHANGED <<pos, remove, result, index, seen>>

\* The loop in phase "from" is over.
LoopEnds(from, list, to) ==
  /\ phase = from /\ pos > Len(list)
  /\ phase' = to /\ pos' = 1
  /\ UNCHANGED <<current, upserts, removeIDs, remove, result, index, seen, failed>>

\* Fault for RemoveID: the id is not trimmed.
RemoveRawID ==
  /\ phase = "remove" /\ pos <= Len(removeIDs)
  /\ UNCHANGED args
  /\ LET id == removeIDs[pos]
     IN  \/ (TrimSpace[id] = "" \/ id \in remove) /\ Fail
         \/ /\ TrimSpace[id] # "" /\ id \notin remove
            /\ remove' = remove \cup {id}
            /\ pos' = pos + 1
            /\ UNCHANGED <<phase, result, index, seen, failed>>

\* normalizedIDSet: one id to remove.
RemoveID ==
  /\ phase = "remove" /\ pos <= Len(removeIDs)
  /\ UNCHANGED args
  /\ LET id == TrimSpace[removeIDs[pos]]
     IN  \/ (id = "" \/ id \in remove) /\ Fail
         \/ /\ id # "" /\ id \notin remove
            /\ remove' = remove \cup {id}
            /\ pos' = pos + 1
            /\ UNCHANGED <<phase, result, index, seen, failed>>

\* The map m with v under the key k.
Put(m, k, v) == [x \in DOMAIN m \cup {k} |-> IF x = k THEN v ELSE m[x]]

\* Fault for KeepElement: an element is indexed by its position in the old list.
KeepByOldPosition ==
  /\ phase = "keep" /\ pos <= Len(current)
  /\ pos' = pos + 1
  /\ \/ /\ current[pos].id \in remove
        /\ UNCHANGED <<result, index>>
     \/ /\ current[pos].id \notin remove
        /\ index' = Put(index, current[pos].id, pos)
        /\ result' = Append(result, current[pos])
  /\ UNCHANGED <<current, upserts, removeIDs, phase, remove, seen, failed>>

\* One current element: dropped, or kept and indexed under its own id.
KeepElement ==
  /\ phase = "keep" /\ pos <= Len(current)
  /\ pos' = pos + 1
  /\ \/ /\ current[pos].id \in remove
        /\ UNCHANGED <<result, index>>
     \/ /\ current[pos].id \notin remove
        /\ index' = Put(index, current[pos].id, Len(result) + 1)
        /\ result' = Append(result, current[pos])
  /\ UNCHANGED <<current, upserts, removeIDs, phase, remove, seen, failed>>

\* One upsert: refused, put in the place the index gives, or appended.
UpsertElement ==
  /\ phase = "upsert" /\ pos <= Len(upserts)
  /\ UNCHANGED args
  /\ LET id == TrimSpace[upserts[pos].id]
     IN  \/ (id = "" \/ id \in seen) /\ Fail
         \/ /\ id # "" /\ id \notin seen
            /\ seen' = seen \cup {id}
            /\ \/ /\ id \in DOMAIN index
                  /\ result' = [result EXCEPT ![index[id]] = upserts[pos]]
                  /\ UNCHANGED index
               \/ /\ id \notin DOMAIN index
                  /\ index' = Put(index, id, Len(result) + 1)
                  /\ result' = Append(result, upserts[pos])
            /\ pos' = pos + 1
            /\ UNCHANGED <<phase, remove, failed>>

Next ==
  \/ RemoveID
  \/ LoopEnds("remove", removeIDs, "keep")
  \/ KeepElement
  \/ LoopEnds("keep", current, "upsert")
  \/ UpsertElement
  \/ LoopEnds("upsert", upserts, "done")

Spec == Init /\ [][Next]_lvars

-----------------------------------------------------------------------------

\* The loops return an error exactly for the arguments that Mergeable excludes, and
\* otherwise the list that MergeByID defines: same elements, same order.
LoopsMergeByID ==
  phase = "done" =>
    /\ failed = ~Mergeable(upserts, removeIDs)
    /\ ~failed => result = MergeByID(current, upserts, removeIDs)

\* A list whose ids carry no surrounding space.
Plain(s) == \A i \in DOMAIN s : TrimSpace[s[i].id] = s[i].id

\* What a merge is for, on ids without surrounding space and a list without duplicates:
\* no id doubled, and each id has its upsert, or its current element if neither removed
\* nor upserted, or nothing. In the presence of padded ids a merge can keep what it was
\* told to remove and double what it was told to replace.
MergeIsUpdate ==
  phase = "done" /\ ~failed /\ Plain(current) /\ Plain(upserts) /\ UniqueIDs(current) =>
    LET gone == {TrimSpace[id] : id \in ToSet(removeIDs)}
        put  == {u.id : u \in ToSet(upserts)}
    IN  /\ UniqueIDs(result)
        /\ ToSet(result) = ToSet(upserts)
                           \cup {c \in ToSet(current) : c.id \notin gone \cup put}
=============================================================================
