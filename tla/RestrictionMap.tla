--------------------------- MODULE RestrictionMap ---------------------------
(***************************************************************************)
(* The turn-restriction index built by the EdgeBasedGraphFactory          *)
(* constructor (src/Contractor/EdgeBasedGraphFactory.cpp) and its two     *)
(* lookups. Each restriction (from, via, to, isOnly) is filed under the   *)
(* key (from, via): a new key gets a fresh bucket; a bucket that already  *)
(* holds an is-only restriction takes nothing more; an is-only            *)
(* restriction replaces whatever the bucket held. One step is one         *)
(* iteration of the BOOST_FOREACH loop.                                   *)
(***************************************************************************)
EXTENDS Naturals, Sequences, SequencesExt, TLC

CONSTANTS
    NodeIds,       \* node ids restrictions may name
    Restrictions,  \* the TurnRestriction records an input may hold
    MaxInput,      \* bound on the length of input_restrictions_list
    SpecialNode    \* UINT_MAX, the "no is-only turn" answer (a model value)

TurnRestriction ==
    [fromNode : NodeIds, viaNode : NodeIds, toNode : NodeIds, isOnly : BOOLEAN]

ASSUME
    /\ Restrictions \subseteq TurnRestriction
    /\ SpecialNode \notin NodeIds

VARIABLES
    input_restrictions_list,   \* the constructor's argument, read only
    pos,                       \* the BOOST_FOREACH position (1-based)
    m_restriction_map,         \* (from, via) -> bucket index
    m_restriction_bucket_list, \* bucket index + 1 -> <<toNode, isOnly>> entries
    m_turn_restrictions_count  \* m_turn_restrictions_count

vars == <<input_restrictions_list, pos, m_restriction_map,
          m_restriction_bucket_list, m_turn_restrictions_count>>

Key(r) == <<r.fromNode, r.viaNode>>
Target(r) == <<r.toNode, r.isOnly>>

\* m_restriction_bucket_list.at(index), with the 0-based index of the code.
Bucket(index) == m_restriction_bucket_list[index + 1]

TypeOK ==
    /\ input_restrictions_list \in BoundedSeq(Restrictions, MaxInput)
    /\ pos \in 1..(Len(input_restrictions_list) + 1)
    /\ DOMAIN m_restriction_map \subseteq NodeIds \X NodeIds
    /\ \A k \in DOMAIN m_restriction_map :
          m_restriction_map[k] \in 0..(Len(m_restriction_bucket_list) - 1)
    /\ m_restriction_bucket_list \in Seq(Seq(NodeIds \X BOOLEAN))
    /\ m_turn_restrictions_count \in Nat

Init ==
    /\ input_restrictions_list \in BoundedSeq(Restrictions, MaxInput)
    /\ pos = 1
    /\ m_restriction_map = <<>>
    /\ m_restriction_bucket_list = <<>>
    /\ m_turn_restrictions_count = 0

\* The restriction this iteration looks at.
Current == input_restrictions_list[pos]

Known == Key(Current) \in DOMAIN m_restriction_map
Index == m_restriction_map[Key(Current)]

Advance ==
    /\ pos <= Len(input_restrictions_list)
    /\ pos' = pos + 1
    /\ UNCHANGED input_restrictions_list

\* A variant that records the index the bucket will have after one more
\* resize.
NewSourceIndexAfterResize ==
    /\ Advance
    /\ ~Known
    /\ m_restriction_map' = m_restriction_map @@ (Key(Current) :> Len(m_restriction_bucket_list) + 1)
    /\ m_restriction_bucket_list' = Append(m_restriction_bucket_list, <<Target(Current)>>)
    /\ m_turn_restrictions_count' = m_turn_restrictions_count + 1

\* The key is new: index = size, resize(index + 1), emplace; then the
\* count and the push_back.
NewSource ==
    /\ Advance
    /\ ~Known
    /\ m_restriction_map' = m_restriction_map @@ (Key(Current) :> Len(m_restriction_bucket_list))
    /\ m_restriction_bucket_list' = Append(m_restriction_bucket_list, <<Target(Current)>>)
    /\ m_turn_restrictions_count' = m_turn_restrictions_count + 1

\* The bucket starts with an is-only restriction: continue.
SkipAfterIsOnly ==
    /\ Advance
    /\ Known
    /\ Head(Bucket(Index))[2]
    /\ UNCHANGED <<m_restriction_map, m_restriction_bucket_list,
                   m_turn_restrictions_count>>

\* A variant that puts an is-only restriction into the bucket beside the
\* others.
AppendIsOnly ==
    /\ Advance
    /\ Known
    /\ ~Head(Bucket(Index))[2]
    /\ Current.isOnly
    /\ m_restriction_bucket_list' =
          [m_restriction_bucket_list EXCEPT ![Index + 1] = Append(@, Target(Current))]
    /\ m_turn_restrictions_count' = m_turn_restrictions_count + 1
    /\ UNCHANGED m_restriction_map

\* A variant that clears the bucket without taking its entries off the
\* count.
ReplaceByIsOnlyKeepCount ==
    /\ Advance
    /\ Known
    /\ ~Head(Bucket(Index))[2]
    /\ Current.isOnly
    /\ m_restriction_bucket_list' =
          [m_restriction_bucket_list EXCEPT ![Index + 1] = <<Target(Current)>>]
    /\ m_turn_restrictions_count' = m_turn_restrictions_count + 1
    /\ UNCHANGED m_restriction_map

\* An is-only restriction for a bucket without one: the count drops by the
\* bucket's size, the bucket is cleared, then counted and pushed.
ReplaceByIsOnly ==
    /\ Advance
    /\ Known
    /\ ~Head(Bucket(Index))[2]
    /\ Current.isOnly
    /\ m_restriction_bucket_list' =
          [m_restriction_bucket_list EXCEPT ![Index + 1] = <<Target(Current)>>]
    /\ m_turn_restrictions_count' =
          m_turn_restrictions_count - Len(Bucket(Index)) + 1
    /\ UNCHANGED m_restriction_map

\* A plain restriction for a bucket without an is-only one: appended.
AppendRestriction ==
    /\ Advance
    /\ Known
    /\ ~Head(Bucket(Index))[2]
    /\ ~Current.isOnly
    /\ m_restriction_bucket_list' =
          [m_restriction_bucket_list EXCEPT ![Index + 1] = Append(@, Target(Current))]
    /\ m_turn_restrictions_count' = m_turn_restrictions_count + 1
    /\ UNCHANGED m_restriction_map

Next ==
    \/ NewSource
    \/ SkipAfterIsOnly
    \/ ReplaceByIsOnly
    \/ AppendRestriction

\* The loop ends once the list is consumed; nothing else changes the map.
Spec == Init /\ [][Next]_vars

Built == pos = Len(input_restrictions_list) + 1

----------------------------------------------------------------------------
(* The lookups, on the finished map.                                       *)

\* The entries of the bucket for (u, v), empty if there is none.
BucketOf(u, v) ==
    IF <<u, v>> \in DOMAIN m_restriction_map
    THEN Bucket(m_restriction_map[<<u, v>>])
    ELSE <<>>

\* A variant that answers with the first entry's target, is-only or not.
FirstTargetOfBucket(u, v) ==
    IF BucketOf(u, v) # <<>> THEN Head(BucketOf(u, v))[1] ELSE SpecialNode

\* The target of the first is-only entry of the bucket, else UINT_MAX.
CheckForEmanatingIsOnlyTurn(u, v) ==
    LET only == SelectSeq(BucketOf(u, v), LAMBDA t : t[2])
    IN  IF only # <<>> THEN Head(only)[1] ELSE SpecialNode

\* Whether some entry of the bucket, is-only or not, has target w.
CheckIfTurnIsRestricted(u, v, w) ==
    \E i \in 1..Len(BucketOf(u, v)) : BucketOf(u, v)[i][1] = w

----------------------------------------------------------------------------
(* Properties.                                                             *)

\* The spec's invariant of the map: a bucket that holds an is-only
\* restriction holds nothing else, whatever order plain and is-only
\* restrictions for the same (from, via) arrive in.
IsOnlyExclusive ==
    \A i \in 1..Len(m_restriction_bucket_list) :
        (\E j \in 1..Len(m_restriction_bucket_list[i]) : m_restriction_bucket_list[i][j][2])
            => Len(m_restriction_bucket_list[i]) = 1

\* m_turn_restrictions_count, kept by increments and by the subtraction
\* when an is-only restriction clears a bucket, is the number of entries
\* the buckets hold.
CountIsBucketTotal ==
    m_turn_restrictions_count =
        FoldLeft(LAMBDA acc, b : acc + Len(b), 0, m_restriction_bucket_list)

\* The restrictions of the input for (u, v), in input order.
InputFor(u, v) == SelectSeq(input_restrictions_list, LAMBDA r : Key(r) = <<u, v>>)

\* The first is-only restriction of the input for (u, v) fixes the only
\* allowed turn; later restrictions for (u, v) are dropped (spec, open
\* question a).
OnlyTurnOf(u, v) ==
    LET only == SelectSeq(InputFor(u, v), LAMBDA r : r.isOnly)
    IN  IF only # <<>> THEN Head(only).toNode ELSE SpecialNode

\* Once the constructor's loop is done, the two lookups answer what the
\* input says: the only allowed turn at (u, v), and whether w is named by
\* a restriction at (u, v) that the index kept.
LookupsAnswerInput ==
    Built =>
      \A u, v \in NodeIds :
        /\ CheckForEmanatingIsOnlyTurn(u, v) = OnlyTurnOf(u, v)
        /\ \A w \in NodeIds :
              CheckIfTurnIsRestricted(u, v, w) <=>
                IF OnlyTurnOf(u, v) # SpecialNode
                THEN w = OnlyTurnOf(u, v)
                ELSE \E i \in 1..Len(InputFor(u, v)) : InputFor(u, v)[i].toNode = w

=============================================================================
