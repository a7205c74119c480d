----------------------------- MODULE WarehouseDiff -----------------------------
(***************************************************************************)
(* hash_diff of quality/warehouse_diff.py: two tables in two warehouses    *)
(* are compared by queries that return aggregates of partitions; what      *)
(* matches is eliminated, what differs is split until its row hashes can   *)
(* be fetched.  Keys are split by ranges (numbers, timestamps, strings) or *)
(* by prefixes of the hash of the key.  Every query is a step of its own,  *)
(* on one of the tables, and both tables may be written to in between.     *)
(*                                                                         *)
(* A key is its place, in the order of Python, among the values that a     *)
(* midpoint can name, which are finitely many between two keys.  Numbers   *)
(* and timestamps are in that order in a warehouse too; strings are in     *)
(* that of its collation, to which some of them may be equal, and both     *)
(* sides have one: AUTO takes LEXICOGRAPHIC only if they are the same      *)
(* platform.  Both platforms render a value alike.  digestOf says which    *)
(* rows the rendering confuses, such as NULL and the string <NULL> in a    *)
(* column or in the key; other hashes, and their sums, do not collide.     *)
(***************************************************************************)
EXTENDS Naturals, Sequences, FiniteSets, FiniteSetsExt

CONSTANTS
    Keys,
    NullKey,
    Values,      \* of the compared columns
    Digests,
    digestOf,    \* the hash of the row of a key with these values
    Collations,  \* the orders there may be of strings: the rank of each key
    prefixOf,    \* the digits of the hash of each key
    Digits,
    Tables,      \* the tables there may be at first
    MaxCopies,   \* bound: equal rows of one key
    MaxPartition,\* max_partition_rows
    MaxDepth,    \* max_depth
    BucketDepth, \* min(max_depth, 6)
    MaxWrites    \* bound: rows written while the diff runs

AllKeys == Keys \cup {NullKey}

(* The rows of one key: how many there are with each value.                *)
RowBags == [Values -> 0..MaxCopies]

Sides == {"source", "target"}

ASSUME DiffKeysAssumption == Keys \subseteq Nat /\ IsFiniteSet(Keys) /\ NullKey \notin Keys
ASSUME DigestsAssumption == digestOf \in [AllKeys \X Values -> Digests] /\ MaxCopies \in Nat
ASSUME CollationsAssumption == Collations \subseteq [Keys -> Nat] /\ Collations # {}
ASSUME PrefixAssumption ==
    /\ IsFiniteSet(Digits)
    /\ \A k \in AllKeys : /\ prefixOf[k] \in Seq(Digits)
                          /\ Len(prefixOf[k]) >= BucketDepth
ASSUME TablesAssumption == Tables \subseteq [Sides -> [AllKeys -> RowBags]]
ASSUME DiffBoundsAssumption ==
    MaxPartition \in Nat /\ MaxDepth \in Nat /\ BucketDepth \in Nat /\ MaxWrites \in Nat

VARIABLES
    table,    \* the rows of each table
    strategy, \* how keys are partitioned
    pushdown, \* both platforms can sum hashes
    collation,\* the order of strings in the warehouses
    diffAt,   \* where hash_diff stands
    ends,     \* the least and the greatest keys that _key_range found
    nulls,    \* it found rows without a key
    stack,
    part,     \* the partition at hand
    fetched,  \* what the latest query on the source returned for it
    larger,   \* the side with more rows, and where its middle row is
    changed, missing, extra,
    written,  \* history: the keys written since hash_diff began
    writes    \* bound used so far

diffVars == <<table, strategy, pushdown, collation, diffAt, ends, nulls, stack, part, fetched, larger,
              changed, missing, extra, written, writes>>

reportVars == <<changed, missing, extra>>
tableWriteVars == <<table, written, writes>>
choiceVars == <<strategy, pushdown, collation>>

-----------------------------------------------------------------------------

Strategies == {"RANGE", "LEXICOGRAPHIC", "HASH_BUCKET"}

(* The rows of some keys, those of one key and value numbered.             *)
RowsOf(side, keys) ==
    {row \in keys \X Values \X (1..MaxCopies) : row[3] <= table[side][row[1]][row[2]]}

RowCount(side, keys) == Cardinality(RowsOf(side, keys))

(* How many of them have each hash, whichever their key is.                *)
Signature(side, keys) ==
    [d \in Digests |-> Cardinality({row \in RowsOf(side, keys) : digestOf[<<row[1], row[2]>>] = d})]

Nothing == [d \in Digests |-> 0]

At(side, k) == Signature(side, {k})

Present(side) == {k \in AllKeys : At(side, k) # Nothing}

(* The place of a key in the order of the warehouses.                      *)
Rank(k) == IF strategy = "LEXICOGRAPHIC" THEN collation[k] ELSE k

(* Variant: the last partition is half open like the others.               *)
RangeHalfOpen(p) == {k \in Keys : Rank(p.lower) <= Rank(k) /\ Rank(k) < Rank(p.upper)}

(* _range_where.                                                           *)
InRange(p) ==
    {k \in Keys : /\ Rank(p.lower) <= Rank(k)
                  /\ IF p.closed THEN Rank(k) <= Rank(p.upper) ELSE Rank(k) < Rank(p.upper)}

(* _hash_prefix_where, on the rendered key: a missing key has a hash too.  *)
Bucket(p) == {k \in AllKeys : SubSeq(prefixOf[k], 1, Len(p.prefix)) = p.prefix}

KeysOf(p) ==
    CASE p.kind = "nulls"  -> {NullKey}
      [] p.kind = "range"  -> InRange(p)
      [] p.kind = "bucket" -> Bucket(p)

NullPartition == [kind |-> "nulls"]
RangePartition(lower, upper, depth, closed) ==
    [kind |-> "range", lower |-> lower, upper |-> upper, depth |-> depth, closed |-> closed]
BucketPartition(prefix) == [kind |-> "bucket", prefix |-> prefix]

Content(side, keys) == [k \in keys |-> At(side, k)]

DiffInit ==
    /\ table \in Tables
    /\ strategy \in Strategies
    /\ pushdown \in BOOLEAN
    /\ collation \in Collations
    /\ strategy # "LEXICOGRAPHIC" => collation = CHOOSE c \in Collations : TRUE
    /\ diffAt = "start"
    /\ ends = [least |-> {}, greatest |-> {}]
    /\ nulls = FALSE
    /\ stack = <<>>
    /\ part = NullPartition
    /\ fetched = <<>>
    /\ larger = [side |-> "source", half |-> 0]
    /\ changed = {} /\ missing = {} /\ extra = {}
    /\ written = {}
    /\ writes = 0

-----------------------------------------------------------------------------
(* The extent of the keys.                                                 *)

Least(keys) == {k \in keys : \A j \in keys : Rank(k) <= Rank(j)}
Greatest(keys) == {k \in keys : \A j \in keys : Rank(j) <= Rank(k)}

(* MIN and MAX of a side: either of two keys that the collation holds      *)
(* equal may be the one returned, and none if there are no rows.           *)
OneOf(keys) == IF keys = {} THEN {{}} ELSE {{k} : k \in keys}

EndsOf(side) ==
    LET keys == Present(side) \ {NullKey}
    IN  {[least |-> low, greatest |-> high] : low \in OneOf(Least(keys)), high \in OneOf(Greatest(keys))}

(* _key_range of the source.                                               *)
FindSourceRange ==
    /\ diffAt = "start"
    /\ strategy # "HASH_BUCKET"
    /\ ends' \in EndsOf("source")
    /\ nulls' = (NullKey \in Present("source"))
    /\ diffAt' = "ranged"
    /\ UNCHANGED <<choiceVars, stack, part, fetched, larger, reportVars, tableWriteVars>>

(* That of the target; rows without a key are a partition of their own,    *)
(* which comes first.  Which of two ends is the outer one is Python's to   *)
(* say.                                                                    *)
FindTargetRange ==
    /\ diffAt = "ranged"
    /\ \E found \in EndsOf("target") :
          ends' = [least |-> ends.least \cup found.least,
                   greatest |-> ends.greatest \cup found.greatest]
    /\ stack' = IF ends'.least = {} \/ ends'.greatest = {} THEN <<>>
                ELSE <<RangePartition(Min(ends'.least), Max(ends'.greatest), 0, TRUE)>>
    /\ part' = NullPartition
    /\ diffAt' = IF nulls \/ NullKey \in Present("target") THEN "sign" ELSE "next"
    /\ UNCHANGED <<choiceVars, nulls, fetched, larger, reportVars, tableWriteVars>>

BeginBuckets ==
    /\ diffAt = "start"
    /\ strategy = "HASH_BUCKET"
    /\ stack' = <<BucketPartition(<<>>)>>
    /\ diffAt' = "next"
    /\ UNCHANGED <<choiceVars, ends, nulls, part, fetched, larger, reportVars, tableWriteVars>>

-----------------------------------------------------------------------------
(* The loop.                                                               *)

Pop ==
    /\ diffAt = "next"
    /\ stack # <<>>
    /\ part' = stack[Len(stack)]
    /\ stack' = SubSeq(stack, 1, Len(stack) - 1)
    /\ diffAt' = "sign"
    /\ UNCHANGED <<choiceVars, ends, nulls, fetched, larger, reportVars, tableWriteVars>>

Finish ==
    /\ diffAt = "next"
    /\ stack = <<>>
    /\ diffAt' = "done"
    /\ UNCHANGED <<choiceVars, ends, nulls, stack, part, fetched, larger, reportVars, tableWriteVars>>

(* _partition_signature of the source, with its count.                     *)
SignSource ==
    /\ diffAt = "sign"
    /\ fetched' = Signature("source", KeysOf(part))
    /\ larger' = [side |-> "source", half |-> RowCount("source", KeysOf(part))]
    /\ diffAt' = "signed"
    /\ UNCHANGED <<choiceVars, ends, nulls, stack, part, reportVars, tableWriteVars>>

(* No further split: a partition of missing keys, a depth or a range that  *)
(* is used up.                                                             *)
Indivisible(p) ==
    CASE p.kind = "nulls"  -> TRUE
      [] p.kind = "range"  -> p.depth >= MaxDepth \/ p.lower = p.upper
      [] p.kind = "bucket" -> Len(p.prefix) >= BucketDepth

(* That of the target: equal counts and sums eliminate the partition.      *)
SignTarget ==
    /\ diffAt = "signed"
    /\ LET count == RowCount("target", KeysOf(part))
           largest == IF larger.half >= count THEN larger.half ELSE count
       IN  /\ diffAt' = IF /\ pushdown /\ larger.half = count
                           /\ fetched = Signature("target", KeysOf(part)) THEN "next"
                        ELSE IF largest <= MaxPartition THEN "fetch"
                        ELSE IF Indivisible(part) THEN "raised"
                        ELSE "split"
           /\ larger' = [side |-> IF larger.half >= count THEN "source" ELSE "target",
                         half |-> largest \div 2]
    /\ UNCHANGED <<choiceVars, ends, nulls, stack, part, fetched, reportVars, tableWriteVars>>

Halves(p, middle) ==
    <<RangePartition(middle, p.upper, p.depth + 1, p.closed),
      RangePartition(p.lower, middle, p.depth + 1, FALSE)>>

(* The key of the middle row of the larger side, if it is there still; of  *)
(* keys that the collation holds equal, any may be in the middle.          *)
IsBoundary(k) ==
    /\ k \in Present(larger.side)
    /\ RowCount(larger.side, {j \in KeysOf(part) : Rank(j) < Rank(k)}) <= larger.half
    /\ larger.half < RowCount(larger.side, {j \in KeysOf(part) : Rank(j) <= Rank(k)})

Middles ==
    IF strategy = "LEXICOGRAPHIC" THEN {k \in KeysOf(part) : IsBoundary(k)}
                                  ELSE {(part.lower + part.upper) \div 2}

SplitRange ==
    /\ diffAt = "split"
    /\ part.kind = "range"
    /\ \E middle \in Middles \ {part.lower, part.upper} : stack' = stack \o Halves(part, middle)
    /\ diffAt' = "next"
    /\ UNCHANGED <<choiceVars, ends, nulls, part, fetched, larger, reportVars, tableWriteVars>>

SplitRaises ==
    /\ diffAt = "split"
    /\ part.kind = "range"
    /\ Middles \subseteq {part.lower, part.upper}
    /\ diffAt' = "raised"
    /\ UNCHANGED <<choiceVars, ends, nulls, stack, part, fetched, larger, reportVars, tableWriteVars>>

(* The sixteen longer prefixes, in some order.                             *)
SplitBucket ==
    /\ diffAt = "split"
    /\ part.kind = "bucket"
    /\ \E order \in [1..Cardinality(Digits) -> Digits] :
          /\ \A d \in Digits : \E i \in DOMAIN order : order[i] = d
          /\ stack' = stack \o [i \in DOMAIN order |->
                                    BucketPartition(Append(part.prefix, order[i]))]
    /\ diffAt' = "next"
    /\ UNCHANGED <<choiceVars, ends, nulls, part, fetched, larger, reportVars, tableWriteVars>>

-----------------------------------------------------------------------------
(* compare_bounded.                                                        *)

(* _hash_rows of a side: more rows than the limit are an error.            *)
FetchSource ==
    /\ diffAt = "fetch"
    /\ diffAt' = IF RowCount("source", KeysOf(part)) > MaxPartition THEN "raised" ELSE "fetched"
    /\ fetched' = Content("source", KeysOf(part))
    /\ UNCHANGED <<choiceVars, ends, nulls, stack, part, larger, reportVars, tableWriteVars>>

FetchTargetRaises ==
    /\ diffAt = "fetched"
    /\ RowCount("target", KeysOf(part)) > MaxPartition
    /\ diffAt' = "raised"
    /\ UNCHANGED <<choiceVars, ends, nulls, stack, part, fetched, larger, reportVars, tableWriteVars>>

Compare ==
    LET left == {k \in KeysOf(part) : fetched[k] # Nothing}
        right == KeysOf(part) \cap Present("target")
    IN  /\ diffAt = "fetched"
        /\ RowCount("target", KeysOf(part)) <= MaxPartition
        /\ missing' = missing \cup (left \ right)
        /\ extra' = extra \cup (right \ left)
        /\ changed' = changed \cup {k \in left \cap right : fetched[k] # At("target", k)}
        /\ diffAt' = "next"
        /\ UNCHANGED <<choiceVars, ends, nulls, stack, part, fetched, larger, tableWriteVars>>

-----------------------------------------------------------------------------

(* Someone else writes to a table.                                         *)
WriteRow(side, k) ==
    /\ writes < MaxWrites
    /\ diffAt \notin {"done", "raised"}
    /\ \E bag \in RowBags \ {table[side][k]} : table' = [table EXCEPT ![side][k] = bag]
    /\ written' = written \cup {k}
    /\ writes' = writes + 1
    /\ UNCHANGED <<choiceVars, diffAt, ends, nulls, stack, part, fetched, larger, reportVars>>

HashDiff ==
    \/ FindSourceRange \/ FindTargetRange \/ BeginBuckets
    \/ Pop \/ Finish \/ SignSource \/ SignTarget \/ SplitRange \/ SplitRaises \/ SplitBucket
    \/ FetchSource \/ FetchTargetRaises \/ Compare

DiffNext == HashDiff \/ \E side \in Sides, k \in AllKeys : WriteRow(side, k)

DiffSpec == DiffInit /\ [][DiffNext]_diffVars

-----------------------------------------------------------------------------

(* The comparison of the rows themselves.                                  *)
Missing(k) == k \in Present("source") \ Present("target")
Extra(k) == k \in Present("target") \ Present("source")
Changed(k) == k \in Present("source") \cap Present("target") /\ At("source", k) # At("target", k)

(* A string between the two least keys, or the two greatest, of which the  *)
(* collation takes the one and Python the other for the outer.             *)
Overlooked(k) ==
    /\ strategy = "LEXICOGRAPHIC" /\ k \in Keys
    /\ \/ \E a, b \in ends.least : a < b /\ Rank(b) <= Rank(k) /\ Rank(k) < Rank(a)
       \/ \E a, b \in ends.greatest : b < a /\ Rank(a) < Rank(k) /\ Rank(k) <= Rank(b)

HasRow(k, v) == \E side \in Sides : table[side][k][v] > 0

(* A row of the key is rendered as one of another key, which is in the     *)
(* tables or was written to, and may be in the same partition.             *)
Ambiguous(k) ==
    \E j \in AllKeys \ {k}, v, w \in Values :
        /\ digestOf[<<j, w>>] = digestOf[<<k, v>>]
        /\ strategy = "HASH_BUCKET" \/ NullKey \notin {j, k}
        /\ HasRow(k, v) /\ (HasRow(j, w) \/ j \in written)

(* When hash_diff returns, each key that nobody has written to meanwhile   *)
(* and that is reported as missing, extra or changed is so; and each that  *)
(* is so is reported, unless it is overlooked for the order of strings, or *)
(* the sums confuse its rows with those of another key: no split,          *)
(* elimination or empty side loses any other, and none is reported for     *)
(* what another partition holds.                                           *)
DiffIsComplete ==
    diffAt = "done" =>
        \A k \in AllKeys \ written :
            /\ k \in missing => Missing(k)
            /\ k \in extra => Extra(k)
            /\ k \in changed => Changed(k)
            /\ \/ /\ Missing(k) => k \in missing
                  /\ Extra(k) => k \in extra
                  /\ Changed(k) => k \in changed
               \/ Overlooked(k)
               \/ pushdown /\ Ambiguous(k)
=============================================================================
