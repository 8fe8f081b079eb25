---------------------------- MODULE ScalarOracles ----------------------------
(***************************************************************************)
(* The reference algorithms the repository keeps beside its scanners: the  *)
(* byte-at-a-time loops of scanner.rs's differential_tests, of the fuzz    *)
(* targets and of the C ABI tests, and what those harnesses assert of a    *)
(* result.  Each `while` loop is a recursive function of its loop          *)
(* variable, written from its own code: the harnesses differ in detail,    *)
(* and that they agree is a claim of its own.                              *)
(*                                                                         *)
(* Offsets are 0-based.  start.saturating_add(step) is only compared with  *)
(* the length, so the sum need not saturate here.                          *)
(***************************************************************************)
EXTENDS Records

CONSTANTS NoPosition   \* Option::None

(* The loop variable a `while` over the bytes ends with: the first offset  *)
(* at or after p holding the byte, or the length.                          *)
SkipTo(data, byte, p) ==
    LET skip[q \in 0..Len(data)] ==
            IF q < Len(data) /\ data[q + 1] # byte THEN skip[q + 1] ELSE q
    IN  skip[p]

scalar_byte_position(haystack, delimiter) ==
    LET position == SkipTo(haystack, delimiter, 0)
    IN  IF position < Len(haystack) THEN position ELSE NoPosition

scalar_single_byte_boundaries(data, chunk_size, delimiter) ==
    LET len == Len(data)
        step == MaxOf(chunk_size, 1)
        end[e \in 0..len] ==
            IF e = len THEN len
            ELSE IF data[e + 1] = delimiter THEN e + 1 ELSE end[e + 1]
        walk[start \in 0..len] ==
            IF start = len THEN <<>>
            ELSE IF start + step >= len THEN <<<<start, len>>>>
            ELSE <<<<start, end[start + step]>>>> \o walk[end[start + step]]
    IN  walk[0]

scalar_pattern_boundaries(data, chunk_size, pattern) ==
    LET len == Len(data)
        step == MaxOf(chunk_size, 1)
        end[candidate \in 0..len] ==
            IF candidate + Len(pattern) > len THEN len
            ELSE IF \A k \in 1..Len(pattern) : data[candidate + k] = pattern[k]
                 THEN candidate + Len(pattern)
                 ELSE end[candidate + 1]
        walk[start \in 0..len] ==
            IF start = len THEN <<>>
            ELSE IF start + step >= len THEN <<<<start, len>>>>
            ELSE <<<<start, end[start + step]>>>> \o walk[end[start + step]]
    IN  walk[0]

(* The fuzz targets compute `end` first and push at one place. *)
scalar_single(data, chunk_size, delimiter) ==
    LET len == Len(data)
        end(start) ==
            LET target == start + MaxOf(chunk_size, 1)
            IN  IF target >= len THEN len
                ELSE MinOf(SkipTo(data, delimiter, target) + 1, len)
        walk[start \in 0..len] ==
            IF start = len THEN <<>> ELSE <<<<start, end(start)>>>> \o walk[end(start)]
    IN  walk[0]

(* candidate runs to data.len().saturating_sub(pattern.len()): for a       *)
(* pattern longer than the data that is 0, below every target.             *)
scalar_pattern(data, chunk_size, pattern) ==
    LET len == Len(data)
        last == IF len > Len(pattern) THEN len - Len(pattern) ELSE 0
        boundary[candidate \in 0..(len + 1)] ==
            IF candidate > last THEN len
            ELSE IF MatchAt(data, pattern, candidate)
                 THEN candidate + Len(pattern)
                 ELSE boundary[candidate + 1]
        end(start) ==
            LET target == start + MaxOf(chunk_size, 1)
            IN  IF target >= len THEN len ELSE boundary[target]
        walk[start \in 0..len] ==
            IF start = len THEN <<>> ELSE <<<<start, end(start)>>>> \o walk[end(start)]
    IN  walk[0]

(* The C ABI tests search the remainder with Iterator::find. *)
naive_pattern_boundaries(data, chunk_size, delimiter) ==
    LET len == Len(data)
        end(start) ==
            LET target == start + MaxOf(chunk_size, 1)
                hits == {p \in target..(len - Len(delimiter)) :
                            MatchAt(data, delimiter, p)}
            IN  IF target >= len \/ hits = {} THEN len
                ELSE (CHOOSE p \in hits : \A q \in hits : p <= q) + Len(delimiter)
        walk[start \in 0..len] ==
            IF start = len THEN <<>> ELSE <<<<start, end(start)>>>> \o walk[end(start)]
    IN  walk[0]
------------------------------------------------------------------------------
(* A loop that also carries a variable is a function of both, one at a     *)
(* time: cuts[i][last_cut] is what iterations i, i + 1, ... still push.    *)

(* The assembly loop each partition oracle ends with. *)
CutRanges(cuts, len) ==
    LET from[k \in 1..(Len(cuts) + 1)] == [start \in 0..len |->
            IF k <= Len(cuts)
            THEN (IF cuts[k] > start THEN <<<<start, cuts[k]>>>> ELSE <<>>)
                    \o from[k + 1][cuts[k]]
            ELSE IF start < len THEN <<<<start, len>>>> ELSE <<>>]
    IN  from[1][0]

scalar_partition_boundaries(data, num_partitions, delimiter) ==
    LET len == Len(data)
        n == MinOf(num_partitions, len)
        Target(i) == (len * i) \div n
        Cut(t) ==
            IF data[t] = delimiter THEN t
            ELSE LET position == SkipTo(data, delimiter, t)
                 IN  IF position < len THEN position + 1 ELSE len
        cuts[i \in 1..n] == [last_cut \in 0..len |->
            IF i = n THEN <<>>
            ELSE IF Target(i) <= last_cut THEN cuts[i + 1][last_cut]
            ELSE LET cut == Cut(Target(i))
                 IN  IF cut = len THEN <<cut>> ELSE <<cut>> \o cuts[i + 1][cut]]
    IN  IF len = 0 \/ num_partitions = 0 THEN <<>>
        ELSE IF num_partitions = 1 THEN <<<<0, len>>>>
        ELSE CutRanges(cuts[1][0], len)

(* The fuzz target's version: an exact target never ends the loop. *)
scalar_partition(data, partitions, delimiter) ==
    LET len == Len(data)
        n == MinOf(partitions, len)
        Target(i) == (len * i) \div n
        Cut(t) == MinOf(SkipTo(data, delimiter, t) + 1, len)
        cuts[i \in 1..n] == [last_cut \in 0..len |->
            IF i = n THEN <<>>
            ELSE IF Target(i) <= last_cut THEN cuts[i + 1][last_cut]
            ELSE IF data[Target(i)] = delimiter
                 THEN <<Target(i)>> \o cuts[i + 1][Target(i)]
            ELSE IF Cut(Target(i)) = len THEN <<len>>
            ELSE <<Cut(Target(i))>> \o cuts[i + 1][Cut(Target(i))]]
    IN  IF len = 0 \/ partitions = 0 THEN <<>>
        ELSE IF partitions = 1 THEN <<<<0, len>>>>
        ELSE CutRanges(cuts[1][0], len)

(* The request is not capped at the length here. *)
scalar_partition_boundaries_pattern(data, num_partitions, pattern) ==
    LET len == Len(data)
        Target(i) == (len * i) \div num_partitions
        search[candidate \in 0..len] ==
            IF candidate + Len(pattern) > len THEN len
            ELSE IF MatchAt(data, pattern, candidate)
                 THEN candidate + Len(pattern)
                 ELSE search[candidate + 1]
        Cut(t) == IF EndsRecord(data, pattern, t) THEN t ELSE search[t]
        cuts[i \in 1..num_partitions] == [last_cut \in 0..len |->
            IF i = num_partitions THEN <<>>
            ELSE IF Target(i) <= last_cut THEN cuts[i + 1][last_cut]
            ELSE LET cut == Cut(Target(i))
                 IN  IF cut = len THEN <<cut>> ELSE <<cut>> \o cuts[i + 1][cut]]
    IN  IF len = 0 \/ num_partitions = 0 THEN <<>>
        ELSE IF num_partitions = 1 THEN <<<<0, len>>>>
        ELSE CutRanges(cuts[1][0], len)
------------------------------------------------------------------------------
(* What the harnesses assert of a result, beside equality. *)
assert_cover(data, ranges) ==
    IF data = <<>> THEN ranges = <<>> ELSE Covers(ranges, Len(data))

(* data[end - 1] == delimiter before every inner boundary. *)
assert_partition_invariants(data, num_partitions, delimiter, partitions) ==
    IF data = <<>> \/ num_partitions = 0 THEN partitions = <<>>
    ELSE /\ Len(partitions) <= num_partitions
         /\ Covers(partitions, Len(data))
         /\ \A k \in 1..(Len(partitions) - 1) : data[partitions[k][2]] = delimiter

(* data[end - pattern.len()..end] == pattern before every inner boundary.  *)
assert_partition_invariants_pattern(data, num_partitions, pattern, partitions) ==
    IF data = <<>> \/ num_partitions = 0 THEN partitions = <<>>
    ELSE /\ Len(partitions) <= num_partitions
         /\ Covers(partitions, Len(data))
         /\ \A k \in 1..(Len(partitions) - 1) :
               EndsRecord(data, pattern, partitions[k][2])

(* fuzz/fuzz_targets/fixed_extremes.rs, in u128. *)
oracle_count(file_len, chunk_size) ==
    LET size == MaxOf(chunk_size, 1)
    IN  IF file_len = 0 THEN 0 ELSE (file_len + size - 1) \div size

oracle_bounds(file_len, chunk_size, index) ==
    LET size == MaxOf(chunk_size, 1)
    IN  IF index >= oracle_count(file_len, chunk_size) THEN <<>>
        ELSE <<index * size, MinOf(index * size + size, file_len)>>
==============================================================================
