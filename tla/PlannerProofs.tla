---------------------------- MODULE PlannerProofs ----------------------------
(***************************************************************************)
(* The slice planner and the byte-source planner are correct for every     *)
(* input, delimiter and request: a plan covers the file, is record aligned,*)
(* never exceeds the request and is the plan of the scalar oracles; and the*)
(* buffered search of the source planner passes over no delimiter, for every*)
(* buffer size and pattern of short reads.                                 *)
(*                                                                         *)
(* PlanInv is the inductive invariant of the slice planner.  It says of the*)
(* search loop what the properties say of the result: the cuts found so far*)
(* are strictly increasing, the last one is last_boundary and there are    *)
(* fewer of them than iterations begun; and of the assembly loop that the  *)
(* k-th range is the interval between cuts k - 1 and k.  AlignInv says of  *)
(* the cuts, and of the ranges built from them, that they end records.     *)
(*                                                                         *)
(* SearchInv is the one of the buffered search.  NoMatchSkipped alone is not*)
(* inductive: advancing by one byte after a probe no longer than the       *)
(* delimiter is sound only because such a probe held a whole delimiter,    *)
(* which needs probe_len >= dlen, a probe that was filled completely, and a*)
(* target inside the file.  The buffered planner keeps PlanInv too,        *)
(* whatever it reads, with a search under way standing for one step of the *)
(* loop (SourcePlanInv), and AlignInv if the file is stable: a plan is as  *)
(* good whichever source it is made from.                                  *)
(***************************************************************************)
EXTENDS SourcePlanner, PartitionDifferential, OracleTheorems, TLAPS

------------------------------------------------------------------------------
CutsOK ==
    /\ \A k \in 1..Len(boundaries) : 0 < boundaries[k] /\ boundaries[k] <= file_len
    /\ \A k, m \in 1..Len(boundaries) : k < m => boundaries[k] < boundaries[m]

(* Where range k starts. *)
CutBefore(k) == IF k = 1 THEN 0 ELSE boundaries[k - 1]

RangesOK(count) ==
    /\ Len(partitions) = count
    /\ \A k \in 1..count : partitions[k] = <<CutBefore(k), boundaries[k]>>

Searching ==
    /\ file_len > 0 /\ parts > 1
    /\ n = MinOf(parts, file_len)

StartInv ==
    pc = "start" =>
        /\ n = 0 /\ i = 1 /\ last_boundary = 0 /\ boundaries = <<>>
        /\ j = 1 /\ prev = 0 /\ partitions = <<>>

(* Between two cuts of the search loop. *)
InLoop ==
    /\ Searching
    /\ i <= n /\ Len(boundaries) < i
    /\ last_boundary = CutBefore(Len(boundaries) + 1)
    /\ j = 1 /\ prev = 0 /\ partitions = <<>>

LoopInv == pc = "loop" => InLoop

AssembleInv ==
    pc = "assemble" =>
        /\ Searching
        /\ Len(boundaries) < n
        /\ j <= Len(boundaries) + 1
        /\ prev = CutBefore(j)
        /\ RangesOK(j - 1)

DoneInv ==
    pc = "done" => Coverage /\ AtMostRequested

PlanInv ==
    TypeOK /\ CutsOK /\ StartInv /\ LoopInv /\ AssembleInv /\ DoneInv

(* What the bytes have to do with it: every cut inside the file, and so    *)
(* every range built from one, ends a record.                              *)
AlignInv ==
    /\ \A k \in 1..Len(boundaries) :
          boundaries[k] < file_len => EndsRecord(data, delim, boundaries[k])
    /\ RecordAligned

(* What a cut is appended to, here in one step and in the byte-source      *)
(* planner after a search that takes many.                                 *)
LoopState ==
    /\ data \in Seq(Byte) /\ delim \in Seq(Byte) \ {<<>>} /\ parts \in Nat
    /\ n \in 0..file_len /\ i \in Nat \ {0}
    /\ last_boundary \in 0..file_len
    /\ boundaries \in Seq(0..file_len)
    /\ CutsOK /\ InLoop
------------------------------------------------------------------------------
(* A call that has not begun satisfies the invariant. *)
LEMMA InitPlan == Init => PlanInv
  <1> SUFFICES ASSUME Init PROVE PlanInv
    OBVIOUS
  <1>1. TypeOK
    BY InputAssumption DEF Init, TypeOK, file_len
  <1> QED
    BY <1>1 DEF Init, PlanInv, CutsOK, StartInv, LoopInv, InLoop, AssembleInv, DoneInv,
       file_len

(* The loop of the slice planner is in that state. *)
LEMMA LoopStateHolds ==
    ASSUME PlanInv, pc = "loop"
    PROVE  LoopState
  BY DEF PlanInv, TypeOK, LoopInv, LoopState

(* What the search loop may append: an offset beyond the last cut. *)
LEMMA PushKeepsCuts ==
    ASSUME LoopState, NEW b \in 1..file_len, b > last_boundary,
           boundaries' = Append(boundaries, b), UNCHANGED args
    PROVE  /\ CutsOK'
           /\ boundaries' \in Seq(0..file_len)
           /\ Len(boundaries') = Len(boundaries) + 1
           /\ boundaries'[Len(boundaries) + 1] = b
  <1>1. boundaries \in Seq(0..file_len) /\ file_len \in Nat
    BY DEF LoopState, file_len
  <1>2. /\ boundaries' \in Seq(0..file_len)
        /\ Len(boundaries') = Len(boundaries) + 1
        /\ boundaries'[Len(boundaries) + 1] = b
        /\ \A k \in 1..Len(boundaries) : boundaries'[k] = boundaries[k]
    BY <1>1
  <1>3. \A k \in 1..Len(boundaries) : boundaries[k] <= last_boundary
    <2> TAKE k \in 1..Len(boundaries)
    <2>1. last_boundary = boundaries[Len(boundaries)]
      BY <1>1 DEF LoopState, InLoop, CutBefore
    <2>2. \A m \in 1..Len(boundaries) : k < m => boundaries[k] < boundaries[m]
      BY DEF LoopState, CutsOK
    <2>3. Len(boundaries) \in 1..Len(boundaries) /\ boundaries[k] \in Nat
          /\ (k < Len(boundaries) \/ k = Len(boundaries))
      BY <1>1
    <2>4. boundaries[Len(boundaries)] \in Nat
      BY <1>1, <2>3
    <2> QED
      BY <2>1, <2>2, <2>3, <2>4
  <1>4. file_len' = file_len
    BY DEF args, file_len
  <1>5. \A k \in 1..Len(boundaries') : 0 < boundaries'[k] /\ boundaries'[k] <= file_len
    BY <1>1, <1>2 DEF LoopState, CutsOK
  <1>6. \A k, m \in 1..Len(boundaries') : k < m => boundaries'[k] < boundaries'[m]
    <2> TAKE k, m \in 1..Len(boundaries')
    <2> HAVE k < m
    <2>1. CASE m <= Len(boundaries)
      BY <1>1, <1>2, <2>1 DEF LoopState, CutsOK
    <2>2. CASE m = Len(boundaries) + 1
      <3>1. k \in 1..Len(boundaries) /\ boundaries'[k] <= last_boundary
        BY <1>1, <1>2, <1>3, <2>2
      <3>2. boundaries'[k] \in Nat /\ boundaries'[m] = b
        BY <1>1, <1>2, <2>2
      <3>3. last_boundary \in Nat /\ b \in Nat /\ last_boundary < b
        BY <1>1 DEF LoopState
      <3> QED
        BY <3>1, <3>2, <3>3
    <2>3. m <= Len(boundaries) \/ m = Len(boundaries) + 1
      BY <1>1, <1>2, SMTT(60)
    <2> QED
      BY <2>1, <2>2, <2>3
  <1>7. CutsOK'
    BY <1>4, <1>5, <1>6 DEF CutsOK
  <1> QED
    BY <1>2, <1>7

(* A cut that is pushed in the loop keeps it. *)
LEMMA SearchPushKeeps ==
    ASSUME LoopState, i < n, NEW b \in 1..file_len, b > last_boundary,
           PushBoundary(b), pc' = "loop"
    PROVE  PlanInv'
  <1>1. /\ CutsOK'
        /\ boundaries' \in Seq(0..file_len)
        /\ Len(boundaries') = Len(boundaries) + 1
        /\ boundaries'[Len(boundaries) + 1] = b
    BY PushKeepsCuts DEF PushBoundary
  <1>2. /\ file_len' = file_len /\ data' = data /\ delim' = delim /\ parts' = parts
        /\ n' = n /\ j' = j /\ prev' = prev /\ partitions' = partitions
        /\ i' = i + 1 /\ last_boundary' = b /\ pc' = "loop"
    BY DEF PushBoundary, args, assembly, file_len
  <1>3. file_len \in Nat /\ Len(boundaries) \in Nat /\ i \in Nat /\ n \in Nat
    BY DEF LoopState, file_len
  <1>4. TypeOK'
    BY <1>1, <1>2, <1>3 DEF LoopState, InLoop, TypeOK
  <1>5. LoopInv'
    <2>1. CutBefore(Len(boundaries) + 1)' = b
      BY <1>1, <1>3 DEF CutBefore
    <2>2. Searching' /\ j' = 1 /\ prev' = 0 /\ partitions' = <<>>
      BY <1>2 DEF LoopState, InLoop, Searching
    <2>3. Len(boundaries) < i
      BY DEF LoopState, InLoop
    <2>4. i' <= n' /\ Len(boundaries') < i'
      BY <1>1, <1>2, <1>3, <2>3
    <2>5. last_boundary' = CutBefore(Len(boundaries) + 1)'
      BY <1>2, <2>1
    <2> QED
      BY <2>2, <2>4, <2>5 DEF LoopInv, InLoop
  <1> QED
    BY <1>1, <1>2, <1>4, <1>5 DEF PlanInv, StartInv, AssembleInv, DoneInv

(* So does the cut at EOF that ends it. *)
LEMMA LastCutKeeps ==
    ASSUME LoopState, i < n, file_len > last_boundary,
           boundaries' = Append(boundaries, file_len), pc' = "assemble",
           UNCHANGED <<args, n, i, last_boundary, assembly>>
    PROVE  PlanInv'
  <1>1. file_len \in 1..file_len
    BY DEF LoopState, InLoop, Searching, file_len
  <1>2. /\ CutsOK'
        /\ boundaries' \in Seq(0..file_len)
        /\ Len(boundaries') = Len(boundaries) + 1
    BY <1>1, PushKeepsCuts
  <1>3. file_len' = file_len
    BY DEF args, file_len
  <1>4. /\ j' = 1 /\ prev' = 0 /\ partitions' = <<>> /\ n' = n /\ parts' = parts
    BY DEF LoopState, InLoop, assembly, args
  <1>5. TypeOK'
    BY <1>1, <1>2, <1>3, <1>4 DEF LoopState, TypeOK, args
  <1>6. AssembleInv'
    <2>1. Len(boundaries') < n /\ Len(boundaries') \in Nat
      BY <1>2 DEF LoopState, InLoop
    <2>2. Searching'
      BY <1>3, <1>4 DEF LoopState, InLoop, Searching
    <2>3. RangesOK(0)' /\ prev' = CutBefore(1)'
      BY <1>4 DEF RangesOK, CutBefore
    <2> QED
      BY <1>4, <2>1, <2>2, <2>3 DEF AssembleInv
  <1> QED
    BY <1>2, <1>5, <1>6 DEF PlanInv, StartInv, LoopInv, DoneInv

(* The target of the current iteration is an offset of the file. *)
LEMMA CurrentTarget ==
    ASSUME PlanInv, pc = "loop", i < n
    PROVE  target \in 0..(file_len - 1) /\ file_len \in Nat
  <1>1. file_len \in Nat /\ i \in Nat /\ n \in Nat /\ file_len > 0
    BY DEF PlanInv, TypeOK, LoopInv, InLoop, Searching, file_len
  <1> QED
    BY <1>1, TargetInFile DEF target

(* A step that leaves the search loop's results alone. *)
LEMMA SameCuts ==
    ASSUME CutsOK, UNCHANGED <<args, boundaries>>
    PROVE  CutsOK' /\ file_len' = file_len
  BY DEF CutsOK, args, file_len

(* The early returns, and the entry of the loop. *)
LEMMA StartPreserves ==
    ASSUME PlanInv, ReturnEmpty \/ ReturnWhole \/ EnterLoop
    PROVE  PlanInv'
  <1>1. CASE ReturnEmpty
    <2>1. CutsOK' /\ file_len' = file_len
      BY <1>1, SameCuts DEF PlanInv, ReturnEmpty, loop
    <2>2. TypeOK'
      BY <1>1, <2>1 DEF PlanInv, TypeOK, ReturnEmpty, args, loop, assembly
    <2>3. DoneInv'
      BY <1>1, <2>1 DEF PlanInv, TypeOK, StartInv, ReturnEmpty, args, loop, assembly,
         DoneInv, Coverage, AtMostRequested, file_len
    <2> QED
      BY <1>1, <2>1, <2>2, <2>3
         DEF PlanInv, StartInv, LoopInv, InLoop, AssembleInv, ReturnEmpty
  <1>2. CASE ReturnWhole
    <2>1. CutsOK' /\ file_len' = file_len
      BY <1>2, SameCuts DEF PlanInv, ReturnWhole, loop
    <2>2. file_len \in Nat /\ file_len > 0 /\ parts' = 1 /\ pc' = "done"
      BY <1>2 DEF PlanInv, TypeOK, ReturnWhole, args, file_len
    <2>3. /\ Len(partitions') = 1
          /\ partitions'[1] = <<0, file_len>>
          /\ partitions' \in Seq((0..file_len) \X (0..file_len))
      BY <1>2, <2>2 DEF ReturnWhole
    <2>4. TypeOK'
      BY <1>2, <2>1, <2>3 DEF PlanInv, TypeOK, ReturnWhole, args, loop
    <2>5. DoneInv'
      BY <2>1, <2>2, <2>3
         DEF DoneInv, Coverage, Covers, AtMostRequested
    <2> QED
      BY <2>1, <2>2, <2>4, <2>5 DEF PlanInv, StartInv, LoopInv, InLoop, AssembleInv
  <1>3. CASE EnterLoop
    <2>1. CutsOK' /\ file_len' = file_len
      BY <1>3, SameCuts DEF PlanInv, EnterLoop
    <2>2. file_len \in Nat /\ parts \in Nat /\ file_len > 0 /\ parts > 1
      BY <1>3 DEF PlanInv, TypeOK, EnterLoop, file_len
    <2>3. n' \in 1..file_len /\ n' = MinOf(parts, file_len) /\ parts' = parts
      BY <1>3, <2>2 DEF EnterLoop, MinOf, args
    <2>4. TypeOK'
      BY <1>3, <2>1, <2>3 DEF PlanInv, TypeOK, EnterLoop, args, assembly
    <2>5. LoopInv'
      BY <1>3, <2>1, <2>2, <2>3
         DEF PlanInv, StartInv, EnterLoop, assembly, LoopInv, InLoop, Searching, CutBefore
    <2> QED
      BY <1>3, <2>1, <2>4, <2>5
         DEF PlanInv, EnterLoop, StartInv, AssembleInv, DoneInv
  <1> QED
    BY <1>1, <1>2, <1>3

(* One iteration of the loop, or its end. *)
LEMMA LoopPreserves ==
    ASSUME PlanInv,
           SkipTarget \/ AcceptExactTarget \/ SearchHit \/ SearchMiss \/ LeaveLoop
    PROVE  PlanInv'
  <1>1. CASE SkipTarget
    <2>1. CutsOK' /\ file_len' = file_len
      BY <1>1, SameCuts DEF PlanInv, SkipTarget
    <2>2. TypeOK'
      BY <1>1, <2>1 DEF PlanInv, TypeOK, SkipTarget, args, assembly
    <2>3. LoopInv'
      BY <1>1, <2>1 DEF PlanInv, TypeOK, LoopInv, InLoop, Searching, CutBefore, SkipTarget,
         args, assembly
    <2> QED
      BY <1>1, <2>1, <2>2, <2>3
         DEF PlanInv, SkipTarget, StartInv, AssembleInv, DoneInv
  <1>2. CASE AcceptExactTarget
    <2>1. target \in 0..(file_len - 1) /\ file_len \in Nat
      BY <1>2, CurrentTarget DEF AcceptExactTarget
    <2>2. target \in 1..file_len
      BY <1>2, <2>1 DEF AcceptExactTarget, PlanInv, TypeOK
    <2> QED
      BY <1>2, <2>2, LoopStateHolds, SearchPushKeeps DEF AcceptExactTarget
  <1>3. CASE SearchHit
    <2>1. target \in 0..(file_len - 1) /\ file_len \in Nat
      BY <1>3, CurrentTarget DEF SearchHit
    <2>2. PICK p \in target..file_len :
            /\ FirstMatchIn(data, delim, target, file_len, p)
            /\ PushBoundary(MinOf(p + Len(delim), file_len))
      BY <1>3 DEF SearchHit
    <2>3. Len(delim) \in Nat \ {0}
      BY DEF PlanInv, TypeOK
    <2>4. /\ MinOf(p + Len(delim), file_len) = p + Len(delim)
          /\ p + Len(delim) \in 1..file_len
          /\ p + Len(delim) > last_boundary
      <3>1. p \in Nat /\ p + Len(delim) <= file_len /\ p >= target
        BY <2>1, <2>2 DEF FirstMatchIn
      <3>2. last_boundary \in Nat /\ target > last_boundary
        BY <1>3 DEF PlanInv, TypeOK, SearchHit
      <3> QED
        BY <2>1, <2>3, <3>1, <3>2 DEF MinOf
    <2> QED
      BY <1>3, <2>2, <2>4, LoopStateHolds, SearchPushKeeps DEF SearchHit
  <1>4. CASE SearchMiss
    <2>1. target \in 0..(file_len - 1) /\ file_len \in Nat
      BY <1>4, CurrentTarget DEF SearchMiss
    <2>2. file_len \in 1..file_len /\ file_len > last_boundary
      BY <1>4, <2>1 DEF SearchMiss, PlanInv, TypeOK
    <2> QED
      BY <1>4, <2>2, LoopStateHolds, LastCutKeeps DEF SearchMiss
  <1>5. CASE LeaveLoop
    <2>1. CutsOK' /\ file_len' = file_len
      BY <1>5, SameCuts DEF PlanInv, LeaveLoop, loop
    <2>2. TypeOK'
      BY <1>5, <2>1 DEF PlanInv, TypeOK, LeaveLoop, args, loop, assembly
    <2>3. AssembleInv'
      <3>1. /\ j' = 1 /\ prev' = 0 /\ partitions' = <<>> /\ n' = n /\ parts' = parts
            /\ boundaries' = boundaries
        BY <1>5 DEF PlanInv, LoopInv, InLoop, LeaveLoop, assembly, args, loop
      <3>2. Len(boundaries) < n /\ Len(boundaries) \in Nat
        BY <1>5 DEF PlanInv, TypeOK, LoopInv, InLoop, LeaveLoop
      <3>3. Searching'
        BY <1>5, <2>1, <3>1 DEF PlanInv, LoopInv, InLoop, Searching, LeaveLoop
      <3>4. RangesOK(0)' /\ prev' = CutBefore(1)'
        BY <3>1 DEF RangesOK, CutBefore
      <3> QED
        BY <3>1, <3>2, <3>3, <3>4 DEF AssembleInv
    <2> QED
      BY <1>5, <2>1, <2>2, <2>3 DEF PlanInv, LeaveLoop, StartInv, LoopInv, InLoop, DoneInv
  <1> QED
    BY <1>1, <1>2, <1>3, <1>4, <1>5

(* A range ends where the next one starts, and no range is empty. *)
LEMMA AssembledRanges ==
    ASSUME PlanInv, pc = "assemble"
    PROVE  /\ Len(boundaries) \in Nat /\ file_len \in Nat /\ j \in Nat \ {0}
           /\ partitions \in Seq((0..file_len) \X (0..file_len))
           /\ \A k \in 1..Len(boundaries) :
                 /\ CutBefore(k) \in 0..file_len /\ boundaries[k] \in 1..file_len
                 /\ CutBefore(k) < boundaries[k]
                 /\ CutBefore(k + 1) = boundaries[k]
  <1>1. /\ Len(boundaries) \in Nat /\ file_len \in Nat /\ j \in Nat \ {0}
        /\ partitions \in Seq((0..file_len) \X (0..file_len))
        /\ boundaries \in Seq(0..file_len)
    BY DEF PlanInv, TypeOK, file_len
  <1> SUFFICES ASSUME NEW k \in 1..Len(boundaries)
               PROVE  /\ CutBefore(k) \in 0..file_len /\ boundaries[k] \in 1..file_len
                      /\ CutBefore(k) < boundaries[k]
                      /\ CutBefore(k + 1) = boundaries[k]
    BY <1>1
  <1>2. 0 < boundaries[k] /\ boundaries[k] <= file_len /\ boundaries[k] \in Nat
    BY <1>1 DEF PlanInv, CutsOK
  <1>3. CASE k = 1
    BY <1>1, <1>2, <1>3 DEF CutBefore
  <1>4. CASE k > 1
    <2>1. k - 1 \in 1..Len(boundaries) /\ k - 1 < k
      BY <1>1, <1>4
    <2>2. \A x, y \in 1..Len(boundaries) : x < y => boundaries[x] < boundaries[y]
      BY DEF PlanInv, CutsOK
    <2>3. boundaries[k - 1] \in 0..file_len
      BY <1>1, <2>1
    <2>4. boundaries[k - 1] < boundaries[k]
      BY <2>1, <2>2
    <2> QED
      BY <1>1, <1>2, <1>4, <2>3, <2>4 DEF CutBefore
  <1> QED
    BY <1>1, <1>3, <1>4

(* The assembly of one range up to a cut. *)
LEMMA CutPreserves ==
    ASSUME PlanInv, AssembleCut
    PROVE  PlanInv'
  <1>1. CutsOK' /\ file_len' = file_len
    BY SameCuts DEF PlanInv, AssembleCut, loop
  <1>2. /\ pc = "assemble" /\ pc' = "assemble" /\ j' = j + 1 /\ prev' = boundaries[j]
        /\ boundaries' = boundaries /\ n' = n /\ parts' = parts /\ j \in 1..Len(boundaries)
    BY AssembledRanges DEF AssembleCut, args, loop
  <1>3. /\ Len(partitions) = j - 1 /\ prev = CutBefore(j)
        /\ \A k \in 1..(j - 1) : partitions[k] = <<CutBefore(k), boundaries[k]>>
    BY <1>2 DEF PlanInv, AssembleInv, RangesOK
  <1>4. /\ Len(boundaries) \in Nat /\ file_len \in Nat
        /\ partitions \in Seq((0..file_len) \X (0..file_len))
        /\ CutBefore(j) \in 0..file_len /\ boundaries[j] \in 1..file_len
        /\ CutBefore(j) < boundaries[j] /\ CutBefore(j + 1) = boundaries[j]
    BY <1>2, AssembledRanges
  <1>5. partitions' = Append(partitions, <<CutBefore(j), boundaries[j]>>)
    BY <1>3, <1>4 DEF AssembleCut
  <1>6. partitions' \in Seq((0..file_len) \X (0..file_len)) /\ Len(partitions') = j
    BY <1>2, <1>3, <1>4, <1>5
  <1>7. \A k \in 1..j : partitions'[k] = <<CutBefore(k), boundaries[k]>>
    BY <1>2, <1>3, <1>4, <1>5, SMTT(60)
  <1>8. TypeOK'
    <2>1. /\ data' = data /\ delim' = delim /\ i' = i /\ last_boundary' = last_boundary
      BY DEF AssembleCut, args, loop
    <2>2. TypeOK
      BY DEF PlanInv
    <2>3. /\ data' \in Seq(Byte) /\ delim' \in Seq(Byte) \ {<<>>} /\ parts' \in Nat
          /\ i' \in Nat \ {0}
      BY <1>2, <2>1, <2>2 DEF TypeOK
    <2>4. n' \in 0..file_len' /\ last_boundary' \in 0..file_len'
      BY <1>1, <1>2, <2>1, <2>2 DEF TypeOK
    <2>5. boundaries' \in Seq(0..file_len') /\ partitions' \in Seq((0..file_len') \X (0..file_len'))
      BY <1>1, <1>2, <1>6, <2>2 DEF TypeOK
    <2>6. j' \in Nat \ {0} /\ prev' \in 0..file_len'
      BY <1>1, <1>2, <1>4
    <2> QED
      BY <1>2, <2>3, <2>4, <2>5, <2>6 DEF TypeOK
  <1>9. AssembleInv'
    <2>1. prev' = CutBefore(j)'
      BY <1>2, <1>4 DEF CutBefore
    <2>2. RangesOK(j - 1)'
      <3>1. j' - 1 = j
        BY <1>2
      <3>2. \A k \in 1..j : CutBefore(k)' = CutBefore(k)
        BY <1>2 DEF CutBefore
      <3> QED
        BY <1>2, <1>6, <1>7, <3>1, <3>2 DEF RangesOK
    <2>3. Searching'
      BY <1>1, <1>2 DEF PlanInv, AssembleInv, Searching
    <2>4. Len(boundaries') < n' /\ j' <= Len(boundaries') + 1
      BY <1>2, <1>4 DEF PlanInv, AssembleInv
    <2> QED
      BY <2>1, <2>2, <2>3, <2>4 DEF AssembleInv
  <1> QED
    BY <1>1, <1>2, <1>8, <1>9 DEF PlanInv, StartInv, LoopInv, InLoop, DoneInv

(* The assembly of the last range, up to EOF. *)
LEMMA TailPreserves ==
    ASSUME PlanInv, AssembleTail
    PROVE  PlanInv'
  <1> DEFINE L == Len(boundaries)
  <1>1. CutsOK' /\ file_len' = file_len
    BY SameCuts DEF PlanInv, AssembleTail, loop
  <1>2. /\ pc = "assemble" /\ pc' = "done"
        /\ data' = data /\ delim' = delim /\ parts' = parts
    BY DEF AssembleTail, args
  <1>3. /\ L \in Nat /\ file_len \in Nat /\ L < n /\ n <= parts /\ n <= file_len
        /\ n \in Nat /\ parts \in Nat /\ file_len > 0
    BY <1>2, AssembledRanges DEF PlanInv, TypeOK, AssembleInv, Searching, MinOf
  <1>4. j = L + 1
    BY <1>2, <1>3 DEF PlanInv, TypeOK, AssembleInv, AssembleTail
  <1>5. /\ Len(partitions) = L /\ prev = CutBefore(L + 1)
        /\ \A k \in 1..L : partitions[k] = <<CutBefore(k), boundaries[k]>>
    BY <1>2, <1>3, <1>4 DEF PlanInv, AssembleInv, RangesOK
  <1>6. /\ partitions \in Seq((0..file_len) \X (0..file_len))
        /\ \A k \in 1..L :
              /\ CutBefore(k) \in 0..file_len /\ boundaries[k] \in 1..file_len
              /\ CutBefore(k) < boundaries[k]
              /\ CutBefore(k + 1) = boundaries[k]
    BY <1>2, AssembledRanges
  <1>7. CutBefore(1) = 0 /\ prev \in 0..file_len
    BY DEF CutBefore, PlanInv, TypeOK
  <1> HIDE DEF L
  <1>8. CASE prev < file_len
    <2>1. partitions' = Append(partitions, <<prev, file_len>>)
      BY <1>8 DEF AssembleTail
    <2>2. /\ partitions' \in Seq((0..file_len) \X (0..file_len))
          /\ Len(partitions') = L + 1
          /\ partitions'[L + 1] = <<prev, file_len>>
          /\ \A k \in 1..L : partitions'[k] = <<CutBefore(k), boundaries[k]>>
      BY <1>3, <1>5, <1>6, <1>7, <2>1
    <2>3. \A k \in 1..(L + 1) : partitions'[k][1] = CutBefore(k)
      BY <1>3, <1>5, <2>2
    <2>4. \A k \in 1..L : partitions'[k][2] = boundaries[k]
      BY <2>2
    <2>5. Covers(partitions', file_len)
      <3>1. \A k \in 1..(L + 1) : partitions'[k][1] < partitions'[k][2]
        <4> TAKE k \in 1..(L + 1)
        <4>1. CASE k \in 1..L
          BY <1>6, <2>3, <2>4, <4>1
        <4>2. CASE k = L + 1
          BY <1>8, <2>2, <4>2
        <4> QED
          BY <1>3, <4>1, <4>2
      <3>2. \A k \in 1..L : partitions'[k][2] = partitions'[k + 1][1]
        <4> TAKE k \in 1..L
        <4>1. k + 1 \in 1..(L + 1)
          BY <1>3
        <4> QED
          BY <1>6, <2>3, <2>4, <4>1
      <3>3. /\ Len(partitions') > 0 /\ Len(partitions') - 1 = L
            /\ Len(partitions') = L + 1 /\ 1 \in 1..(L + 1)
        BY <1>3, <2>2
      <3>4. partitions'[1][1] = 0 /\ partitions'[L + 1][2] = file_len
        BY <1>7, <2>2, <2>3, <3>3
      <3> QED
        BY <3>1, <3>2, <3>3, <3>4 DEF Covers
    <2>6. DoneInv'
      BY <1>1, <1>2, <1>3, <2>2, <2>5 DEF DoneInv, Coverage, AtMostRequested
    <2>7. TypeOK'
      BY <1>1, <1>2, <2>2 DEF PlanInv, TypeOK, AssembleTail, args, loop
    <2> QED
      BY <1>1, <1>2, <2>6, <2>7 DEF PlanInv, StartInv, LoopInv, InLoop, AssembleInv
  <1>9. CASE prev = file_len
    <2>1. partitions' = partitions
      BY <1>3, <1>9 DEF AssembleTail
    <2>2. L >= 1 /\ boundaries[L] = file_len
      <3>1. L # 0
        BY <1>3, <1>5, <1>7, <1>9
      <3>2. L \in 1..L
        BY <1>3, <3>1
      <3> QED
        BY <1>3, <1>5, <1>6, <1>9, <3>2, SMTT(60)
    <2>3. \A k \in 1..L : partitions[k][1] = CutBefore(k) /\ partitions[k][2] = boundaries[k]
      BY <1>5
    <2>4. Covers(partitions, file_len)
      <3>1. \A k \in 1..(L - 1) : partitions[k][2] = partitions[k + 1][1]
        <4> TAKE k \in 1..(L - 1)
        <4>1. k \in 1..L /\ k + 1 \in 1..L
          BY <1>3
        <4> QED
          BY <1>6, <2>3, <4>1
      <3>2. 1 \in 1..L /\ L \in 1..L
        BY <1>3, <2>2
      <3>3. partitions[1][1] = 0 /\ partitions[L][2] = file_len
        BY <1>7, <2>2, <2>3, <3>2
      <3>4. \A k \in 1..L : partitions[k][1] < partitions[k][2]
        BY <1>6, <2>3
      <3> QED
        BY <1>3, <1>5, <2>2, <3>1, <3>3, <3>4 DEF Covers
    <2>5. DoneInv'
      BY <1>1, <1>2, <1>3, <1>5, <2>1, <2>4 DEF DoneInv, Coverage, AtMostRequested
    <2>6. TypeOK'
      BY <1>1, <1>2, <2>1 DEF PlanInv, TypeOK, AssembleTail, args, loop
    <2> QED
      BY <1>1, <1>2, <2>5, <2>6 DEF PlanInv, StartInv, LoopInv, InLoop, AssembleInv
  <1> QED
    BY <1>3, <1>7, <1>8, <1>9
------------------------------------------------------------------------------
(* A step that changes nothing. *)
LEMMA StutterPreserves == PlanInv /\ UNCHANGED vars => PlanInv'
  BY DEF PlanInv, vars, args, loop, assembly, TypeOK, CutsOK, StartInv, LoopInv, InLoop,
     AssembleInv, DoneInv, Coverage, AtMostRequested, Searching,
     RangesOK, CutBefore, file_len

(* Every step of the planner keeps the invariant. *)
LEMMA NextPreserves == PlanInv /\ [Next]_vars => PlanInv'
  <1> SUFFICES ASSUME PlanInv, [Next]_vars PROVE PlanInv'
    OBVIOUS
  <1>1. CASE ReturnEmpty \/ ReturnWhole \/ EnterLoop
    BY <1>1, StartPreserves
  <1>2. CASE SkipTarget \/ AcceptExactTarget \/ SearchHit \/ SearchMiss \/ LeaveLoop
    BY <1>2, LoopPreserves
  <1>3. CASE Assemble
    BY <1>3, CutPreserves, TailPreserves DEF Assemble
  <1>4. CASE Done \/ UNCHANGED vars
    BY <1>4, StutterPreserves DEF Done
  <1> QED
    BY <1>1, <1>2, <1>3, <1>4 DEF Next

(* The inductive invariant of the slice planner.                           *)
THEOREM PlannerInvariant == Spec => []PlanInv
  BY InitPlan, NextPreserves, PTL DEF Spec

(* The loop stays within the capped request and every cut within the file. *)
THEOREM PlannerTypeCorrect == Spec => []TypeOK
  <1>1. PlanInv => TypeOK
    BY DEF PlanInv
  <1> QED
    BY <1>1, PlannerInvariant, PTL

(* find_partition_boundaries(_pattern) returns contiguous non-empty ranges *)
(* covering the file, for every file, delimiter and positive request.      *)
THEOREM PlannerCovers == Spec => []Coverage
  <1>1. PlanInv => Coverage
    BY DEF PlanInv, DoneInv, Coverage
  <1> QED
    BY <1>1, PlannerInvariant, PTL

(* A step that looks at no byte and emits no range. *)
LEMMA SameAlignment ==
    ASSUME AlignInv, UNCHANGED <<args, boundaries, partitions>>
    PROVE  AlignInv'
  BY DEF AlignInv, RecordAligned, args, file_len

(* A cut that ends a record, or the file. *)
LEMMA PushKeepsAlignment ==
    ASSUME AlignInv, NEW b, boundaries \in Seq(0..file_len), b \in 0..file_len,
           b < file_len => EndsRecord(data, delim, b),
           boundaries' = Append(boundaries, b), UNCHANGED <<args, partitions>>
    PROVE  AlignInv'
  <1>1. data' = data /\ delim' = delim /\ file_len' = file_len /\ partitions' = partitions
    BY DEF args, file_len
  <1>2. \A k \in 1..Len(boundaries') : boundaries'[k] = b \/ (k \in 1..Len(boundaries)
                                                             /\ boundaries'[k] = boundaries[k])
    OBVIOUS
  <1>3. \A k \in 1..Len(boundaries') :
           boundaries'[k] < file_len => EndsRecord(data, delim, boundaries'[k])
    BY <1>2 DEF AlignInv
  <1>4. RecordAligned'
    BY <1>1 DEF AlignInv, RecordAligned
  <1> QED
    BY <1>1, <1>3, <1>4 DEF AlignInv

(* A range ends at a cut or at EOF. *)
LEMMA AssembleKeepsAlignment ==
    ASSUME PlanInv, AlignInv, Assemble
    PROVE  AlignInv'
  <1>1. /\ pc = "assemble" /\ data' = data /\ delim' = delim /\ file_len' = file_len
        /\ boundaries' = boundaries
    BY DEF Assemble, AssembleCut, AssembleTail, args, loop, file_len
  <1>2. /\ partitions \in Seq((0..file_len) \X (0..file_len)) /\ file_len \in Nat
        /\ j \in Nat \ {0} /\ Len(boundaries) \in Nat
    BY <1>1, AssembledRanges
  <1>3. ASSUME NEW a, NEW b, b < file_len => EndsRecord(data, delim, b),
               partitions' = Append(partitions, <<a, b>>)
        PROVE  RecordAligned'
    <2> SUFFICES ASSUME NEW k \in 1..Len(partitions'), partitions'[k][2] < file_len
                 PROVE  EndsRecord(data, delim, partitions'[k][2])
      BY <1>1 DEF RecordAligned
    <2>1. partitions'[k] = <<a, b>> \/ (k \in 1..Len(partitions) /\ partitions'[k] = partitions[k])
      BY <1>2, <1>3
    <2> QED
      BY <1>3, <2>1 DEF AlignInv, RecordAligned
  <1>4. RecordAligned'
    <2>1. CASE partitions' = partitions
      BY <1>1, <2>1 DEF AlignInv, RecordAligned
    <2>2. CASE AssembleCut /\ partitions' = Append(partitions, <<prev, boundaries[j]>>)
      <3>1. j \in 1..Len(boundaries)
        BY <1>2, <2>2 DEF AssembleCut
      <3>2. boundaries[j] < file_len => EndsRecord(data, delim, boundaries[j])
        BY <3>1 DEF AlignInv
      <3> QED
        BY <1>3, <2>2, <3>2
    <2>3. CASE partitions' = Append(partitions, <<prev, file_len>>)
      <3>1. ~(file_len < file_len)
        BY <1>2
      <3> QED
        BY <1>3, <2>3, <3>1
    <2> QED
      BY <2>1, <2>2, <2>3 DEF Assemble, AssembleCut, AssembleTail
  <1> QED
    BY <1>1, <1>4 DEF AlignInv

(* One whole range ends at EOF. *)
LEMMA WholeKeepsAlignment ==
    ASSUME AlignInv, ReturnWhole
    PROVE  AlignInv'
  <1>1. /\ data' = data /\ delim' = delim /\ file_len' = file_len /\ boundaries' = boundaries
        /\ partitions' = <<<<0, file_len>>>> /\ file_len > 0
    BY DEF ReturnWhole, args, loop, file_len
  <1>2. \A k \in 1..Len(partitions') : partitions'[k][2] = file_len
    BY <1>1
  <1>3. ~(file_len < file_len)
    BY DEF file_len
  <1>4. RecordAligned'
    BY <1>1, <1>2, <1>3 DEF RecordAligned
  <1> QED
    BY <1>1, <1>4 DEF AlignInv

(* Every step keeps the cuts and the ranges aligned. *)
LEMMA NextKeepsAlignment == PlanInv /\ AlignInv /\ [Next]_vars => AlignInv'
  <1> SUFFICES ASSUME PlanInv, AlignInv, [Next]_vars PROVE AlignInv'
    OBVIOUS
  <1>0. boundaries \in Seq(0..file_len) /\ Len(delim) \in Nat \ {0} /\ file_len \in Nat
    BY DEF PlanInv, TypeOK, file_len
  <1>1. CASE ReturnEmpty \/ EnterLoop \/ SkipTarget \/ LeaveLoop \/ Done \/ UNCHANGED vars
    <2>1. UNCHANGED <<args, boundaries, partitions>>
      BY <1>1 DEF ReturnEmpty, EnterLoop, SkipTarget, LeaveLoop, Done, vars, loop, assembly
    <2> QED
      BY <2>1, SameAlignment
  <1>2. CASE ReturnWhole
    BY <1>2, WholeKeepsAlignment
  <1>3. CASE AcceptExactTarget
    <2>1. target \in 0..(file_len - 1)
      BY <1>3, CurrentTarget DEF AcceptExactTarget
    <2>2. target \in 0..file_len
      BY <1>0, <2>1
    <2>3. /\ boundaries' = Append(boundaries, target) /\ UNCHANGED <<args, partitions>>
          /\ EndsRecord(data, delim, target)
      BY <1>3 DEF AcceptExactTarget, PushBoundary, assembly
    <2> QED
      BY <1>0, <2>2, <2>3, PushKeepsAlignment
  <1>4. CASE SearchHit
    <2>1. target \in 0..(file_len - 1)
      BY <1>4, CurrentTarget DEF SearchHit
    <2>2. PICK p \in target..file_len :
            /\ FirstMatchIn(data, delim, target, file_len, p)
            /\ PushBoundary(MinOf(p + Len(delim), file_len))
      BY <1>4 DEF SearchHit
    <2>3. p \in Nat /\ p + Len(delim) <= file_len /\ p + Len(delim) - Len(delim) = p
      BY <1>0, <2>1, <2>2 DEF FirstMatchIn
    <2>4. EndsRecord(data, delim, p + Len(delim))
      BY <1>0, <2>2, <2>3 DEF EndsRecord, FirstMatchIn
    <2>5. MinOf(p + Len(delim), file_len) = p + Len(delim) /\ p + Len(delim) \in 0..file_len
      BY <1>0, <2>3 DEF MinOf
    <2>6. boundaries' = Append(boundaries, p + Len(delim)) /\ UNCHANGED <<args, partitions>>
      BY <2>2, <2>5 DEF PushBoundary, assembly
    <2> QED
      BY <1>0, <2>4, <2>5, <2>6, PushKeepsAlignment
  <1>5. CASE SearchMiss
    <2>1. boundaries' = Append(boundaries, file_len) /\ UNCHANGED <<args, partitions>>
      BY <1>5 DEF SearchMiss, assembly
    <2>2. file_len \in 0..file_len /\ ~(file_len < file_len)
      BY <1>0
    <2> QED
      BY <1>0, <2>1, <2>2, PushKeepsAlignment
  <1>6. CASE Assemble
    BY <1>6, AssembleKeepsAlignment
  <1> QED
    BY <1>1, <1>2, <1>3, <1>4, <1>5, <1>6 DEF Next

(* A call that has not begun has emitted nothing. *)
LEMMA InitAlignment == Init => AlignInv
  BY DEF Init, AlignInv, RecordAligned

(* Every cut of the slice planner ends a record or the file. *)
THEOREM AlignmentInvariant == Spec => []AlignInv
  BY InitAlignment, NextKeepsAlignment, PlannerInvariant, PTL DEF Spec

(* At every moment the ranges emitted so far end after a complete          *)
(* delimiter or at EOF.                                                    *)
THEOREM PlannerAligned == Spec => []RecordAligned
  <1>1. AlignInv => RecordAligned
    BY DEF AlignInv
  <1> QED
    BY <1>1, AlignmentInvariant, PTL

(* So is their number bounded. *)
LEMMA InvBounded == PlanInv => AtMostRequested
  <1> SUFFICES ASSUME PlanInv PROVE AtMostRequested
    OBVIOUS
  <1>1. CASE pc \in {"start", "loop"}
    BY <1>1 DEF PlanInv, TypeOK, StartInv, LoopInv, InLoop, AtMostRequested, file_len
  <1>2. CASE pc = "assemble"
    <2>1. Len(partitions) <= Len(boundaries) /\ Len(boundaries) < n
      BY <1>2, AssembledRanges DEF PlanInv, AssembleInv, RangesOK
    <2>2. n <= parts /\ n <= file_len
      BY <1>2, AssembledRanges DEF PlanInv, TypeOK, AssembleInv, Searching, MinOf
    <2> QED
      BY <1>2, <2>1, <2>2, AssembledRanges DEF PlanInv, TypeOK, AtMostRequested
  <1>3. CASE pc = "done"
    BY <1>3 DEF PlanInv, DoneInv
  <1> QED
    BY <1>1, <1>2, <1>3 DEF PlanInv, TypeOK

(* The plan never has more ranges than requested, or than bytes.           *)
THEOREM PlannerBounded == Spec => []AtMostRequested
  BY InvBounded, PlannerInvariant, PTL

(* The cut points grow strictly.                                           *)
THEOREM PlannerCutsIncrease == Spec => []CutsIncrease
  <1>1. PlanInv => CutsIncrease
    <2> SUFFICES ASSUME PlanInv PROVE CutsIncrease
      OBVIOUS
    <2>1. /\ \A k \in 1..Len(boundaries) : 0 < boundaries[k]
          /\ \A k, m \in 1..Len(boundaries) : k < m => boundaries[k] < boundaries[m]
          /\ Len(boundaries) \in Nat
      BY DEF PlanInv, TypeOK, CutsOK
    <2>2. \A k \in 1..(Len(boundaries) - 1) :
             k \in 1..Len(boundaries) /\ k + 1 \in 1..Len(boundaries) /\ k < k + 1
      BY <2>1
    <2> QED
      BY <2>1, <2>2 DEF CutsIncrease
  <1> QED
    BY <1>1, PlannerInvariant, PTL
------------------------------------------------------------------------------
(* A delimiter that does not overlap itself: no proper shift of it agrees  *)
(* with it.  Every one-byte delimiter, "\r\n" and "END\n" are; "\r\n\r\n"  *)
(* is not.                                                                 *)
Unbordered(d) == \A s \in 1..(Len(d) - 1) : \E k \in 1..(Len(d) - s) : d[k + s] # d[k]

(* Two of its occurrences never overlap. *)
LEMMA OccurrencesAreApart ==
    ASSUME NEW s \in Seq(Byte), NEW d \in Seq(Byte), Unbordered(d),
           NEW p \in Nat, NEW q \in Nat, q < p, q + Len(d) > p, MatchAt(s, d, p)
    PROVE  ~MatchAt(s, d, q)
  <1> SUFFICES ASSUME MatchAt(s, d, q) PROVE FALSE
    OBVIOUS
  <1> DEFINE h == p - q
  <1>1. h \in 1..(Len(d) - 1) /\ Len(d) \in Nat
    OBVIOUS
  <1>2. PICK k \in 1..(Len(d) - h) : d[k + h] # d[k]
    BY <1>1 DEF Unbordered
  <1>3. k \in 1..Len(d) /\ k + h \in 1..Len(d) /\ q + (k + h) = p + k
    BY <1>1, <1>2
  <1> HIDE DEF h
  <1>4. s[p + k] = d[k] /\ s[q + (k + h)] = d[k + h]
    BY <1>3 DEF MatchAt
  <1> QED
    BY <1>2, <1>3, <1>4

(* So each of them is a delimiter to the left-to-right reader. *)
LEMMA ReaderSeesEveryOccurrence ==
    ASSUME data \in Seq(Byte), delim \in Seq(Byte), Unbordered(delim),
           NEW p \in 0..file_len, MatchAt(data, delim, p)
    PROVE  p \in DelimiterStarts
  <1> DEFINE F(f) == [x \in 0..file_len |->
                        /\ MatchAt(data, delim, x)
                        /\ \A q \in 0..(x - 1) : q + Len(delim) > x => ~f[q]]
             m == [x \in 0..file_len |-> MatchAt(data, delim, x)]
             starts == CHOOSE f : f = F(f)
  <1>0. file_len \in Nat
    BY DEF file_len
  <1>1. \A x \in 0..file_len : \A q \in 0..(x - 1) :
            /\ q \in 0..file_len
            /\ MatchAt(data, delim, x) /\ q + Len(delim) > x => ~MatchAt(data, delim, q)
    BY <1>0, OccurrencesAreApart
  <1>2. m = F(m)
    <2>1. ASSUME NEW x \in 0..file_len
          PROVE  MatchAt(data, delim, x) <=>
                    /\ MatchAt(data, delim, x)
                    /\ \A q \in 0..(x - 1) : q + Len(delim) > x => ~m[q]
      BY <1>1
    <2>2. ASSUME NEW x \in 0..file_len PROVE m[x] = F(m)[x]
      BY <2>1, Zenon DEF MatchAt
    <2> QED
      BY <2>2, Zenon
  <1>3. starts = F(starts)
    <2> HIDE DEF m
    <2>1. \E f : f = F(f)
      BY <1>2
    <2> HIDE DEF F
    <2> QED
      BY <2>1
  <1>4. DelimiterStarts = {x \in 0..file_len : starts[x]}
    BY DEF DelimiterStarts
  <1> HIDE DEF starts
  <1>5. \A x \in 0..file_len : starts[x] => MatchAt(data, delim, x)
    BY <1>3
  <1>6. starts[p]
    BY <1>1, <1>3, <1>5
  <1> QED
    BY <1>4, <1>6

(* No record is split when the call's delimiter does not overlap itself:   *)
(* every cut is a record end to a left-to-right reader.  (The run          *)
(* overlap_split shows that the condition is needed.)                      *)
THEOREM RecordsStayWhole == Spec /\ Unbordered(delim) => []NoRecordSplit
  <1>1. Unbordered(delim) /\ [Next]_vars => Unbordered(delim)'
    <2>1. [Next]_vars => UNCHANGED delim
      BY DEF Next, ReturnEmpty, ReturnWhole, EnterLoop, SkipTarget, AcceptExactTarget,
         SearchHit, SearchMiss, LeaveLoop, Assemble, AssembleCut, AssembleTail, PushBoundary,
         Done, args, vars
    <2> QED
      BY <2>1 DEF Unbordered
  <1>2. TypeOK /\ RecordAligned /\ Unbordered(delim) => NoRecordSplit
    <2> SUFFICES ASSUME TypeOK, RecordAligned, Unbordered(delim),
                        NEW e \in RangeEnds \ {file_len}
                 PROVE  \E p \in DelimiterStarts : e = p + Len(delim)
      BY DEF NoRecordSplit
    <2>1. /\ data \in Seq(Byte) /\ delim \in Seq(Byte)
          /\ partitions \in Seq((0..file_len) \X (0..file_len))
      BY DEF TypeOK
    <2>2. PICK k \in 1..Len(partitions) : e = partitions[k][2]
      BY DEF RangeEnds
    <2>3. e \in 0..file_len /\ file_len \in Nat /\ Len(delim) \in Nat
      BY <2>1, <2>2 DEF file_len
    <2>4. e < file_len
      BY <2>3
    <2>5. EndsRecord(data, delim, e)
      BY <2>2, <2>4 DEF RecordAligned
    <2> DEFINE p == e - Len(delim)
    <2>6. p \in 0..file_len /\ MatchAt(data, delim, p) /\ e = p + Len(delim)
      BY <2>3, <2>5 DEF EndsRecord
    <2> HIDE DEF p
    <2>7. p \in DelimiterStarts
      BY <2>1, <2>6, ReaderSeesEveryOccurrence
    <2> QED
      BY <2>6, <2>7
  <1> QED
    BY <1>1, <1>2, PlannerTypeCorrect, PlannerAligned, PTL DEF Spec
------------------------------------------------------------------------------
(* The plan beside the reference loops.  A loop of the planner and a loop  *)
(* of an oracle that have pushed the same cuts have the same cuts to push: *)
(* f is the table of what the oracle pushes from each iteration on, g the  *)
(* table of the ranges it assembles from each cut on.                      *)

Capped == MinOf(parts, file_len)

CutsTable(f) ==
    /\ f \in [1..Capped -> [0..file_len -> Seq(Nat)]]
    /\ IsCuts(f, Targets(file_len, Capped), Snaps(data, delim), Capped, file_len)

RangesTable(g) ==
    /\ g \in [1..(Len(boundaries) + 1) -> [0..file_len -> Seq(Pair)]]
    /\ IsRanges(g, boundaries, file_len)

CutsMatch ==
    file_len > 0 /\ parts > 1 =>
        \A f : CutsTable(f) =>
            /\ pc = "loop" => boundaries \o f[i][last_boundary] = f[1][0]
            /\ pc \in {"assemble", "done"} => boundaries = f[1][0]

RangesMatch ==
    file_len > 0 /\ parts > 1 =>
        \A g : RangesTable(g) =>
            /\ pc = "assemble" => partitions \o g[j][prev] = g[1][0]
            /\ pc = "done" => partitions = g[1][0]

EarlyReturns ==
    pc = "done" =>
        /\ file_len = 0 \/ parts = 0 => partitions = <<>>
        /\ file_len > 0 /\ parts = 1 => partitions = <<<<0, file_len>>>>

OracleInv == CutsMatch /\ RangesMatch /\ EarlyReturns

(* The numbers of a running search loop. *)
LEMMA LoopNumbers ==
    ASSUME PlanInv, pc \in {"loop", "assemble"}
    PROVE  /\ data \in Seq(Byte) /\ delim \in Seq(Byte) /\ Len(delim) > 0 /\ Len(delim) \in Nat
           /\ file_len \in Nat /\ file_len > 0 /\ file_len = Len(data)
           /\ parts \in Nat /\ parts > 1
           /\ n = Capped /\ Capped \in Nat /\ Capped > 0
           /\ boundaries \in Seq(Nat) /\ boundaries \in Seq(0..file_len)
           /\ CutArgs(Targets(file_len, Capped), Snaps(data, delim), Capped, file_len)
  <1>1. /\ data \in Seq(Byte) /\ delim \in Seq(Byte) \ {<<>>}
        /\ boundaries \in Seq(0..file_len) /\ parts \in Nat
    BY DEF PlanInv, TypeOK
  <1>2. file_len > 0 /\ parts > 1 /\ n = Capped
    BY DEF PlanInv, LoopInv, InLoop, AssembleInv, Searching, Capped
  <1>3. file_len \in Nat /\ file_len = Len(data) /\ Len(delim) > 0 /\ Len(delim) \in Nat
    BY <1>1 DEF file_len
  <1>4. Capped \in Nat /\ Capped > 0
    <2>1. /\ MinOf(parts, file_len) \in Nat
          /\ (MinOf(parts, file_len) = parts \/ MinOf(parts, file_len) = file_len)
      BY <1>1, <1>3, MinIs
    <2> QED
      BY <1>1, <1>2, <1>3, <2>1 DEF Capped
  <1>5. boundaries \in Seq(Nat)
    <2>1. \A k \in 1..Len(boundaries) : boundaries[k] \in Nat
      BY <1>1, <1>3
    <2> QED
      BY <1>1, <2>1
  <1>6. CutArgs(Targets(file_len, Capped), Snaps(data, delim), Capped, file_len)
    BY <1>1, <1>2, <1>3, <1>4, SnapArgs
  <1> QED
    BY <1>1, <1>2, <1>3, <1>4, <1>5, <1>6

(* An iteration that does not skip its target pushes the oracle's cut. *)
LEMMA PushIsOracle ==
    ASSUME PlanInv, pc = "loop", i < n, target > last_boundary, NEW f, CutsTable(f),
           NEW b, b = Snaps(data, delim)[target]
    PROVE  /\ b \in 0..file_len /\ f[i + 1][b] \in Seq(Nat)
           /\ f[i][last_boundary] = <<b>> \o f[i + 1][b]
           /\ b = file_len => f[i][last_boundary] = <<b>>
  <1>1. /\ file_len \in Nat /\ file_len > 0 /\ n = Capped /\ Capped \in Nat /\ Capped > 0
        /\ CutArgs(Targets(file_len, Capped), Snaps(data, delim), Capped, file_len)
    BY LoopNumbers
  <1>2. i \in Nat \ {0} /\ last_boundary \in 0..file_len
    BY DEF PlanInv, TypeOK
  <1>3. i \in 1..(Capped - 1) /\ i + 1 \in 1..Capped
    BY <1>1, <1>2
  <1>4. Targets(file_len, Capped)[i] = target /\ target \in 0..(file_len - 1)
    BY <1>1, <1>3, TargetsInFile DEF target, IdealTarget
  <1>5. b \in target..file_len
    BY <1>1, <1>4 DEF CutArgs
  <1>6. b \in 0..file_len /\ file_len \in 0..file_len
    BY <1>1, <1>4, <1>5
  <1>7. f[i + 1][b] \in Seq(Nat)
    BY <1>3, <1>6 DEF CutsTable
  <1>8. f[i][last_boundary] = IF b = file_len THEN <<file_len>> ELSE <<b>> \o f[i + 1][b]
    <2>1. f[i][last_boundary] =
            CutRow(f, Targets(file_len, Capped), Snaps(data, delim), file_len, i, last_boundary)
      <3>1. IsCuts(f, Targets(file_len, Capped), Snaps(data, delim), Capped, file_len)
        BY DEF CutsTable
      <3>2. \A k \in 1..(Capped - 1) : \A last \in 0..file_len :
              f[k][last] = CutRow(f, Targets(file_len, Capped), Snaps(data, delim), file_len, k, last)
        BY <1>1, <3>1, CutsSteps
      <3> QED
        BY <1>2, <1>3, <3>2, Zenon
    <2>2. ~(target <= last_boundary)
      BY <1>1, <1>2, <1>4
    <2> QED
      BY <1>4, <2>1, <2>2 DEF CutRow
  <1>9. CASE b = file_len
    <2>1. f[i + 1][file_len] = <<>>
      <3>1. IsCuts(f, Targets(file_len, Capped), Snaps(data, delim), Capped, file_len)
        BY DEF CutsTable
      <3>2. \A k \in 1..Capped : f[k][file_len] = <<>>
        BY <1>1, <3>1, CutsAtEnd, Zenon
      <3> QED
        BY <1>3, <3>2, Zenon
    <2>2. <<b>> \o <<>> = <<b>>
      <3>1. <<b>> \in Seq(Nat)
        BY <1>1, <1>9
      <3> QED
        BY <3>1, ConcatEmptySeq
    <2> QED
      BY <1>6, <1>7, <1>8, <1>9, <2>1, <2>2
  <1>10. CASE b # file_len
    BY <1>6, <1>7, <1>8, <1>10
  <1> QED
    BY <1>9, <1>10

(* What the arguments determine stays. *)
LEMMA SameTables ==
    ASSUME UNCHANGED args
    PROVE  /\ file_len' = file_len /\ parts' = parts /\ Capped' = Capped
           /\ \A f : CutsTable(f)' = CutsTable(f)
           /\ boundaries' = boundaries => \A g : RangesTable(g)' = RangesTable(g)
  <1>1. data' = data /\ delim' = delim /\ parts' = parts
    BY DEF args
  <1>2. file_len' = file_len
    BY <1>1 DEF file_len
  <1>3. Capped' = Capped
    BY <1>1, <1>2 DEF Capped
  <1> QED
    BY <1>1, <1>2, <1>3 DEF CutsTable, RangesTable

(* The search loop pushes the oracle's cuts. *)
LEMMA CutsMatchKept == PlanInv /\ CutsMatch /\ [Next]_vars => CutsMatch'
  <1> SUFFICES ASSUME PlanInv, CutsMatch, [Next]_vars, file_len' > 0, parts' > 1,
                      NEW f, CutsTable(f)'
               PROVE  /\ pc' = "loop" => boundaries' \o f[i'][last_boundary'] = f[1][0]
                      /\ pc' \in {"assemble", "done"} => boundaries' = f[1][0]
    BY DEF CutsMatch
  <1>a. UNCHANGED args
    BY DEF Next, ReturnEmpty, ReturnWhole, EnterLoop, SkipTarget, AcceptExactTarget, SearchHit,
       SearchMiss, LeaveLoop, Assemble, AssembleCut, AssembleTail, Done, PushBoundary, vars
  <1>1. file_len > 0 /\ parts > 1 /\ CutsTable(f)
    BY <1>a, SameTables
  <1>2. /\ pc = "loop" => boundaries \o f[i][last_boundary] = f[1][0]
        /\ pc \in {"assemble", "done"} => boundaries = f[1][0]
    BY <1>1 DEF CutsMatch
  <1>3. CASE ReturnEmpty \/ ReturnWhole
    BY <1>1, <1>3 DEF ReturnEmpty, ReturnWhole
  <1>4. CASE EnterLoop
    <2>1. i' = 1 /\ last_boundary' = 0 /\ boundaries' = <<>> /\ pc' = "loop"
      BY <1>4 DEF EnterLoop, PlanInv, StartInv
    <2>2. f[1][0] \in Seq(Nat)
      <3>1. parts \in Nat /\ file_len \in Nat
        BY DEF PlanInv, TypeOK, file_len
      <3>2. 1 \in 1..Capped /\ 0 \in 0..file_len
        <4>1. /\ MinOf(parts, file_len) \in Nat
              /\ (MinOf(parts, file_len) = parts \/ MinOf(parts, file_len) = file_len)
          BY <3>1, MinIs
        <4> QED
          BY <1>1, <3>1, <4>1 DEF Capped
      <3> QED
        BY <1>1, <3>2 DEF CutsTable
    <2>3. <<>> \o f[1][0] = f[1][0]
      BY <2>2, ConcatEmptySeq
    <2> QED
      BY <2>1, <2>3
  <1>5. CASE SkipTarget
    <2>1. /\ pc = "loop" /\ i < n /\ target <= last_boundary /\ i' = i + 1 /\ pc' = "loop"
          /\ last_boundary' = last_boundary /\ boundaries' = boundaries
      BY <1>5 DEF SkipTarget
    <2>2. /\ file_len \in Nat /\ file_len > 0 /\ n = Capped /\ Capped \in Nat
          /\ CutArgs(Targets(file_len, Capped), Snaps(data, delim), Capped, file_len)
      BY <2>1, LoopNumbers
    <2>3. i \in 1..(Capped - 1) /\ last_boundary \in 0..file_len
      BY <2>1, <2>2 DEF PlanInv, TypeOK
    <2>4. Targets(file_len, Capped)[i] = target
      BY <2>2, <2>3, TargetsInFile DEF target, IdealTarget
    <2>5. f[i][last_boundary] =
            CutRow(f, Targets(file_len, Capped), Snaps(data, delim), file_len, i, last_boundary)
      <3>1. IsCuts(f, Targets(file_len, Capped), Snaps(data, delim), Capped, file_len)
        BY <1>1 DEF CutsTable
      <3>2. \A k \in 1..(Capped - 1) : \A last \in 0..file_len :
              f[k][last] = CutRow(f, Targets(file_len, Capped), Snaps(data, delim), file_len, k, last)
        BY <2>2, <3>1, CutsSteps
      <3> QED
        BY <2>3, <3>2, Zenon
    <2>6. f[i][last_boundary] = f[i + 1][last_boundary]
      BY <2>1, <2>4, <2>5 DEF CutRow
    <2> QED
      BY <1>2, <2>1, <2>6
  <1>6. ASSUME NEW b, pc = "loop", i < n, target > last_boundary,
               b = Snaps(data, delim)[target], PushBoundary(b), pc' = pc
        PROVE  boundaries' \o f[i'][last_boundary'] = f[1][0]
    <2>1. boundaries' = Append(boundaries, b) /\ last_boundary' = b /\ i' = i + 1
      BY <1>6 DEF PushBoundary
    <2>2. boundaries \in Seq(Nat) /\ file_len \in Nat
      BY <1>6, LoopNumbers
    <2>3. b \in Nat /\ f[i + 1][b] \in Seq(Nat) /\ f[i][last_boundary] = <<b>> \o f[i + 1][b]
      <3>1. b \in 0..file_len /\ f[i + 1][b] \in Seq(Nat)
            /\ f[i][last_boundary] = <<b>> \o f[i + 1][b]
        BY <1>1, <1>6, PushIsOracle
      <3> QED
        BY <2>2, <3>1
    <2>4. Append(boundaries, b) \o f[i + 1][b] = boundaries \o (<<b>> \o f[i + 1][b])
      <3> DEFINE t == f[i + 1][b]
      <3>1. <<b>> \in Seq(Nat) /\ t \in Seq(Nat)
        BY <2>3
      <3> HIDE DEF t
      <3>2. Append(boundaries, b) = boundaries \o <<b>>
        BY <2>2, <2>3, AppendIsConcat
      <3>3. (boundaries \o <<b>>) \o t = boundaries \o (<<b>> \o t)
        BY <2>2, <3>1, ConcatAssociative
      <3> QED
        BY <3>2, <3>3 DEF t
    <2> QED
      BY <1>2, <1>6, <2>1, <2>3, <2>4
  <1>t. ASSUME pc = "loop", i < n
        PROVE  target \in 0..(file_len - 1) /\ target \in 0..Len(data) /\ file_len = Len(data)
               /\ data \in Seq(Byte) /\ delim \in Seq(Byte) /\ file_len \in Nat
    <2>1. /\ file_len \in Nat /\ file_len > 0 /\ n = Capped /\ Capped \in Nat
          /\ file_len = Len(data) /\ data \in Seq(Byte) /\ delim \in Seq(Byte)
      BY <1>t, LoopNumbers
    <2>2. i \in 1..(Capped - 1)
      BY <1>t, <2>1 DEF PlanInv, TypeOK
    <2>3. target \in 0..(file_len - 1)
      BY <2>1, <2>2, TargetsInFile DEF target, IdealTarget
    <2> QED
      BY <2>1, <2>3
  <1>7. CASE AcceptExactTarget
    <2>1. /\ pc = "loop" /\ i < n /\ target > last_boundary /\ EndsRecord(data, delim, target)
          /\ PushBoundary(target) /\ pc' = pc
      BY <1>7 DEF AcceptExactTarget
    <2>2. Snaps(data, delim)[target] = target
      BY <1>t, <2>1 DEF Snaps
    <2> QED
      BY <1>6, <2>1, <2>2
  <1>8. CASE SearchHit
    <2>1. /\ pc = "loop" /\ i < n /\ target > last_boundary /\ ~EndsRecord(data, delim, target)
          /\ pc' = pc
      BY <1>8 DEF SearchHit
    <2>2. PICK p \in target..file_len :
            /\ FirstMatchIn(data, delim, target, file_len, p)
            /\ PushBoundary(MinOf(p + Len(delim), file_len))
      BY <1>8 DEF SearchHit
    <2>3. p \in Nat /\ AfterHit(data, delim, target) = p + Len(delim) /\ p + Len(delim) <= file_len
      BY <1>t, <2>1, <2>2, HitIsMatch
    <2>4. MinOf(p + Len(delim), file_len) = p + Len(delim)
      BY <2>3 DEF MinOf
    <2>5. Snaps(data, delim)[target] = p + Len(delim)
      BY <1>t, <2>1, <2>3 DEF Snaps
    <2> QED
      BY <1>6, <2>1, <2>2, <2>4, <2>5
  <1>9. CASE SearchMiss
    <2>1. /\ pc = "loop" /\ i < n /\ target > last_boundary /\ ~EndsRecord(data, delim, target)
          /\ NoMatchIn(data, delim, target, file_len)
          /\ boundaries' = Append(boundaries, file_len) /\ pc' = "assemble"
      BY <1>9 DEF SearchMiss
    <2>2. AfterHit(data, delim, target) = file_len
      BY <1>t, <2>1, HitIsMatch
    <2>3. Snaps(data, delim)[target] = file_len
      BY <1>t, <2>1, <2>2 DEF Snaps
    <2>4. f[i][last_boundary] = <<file_len>>
      BY <1>1, <2>1, <2>3, PushIsOracle
    <2>5. boundaries \in Seq(Nat) /\ file_len \in Nat
      BY <2>1, LoopNumbers
    <2>6. Append(boundaries, file_len) = boundaries \o <<file_len>>
      BY <2>5, AppendIsConcat
    <2> QED
      BY <1>2, <2>1, <2>4, <2>6
  <1>10. CASE LeaveLoop
    <2>1. pc = "loop" /\ i >= n /\ pc' = "assemble" /\ boundaries' = boundaries
      BY <1>10 DEF LeaveLoop, loop
    <2>2. /\ n = Capped /\ Capped \in Nat /\ boundaries \in Seq(Nat) /\ file_len \in Nat
          /\ CutArgs(Targets(file_len, Capped), Snaps(data, delim), Capped, file_len)
      BY <2>1, LoopNumbers
    <2>3. i = Capped /\ last_boundary \in 0..file_len
      BY <2>1, <2>2 DEF PlanInv, LoopInv, InLoop, TypeOK
    <2>4. f[i][last_boundary] = <<>>
      <3>1. IsCuts(f, Targets(file_len, Capped), Snaps(data, delim), Capped, file_len)
        BY <1>1 DEF CutsTable
      <3>2. \A last \in 0..file_len : f[Capped][last] = <<>>
        BY <2>2, <3>1, CutsSteps
      <3> QED
        BY <2>3, <3>2
    <2>5. boundaries \o <<>> = boundaries
      BY <2>2, ConcatEmptySeq
    <2> QED
      BY <1>2, <2>1, <2>4, <2>5
  <1>11. CASE Assemble \/ Done \/ UNCHANGED vars
    <2>1. /\ boundaries' = boundaries /\ i' = i /\ last_boundary' = last_boundary
          /\ (pc' = pc \/ (pc = "assemble" /\ pc' = "done"))
      BY <1>11 DEF Assemble, AssembleCut, AssembleTail, Done, vars, loop
    <2> QED
      BY <1>2, <2>1
  <1> QED
    BY <1>3, <1>4, <1>5, <1>6, <1>7, <1>8, <1>9, <1>10, <1>11
       DEF Next, AcceptExactTarget, SearchHit, SkipTarget, EnterLoop

(* The assembly loop emits the oracle's ranges. *)
LEMMA RangesMatchKept == PlanInv /\ RangesMatch /\ [Next]_vars => RangesMatch'
  <1> SUFFICES ASSUME PlanInv, RangesMatch, [Next]_vars, file_len' > 0, parts' > 1,
                      NEW g, RangesTable(g)'
               PROVE  /\ pc' = "assemble" => partitions' \o g[j'][prev'] = g[1][0]
                      /\ pc' = "done" => partitions' = g[1][0]
    BY DEF RangesMatch
  <1>a. UNCHANGED args
    BY DEF Next, ReturnEmpty, ReturnWhole, EnterLoop, SkipTarget, AcceptExactTarget, SearchHit,
       SearchMiss, LeaveLoop, Assemble, AssembleCut, AssembleTail, Done, PushBoundary, vars
  <1>1. file_len > 0 /\ parts > 1 /\ file_len' = file_len
    BY <1>a, SameTables
  <1>2. CASE ReturnEmpty \/ ReturnWhole
    BY <1>1, <1>2 DEF ReturnEmpty, ReturnWhole
  <1>3. CASE EnterLoop \/ SkipTarget \/ AcceptExactTarget \/ SearchHit
    BY <1>3 DEF EnterLoop, SkipTarget, AcceptExactTarget, SearchHit
  <1>4. CASE SearchMiss \/ LeaveLoop
    <2>1. pc = "loop" /\ pc' = "assemble" /\ j' = j /\ prev' = prev /\ partitions' = partitions
      BY <1>4 DEF SearchMiss, LeaveLoop, assembly
    <2>2. j = 1 /\ prev = 0 /\ partitions = <<>>
      BY <2>1 DEF PlanInv, LoopInv, InLoop
    <2>3. file_len \in Nat /\ boundaries' \in Seq(0..file_len)
      <3>1. file_len \in Nat /\ boundaries \in Seq(0..file_len)
        BY <2>1, LoopNumbers
      <3>2. file_len \in 0..file_len
        BY <3>1
      <3>3. boundaries' = boundaries \/ boundaries' = Append(boundaries, file_len)
        BY <1>4 DEF SearchMiss, LeaveLoop, loop
      <3> QED
        BY <3>1, <3>2, <3>3
    <2>4. g[1][0] \in Seq(Pair)
      <3>1. g \in [1..(Len(boundaries') + 1) -> [0..file_len -> Seq(Pair)]]
        BY <1>1 DEF RangesTable
      <3>2. 1 \in 1..(Len(boundaries') + 1) /\ 0 \in 0..file_len
        BY <2>3
      <3> QED
        BY <3>1, <3>2
    <2>5. <<>> \o g[1][0] = g[1][0]
      BY <2>4, ConcatEmptySeq
    <2> QED
      BY <2>1, <2>2, <2>5
  <1>5. CASE Assemble
    <2>1. pc = "assemble" /\ boundaries' = boundaries
      BY <1>5 DEF Assemble, AssembleCut, AssembleTail, loop
    <2>2. RangesTable(g)
      BY <1>a, <2>1, SameTables
    <2>3. partitions \o g[j][prev] = g[1][0]
      BY <1>1, <2>1, <2>2 DEF RangesMatch
    <2>4. /\ file_len \in Nat /\ boundaries \in Seq(0..file_len) /\ Len(boundaries) \in Nat
          /\ j \in 1..(Len(boundaries) + 1) /\ prev \in 0..file_len /\ partitions \in Seq(Pair)
      <3>1. file_len \in Nat /\ boundaries \in Seq(0..file_len)
        BY <2>1, LoopNumbers
      <3>2. j \in Nat \ {0} /\ prev \in 0..file_len
            /\ partitions \in Seq((0..file_len) \X (0..file_len))
        BY DEF PlanInv, TypeOK
      <3>3. j <= Len(boundaries) + 1 /\ Len(boundaries) \in Nat
        BY <2>1, <3>1 DEF PlanInv, AssembleInv
      <3>4. \A k \in 1..Len(partitions) : partitions[k] \in Pair
        BY <3>1, <3>2 DEF Pair
      <3>5. partitions \in Seq(Pair)
        BY <3>2, <3>4, SMTT(60)
      <3> QED
        BY <3>1, <3>2, <3>3, <3>5
    <2>5. g[j][prev] = RangeRow(g, boundaries, file_len, j, prev)
      <3>1. IsRanges(g, boundaries, file_len)
        BY <2>2 DEF RangesTable
      <3>2. \A k \in 1..(Len(boundaries) + 1) : \A start \in 0..file_len :
              g[k][start] = RangeRow(g, boundaries, file_len, k, start)
        BY <2>4, <3>1, RangesSteps
      <3> QED
        BY <2>4, <3>2, Zenon
    <2>6. CASE AssembleCut
      <3> DEFINE head == IF boundaries[j] > prev THEN <<<<prev, boundaries[j]>>>> ELSE <<>>
                 rest == g[j + 1][boundaries[j]]
      <3>1. /\ j <= Len(boundaries) /\ prev' = boundaries[j] /\ j' = j + 1 /\ pc' = "assemble"
            /\ partitions' = IF boundaries[j] > prev
                             THEN Append(partitions, <<prev, boundaries[j]>>) ELSE partitions
        BY <2>1, <2>6 DEF AssembleCut
      <3>2. boundaries[j] \in 0..file_len /\ boundaries[j] \in Nat /\ prev \in Nat
            /\ j + 1 \in 1..(Len(boundaries) + 1)
        BY <2>4, <3>1
      <3>3. rest \in Seq(Pair)
        BY <2>2, <3>2 DEF RangesTable
      <3>4. g[j][prev] = head \o rest
        BY <2>5, <3>1 DEF RangeRow
      <3>5. <<prev, boundaries[j]>> \in Pair
        BY <3>2 DEF Pair
      <3> HIDE DEF rest
      <3>6. CASE boundaries[j] > prev
        <4>1. partitions' = Append(partitions, <<prev, boundaries[j]>>)
              /\ g[j][prev] = <<<<prev, boundaries[j]>>>> \o rest
          BY <3>1, <3>4, <3>6
        <4>2. Append(partitions, <<prev, boundaries[j]>>) \o rest
              = partitions \o (<<<<prev, boundaries[j]>>>> \o rest)
          <5> DEFINE r == <<prev, boundaries[j]>>
          <5>1. r \in Pair /\ <<r>> \in Seq(Pair)
            BY <3>5
          <5> HIDE DEF r
          <5>2. Append(partitions, r) = partitions \o <<r>>
            BY <2>4, <5>1, AppendIsConcat
          <5>3. (partitions \o <<r>>) \o rest = partitions \o (<<r>> \o rest)
            BY <2>4, <3>3, <5>1, ConcatAssociative
          <5> QED
            BY <5>2, <5>3 DEF r
        <4> QED
          BY <2>3, <3>1, <4>1, <4>2 DEF rest
      <3>7. CASE ~(boundaries[j] > prev)
        <4>1. partitions' = partitions /\ g[j][prev] = <<>> \o rest
          BY <3>1, <3>4, <3>7
        <4>2. <<>> \o rest = rest
          BY <3>3, ConcatEmptySeq
        <4> QED
          BY <2>3, <3>1, <4>1, <4>2 DEF rest
      <3> QED
        BY <3>6, <3>7
    <2>7. CASE AssembleTail
      <3>1. /\ j > Len(boundaries) /\ pc' = "done"
            /\ partitions' = IF prev < file_len THEN Append(partitions, <<prev, file_len>>)
                             ELSE partitions
        BY <2>1, <2>7 DEF AssembleTail
      <3>2. ~(j <= Len(boundaries)) /\ prev \in Nat
        BY <2>4, <3>1
      <3>3. g[j][prev] = IF prev < file_len THEN <<<<prev, file_len>>>> ELSE <<>>
        BY <2>5, <3>2 DEF RangeRow
      <3>4. <<prev, file_len>> \in Pair
        BY <2>4, <3>2 DEF Pair
      <3>5. Append(partitions, <<prev, file_len>>) = partitions \o <<<<prev, file_len>>>>
        BY <2>4, <3>4, AppendIsConcat
      <3>6. partitions \o <<>> = partitions
        BY <2>4, ConcatEmptySeq
      <3> QED
        BY <2>3, <3>1, <3>3, <3>5, <3>6
    <2> QED
      BY <1>5, <2>6, <2>7 DEF Assemble
  <1>6. CASE Done \/ UNCHANGED vars
    <2>1. /\ boundaries' = boundaries /\ pc' = pc /\ j' = j /\ prev' = prev
          /\ partitions' = partitions
      BY <1>6 DEF Done, vars, loop, assembly
    <2>2. RangesTable(g)
      BY <1>a, <2>1, SameTables
    <2> QED
      BY <1>1, <2>1, <2>2 DEF RangesMatch
  <1> QED
    BY <1>2, <1>3, <1>4, <1>5, <1>6 DEF Next

(* The early returns. *)
LEMMA EarlyReturnsKept == PlanInv /\ EarlyReturns /\ [Next]_vars => EarlyReturns'
  <1> SUFFICES ASSUME PlanInv, EarlyReturns, [Next]_vars PROVE EarlyReturns'
    OBVIOUS
  <1>a. UNCHANGED args
    BY DEF Next, ReturnEmpty, ReturnWhole, EnterLoop, SkipTarget, AcceptExactTarget, SearchHit,
       SearchMiss, LeaveLoop, Assemble, AssembleCut, AssembleTail, Done, PushBoundary, vars
  <1>1. file_len' = file_len /\ parts' = parts /\ parts \in Nat /\ file_len \in Nat
    BY <1>a, SameTables DEF PlanInv, TypeOK, file_len
  <1>2. CASE ReturnEmpty
    <2>1. pc = "start" /\ (file_len = 0 \/ parts = 0) /\ partitions' = partitions
      BY <1>2 DEF ReturnEmpty, assembly
    <2>2. partitions = <<>>
      BY <2>1 DEF PlanInv, StartInv
    <2> QED
      BY <1>1, <2>1, <2>2 DEF EarlyReturns
  <1>3. CASE ReturnWhole
    BY <1>1, <1>3 DEF ReturnWhole, EarlyReturns
  <1>4. CASE EnterLoop \/ SkipTarget \/ AcceptExactTarget \/ SearchHit \/ SearchMiss \/ LeaveLoop
    BY <1>4 DEF EnterLoop, SkipTarget, AcceptExactTarget, SearchHit, SearchMiss, LeaveLoop,
       EarlyReturns
  <1>5. CASE Assemble
    <2>1. pc = "assemble"
      BY <1>5 DEF Assemble, AssembleCut, AssembleTail
    <2>2. file_len > 0 /\ parts > 1
      BY <2>1, LoopNumbers
    <2> QED
      BY <1>1, <2>2 DEF EarlyReturns
  <1>6. CASE Done \/ UNCHANGED vars
    <2>1. pc' = pc /\ partitions' = partitions
      BY <1>6 DEF Done, vars, assembly
    <2> QED
      BY <1>1, <2>1 DEF EarlyReturns
  <1> QED
    BY <1>2, <1>3, <1>4, <1>5, <1>6 DEF Next

(* A plan that has returned is the plan of the oracles. *)
LEMMA DoneMatches ==
    ASSUME PlanInv, OracleInv, pc = "done"
    PROVE  /\ partitions = scalar_partition_boundaries_pattern(data, parts, delim)
           /\ Len(delim) = 1 =>
                /\ partitions = scalar_partition_boundaries(data, parts, delim[1])
                /\ partitions = scalar_partition(data, parts, delim[1])
  <1>1. /\ data \in Seq(Byte) /\ delim \in Seq(Byte) /\ Len(delim) > 0 /\ parts \in Nat
        /\ boundaries \in Seq(0..file_len) /\ file_len \in Nat /\ file_len = Len(data)
    BY DEF PlanInv, TypeOK, file_len
  <1>2. CASE file_len = 0 \/ parts = 0
    <2>1. partitions = <<>> /\ (Len(data) = 0 \/ parts = 0)
      BY <1>1, <1>2 DEF OracleInv, EarlyReturns
    <2> QED
      BY <2>1 DEF scalar_partition_boundaries_pattern, scalar_partition_boundaries, scalar_partition
  <1>3. CASE file_len > 0 /\ parts = 1
    <2>1. partitions = <<<<0, Len(data)>>>> /\ Len(data) # 0 /\ parts # 0
      BY <1>1, <1>3 DEF OracleInv, EarlyReturns
    <2> QED
      BY <1>3, <2>1
         DEF scalar_partition_boundaries_pattern, scalar_partition_boundaries, scalar_partition
  <1>4. CASE file_len > 0 /\ parts > 1
    <2>0. Capped \in Nat /\ Capped > 0
      <3>1. /\ MinOf(parts, file_len) \in Nat
            /\ (MinOf(parts, file_len) = parts \/ MinOf(parts, file_len) = file_len)
        BY <1>1, MinIs
      <3> QED
        BY <1>1, <1>4, <3>1 DEF Capped
    <2>1. CutArgs(Targets(file_len, Capped), Snaps(data, delim), Capped, file_len)
      BY <1>1, <1>4, <2>0, SnapArgs
    <2>2. PICK f \in [1..Capped -> [0..file_len -> Seq(Nat)]] :
            IsCuts(f, Targets(file_len, Capped), Snaps(data, delim), Capped, file_len)
      BY <2>1, CutsExist
    <2>3. boundaries = f[1][0]
      BY <1>4, <2>2 DEF OracleInv, CutsMatch, CutsTable
    <2>4. PICK g \in [1..(Len(boundaries) + 1) -> [0..file_len -> Seq(Pair)]] :
            IsRanges(g, boundaries, file_len)
      BY <1>1, RangesExist
    <2>5. partitions = g[1][0]
      BY <1>4, <2>4 DEF OracleInv, RangesMatch, RangesTable
    <2>6. partitions = CutRanges(f[1][0], file_len)
      BY <1>1, <2>3, <2>4, <2>5, CutRangesIs
    <2>7. IsCuts(f, Targets(Len(data), MinOf(parts, Len(data))), Snaps(data, delim),
                 MinOf(parts, Len(data)), Len(data))
      BY <1>1, <2>2 DEF Capped
    <2>8. scalar_partition_boundaries_pattern(data, parts, delim) = CutRanges(f[1][0], file_len)
      BY <1>1, <1>4, <2>7, PatternPlanOracle
    <2>9. Len(delim) = 1 =>
            /\ scalar_partition_boundaries(data, parts, delim[1]) = CutRanges(f[1][0], file_len)
            /\ scalar_partition(data, parts, delim[1]) = CutRanges(f[1][0], file_len)
      BY <1>1, <1>4, <2>7, BytePlanOracles
    <2> QED
      BY <2>6, <2>8, <2>9
  <1> QED
    BY <1>1, <1>2, <1>3, <1>4

(* Every reference loop that applies to a request plans what the planner   *)
(* plans, and what the harnesses assert of a plan holds, for every file,   *)
(* delimiter and request: the cap, the collapse of targets and the break   *)
(* at the last delimiter are not observable.                               *)
THEOREM PlannerMatchesOracles == Spec => []MatchesScalarOracles
  <1>1. Init => OracleInv
    BY DEF Init, OracleInv, CutsMatch, RangesMatch, EarlyReturns
  <1>2. PlanInv /\ OracleInv /\ [Next]_vars => OracleInv'
    BY CutsMatchKept, RangesMatchKept, EarlyReturnsKept DEF OracleInv
  <1>3. PlanInv /\ AlignInv /\ OracleInv => MatchesScalarOracles
    <2> SUFFICES ASSUME PlanInv, AlignInv, OracleInv, pc = "done"
                 PROVE  MatchesScalarOracles
      BY DEF MatchesScalarOracles
    <2>1. /\ data \in Seq(Byte) /\ delim \in Seq(Byte) /\ Len(delim) > 0 /\ parts \in Nat
          /\ file_len \in Nat /\ file_len = Len(data)
          /\ partitions \in Seq((0..file_len) \X (0..file_len))
      BY DEF PlanInv, TypeOK, file_len
    <2>2. Coverage /\ RecordAligned /\ AtMostRequested
      BY DEF PlanInv, DoneInv, AlignInv
    <2>3. CASE data = <<>> \/ parts = 0
      <3>1. file_len = 0 \/ parts = 0
        BY <2>1, <2>3
      <3>2. partitions = <<>>
        BY <3>1 DEF OracleInv, EarlyReturns
      <3>3. Len(delim) = 1 /\ parts > 0 => fuzz_partition
        <4> SUFFICES ASSUME Len(delim) = 1, parts > 0 PROVE fuzz_partition
          OBVIOUS
        <4>1. partitions = scalar_partition(data, parts, delim[1])
          BY DoneMatches
        <4>2. data = <<>>
          BY <2>1, <2>3
        <4>3. \A k \in 1..(Len(partitions) - 1) : data[partitions[k][2]] = delim[1]
          BY <3>2
        <4> QED
          BY <3>2, <4>1, <4>2, <4>3 DEF fuzz_partition, assert_cover
      <3> QED
        BY <2>1, <2>3, <3>2, <3>3, DoneMatches
           DEF MatchesScalarOracles, assert_partition_invariants, assert_partition_invariants_pattern
    <2>4. CASE ~(data = <<>> \/ parts = 0)
      <3>1. file_len > 0 /\ parts > 0
        BY <2>1, <2>4
      <3>2. Covers(partitions, Len(data)) /\ Len(partitions) <= parts
        BY <2>1, <2>2, <3>1 DEF Coverage, AtMostRequested
      <3>3. \A k \in 1..(Len(partitions) - 1) : EndsRecord(data, delim, partitions[k][2])
        <4> TAKE k \in 1..(Len(partitions) - 1)
        <4>0. Len(partitions) \in Nat
          BY <2>1
        <4>1. k \in 1..Len(partitions) /\ k + 1 \in 1..Len(partitions)
          BY <4>0
        <4>2. /\ partitions[k][2] = partitions[k + 1][1]
              /\ partitions[k + 1][1] < partitions[k + 1][2]
          BY <3>2, <4>1 DEF Covers
        <4>3. partitions[k + 1] \in (0..file_len) \X (0..file_len)
          BY <2>1, <4>1
        <4>4. partitions[k][2] < file_len
          BY <2>1, <4>2, <4>3, SMTT(60)
        <4> QED
          BY <2>2, <4>1, <4>4 DEF RecordAligned
      <3>4. Len(delim) = 1 => \A k \in 1..(Len(partitions) - 1) : data[partitions[k][2]] = delim[1]
        <4> SUFFICES ASSUME Len(delim) = 1, NEW k \in 1..(Len(partitions) - 1)
                     PROVE  data[partitions[k][2]] = delim[1]
          OBVIOUS
        <4>1. partitions[k] \in (0..file_len) \X (0..file_len)
          BY <2>1
        <4>2. EndsRecord(data, delim, partitions[k][2])
          BY <3>3
        <4>3. partitions[k][2] - 1 + 1 = partitions[k][2]
          BY <2>1, <4>1, SMTT(60)
        <4> QED
          BY <4>2, <4>3 DEF EndsRecord, MatchAt
      <3> QED
        BY <2>1, <2>4, <3>2, <3>3, <3>4, DoneMatches
           DEF MatchesScalarOracles, assert_partition_invariants,
               assert_partition_invariants_pattern, fuzz_partition, assert_cover
    <2> QED
      BY <2>3, <2>4
  <1> QED
    BY <1>1, <1>2, <1>3, PlannerInvariant, AlignmentInvariant, PTL DEF Spec
------------------------------------------------------------------------------
(* The byte-source planner.                                                *)

Active == pc \in {"tail", "tailcheck", "fill", "scan"}

(* The iteration the buffered steps work for. *)
ActiveInv ==
    Active => i < n /\ target > last_boundary

TailInv ==
    /\ pc \in {"tail", "tailcheck"} => dlen <= target
    /\ pc = "tail" => filled < dlen
    /\ pc = "tailcheck" => filled <= dlen

FillInv ==
    /\ pc \in {"fill", "scan"} =>
          /\ target <= offset /\ offset < file_len
          /\ dlen <= probe_len /\ filled <= want
    /\ pc = "fill" => filled < want
    /\ pc = "scan" /\ stable => filled = want

SearchInv ==
    SrcTypeOK /\ ActiveInv /\ TailInv /\ FillInv /\ NoMatchSkipped
------------------------------------------------------------------------------
(* Facts about the sizes that every step uses. *)
LEMMA Sizes ==
    ASSUME SrcTypeOK
    PROVE  /\ file_len \in Nat /\ dlen \in Nat \ {0} /\ buffer_len \in Nat
           /\ buffer_len >= dlen /\ scan_buffer \in Nat
  <1>1. file_len \in Nat /\ dlen \in Nat \ {0} /\ scan_buffer \in Nat
    BY DEF SrcTypeOK, file_len, dlen
  <1> QED
    BY <1>1 DEF buffer_len, MaxOf

(* The target of an iteration is an offset of the file. *)
LEMMA ActiveTarget ==
    ASSUME SrcTypeOK, i < n
    PROVE  target \in 0..(file_len - 1) /\ file_len \in Nat
  <1>1. file_len \in Nat /\ i \in Nat /\ n \in Nat /\ file_len > 0
    BY Sizes DEF SrcTypeOK
  <1> QED
    BY <1>1, TargetInFile DEF target

(* A call that has not begun satisfies the invariant. *)
LEMMA SrcInitInv == SrcInit => SearchInv
  <1> SUFFICES ASSUME SrcInit PROVE SearchInv
    OBVIOUS
  <1>1. data \in Seq(Byte) /\ delim \in Seq(Byte) \ {<<>>} /\ parts \in Nat
    BY InputAssumption DEF SrcInit, Init
  <1>2. file_len \in Nat /\ dlen \in Nat /\ scan_buffer \in Nat /\ buffer_len \in Nat
    BY <1>1, BufferAssumption DEF SrcInit, file_len, dlen, buffer_len, MaxOf
  <1>3. SrcTypeOK
    BY <1>1, <1>2 DEF SrcInit, Init, SrcTypeOK
  <1> QED
    BY <1>3 DEF SrcInit, Init, SearchInv, ActiveInv, Active, TailInv, FillInv,
       NoMatchSkipped

(* Steps of the partition loop proper leave no search under way. *)
Idle == pc \in {"start", "loop", "assemble", "done", "error"}

(* Outside a search only the types matter. *)
LEMMA IdleKeeps ==
    ASSUME SrcTypeOK', Idle'
    PROVE  SearchInv'
  BY DEF SearchInv, Idle, ActiveInv, Active, TailInv, FillInv, NoMatchSkipped

(* The constants of one call. *)
LEMMA SameSizes ==
    ASSUME UNCHANGED <<args, source>>
    PROVE  /\ file_len' = file_len /\ dlen' = dlen /\ buffer_len' = buffer_len
           /\ data' = data /\ delim' = delim /\ parts' = parts
           /\ scan_buffer' = scan_buffer /\ stable' = stable
  BY DEF args, source, file_len, dlen, buffer_len

(* Starting a search at the target of the current iteration. *)
LEMMA StartSearchKeeps ==
    ASSUME SearchInv, StartSearch, i < n, target > last_boundary,
           UNCHANGED <<args, loop, assembly, source>>
    PROVE  SearchInv'
  <1>1. /\ file_len \in Nat /\ dlen \in Nat \ {0} /\ buffer_len \in Nat
        /\ buffer_len >= dlen /\ InitialProbe \in Nat
    BY Sizes, BufferAssumption DEF SearchInv
  <1>2. target \in 0..(file_len - 1)
    BY ActiveTarget DEF SearchInv
  <1>3. /\ file_len' = file_len /\ dlen' = dlen /\ buffer_len' = buffer_len
        /\ data' = data /\ delim' = delim /\ parts' = parts
        /\ scan_buffer' = scan_buffer /\ stable' = stable
    BY SameSizes
  <1>4. /\ i' = i /\ n' = n /\ last_boundary' = last_boundary /\ boundaries' = boundaries
        /\ j' = j /\ prev' = prev /\ partitions' = partitions
        /\ target' = target
    BY <1>3 DEF loop, assembly, target
  <1>5. /\ offset' = target /\ filled' = 0 /\ pc' = "fill"
        /\ probe_len' \in dlen..buffer_len
    BY <1>1 DEF StartSearch, MinOf, MaxOf
  <1>6. want' \in Nat \ {0}
    BY <1>1, <1>2, <1>3, <1>5 DEF want, MinOf
  <1>7. SrcTypeOK'
    BY <1>1, <1>2, <1>3, <1>4, <1>5, <1>6 DEF SearchInv, SrcTypeOK
  <1>8. ActiveInv' /\ TailInv' /\ FillInv'
    BY <1>1, <1>2, <1>3, <1>4, <1>5, <1>6 DEF ActiveInv, TailInv, FillInv
  <1>9. NoMatchSkipped'
    BY <1>2, <1>4, <1>5 DEF NoMatchSkipped
  <1> QED
    BY <1>7, <1>8, <1>9 DEF SearchInv

(* Appending an offset of the file to the cuts. *)
LEMMA AppendCut ==
    ASSUME SrcTypeOK, NEW b \in 0..file_len
    PROVE  Append(boundaries, b) \in Seq(0..file_len)
  BY DEF SrcTypeOK

(* Appending a range of the file to the plan. *)
LEMMA AppendRange ==
    ASSUME NEW l \in Nat, NEW rs \in Seq((0..l) \X (0..l)), NEW a \in 0..l, NEW b \in 0..l
    PROVE  /\ Append(rs, <<a, b>>) \in Seq((0..l) \X (0..l))
           /\ <<<<a, b>>>> \in Seq((0..l) \X (0..l))
  <1> DEFINE R == (0..l) \X (0..l)
  <1>1. <<a, b>> \in R
    OBVIOUS
  <1> HIDE DEF R
  <1>2. ASSUME NEW e \in R, NEW t \in Seq(R) PROVE Append(t, e) \in Seq(R) /\ <<e>> \in Seq(R)
    OBVIOUS
  <1>3. rs \in Seq(R)
    BY DEF R
  <1>4. Append(rs, <<a, b>>) \in Seq(R) /\ <<<<a, b>>>> \in Seq(R)
    BY <1>1, <1>2, <1>3
  <1> QED
    BY <1>4 DEF R

(* The steps that leave no search under way. *)
LEMMA IdleSteps ==
    ASSUME SearchInv,
           \/ OpenError \/ SrcReturn \/ SrcNoBuffer \/ SrcEnterLoop \/ SrcSkipTarget
           \/ ReadError \/ SrcLeaveLoop \/ SrcAssemble
    PROVE  SearchInv'
  <1>1. /\ file_len \in Nat /\ buffer_len \in Nat
        /\ boundaries \in Seq(0..file_len)
        /\ partitions \in Seq((0..file_len) \X (0..file_len))
        /\ j \in Nat \ {0} /\ prev \in 0..file_len /\ i \in Nat \ {0} /\ parts \in Nat
    BY Sizes DEF SearchInv, SrcTypeOK
  <1>2. CASE OpenError \/ SrcNoBuffer \/ ReadError
    <2>1. UNCHANGED <<args, loop, assembly, source, search>> /\ pc' = "error"
      BY <1>2 DEF OpenError, SrcNoBuffer, ReadError
    <2>2. SrcTypeOK'
      BY <2>1, SameSizes DEF SearchInv, SrcTypeOK, loop, assembly, search, want
    <2> QED
      BY <2>1, <2>2, IdleKeeps DEF Idle
  <1>3. CASE SrcReturn
    <2>1. UNCHANGED <<args, loop, j, prev, source, search>> /\ pc' = "done"
      BY <1>3 DEF SrcReturn, ReturnEmpty, ReturnWhole, assembly
    <2>2. partitions' \in Seq((0..file_len) \X (0..file_len))
      <3>1. CASE ReturnEmpty
        BY <1>1, <3>1 DEF ReturnEmpty, assembly
      <3>2. CASE ReturnWhole
        <4>1. 0 \in 0..file_len /\ file_len \in 0..file_len
          BY <1>1
        <4> QED
          BY <1>1, <3>2, <4>1, AppendRange DEF ReturnWhole
      <3> QED
        BY <1>3, <3>1, <3>2 DEF SrcReturn
    <2>3. SrcTypeOK'
      BY <2>1, <2>2, SameSizes DEF SearchInv, SrcTypeOK, loop, search
    <2> QED
      BY <2>1, <2>3, IdleKeeps DEF Idle
  <1>4. CASE SrcEnterLoop
    <2>1. /\ UNCHANGED <<args, i, last_boundary, boundaries, assembly, source, search>>
          /\ pc' = "loop" /\ n' \in 0..file_len
      BY <1>1, <1>4 DEF SrcEnterLoop, EnterLoop, MinOf
    <2>2. SrcTypeOK'
      BY <2>1, SameSizes DEF SearchInv, SrcTypeOK, assembly, search
    <2> QED
      BY <2>1, <2>2, IdleKeeps DEF Idle
  <1>5. CASE SrcSkipTarget
    <2>1. /\ UNCHANGED <<args, n, last_boundary, boundaries, assembly, source, search>>
          /\ pc' = "loop" /\ i' \in Nat \ {0}
      BY <1>1, <1>5 DEF SrcSkipTarget, SkipTarget
    <2>2. SrcTypeOK'
      BY <2>1, SameSizes DEF SearchInv, SrcTypeOK, assembly, search
    <2> QED
      BY <2>1, <2>2, IdleKeeps DEF Idle
  <1>6. CASE SrcLeaveLoop
    <2>1. UNCHANGED <<args, loop, assembly, source, search>> /\ pc' = "assemble"
      BY <1>6 DEF SrcLeaveLoop, LeaveLoop
    <2>2. SrcTypeOK'
      BY <2>1, SameSizes DEF SearchInv, SrcTypeOK, loop, assembly, search
    <2> QED
      BY <2>1, <2>2, IdleKeeps DEF Idle
  <1>7. CASE SrcAssemble /\ AssembleCut
    <2>1. UNCHANGED <<args, loop, source, search>> /\ pc' = "assemble" /\ j' = j + 1
      BY <1>7 DEF SrcAssemble, AssembleCut
    <2>2. boundaries[j] \in 0..file_len /\ prev' = boundaries[j]
      BY <1>1, <1>7 DEF AssembleCut
    <2>3. partitions' \in Seq((0..file_len) \X (0..file_len))
      BY <1>1, <1>7, <2>2, AppendRange DEF AssembleCut
    <2>4. SrcTypeOK'
      BY <1>1, <2>1, <2>2, <2>3, SameSizes DEF SearchInv, SrcTypeOK, loop, search
    <2> QED
      BY <2>1, <2>4, IdleKeeps DEF Idle
  <1>8. CASE SrcAssemble /\ AssembleTail
    <2>1. UNCHANGED <<args, loop, j, prev, source, search>> /\ pc' = "done"
      BY <1>8 DEF SrcAssemble, AssembleTail
    <2>2. partitions' \in Seq((0..file_len) \X (0..file_len))
      <3>1. file_len \in 0..file_len
        BY <1>1
      <3> QED
        BY <1>1, <1>8, <3>1, AppendRange DEF AssembleTail
    <2>3. SrcTypeOK'
      BY <2>1, <2>2, SameSizes DEF SearchInv, SrcTypeOK, loop, search
    <2> QED
      BY <2>1, <2>3, IdleKeeps DEF Idle
  <1> QED
    BY <1>2, <1>3, <1>4, <1>5, <1>6, <1>7, <1>8 DEF SrcAssemble, Assemble

(* A cut found by a search or an accepted tail ends the iteration. *)
LEMMA PushSteps ==
    ASSUME SearchInv, TailAccept \/ ScanHit \/ ScanNone
    PROVE  SearchInv'
  <1>1. file_len \in Nat /\ buffer_len \in Nat /\ dlen \in Nat /\ i \in Nat
    BY Sizes DEF SearchInv, SrcTypeOK
  <1>2. PICK b \in 0..file_len :
          /\ boundaries' = Append(boundaries, b)
          /\ last_boundary' \in {last_boundary, b} /\ i' \in {i, i + 1}
          /\ UNCHANGED <<args, n, assembly, source, search>>
          /\ pc' \in {"loop", "assemble"}
    <2>1. CASE TailAccept
      <3>1. target \in 0..file_len
        BY <1>1, <2>1, ActiveTarget DEF TailAccept, SearchInv, ActiveInv, Active
      <3> QED
        BY <2>1, <3>1 DEF TailAccept, PushBoundary
    <2>2. CASE ScanHit
      <3>1. PICK p \in offset..(offset + filled) :
              PushBoundary(MinOf(p + dlen, file_len))
        BY <2>2 DEF ScanHit
      <3>2. offset \in Nat /\ filled \in Nat
        BY <1>1 DEF SearchInv, SrcTypeOK
      <3>3. MinOf(p + dlen, file_len) \in 0..file_len
        BY <1>1, <3>2 DEF MinOf
      <3> QED
        BY <2>2, <3>1, <3>3 DEF ScanHit, PushBoundary
    <2>3. CASE ScanNone
      BY <1>1, <2>3 DEF ScanNone
    <2> QED
      BY <2>1, <2>2, <2>3
  <1>3. boundaries' \in Seq(0..file_len)
    BY <1>2, AppendCut DEF SearchInv
  <1>4. SrcTypeOK'
    BY <1>1, <1>2, <1>3, SameSizes DEF SearchInv, SrcTypeOK, assembly, search
  <1> QED
    BY <1>2, <1>4, IdleKeeps DEF Idle

(* The probe of the bytes before the target. *)
LEMMA TailSteps ==
    ASSUME SearchInv, BeginTail \/ BeginSearch \/ ReadTail \/ TailReject
    PROVE  SearchInv'
  <1>1. /\ file_len \in Nat /\ dlen \in Nat \ {0} /\ buffer_len \in Nat
        /\ buffer_len >= dlen
    BY Sizes DEF SearchInv
  <1>2. CASE BeginSearch
    BY <1>2, StartSearchKeeps DEF BeginSearch
  <1>3. CASE TailReject
    BY <1>3, StartSearchKeeps DEF TailReject, SearchInv, ActiveInv, Active
  <1>4. CASE BeginTail
    <2>1. /\ UNCHANGED <<args, loop, assembly, source, offset, probe_len>>
          /\ pc' = "tail" /\ filled' = 0 /\ i < n /\ target > last_boundary
          /\ target >= dlen
      BY <1>4 DEF BeginTail
    <2>2. target' = target /\ i' = i /\ n' = n /\ last_boundary' = last_boundary
      BY <2>1, SameSizes DEF loop, target
    <2>3. SrcTypeOK'
      BY <1>1, <2>1, SameSizes DEF SearchInv, SrcTypeOK, loop, assembly
    <2>4. target \in Nat
      BY <2>1, ActiveTarget DEF SearchInv
    <2>5. ActiveInv' /\ TailInv' /\ FillInv' /\ NoMatchSkipped'
      BY <1>1, <2>1, <2>2, <2>4, SameSizes
         DEF ActiveInv, TailInv, FillInv, NoMatchSkipped
    <2> QED
      BY <2>3, <2>5 DEF SearchInv
  <1>5. CASE ReadTail
    <2>1. PICK r \in ReadCount(dlen - filled) :
            /\ filled' = filled + r
            /\ pc' = IF r = 0 \/ filled + r = dlen THEN "tailcheck" ELSE "tail"
      BY <1>5 DEF ReadTail
    <2>2. /\ UNCHANGED <<args, loop, assembly, source, offset, probe_len>>
          /\ filled \in Nat /\ filled < dlen /\ dlen <= target
          /\ i < n /\ target > last_boundary
      BY <1>5 DEF ReadTail, SearchInv, SrcTypeOK, TailInv, ActiveInv, Active
    <2>3. r \in Nat /\ filled + r <= dlen
      BY <1>1, <2>1, <2>2 DEF ReadCount
    <2>4. target' = target /\ i' = i /\ n' = n /\ last_boundary' = last_boundary
      BY <2>2, SameSizes DEF loop, target
    <2>5. pc' \in {"tail", "tailcheck"} /\ filled' \in 0..dlen
          /\ (pc' = "tail" => filled' < dlen)
      BY <1>1, <2>1, <2>2, <2>3
    <2>6. SrcTypeOK'
      BY <1>1, <2>2, <2>5, SameSizes DEF SearchInv, SrcTypeOK, loop, assembly
    <2>7. ActiveInv' /\ TailInv' /\ FillInv' /\ NoMatchSkipped'
      BY <1>1, <2>2, <2>4, <2>5, SameSizes
         DEF ActiveInv, TailInv, FillInv, NoMatchSkipped
    <2> QED
      BY <2>6, <2>7 DEF SearchInv
  <1> QED
    BY <1>2, <1>3, <1>4, <1>5

(* The search state, as every step of it finds it. *)
LEMMA Searched ==
    ASSUME SearchInv, pc \in {"fill", "scan"}
    PROVE  /\ i < n /\ target > last_boundary /\ target \in Nat
           /\ offset \in Nat /\ target <= offset /\ offset < file_len
           /\ probe_len \in dlen..buffer_len
           /\ filled \in Nat /\ filled <= want
           /\ want \in Nat /\ want <= probe_len /\ offset + want <= file_len
           /\ want = probe_len \/ offset + want = file_len
           /\ file_len \in Nat /\ dlen \in Nat \ {0} /\ buffer_len \in Nat
  <1>1. /\ file_len \in Nat /\ dlen \in Nat \ {0} /\ buffer_len \in Nat
        /\ probe_len \in Nat /\ probe_len <= buffer_len
        /\ offset \in Nat /\ filled \in Nat
    BY Sizes DEF SearchInv, SrcTypeOK
  <1>2. i < n /\ target > last_boundary
    BY DEF SearchInv, ActiveInv, Active
  <1>3. target \in Nat
    BY <1>1, <1>2, ActiveTarget DEF SearchInv
  <1>4. target <= offset /\ offset < file_len /\ dlen <= probe_len /\ filled <= want
    BY DEF SearchInv, FillInv
  <1>5. /\ want \in Nat /\ want <= probe_len /\ offset + want <= file_len
        /\ want = probe_len \/ offset + want = file_len
    BY <1>1, <1>4 DEF want, MinOf
  <1> QED
    BY <1>1, <1>2, <1>3, <1>4, <1>5

(* One read into the probe buffer, short or full. *)
LEMMA ReadFillKeeps ==
    ASSUME SearchInv, ReadFill
    PROVE  SearchInv'
  <1>1. PICK r \in ReadCount(want - filled) :
          /\ filled' = filled + r
          /\ pc' = IF r = 0 \/ filled + r = want THEN "scan" ELSE "fill"
    BY DEF ReadFill
  <1>2. pc = "fill" /\ UNCHANGED <<args, loop, assembly, source, offset, probe_len>>
    BY DEF ReadFill
  <1>3. /\ i < n /\ target > last_boundary /\ target \in Nat
        /\ offset \in Nat /\ target <= offset /\ offset < file_len
        /\ probe_len \in dlen..buffer_len /\ filled \in Nat /\ want \in Nat
        /\ want <= probe_len /\ file_len \in Nat /\ dlen \in Nat /\ buffer_len \in Nat
    BY <1>2, Searched
  <1>4. filled < want
    BY <1>2 DEF SearchInv, FillInv
  <1>5. r \in Nat /\ filled + r <= want /\ (stable => r > 0)
    BY <1>1, <1>3, <1>4 DEF ReadCount
  <1>6. /\ target' = target /\ want' = want /\ i' = i /\ n' = n
        /\ last_boundary' = last_boundary /\ offset' = offset /\ probe_len' = probe_len
    BY <1>2, SameSizes DEF loop, target, want
  <1>7. /\ pc' \in {"fill", "scan"} /\ filled' \in 0..want
        /\ pc' = "fill" => filled' < want
        /\ pc' = "scan" /\ stable => filled' = want
    BY <1>1, <1>3, <1>4, <1>5
  <1>8. SrcTypeOK'
    BY <1>2, <1>3, <1>6, <1>7, SameSizes DEF SearchInv, SrcTypeOK, loop, assembly
  <1>9. ActiveInv' /\ TailInv' /\ FillInv'
    BY <1>2, <1>3, <1>6, <1>7, SameSizes DEF ActiveInv, TailInv, FillInv
  <1>10. NoMatchSkipped'
    BY <1>2, <1>6, SameSizes DEF SearchInv, NoMatchSkipped
  <1> QED
    BY <1>8, <1>9, <1>10 DEF SearchInv

(* A buffer without an occurrence: the next one overlaps it by dlen - 1 bytes. *)
LEMMA ScanAdvanceKeeps ==
    ASSUME SearchInv, ScanAdvance
    PROVE  SearchInv'
  <1>1. /\ pc = "scan" /\ filled > 0 /\ offset + filled < file_len
        /\ stable => NoMatchIn(data, delim, offset, offset + filled)
        /\ offset' = offset + (IF filled > dlen THEN filled - (dlen - 1) ELSE 1)
        /\ probe_len' = MinOf(2 * probe_len, buffer_len)
        /\ filled' = 0 /\ pc' = "fill"
        /\ UNCHANGED <<args, loop, assembly, source>>
    BY DEF ScanAdvance
  <1>2. /\ i < n /\ target > last_boundary /\ target \in Nat
        /\ offset \in Nat /\ target <= offset /\ offset < file_len
        /\ probe_len \in dlen..buffer_len /\ filled \in Nat
        /\ want \in Nat /\ (want = probe_len \/ offset + want = file_len)
        /\ file_len \in Nat /\ dlen \in Nat \ {0} /\ buffer_len \in Nat
    BY <1>1, Searched
  <1>3. /\ target' = target /\ i' = i /\ n' = n /\ last_boundary' = last_boundary
    BY <1>1, SameSizes DEF loop, target
  <1>4. offset' \in Nat /\ offset < offset' /\ offset' <= offset + filled
    BY <1>1, <1>2
  <1>5. probe_len' \in dlen..buffer_len
    BY <1>1, <1>2 DEF MinOf
  <1>6. want' \in Nat \ {0}
    BY <1>1, <1>2, <1>4, <1>5, SameSizes DEF want, MinOf
  <1>7. SrcTypeOK'
    BY <1>1, <1>2, <1>4, <1>5, <1>6, SameSizes DEF SearchInv, SrcTypeOK, loop, assembly
  <1>8. ActiveInv' /\ TailInv' /\ FillInv'
    BY <1>1, <1>2, <1>3, <1>4, <1>5, <1>6, SameSizes DEF ActiveInv, TailInv, FillInv
  <1>9. NoMatchSkipped'
    <2> SUFFICES ASSUME stable, NEW q \in target..(offset' - 1)
                 PROVE  ~MatchAt(data, delim, q)
      BY <1>1, <1>3, SameSizes DEF NoMatchSkipped
    <2>1. CASE q < offset
      BY <1>1, <1>2, <2>1 DEF SearchInv, NoMatchSkipped
    <2>2. CASE q >= offset
      <3>1. filled >= dlen
        BY <1>1, <1>2 DEF SearchInv, FillInv
      <3>2. q + dlen <= offset + filled /\ q \in offset..(offset + filled)
        BY <1>1, <1>2, <1>4, <2>2, <3>1
      <3> QED
        BY <1>1, <3>2 DEF NoMatchIn, dlen
    <2> QED
      BY <1>2, <1>4, <2>1, <2>2
  <1> QED
    BY <1>7, <1>8, <1>9 DEF SearchInv
------------------------------------------------------------------------------
(* A step that changes nothing. *)
LEMMA SrcStutterKeeps == SearchInv /\ UNCHANGED srcVars => SearchInv'
  BY DEF SearchInv, srcVars, vars, args, loop, assembly, source, search, SrcTypeOK,
     ActiveInv, Active, TailInv, FillInv, NoMatchSkipped, file_len, dlen, buffer_len,
     want, target

(* Every step of the planner keeps the invariant. *)
LEMMA SrcNextKeeps == SearchInv /\ [SrcNext]_srcVars => SearchInv'
  <1> SUFFICES ASSUME SearchInv, [SrcNext]_srcVars PROVE SearchInv'
    OBVIOUS
  <1>1. CASE \/ OpenError \/ SrcReturn \/ SrcNoBuffer \/ SrcEnterLoop \/ SrcSkipTarget
             \/ ReadError \/ SrcLeaveLoop \/ SrcAssemble
    BY <1>1, IdleSteps
  <1>2. CASE TailAccept \/ ScanHit \/ ScanNone
    BY <1>2, PushSteps
  <1>3. CASE BeginTail \/ BeginSearch \/ ReadTail \/ TailReject
    BY <1>3, TailSteps
  <1>4. CASE ReadFill
    BY <1>4, ReadFillKeeps
  <1>5. CASE ScanAdvance
    BY <1>5, ScanAdvanceKeeps
  <1>6. CASE SrcDone \/ UNCHANGED srcVars
    BY <1>6, SrcStutterKeeps DEF SrcDone
  <1> QED
    BY <1>1, <1>2, <1>3, <1>4, <1>5, <1>6 DEF SrcNext, SrcStep

(* The inductive invariant of the buffered planner.                        *)
THEOREM SourceInvariant == SrcSpec => []SearchInv
  BY SrcInitInv, SrcNextKeeps, PTL DEF SrcSpec

(* Probe and reads stay within the buffer and the file, also when the file *)
(* changes under the planner.                                              *)
THEOREM SourceTypeCorrect == SrcSpec => []SrcTypeOK
  <1>1. SearchInv => SrcTypeOK
    BY DEF SearchInv
  <1> QED
    BY <1>1, SourceInvariant, PTL

(* find_pattern_from passes over no delimiter of a stable file.            *)
THEOREM SourceSkipsNothing == SrcSpec => []NoMatchSkipped
  <1>1. SearchInv => NoMatchSkipped
    BY DEF SearchInv
  <1> QED
    BY <1>1, SourceInvariant, PTL

(* A searched probe holds a whole delimiter or reaches EOF.                *)
THEOREM SourceNeverStarves == SrcSpec => []ProbeHoldsPattern
  <1>1. SearchInv => ProbeHoldsPattern
    <2> SUFFICES ASSUME SearchInv, stable, pc = "scan"
                 PROVE  filled >= dlen \/ offset + filled = file_len
      BY DEF ProbeHoldsPattern
    <2>1. filled = want
      BY DEF SearchInv, FillInv
    <2> QED
      BY <2>1, Searched
  <1> QED
    BY <1>1, SourceInvariant, PTL
------------------------------------------------------------------------------
(* Parity with the slice planner.  A search begins only where the slice    *)
(* planner would begin one: its target does not already follow a           *)
(* delimiter.  On a stable file that was established from a whole tail.    *)
ParityInv ==
    /\ pc = "start" => n = 0
    /\ stable /\ pc = "tailcheck" => filled = dlen
    /\ stable /\ pc \in {"fill", "scan"} => ~EndsRecord(data, delim, target)

(* Parity holds before the call begins. *)
LEMMA ParityInit == SrcInit => ParityInv
  BY DEF SrcInit, Init, ParityInv

(* Every step keeps the parity with the slice planner. *)
LEMMA ParityKeeps == SearchInv /\ ParityInv /\ [SrcNext]_srcVars => ParityInv'
  <1> SUFFICES ASSUME SearchInv, ParityInv, [SrcNext]_srcVars PROVE ParityInv'
    OBVIOUS
  <1>1. CASE \/ OpenError \/ SrcReturn \/ SrcNoBuffer \/ SrcEnterLoop \/ SrcSkipTarget
             \/ ReadError \/ SrcLeaveLoop \/ SrcAssemble
    <2>1. pc' \in {"loop", "assemble", "done", "error"}
      BY <1>1 DEF OpenError, SrcReturn, ReturnEmpty, ReturnWhole, SrcNoBuffer,
         SrcEnterLoop, EnterLoop, SrcSkipTarget, SkipTarget, ReadError,
         SrcLeaveLoop, LeaveLoop, SrcAssemble, Assemble, AssembleCut, AssembleTail
    <2> QED
      BY <2>1 DEF ParityInv
  <1>2. CASE TailAccept \/ ScanHit \/ ScanNone
    BY <1>2 DEF TailAccept, ScanHit, ScanNone, ParityInv
  <1>3. CASE BeginTail
    BY <1>3 DEF BeginTail, ParityInv
  <1>4. CASE BeginSearch
    <2>1. /\ pc' = "fill" /\ target < dlen /\ i < n
          /\ UNCHANGED <<args, loop, assembly, source>>
      BY <1>4 DEF BeginSearch, StartSearch
    <2>2. target' = target /\ data' = data /\ delim' = delim
      BY <2>1, SameSizes DEF loop, target
    <2>3. target \in Nat /\ dlen \in Nat
      BY <2>1, ActiveTarget, Sizes DEF SearchInv
    <2>4. ~EndsRecord(data, delim, target)
      BY <2>1, <2>3 DEF EndsRecord, dlen
    <2> QED
      BY <2>1, <2>2, <2>4 DEF ParityInv
  <1>5. CASE ReadTail
    <2>1. PICK r \in ReadCount(dlen - filled) :
            /\ filled' = filled + r
            /\ pc' = IF r = 0 \/ filled + r = dlen THEN "tailcheck" ELSE "tail"
      BY <1>5 DEF ReadTail
    <2>2. stable => r # 0
      BY DEF ReadCount
    <2>3. stable' = stable /\ dlen' = dlen
      BY <1>5, SameSizes DEF ReadTail
    <2> QED
      BY <2>1, <2>2, <2>3 DEF ParityInv
  <1>6. CASE TailReject
    <2>1. /\ pc = "tailcheck" /\ pc' = "fill"
          /\ UNCHANGED <<args, loop, assembly, source>>
          /\ filled = dlen /\ stable => ~EndsRecord(data, delim, target)
      BY <1>6 DEF TailReject, StartSearch
    <2>2. target' = target /\ data' = data /\ delim' = delim /\ stable' = stable
      BY <2>1, SameSizes DEF loop, target
    <2> QED
      BY <2>1, <2>2 DEF ParityInv
  <1>7. CASE ReadFill \/ ScanAdvance
    <2>1. /\ pc \in {"fill", "scan"} /\ pc' \in {"fill", "scan"}
          /\ UNCHANGED <<args, loop, assembly, source>>
      BY <1>7 DEF ReadFill, ScanAdvance
    <2>2. target' = target /\ data' = data /\ delim' = delim /\ stable' = stable
      BY <2>1, SameSizes DEF loop, target
    <2> QED
      BY <2>1, <2>2 DEF ParityInv
  <1>8. CASE SrcDone \/ UNCHANGED srcVars
    BY <1>8 DEF SrcDone, srcVars, vars, args, loop, source, search, ParityInv,
       dlen, target, file_len
  <1> QED
    BY <1>1, <1>2, <1>3, <1>4, <1>5, <1>6, <1>7, <1>8 DEF SrcNext, SrcStep

(* On a stable file the slice planner's state is the buffered planner's. *)
LEMMA SliceState ==
    ASSUME stable
    PROVE  /\ Slice!file_len = file_len /\ Slice!target = target
           /\ \A t : Slice!EndsRecord(data, delim, t) = EndsRecord(data, delim, t)
           /\ \A f, u, p : Slice!FirstMatchIn(data, delim, f, u, p)
                            = FirstMatchIn(data, delim, f, u, p)
           /\ \A f, u : Slice!NoMatchIn(data, delim, f, u) = NoMatchIn(data, delim, f, u)
           /\ \A a, b : Slice!MinOf(a, b) = MinOf(a, b)
  BY DEF Slice!file_len, file_len, Slice!target, target, Slice!IdealTarget, IdealTarget,
     Slice!EndsRecord, EndsRecord, Slice!FirstMatchIn, FirstMatchIn, Slice!NoMatchIn,
     NoMatchIn, Slice!MatchAt, MatchAt, Slice!MinOf, MinOf, OnStable

(* What the slice planner sees. *)
sliceView == <<slicePc, n, i, last_boundary, boundaries, j, prev, partitions>>

(* A step that leaves that alone, and every step on an unstable file, is a *)
(* stutter of the slice planner.                                           *)
LEMMA HiddenStep ==
    ASSUME UNCHANGED <<args, source>>, ~stable \/ UNCHANGED sliceView
    PROVE  UNCHANGED Slice!vars
  <1>1. data' = data /\ delim' = delim /\ parts' = parts /\ stable' = stable
    BY DEF args, source
  <1>2. UNCHANGED Slice!args
    BY <1>1 DEF Slice!args
  <1>3. CASE ~stable
    BY <1>1, <1>2, <1>3 DEF Slice!vars, Slice!loop, Slice!assembly, OnStable
  <1>4. CASE stable /\ UNCHANGED sliceView
    <2>1. /\ slicePc' = slicePc /\ n' = n /\ i' = i /\ last_boundary' = last_boundary
          /\ boundaries' = boundaries /\ j' = j /\ prev' = prev
          /\ partitions' = partitions
      BY <1>4 DEF sliceView
    <2> QED
      BY <1>1, <1>2, <1>4, <2>1 DEF Slice!vars, Slice!loop, Slice!assembly, OnStable
  <1> QED
    BY <1>3, <1>4

(* The steps inside a tail read or a search. *)
LEMMA SearchStepsHidden ==
    ASSUME SearchInv, ParityInv,
           \/ OpenError \/ SrcNoBuffer \/ BeginTail \/ BeginSearch \/ ReadTail
           \/ TailReject \/ ReadFill \/ ScanAdvance \/ ReadError
    PROVE  UNCHANGED Slice!vars
  <1>1. UNCHANGED <<args, loop, assembly, source>>
    BY DEF OpenError, SrcNoBuffer, BeginTail, BeginSearch, ReadTail, TailReject,
       ReadFill, ScanAdvance, ReadError, search
  <1>2. n \in Nat /\ i \in Nat \ {0}
    BY Sizes DEF SearchInv, SrcTypeOK
  <1>3. n' = n /\ i' = i /\ last_boundary' = last_boundary /\ boundaries' = boundaries
        /\ j' = j /\ prev' = prev /\ partitions' = partitions
    BY <1>1 DEF loop, assembly
  <1>4. slicePc' = slicePc
    <2>1. CASE OpenError \/ SrcNoBuffer
      BY <1>3, <2>1 DEF OpenError, SrcNoBuffer, slicePc, ParityInv
    <2>2. CASE \/ BeginTail \/ BeginSearch \/ ReadTail \/ TailReject \/ ReadFill
               \/ ScanAdvance \/ ReadError
      <3>1. /\ pc \in {"loop", "tail", "tailcheck", "fill", "scan"} /\ i < n
            /\ pc' \in {"tail", "tailcheck", "fill", "scan", "error"}
        BY <2>2 DEF BeginTail, BeginSearch, StartSearch, ReadTail, TailReject, ReadFill,
           ScanAdvance, ReadError, SearchInv, ActiveInv, Active
      <3>2. n # 0
        BY <1>2, <3>1
      <3> QED
        BY <1>3, <3>1, <3>2 DEF slicePc
    <2> QED
      BY <2>1, <2>2
  <1> QED
    BY <1>1, <1>3, <1>4, HiddenStep DEF sliceView

(* On a stable file the remaining steps are the slice planner's own. *)
LEMMA PlainStepsMap ==
    ASSUME SearchInv, stable, stable',
           \/ SrcReturn \/ SrcEnterLoop \/ SrcSkipTarget \/ SrcLeaveLoop \/ SrcAssemble
    PROVE  Slice!Next
  <1>1. Slice!file_len = file_len /\ Slice!target = target
        /\ \A a, b : Slice!MinOf(a, b) = MinOf(a, b)
    BY SliceState
  <1>2. CASE SrcReturn
    <2>1. CASE ReturnEmpty
      <3>1. Slice!ReturnEmpty
        BY <1>1, <2>1 DEF ReturnEmpty, Slice!ReturnEmpty, OnStable, slicePc, args, loop,
           assembly, Slice!args, Slice!loop, Slice!assembly
      <3> QED
        BY <3>1 DEF Slice!Next
    <2>2. CASE ReturnWhole
      <3>1. Slice!ReturnWhole
        BY <1>1, <2>2 DEF ReturnWhole, Slice!ReturnWhole, OnStable, slicePc, args, loop,
           Slice!args, Slice!loop
      <3> QED
        BY <3>1 DEF Slice!Next
    <2> QED
      BY <1>2, <2>1, <2>2 DEF SrcReturn
  <1>3. CASE SrcEnterLoop
    <2>1. Slice!EnterLoop
      BY <1>1, <1>3 DEF SrcEnterLoop, EnterLoop, Slice!EnterLoop, OnStable, slicePc,
         args, assembly, Slice!args, Slice!assembly
    <2> QED
      BY <2>1 DEF Slice!Next
  <1>4. CASE SrcSkipTarget
    <2>1. Slice!SkipTarget
      BY <1>1, <1>4 DEF SrcSkipTarget, SkipTarget, Slice!SkipTarget, OnStable, slicePc,
         args, assembly, Slice!args, Slice!assembly
    <2> QED
      BY <2>1 DEF Slice!Next
  <1>5. CASE SrcLeaveLoop
    <2>1. Slice!LeaveLoop
      BY <1>1, <1>5 DEF SrcLeaveLoop, LeaveLoop, Slice!LeaveLoop, OnStable, slicePc,
         args, loop, assembly, Slice!args, Slice!loop, Slice!assembly
    <2> QED
      BY <2>1 DEF Slice!Next
  <1>6. CASE SrcAssemble
    <2>1. CASE AssembleCut
      <3>1. Slice!AssembleCut
        BY <1>1, <2>1 DEF AssembleCut, Slice!AssembleCut, OnStable, slicePc, args, loop,
           Slice!args, Slice!loop
      <3> QED
        BY <3>1 DEF Slice!Next, Slice!Assemble
    <2>2. CASE AssembleTail
      <3>1. Slice!AssembleTail
        BY <1>1, <2>2 DEF AssembleTail, Slice!AssembleTail, OnStable, slicePc, args, loop,
           Slice!args, Slice!loop
      <3> QED
        BY <3>1 DEF Slice!Next, Slice!Assemble
    <2> QED
      BY <1>6, <2>1, <2>2 DEF SrcAssemble, Assemble
  <1> QED
    BY <1>2, <1>3, <1>4, <1>5, <1>6

(* The three outcomes of an iteration that looked at the data. *)
LEMMA CutStepsMap ==
    ASSUME SearchInv, ParityInv, stable, stable', TailAccept \/ ScanHit \/ ScanNone
    PROVE  Slice!Next
  <1>1. /\ Slice!file_len = file_len /\ Slice!target = target
        /\ \A t : Slice!EndsRecord(data, delim, t) = EndsRecord(data, delim, t)
        /\ \A f, u, p : Slice!FirstMatchIn(data, delim, f, u, p)
                         = FirstMatchIn(data, delim, f, u, p)
        /\ \A f, u : Slice!NoMatchIn(data, delim, f, u) = NoMatchIn(data, delim, f, u)
        /\ \A a, b : Slice!MinOf(a, b) = MinOf(a, b)
    BY SliceState
  <1>2. /\ i < n /\ target > last_boundary /\ slicePc = "loop"
    <2>1. i \in Nat \ {0} /\ n \in Nat
      BY Sizes DEF SearchInv, SrcTypeOK
    <2>2. pc \in {"tailcheck", "scan"} /\ i < n /\ target > last_boundary
      BY DEF TailAccept, ScanHit, ScanNone, SearchInv, ActiveInv, Active
    <2> QED
      BY <2>1, <2>2 DEF slicePc
  <1>3. ASSUME NEW b, PushBoundary(b), pc' = "loop"
        PROVE  Slice!PushBoundary(b) /\ slicePc' = "loop"
    BY <1>3 DEF PushBoundary, Slice!PushBoundary, OnStable, slicePc, args, assembly,
       Slice!args, Slice!assembly
  <1>4. CASE TailAccept
    <2>1. EndsRecord(data, delim, target) /\ PushBoundary(target) /\ pc' = "loop"
      BY <1>4 DEF TailAccept
    <2>2. Slice!AcceptExactTarget
      BY <1>1, <1>2, <1>3, <2>1 DEF Slice!AcceptExactTarget, OnStable
    <2> QED
      BY <2>2 DEF Slice!Next
  <1>5. CASE ScanHit \/ ScanNone
    <2>1. /\ target \in Nat /\ offset \in Nat /\ target <= offset /\ offset < file_len
          /\ filled \in Nat /\ offset + filled <= file_len
          /\ file_len \in Nat /\ dlen \in Nat \ {0}
          /\ filled >= dlen \/ offset + filled = file_len
      <3>1. pc = "scan"
        BY <1>5 DEF ScanHit, ScanNone
      <3>2. filled = want
        BY <3>1 DEF SearchInv, FillInv
      <3> QED
        BY <3>1, <3>2, Searched
    <2>2. \A q \in target..(offset - 1) : ~MatchAt(data, delim, q)
      BY <1>5 DEF ScanHit, ScanNone, SearchInv, NoMatchSkipped
    <2>3. ~EndsRecord(data, delim, target)
      BY <1>5 DEF ScanHit, ScanNone, ParityInv
    <2>4. CASE ScanHit
      <3>1. PICK p \in offset..(offset + filled) :
              /\ FirstMatchIn(data, delim, offset, offset + filled, p)
              /\ PushBoundary(MinOf(p + dlen, file_len))
        BY <2>4 DEF ScanHit
      <3>2. p \in target..file_len /\ p \in Nat
        BY <2>1
      <3>3. p + Len(delim) <= file_len
        BY <2>1, <3>1, <3>2 DEF FirstMatchIn, dlen
      <3>4. \A q \in target..(p - 1) : ~MatchAt(data, delim, q)
        BY <2>1, <2>2, <3>1, <3>2 DEF FirstMatchIn
      <3>5. FirstMatchIn(data, delim, target, file_len, p)
        BY <3>1, <3>2, <3>3, <3>4 DEF FirstMatchIn
      <3>6. Slice!PushBoundary(MinOf(p + dlen, file_len)) /\ slicePc' = "loop"
        BY <1>3, <2>4, <3>1 DEF ScanHit
      <3>7. Slice!SearchHit
        BY <1>1, <1>2, <2>3, <3>2, <3>5, <3>6 DEF Slice!SearchHit, OnStable, dlen
      <3> QED
        BY <3>7 DEF Slice!Next
    <2>5. CASE ScanNone
      <3>1. offset + filled = file_len
        BY <2>1, <2>5 DEF ScanNone
      <3>2. NoMatchIn(data, delim, offset, file_len)
        BY <2>5, <3>1 DEF ScanNone
      <3>3. NoMatchIn(data, delim, target, file_len)
        BY <2>1, <2>2, <3>2 DEF NoMatchIn
      <3>4. Slice!SearchMiss
        BY <1>1, <1>2, <2>3, <2>5, <3>3 DEF ScanNone, Slice!SearchMiss, OnStable, slicePc,
           args, assembly, Slice!args, Slice!assembly
      <3> QED
        BY <3>4 DEF Slice!Next
    <2> QED
      BY <1>5, <2>4, <2>5
  <1> QED
    BY <1>4, <1>5

(* Every step is a step of the slice planner, or none. *)
LEMMA StepsMap ==
    SearchInv /\ ParityInv /\ [SrcNext]_srcVars => [Slice!Next]_(Slice!vars)
  <1> SUFFICES ASSUME SearchInv, ParityInv, [SrcNext]_srcVars
               PROVE  Slice!Next \/ UNCHANGED Slice!vars
    OBVIOUS
  <1>1. UNCHANGED <<args, source>>
    BY DEF SrcNext, SrcStep, OpenError, SrcReturn, ReturnEmpty, ReturnWhole, SrcNoBuffer,
       SrcEnterLoop, EnterLoop, SrcSkipTarget, SkipTarget, BeginTail, BeginSearch,
       ReadTail, TailAccept, TailReject, ReadFill, ScanHit, ScanNone, ScanAdvance,
       ReadError, SrcLeaveLoop, LeaveLoop, SrcAssemble, Assemble, AssembleCut,
       AssembleTail, PushBoundary, SrcDone, srcVars, vars
  <1>2. CASE ~stable
    BY <1>1, <1>2, HiddenStep
  <1>3. CASE \/ OpenError \/ SrcNoBuffer \/ BeginTail \/ BeginSearch \/ ReadTail
             \/ TailReject \/ ReadFill \/ ScanAdvance \/ ReadError
    BY <1>3, SearchStepsHidden
  <1>4. CASE SrcDone \/ UNCHANGED srcVars
    <2>1. UNCHANGED sliceView
      BY <1>4 DEF SrcDone, srcVars, vars, loop, assembly, sliceView, slicePc
    <2> QED
      BY <1>1, <2>1, HiddenStep
  <1>5. CASE stable /\ (\/ SrcReturn \/ SrcEnterLoop \/ SrcSkipTarget \/ SrcLeaveLoop
                        \/ SrcAssemble)
    BY <1>1, <1>5, PlainStepsMap DEF source
  <1>6. CASE stable /\ (TailAccept \/ ScanHit \/ ScanNone)
    BY <1>1, <1>6, CutStepsMap DEF source
  <1> QED
    BY <1>2, <1>3, <1>4, <1>5, <1>6 DEF SrcNext, SrcStep

(* Parity: on every stable file, for every delimiter, request, buffer size *)
(* and pattern of short reads, the buffered planner is an implementation   *)
(* of the slice planner: every ByteSource plans the same ranges.           *)
THEOREM SourceImplementsSlice == SrcSpec => PlansLikeSlice
  <1>1. SrcInit => Slice!Init
    BY DEF SrcInit, Init, Slice!Init, OnStable, slicePc
  <1>2. SrcSpec => []ParityInv
    BY ParityInit, ParityKeeps, SourceInvariant, PTL DEF SrcSpec
  <1> QED
    BY <1>1, <1>2, StepsMap, SourceInvariant, PTL DEF SrcSpec, PlansLikeSlice, Slice!Spec

------------------------------------------------------------------------------
(* The promises of the slice planner, for the buffered one.                *)

(* While a search is under way the loop waits for its cut; a call that     *)
(* ends in an error has planned nothing.  None of this depends on the      *)
(* bytes read: only alignment asks for a stable file.                      *)
SourcePlanInv ==
    /\ pc \in {"start", "loop", "assemble", "done"} => PlanInv
    /\ Active => LoopState
    /\ pc = "error" => partitions = <<>>
    /\ stable => AlignInv

LEMMA SourcePlanInit == SrcInit => SourcePlanInv
  BY InitPlan, InitAlignment DEF SrcInit, Init, SourcePlanInv, Active

(* A step that begins a search, or is a part of one. *)
LEMMA SearchingKeeps ==
    ASSUME SearchInv, SourcePlanInv,
           BeginTail \/ BeginSearch \/ ReadTail \/ TailReject \/ ReadFill \/ ScanAdvance
    PROVE  SourcePlanInv'
  <1>1. /\ UNCHANGED <<args, loop, assembly, source>>
        /\ pc \in {"loop", "tail", "tailcheck", "fill", "scan"}
        /\ pc' \in {"tail", "tailcheck", "fill", "scan"}
    BY DEF BeginTail, BeginSearch, ReadTail, TailReject, ReadFill, ScanAdvance, StartSearch
  <1>2. LoopState
    BY <1>1, LoopStateHolds DEF SourcePlanInv, Active
  <1>3. LoopState'
    BY <1>1, <1>2 DEF args, loop, assembly, LoopState, CutsOK, InLoop, Searching, CutBefore,
       file_len
  <1>4. stable' = stable
    BY <1>1, SameSizes
  <1>5. stable => AlignInv'
    <2>1. UNCHANGED <<args, boundaries, partitions>>
      BY <1>1 DEF loop, assembly
    <2> QED
      BY <2>1, SameAlignment DEF SourcePlanInv
  <1> QED
    BY <1>1, <1>3, <1>4, <1>5 DEF SourcePlanInv

(* The outcome of a search: a cut past the last one and inside the file,   *)
(* whatever was read; on a stable file, a record end.                      *)
LEMMA OutcomeKeeps ==
    ASSUME SearchInv, SourcePlanInv, TailAccept \/ ScanHit \/ ScanNone
    PROVE  SourcePlanInv'
  <1>1. /\ pc \in {"tailcheck", "scan"} /\ pc' \in {"loop", "assemble"}
        /\ stable' = stable
    BY DEF TailAccept, ScanHit, ScanNone, source
  <1>2. SUFFICES PlanInv' /\ (stable => AlignInv')
    BY <1>1 DEF SourcePlanInv, Active
  <1>3. LoopState /\ i < n /\ target > last_boundary /\ target \in 0..(file_len - 1)
        /\ file_len \in Nat /\ last_boundary \in Nat /\ boundaries \in Seq(0..file_len)
    BY <1>1, ActiveTarget DEF SourcePlanInv, Active, SearchInv, ActiveInv, LoopState
  <1>4. ASSUME NEW b \in 1..file_len, b > last_boundary, PushBoundary(b), pc' = "loop",
               stable => EndsRecord(data, delim, b)
        PROVE  PlanInv' /\ (stable => AlignInv')
    <2>1. boundaries' = Append(boundaries, b) /\ UNCHANGED <<args, partitions>>
      BY <1>4 DEF PushBoundary, assembly
    <2>2. b \in 0..file_len
      BY <1>3
    <2>3. stable => AlignInv'
      BY <1>3, <1>4, <2>1, <2>2, PushKeepsAlignment DEF SourcePlanInv
    <2> QED
      BY <1>3, <1>4, <2>3, SearchPushKeeps
  <1>5. CASE TailAccept
    <2>1. target \in 1..file_len
      BY <1>3
    <2> QED
      BY <1>3, <1>4, <1>5, <2>1 DEF TailAccept
  <1>6. CASE ScanHit
    <2>1. PICK p \in offset..(offset + filled) :
            /\ p + dlen <= offset + filled
            /\ stable => FirstMatchIn(data, delim, offset, offset + filled, p)
            /\ PushBoundary(MinOf(p + dlen, file_len))
      BY <1>6 DEF ScanHit
    <2>2. /\ offset \in Nat /\ target <= offset /\ filled \in Nat /\ dlen \in Nat \ {0}
          /\ offset + filled <= file_len
      BY <1>6, Searched DEF ScanHit
    <2>3. p \in Nat /\ p >= target /\ p + dlen <= file_len /\ p + dlen - dlen = p
      BY <1>3, <2>1, <2>2
    <2>4. stable => EndsRecord(data, delim, p + dlen)
      BY <2>1, <2>2, <2>3 DEF EndsRecord, FirstMatchIn, dlen
    <2>5. /\ MinOf(p + dlen, file_len) = p + dlen
          /\ p + dlen \in 1..file_len /\ p + dlen > last_boundary
      BY <1>3, <2>2, <2>3 DEF MinOf
    <2> QED
      BY <1>4, <1>6, <2>1, <2>4, <2>5 DEF ScanHit
  <1>7. CASE ScanNone
    <2>1. file_len > last_boundary /\ file_len \in 0..file_len /\ ~(file_len < file_len)
      BY <1>3
    <2>2. /\ boundaries' = Append(boundaries, file_len) /\ pc' = "assemble"
          /\ UNCHANGED <<args, n, i, last_boundary, assembly>>
      BY <1>7 DEF ScanNone
    <2>3. UNCHANGED <<args, partitions>>
      BY <2>2 DEF assembly
    <2>4. stable => AlignInv'
      BY <1>3, <2>1, <2>2, <2>3, PushKeepsAlignment DEF SourcePlanInv
    <2> QED
      BY <1>3, <2>1, <2>2, <2>4, LastCutKeeps
  <1> QED
    BY <1>5, <1>6, <1>7

(* Every step of the buffered planner keeps the slice planner's invariant. *)
LEMMA SourcePlanKeeps == SearchInv /\ SourcePlanInv /\ [SrcNext]_srcVars => SourcePlanInv'
  <1> SUFFICES ASSUME SearchInv, SourcePlanInv, [SrcNext]_srcVars
               PROVE  SourcePlanInv'
    OBVIOUS
  <1>1. CASE SrcReturn \/ SrcEnterLoop \/ SrcSkipTarget \/ SrcLeaveLoop \/ SrcAssemble
    <2>1. /\ ReturnEmpty \/ ReturnWhole \/ EnterLoop \/ SkipTarget \/ LeaveLoop \/ Assemble
          /\ UNCHANGED source
      BY <1>1 DEF SrcReturn, SrcEnterLoop, SrcSkipTarget, SrcLeaveLoop, SrcAssemble
    <2>2. /\ pc \in {"start", "loop", "assemble", "done"}
          /\ pc' \in {"start", "loop", "assemble", "done"}
      BY <2>1 DEF ReturnEmpty, ReturnWhole, EnterLoop, SkipTarget, LeaveLoop, Assemble,
         AssembleCut, AssembleTail
    <2>3. PlanInv /\ PlanInv'
      BY <2>1, <2>2, NextPreserves DEF SourcePlanInv, Next
    <2>4. stable => AlignInv'
      BY <2>1, <2>3, NextKeepsAlignment DEF SourcePlanInv, Next
    <2>5. stable' = stable
      BY <2>1 DEF source
    <2> QED
      BY <2>2, <2>3, <2>4, <2>5 DEF SourcePlanInv, Active
  <1>2. CASE BeginTail \/ BeginSearch \/ ReadTail \/ TailReject \/ ReadFill \/ ScanAdvance
    BY <1>2, SearchingKeeps
  <1>3. CASE TailAccept \/ ScanHit \/ ScanNone
    BY <1>3, OutcomeKeeps
  <1>4. CASE OpenError \/ SrcNoBuffer \/ ReadError
    <2>1. /\ pc \in {"start", "tail", "fill"} /\ pc' = "error"
          /\ UNCHANGED <<args, boundaries, partitions>> /\ stable' = stable
      BY <1>4 DEF OpenError, SrcNoBuffer, ReadError, loop, assembly, source
    <2>2. partitions = <<>>
      BY <2>1 DEF SourcePlanInv, PlanInv, StartInv, Active, LoopState, InLoop
    <2>3. stable => AlignInv'
      BY <2>1, SameAlignment DEF SourcePlanInv
    <2> QED
      BY <2>1, <2>2, <2>3 DEF SourcePlanInv, Active
  <1>5. CASE SrcDone \/ UNCHANGED srcVars
    <2>1. UNCHANGED vars /\ stable' = stable /\ pc' = pc
          /\ UNCHANGED <<args, boundaries, partitions>>
      BY <1>5 DEF SrcDone, srcVars, source, vars, loop, assembly
    <2>2. PlanInv => PlanInv'
      BY <2>1, StutterPreserves
    <2>3. LoopState => LoopState'
      BY <2>1 DEF vars, args, loop, assembly, LoopState, CutsOK, InLoop, Searching, CutBefore,
         file_len
    <2>4. stable => AlignInv'
      BY <2>1, SameAlignment DEF SourcePlanInv
    <2> QED
      BY <2>1, <2>2, <2>3, <2>4 DEF SourcePlanInv, Active
  <1> QED
    BY <1>1, <1>2, <1>3, <1>4, <1>5 DEF SrcNext, SrcStep

(* The inductive invariant of the buffered planner's plan.                 *)
THEOREM SourcePlanInvariant == SrcSpec => []SourcePlanInv
  BY SourcePlanInit, SourcePlanKeeps, SourceInvariant, PTL DEF SrcSpec

(* plan_partition_boundaries (src/source.rs): whatever the file does while *)
(* it is read, a plan that is returned covers the length recorded at open, *)
(* contiguous and without empty ranges, and has no more ranges than        *)
(* requested or than bytes.                                                *)
THEOREM SourceCoversAnyFile == SrcSpec => []RecordedLengthCovered
  <1>1. ASSUME SearchInv, SourcePlanInv PROVE RecordedLengthCovered
    <2>1. CASE pc \in {"start", "loop", "assemble", "done"}
      <3>1. PlanInv
        BY <1>1, <2>1 DEF SourcePlanInv
      <3>2. Coverage
        BY <3>1 DEF PlanInv, DoneInv, Coverage
      <3> QED
        BY <3>1, <3>2, InvBounded DEF RecordedLengthCovered
    <2>2. CASE pc \notin {"start", "loop", "assemble", "done"}
      <3>1. partitions = <<>>
        BY <1>1, <2>2 DEF SourcePlanInv, SearchInv, SrcTypeOK, Active, LoopState, InLoop
      <3>2. file_len \in Nat /\ parts \in Nat
        BY <1>1, Sizes DEF SearchInv, SrcTypeOK
      <3> QED
        BY <2>2, <3>1, <3>2 DEF RecordedLengthCovered, Coverage, AtMostRequested
    <2> QED
      BY <2>1, <2>2
  <1> QED
    BY <1>1, SourcePlanInvariant, SourceInvariant, PTL

(* What the slice planner promises its callers of the bytes holds for      *)
(* every ByteSource on a stable file: every range ends after a delimiter   *)
(* or at EOF.                                                              *)
THEOREM SourceAligned == SrcSpec => [](stable => RecordAligned)
  <1>1. SourcePlanInv => (stable => RecordAligned)
    BY DEF SourcePlanInv, AlignInv
  <1> QED
    BY <1>1, SourcePlanInvariant, PTL
==============================================================================
