----------------------- MODULE LogicalPlannerProofs -----------------------
(***************************************************************************)
(* partition-files for any list of files, any delimiter, request and scan  *)
(* buffer, and any number of renames over the paths while it runs.         *)
(*                                                                         *)
(* Why a source is never opened twice is an argument about targets: they   *)
(* grow (TargetGrows), so the source they fall into does (SourceGrows),    *)
(* and SourcedInv says that no source beyond the current target's has been *)
(* opened.  Why a cut is sound is an argument about lengths: SourceInv     *)
(* ties each opened file to the length the prefixes were summed from, and  *)
(* StateOK says that a boundary carried over from an earlier target is     *)
(* still a record end of that same file.                                   *)
(*                                                                         *)
(* That the rows tile the sources is a fact about what write_assignments   *)
(* prints of any cuts that grow (AllRowsTile), and AssignInv says that it  *)
(* is applied to the cuts of the plan.  That the cuts are those of the     *)
(* stateless definition is ReferenceInv: a boundary carried over is never  *)
(* beyond the last cut (QuietInv), so no target asks for it, and what the  *)
(* reference has still to cut is what the planner has (MatchInv).          *)
(***************************************************************************)
EXTENDS LogicalPlanner, OracleTheorems, FiniteSetTheorems, TLAPS

(* An offset of a file where a record ends, or its end. *)
RecordEnd(data, d, t) ==
    t \in 0..Len(data) /\ (t = Len(data) \/ EndsRecord(data, d, t))

(* What a boundary search carries over from one target to the next. *)
State == [scan_from : Nat, cached_boundary : Nat \cup {NoPosition}]

StateOK(data, d, state) ==
    /\ state \in State
    /\ state.cached_boundary # NoPosition => RecordEnd(data, d, state.cached_boundary)

(* A logical offset where a cut may fall: a source boundary, or the end of *)
(* a record in a source that was opened.                                   *)
SoundCut(px, src, d, c) ==
    \/ \E k \in DOMAIN px : px[k] = c
    \/ \E k \in DOMAIN src : \E b \in 0..Len(src[k]) : c = px[k] + b /\ EndsRecord(src[k], d, b)

(* Where targets are projected, and where one of them is inside a source. *)
Planning == {"loop", "close", "open", "boundary", "scan"}
Inside == Planning \ {"loop"}

TypeInv ==
    /\ fs \in Seq(Seq(Byte) \cup {Missing})
    /\ req.mode \in {"mmap", "sourced"} /\ req.parts \in Nat \ {0}
    /\ req.delim \in Delims /\ req.scan_buffer \in Nat
    /\ target \in Nat /\ offset \in Nat /\ partition \in Nat \ {0}

PrefixInv ==
    /\ prefixes \in Seq(Nat) /\ Len(prefixes) \in 1..(Len(fs) + 1)
    /\ prefixes[1] = 0
    /\ \A i, j \in 1..Len(prefixes) : i <= j => prefixes[i] <= prefixes[j]
    /\ pc \in Planning \cup {"assemble"} =>
          Len(prefixes) = Len(fs) + 1 /\ Total > 0 /\ partition <= effective_parts

(* Sources are opened once, in order, with the lengths of the prefixes. *)
SourceInv ==
    /\ opens \in Seq(Nat)
    /\ \A i, j \in 1..Len(opens) : i < j => opens[i] < opens[j]
    /\ DOMAIN sources = {opens[i] : i \in 1..Len(opens)}
    /\ \A k \in DOMAIN sources :
          /\ k \in 1..Len(fs) /\ sources[k] \in Seq(Byte)
          /\ k < Len(prefixes) => Len(sources[k]) = prefixes[k + 1] - prefixes[k]

MmapInv ==
    req.mode = "mmap" =>
        /\ pc \in {"map", "loop", "assemble", "write", "done"}
        /\ \A i \in 1..Len(opens) : opens[i] = i
        /\ pc = "map" /\ Len(prefixes) > 1 => Len(opens) = Len(fs)
        /\ pc = "loop" =>
              /\ Len(opens) = Len(fs) /\ states \in [1..Len(fs) -> State]
              /\ \A k \in 1..Len(fs) : StateOK(sources[k], req.delim, states[k])

(* At most the current source is open, it is the one opened last, and it   *)
(* is never ahead of the targets.                                          *)
SourcedInv ==
    req.mode = "sourced" =>
        /\ pc \in {"stat", "assemble", "write", "done"} \cup Planning
        /\ pc = "stat" => opens = <<>> /\ current = NoSource
        /\ handles \subseteq IF current = NoSource THEN {} ELSE {current.index}
        /\ pc \in {"open", "write", "done"} => current = NoSource
        /\ current # NoSource =>
              /\ current \in [index : Nat, state : State]
              /\ Len(opens) > 0 /\ opens[Len(opens)] = current.index
              /\ StateOK(sources[current.index], req.delim, current.state)
        /\ pc \in {"loop", "close"} /\ Len(opens) > 0 => current # NoSource
        /\ pc \in Inside =>
              /\ target = IdealLogicalTarget /\ ~IsSourceBoundary(target)
              /\ partition < effective_parts
        /\ pc = "loop" => \A i \in 1..Len(opens) : opens[i] <= SourceOf(IdealLogicalTarget)
        /\ pc \in {"close", "open"} => \A i \in 1..Len(opens) : opens[i] < SourceOf(target)
        /\ pc \in {"boundary", "scan"} => current # NoSource /\ current.index = SourceOf(target)

(* The cuts found so far. *)
CutInv ==
    /\ cut_points \in Seq(Nat) /\ last_cut \in Nat
    /\ Len(cut_points) < partition
    /\ pc \in {"map", "stat"} => cut_points = <<>>
    /\ \A j \in 1..Len(cut_points) :
          /\ 0 < cut_points[j] /\ cut_points[j] <= last_cut /\ cut_points[j] < Total
          /\ SoundCut(prefixes, sources, req.delim, cut_points[j])
    /\ \A i, j \in 1..Len(cut_points) : i < j => cut_points[i] < cut_points[j]

StageInv ==
    /\ pc \in {"map", "stat"} => partition = 1
    /\ partition <= req.parts
    /\ pc = "done" => handles = {}

LogicalInv ==
    /\ TypeInv /\ PrefixInv /\ SourceInv /\ MmapInv /\ SourcedInv /\ CutInv
    /\ StageInv
------------------------------------------------------------------------------
(* A target before the last is inside the data. *)
LEMMA TargetInside ==
    ASSUME NEW l \in Nat \ {0}, NEW d \in Nat \ {0}, NEW k \in Nat, k < d
    PROVE  (l * k) \div d \in 0..(l - 1)
  <1> DEFINE q == (l * k) \div d
  <1>1. l * k \in Nat
    BY SMT
  <1>2. q \in Nat /\ d * q <= l * k
    BY <1>1, QuotientIs
  <1>3. l * k < d * l
    BY ScaleStrict
  <1>4. q >= l => d * q >= d * l
    BY <1>2, ScaleMonotone
  <1> HIDE DEF q
  <1>5. d * q \in Nat /\ d * l \in Nat
    BY <1>2, SMT
  <1>6. q < l
    BY <1>1, <1>2, <1>3, <1>4, <1>5, SMT
  <1> QED
    BY <1>2, <1>6 DEF q

(* The next target is not before this one. *)
LEMMA TargetGrows ==
    ASSUME NEW l \in Nat, NEW d \in Nat \ {0}, NEW k \in Nat
    PROVE  /\ (l * k) \div d \in Nat /\ (l * (k + 1)) \div d \in Nat
           /\ (l * k) \div d <= (l * (k + 1)) \div d
  <1> DEFINE a == l * k  b == l * (k + 1)  q == a \div d  r == b \div d
  <1>1. a \in Nat /\ b \in Nat /\ a <= b
    BY SMT
  <1> HIDE DEF a, b
  <1>2. q \in Nat /\ d * q <= a /\ r \in Nat /\ b < d * r + d
    BY <1>1, QuotientIs
  <1> HIDE DEF q, r
  <1>3. q >= r + 1 => d * q >= d * (r + 1)
    BY <1>2, ScaleMonotone
  <1>4. d * (r + 1) = d * r + d /\ d * q \in Nat /\ d * r \in Nat
    BY <1>2, SMT
  <1>5. q <= r
    BY <1>1, <1>2, <1>3, <1>4, SMT
  <1> QED
    BY <1>2, <1>5 DEF q, r, a, b
------------------------------------------------------------------------------
(* The source of an offset, for any prefix sums px.                        *)
At(px, t) == Cardinality({k \in DOMAIN px : px[k] <= t})

(* partition_point finds the last prefix at or below the offset.           *)
LEMMA SourceIsLast ==
    ASSUME NEW px \in Seq(Nat), NEW t \in Nat, Len(px) >= 1, px[1] = 0,
           \A i, j \in 1..Len(px) : i <= j => px[i] <= px[j]
    PROVE  /\ At(px, t) \in 1..Len(px) /\ px[At(px, t)] <= t
           /\ At(px, t) < Len(px) => t < px[At(px, t) + 1]
  <1> DEFINE S == {k \in 1..Len(px) : px[k] <= t}
             c == Cardinality(S)
  <1>0. DOMAIN px = 1..Len(px) /\ Len(px) \in Nat /\ \A k \in 1..Len(px) : px[k] \in Nat
    OBVIOUS
  <1>1. At(px, t) = c
    BY <1>0 DEF At
  <1>2. IsFiniteSet(1..Len(px)) /\ Cardinality(1..Len(px)) = Len(px)
    BY <1>0, FS_Interval
  <1>3. IsFiniteSet(S) /\ c <= Len(px) /\ c \in Nat
    <2>1. S \in SUBSET (1..Len(px))
      OBVIOUS
    <2> QED
      BY <1>2, <2>1, FS_Subset, FS_CardinalityType
  <1>4. 1 \in S
    BY <1>0
  <1>5. ASSUME NEW k \in S PROVE k <= c
    <2>1. 1..k \subseteq S
      <3> SUFFICES ASSUME NEW j \in 1..k PROVE j \in S
        OBVIOUS
      <3>1. j \in 1..Len(px) /\ k \in 1..Len(px) /\ j <= k /\ px[k] <= t
        BY <1>0
      <3>2. px[j] <= px[k] /\ px[j] \in Nat /\ px[k] \in Nat
        BY <1>0, <3>1
      <3> QED
        BY <3>1, <3>2
    <2>2. k \in Nat /\ k >= 1
      BY <1>0
    <2>3. Cardinality(1..k) = k
      BY <2>2, FS_Interval
    <2>4. Cardinality(1..k) <= c
      BY <1>3, <2>1, FS_Subset
    <2> QED
      BY <2>2, <2>3, <2>4
  <1>6. S \subseteq 1..c
    BY <1>3, <1>5
  <1>7. IsFiniteSet(1..c) /\ Cardinality(1..c) = c
    BY <1>3, FS_Interval
  <1>8. S = 1..c
    BY <1>6, <1>7, FS_Subset
  <1> HIDE DEF c
  <1>9. c >= 1
    BY <1>3, <1>4, <1>5
  <1>10. c \in S
    BY <1>3, <1>8, <1>9
  <1>11. c < Len(px) => c + 1 \notin S /\ c + 1 \in 1..Len(px)
    BY <1>0, <1>3, <1>8, <1>9
  <1> QED
    BY <1>0, <1>1, <1>3, <1>9, <1>10, <1>11

(* A later target is never in an earlier source. *)
LEMMA SourceGrows ==
    ASSUME NEW px \in Seq(Nat), NEW t \in Nat, NEW u \in Nat, t <= u
    PROVE  At(px, t) <= At(px, u) /\ At(px, t) \in Nat /\ At(px, u) \in Nat
  <1> DEFINE S == {k \in 1..Len(px) : px[k] <= t}
             U == {k \in 1..Len(px) : px[k] <= u}
  <1>0. DOMAIN px = 1..Len(px) /\ Len(px) \in Nat /\ \A k \in 1..Len(px) : px[k] \in Nat
    OBVIOUS
  <1>1. IsFiniteSet(1..Len(px))
    BY <1>0, FS_Interval
  <1>2. S \subseteq U
    BY <1>0
  <1>3. IsFiniteSet(U)
    <2>1. U \in SUBSET (1..Len(px))
      OBVIOUS
    <2> QED
      BY <1>1, <2>1, FS_Subset
  <1>4. IsFiniteSet(S) /\ Cardinality(S) <= Cardinality(U)
    BY <1>2, <1>3, FS_Subset
  <1>5. At(px, t) = Cardinality(S) /\ At(px, u) = Cardinality(U)
    BY <1>0 DEF At
  <1> QED
    BY <1>3, <1>4, <1>5, FS_CardinalityType

(* What the searches of a source return. *)
LEMMA ByteFound ==
    ASSUME NEW data \in Seq(Byte), NEW d \in Seq(Byte), Len(d) = 1, NEW from \in Nat,
           NEW upto \in Nat, upto <= Len(data),
           position_from(data, d[1], from, upto) # NoPosition
    PROVE  /\ position_from(data, d[1], from, upto) \in from..(upto - 1)
           /\ RecordEnd(data, d, position_from(data, d[1], from, upto) + 1)
  <1> DEFINE hits == {p \in from..(upto - 1) : data[p + 1] = d[1]}
             x == CHOOSE p \in hits : \A q \in hits : p <= q
  <1>1. hits # {} /\ position_from(data, d[1], from, upto) = x
    BY DEF position_from
  <1>2. hits \in SUBSET Nat
    OBVIOUS
  <1>3. x \in hits
    <2> HIDE DEF hits
    <2>1. \E p \in hits : \A q \in hits : p <= q
      BY <1>1, <1>2, LeastExists
    <2> QED
      BY <2>1
  <1> HIDE DEF x
  <1>4. x \in from..(upto - 1) /\ data[x + 1] = d[1] /\ x \in Nat /\ Len(data) \in Nat
    BY <1>3
  <1>5. EndsRecord(data, d, x + 1)
    BY <1>4 DEF EndsRecord, MatchAt
  <1> QED
    BY <1>1, <1>4, <1>5 DEF RecordEnd

(* The same of a longer delimiter. *)
LEMMA PatternFound ==
    ASSUME NEW data \in Seq(Byte), NEW d \in Seq(Byte), Len(d) > 0, NEW from \in Nat,
           NEW upto \in Nat, upto <= Len(data),
           find_first_pattern_from(data, d, from, upto) # NoPosition
    PROVE  /\ find_first_pattern_from(data, d, from, upto) \in from..(upto - Len(d))
           /\ RecordEnd(data, d, find_first_pattern_from(data, d, from, upto) + Len(d))
  <1> DEFINE hits == {p \in from..(upto - Len(d)) : MatchAt(data, d, p)}
             x == CHOOSE p \in hits : \A q \in hits : p <= q
  <1>1. hits # {} /\ find_first_pattern_from(data, d, from, upto) = x
    BY DEF find_first_pattern_from
  <1>2. hits \in SUBSET Nat
    OBVIOUS
  <1>3. x \in hits
    <2> HIDE DEF hits
    <2>1. \E p \in hits : \A q \in hits : p <= q
      BY <1>1, <1>2, LeastExists
    <2> QED
      BY <2>1
  <1> HIDE DEF x
  <1>4. x \in from..(upto - Len(d)) /\ MatchAt(data, d, x) /\ x \in Nat
        /\ Len(data) \in Nat /\ Len(d) \in Nat
    BY <1>3
  <1>5. x + Len(d) >= Len(d) /\ (x + Len(d)) - Len(d) = x /\ x + Len(d) \in 0..Len(data)
    BY <1>4
  <1>6. EndsRecord(data, d, x + Len(d))
    BY <1>4, <1>5 DEF EndsRecord
  <1> QED
    BY <1>1, <1>4, <1>5, <1>6 DEF RecordEnd
------------------------------------------------------------------------------
(* The shape the steps use. *)
LEMMA Shape ==
    ASSUME LogicalInv
    PROVE  /\ Len(fs) \in Nat /\ Len(prefixes) \in Nat \ {0} /\ Len(prefixes) <= Len(fs) + 1
           /\ \A k \in 1..Len(prefixes) : prefixes[k] \in Nat /\ prefixes[k] <= Total
           /\ Total \in Nat
           /\ effective_parts \in Nat /\ effective_parts <= req.parts
           /\ Total > 0 => effective_parts > 0
           /\ Len(opens) \in Nat /\ Len(cut_points) \in Nat
           /\ req.delim \in Seq(Byte) /\ Len(req.delim) \in Nat \ {0}
           /\ buffer_len \in Nat \ {0}
           /\ \A t : SourceOf(t) = At(prefixes, t)
  <1>1. TypeInv /\ PrefixInv /\ SourceInv /\ CutInv
    BY DEF LogicalInv
  <1>2. Len(fs) \in Nat /\ Len(prefixes) \in Nat \ {0} /\ Len(prefixes) <= Len(fs) + 1
    BY <1>1 DEF TypeInv, PrefixInv
  <1>3. \A k \in 1..Len(prefixes) : prefixes[k] \in Nat /\ prefixes[k] <= Total
    BY <1>1, <1>2 DEF PrefixInv, Total
  <1>4. Total \in Nat
    BY <1>2, <1>3 DEF Total
  <1>5. /\ effective_parts \in Nat /\ effective_parts <= req.parts
        /\ Total > 0 => effective_parts > 0
    BY <1>1, <1>4 DEF TypeInv, effective_parts, MinOf
  <1>6. Len(opens) \in Nat /\ Len(cut_points) \in Nat
    BY <1>1 DEF SourceInv, CutInv
  <1>7. req.delim \in Seq(Byte) /\ Len(req.delim) \in Nat \ {0}
    BY <1>1, LogicalAssumption DEF TypeInv
  <1>8. buffer_len \in Nat \ {0}
    BY <1>1, <1>7 DEF TypeInv, buffer_len, MaxOf
  <1>9. \A t : SourceOf(t) = At(prefixes, t)
    BY DEF SourceOf, At
  <1> QED
    BY <1>2, <1>3, <1>4, <1>5, <1>6, <1>7, <1>8, <1>9

(* An ideal target inside a source: which source, and its offset there. *)
LEMMA InsideSource ==
    ASSUME LogicalInv, pc \in Planning, partition < effective_parts,
           NEW t, t = IdealLogicalTarget, ~IsSourceBoundary(t)
    PROVE  /\ t \in Nat /\ t < Total
           /\ SourceOf(t) \in 1..Len(fs)
           /\ prefixes[SourceOf(t)] \in Nat /\ prefixes[SourceOf(t) + 1] \in Nat
           /\ prefixes[SourceOf(t)] < t /\ t < prefixes[SourceOf(t) + 1]
  <1>1. TypeInv /\ PrefixInv
    BY DEF LogicalInv
  <1>2. Len(prefixes) = Len(fs) + 1 /\ Total \in Nat \ {0} /\ Len(fs) \in Nat
    BY <1>1, Shape DEF PrefixInv
  <1>3. effective_parts \in Nat \ {0} /\ partition \in Nat
    BY <1>1, <1>2, Shape DEF TypeInv
  <1>4. t \in 0..(Total - 1)
    BY <1>2, <1>3, TargetInside DEF IdealLogicalTarget
  <1>5. t \in Nat /\ t < Total
    BY <1>2, <1>4
  <1> DEFINE c == SourceOf(t)
  <1>6. c = At(prefixes, t)
    BY Shape
  <1>7. /\ At(prefixes, t) \in 1..Len(prefixes) /\ prefixes[At(prefixes, t)] <= t
        /\ At(prefixes, t) < Len(prefixes) => t < prefixes[At(prefixes, t) + 1]
    <2>1. /\ prefixes \in Seq(Nat) /\ Len(prefixes) >= 1 /\ prefixes[1] = 0
          /\ \A i, j \in 1..Len(prefixes) : i <= j => prefixes[i] <= prefixes[j]
      BY <1>1, <1>2 DEF PrefixInv
    <2> QED
      BY <1>5, <2>1, SourceIsLast, Zenon
  <1> HIDE DEF c
  <1>8. /\ c \in 1..Len(prefixes) /\ prefixes[c] <= t
        /\ c < Len(prefixes) => t < prefixes[c + 1]
    BY <1>6, <1>7
  <1>9. c # Len(prefixes)
    BY <1>2, <1>5, <1>8 DEF Total
  <1>10. c \in 1..Len(fs) /\ c + 1 \in 1..Len(prefixes)
    BY <1>2, <1>8, <1>9
  <1>11. prefixes[c] # t
    BY <1>1, <1>8 DEF IsSourceBoundary, PrefixInv
  <1>12. prefixes[c] \in Nat /\ prefixes[c + 1] \in Nat
    BY <1>8, <1>10, Shape
  <1>13. prefixes[c] < t /\ t < prefixes[c + 1]
    BY <1>2, <1>5, <1>8, <1>10, <1>11, <1>12
  <1> QED
    BY <1>5, <1>10, <1>12, <1>13 DEF c

(* The next target is never in an earlier source. *)
LEMMA NextTarget ==
    ASSUME LogicalInv, pc \in Planning, partition' = partition + 1,
           UNCHANGED <<prefixes, req>>
    PROVE  /\ IdealLogicalTarget \in Nat /\ IdealLogicalTarget' \in Nat
           /\ SourceOf(IdealLogicalTarget) \in Nat /\ SourceOf(IdealLogicalTarget)' \in Nat
           /\ SourceOf(IdealLogicalTarget) <= SourceOf(IdealLogicalTarget)'
  <1> DEFINE n == effective_parts  t == (Total * partition) \div n
             u == (Total * (partition + 1)) \div n
  <1>1. TypeInv /\ PrefixInv
    BY DEF LogicalInv
  <1>2. Total \in Nat \ {0} /\ n \in Nat \ {0} /\ partition \in Nat
    BY <1>1, Shape DEF PrefixInv, TypeInv
  <1>3. t \in Nat /\ u \in Nat /\ t <= u
    BY <1>2, TargetGrows
  <1>4. IdealLogicalTarget = t
    BY DEF IdealLogicalTarget
  <1>5. IdealLogicalTarget' = u
    BY DEF IdealLogicalTarget, Total, effective_parts
  <1> HIDE DEF t, u
  <1>6. At(prefixes, t) <= At(prefixes, u) /\ At(prefixes, t) \in Nat /\ At(prefixes, u) \in Nat
    BY <1>1, <1>3, SourceGrows DEF PrefixInv
  <1>7. SourceOf(IdealLogicalTarget) = At(prefixes, t)
    BY <1>4 DEF SourceOf, At
  <1>8. SourceOf(IdealLogicalTarget)' = At(prefixes, u)
    BY <1>5 DEF SourceOf, At
  <1> QED
    BY <1>3, <1>4, <1>5, <1>6, <1>7, <1>8
------------------------------------------------------------------------------
(* An error return. *)
LEMMA FailKeeps ==
    ASSUME LogicalInv, Fail
    PROVE  LogicalInv'
  <1>1. /\ pc' = "done" /\ handles' = {} /\ current' = NoSource
        /\ fs' = fs /\ req' = req /\ prefixes' = prefixes /\ sources' = sources
        /\ opens' = opens /\ partition' = partition /\ last_cut' = last_cut
        /\ cut_points' = cut_points /\ target' = target /\ offset' = offset
    BY DEF Fail, env, plan, search
  <1>2. TypeInv' /\ PrefixInv' /\ SourceInv' /\ StageInv'
    BY <1>1 DEF LogicalInv, TypeInv, PrefixInv, SourceInv, StageInv, Planning
  <1>3. MmapInv'
    BY <1>1 DEF LogicalInv, MmapInv
  <1>4. SourcedInv'
    BY <1>1 DEF LogicalInv, SourcedInv, Planning, Inside
  <1>5. CutInv'
    BY <1>1 DEF LogicalInv, CutInv, Total
  <1> QED
    BY <1>2, <1>3, <1>4, <1>5 DEF LogicalInv

(* A rename over a path: no file that is open changes. *)
LEMMA ReplaceKeeps ==
    ASSUME LogicalInv, NEW k \in Paths, NEW file \in Contents \cup {Missing}, Replace(k, file)
    PROVE  LogicalInv'
  <1>1. /\ fs' = [fs EXCEPT ![k] = file]
        /\ UNCHANGED <<req, pc, prefixes, held, plan, search, report>>
    BY DEF Replace
  <1>2. fs \in Seq(Seq(Byte) \cup {Missing}) /\ file \in Seq(Byte) \cup {Missing}
    BY LogicalAssumption DEF LogicalInv, TypeInv
  <1>3. fs' \in Seq(Seq(Byte) \cup {Missing}) /\ Len(fs') = Len(fs)
    BY <1>1, <1>2 DEF Paths
  <1>4. /\ req' = req /\ pc' = pc /\ prefixes' = prefixes /\ sources' = sources
        /\ handles' = handles /\ opens' = opens /\ states' = states /\ current' = current
        /\ partition' = partition /\ last_cut' = last_cut
        /\ cut_points' = cut_points /\ target' = target /\ offset' = offset
    BY <1>1 DEF held, plan, search
  <1>5. /\ Total' = Total /\ effective_parts' = effective_parts
        /\ IdealLogicalTarget' = IdealLogicalTarget
    BY <1>4 DEF Total, effective_parts, IdealLogicalTarget
  <1>6. /\ SourceOf(target)' = SourceOf(target)
        /\ SourceOf(IdealLogicalTarget)' = SourceOf(IdealLogicalTarget)
        /\ IsSourceBoundary(target)' <=> IsSourceBoundary(target)
    BY <1>4, <1>5 DEF SourceOf, IsSourceBoundary
  <1>7. TypeInv' /\ SourceInv' /\ StageInv'
    BY <1>3, <1>4 DEF LogicalInv, TypeInv, SourceInv, StageInv
  <1>8. PrefixInv'
    BY <1>3, <1>4, <1>5 DEF LogicalInv, PrefixInv
  <1>9. MmapInv'
    BY <1>3, <1>4 DEF LogicalInv, MmapInv
  <1>10. SourcedInv'
    BY <1>4, <1>5, <1>6 DEF LogicalInv, SourcedInv
  <1>11. CutInv'
    BY <1>4, <1>5 DEF LogicalInv, CutInv
  <1> QED
    BY <1>7, <1>8, <1>9, <1>10, <1>11 DEF LogicalInv

(* The prefixes grow by one, in either engine. *)
LEMMA PrefixKeeps ==
    ASSUME LogicalInv, pc \in {"map", "stat"}, Len(prefixes) \in Paths,
           NEW l \in Nat, prefixes' = Append(prefixes, prefixes[Len(prefixes)] + l),
           pc = "map" => Len(opens) = Len(fs) /\ l = Len(sources[Len(prefixes)]),
           UNCHANGED <<env, pc, held, plan, search, report>>
    PROVE  LogicalInv'
  <1> DEFINE k == Len(prefixes)
  <1>1. /\ fs' = fs /\ req' = req /\ pc' = pc /\ sources' = sources
        /\ handles' = handles /\ opens' = opens /\ states' = states /\ current' = current
        /\ partition' = partition /\ last_cut' = last_cut
        /\ cut_points' = cut_points /\ target' = target /\ offset' = offset
    BY DEF env, held, plan, search
  <1>2. /\ prefixes \in Seq(Nat) /\ prefixes[1] = 0 /\ k \in 1..Len(fs) /\ Len(fs) \in Nat
        /\ \A i, j \in 1..k : i <= j => prefixes[i] <= prefixes[j]
    BY DEF LogicalInv, PrefixInv, TypeInv, Paths
  <1>3. prefixes[k] + l \in Nat /\ prefixes[k] \in Nat
    BY <1>2
  <1>4. /\ prefixes' \in Seq(Nat) /\ Len(prefixes') = k + 1
        /\ \A i \in 1..k : prefixes'[i] = prefixes[i] /\ prefixes[i] \in Nat
        /\ prefixes'[k + 1] = prefixes[k] + l
    BY <1>2, <1>3
  <1> HIDE DEF k
  <1>5. \A i, j \in 1..(k + 1) : i <= j => prefixes'[i] <= prefixes'[j]
    <2> SUFFICES ASSUME NEW i \in 1..(k + 1), NEW j \in 1..(k + 1), i <= j
                 PROVE  prefixes'[i] <= prefixes'[j]
      OBVIOUS
    <2>1. CASE j \in 1..k
      BY <1>2, <1>4, <2>1, SMTT(60)
    <2>2. CASE j = k + 1 /\ i \in 1..k
      <3>1. prefixes[i] <= prefixes[k] /\ prefixes[i] \in Nat
        BY <1>2, <1>4, <2>2
      <3>2. prefixes'[i] = prefixes[i] /\ prefixes'[j] = prefixes[k] + l
        BY <1>4, <2>2
      <3>3. \A a, b \in Nat : a <= b => a <= b + l
        OBVIOUS
      <3>4. prefixes[i] <= prefixes[k] + l
        BY <1>3, <3>1, <3>3, Zenon
      <3> QED
        BY <3>2, <3>4, Zenon
    <2>3. CASE j = k + 1 /\ i = k + 1
      BY <1>3, <1>4, <2>3
    <2>4. (j \in 1..k) \/ (j = k + 1 /\ i \in 1..k) \/ (j = k + 1 /\ i = k + 1)
      BY <1>2
    <2> QED
      BY <2>1, <2>2, <2>3, <2>4
  <1>6. PrefixInv'
    BY <1>1, <1>2, <1>4, <1>5 DEF PrefixInv, Planning
  <1>7. TypeInv' /\ StageInv'
    BY <1>1 DEF LogicalInv, TypeInv, StageInv
  <1>8. CutInv'
    BY <1>1 DEF LogicalInv, CutInv
  <1>9. MmapInv'
    BY <1>1 DEF LogicalInv, MmapInv
  <1>10. SourcedInv'
    BY <1>1 DEF LogicalInv, SourcedInv, Planning, Inside
  <1>11. SourceInv'
    <2>1. SourceInv
      BY DEF LogicalInv
    <2>2. ASSUME NEW m \in DOMAIN sources, m < k + 1
          PROVE  Len(sources[m]) = prefixes'[m + 1] - prefixes'[m]
      <3>1. m \in 1..Len(fs) /\ (m < k => Len(sources[m]) = prefixes[m + 1] - prefixes[m])
        BY <2>1 DEF SourceInv, k
      <3>0. k \in Nat /\ m \in Nat
        BY <1>2, <3>1
      <3>2. CASE m < k
        <4>1. m \in 1..k /\ m + 1 \in 1..k
          BY <1>2, <3>0, <3>1, <3>2, SMTT(60)
        <4>2. prefixes'[m] = prefixes[m] /\ prefixes'[m + 1] = prefixes[m + 1]
          BY <1>4, <4>1, Zenon
        <4>3. Len(sources[m]) = prefixes[m + 1] - prefixes[m]
          BY <3>1, <3>2, Zenon
        <4> QED
          BY <4>2, <4>3, Zenon
      <3>3. CASE m = k
        <4>1. pc = "map"
          <5>1. pc = "stat" => DOMAIN sources = {}
            BY <2>1 DEF LogicalInv, SourcedInv, MmapInv, TypeInv, SourceInv
          <5> QED
            BY <5>1
        <4>2. l = Len(sources[k])
          BY <4>1 DEF k
        <4>3. prefixes'[k + 1] = prefixes[k] + l /\ prefixes'[k] = prefixes[k]
          BY <1>2, <1>4
        <4>4. \A a \in Nat : l = (a + l) - a
          OBVIOUS
        <4>5. l = (prefixes[k] + l) - prefixes[k]
          BY <1>3, <4>4, Zenon
        <4>6. l = prefixes'[k + 1] - prefixes'[k]
          BY <4>3, <4>5, Zenon
        <4> QED
          BY <3>3, <4>2, <4>6, Zenon
      <3>4. m < k \/ m = k
        BY <2>2, <3>0
      <3> QED
        BY <3>2, <3>3, <3>4
    <2> QED
      BY <1>1, <1>4, <2>1, <2>2 DEF SourceInv
  <1> QED
    BY <1>6, <1>7, <1>8, <1>9, <1>10, <1>11 DEF LogicalInv

(* The opened source is added to sources and to opens. *)
LEMMA OpenKeeps ==
    ASSUME LogicalInv, NEW k \in 1..Len(fs), NEW file \in Seq(Byte),
           k < Len(prefixes) => Len(file) = prefixes[k + 1] - prefixes[k],
           \A i \in 1..Len(opens) : opens[i] < k,
           sources' = WithSource(k, file), opens' = Append(opens, k),
           UNCHANGED <<env, prefixes, plan, search>>
    PROVE  /\ SourceInv' /\ TypeInv'
           /\ Len(opens') = Len(opens) + 1 /\ opens'[Len(opens')] = k
           /\ \A i \in 1..Len(opens) : opens'[i] = opens[i]
           /\ sources'[k] = file
           /\ \A m \in DOMAIN sources : m \in DOMAIN sources' /\ sources'[m] = sources[m]
           /\ \A j \in 1..Len(cut_points) : SoundCut(prefixes', sources', req.delim', cut_points[j])
  <1>1. /\ fs' = fs /\ req' = req /\ prefixes' = prefixes /\ partition' = partition
        /\ target' = target /\ offset' = offset
    BY DEF env, plan, search
  <1>2. /\ opens \in Seq(Nat) /\ Len(opens) \in Nat /\ k \in Nat
        /\ \A i, j \in 1..Len(opens) : i < j => opens[i] < opens[j]
        /\ DOMAIN sources = {opens[i] : i \in 1..Len(opens)}
    BY Shape DEF LogicalInv, SourceInv
  <1>3. /\ opens' \in Seq(Nat) /\ Len(opens') = Len(opens) + 1
        /\ opens'[Len(opens) + 1] = k
        /\ \A i \in 1..Len(opens) : opens'[i] = opens[i] /\ opens[i] \in Nat
    BY <1>2
  <1>4. /\ DOMAIN sources' = DOMAIN sources \cup {k} /\ sources'[k] = file
        /\ \A m \in DOMAIN sources : m # k => sources'[m] = sources[m]
    BY DEF WithSource
  <1>5. k \notin DOMAIN sources
    BY <1>2, <1>3
  <1>6. \A m \in DOMAIN sources : m \in DOMAIN sources' /\ sources'[m] = sources[m]
    BY <1>4, <1>5
  <1>7. \A i, j \in 1..Len(opens') : i < j => opens'[i] < opens'[j]
    <2> SUFFICES ASSUME NEW i \in 1..(Len(opens) + 1), NEW j \in 1..(Len(opens) + 1), i < j
                 PROVE  opens'[i] < opens'[j]
      BY <1>3
    <2>1. i \in 1..Len(opens)
      BY <1>2
    <2>2. CASE j \in 1..Len(opens)
      BY <1>2, <1>3, <2>1, <2>2
    <2>3. CASE j = Len(opens) + 1
      BY <1>3, <2>1, <2>3
    <2>4. Len(opens) \in Nat
      BY <1>2
    <2>5. \A n \in Nat : \A x \in 1..(n + 1) : x \in 1..n \/ x = n + 1
      OBVIOUS
    <2> QED
      BY <2>2, <2>3, <2>4, <2>5, Zenon
  <1>8. DOMAIN sources' = {opens'[i] : i \in 1..Len(opens')}
    <2>1. 1..Len(opens') = 1..Len(opens) \cup {Len(opens) + 1}
      BY <1>2, <1>3
    <2>2. {opens'[i] : i \in 1..Len(opens')} = {opens[i] : i \in 1..Len(opens)} \cup {k}
      BY <1>3, <2>1
    <2> QED
      BY <1>2, <1>4, <2>2
  <1>9. \A m \in DOMAIN sources' :
           /\ m \in 1..Len(fs) /\ sources'[m] \in Seq(Byte)
           /\ m < Len(prefixes) => Len(sources'[m]) = prefixes[m + 1] - prefixes[m]
    <2> SUFFICES ASSUME NEW m \in DOMAIN sources'
                 PROVE  /\ m \in 1..Len(fs) /\ sources'[m] \in Seq(Byte)
                        /\ m < Len(prefixes) => Len(sources'[m]) = prefixes[m + 1] - prefixes[m]
      OBVIOUS
    <2>1. CASE m = k
      BY <1>4, <2>1
    <2>2. CASE m \in DOMAIN sources
      <3>1. sources'[m] = sources[m]
        BY <1>6, <2>2
      <3>2. /\ m \in 1..Len(fs) /\ sources[m] \in Seq(Byte)
            /\ m < Len(prefixes) => Len(sources[m]) = prefixes[m + 1] - prefixes[m]
        BY <2>2 DEF LogicalInv, SourceInv
      <3> QED
        BY <3>1, <3>2, Zenon
    <2> QED
      BY <1>4, <2>1, <2>2
  <1>10. SourceInv'
    BY <1>1, <1>3, <1>7, <1>8, <1>9 DEF SourceInv
  <1>11. TypeInv'
    BY <1>1 DEF LogicalInv, TypeInv
  <1>12. ASSUME NEW j \in 1..Len(cut_points)
         PROVE  SoundCut(prefixes', sources', req.delim', cut_points[j])
    <2>1. SoundCut(prefixes, sources, req.delim, cut_points[j])
      BY DEF LogicalInv, CutInv
    <2>2. SoundCut(prefixes, sources', req.delim, cut_points[j])
      <3>1. CASE \E m \in DOMAIN prefixes : prefixes[m] = cut_points[j]
        BY <3>1 DEF SoundCut
      <3>2. CASE \E m \in DOMAIN sources : \E b \in 0..Len(sources[m]) :
                    cut_points[j] = prefixes[m] + b /\ EndsRecord(sources[m], req.delim, b)
        <4>1. PICK m \in DOMAIN sources : \E b \in 0..Len(sources[m]) :
                    cut_points[j] = prefixes[m] + b /\ EndsRecord(sources[m], req.delim, b)
          BY <3>2
        <4>2. m \in DOMAIN sources' /\ sources'[m] = sources[m]
          BY <1>6
        <4> QED
          BY <4>1, <4>2, Zenon DEF SoundCut
      <3> QED
        BY <2>1, <3>1, <3>2 DEF SoundCut
    <2> QED
      BY <1>1, <2>2
  <1> QED
    BY <1>3, <1>4, <1>6, <1>10, <1>11, <1>12

(* --source mmap: one more file is mapped. *)
LEMMA MapFileKeeps ==
    ASSUME LogicalInv, emit_file_partitions
    PROVE  LogicalInv'
  <1> DEFINE k == Len(opens) + 1
  <1>1. CASE fs[k] = Missing /\ Fail
    BY <1>1, FailKeeps
  <1>2. CASE /\ fs[k] # Missing /\ sources' = WithSource(k, fs[k])
             /\ handles' = handles \cup {k} /\ opens' = Append(opens, k)
             /\ UNCHANGED <<env, pc, prefixes, states, current, plan, search, report>>
    <2>1. pc = "map" /\ k \in 1..Len(fs)
      BY DEF emit_file_partitions, Paths
    <2>2. req.mode = "mmap"
      BY <2>1 DEF LogicalInv, TypeInv, SourcedInv, Planning
    <2>3. /\ \A i \in 1..Len(opens) : opens[i] = i
          /\ Len(prefixes) > 1 => Len(opens) = Len(fs)
      BY <2>1, <2>2 DEF LogicalInv, MmapInv
    <2>4. Len(opens) \in Nat /\ Len(fs) \in Nat /\ Len(prefixes) \in Nat \ {0}
      BY Shape
    <2>5. \A i \in 1..Len(opens) : opens[i] < k
      BY <2>3, <2>4
    <2>6. ~(k < Len(prefixes))
      BY <2>1, <2>3, <2>4
    <2>7. fs[k] \in Seq(Byte)
      BY <1>2, <2>1 DEF LogicalInv, TypeInv
    <2>8. /\ fs' = fs /\ req' = req /\ pc' = pc /\ prefixes' = prefixes
          /\ partition' = partition /\ last_cut' = last_cut
          /\ cut_points' = cut_points
      BY <1>2 DEF env, plan
    <2> HIDE DEF k
    <2>9. /\ SourceInv' /\ TypeInv'
          /\ Len(opens') = Len(opens) + 1 /\ opens'[Len(opens')] = k
          /\ \A i \in 1..Len(opens) : opens'[i] = opens[i]
          /\ \A j \in 1..Len(cut_points) : SoundCut(prefixes', sources', req.delim', cut_points[j])
      BY <1>2, <2>1, <2>5, <2>6, <2>7, OpenKeeps
    <2>10. PrefixInv' /\ StageInv'
      BY <2>1, <2>8 DEF LogicalInv, PrefixInv, StageInv, Planning
    <2>11. MmapInv'
      <3>1. \A i \in 1..Len(opens') : opens'[i] = i
        <4> SUFFICES ASSUME NEW i \in 1..(Len(opens) + 1) PROVE opens'[i] = i
          BY <2>9
        <4>1. i \in 1..Len(opens) \/ i = Len(opens) + 1
          BY <2>4
        <4> QED
          BY <2>3, <2>9, <4>1 DEF k
      <3>2. ~(Len(prefixes) > 1)
        BY <2>1, <2>3, <2>4 DEF k
      <3> QED
        BY <2>1, <2>8, <3>1, <3>2 DEF MmapInv
    <2>12. SourcedInv'
      BY <2>2, <2>8 DEF SourcedInv
    <2>13. CutInv'
      BY <2>1, <2>8 DEF LogicalInv, CutInv
    <2> QED
      BY <2>9, <2>10, <2>11, <2>12, <2>13 DEF LogicalInv
  <1> QED
    BY <1>1, <1>2 DEF emit_file_partitions

(* --source mmap: the loop begins. *)
LEMMA EnterKeeps ==
    ASSUME LogicalInv, plan_logical_partitions
    PROVE  LogicalInv'
  <1>1. /\ pc = "map" /\ Len(prefixes) = Len(fs) + 1
        /\ states' = [k \in Paths |-> BoundarySearchState]
        /\ pc' = IF Total = 0 THEN "write" ELSE "loop"
        /\ fs' = fs /\ req' = req /\ prefixes' = prefixes /\ sources' = sources
        /\ handles' = handles /\ opens' = opens /\ current' = current
        /\ partition' = partition /\ last_cut' = last_cut
        /\ cut_points' = cut_points /\ target' = target /\ offset' = offset
    BY DEF plan_logical_partitions, env, plan, search
  <1>2. req.mode = "mmap"
    BY <1>1 DEF LogicalInv, TypeInv, SourcedInv, Planning
  <1>3. Total' = Total /\ effective_parts' = effective_parts /\ Total \in Nat
        /\ (Total > 0 => effective_parts > 0) /\ effective_parts \in Nat
        /\ Len(prefixes) \in Nat /\ Len(opens) \in Nat /\ Len(fs) \in Nat
    BY <1>1, Shape DEF Total, effective_parts
  <1>4. TypeInv' /\ SourceInv' /\ StageInv'
    BY <1>1 DEF LogicalInv, TypeInv, SourceInv, StageInv
  <1>5. CutInv'
    BY <1>1, <1>3 DEF LogicalInv, CutInv
  <1>6. SourcedInv'
    BY <1>1, <1>2 DEF SourcedInv
  <1>7. Len(cut_points) = 0 /\ partition = 1
    BY <1>1, <1>2 DEF LogicalInv, CutInv, StageInv
  <1>8. PrefixInv'
    <2>1. PrefixInv
      BY DEF LogicalInv
    <2>2. pc' \in Planning \cup {"assemble"} => Total > 0 /\ partition <= effective_parts
      BY <1>1, <1>3, <1>7 DEF Planning
    <2> QED
      BY <1>1, <1>3, <2>1, <2>2 DEF PrefixInv
  <1>9. MmapInv'
    <2>1. MmapInv /\ SourceInv
      BY DEF LogicalInv
    <2>2. Total > 0 => Len(prefixes) > 1
      BY <1>3 DEF LogicalInv, PrefixInv, Total
    <2>3. pc' = "loop" => Len(opens) = Len(fs)
      BY <1>1, <1>2, <1>3, <2>1, <2>2 DEF MmapInv
    <2>4. /\ BoundarySearchState \in State
          /\ BoundarySearchState.cached_boundary = NoPosition
      BY DEF BoundarySearchState, State
    <2>5. states' \in [1..Len(fs) -> State]
      BY <1>1, <2>4 DEF Paths
    <2>6. \A k \in 1..Len(fs) : StateOK(sources[k], req.delim, states'[k])
      BY <1>1, <2>4 DEF StateOK, Paths
    <2> QED
      BY <1>1, <1>2, <2>1, <2>3, <2>5, <2>6 DEF MmapInv
  <1> QED
    BY <1>4, <1>5, <1>6, <1>8, <1>9 DEF LogicalInv

(* --source windowed or pread: the loop begins. *)
LEMMA EnterSourcedKeeps ==
    ASSUME LogicalInv, EnterSourcedLoop
    PROVE  LogicalInv'
  <1>1. /\ pc = "stat" /\ Len(prefixes) = Len(fs) + 1
        /\ pc' = IF Total = 0 THEN "write" ELSE "loop"
        /\ fs' = fs /\ req' = req /\ prefixes' = prefixes /\ sources' = sources
        /\ handles' = handles /\ opens' = opens /\ states' = states /\ current' = current
        /\ partition' = partition /\ last_cut' = last_cut
        /\ cut_points' = cut_points /\ target' = target /\ offset' = offset
    BY DEF EnterSourcedLoop, env, held, plan, search
  <1>2. req.mode = "sourced"
    BY <1>1 DEF LogicalInv, TypeInv, MmapInv
  <1>3. Total' = Total /\ effective_parts' = effective_parts /\ Total \in Nat
        /\ (Total > 0 => effective_parts > 0) /\ effective_parts \in Nat
    BY <1>1, Shape DEF Total, effective_parts
  <1>4. TypeInv' /\ SourceInv' /\ StageInv'
    BY <1>1 DEF LogicalInv, TypeInv, SourceInv, StageInv
  <1>5. CutInv'
    BY <1>1, <1>3 DEF LogicalInv, CutInv
  <1>6. MmapInv'
    BY <1>1, <1>2 DEF MmapInv
  <1>7. partition = 1
    BY <1>1, <1>2 DEF LogicalInv, StageInv
  <1>8. PrefixInv'
    <2>1. PrefixInv
      BY DEF LogicalInv
    <2>2. pc' \in Planning \cup {"assemble"} => Total > 0 /\ partition <= effective_parts
      BY <1>1, <1>3, <1>7 DEF Planning
    <2> QED
      BY <1>1, <1>3, <2>1, <2>2 DEF PrefixInv
  <1>9. SourcedInv'
    <2>1. /\ opens = <<>> /\ current = NoSource /\ handles = {}
      BY <1>1, <1>2 DEF LogicalInv, SourcedInv
    <2>2. Len(opens) = 0
      BY <2>1
    <2> QED
      BY <1>1, <2>1, <2>2 DEF SourcedInv, Planning, Inside
  <1> QED
    BY <1>4, <1>5, <1>6, <1>8, <1>9 DEF LogicalInv
------------------------------------------------------------------------------
(* A projected target is taken: it ends the plan, is a cut, or is skipped. *)
LEMMA TakeCutKeeps ==
    ASSUME LogicalInv, pc \in {"loop", "boundary", "scan"}, partition < effective_parts,
           NEW c \in Nat, c <= Total, SoundCut(prefixes, sources, req.delim, c), TakeCut(c),
           UNCHANGED <<env, prefixes, sources, handles, opens, search>>
    PROVE  /\ TypeInv' /\ PrefixInv' /\ SourceInv' /\ CutInv' /\ StageInv'
           /\ pc' \in {"loop", "assemble"} /\ partition' = partition + 1
  <1>1. /\ fs' = fs /\ req' = req /\ prefixes' = prefixes /\ sources' = sources
        /\ handles' = handles /\ opens' = opens /\ target' = target /\ offset' = offset
    BY DEF env, search
  <1>2. /\ partition' = partition + 1 /\ pc' \in {"loop", "assemble"}
        /\ \/ /\ c > last_cut /\ c # Total
              /\ cut_points' = Append(cut_points, c) /\ last_cut' = c
           \/ cut_points' = cut_points /\ last_cut' = last_cut
    BY DEF TakeCut
  <1>3. Total' = Total /\ effective_parts' = effective_parts
    BY <1>1 DEF Total, effective_parts
  <1>4. Total \in Nat /\ effective_parts \in Nat /\ partition \in Nat \ {0}
    BY Shape DEF LogicalInv, TypeInv
  <1>5. TypeInv' /\ StageInv'
    <2>1. req.parts \in Nat /\ effective_parts <= req.parts
      BY Shape DEF LogicalInv, TypeInv
    <2>2. partition + 1 <= req.parts
      BY <1>4, <2>1
    <2> QED
      BY <1>1, <1>2, <1>4, <2>2 DEF LogicalInv, TypeInv, StageInv
  <1>6. SourceInv'
    BY <1>1 DEF LogicalInv, SourceInv
  <1>7. PrefixInv'
    <2>1. PrefixInv /\ pc \in Planning
      BY DEF LogicalInv, Planning
    <2>2. partition' <= effective_parts
      BY <1>2, <1>4
    <2> QED
      BY <1>1, <1>3, <2>1, <2>2 DEF PrefixInv
  <1>8. CutInv'
    <2>1. /\ cut_points \in Seq(Nat) /\ last_cut \in Nat /\ Len(cut_points) < partition
          /\ Len(cut_points) \in Nat
      BY DEF LogicalInv, CutInv
    <2>2. /\ \A j \in 1..Len(cut_points) :
                /\ 0 < cut_points[j] /\ cut_points[j] <= last_cut /\ cut_points[j] < Total
                /\ SoundCut(prefixes, sources, req.delim, cut_points[j])
          /\ \A i, j \in 1..Len(cut_points) : i < j => cut_points[i] < cut_points[j]
      BY DEF LogicalInv, CutInv
    <2>3. pc' \notin {"map", "stat"}
      BY <1>2
    <2>4. CASE cut_points' = cut_points /\ last_cut' = last_cut
      <3>1. Len(cut_points) < partition'
        BY <1>2, <1>4, <2>1
      <3> QED
        BY <1>1, <1>3, <2>1, <2>2, <2>3, <2>4, <3>1 DEF CutInv
    <2>5. CASE /\ c > last_cut /\ c # Total
               /\ cut_points' = Append(cut_points, c) /\ last_cut' = c
      <3> DEFINE m == Len(cut_points)
      <3>1. /\ cut_points' \in Seq(Nat) /\ Len(cut_points') = m + 1
            /\ \A j \in 1..m : cut_points'[j] = cut_points[j] /\ cut_points[j] \in Nat
            /\ cut_points'[m + 1] = c
        BY <2>1, <2>5
      <3>2. m \in Nat /\ m < partition
        BY <2>1
      <3> HIDE DEF m
      <3>3. \A x \in 1..(m + 1) : x \in 1..m \/ x = m + 1
        BY <3>2
      <3>4. m + 1 < partition'
        BY <1>2, <1>4, <3>2
      <3>5. 0 < c /\ c <= last_cut' /\ c < Total
        BY <1>4, <2>1, <2>5
      <3>6. ASSUME NEW j \in 1..m
            PROVE  /\ 0 < cut_points'[j] /\ cut_points'[j] <= last_cut' /\ cut_points'[j] < Total
                   /\ SoundCut(prefixes, sources, req.delim, cut_points'[j])
                   /\ cut_points'[j] < c
        <4>1. /\ 0 < cut_points[j] /\ cut_points[j] <= last_cut /\ cut_points[j] < Total
              /\ SoundCut(prefixes, sources, req.delim, cut_points[j])
          BY <2>2 DEF m
        <4>2. cut_points'[j] = cut_points[j] /\ cut_points[j] \in Nat
          BY <3>1
        <4>3. cut_points[j] < c /\ cut_points[j] <= c
          BY <2>1, <2>5, <4>1, <4>2
        <4> QED
          BY <2>5, <4>1, <4>2, <4>3, Zenon
      <3>7. ASSUME NEW j \in 1..(m + 1)
            PROVE  /\ 0 < cut_points'[j] /\ cut_points'[j] <= last_cut' /\ cut_points'[j] < Total
                   /\ SoundCut(prefixes, sources, req.delim, cut_points'[j])
        BY <3>1, <3>3, <3>5, <3>6, Zenon
      <3>8. \A i, j \in 1..(m + 1) : i < j => cut_points'[i] < cut_points'[j]
        <4> SUFFICES ASSUME NEW i \in 1..(m + 1), NEW j \in 1..(m + 1), i < j
                     PROVE  cut_points'[i] < cut_points'[j]
          OBVIOUS
        <4>1. i \in 1..m
          BY <3>2
        <4>2. CASE j \in 1..m
          <5>1. cut_points[i] < cut_points[j]
            BY <2>2, <4>1, <4>2 DEF m
          <5> QED
            BY <3>1, <4>1, <4>2, <5>1
        <4>3. CASE j = m + 1
          BY <3>1, <3>6, <4>1, <4>3
        <4> QED
          BY <3>3, <4>2, <4>3
      <3> QED
        BY <1>1, <1>3, <2>3, <2>5, <3>1, <3>4, <3>7, <3>8 DEF CutInv
    <2> QED
      BY <1>2, <2>4, <2>5
  <1> QED
    BY <1>2, <1>5, <1>6, <1>7, <1>8

(* A target at or before the last cut is skipped. *)
LEMMA SkipKeeps ==
    ASSUME LogicalInv, pc = "loop", partition < effective_parts,
           partition' = partition + 1, pc' = pc, UNCHANGED <<last_cut, cut_points>>,
           UNCHANGED <<env, prefixes, sources, handles, opens, search>>
    PROVE  TypeInv' /\ PrefixInv' /\ SourceInv' /\ CutInv' /\ StageInv'
  <1>1. /\ fs' = fs /\ req' = req /\ prefixes' = prefixes /\ sources' = sources
        /\ handles' = handles /\ opens' = opens /\ target' = target /\ offset' = offset
    BY DEF env, search
  <1>2. Total' = Total /\ effective_parts' = effective_parts
    BY <1>1 DEF Total, effective_parts
  <1>3. /\ Total \in Nat /\ effective_parts \in Nat /\ partition \in Nat \ {0}
        /\ Len(cut_points) \in Nat
    BY Shape DEF LogicalInv, TypeInv
  <1>4. TypeInv' /\ StageInv' /\ SourceInv'
    <2>1. req.parts \in Nat /\ effective_parts <= req.parts
      BY Shape DEF LogicalInv, TypeInv
    <2>2. partition + 1 <= req.parts
      BY <1>3, <2>1
    <2> QED
      BY <1>1, <1>3, <2>2, SMTT(60) DEF LogicalInv, TypeInv, StageInv, SourceInv
  <1>5. PrefixInv'
    BY <1>1, <1>2, <1>3 DEF LogicalInv, PrefixInv, Planning
  <1>6. CutInv'
    <2>1. CutInv /\ Len(cut_points) < partition'
      BY <1>3 DEF LogicalInv, CutInv
    <2> QED
      BY <1>1, <1>2, <2>1 DEF CutInv
  <1> QED
    BY <1>4, <1>5, <1>6

(* A source boundary is a sound cut. *)
LEMMA BoundaryIsSound ==
    ASSUME LogicalInv, NEW t, IsSourceBoundary(t)
    PROVE  t \in Nat /\ t <= Total /\ SoundCut(prefixes, sources, req.delim, t)
  <1>1. PICK k \in DOMAIN prefixes : prefixes[k] = t
    BY DEF IsSourceBoundary
  <1>2. k \in 1..Len(prefixes)
    BY DEF LogicalInv, PrefixInv
  <1>3. t \in Nat /\ t <= Total
    BY <1>1, <1>2, Shape
  <1> QED
    BY <1>1, <1>3 DEF SoundCut

(* So is a record end of an opened source. *)
LEMMA RecordEndIsSound ==
    ASSUME LogicalInv, pc \in Planning, NEW k \in DOMAIN sources, NEW b,
           RecordEnd(sources[k], req.delim, b)
    PROVE  /\ prefixes[k] + b \in Nat /\ prefixes[k] + b <= Total
           /\ SoundCut(prefixes, sources, req.delim, prefixes[k] + b)
  <1>1. /\ k \in 1..Len(fs) /\ Len(prefixes) = Len(fs) + 1
        /\ k < Len(prefixes) => Len(sources[k]) = prefixes[k + 1] - prefixes[k]
        /\ sources[k] \in Seq(Byte)
    BY DEF LogicalInv, SourceInv, PrefixInv
  <1>2. k + 1 \in 1..Len(prefixes) /\ k \in 1..Len(prefixes) /\ k < Len(prefixes)
    BY <1>1, Shape
  <1>3. prefixes[k] \in Nat /\ prefixes[k + 1] \in Nat /\ prefixes[k + 1] <= Total /\ Total \in Nat
    BY <1>2, Shape
  <1>4. Len(sources[k]) = prefixes[k + 1] - prefixes[k] /\ Len(sources[k]) \in Nat
    BY <1>1, <1>2
  <1>5. b \in 0..Len(sources[k])
    BY DEF RecordEnd
  <1>6. b = Len(sources[k]) \/ EndsRecord(sources[k], req.delim, b)
    BY DEF RecordEnd
  <1>7. prefixes[k] + b \in Nat /\ prefixes[k] + b <= Total
    BY <1>3, <1>4, <1>5
  <1>8. CASE b = Len(sources[k])
    <2>1. prefixes[k] + b = prefixes[k + 1]
      BY <1>3, <1>4, <1>8
    <2>2. k + 1 \in DOMAIN prefixes
      BY <1>2 DEF LogicalInv, PrefixInv
    <2> QED
      BY <1>7, <2>1, <2>2 DEF SoundCut
  <1>9. CASE EndsRecord(sources[k], req.delim, b)
    BY <1>5, <1>7, <1>9 DEF SoundCut
  <1> QED
    BY <1>6, <1>8, <1>9
------------------------------------------------------------------------------
(* The states a search leaves behind. *)
LEMMA StatesOK ==
    ASSUME NEW data \in Seq(Byte), NEW d, NEW b, RecordEnd(data, d, b),
           NEW state, StateOK(data, d, state)
    PROVE  StateOK(data, d, Found(b)) /\ StateOK(data, d, FoundExactly(state, b))
  <1>1. b \in Nat
    BY DEF RecordEnd
  <1>2. state.scan_from \in Nat
    BY DEF StateOK, State
  <1>3. MaxOf(b, state.scan_from) \in Nat
    BY <1>1, <1>2 DEF MaxOf
  <1> QED
    BY <1>1, <1>3 DEF StateOK, State, Found, FoundExactly

(* A target that ends a record is a record end. *)
LEMMA ExactIsEnd ==
    ASSUME NEW data \in Seq(Byte), NEW d \in Seq(Byte), NEW t \in Nat,
           \/ Len(d) = 1 /\ t >= 1 /\ t <= Len(data) /\ data[t] = d[1]
           \/ EndsRecord(data, d, t)
    PROVE  RecordEnd(data, d, t)
  <1>1. Len(data) \in Nat /\ Len(d) \in Nat
    OBVIOUS
  <1>2. CASE Len(d) = 1 /\ t >= 1 /\ t <= Len(data) /\ data[t] = d[1]
    <2>1. t - 1 \in Nat /\ (t - 1) + 1 = t
      BY <1>2
    <2>2. MatchAt(data, d, t - 1)
      BY <1>2, <2>1 DEF MatchAt
    <2> QED
      BY <1>1, <1>2, <2>2 DEF RecordEnd, EndsRecord
  <1>3. CASE EndsRecord(data, d, t)
    <2>1. t >= Len(d) /\ (t - Len(d)) + Len(d) <= Len(data)
      BY <1>3 DEF EndsRecord, MatchAt
    <2>2. t \in 0..Len(data)
      BY <1>1, <2>1
    <2> QED
      BY <1>3, <2>2 DEF RecordEnd
  <1> QED
    BY <1>2, <1>3

(* The end of the data is one. *)
LEMMA EndIsEnd ==
    ASSUME NEW data \in Seq(Byte), NEW d
    PROVE  RecordEnd(data, d, Len(data))
  <1>1. Len(data) \in Nat
    OBVIOUS
  <1> QED
    BY <1>1 DEF RecordEnd

(* The boundary of a target in a mapped source, one byte and longer. *)
LEMMA MappedBoundary ==
    ASSUME NEW data \in Seq(Byte), NEW d \in Seq(Byte), Len(d) > 0, NEW t \in Nat,
           NEW state, StateOK(data, d, state), NEW r,
           r = IF Len(d) = 1 THEN next_record_boundary(data, t, d[1], state)
               ELSE next_record_boundary_pattern(data, t, d, state)
    PROVE  RecordEnd(data, d, r[1]) /\ StateOK(data, d, r[2])
  <1>1. CASE Cached(state, t)
    <2>1. r = <<state.cached_boundary, state>>
      BY <1>1 DEF next_record_boundary, next_record_boundary_pattern
    <2>2. state.cached_boundary # NoPosition
      BY <1>1 DEF Cached
    <2> QED
      BY <2>1, <2>2 DEF StateOK
  <1> DEFINE exact == IF Len(d) = 1 THEN t >= 1 /\ t <= Len(data) /\ data[t] = d[1]
                      ELSE EndsRecord(data, d, t)
             s == MaxOf(t, state.scan_from)
             p == position_from(data, d[1], s, Len(data))
             q == find_first_pattern_from(data, d, s, Len(data))
             b == IF Len(d) = 1 THEN (IF p = NoPosition THEN Len(data) ELSE p + 1)
                  ELSE (IF q = NoPosition THEN Len(data) ELSE q + Len(d))
  <1>2. CASE ~Cached(state, t) /\ exact
    <2>1. r = <<t, FoundExactly(state, t)>>
      BY <1>2 DEF next_record_boundary, next_record_boundary_pattern
    <2>2. RecordEnd(data, d, t)
      BY <1>2, ExactIsEnd
    <2> QED
      BY <2>1, <2>2, StatesOK
  <1>3. CASE ~Cached(state, t) /\ ~exact
    <2>1. r = <<b, Found(b)>>
      BY <1>3 DEF next_record_boundary, next_record_boundary_pattern
    <2>2. s \in Nat /\ Len(data) \in Nat
      BY DEF StateOK, State, MaxOf
    <2> HIDE DEF s
    <2>3. RecordEnd(data, d, b)
      <3>1. CASE Len(d) = 1 /\ p # NoPosition
        <4>1. RecordEnd(data, d, p + 1)
          BY <2>2, <3>1, ByteFound
        <4> QED
          BY <3>1, <4>1
      <3>2. CASE Len(d) # 1 /\ q # NoPosition
        <4>1. RecordEnd(data, d, q + Len(d))
          BY <2>2, <3>2, PatternFound
        <4> QED
          BY <3>2, <4>1
      <3>3. CASE ~(Len(d) = 1 /\ p # NoPosition) /\ ~(Len(d) # 1 /\ q # NoPosition)
        <4>1. b = Len(data)
          BY <3>3
        <4> QED
          BY <4>1, EndIsEnd
      <3> QED
        BY <3>1, <3>2, <3>3
    <2> HIDE DEF b
    <2>4. StateOK(data, d, Found(b))
      BY <2>3, StatesOK
    <2> QED
      BY <2>1, <2>3, <2>4
  <1> QED
    BY <1>1, <1>2, <1>3

(* One iteration of the mapped loop. *)
LEMMA MappedKeeps ==
    ASSUME LogicalInv, MappedTarget
    PROVE  LogicalInv'
  <1> DEFINE t == IdealLogicalTarget
             k == SourceOf(t)
             local == project_logical_target(t)
  <1>1. /\ req.mode = "mmap" /\ pc = "loop" /\ partition < effective_parts
        /\ UNCHANGED <<env, prefixes, sources, handles, opens, current, search, report>>
    BY DEF MappedTarget
  <1>2. req' = req /\ fs' = fs /\ opens' = opens /\ sources' = sources /\ current' = current
    BY <1>1 DEF env
  <1>3. /\ Len(opens) = Len(fs) /\ states \in [1..Len(fs) -> State]
        /\ \A m \in 1..Len(fs) : StateOK(sources[m], req.delim, states[m])
        /\ \A i \in 1..Len(opens) : opens[i] = i
    BY <1>1 DEF LogicalInv, MmapInv
  <1>4. SourcedInv'
    BY <1>1, <1>2 DEF SourcedInv
  <1>5. ASSUME pc' \in {"loop", "assemble"}, states' = states PROVE MmapInv'
    BY <1>1, <1>2, <1>3, <1>5 DEF MmapInv
  <1>6. CASE /\ t <= last_cut /\ partition' = partition + 1
             /\ UNCHANGED <<pc, states, last_cut, cut_points>>
    <2>1. TypeInv' /\ PrefixInv' /\ SourceInv' /\ CutInv' /\ StageInv'
      BY <1>1, <1>6, SkipKeeps
    <2> QED
      BY <1>1, <1>4, <1>5, <1>6, <2>1 DEF LogicalInv
  <1>7. CASE t > last_cut /\ IsSourceBoundary(t) /\ TakeCut(t) /\ UNCHANGED states
    <2>1. t \in Nat /\ t <= Total /\ SoundCut(prefixes, sources, req.delim, t)
      BY <1>7, BoundaryIsSound
    <2> HIDE DEF t
    <2>2. /\ TypeInv' /\ PrefixInv' /\ SourceInv' /\ CutInv' /\ StageInv'
          /\ pc' \in {"loop", "assemble"}
      BY <1>1, <1>7, <2>1, TakeCutKeeps
    <2> QED
      BY <1>4, <1>5, <1>7, <2>2 DEF LogicalInv
  <1>8. CASE /\ t > last_cut /\ ~IsSourceBoundary(t)
             /\ TakeCut(prefixes[k] + local[1])
             /\ states' = [states EXCEPT ![k] = local[2]]
    <2>1. /\ t \in Nat /\ k \in 1..Len(fs) /\ prefixes[k] \in Nat /\ prefixes[k] < t
      BY <1>1, <1>8, InsideSource DEF Planning
    <2>2. k \in DOMAIN sources
      <3>1. DOMAIN sources = {opens[i] : i \in 1..Len(opens)}
        BY DEF LogicalInv, SourceInv
      <3> QED
        BY <1>3, <2>1, <3>1
    <2>3. sources[k] \in Seq(Byte) /\ StateOK(sources[k], req.delim, states[k])
      BY <1>3, <2>1, <2>2 DEF LogicalInv, SourceInv
    <2>4. t - prefixes[k] \in Nat
      BY <2>1
    <2>5. local = IF Len(req.delim) = 1
                  THEN next_record_boundary(sources[k], t - prefixes[k], req.delim[1], states[k])
                  ELSE next_record_boundary_pattern(sources[k], t - prefixes[k], req.delim, states[k])
      BY DEF project_logical_target
    <2>6. req.delim \in Seq(Byte) /\ Len(req.delim) > 0
      BY Shape
    <2> HIDE DEF t, k, local
    <2>7. RecordEnd(sources[k], req.delim, local[1]) /\ StateOK(sources[k], req.delim, local[2])
      BY <2>3, <2>4, <2>5, <2>6, MappedBoundary
    <2>8. /\ prefixes[k] + local[1] \in Nat /\ prefixes[k] + local[1] <= Total
          /\ SoundCut(prefixes, sources, req.delim, prefixes[k] + local[1])
      BY <1>1, <2>2, <2>7, RecordEndIsSound DEF Planning
    <2>9. /\ TypeInv' /\ PrefixInv' /\ SourceInv' /\ CutInv' /\ StageInv'
          /\ pc' \in {"loop", "assemble"}
      BY <1>1, <1>8, <2>8, TakeCutKeeps
    <2>10. /\ states' \in [1..Len(fs) -> State]
           /\ \A m \in 1..Len(fs) : StateOK(sources[m], req.delim, states'[m])
      <3>1. local[2] \in State
        BY <2>7 DEF StateOK
      <3> QED
        BY <1>3, <1>8, <2>1, <2>7, <3>1
    <2>11. MmapInv'
      BY <1>1, <1>2, <1>3, <2>9, <2>10 DEF MmapInv
    <2> QED
      BY <1>4, <2>9, <2>11 DEF LogicalInv
  <1> QED
    BY <1>6, <1>7, <1>8 DEF MappedTarget

(* --source mmap: one more prefix sum. *)
LEMMA AddPrefixKeeps ==
    ASSUME LogicalInv, AddPrefix
    PROVE  LogicalInv'
  <1> DEFINE k == Len(prefixes)
  <1>1. /\ pc = "map" /\ Len(opens) = Len(fs) /\ k \in Paths
        /\ prefixes' = Append(prefixes, prefixes[k] + Len(sources[k]))
        /\ UNCHANGED <<env, pc, held, plan, search, report>>
    BY DEF AddPrefix
  <1>2. req.mode = "mmap"
    BY <1>1 DEF LogicalInv, TypeInv, SourcedInv, Planning
  <1>3. /\ \A i \in 1..Len(opens) : opens[i] = i
        /\ DOMAIN sources = {opens[i] : i \in 1..Len(opens)}
        /\ \A m \in DOMAIN sources : sources[m] \in Seq(Byte)
    BY <1>2 DEF LogicalInv, MmapInv, SourceInv
  <1>4. k \in 1..Len(opens)
    BY <1>1 DEF Paths
  <1>5. k \in DOMAIN sources
    BY <1>3, <1>4
  <1>6. Len(sources[k]) \in Nat
    BY <1>3, <1>5
  <1> QED
    BY <1>1, <1>6, PrefixKeeps

(* --source windowed or pread: one more stat. *)
LEMMA StatKeeps ==
    ASSUME LogicalInv, StatPath
    PROVE  LogicalInv'
  <1> DEFINE k == Len(prefixes)
  <1>1. CASE fs[k] = Missing /\ Fail
    BY <1>1, FailKeeps
  <1>2. CASE /\ fs[k] # Missing /\ prefixes' = Append(prefixes, prefixes[k] + Len(fs[k]))
             /\ UNCHANGED <<env, pc, held, plan, search, report>>
    <2>1. pc = "stat" /\ k \in Paths
      BY DEF StatPath
    <2>2. fs[k] \in Seq(Byte)
      BY <1>2, <2>1 DEF LogicalInv, TypeInv, Paths
    <2>3. Len(fs[k]) \in Nat
      BY <2>2
    <2> QED
      BY <1>2, <2>1, <2>3, PrefixKeeps
  <1> QED
    BY <1>1, <1>2 DEF StatPath
------------------------------------------------------------------------------
(* The sourced loop goes on after a target: the sources opened so far are  *)
(* not beyond the next one.                                                *)
LEMMA SourcedGoesOn ==
    ASSUME LogicalInv, req.mode = "sourced", pc \in {"loop", "boundary", "scan"},
           partition' = partition + 1, pc' \in {"loop", "assemble"},
           UNCHANGED <<env, prefixes, sources, handles, opens>>,
           \/ current' = current
           \/ /\ current # NoSource
              /\ current' = [current EXCEPT !.state = current'.state]
              /\ StateOK(sources[current.index], req.delim, current'.state)
    PROVE  SourcedInv' /\ MmapInv'
  <1>1. /\ fs' = fs /\ req' = req /\ prefixes' = prefixes /\ sources' = sources
        /\ handles' = handles /\ opens' = opens
    BY DEF env
  <1>2. SourcedInv
    BY DEF LogicalInv
  <1>3. MmapInv'
    BY <1>1 DEF MmapInv
  <1>4. pc \in Planning
    BY DEF Planning
  <1>5. /\ SourceOf(IdealLogicalTarget) \in Nat /\ SourceOf(IdealLogicalTarget)' \in Nat
        /\ SourceOf(IdealLogicalTarget) <= SourceOf(IdealLogicalTarget)'
    BY <1>1, <1>4, NextTarget
  <1>6. /\ (current' = NoSource) <=> (current = NoSource)
        /\ current # NoSource =>
             /\ current' \in [index : Nat, state : State] /\ current'.index = current.index
             /\ StateOK(sources[current.index], req.delim, current'.state)
    <2>1. current # NoSource =>
             /\ current \in [index : Nat, state : State]
             /\ StateOK(sources[current.index], req.delim, current.state)
      BY <1>2 DEF SourcedInv
    <2>2. CASE current' = current
      BY <2>1, <2>2
    <2>3. CASE /\ current # NoSource
               /\ current' = [current EXCEPT !.state = current'.state]
               /\ StateOK(sources[current.index], req.delim, current'.state)
      <3>1. current'.state \in State
        BY <2>3 DEF StateOK
      <3>2. current' \in [index : Nat, state : State] /\ current'.index = current.index
        BY <2>1, <2>3, <3>1
      <3>3. current' # NoSource
        BY <3>2, LogicalAssumption DEF State
      <3> QED
        BY <2>3, <3>2, <3>3
    <2> QED
      BY <2>2, <2>3
  <1>7. \A i \in 1..Len(opens) : opens[i] \in Nat /\ opens[i] <= SourceOf(IdealLogicalTarget)
    <2>1. /\ opens \in Seq(Nat) /\ Len(opens) \in Nat
          /\ \A i, j \in 1..Len(opens) : i < j => opens[i] < opens[j]
      BY DEF LogicalInv, SourceInv
    <2>2. CASE pc = "loop"
      BY <1>2, <2>1, <2>2 DEF SourcedInv
    <2>3. CASE pc \in {"boundary", "scan"}
      <3>1. /\ target = IdealLogicalTarget /\ current.index = SourceOf(target)
            /\ Len(opens) > 0 /\ opens[Len(opens)] = current.index
        BY <1>2, <2>3 DEF SourcedInv, Inside, Planning
      <3>2. opens[Len(opens)] = SourceOf(IdealLogicalTarget)
        BY <3>1
      <3> QED
        BY <1>5, <2>1, <3>1, <3>2
    <2> QED
      BY <2>2, <2>3
  <1>8. \A i \in 1..Len(opens) : opens[i] <= SourceOf(IdealLogicalTarget)'
    BY <1>5, <1>7
  <1>9. Len(opens) > 0 => current # NoSource
    BY <1>2 DEF SourcedInv
  <1> QED
    BY <1>1, <1>2, <1>3, <1>6, <1>8, <1>9 DEF SourcedInv, Planning, Inside

(* One iteration of the sourced loop. *)
LEMMA SourcedKeeps ==
    ASSUME LogicalInv, SourcedTarget
    PROVE  LogicalInv'
  <1> DEFINE t == IdealLogicalTarget
  <1>1. /\ req.mode = "sourced" /\ pc = "loop" /\ partition < effective_parts
        /\ UNCHANGED <<env, prefixes, held, offset, report>>
    BY DEF SourcedTarget
  <1>2. /\ fs' = fs /\ req' = req /\ prefixes' = prefixes /\ sources' = sources
        /\ handles' = handles /\ opens' = opens /\ current' = current /\ offset' = offset
        /\ states' = states /\ replaced' = replaced
    BY <1>1 DEF env, held
  <1>3. CASE /\ t <= last_cut /\ partition' = partition + 1
             /\ UNCHANGED <<pc, last_cut, cut_points, target>>
    <2>1. TypeInv' /\ PrefixInv' /\ SourceInv' /\ CutInv' /\ StageInv'
      BY <1>1, <1>2, <1>3, SkipKeeps DEF env, search
    <2>2. SourcedInv' /\ MmapInv'
      BY <1>1, <1>2, <1>3, SourcedGoesOn DEF env
    <2> QED
      BY <2>1, <2>2 DEF LogicalInv
  <1>4. CASE t > last_cut /\ IsSourceBoundary(t) /\ TakeCut(t) /\ UNCHANGED target
    <2>1. t \in Nat /\ t <= Total /\ SoundCut(prefixes, sources, req.delim, t)
      BY <1>4, BoundaryIsSound
    <2> HIDE DEF t
    <2>2. /\ TypeInv' /\ PrefixInv' /\ SourceInv' /\ CutInv' /\ StageInv'
          /\ pc' \in {"loop", "assemble"} /\ partition' = partition + 1
      BY <1>1, <1>2, <1>4, <2>1, TakeCutKeeps DEF env, search
    <2>3. SourcedInv' /\ MmapInv'
      BY <1>1, <1>2, <2>2, SourcedGoesOn DEF env
    <2> QED
      BY <2>2, <2>3 DEF LogicalInv
  <1>5. CASE /\ t > last_cut /\ ~IsSourceBoundary(t) /\ target' = t
             /\ pc' = IF current # NoSource /\ current.index = SourceOf(t)
                      THEN "boundary" ELSE "close"
             /\ UNCHANGED <<partition, last_cut, cut_points>>
    <2>1. /\ t \in Nat /\ SourceOf(t) \in 1..Len(fs)
      BY <1>1, <1>5, InsideSource DEF Planning
    <2>2. /\ Total' = Total /\ effective_parts' = effective_parts
          /\ IdealLogicalTarget' = IdealLogicalTarget
      BY <1>2, <1>5 DEF Total, effective_parts, IdealLogicalTarget
    <2>3. /\ SourceOf(target)' = SourceOf(t)
          /\ IsSourceBoundary(target)' <=> IsSourceBoundary(t)
      BY <1>2, <1>5 DEF SourceOf, IsSourceBoundary
    <2>4. TypeInv' /\ SourceInv' /\ StageInv'
      BY <1>1, <1>2, <1>5, <2>1 DEF LogicalInv, TypeInv, SourceInv, StageInv
    <2>5. PrefixInv'
      BY <1>1, <1>2, <1>5, <2>2 DEF LogicalInv, PrefixInv, Planning
    <2>6. CutInv'
      BY <1>1, <1>2, <1>5, <2>2 DEF LogicalInv, CutInv
    <2>7. MmapInv'
      BY <1>1, <1>2 DEF MmapInv
    <2>8. SourcedInv'
      <3>1. SourcedInv
        BY DEF LogicalInv
      <3>2. pc' = "close" => \A i \in 1..Len(opens) : opens[i] < SourceOf(t)
        <4> SUFFICES ASSUME pc' = "close", NEW i \in 1..Len(opens) PROVE opens[i] < SourceOf(t)
          OBVIOUS
        <4>1. /\ opens \in Seq(Nat) /\ Len(opens) \in Nat
              /\ \A a, b \in 1..Len(opens) : a < b => opens[a] < opens[b]
          BY DEF LogicalInv, SourceInv
        <4>2. \A a \in 1..Len(opens) : opens[a] <= SourceOf(t) /\ opens[a] \in Nat
          BY <1>1, <3>1, <4>1 DEF SourcedInv
        <4>3. current # NoSource /\ opens[Len(opens)] = current.index
          BY <1>1, <3>1, <4>1 DEF SourcedInv
        <4>4. opens[Len(opens)] # SourceOf(t)
          BY <1>5, <4>3
        <4> HIDE DEF t
        <4>5. opens[Len(opens)] < SourceOf(t)
          BY <2>1, <4>1, <4>2, <4>4
        <4> QED
          BY <2>1, <4>1, <4>2, <4>5, SMTT(60)
      <3>3. Len(opens) > 0 => current # NoSource
        BY <1>1, <3>1 DEF SourcedInv
      <3> QED
        BY <1>1, <1>2, <1>5, <2>2, <2>3, <3>1, <3>2, <3>3 DEF SourcedInv, Planning, Inside
    <2> QED
      BY <2>4, <2>5, <2>6, <2>7, <2>8 DEF LogicalInv
  <1> QED
    BY <1>3, <1>4, <1>5 DEF SourcedTarget

(* The source of the previous targets is dropped. *)
LEMMA CloseKeeps ==
    ASSUME LogicalInv, CloseCurrent
    PROVE  LogicalInv'
  <1>1. /\ pc = "close" /\ pc' = "open" /\ current' = NoSource
        /\ handles' = IF current = NoSource THEN handles ELSE handles \ {current.index}
        /\ fs' = fs /\ req' = req /\ prefixes' = prefixes /\ sources' = sources
        /\ opens' = opens /\ states' = states
        /\ partition' = partition /\ last_cut' = last_cut
        /\ cut_points' = cut_points /\ target' = target /\ offset' = offset
    BY DEF CloseCurrent, env, plan, search
  <1>2. /\ Total' = Total /\ effective_parts' = effective_parts
        /\ IdealLogicalTarget' = IdealLogicalTarget
    BY <1>1 DEF Total, effective_parts, IdealLogicalTarget
  <1>3. /\ SourceOf(target)' = SourceOf(target)
        /\ IsSourceBoundary(target)' <=> IsSourceBoundary(target)
    BY <1>1 DEF SourceOf, IsSourceBoundary
  <1>4. req.mode = "sourced"
    BY <1>1 DEF LogicalInv, TypeInv, MmapInv
  <1>5. TypeInv' /\ SourceInv' /\ StageInv'
    BY <1>1 DEF LogicalInv, TypeInv, SourceInv, StageInv
  <1>6. PrefixInv'
    BY <1>1, <1>2 DEF LogicalInv, PrefixInv, Planning
  <1>7. CutInv'
    BY <1>1, <1>2 DEF LogicalInv, CutInv
  <1>8. MmapInv'
    BY <1>1, <1>4 DEF MmapInv
  <1>9. handles' = {}
    BY <1>1, <1>4 DEF LogicalInv, SourcedInv
  <1>10. SourcedInv'
    BY <1>1, <1>2, <1>3, <1>4, <1>9 DEF LogicalInv, SourcedInv, Planning, Inside
  <1> QED
    BY <1>5, <1>6, <1>7, <1>8, <1>10 DEF LogicalInv

(* The source of the target is opened, if its length is still the planned one. *)
LEMMA OpenSourceKeeps ==
    ASSUME LogicalInv, OpenSource
    PROVE  LogicalInv'
  <1> DEFINE k == SourceOf(target)
  <1>1. CASE Fail
    BY <1>1, FailKeeps
  <1>2. ASSUME NEW file \in open_sourced(k),
               Len(file) = prefixes[k + 1] - prefixes[k],
               sources' = WithSource(k, file), handles' = handles \cup {k},
               opens' = Append(opens, k),
               current' = [index |-> k, state |-> BoundarySearchState], pc' = "boundary",
               UNCHANGED <<env, prefixes, states, plan, search, report>>
        PROVE  LogicalInv'
    <2>1. pc = "open"
      BY DEF OpenSource
    <2>2. req.mode = "sourced"
      BY <2>1 DEF LogicalInv, TypeInv, MmapInv
    <2>3. /\ current = NoSource /\ handles = {} /\ target = IdealLogicalTarget
          /\ ~IsSourceBoundary(target) /\ partition < effective_parts
          /\ \A i \in 1..Len(opens) : opens[i] < k
      BY <2>1, <2>2 DEF LogicalInv, SourcedInv, Planning, Inside
    <2>4. k \in 1..Len(fs)
      BY <2>1, <2>3, InsideSource DEF Planning
    <2>5. file \in Seq(Byte)
      BY <1>2, <2>4 DEF LogicalInv, TypeInv, open_sourced
    <2>6. /\ fs' = fs /\ req' = req /\ prefixes' = prefixes /\ states' = states
          /\ partition' = partition /\ last_cut' = last_cut
          /\ cut_points' = cut_points /\ target' = target /\ offset' = offset
      BY <1>2 DEF env, plan, search
    <2>7. /\ Total' = Total /\ effective_parts' = effective_parts
          /\ IdealLogicalTarget' = IdealLogicalTarget
      BY <2>6 DEF Total, effective_parts, IdealLogicalTarget
    <2>8. /\ SourceOf(target)' = k
          /\ IsSourceBoundary(target)' <=> IsSourceBoundary(target)
      BY <2>6 DEF SourceOf, IsSourceBoundary
    <2> HIDE DEF k
    <2>9. /\ SourceInv' /\ TypeInv'
          /\ Len(opens') = Len(opens) + 1 /\ opens'[Len(opens')] = k
          /\ sources'[k] = file
          /\ \A j \in 1..Len(cut_points) : SoundCut(prefixes', sources', req.delim', cut_points[j])
      BY <1>2, <2>3, <2>4, <2>5, OpenKeeps
    <2>10. PrefixInv' /\ StageInv'
      BY <1>2, <2>1, <2>6, <2>7 DEF LogicalInv, PrefixInv, StageInv, Planning
    <2>11. MmapInv'
      BY <2>2, <2>6 DEF MmapInv
    <2>12. CutInv'
      BY <1>2, <2>1, <2>6, <2>7, <2>9 DEF LogicalInv, CutInv
    <2>13. /\ BoundarySearchState \in State
           /\ BoundarySearchState.cached_boundary = NoPosition
      BY DEF BoundarySearchState, State
    <2>14. /\ current' \in [index : Nat, state : State] /\ current'.index = k
           /\ current'.state = BoundarySearchState
      BY <1>2, <2>4, <2>13
    <2>15. current' # NoSource
      BY <2>14, LogicalAssumption DEF State
    <2>16. StateOK(file, req.delim, BoundarySearchState)
      BY <2>13 DEF StateOK
    <2>17. Len(opens') > 0
      BY <2>9, Shape
    <2>18. SourcedInv'
      BY <1>2, <2>2, <2>3, <2>6, <2>7, <2>8, <2>9, <2>14, <2>15, <2>16, <2>17
         DEF SourcedInv, Planning, Inside
    <2> QED
      BY <2>9, <2>10, <2>11, <2>12, <2>18 DEF LogicalInv
  <1> QED
    BY <1>1, <1>2 DEF OpenSource
------------------------------------------------------------------------------
(* What a search knows of the open source. *)
LEMMA OpenSourceShape ==
    ASSUME LogicalInv, pc \in {"boundary", "scan"}
    PROVE  /\ req.mode = "sourced" /\ partition < effective_parts
           /\ current # NoSource /\ current.index \in DOMAIN sources
           /\ Data \in Seq(Byte) /\ LocalTarget \in Nat
           /\ StateOK(Data, req.delim, current.state)
  <1>1. req.mode = "sourced"
    BY DEF LogicalInv, TypeInv, MmapInv
  <1>2. /\ partition < effective_parts /\ current # NoSource
        /\ target = IdealLogicalTarget /\ ~IsSourceBoundary(target)
        /\ current.index = SourceOf(target)
        /\ Len(opens) > 0 /\ opens[Len(opens)] = current.index
        /\ StateOK(Data, req.delim, current.state)
    BY <1>1 DEF LogicalInv, SourcedInv, Inside, Planning, Data
  <1>3. /\ DOMAIN sources = {opens[i] : i \in 1..Len(opens)} /\ Len(opens) \in Nat
        /\ \A m \in DOMAIN sources : sources[m] \in Seq(Byte)
    BY DEF LogicalInv, SourceInv
  <1>4. Len(opens) \in 1..Len(opens)
    BY <1>2, <1>3
  <1>5. current.index \in DOMAIN sources
    BY <1>2, <1>3, <1>4
  <1>6. Data \in Seq(Byte)
    BY <1>3, <1>5 DEF Data
  <1>7. /\ target \in Nat /\ prefixes[SourceOf(target)] \in Nat
        /\ prefixes[SourceOf(target)] < target
    BY <1>2, InsideSource DEF Planning
  <1>8. LocalTarget \in Nat
    BY <1>2, <1>7 DEF LocalTarget
  <1> QED
    BY <1>1, <1>2, <1>5, <1>6, <1>8

(* A search of the open source ends at a record end. *)
LEMMA ReachesKeeps ==
    ASSUME LogicalInv, pc \in {"boundary", "scan"}, NEW b, NEW state,
           RecordEnd(Data, req.delim, b), StateOK(Data, req.delim, state),
           Reaches(b, state),
           UNCHANGED <<env, prefixes, sources, handles, opens, search>>
    PROVE  LogicalInv'
  <1> DEFINE k == current.index
             c == prefixes[k] + b
  <1>1. /\ req.mode = "sourced" /\ partition < effective_parts
        /\ current # NoSource /\ k \in DOMAIN sources
    BY OpenSourceShape
  <1>2. c \in Nat /\ c <= Total /\ SoundCut(prefixes, sources, req.delim, c)
    BY <1>1, RecordEndIsSound DEF Data, Planning
  <1>3. TakeCut(c) /\ current' = [current EXCEPT !.state = state]
    BY DEF Reaches
  <1> HIDE DEF c
  <1>4. /\ TypeInv' /\ PrefixInv' /\ SourceInv' /\ CutInv' /\ StageInv'
        /\ pc' \in {"loop", "assemble"} /\ partition' = partition + 1
    BY <1>1, <1>2, <1>3, TakeCutKeeps
  <1>5. current'.state = state
    <2>1. current \in [index : Nat, state : State]
      BY <1>1 DEF LogicalInv, SourcedInv
    <2> QED
      BY <1>3, <2>1
  <1>6. SourcedInv' /\ MmapInv'
    <2>1. StateOK(sources[current.index], req.delim, current'.state)
      BY <1>5 DEF Data
    <2>2. current' = [current EXCEPT !.state = current'.state]
      BY <1>3, <1>5
    <2> QED
      BY <1>1, <1>4, <2>1, <2>2, SourcedGoesOn
  <1> QED
    BY <1>4, <1>6 DEF LogicalInv

(* A search of the open source goes on. *)
LEMMA SearchKeeps ==
    ASSUME LogicalInv, pc \in {"boundary", "scan"}, pc' = "scan", offset' \in Nat,
           UNCHANGED <<env, prefixes, sources, handles, opens, current, plan, target>>
    PROVE  LogicalInv'
  <1>1. /\ fs' = fs /\ req' = req /\ prefixes' = prefixes /\ sources' = sources
        /\ opens' = opens /\ handles' = handles /\ current' = current
        /\ partition' = partition /\ last_cut' = last_cut
        /\ cut_points' = cut_points /\ target' = target
    BY DEF env, plan
  <1>2. /\ Total' = Total /\ effective_parts' = effective_parts
        /\ IdealLogicalTarget' = IdealLogicalTarget
    BY <1>1 DEF Total, effective_parts, IdealLogicalTarget
  <1>3. /\ SourceOf(target)' = SourceOf(target)
        /\ IsSourceBoundary(target)' <=> IsSourceBoundary(target)
    BY <1>1 DEF SourceOf, IsSourceBoundary
  <1>4. req.mode = "sourced"
    BY OpenSourceShape
  <1>5. TypeInv' /\ SourceInv' /\ StageInv'
    BY <1>1 DEF LogicalInv, TypeInv, SourceInv, StageInv
  <1>6. PrefixInv'
    BY <1>1, <1>2 DEF LogicalInv, PrefixInv, Planning
  <1>7. CutInv'
    BY <1>1, <1>2 DEF LogicalInv, CutInv
  <1>8. MmapInv'
    BY <1>1, <1>4 DEF MmapInv
  <1>9. SourcedInv'
    BY <1>1, <1>2, <1>3, <1>4 DEF LogicalInv, SourcedInv, Planning, Inside
  <1> QED
    BY <1>5, <1>6, <1>7, <1>8, <1>9 DEF LogicalInv

(* The probe of the target. *)
LEMMA ProbeKeeps ==
    ASSUME LogicalInv, ProbeTarget
    PROVE  LogicalInv'
  <1> DEFINE state == current.state
             t == LocalTarget
  <1>1. /\ pc = "boundary"
        /\ UNCHANGED <<env, prefixes, sources, handles, opens, states, target, report>>
    BY DEF ProbeTarget
  <1>2. /\ Data \in Seq(Byte) /\ t \in Nat /\ StateOK(Data, req.delim, state)
    BY <1>1, OpenSourceShape
  <1>3. req.delim \in Seq(Byte) /\ Len(req.delim) \in Nat \ {0} /\ Len(Data) \in Nat
    BY <1>2, Shape
  <1>4. CASE Cached(state, t) /\ Reaches(state.cached_boundary, state) /\ UNCHANGED offset
    <2>1. RecordEnd(Data, req.delim, state.cached_boundary)
      BY <1>2, <1>4 DEF Cached, StateOK
    <2> QED
      BY <1>1, <1>2, <1>4, <2>1, ReachesKeeps DEF search
  <1>5. CASE ExactTarget /\ Reaches(t, FoundExactly(state, t)) /\ UNCHANGED offset
    <2>1. RecordEnd(Data, req.delim, t)
      <3>1. CASE Len(req.delim) = 1
        <4>1. t >= 1 /\ MinOf((t - 1) + 1, Len(Data)) = t /\ Data[t] = req.delim[1]
          BY <1>5, <3>1 DEF ExactTarget, ExactByte, fill_from
        <4>2. t <= Len(Data)
          BY <1>2, <1>3, <4>1 DEF MinOf
        <4> QED
          BY <1>2, <1>3, <3>1, <4>1, <4>2, ExactIsEnd
      <3>2. CASE Len(req.delim) # 1
        <4>1. t >= Len(req.delim) /\ MatchAt(Data, req.delim, t - Len(req.delim))
          BY <1>5, <3>2 DEF ExactTarget, ExactPattern
        <4>2. EndsRecord(Data, req.delim, t)
          BY <4>1 DEF EndsRecord
        <4> QED
          BY <1>2, <1>3, <4>2, ExactIsEnd
      <3> QED
        BY <3>1, <3>2
    <2>2. StateOK(Data, req.delim, FoundExactly(state, t))
      BY <1>2, <2>1, StatesOK
    <2> QED
      BY <1>1, <1>5, <2>1, <2>2, ReachesKeeps DEF search
  <1>6. CASE offset' = MaxOf(t, state.scan_from) /\ pc' = "scan" /\ UNCHANGED <<current, plan>>
    <2>1. offset' \in Nat
      BY <1>2, <1>6 DEF StateOK, State, MaxOf
    <2> QED
      BY <1>1, <1>6, <2>1, SearchKeeps
  <1> QED
    BY <1>4, <1>5, <1>6 DEF ProbeTarget

(* One read of a scan: what every read knows. *)
LEMMA ReadShape ==
    ASSUME LogicalInv, pc = "scan"
    PROVE  /\ offset \in Nat /\ fill_from(offset, buffer_len) \in Nat
           /\ fill_from(offset, buffer_len) <= Len(Data)
           /\ Len(Data) \in Nat
           /\ fill_from(offset, buffer_len) < Len(Data) =>
                fill_from(offset, buffer_len) >= Len(req.delim)
           /\ RecordEnd(Data, req.delim, Len(Data))
           /\ \A b : RecordEnd(Data, req.delim, b) => StateOK(Data, req.delim, Found(b))
  <1>1. Data \in Seq(Byte) /\ StateOK(Data, req.delim, current.state)
    BY OpenSourceShape
  <1>2. Len(Data) \in Nat /\ offset \in Nat /\ buffer_len \in Nat /\ Len(req.delim) \in Nat
    BY <1>1, Shape DEF LogicalInv, TypeInv
  <1>3. buffer_len >= Len(req.delim)
    <2>1. req.scan_buffer \in Nat
      BY DEF LogicalInv, TypeInv
    <2> QED
      BY <1>2, <2>1 DEF buffer_len, MaxOf
  <1>4. RecordEnd(Data, req.delim, Len(Data))
    BY <1>1, EndIsEnd
  <1>5. \A b : RecordEnd(Data, req.delim, b) => StateOK(Data, req.delim, Found(b))
    BY <1>1, StatesOK
  <1> QED
    BY <1>2, <1>3, <1>4, <1>5 DEF fill_from, MinOf

(* One read of the one-byte scan. *)
LEMMA ScanByteKeeps ==
    ASSUME LogicalInv, ScanByte
    PROVE  LogicalInv'
  <1> DEFINE end == fill_from(offset, buffer_len)
             p == position_from(Data, req.delim[1], offset, end)
  <1>1. /\ pc = "scan" /\ Len(req.delim) = 1
        /\ UNCHANGED <<env, prefixes, sources, handles, opens, states, target, report>>
    BY DEF ScanByte, ScanUnchanged
  <1>2. /\ offset \in Nat /\ end \in Nat /\ end <= Len(Data) /\ Len(Data) \in Nat
        /\ RecordEnd(Data, req.delim, Len(Data))
        /\ \A b : RecordEnd(Data, req.delim, b) => StateOK(Data, req.delim, Found(b))
    BY <1>1, ReadShape
  <1>3. Data \in Seq(Byte) /\ req.delim \in Seq(Byte)
    BY <1>1, OpenSourceShape, Shape
  <1> HIDE DEF end
  <1>4. p # NoPosition => RecordEnd(Data, req.delim, p + 1)
    BY <1>1, <1>2, <1>3, ByteFound, Zenon
  <1>5. CASE p # NoPosition /\ Reaches(p + 1, Found(p + 1)) /\ UNCHANGED offset
    BY <1>1, <1>2, <1>4, <1>5, ReachesKeeps DEF search
  <1>6. CASE Reaches(Len(Data), Found(Len(Data))) /\ UNCHANGED offset
    BY <1>1, <1>2, <1>6, ReachesKeeps DEF search
  <1>7. CASE Advance(end)
    BY <1>1, <1>2, <1>7, SearchKeeps DEF Advance
  <1> QED
    BY <1>5, <1>6, <1>7 DEF ScanByte, end

(* One read of the pattern scan moves forward. *)
LEMMA ScanPatternKeeps ==
    ASSUME LogicalInv, ScanPattern
    PROVE  LogicalInv'
  <1> DEFINE d == Len(req.delim)
             end == fill_from(offset, buffer_len)
             p == find_first_pattern_from(Data, req.delim, offset, end)
  <1>1. /\ pc = "scan"
        /\ UNCHANGED <<env, prefixes, sources, handles, opens, states, target, report>>
    BY DEF ScanPattern, ScanPatternWith, ScanUnchanged
  <1>2. /\ offset \in Nat /\ end \in Nat /\ end <= Len(Data) /\ Len(Data) \in Nat
        /\ end < Len(Data) => end >= d
        /\ RecordEnd(Data, req.delim, Len(Data))
        /\ \A b : RecordEnd(Data, req.delim, b) => StateOK(Data, req.delim, Found(b))
    BY <1>1, ReadShape
  <1>3. Data \in Seq(Byte) /\ req.delim \in Seq(Byte) /\ d \in Nat \ {0}
    BY <1>1, OpenSourceShape, Shape
  <1> HIDE DEF end
  <1>4. p # NoPosition => RecordEnd(Data, req.delim, p + d)
    <2>1. Len(req.delim) > 0
      BY <1>3
    <2> QED
      BY <1>2, <1>3, <2>1, PatternFound, Zenon
  <1>5. CASE p # NoPosition /\ Reaches(p + d, Found(p + d)) /\ UNCHANGED offset
    BY <1>1, <1>2, <1>4, <1>5, ReachesKeeps DEF search
  <1>6. CASE Reaches(Len(Data), Found(Len(Data))) /\ UNCHANGED offset
    BY <1>1, <1>2, <1>6, ReachesKeeps DEF search
  <1>7. CASE Advance(offset + MaxOf((end - offset) - (d - 1), 1))
    <2>1. offset + MaxOf((end - offset) - (d - 1), 1) \in Nat
      BY <1>2, <1>3 DEF MaxOf
    <2> QED
      BY <1>1, <1>7, <2>1, SearchKeeps DEF Advance
  <1> QED
    BY <1>5, <1>6, <1>7 DEF ScanPattern, ScanPatternWith, filled, end
------------------------------------------------------------------------------
(* The planner returns; the rows are written. *)
LEMMA AssembleKeeps ==
    ASSUME LogicalInv, Assemble
    PROVE  LogicalInv'
  <1>1. /\ pc \in {"loop", "assemble"} /\ pc' = "write" /\ current' = NoSource
        /\ handles' = (IF req.mode = "mmap" THEN handles ELSE {})
        /\ fs' = fs /\ req' = req /\ prefixes' = prefixes /\ sources' = sources
        /\ opens' = opens /\ states' = states
        /\ partition' = partition /\ last_cut' = last_cut
        /\ cut_points' = cut_points /\ target' = target /\ offset' = offset
    BY DEF Assemble, env, plan, search
  <1>2. Total' = Total
    BY <1>1 DEF Total
  <1>3. TypeInv' /\ PrefixInv' /\ SourceInv' /\ StageInv'
    BY <1>1 DEF LogicalInv, TypeInv, PrefixInv, SourceInv, StageInv, Planning
  <1>4. MmapInv'
    BY <1>1 DEF LogicalInv, MmapInv
  <1>5. SourcedInv'
    BY <1>1 DEF LogicalInv, SourcedInv, Planning, Inside
  <1>6. CutInv'
    BY <1>1, <1>2 DEF LogicalInv, CutInv
  <1> QED
    BY <1>3, <1>4, <1>5, <1>6 DEF LogicalInv

(* The command ends, with every handle dropped. *)
LEMMA WriteKeeps ==
    ASSUME LogicalInv, write_assignments
    PROVE  LogicalInv'
  <1>1. /\ pc = "write" /\ pc' = "done" /\ current' = current /\ handles' = {}
        /\ fs' = fs /\ req' = req /\ prefixes' = prefixes /\ sources' = sources
        /\ opens' = opens /\ states' = states
        /\ partition' = partition /\ last_cut' = last_cut
        /\ cut_points' = cut_points /\ target' = target /\ offset' = offset
    BY DEF write_assignments, env, plan, search
  <1>2. Total' = Total
    BY <1>1 DEF Total
  <1>3. TypeInv' /\ PrefixInv' /\ SourceInv' /\ StageInv'
    BY <1>1 DEF LogicalInv, TypeInv, PrefixInv, SourceInv, StageInv, Planning
  <1>4. MmapInv'
    BY <1>1 DEF LogicalInv, MmapInv
  <1>5. SourcedInv'
    BY <1>1 DEF LogicalInv, SourcedInv, Planning, Inside
  <1>6. CutInv'
    BY <1>1, <1>2 DEF LogicalInv, CutInv
  <1> QED
    BY <1>3, <1>4, <1>5, <1>6 DEF LogicalInv

(* A step that changes nothing. *)
LEMMA StutterKeeps ==
    ASSUME LogicalInv, UNCHANGED vars
    PROVE  LogicalInv'
  <1>1. /\ fs' = fs /\ req' = req /\ pc' = pc /\ prefixes' = prefixes /\ sources' = sources
        /\ handles' = handles /\ opens' = opens /\ states' = states /\ current' = current
        /\ partition' = partition /\ last_cut' = last_cut
        /\ cut_points' = cut_points /\ target' = target /\ offset' = offset
    BY DEF vars
  <1>2. /\ Total' = Total /\ effective_parts' = effective_parts
        /\ IdealLogicalTarget' = IdealLogicalTarget
    BY <1>1 DEF Total, effective_parts, IdealLogicalTarget
  <1>3. /\ SourceOf(target)' = SourceOf(target)
        /\ SourceOf(IdealLogicalTarget)' = SourceOf(IdealLogicalTarget)
        /\ IsSourceBoundary(target)' <=> IsSourceBoundary(target)
    BY <1>1, <1>2 DEF SourceOf, IsSourceBoundary
  <1>4. TypeInv' /\ SourceInv' /\ StageInv'
    BY <1>1 DEF LogicalInv, TypeInv, SourceInv, StageInv
  <1>5. PrefixInv'
    BY <1>1, <1>2 DEF LogicalInv, PrefixInv
  <1>6. MmapInv'
    BY <1>1 DEF LogicalInv, MmapInv
  <1>7. SourcedInv'
    BY <1>1, <1>2, <1>3 DEF LogicalInv, SourcedInv
  <1>8. CutInv'
    BY <1>1, <1>2 DEF LogicalInv, CutInv
  <1> QED
    BY <1>4, <1>5, <1>6, <1>7, <1>8 DEF LogicalInv

(* The command starts with the invariant. *)
LEMMA InitInv ==
    ASSUME Init
    PROVE  LogicalInv
  <1>1. TypeInv
    <2>1. fs \in Seq(Seq(Byte) \cup {Missing})
      <3>1. fs \in Seq(Seq(Byte))
        BY LogicalAssumption DEF Init
      <3> QED
        BY <3>1
    <2>2. /\ req.mode \in {"mmap", "sourced"} /\ req.parts \in PartCounts
          /\ req.delim \in Delims /\ req.scan_buffer \in {0} \cup ScanBuffers
      <3>1. CASE req \in [mode : {"mmap"}, parts : PartCounts, delim : Delims, scan_buffer : {0}]
        BY <3>1
      <3>2. CASE req \in [mode : {"sourced"}, parts : PartCounts, delim : Delims,
                          scan_buffer : ScanBuffers]
        BY <3>2
      <3> QED
        BY <3>1, <3>2 DEF Init
    <2>3. target = 0 /\ offset = 0 /\ partition = 1
      BY DEF Init
    <2>4. PartCounts \subseteq Nat \ {0} /\ ScanBuffers \subseteq Nat
      BY LogicalAssumption
    <2>5. req.parts \in Nat \ {0} /\ req.scan_buffer \in Nat
      <3>1. req.parts \in PartCounts /\ req.scan_buffer \in {0} \cup ScanBuffers /\ 0 \in Nat
        BY <2>2
      <3> QED
        BY <2>4, <3>1, Zenon
    <2>6. target \in Nat /\ offset \in Nat /\ partition \in Nat \ {0}
      BY <2>3
    <2> QED
      BY <2>1, <2>2, <2>5, <2>6 DEF TypeInv
  <1>2. Len(fs) \in Nat
    BY <1>1 DEF TypeInv
  <1>3. PrefixInv
    BY <1>2 DEF Init, PrefixInv, Planning
  <1>4. opens = <<>> /\ Len(opens) = 0 /\ DOMAIN sources = {}
    BY DEF Init
  <1>5. SourceInv
    BY <1>4 DEF SourceInv
  <1>6. MmapInv
    BY <1>3, <1>4 DEF Init, MmapInv, PrefixInv
  <1>7. SourcedInv
    BY <1>4 DEF Init, SourcedInv, Planning, Inside
  <1>8. CutInv
    BY DEF Init, CutInv
  <1>9. StageInv
    BY <1>1 DEF Init, TypeInv, StageInv
  <1> QED
    BY <1>1, <1>3, <1>5, <1>6, <1>7, <1>8, <1>9 DEF LogicalInv

(* Every step keeps it. *)
LEMMA NextKeeps ==
    ASSUME LogicalInv, [Next]_vars
    PROVE  LogicalInv'
  <1>1. CASE Plan
    BY <1>1, MapFileKeeps, AddPrefixKeeps, EnterKeeps, MappedKeeps, StatKeeps,
       EnterSourcedKeeps, SourcedKeeps, CloseKeeps, OpenSourceKeeps, ProbeKeeps,
       ScanByteKeeps, ScanPatternKeeps, AssembleKeeps, WriteKeeps DEF Plan
  <1>2. CASE ReadFails
    BY <1>2, FailKeeps DEF ReadFails
  <1>3. CASE \E k \in Paths, file \in Contents \cup {Missing} : Replace(k, file)
    BY <1>3, ReplaceKeeps
  <1>4. CASE Done \/ UNCHANGED vars
    BY <1>4, StutterKeeps DEF Done
  <1> QED
    BY <1>1, <1>2, <1>3, <1>4 DEF Next

(* The inductive invariant holds in every state of either engine. *)
THEOREM LogicalInvariant == Spec => []LogicalInv
  <1>1. Init => LogicalInv
    BY InitInv
  <1>2. LogicalInv /\ [Next]_vars => LogicalInv'
    BY NextKeeps
  <1> QED
    BY <1>1, <1>2, PTL DEF Spec

(* No source is opened twice or out of order, the sourced engine holds at   *)
(* most one at a time, and nothing is open when the command has returned.  *)
THEOREM SourcesOpenOnce == Spec => []OpensOnceInOrder
  <1>1. LogicalInv => OpensOnceInOrder
    <2> SUFFICES ASSUME LogicalInv PROVE OpensOnceInOrder
      OBVIOUS
    <2>1. \A i, j \in DOMAIN opens : i < j => opens[i] < opens[j]
      <3>1. opens \in Seq(Nat) /\ \A i, j \in 1..Len(opens) : i < j => opens[i] < opens[j]
        BY DEF LogicalInv, SourceInv
      <3>2. DOMAIN opens = 1..Len(opens)
        BY <3>1
      <3> QED
        BY <3>1, <3>2, Zenon
    <2>2. ASSUME req.mode = "sourced" PROVE Cardinality(handles) <= 1
      <3>1. handles \subseteq {current.index}
        BY <2>2 DEF LogicalInv, SourcedInv
      <3>2. IsFiniteSet({current.index}) /\ Cardinality({current.index}) = 1
        BY FS_Singleton
      <3>3. Cardinality(handles) <= Cardinality({current.index})
        BY <3>1, <3>2, FS_Subset
      <3> QED
        BY <3>2, <3>3
    <2>3. pc = "done" => handles = {}
      BY DEF LogicalInv, StageInv
    <2> QED
      BY <2>1, <2>2, <2>3 DEF OpensOnceInOrder
  <1> QED
    BY <1>1, LogicalInvariant, PTL

(* The cuts are fewer than the parts asked for, strictly increasing and    *)
(* strictly inside the logical bytes, and each falls on a source boundary  *)
(* or ends a record of the file the planner opened for that source, at the *)
(* length it planned for, whatever was renamed over the paths meanwhile.   *)
CutsAreSound ==
    /\ Len(cut_points) < req.parts
    /\ \A i, j \in 1..Len(cut_points) : i < j => cut_points[i] < cut_points[j]
    /\ \A j \in 1..Len(cut_points) :
          /\ 0 < cut_points[j] /\ cut_points[j] < Total
          /\ SoundCut(prefixes, sources, req.delim, cut_points[j])
    /\ \A k \in DOMAIN sources :
          k < Len(prefixes) => Len(sources[k]) = prefixes[k + 1] - prefixes[k]

(* Both engines only ever cut soundly. *)
THEOREM CutsFallBetweenRecords == Spec => []CutsAreSound
  <1>1. LogicalInv => CutsAreSound
    <2> SUFFICES ASSUME LogicalInv PROVE CutsAreSound
      OBVIOUS
    <2>1. Len(cut_points) < req.parts
      <3>1. Len(cut_points) < partition /\ partition <= req.parts
        BY DEF LogicalInv, CutInv, StageInv
      <3>2. Len(cut_points) \in Nat /\ partition \in Nat /\ req.parts \in Nat
        BY Shape DEF LogicalInv, TypeInv
      <3> QED
        BY <3>1, <3>2
    <2> QED
      BY <2>1 DEF LogicalInv, CutInv, SourceInv, CutsAreSound
  <1> QED
    BY <1>1, LogicalInvariant, PTL
------------------------------------------------------------------------------
(* A loop that appends h[k] at step k: f[k] is what the steps from k on    *)
(* append.                                                                 *)
IsJoin(f, h, n) ==
    f = [k \in 1..(n + 1) |-> IF k > n THEN <<>> ELSE h[k] \o f[k + 1]]

(* There is such an f. *)
LEMMA JoinExists ==
    ASSUME NEW n \in Nat, NEW T, NEW h \in [1..n -> Seq(T)]
    PROVE  \E f \in [1..(n + 1) -> Seq(T)] : IsJoin(f, h, n)
  <1> DEFINE m == n + 1
             R == Seq(T)
             Step(k, r) == IF k > n THEN <<>> ELSE h[k] \o r
             before == [k \in 1..m |-> [r \in R |-> Step(k, r)]]
  <1>0. m \in Nat /\ m > 0 /\ m \in 1..m /\ m > n
    OBVIOUS
  <1>1. <<>> \in R
    OBVIOUS
  <1>2. ASSUME NEW k \in 1..m, NEW r \in R PROVE Step(k, r) \in R
    <2>1. CASE k > n
      BY <1>1, <2>1
    <2>2. CASE ~(k > n)
      <3>1. k \in 1..n
        BY <2>2
      <3>2. h[k] \in Seq(T)
        BY <3>1
      <3>3. h[k] \o r \in Seq(T)
        BY <3>2, ConcatProperties
      <3> QED
        BY <2>2, <3>3
    <2> QED
      BY <2>1, <2>2
  <1>3. before \in [1..m -> [R -> R]]
    <2> HIDE DEF Step, R
    <2> QED
      BY <1>2, Zenon
  <1>4. PICK w \in [1..m -> R] : IsRows(w, <<>>, before, m)
    <2> HIDE DEF before, R, m
    <2> QED
      BY <1>0, <1>1, <1>3, RowsExist
  <1>5. w[m] = <<>> /\ \A i \in 1..(m - 1) : w[i] = before[i][w[i + 1]]
    BY <1>4, Zenon DEF IsRows
  <1>6. ASSUME NEW k \in 1..m
        PROVE  w[k] = IF k > n THEN <<>> ELSE h[k] \o w[k + 1]
    <2>1. CASE k = m
      BY <1>0, <1>5, <2>1
    <2>2. CASE k # m
      <3>1. k \in 1..(m - 1) /\ k + 1 \in 1..m /\ ~(k > n)
        BY <2>2
      <3>2. w[k + 1] \in R
        BY <3>1
      <3>3. w[k] = Step(k, w[k + 1])
        <4> HIDE DEF Step, R
        <4>1. w[k] = before[k][w[k + 1]]
          BY <1>5, <3>1, Zenon
        <4>2. before[k] = [r \in R |-> Step(k, r)]
          BY Zenon
        <4> QED
          BY <3>2, <4>1, <4>2, Zenon
      <3> QED
        BY <3>1, <3>3, Zenon
    <2> QED
      BY <2>1, <2>2
  <1>7. w = [k \in 1..m |-> w[k]]
    <2> HIDE DEF R
    <2> QED
      OBVIOUS
  <1>8. IsJoin(w, h, n)
    BY <1>6, <1>7, Zenon DEF IsJoin
  <1> QED
    BY <1>8
------------------------------------------------------------------------------
(* The prefix sums of n sources. *)
IsPrefixes(px, n) ==
    /\ n \in Nat /\ px \in Seq(Nat) /\ Len(px) = n + 1 /\ px[1] = 0
    /\ \A i, j \in 1..(n + 1) : i <= j => px[i] <= px[j]

(* A range of a source, and the logical offsets it goes from and to. *)
Piece == [source_index : Nat, start : Nat, end_exclusive : Nat, length : Nat]

From(px, r) == px[r.source_index] + r.start
To(px, r) == px[r.source_index] + r.end_exclusive

(* A piece has bytes, and they are bytes of its source. *)
InSource(px, n, r) ==
    /\ r.source_index \in 1..n /\ r.start \in Nat /\ r.end_exclusive \in Nat
    /\ r.length = r.end_exclusive - r.start /\ r.length > 0
    /\ To(px, r) <= px[r.source_index + 1]

(* Pieces of different sources, k the first possible, that tile a..(e - 1). *)
Tiling(rs, px, n, k, a, e) ==
    /\ rs \in Seq(Piece) /\ Len(rs) > 0
    /\ From(px, rs[1]) = a /\ To(px, rs[Len(rs)]) = e
    /\ \A j \in 1..Len(rs) : InSource(px, n, rs[j]) /\ rs[j].source_index >= k
    /\ \A j \in 1..(Len(rs) - 1) :
          To(px, rs[j]) = From(px, rs[j + 1]) /\ rs[j].source_index < rs[j + 1].source_index

(* What the loop over the sources returns, and its piece of source k. *)
Lo(px, a, k) == MaxOf(a, px[k])
Hi(px, e, k) == MinOf(e, px[k + 1])
PieceOf(px, a, e, k) == SourceRange(k, Lo(px, a, k) - px[k], Hi(px, e, k) - px[k])

IsPieces(f, px, n, a, e) ==
    f = [k \in 1..(n + 1) |->
            IF k > n THEN <<>>
            ELSE IF Lo(px, a, k) >= Hi(px, e, k) THEN f[k + 1]
            ELSE <<PieceOf(px, a, e, k)>> \o f[k + 1]]

(* A piece of a source. *)
LEMMA PieceIs ==
    ASSUME NEW px, NEW n, IsPrefixes(px, n), NEW a \in Nat, NEW e \in Nat, NEW k \in 1..n,
           Lo(px, a, k) < Hi(px, e, k)
    PROVE  /\ PieceOf(px, a, e, k) \in Piece /\ InSource(px, n, PieceOf(px, a, e, k))
           /\ PieceOf(px, a, e, k).source_index = k
           /\ From(px, PieceOf(px, a, e, k)) = Lo(px, a, k)
           /\ To(px, PieceOf(px, a, e, k)) = Hi(px, e, k)
  <1> DEFINE p == px[k]
             q == px[k + 1]
             lo == Lo(px, a, k)
             hi == Hi(px, e, k)
             r == PieceOf(px, a, e, k)
  <1>1. p \in Nat /\ q \in Nat /\ p <= q
    <2>1. n \in Nat /\ k \in 1..(n + 1) /\ k + 1 \in 1..(n + 1) /\ k <= k + 1
      BY DEF IsPrefixes
    <2> QED
      BY <2>1 DEF IsPrefixes
  <1>2. /\ lo \in Nat /\ hi \in Nat /\ lo < hi /\ p <= lo /\ hi <= q
    BY <1>1 DEF Lo, Hi, MaxOf, MinOf
  <1>3. r = [source_index |-> k, start |-> lo - p, end_exclusive |-> hi - p,
             length |-> (hi - p) - (lo - p)]
    BY DEF PieceOf, SourceRange
  <1> HIDE DEF lo, hi, r, p, q
  <1>4. /\ r.source_index = k /\ r.start = lo - p /\ r.end_exclusive = hi - p
        /\ r.length = (hi - p) - (lo - p)
    BY <1>3
  <1>5. /\ lo - p \in Nat /\ hi - p \in Nat /\ (hi - p) - (lo - p) \in Nat
        /\ (hi - p) - (lo - p) > 0 /\ p + (lo - p) = lo /\ p + (hi - p) = hi /\ k \in Nat
    BY <1>1, <1>2
  <1>6. r \in Piece
    BY <1>3, <1>5 DEF Piece
  <1>7. From(px, r) = lo /\ To(px, r) = hi
    BY <1>4, <1>5 DEF From, To, p
  <1>8. InSource(px, n, r)
    BY <1>2, <1>4, <1>5, <1>7 DEF InSource, q
  <1> QED
    BY <1>4, <1>6, <1>7, <1>8 DEF lo, hi, r

(* One piece before a tiling that begins where it ends. *)
LEMMA TilingGrows ==
    ASSUME NEW px, NEW n, NEW k \in Nat, NEW a, NEW b, NEW e, NEW r \in Piece,
           InSource(px, n, r), r.source_index = k, From(px, r) = a, To(px, r) = b,
           NEW rs, Tiling(rs, px, n, k + 1, b, e)
    PROVE  Tiling(<<r>> \o rs, px, n, k, a, e)
  <1> DEFINE s == <<r>> \o rs
  <1>1. rs \in Seq(Piece) /\ Len(rs) \in Nat /\ Len(rs) > 0
    BY DEF Tiling
  <1>2. /\ s \in Seq(Piece) /\ Len(s) = Len(rs) + 1 /\ s[1] = r
        /\ \A j \in 1..Len(rs) : s[j + 1] = rs[j]
    BY <1>1
  <1> HIDE DEF s
  <1>3. From(px, s[1]) = a /\ To(px, s[Len(s)]) = e
    <2>1. s[Len(s)] = rs[Len(rs)]
      BY <1>1, <1>2
    <2> QED
      BY <1>2, <2>1 DEF Tiling
  <1>4. ASSUME NEW j \in 1..Len(s) PROVE InSource(px, n, s[j]) /\ s[j].source_index >= k
    <2>1. CASE j = 1
      BY <1>2, <2>1
    <2>2. CASE j # 1
      <3>1. j - 1 \in 1..Len(rs) /\ s[(j - 1) + 1] = rs[j - 1] /\ (j - 1) + 1 = j
        BY <1>1, <1>2, <2>2
      <3>2. InSource(px, n, rs[j - 1]) /\ rs[j - 1].source_index >= k + 1
        BY <3>1 DEF Tiling
      <3>3. rs[j - 1] \in Piece
        BY <1>1, <3>1, ElementOfSeq
      <3>4. rs[j - 1].source_index \in Nat
        BY <3>3 DEF Piece
      <3> QED
        BY <3>1, <3>2, <3>4
    <2> QED
      BY <2>1, <2>2
  <1>5. ASSUME NEW j \in 1..(Len(s) - 1)
        PROVE  To(px, s[j]) = From(px, s[j + 1]) /\ s[j].source_index < s[j + 1].source_index
    <2>1. CASE j = 1
      <3>1. 1 \in 1..Len(rs)
        BY <1>1
      <3>2. s[1] = r /\ s[1 + 1] = rs[1]
        BY <1>2, <3>1
      <3>3. From(px, rs[1]) = b /\ rs[1].source_index >= k + 1
        BY <3>1 DEF Tiling
      <3>4. rs[1] \in Piece
        BY <1>1, <3>1, ElementOfSeq
      <3>5. rs[1].source_index \in Nat
        BY <3>4 DEF Piece
      <3> QED
        BY <2>1, <3>2, <3>3, <3>5
    <2>2. CASE j # 1
      <3>1. /\ j - 1 \in 1..Len(rs) /\ j - 1 \in 1..(Len(rs) - 1) /\ j \in 1..Len(rs)
            /\ (j - 1) + 1 = j
        BY <1>1, <1>2, <2>2
      <3>2. s[j] = rs[j - 1] /\ s[j + 1] = rs[(j - 1) + 1]
        BY <1>2, <3>1
      <3>3. /\ To(px, rs[j - 1]) = From(px, rs[(j - 1) + 1])
            /\ rs[j - 1].source_index < rs[(j - 1) + 1].source_index
        BY <3>1, Zenon DEF Tiling
      <3> QED
        BY <3>2, <3>3, Zenon
    <2> QED
      BY <2>1, <2>2
  <1>6. Len(s) > 0
    BY <1>1, <1>2
  <1> QED
    BY <1>2, <1>3, <1>4, <1>5, <1>6 DEF Tiling, s

(* A single piece. *)
LEMMA TilingOfOne ==
    ASSUME NEW px, NEW n, NEW k \in Nat, NEW r \in Piece, InSource(px, n, r), r.source_index = k
    PROVE  Tiling(<<r>>, px, n, k, From(px, r), To(px, r))
  <1> DEFINE s == <<r>>
  <1>1. s \in Seq(Piece) /\ Len(s) = 1 /\ s[1] = r
    OBVIOUS
  <1> HIDE DEF s
  <1>2. \A j \in 1..Len(s) : j = 1
    BY <1>1
  <1>3. \A j \in 1..(Len(s) - 1) : FALSE
    BY <1>1
  <1>4. \A j \in 1..Len(s) : InSource(px, n, s[j]) /\ s[j].source_index >= k
    BY <1>1, <1>2
  <1>5. From(px, s[1]) = From(px, r) /\ To(px, s[Len(s)]) = To(px, r) /\ Len(s) > 0
    BY <1>1
  <1> QED
    BY <1>1, <1>3, <1>4, <1>5 DEF Tiling, s

(* The later pieces are those of later sources. *)
LEMMA TilingWeakens ==
    ASSUME NEW px, NEW n, NEW k \in Nat, NEW rs, NEW a, NEW e, Tiling(rs, px, n, k + 1, a, e)
    PROVE  Tiling(rs, px, n, k, a, e)
  <1>1. ASSUME NEW j \in 1..Len(rs) PROVE rs[j].source_index >= k
    <2>1. rs[j] \in Piece /\ rs[j].source_index >= k + 1
      BY DEF Tiling
    <2>2. rs[j].source_index \in Nat
      BY <2>1 DEF Piece
    <2> QED
      BY <2>1, <2>2
  <1> QED
    BY <1>1 DEF Tiling

(* The pieces from source k on tile what is left of the interval there. *)
PiecesFrom(f, px, n, a, e, k) ==
    IF Lo(px, a, k) < e THEN Tiling(f[k], px, n, k, Lo(px, a, k), e) ELSE f[k] = <<>>

LEMMA PiecesTile ==
    ASSUME NEW px, NEW n, IsPrefixes(px, n), NEW a \in Nat, NEW e \in Nat, a < e,
           e <= px[n + 1], NEW f, IsPieces(f, px, n, a, e)
    PROVE  \A k \in 1..(n + 1) : PiecesFrom(f, px, n, a, e, k)
  <1> DEFINE S == {k \in 1..(n + 1) : PiecesFrom(f, px, n, a, e, k)}
  <1>0. /\ n \in Nat /\ n + 1 \in Nat /\ n + 1 > 0 /\ n + 1 > n /\ n + 1 \in 1..(n + 1)
        /\ (n + 1) - 1 = n
    BY DEF IsPrefixes
  <1>1. \A k \in 1..(n + 1) : px[k] \in Nat
    BY <1>0 DEF IsPrefixes
  <1>2. \A k \in 1..(n + 1) :
            f[k] = IF k > n THEN <<>>
                   ELSE IF Lo(px, a, k) >= Hi(px, e, k) THEN f[k + 1]
                   ELSE <<PieceOf(px, a, e, k)>> \o f[k + 1]
    BY Zenon DEF IsPieces
  <1>3. n + 1 \in S
    <2>1. f[n + 1] = <<>>
      BY <1>0, <1>2, Zenon
    <2>2. Lo(px, a, n + 1) \in Nat /\ Lo(px, a, n + 1) >= px[n + 1] /\ px[n + 1] \in Nat
      BY <1>0, <1>1 DEF Lo, MaxOf
    <2>3. ~(Lo(px, a, n + 1) < e)
      BY <2>2
    <2> QED
      BY <1>0, <2>1, <2>3 DEF PiecesFrom
  <1>4. ASSUME NEW k \in 1..((n + 1) - 1), k + 1 \in S PROVE k \in S
    <2> DEFINE p == px[k]
               q == px[k + 1]
               lo == Lo(px, a, k)
               hi == Hi(px, e, k)
               r == PieceOf(px, a, e, k)
               up == Lo(px, a, k + 1)
    <2>1. k \in 1..n /\ k \in 1..(n + 1) /\ k + 1 \in 1..(n + 1) /\ ~(k > n) /\ k \in Nat
      BY <1>0
    <2>2. p \in Nat /\ q \in Nat /\ p <= q
      BY <1>1, <2>1 DEF IsPrefixes
    <2>3. f[k] = IF lo >= hi THEN f[k + 1] ELSE <<r>> \o f[k + 1]
      BY <1>2, <2>1, Zenon
    <2>4. PiecesFrom(f, px, n, a, e, k + 1)
      BY <1>4
    <2>5. /\ lo = (IF a >= p THEN a ELSE p) /\ hi = (IF e <= q THEN e ELSE q)
          /\ up = (IF a >= q THEN a ELSE q)
      BY <2>2 DEF Lo, Hi, MaxOf, MinOf
    <2> HIDE DEF p, q, lo, hi, r, up
    <2>6. lo \in Nat /\ hi \in Nat /\ up \in Nat
      BY <2>2, <2>5
    <2>7. CASE lo >= hi /\ ~(lo < e)
      <3>1. ~(up < e)
        BY <2>2, <2>5, <2>6, <2>7
      <3>2. f[k + 1] = <<>>
        BY <2>4, <3>1 DEF PiecesFrom, up
      <3>3. f[k] = <<>>
        BY <2>3, <2>7, <3>2
      <3> QED
        BY <2>1, <2>7, <3>3 DEF PiecesFrom, lo
    <2>8. CASE lo >= hi /\ lo < e
      <3>1. up = lo
        BY <2>2, <2>5, <2>6, <2>8
      <3>2. Tiling(f[k + 1], px, n, k + 1, lo, e)
        BY <2>4, <2>8, <3>1, Zenon DEF PiecesFrom, up
      <3>3. Tiling(f[k], px, n, k, lo, e)
        BY <2>1, <2>3, <2>8, <3>2, TilingWeakens
      <3> QED
        BY <2>1, <2>8, <3>3 DEF PiecesFrom, lo
    <2>9. CASE lo < hi
      <3>1. /\ r \in Piece /\ InSource(px, n, r) /\ r.source_index = k
            /\ From(px, r) = lo /\ To(px, r) = hi
        BY <2>1, <2>9, PieceIs DEF lo, hi, r
      <3>2. lo < e /\ ~(lo >= hi)
        BY <2>2, <2>5, <2>6, <2>9
      <3>3. f[k] = <<r>> \o f[k + 1]
        BY <2>3, <3>2
      <3>4. CASE hi = e
        <4>1. ~(up < e)
          BY <2>2, <2>5, <2>6, <3>4
        <4>2. f[k + 1] = <<>>
          BY <2>4, <4>1 DEF PiecesFrom, up
        <4>3. f[k] = <<r>>
          BY <3>3, <4>2
        <4>4. Tiling(f[k], px, n, k, lo, e)
          BY <2>1, <3>1, <3>4, <4>3, TilingOfOne
        <4> QED
          BY <2>1, <3>2, <4>4 DEF PiecesFrom, lo
      <3>5. CASE hi # e
        <4>1. up = hi /\ up < e
          BY <2>2, <2>5, <2>6, <2>9, <3>5
        <4>2. Tiling(f[k + 1], px, n, k + 1, hi, e)
          BY <2>4, <4>1, Zenon DEF PiecesFrom, up
        <4>3. Tiling(f[k], px, n, k, lo, e)
          BY <2>1, <3>1, <3>3, <4>2, TilingGrows
        <4> QED
          BY <2>1, <3>2, <4>3 DEF PiecesFrom, lo
      <3> QED
        BY <3>4, <3>5
    <2> QED
      BY <2>6, <2>7, <2>8, <2>9
  <1>5. \A k \in 1..(n + 1) : k \in S
    <2> HIDE DEF S
    <2>1. S \in SUBSET (1..(n + 1))
      BY DEF S
    <2> QED
      BY <1>0, <1>3, <1>4, <2>1, DownToOne
  <1> QED
    BY <1>5
------------------------------------------------------------------------------
(* The ranges of an interval tile it. *)
LEMMA IntervalTiles ==
    ASSUME IsPrefixes(prefixes, Len(fs)), NEW a \in Nat, NEW e \in Nat, a < e, e <= Total
    PROVE  Tiling(ranges_for_interval(a, e), prefixes, Len(fs), 1, a, e)
  <1> DEFINE n == Len(fs)
             px == prefixes
             G(f) == [k \in 1..(n + 1) |->
                        IF k > n THEN <<>>
                        ELSE IF MaxOf(a, px[k]) >= MinOf(e, px[k + 1]) THEN f[k + 1]
                        ELSE <<SourceRange(k, MaxOf(a, px[k]) - px[k], MinOf(e, px[k + 1]) - px[k])>>
                               \o f[k + 1]]
             ranges == CHOOSE f : f = G(f)
  <1>0. n \in Nat /\ e <= px[n + 1] /\ px[1] = 0 /\ 1 \in 1..(n + 1) /\ ~(a >= e)
    BY DEF IsPrefixes, Total
  <1>1. ranges_for_interval(a, e) = ranges[1]
    BY <1>0 DEF ranges_for_interval
  <1>2. \A f : f = G(f) <=> IsPieces(f, px, n, a, e)
    BY Zenon DEF IsPieces, PieceOf, Lo, Hi
  <1> HIDE DEF G, px, n
  <1>3. \E f : IsPieces(f, px, n, a, e)
    <2> DEFINE head(k) == IF Lo(px, a, k) >= Hi(px, e, k) THEN <<>> ELSE <<PieceOf(px, a, e, k)>>
               h == [k \in 1..n |-> head(k)]
    <2>1. ASSUME NEW k \in 1..n PROVE head(k) \in Seq(Piece)
      <3>1. CASE Lo(px, a, k) < Hi(px, e, k)
        <4>1. PieceOf(px, a, e, k) \in Piece
          BY <3>1, PieceIs DEF px, n
        <4> QED
          BY <4>1
      <3>2. CASE ~(Lo(px, a, k) < Hi(px, e, k))
        <4>1. k \in 1..(n + 1) /\ k + 1 \in 1..(n + 1)
          BY <1>0
        <4>2. px[k] \in Nat /\ px[k + 1] \in Nat
          BY <4>1 DEF IsPrefixes, px, n
        <4>3. Lo(px, a, k) >= Hi(px, e, k)
          BY <3>2, <4>2 DEF Lo, Hi, MaxOf, MinOf
        <4> QED
          BY <4>3
      <3> QED
        BY <3>1, <3>2
    <2> HIDE DEF head
    <2>2. h \in [1..n -> Seq(Piece)]
      BY <2>1, Zenon
    <2>3. PICK f \in [1..(n + 1) -> Seq(Piece)] : IsJoin(f, h, n)
      <3> HIDE DEF h
      <3> QED
        BY <1>0, <2>2, JoinExists
    <2>4. ASSUME NEW k \in 1..(n + 1)
          PROVE  (IF k > n THEN <<>> ELSE h[k] \o f[k + 1]) =
                 IF k > n THEN <<>>
                 ELSE IF Lo(px, a, k) >= Hi(px, e, k) THEN f[k + 1]
                 ELSE <<PieceOf(px, a, e, k)>> \o f[k + 1]
      <3>1. CASE k > n
        BY <3>1
      <3>2. CASE ~(k > n)
        <4>1. k \in 1..n /\ k + 1 \in 1..(n + 1)
          BY <1>0, <3>2
        <4>2. f[k + 1] \in Seq(Piece)
          BY <4>1
        <4>3. <<>> \o f[k + 1] = f[k + 1]
          BY <4>2, ConcatEmptySeq
        <4>4. h[k] = head(k)
          BY <4>1
        <4> HIDE DEF h
        <4>5. CASE Lo(px, a, k) >= Hi(px, e, k)
          <5>1. h[k] = <<>>
            BY <4>4, <4>5, Zenon DEF head
          <5> QED
            BY <3>2, <4>3, <4>5, <5>1, Zenon
        <4>6. CASE ~(Lo(px, a, k) >= Hi(px, e, k))
          <5>1. h[k] = <<PieceOf(px, a, e, k)>>
            BY <4>4, <4>6, Zenon DEF head
          <5> QED
            BY <3>2, <4>6, <5>1, Zenon
        <4> QED
          BY <4>5, <4>6
      <3> QED
        BY <3>1, <3>2
    <2>5. f = [k \in 1..(n + 1) |-> IF k > n THEN <<>> ELSE h[k] \o f[k + 1]]
      BY <2>3, Zenon DEF IsJoin
    <2>6. IsPieces(f, px, n, a, e)
      <3> HIDE DEF h
      <3> QED
        BY <2>4, <2>5, Zenon DEF IsPieces
    <2> QED
      BY <2>6
  <1>4. ranges = G(ranges)
    BY <1>2, <1>3
  <1> HIDE DEF ranges
  <1>5. IsPieces(ranges, px, n, a, e)
    BY <1>2, <1>4
  <1>6. PiecesFrom(ranges, px, n, a, e, 1)
    <2>1. \A k \in 1..(n + 1) : PiecesFrom(ranges, px, n, a, e, k)
      BY <1>0, <1>5, PiecesTile DEF px, n
    <2> QED
      BY <1>0, <2>1, Zenon
  <1>7. Lo(px, a, 1) = a
    BY <1>0 DEF Lo, MaxOf
  <1>8. Tiling(ranges[1], px, n, 1, a, e)
    BY <1>6, <1>7 DEF PiecesFrom
  <1> QED
    BY <1>1, <1>8 DEF px, n

(* The loop over the intervals, none of which is without ranges. *)
IsWorkers(g, I, m) ==
    g = [j \in 1..(m + 1) |->
            IF j > m THEN <<>> ELSE IF I[j] = <<>> THEN g[j + 1] ELSE <<I[j]>> \o g[j + 1]]

(* s lists the values of I. *)
Lists(s, I, m, T) == s \in Seq(T) /\ Len(s) = m /\ \A i \in 1..m : s[i] = I[i]

LEMMA WorkersAre ==
    ASSUME NEW m \in Nat, NEW T, NEW I \in [1..m -> T], \A j \in 1..m : I[j] # <<>>,
           NEW g, IsWorkers(g, I, m)
    PROVE  Lists(g[1], I, m, T)
  <1> DEFINE P(j) == /\ g[j] \in Seq(T) /\ Len(g[j]) = (m + 1) - j
                     /\ \A i \in 1..((m + 1) - j) : g[j][i] = I[(j + i) - 1]
             S == {j \in 1..(m + 1) : P(j)}
  <1>0. m + 1 \in Nat /\ m + 1 > 0 /\ m + 1 > m /\ m + 1 \in 1..(m + 1) /\ (m + 1) - 1 = m
    OBVIOUS
  <1>1. \A j \in 1..(m + 1) :
          g[j] = IF j > m THEN <<>> ELSE IF I[j] = <<>> THEN g[j + 1] ELSE <<I[j]>> \o g[j + 1]
    BY Zenon DEF IsWorkers
  <1>2. m + 1 \in S
    <2>1. g[m + 1] = <<>>
      BY <1>0, <1>1, Zenon
    <2>2. <<>> \in Seq(T) /\ Len(<<>>) = 0 /\ (m + 1) - (m + 1) = 0
      OBVIOUS
    <2>3. \A i \in 1..0 : FALSE
      OBVIOUS
    <2> QED
      BY <1>0, <2>1, <2>2, <2>3, Zenon
  <1>3. ASSUME NEW j \in 1..((m + 1) - 1), j + 1 \in S PROVE j \in S
    <2>1. j \in 1..m /\ j \in 1..(m + 1) /\ ~(j > m) /\ I[j] \in T /\ I[j] # <<>>
      OBVIOUS
    <2>2. g[j] = <<I[j]>> \o g[j + 1]
      BY <1>1, <2>1, Zenon
    <2> DEFINE h == g[j + 1]
               s == g[j]
    <2>3. /\ h \in Seq(T) /\ Len(h) = (m + 1) - (j + 1)
          /\ \A i \in 1..((m + 1) - (j + 1)) : h[i] = I[((j + 1) + i) - 1]
      BY <1>3
    <2>4. s = <<I[j]>> \o h
      BY <2>2
    <2> HIDE DEF h, s
    <2>5. /\ s \in Seq(T) /\ Len(s) = Len(h) + 1 /\ s[1] = I[j]
          /\ \A i \in 1..Len(h) : s[i + 1] = h[i]
      BY <2>1, <2>3, <2>4
    <2>6. ASSUME NEW i \in 1..((m + 1) - j) PROVE s[i] = I[(j + i) - 1]
      <3>1. CASE i = 1
        BY <2>1, <2>5, <3>1
      <3>2. CASE i # 1
        <4>1. i - 1 \in 1..Len(h) /\ (i - 1) + 1 = i /\ ((j + 1) + (i - 1)) - 1 = (j + i) - 1
          BY <2>1, <2>3, <3>2
        <4>2. s[(i - 1) + 1] = h[i - 1] /\ h[i - 1] = I[((j + 1) + (i - 1)) - 1]
          BY <2>3, <2>5, <4>1
        <4> QED
          BY <4>1, <4>2
      <3> QED
        BY <3>1, <3>2
    <2>7. Len(s) = (m + 1) - j
      BY <2>1, <2>3, <2>5
    <2> QED
      BY <2>1, <2>5, <2>6, <2>7 DEF s
  <1>4. \A j \in 1..(m + 1) : j \in S
    <2>1. S \in SUBSET (1..(m + 1))
      OBVIOUS
    <2> HIDE DEF S
    <2> QED
      BY <1>0, <1>2, <1>3, <2>1, DownToOne
  <1>5. P(1)
    BY <1>0, <1>4
  <1>6. \A i \in 1..m : (1 + i) - 1 = i
    OBVIOUS
  <1> QED
    BY <1>0, <1>5, <1>6 DEF Lists

(* Where each worker's interval begins. *)
Begin(ends, j) == IF j = 1 THEN 0 ELSE ends[j - 1]

(* The ends of the intervals: strictly increasing, the last one Total. *)
IsIntervals(ends) ==
    /\ ends \in Seq(Nat) /\ Len(ends) > 0 /\ ends[Len(ends)] = Total
    /\ \A j \in 1..Len(ends) : Begin(ends, j) \in Nat /\ Begin(ends, j) < ends[j] /\ ends[j] <= Total

(* Every interval is some worker's, in order. *)
LEMMA AssignmentsTile ==
    ASSUME IsPrefixes(prefixes, Len(fs)), NEW ends, ends = Append(cut_points, Total),
           IsIntervals(ends)
    PROVE  /\ Assignments \in Seq(Seq(Piece)) /\ Len(Assignments) = Len(ends)
           /\ \A j \in 1..Len(ends) :
                Tiling(Assignments[j], prefixes, Len(fs), 1, Begin(ends, j), ends[j])
  <1> DEFINE m == Len(ends)
             Interval(j) == ranges_for_interval(IF j = 1 THEN 0 ELSE ends[j - 1], ends[j])
             G(f) == [j \in 1..(m + 1) |->
                        IF j > m THEN <<>>
                        ELSE IF Interval(j) = <<>> THEN f[j + 1] ELSE <<Interval(j)>> \o f[j + 1]]
             workers == CHOOSE f : f = G(f)
             I == [j \in 1..m |-> Interval(j)]
             T == Seq(Piece)
  <1>0. m \in Nat
    BY DEF IsIntervals
  <1>1. Assignments = workers[1]
    BY DEF Assignments
  <1>2. ASSUME NEW j \in 1..m
        PROVE  Tiling(Interval(j), prefixes, Len(fs), 1, Begin(ends, j), ends[j])
    <2>1. Begin(ends, j) \in Nat /\ ends[j] \in Nat /\ Begin(ends, j) < ends[j] /\ ends[j] <= Total
      BY DEF IsIntervals
    <2>2. Tiling(ranges_for_interval(Begin(ends, j), ends[j]), prefixes, Len(fs), 1,
                 Begin(ends, j), ends[j])
      BY <2>1, IntervalTiles
    <2>3. Interval(j) = ranges_for_interval(Begin(ends, j), ends[j])
      BY DEF Begin
    <2> QED
      BY <2>2, <2>3, Zenon
  <1> HIDE DEF Interval, m
  <1>3. \A j \in 1..m : Interval(j) \in T /\ Interval(j) # <<>>
    <2> TAKE j \in 1..m
    <2>1. Interval(j) \in Seq(Piece) /\ Len(Interval(j)) > 0
      BY <1>2 DEF Tiling
    <2> QED
      BY <2>1
  <1>4. I \in [1..m -> T] /\ \A j \in 1..m : I[j] = Interval(j) /\ I[j] # <<>>
    <2> HIDE DEF T
    <2> QED
      BY <1>3
  <1>5. \A f : f = G(f) <=> IsWorkers(f, I, m)
    <2> SUFFICES ASSUME NEW f PROVE f = G(f) <=> IsWorkers(f, I, m)
      OBVIOUS
    <2>1. \A j \in 1..(m + 1) : ~(j > m) => I[j] = Interval(j)
      <3> TAKE j \in 1..(m + 1)
      <3> HAVE ~(j > m)
      <3>1. j \in 1..m
        BY <1>0
      <3> QED
        BY <1>4, <3>1
    <2> HIDE DEF I
    <2> DEFINE H == [j \in 1..(m + 1) |->
                  IF j > m THEN <<>> ELSE IF I[j] = <<>> THEN f[j + 1] ELSE <<I[j]>> \o f[j + 1]]
    <2>2. G(f) = H
      BY <2>1, Zenon
    <2> HIDE DEF G
    <2> QED
      BY <2>2, Zenon DEF IsWorkers
  <1> HIDE DEF G
  <1>6. \E f : IsWorkers(f, I, m)
    <2> DEFINE h == [j \in 1..m |-> <<I[j]>>]
    <2>1. h \in [1..m -> Seq(T)]
      <3> HIDE DEF I, T
      <3> QED
        BY <1>4
    <2>2. \A j \in 1..m : h[j] = <<I[j]>>
      OBVIOUS
    <2> HIDE DEF h, I, T
    <2>3. PICK f \in [1..(m + 1) -> Seq(T)] : IsJoin(f, h, m)
      BY <1>0, <2>1, JoinExists
    <2>4. \A j \in 1..(m + 1) :
            (IF j > m THEN <<>> ELSE h[j] \o f[j + 1])
              = IF j > m THEN <<>> ELSE IF I[j] = <<>> THEN f[j + 1] ELSE <<I[j]>> \o f[j + 1]
      <3> TAKE j \in 1..(m + 1)
      <3>1. ~(j > m) => j \in 1..m
        BY <1>0
      <3> QED
        BY <1>4, <2>2, <3>1, Zenon
    <2>5. IsWorkers(f, I, m)
      BY <2>3, <2>4, Zenon DEF IsJoin, IsWorkers
    <2> QED
      BY <2>5
  <1>7. workers = G(workers)
    BY <1>5, <1>6
  <1> HIDE DEF workers, I, T
  <1>8. Lists(workers[1], I, m, T)
    <2>1. IsWorkers(workers, I, m)
      BY <1>5, <1>7, Zenon
    <2>2. \A j \in 1..m : I[j] # <<>>
      BY <1>4, Zenon
    <2>3. I \in [1..m -> T]
      BY <1>4, Zenon
    <2> QED
      BY <1>0, <2>1, <2>2, <2>3, WorkersAre, Zenon
  <1> QED
    BY <1>1, <1>2, <1>4, <1>8, Zenon DEF Lists, T, m
------------------------------------------------------------------------------
(* A row on stdout; what makes one follow another inside a worker, and at   *)
(* the end of a worker's interval.                                         *)
OutRow == [worker : Nat, source_index : Nat, start : Nat, end_exclusive : Nat, length : Nat]

SameWorker(px, r, q) ==
    /\ To(px, r) = From(px, q)
    /\ q.worker = r.worker /\ r.source_index < q.source_index

NextWorker(px, ends, r, q) ==
    /\ To(px, r) = From(px, q)
    /\ q.worker = r.worker + 1
    /\ \E i \in 1..(Len(ends) - 1) : To(px, r) = ends[i]

(* The rows of one worker, and of the workers from w on. *)
IsBlock(b, px, n, w, a, e) ==
    /\ b \in Seq(OutRow) /\ Len(b) > 0
    /\ From(px, b[1]) = a /\ To(px, b[Len(b)]) = e
    /\ \A j \in 1..Len(b) : InSource(px, n, b[j]) /\ b[j].worker = w - 1
    /\ \A j \in 1..(Len(b) - 1) : SameWorker(px, b[j], b[j + 1])

RowsTile(rs, px, n, ends, w) ==
    /\ rs \in Seq(OutRow) /\ Len(rs) > 0
    /\ From(px, rs[1]) = Begin(ends, w) /\ To(px, rs[Len(rs)]) = ends[Len(ends)]
    /\ rs[1].worker = w - 1 /\ rs[Len(rs)].worker = Len(ends) - 1
    /\ \A j \in 1..Len(rs) : InSource(px, n, rs[j])
    /\ \A j \in 1..(Len(rs) - 1) :
          SameWorker(px, rs[j], rs[j + 1]) \/ NextWorker(px, ends, rs[j], rs[j + 1])

(* A worker's rows are the pieces of its interval. *)
LEMMA BlockIs ==
    ASSUME NEW px, NEW n, NEW w \in Nat, w > 0, NEW rs, NEW a, NEW e, Tiling(rs, px, n, 1, a, e)
    PROVE  IsBlock([j \in 1..Len(rs) |-> Row(w - 1, rs[j])], px, n, w, a, e)
  <1> DEFINE b == [j \in 1..Len(rs) |-> Row(w - 1, rs[j])]
  <1>1. rs \in Seq(Piece) /\ Len(rs) \in Nat /\ Len(rs) > 0
    BY DEF Tiling
  <1>2. ASSUME NEW j \in 1..Len(rs)
        PROVE  /\ Row(w - 1, rs[j]) \in OutRow /\ Row(w - 1, rs[j]).worker = w - 1
               /\ Row(w - 1, rs[j]).source_index = rs[j].source_index
               /\ Row(w - 1, rs[j]).start = rs[j].start
               /\ Row(w - 1, rs[j]).end_exclusive = rs[j].end_exclusive
               /\ Row(w - 1, rs[j]).length = rs[j].length
    <2>1. rs[j] \in Piece
      BY <1>1, ElementOfSeq
    <2>2. w - 1 \in Nat
      OBVIOUS
    <2> QED
      BY <2>1, <2>2 DEF Row, Piece, OutRow
  <1>3. b \in Seq(OutRow) /\ Len(b) = Len(rs) /\ \A j \in 1..Len(rs) : b[j] = Row(w - 1, rs[j])
    <2> HIDE DEF Tiling, Row
    <2> QED
      BY <1>1, <1>2
  <1> HIDE DEF b
  <1>4. ASSUME NEW j \in 1..Len(rs)
        PROVE  /\ From(px, b[j]) = From(px, rs[j]) /\ To(px, b[j]) = To(px, rs[j])
               /\ InSource(px, n, b[j]) /\ b[j].worker = w - 1
               /\ b[j].source_index = rs[j].source_index
    <2>1. b[j] = Row(w - 1, rs[j])
      BY <1>3
    <2>2. From(px, b[j]) = From(px, rs[j]) /\ To(px, b[j]) = To(px, rs[j])
      BY <1>2, <2>1 DEF From, To
    <2>3. InSource(px, n, rs[j])
      BY DEF Tiling
    <2>4. InSource(px, n, b[j])
      BY <1>2, <2>1, <2>2, <2>3 DEF InSource
    <2> QED
      BY <1>2, <2>1, <2>2, <2>4
  <1>5. ASSUME NEW j \in 1..(Len(b) - 1) PROVE SameWorker(px, b[j], b[j + 1])
    <2>1. j \in 1..Len(rs) /\ j + 1 \in 1..Len(rs) /\ j \in 1..(Len(rs) - 1)
      BY <1>1, <1>3
    <2>2. To(px, rs[j]) = From(px, rs[j + 1]) /\ rs[j].source_index < rs[j + 1].source_index
      BY <2>1 DEF Tiling
    <2>3. /\ To(px, b[j]) = To(px, rs[j]) /\ b[j].worker = w - 1
          /\ b[j].source_index = rs[j].source_index
      BY <1>4, <2>1, Zenon
    <2>4. /\ From(px, b[j + 1]) = From(px, rs[j + 1]) /\ b[j + 1].worker = w - 1
          /\ b[j + 1].source_index = rs[j + 1].source_index
      BY <1>4, <2>1, Zenon
    <2> QED
      BY <2>2, <2>3, <2>4, Zenon DEF SameWorker
  <1>6. From(px, b[1]) = a /\ To(px, b[Len(b)]) = e
    <2>1. 1 \in 1..Len(rs) /\ Len(rs) \in 1..Len(rs)
      BY <1>1
    <2>2. From(px, b[1]) = From(px, rs[1]) /\ To(px, b[Len(rs)]) = To(px, rs[Len(rs)])
      BY <1>4, <2>1, Zenon
    <2> QED
      BY <1>3, <2>2 DEF Tiling
  <1>7. Len(b) > 0
    BY <1>1, <1>3
  <1>8. \A j \in 1..Len(b) : InSource(px, n, b[j]) /\ b[j].worker = w - 1
    BY <1>3, <1>4, Zenon
  <1> QED
    BY <1>3, <1>5, <1>6, <1>7, <1>8, Zenon DEF IsBlock, b

(* The last worker's rows. *)
LEMMA LastBlock ==
    ASSUME NEW px, NEW n, NEW ends, Len(ends) \in Nat, NEW b,
           IsBlock(b, px, n, Len(ends), Begin(ends, Len(ends)), ends[Len(ends)])
    PROVE  RowsTile(b, px, n, ends, Len(ends))
  <1>1. b \in Seq(OutRow) /\ Len(b) \in Nat /\ Len(b) > 0
    BY DEF IsBlock
  <1>2. 1 \in 1..Len(b) /\ Len(b) \in 1..Len(b)
    BY <1>1
  <1>3. b[1].worker = Len(ends) - 1 /\ b[Len(b)].worker = Len(ends) - 1
    BY <1>2, Zenon DEF IsBlock
  <1> QED
    BY <1>1, <1>3, Zenon DEF IsBlock, RowsTile

(* A worker's rows before those of the later workers. *)
LEMMA BlockJoins ==
    ASSUME NEW px, NEW n, NEW ends, Len(ends) \in Nat, NEW w \in 1..(Len(ends) - 1),
           NEW b, IsBlock(b, px, n, w, Begin(ends, w), ends[w]),
           NEW rs, RowsTile(rs, px, n, ends, w + 1)
    PROVE  RowsTile(b \o rs, px, n, ends, w)
  <1> DEFINE s == b \o rs
             m == Len(b)
             q == Len(rs)
  <1>1. b \in Seq(OutRow) /\ rs \in Seq(OutRow) /\ m \in Nat /\ q \in Nat /\ m > 0 /\ q > 0
    BY DEF IsBlock, RowsTile
  <1>2. /\ s \in Seq(OutRow) /\ Len(s) = m + q
        /\ \A j \in 1..m : s[j] = b[j]
        /\ \A j \in 1..q : s[m + j] = rs[j]
    <2>1. /\ s \in Seq(OutRow) /\ Len(s) = m + q
          /\ \A j \in 1..(m + q) : s[j] = IF j <= m THEN b[j] ELSE rs[j - m]
      BY <1>1, ConcatProperties
    <2> HIDE DEF s
    <2>2. \A j \in 1..m : s[j] = b[j]
      <3> TAKE j \in 1..m
      <3>1. j \in 1..(m + q) /\ j <= m
        BY <1>1
      <3> QED
        BY <2>1, <3>1
    <2>3. \A j \in 1..q : s[m + j] = rs[j]
      <3> TAKE j \in 1..q
      <3>1. m + j \in 1..(m + q) /\ ~(m + j <= m) /\ (m + j) - m = j
        BY <1>1
      <3> QED
        BY <2>1, <3>1
    <2> QED
      BY <2>1, <2>2, <2>3
  <1> HIDE DEF s, m, q
  <1>3. /\ s[1] = b[1] /\ s[m] = b[m] /\ s[m + 1] = rs[1] /\ s[Len(s)] = rs[q]
    <2>1. 1 \in 1..m /\ m \in 1..m /\ 1 \in 1..q /\ q \in 1..q
      BY <1>1
    <2> QED
      BY <1>2, <2>1, Zenon
  <1>4. ASSUME NEW j \in 1..Len(s) PROVE InSource(px, n, s[j])
    <2>1. CASE j \in 1..m
      BY <1>2, <2>1 DEF IsBlock, m
    <2>2. CASE j \notin 1..m
      <3>1. j - m \in 1..q /\ m + (j - m) = j
        BY <1>1, <1>2, <2>2
      <3>2. s[m + (j - m)] = rs[j - m]
        BY <1>2, <3>1, Zenon
      <3>3. InSource(px, n, rs[j - m])
        BY <3>1, Zenon DEF RowsTile, q
      <3> QED
        BY <3>1, <3>2, <3>3
    <2> QED
      BY <2>1, <2>2
  <1>5. ASSUME NEW j \in 1..(Len(s) - 1)
        PROVE  SameWorker(px, s[j], s[j + 1]) \/ NextWorker(px, ends, s[j], s[j + 1])
    <2>1. CASE j \in 1..(m - 1)
      <3>1. j \in 1..m /\ j + 1 \in 1..m
        BY <1>1, <2>1
      <3>2. s[j] = b[j] /\ s[j + 1] = b[j + 1]
        BY <1>2, <3>1, Zenon
      <3>3. SameWorker(px, b[j], b[j + 1])
        BY <2>1, Zenon DEF IsBlock, m
      <3> QED
        BY <3>2, <3>3, Zenon
    <2>2. CASE j = m
      <3>1. s[j] = b[m] /\ s[j + 1] = rs[1]
        BY <1>3, <2>2
      <3>2. To(px, b[m]) = ends[w] /\ b[m].worker = w - 1
        <4>1. m \in 1..m
          BY <1>1
        <4> QED
          BY <4>1, Zenon DEF IsBlock, m
      <3>3. From(px, rs[1]) = Begin(ends, w + 1) /\ rs[1].worker = (w + 1) - 1
        BY Zenon DEF RowsTile
      <3>4. w + 1 # 1 /\ (w + 1) - 1 = w /\ (w - 1) + 1 = w
        OBVIOUS
      <3>5. Begin(ends, w + 1) = ends[w]
        BY <3>4 DEF Begin
      <3>6. NextWorker(px, ends, b[m], rs[1])
        BY <3>2, <3>3, <3>4, <3>5 DEF NextWorker
      <3> QED
        BY <3>1, <3>6
    <2>3. CASE j \notin 1..m
      <3>1. /\ j - m \in 1..(q - 1) /\ j - m \in 1..q /\ (j - m) + 1 \in 1..q
            /\ m + (j - m) = j /\ m + ((j - m) + 1) = j + 1
        <4>1. j \in Nat /\ j > m /\ j < m + q
          BY <1>1, <1>2, <2>3
        <4> QED
          BY <1>1, <4>1
      <3>2. s[m + (j - m)] = rs[j - m] /\ s[m + ((j - m) + 1)] = rs[(j - m) + 1]
        BY <1>2, <3>1, Zenon
      <3>3. \/ SameWorker(px, rs[j - m], rs[(j - m) + 1])
            \/ NextWorker(px, ends, rs[j - m], rs[(j - m) + 1])
        BY <3>1, Zenon DEF RowsTile, q
      <3>4. s[j] = rs[j - m] /\ s[j + 1] = rs[(j - m) + 1]
        BY <3>1, <3>2
      <3> QED
        BY <3>3, <3>4, Zenon
    <2>4. j \in 1..(m - 1) \/ j = m \/ j \notin 1..m
      BY <1>1
    <2> QED
      BY <2>1, <2>2, <2>3, <2>4
  <1>6. /\ From(px, s[1]) = Begin(ends, w) /\ To(px, s[Len(s)]) = ends[Len(ends)]
        /\ s[1].worker = w - 1 /\ s[Len(s)].worker = Len(ends) - 1
    <2>1. From(px, b[1]) = Begin(ends, w) /\ b[1].worker = w - 1
      <3>1. 1 \in 1..m
        BY <1>1
      <3> QED
        BY <3>1, Zenon DEF IsBlock, m
    <2>2. To(px, rs[q]) = ends[Len(ends)] /\ rs[q].worker = Len(ends) - 1
      BY Zenon DEF RowsTile, q
    <2> QED
      BY <1>3, <2>1, <2>2
  <1>7. Len(s) > 0
    BY <1>1, <1>2
  <1> QED
    BY <1>2, <1>4, <1>5, <1>6, <1>7, Zenon DEF RowsTile, s

(* The rows of all workers tile the logical bytes. *)
LEMMA AllRowsTile ==
    ASSUME NEW px, NEW n, NEW ends, Len(ends) \in Nat, Len(ends) > 0,
           Len(assignments) = Len(ends),
           \A j \in 1..Len(ends) : Tiling(assignments[j], px, n, 1, Begin(ends, j), ends[j])
    PROVE  RowsTile(Rows, px, n, ends, 1)
  <1> DEFINE m == Len(ends)
             block(w) == [j \in 1..Len(assignments[w]) |-> Row(w - 1, assignments[w][j])]
             h == [w \in 1..m |-> block(w)]
             G(f) == [w \in 1..(m + 1) |-> IF w > m THEN <<>> ELSE block(w) \o f[w + 1]]
             rows == CHOOSE f : f = G(f)
             S == {w \in 1..m : RowsTile(rows[w], px, n, ends, w)}
  <1>0. /\ m \in Nat /\ m > 0 /\ m \in 1..m /\ ~(m > m) /\ m + 1 > m /\ m \in 1..(m + 1)
        /\ m + 1 \in 1..(m + 1) /\ 1 \in 1..m
    OBVIOUS
  <1>1. Rows = rows[1]
    BY DEF Rows
  <1> HIDE DEF m
  <1>2. ASSUME NEW w \in 1..m
        PROVE  IsBlock(block(w), px, n, w, Begin(ends, w), ends[w])
    <2>1. w \in Nat /\ w > 0
      BY <1>0
    <2>2. Tiling(assignments[w], px, n, 1, Begin(ends, w), ends[w])
      BY DEF m
    <2> QED
      BY <2>1, <2>2, BlockIs
  <1> HIDE DEF block
  <1>3. \E f : f = G(f)
    <2>1. \A w \in 1..m : block(w) \in Seq(OutRow)
      BY <1>2 DEF IsBlock
    <2>2. h \in [1..m -> Seq(OutRow)] /\ \A w \in 1..m : h[w] = block(w)
      BY <2>1, Zenon
    <2> HIDE DEF h
    <2>3. PICK f \in [1..(m + 1) -> Seq(OutRow)] : IsJoin(f, h, m)
      BY <1>0, <2>2, JoinExists
    <2>4. \A w \in 1..(m + 1) :
            (IF w > m THEN <<>> ELSE h[w] \o f[w + 1])
              = IF w > m THEN <<>> ELSE block(w) \o f[w + 1]
      <3> TAKE w \in 1..(m + 1)
      <3>1. ~(w > m) => w \in 1..m
        BY <1>0
      <3> QED
        BY <2>2, <3>1, Zenon
    <2>5. f = G(f)
      BY <2>3, <2>4, Zenon DEF IsJoin
    <2> QED
      BY <2>5
  <1> HIDE DEF G
  <1>4. rows = G(rows)
    BY <1>3
  <1> HIDE DEF rows
  <1>5. \A w \in 1..(m + 1) : rows[w] = IF w > m THEN <<>> ELSE block(w) \o rows[w + 1]
    BY <1>4, Zenon DEF G
  <1>6. m \in S
    <2>1. rows[m] = block(m) \o <<>>
      BY <1>0, <1>5, Zenon
    <2>2. IsBlock(block(m), px, n, m, Begin(ends, m), ends[m])
      BY <1>0, <1>2
    <2>3. block(m) \in Seq(OutRow)
      BY <2>2 DEF IsBlock
    <2>4. rows[m] = block(m)
      BY <2>1, <2>3, ConcatEmptySeq
    <2>5. RowsTile(block(m), px, n, ends, m)
      BY <2>2, LastBlock DEF m
    <2> QED
      BY <1>0, <2>4, <2>5
  <1>7. ASSUME NEW w \in 1..(m - 1), w + 1 \in S PROVE w \in S
    <2>1. w \in 1..m /\ w \in 1..(m + 1) /\ ~(w > m)
      BY <1>0
    <2>2. rows[w] = block(w) \o rows[w + 1]
      BY <1>5, <2>1, Zenon
    <2>3. IsBlock(block(w), px, n, w, Begin(ends, w), ends[w])
      BY <1>2, <2>1
    <2>4. RowsTile(rows[w + 1], px, n, ends, w + 1)
      BY <1>7
    <2>5. RowsTile(block(w) \o rows[w + 1], px, n, ends, w)
      BY <2>3, <2>4, BlockJoins DEF m
    <2> QED
      BY <2>1, <2>2, <2>5
  <1>8. \A w \in 1..m : w \in S
    <2>1. S \in SUBSET (1..m)
      OBVIOUS
    <2> HIDE DEF S
    <2> QED
      BY <1>0, <1>6, <1>7, <2>1, DownToOne
  <1>9. RowsTile(rows[1], px, n, ends, 1)
    BY <1>0, <1>8
  <1> QED
    BY <1>1, <1>9
------------------------------------------------------------------------------
(* Once the ranges are assembled: what the rows are written from.          *)
AssignInv ==
    /\ pc \notin {"write", "done"} => assignments = <<>>
    /\ pc # "done" => outcome = "none"
    /\ pc = "write" \/ outcome = "ok" =>
          /\ Len(prefixes) = Len(fs) + 1
          /\ assignments = IF Total = 0 THEN <<>> ELSE Assignments
    /\ outcome = "ok" => pc = "done" /\ output = Rows

(* A step that leaves the assignments to a later one. *)
LEMMA AssignLater ==
    ASSUME AssignInv, pc \notin {"write", "done"}, pc' \notin {"write", "done"},
           UNCHANGED report
    PROVE  AssignInv'
  BY DEF AssignInv, report

(* A failure has no rows to answer for. *)
LEMMA AssignFail ==
    ASSUME AssignInv, Fail
    PROVE  AssignInv'
  BY DEF AssignInv, Fail

LEMMA AssignInit ==
    ASSUME Init
    PROVE  AssignInv
  <1>1. pc \in {"map", "stat"} /\ assignments = <<>> /\ outcome = "none"
    BY DEF Init
  <1> QED
    BY <1>1 DEF AssignInv

(* Without a byte there is nothing to assign. *)
LEMMA AssignEnter ==
    ASSUME AssignInv, pc \in {"map", "stat"}, Len(prefixes) = Len(fs) + 1,
           pc' = (IF Total = 0 THEN "write" ELSE "loop"), UNCHANGED <<env, prefixes, report>>
    PROVE  AssignInv'
  <1>1. /\ fs' = fs /\ prefixes' = prefixes /\ assignments' = assignments
        /\ outcome' = outcome
    BY DEF env, report
  <1>2. Total' = Total
    BY <1>1 DEF Total
  <1>3. assignments = <<>> /\ outcome = "none"
    BY DEF AssignInv
  <1>4. CASE Total = 0
    BY <1>1, <1>2, <1>3, <1>4 DEF AssignInv
  <1>5. CASE Total # 0
    BY <1>1, <1>3, <1>5 DEF AssignInv
  <1> QED
    BY <1>4, <1>5

LEMMA AssignKeeps ==
    ASSUME LogicalInv, AssignInv, [Next]_vars
    PROVE  AssignInv'
  <1>1. CASE emit_file_partitions
    <2>1. pc = "map" /\ (Fail \/ (pc' = pc /\ UNCHANGED report))
      BY <1>1 DEF emit_file_partitions
    <2> QED
      BY <2>1, AssignLater, AssignFail
  <1>2. CASE AddPrefix
    BY <1>2, AssignLater DEF AddPrefix
  <1>3. CASE plan_logical_partitions
    BY <1>3, AssignEnter DEF plan_logical_partitions
  <1>4. CASE StatPath
    <2>1. pc = "stat" /\ (Fail \/ (pc' = pc /\ UNCHANGED report))
      BY <1>4 DEF StatPath
    <2> QED
      BY <2>1, AssignLater, AssignFail
  <1>5. CASE EnterSourcedLoop
    BY <1>5, AssignEnter DEF EnterSourcedLoop
  <1>6. CASE MappedTarget
    <2>1. pc = "loop" /\ pc' \in {"loop", "assemble"} /\ UNCHANGED report
      BY <1>6 DEF MappedTarget, TakeCut
    <2> QED
      BY <2>1, AssignLater
  <1>7. CASE SourcedTarget
    <2>1. pc = "loop" /\ pc' \in {"loop", "assemble", "boundary", "close"} /\ UNCHANGED report
      BY <1>7 DEF SourcedTarget, TakeCut
    <2> QED
      BY <2>1, AssignLater
  <1>8. CASE CloseCurrent
    BY <1>8, AssignLater DEF CloseCurrent
  <1>9. CASE OpenSource
    <2>1. pc = "open" /\ (Fail \/ (pc' = "boundary" /\ UNCHANGED report))
      BY <1>9 DEF OpenSource
    <2> QED
      BY <2>1, AssignLater, AssignFail
  <1>10. CASE ProbeTarget
    <2>1. pc = "boundary" /\ pc' \in {"loop", "assemble", "scan"} /\ UNCHANGED report
      BY <1>10 DEF ProbeTarget, Reaches, TakeCut
    <2> QED
      BY <2>1, AssignLater
  <1>11. CASE ScanByte
    <2>1. pc = "scan" /\ pc' \in {"loop", "assemble", "scan"} /\ UNCHANGED report
      BY <1>11 DEF ScanByte, Reaches, TakeCut, Advance, ScanUnchanged
    <2> QED
      BY <2>1, AssignLater
  <1>12. CASE ScanPattern
    <2>1. pc = "scan" /\ pc' \in {"loop", "assemble", "scan"} /\ UNCHANGED report
      BY <1>12 DEF ScanPattern, ScanPatternWith, Reaches, TakeCut, Advance, ScanUnchanged
    <2> QED
      BY <2>1, AssignLater
  <1>13. CASE Assemble
    <2>1. /\ pc \in {"loop", "assemble"} /\ pc' = "write" /\ assignments' = Assignments
          /\ fs' = fs /\ prefixes' = prefixes /\ cut_points' = cut_points /\ outcome' = outcome
      BY <1>13 DEF Assemble, env, plan
    <2>2. Len(prefixes) = Len(fs) + 1 /\ Total > 0 /\ Total \in Nat
      BY <2>1, Shape DEF LogicalInv, PrefixInv, Planning
    <2>3. Total' = Total
      BY <2>1 DEF Total
    <2>4. Assignments' = Assignments
      <3>1. fs' = fs /\ prefixes' = prefixes /\ cut_points' = cut_points
        BY <2>1
      <3> QED
        BY <2>3, <3>1 DEF Assignments, ranges_for_interval
    <2>5. outcome = "none"
      BY <2>1 DEF AssignInv
    <2>6. Total # 0
      BY <2>2
    <2> QED
      BY <2>1, <2>2, <2>3, <2>4, <2>5, <2>6 DEF AssignInv
  <1>14. CASE write_assignments
    <2>1. /\ pc = "write" /\ pc' = "done" /\ assignments' = assignments
          /\ (output' = Rows \/ outcome' = "error")
          /\ fs' = fs /\ prefixes' = prefixes /\ cut_points' = cut_points
      BY <1>14 DEF write_assignments, env, plan
    <2>2. Total' = Total
      BY <2>1 DEF Total
    <2>3. Assignments' = Assignments /\ Rows' = Rows
      BY <2>1, <2>2 DEF Assignments, ranges_for_interval, Rows
    <2> QED
      BY <2>1, <2>2, <2>3 DEF AssignInv
  <1>15. CASE ReadFails
    BY <1>15, AssignFail DEF ReadFails
  <1>16. CASE \E k \in Paths, file \in Contents \cup {Missing} : Replace(k, file)
    <2>1. pc \notin {"assemble", "write", "done"} /\ pc' = pc /\ UNCHANGED report
      BY <1>16 DEF Replace
    <2> QED
      BY <2>1, AssignLater
  <1>17. CASE Done \/ UNCHANGED vars
    <2>1. /\ pc' = pc /\ assignments' = assignments /\ output' = output /\ outcome' = outcome
          /\ fs' = fs /\ prefixes' = prefixes /\ cut_points' = cut_points
      BY <1>17 DEF Done, vars
    <2>2. Total' = Total
      BY <2>1 DEF Total
    <2>3. Assignments' = Assignments /\ Rows' = Rows
      BY <2>1, <2>2 DEF Assignments, ranges_for_interval, Rows
    <2> QED
      BY <2>1, <2>2, <2>3 DEF AssignInv
  <1> QED
    BY <1>1, <1>2, <1>3, <1>4, <1>5, <1>6, <1>7, <1>8, <1>9, <1>10, <1>11, <1>12, <1>13,
       <1>14, <1>15, <1>16, <1>17 DEF Next, Plan

LEMMA AssignInvariant == Spec => []AssignInv
  <1>1. Init => AssignInv
    BY AssignInit
  <1>2. LogicalInv /\ AssignInv /\ [Next]_vars => AssignInv'
    BY AssignKeeps
  <1> QED
    BY <1>1, <1>2, LogicalInvariant, PTL DEF Spec
------------------------------------------------------------------------------
(* The cut points and the end of the last source, as interval ends. *)
LEMMA IntervalsAre ==
    ASSUME LogicalInv, Len(prefixes) = Len(fs) + 1, Total > 0,
           NEW ends, ends = Append(cut_points, Total)
    PROVE  /\ IsIntervals(ends) /\ Len(ends) = Len(cut_points) + 1 /\ Len(ends) <= req.parts
           /\ \A i \in 1..(Len(ends) - 1) : ends[i] = cut_points[i] /\ i \in 1..Len(cut_points)
           /\ IsPrefixes(prefixes, Len(fs))
  <1>1. /\ cut_points \in Seq(Nat) /\ Len(cut_points) \in Nat /\ Total \in Nat
        /\ Len(cut_points) < partition /\ partition <= req.parts
        /\ partition \in Nat /\ req.parts \in Nat /\ Len(fs) \in Nat
    BY Shape DEF LogicalInv, CutInv, StageInv, TypeInv
  <1>2. \A j \in 1..Len(cut_points) :
          0 < cut_points[j] /\ cut_points[j] < Total /\ cut_points[j] \in Nat
    BY <1>1 DEF LogicalInv, CutInv
  <1>3. \A i, j \in 1..Len(cut_points) : i < j => cut_points[i] < cut_points[j]
    BY DEF LogicalInv, CutInv
  <1> DEFINE m == Len(cut_points)
  <1>4. /\ ends \in Seq(Nat) /\ Len(ends) = m + 1 /\ ends[m + 1] = Total
        /\ \A j \in 1..m : ends[j] = cut_points[j]
    BY <1>1
  <1> HIDE DEF m
  <1>5. m \in Nat
    BY <1>1 DEF m
  <1>6. ASSUME NEW j \in 1..Len(ends)
        PROVE  Begin(ends, j) \in Nat /\ Begin(ends, j) < ends[j] /\ ends[j] <= Total
    <2>1. j \in 1..(m + 1)
      BY <1>4
    <2>2. CASE j = 1 /\ m = 0
      BY <1>1, <1>4, <2>2 DEF Begin
    <2>3. CASE j = 1 /\ m # 0
      <3>1. 1 \in 1..m
        BY <1>5, <2>3
      <3>2. ends[1] = cut_points[1] /\ 0 < cut_points[1] /\ cut_points[1] < Total /\ cut_points[1] \in Nat
        BY <1>2, <1>4, <3>1 DEF m
      <3> QED
        BY <1>1, <2>3, <3>2 DEF Begin
    <2>4. CASE j # 1
      <3>1. j - 1 \in 1..m /\ Begin(ends, j) = ends[j - 1]
        BY <1>5, <2>1, <2>4 DEF Begin
      <3>2. ends[j - 1] = cut_points[j - 1] /\ cut_points[j - 1] < Total /\ cut_points[j - 1] \in Nat
        BY <1>2, <1>4, <3>1 DEF m
      <3>3. CASE j = m + 1
        BY <1>1, <1>4, <3>1, <3>2, <3>3
      <3>4. CASE j # m + 1
        <4>1. j \in 1..m /\ j - 1 < j
          BY <1>5, <2>1, <3>4
        <4>2. ends[j] = cut_points[j] /\ cut_points[j] < Total /\ cut_points[j] \in Nat
          BY <1>2, <1>4, <4>1 DEF m
        <4>3. cut_points[j - 1] < cut_points[j]
          BY <1>3, <3>1, <4>1 DEF m
        <4> QED
          BY <1>1, <3>1, <3>2, <4>2, <4>3
      <3> QED
        BY <3>3, <3>4
    <2> QED
      BY <2>2, <2>3, <2>4
  <1>7. IsIntervals(ends)
    BY <1>4, <1>5, <1>6 DEF IsIntervals
  <1>8. \A i \in 1..(Len(ends) - 1) : ends[i] = cut_points[i] /\ i \in 1..m
    BY <1>4, <1>5
  <1>9. IsPrefixes(prefixes, Len(fs))
    <2>1. /\ prefixes \in Seq(Nat) /\ prefixes[1] = 0
          /\ \A i, j \in 1..Len(prefixes) : i <= j => prefixes[i] <= prefixes[j]
      BY DEF LogicalInv, PrefixInv
    <2> QED
      BY <1>1, <2>1 DEF IsPrefixes
  <1>10. Len(ends) <= req.parts
    BY <1>1, <1>4 DEF m
  <1> QED
    BY <1>4, <1>7, <1>8, <1>9, <1>10 DEF m

(* A cut strictly inside source k is the end of a record of source k. *)
LEMMA CutInsideSource ==
    ASSUME LogicalInv, Len(prefixes) = Len(fs) + 1, NEW k \in 1..Len(fs), NEW c,
           SoundCut(prefixes, sources, req.delim, c), prefixes[k] < c, c < prefixes[k + 1], c \in Nat
    PROVE  /\ k \in DOMAIN sources /\ Len(sources[k]) = prefixes[k + 1] - prefixes[k]
           /\ EndsRecord(sources[k], req.delim, c - prefixes[k])
  <1>1. /\ Len(fs) \in Nat /\ \A i \in 1..(Len(fs) + 1) : prefixes[i] \in Nat
        /\ \A i, j \in 1..(Len(fs) + 1) : i <= j => prefixes[i] <= prefixes[j]
        /\ DOMAIN prefixes = 1..(Len(fs) + 1)
    BY Shape DEF LogicalInv, PrefixInv
  <1>2. k \in 1..(Len(fs) + 1) /\ k + 1 \in 1..(Len(fs) + 1)
    BY <1>1
  <1>3. ~\E i \in DOMAIN prefixes : prefixes[i] = c
    <2> SUFFICES ASSUME NEW i \in 1..(Len(fs) + 1), prefixes[i] = c PROVE FALSE
      BY <1>1
    <2>1. i <= k \/ k + 1 <= i
      BY <1>1
    <2> QED
      BY <1>1, <1>2, <2>1
  <1>4. PICK m \in DOMAIN sources : \E b \in 0..Len(sources[m]) :
              c = prefixes[m] + b /\ EndsRecord(sources[m], req.delim, b)
    BY <1>3 DEF SoundCut
  <1>5. PICK b \in 0..Len(sources[m]) :
              c = prefixes[m] + b /\ EndsRecord(sources[m], req.delim, b)
    BY <1>4
  <1>6. m \in 1..Len(fs) /\ Len(sources[m]) = prefixes[m + 1] - prefixes[m]
    <2>1. m \in 1..Len(fs)
      BY DEF LogicalInv, SourceInv
    <2>2. m < Len(prefixes)
      BY <1>1, <2>1
    <2> QED
      BY <2>1, <2>2 DEF LogicalInv, SourceInv
  <1>7. m \in 1..(Len(fs) + 1) /\ m + 1 \in 1..(Len(fs) + 1)
    BY <1>1, <1>6
  <1>8. /\ prefixes[m] \in Nat /\ prefixes[m + 1] \in Nat /\ prefixes[k] \in Nat
        /\ prefixes[k + 1] \in Nat
    BY <1>1, <1>2, <1>7, Zenon
  <1>9. b \in Nat /\ c <= prefixes[m + 1]
    BY <1>5, <1>6, <1>8, SMTT(60)
  <1>10. ~(m + 1 <= k)
    <2>1. m + 1 <= k => prefixes[m + 1] <= prefixes[k]
      BY <1>1, <1>2, <1>7, Zenon
    <2> QED
      BY <1>8, <1>9, <2>1
  <1>11. ~(k + 1 <= m)
    <2>1. k + 1 <= m => prefixes[k + 1] <= prefixes[m]
      BY <1>1, <1>2, <1>7, Zenon
    <2> QED
      BY <1>5, <1>8, <1>9, <2>1
  <1>12. m = k
    BY <1>1, <1>6, <1>10, <1>11
  <1>13. b = c - prefixes[k]
    BY <1>5, <1>8, <1>9, <1>12
  <1> QED
    BY <1>5, <1>6, <1>12, <1>13

(* The rows of a plan that succeeded. *)
LEMMA CoverageHolds ==
    ASSUME LogicalInv, AssignInv
    PROVE  LogicalCoverage
  <1> SUFFICES ASSUME outcome = "ok" PROVE LogicalCoverage
    BY DEF LogicalCoverage
  <1>1. /\ Len(prefixes) = Len(fs) + 1 /\ output = Rows
        /\ assignments = IF Total = 0 THEN <<>> ELSE Assignments
    BY DEF AssignInv
  <1>2. Total \in Nat /\ Len(fs) \in Nat /\ req.parts \in Nat
    BY Shape DEF LogicalInv, TypeInv
  <1>3. CASE Total = 0
    <2> DEFINE G(f) == [w \in 1..(Len(assignments) + 1) |->
                          IF w > Len(assignments) THEN <<>>
                          ELSE [j \in 1..Len(assignments[w]) |-> Row(w - 1, assignments[w][j])]
                                 \o f[w + 1]]
               rows == CHOOSE f : f = G(f)
               one == [w \in 1..(Len(assignments) + 1) |-> <<>>]
    <2>1. Rows = rows[1]
      BY DEF Rows
    <2>2. Len(assignments) = 0
      BY <1>1, <1>3
    <2>3. \A w \in 1..(Len(assignments) + 1) : w > Len(assignments)
      BY <2>2
    <2>4. \A f : G(f) = one
      <3> SUFFICES ASSUME NEW f PROVE G(f) = one
        OBVIOUS
      <3> QED
        BY <2>3, Zenon
    <2>5. one[1] = <<>>
      BY <2>2
    <2> HIDE DEF G, one
    <2>6. rows = G(rows)
      <3>1. \E f : f = G(f)
        BY <2>4
      <3> QED
        BY <3>1
    <2>7. output = <<>>
      BY <1>1, <2>1, <2>4, <2>5, <2>6
    <2>8. /\ Len(output) = 0 /\ \A j \in 1..Len(output) : FALSE
          /\ \A j \in 1..(Len(output) - 1) : FALSE
      BY <2>7
    <2>9. ~(Len(output) > 0)
      BY <2>8
    <2> QED
      BY <1>3, <2>8, <2>9, Zenon DEF LogicalCoverage
  <1>4. CASE Total # 0
    <2> DEFINE ends == Append(cut_points, Total)
               n == Len(output)
    <2>1. Total > 0
      BY <1>2, <1>4
    <2>2. /\ IsIntervals(ends) /\ Len(ends) = Len(cut_points) + 1 /\ Len(ends) <= req.parts
          /\ \A i \in 1..(Len(ends) - 1) : ends[i] = cut_points[i] /\ i \in 1..Len(cut_points)
          /\ IsPrefixes(prefixes, Len(fs))
      BY <1>1, <2>1, IntervalsAre
    <2> HIDE DEF ends
    <2>3. /\ Len(assignments) = Len(ends)
          /\ \A j \in 1..Len(ends) :
               Tiling(assignments[j], prefixes, Len(fs), 1, Begin(ends, j), ends[j])
      BY <1>1, <1>4, <2>2, AssignmentsTile DEF ends
    <2>4. Len(ends) \in Nat /\ Len(ends) > 0 /\ ends[Len(ends)] = Total
      BY <2>2 DEF IsIntervals
    <2>5. RowsTile(output, prefixes, Len(fs), ends, 1)
      BY <1>1, <2>3, <2>4, AllRowsTile
    <2>6. output \in Seq(OutRow) /\ n \in Nat /\ n > 0 /\ n # 0
      BY <2>5 DEF RowsTile
    <2>7. /\ RowStart(1) = 0 /\ RowEnd(n) = Total
          /\ output[1].worker = 0 /\ output[n].worker < req.parts
      <3>1. /\ From(prefixes, output[1]) = 0 /\ To(prefixes, output[n]) = Total
            /\ output[1].worker = 1 - 1 /\ output[n].worker = Len(ends) - 1
        BY <2>4, <2>5 DEF RowsTile, Begin
      <3> QED
        BY <1>2, <2>2, <2>4, <3>1 DEF RowStart, RowEnd, From, To
    <2>8. ASSUME NEW j \in 1..n
          PROVE  /\ output[j].length = output[j].end_exclusive - output[j].start
                 /\ output[j].length > 0
                 /\ RowEnd(j) <= prefixes[output[j].source_index + 1]
      <3>1. InSource(prefixes, Len(fs), output[j])
        BY <2>5 DEF RowsTile
      <3> QED
        BY <3>1 DEF InSource, RowEnd, To
    <2>9. ASSUME NEW j \in 1..(n - 1)
          PROVE  /\ RowEnd(j) = RowStart(j + 1)
                 /\ output[j + 1].worker - output[j].worker \in 0..1
                 /\ output[j + 1].source_index = output[j].source_index =>
                      /\ output[j + 1].worker # output[j].worker
                      /\ output[j].source_index \in DOMAIN sources
                      /\ Len(sources[output[j].source_index])
                           = prefixes[output[j].source_index + 1] - prefixes[output[j].source_index]
                      /\ EndsRecord(sources[output[j].source_index], req.delim,
                                    output[j].end_exclusive)
      <3> DEFINE r == output[j]
                 q == output[j + 1]
                 k == r.source_index
      <3>1. j \in 1..n /\ j + 1 \in 1..n
        BY <2>6
      <3>2. r \in OutRow /\ q \in OutRow
        BY <2>6, <3>1, ElementOfSeq
      <3>3. InSource(prefixes, Len(fs), r) /\ InSource(prefixes, Len(fs), q)
        BY <2>5, <3>1 DEF RowsTile
      <3>4. SameWorker(prefixes, r, q) \/ NextWorker(prefixes, ends, r, q)
        BY <2>5 DEF RowsTile
      <3>5. RowEnd(j) = To(prefixes, r) /\ RowStart(j + 1) = From(prefixes, q)
        BY DEF RowEnd, RowStart, To, From
      <3> HIDE DEF r, q, n
      <3>6. r.worker \in Nat /\ q.worker \in Nat /\ r.source_index \in Nat /\ q.source_index \in Nat
        BY <3>2 DEF OutRow
      <3>7. CASE SameWorker(prefixes, r, q)
        <4>1. To(prefixes, r) = From(prefixes, q) /\ q.worker = r.worker
              /\ r.source_index < q.source_index
          BY <3>7 DEF SameWorker
        <4>2. q.worker - r.worker \in 0..1 /\ q.source_index # r.source_index
          BY <3>6, <4>1
        <4> QED
          BY <3>5, <4>1, <4>2 DEF r, q
      <3>8. CASE NextWorker(prefixes, ends, r, q)
        <4>1. To(prefixes, r) = From(prefixes, q) /\ q.worker = r.worker + 1
          BY <3>8 DEF NextWorker
        <4>2. q.worker - r.worker \in 0..1 /\ q.worker # r.worker
          BY <3>6, <4>1
        <4>3. ASSUME q.source_index = k
              PROVE  /\ k \in DOMAIN sources
                     /\ Len(sources[k]) = prefixes[k + 1] - prefixes[k]
                     /\ EndsRecord(sources[k], req.delim, r.end_exclusive)
          <5> DEFINE c == To(prefixes, r)
          <5>1. PICK i \in 1..(Len(ends) - 1) : c = ends[i]
            BY <3>8 DEF NextWorker
          <5>2. i \in 1..Len(cut_points) /\ c = cut_points[i]
            BY <2>2, <5>1
          <5>3. SoundCut(prefixes, sources, req.delim, c)
            BY <5>2 DEF LogicalInv, CutInv
          <5>4. /\ k \in 1..Len(fs) /\ r.start \in Nat /\ r.end_exclusive \in Nat
                /\ r.end_exclusive - r.start > 0 /\ c = prefixes[k] + r.end_exclusive
            BY <3>3 DEF InSource, To
          <5>5. /\ q.end_exclusive - q.start > 0 /\ q.start \in Nat /\ q.end_exclusive \in Nat
                /\ prefixes[k] + q.end_exclusive <= prefixes[k + 1]
                /\ From(prefixes, q) = prefixes[k] + q.start
            BY <3>3, <4>3 DEF InSource, To, From
          <5> HIDE DEF k, c
          <5>6. prefixes[k] \in Nat /\ prefixes[k + 1] \in Nat
            <6>1. k \in 1..Len(prefixes) /\ k + 1 \in 1..Len(prefixes)
              BY <1>1, <1>2, <5>4
            <6> QED
              BY <6>1, Shape
          <5>7. c = prefixes[k] + q.start
            BY <4>1, <5>5 DEF c
          <5>8. c \in Nat /\ prefixes[k] < c /\ c < prefixes[k + 1] /\ c - prefixes[k] = r.end_exclusive
            <6>1. \A p, u, v, x, y, z, b \in Nat :
                    /\ v - u > 0 /\ z - y > 0 /\ p + z <= b /\ x = p + v /\ x = p + y
                    => p < x /\ x < b /\ x - p = v
              OBVIOUS
            <6>2. c \in Nat
              BY <5>4, <5>6, SMTT(60)
            <6> QED
              BY <5>4, <5>5, <5>6, <5>7, <6>1, <6>2, ZenonT(60)
          <5> QED
            BY <1>1, <5>3, <5>4, <5>8, CutInsideSource
        <4> QED
          BY <3>5, <4>1, <4>2, <4>3 DEF r, q, k
      <3> QED
        BY <3>4, <3>7, <3>8
    <2> QED
      BY <1>4, <2>6, <2>7, <2>8, <2>9, Zenon DEF LogicalCoverage
  <1> QED
    BY <1>3, <1>4

(* The rows of a plan that succeeded tile the logical bytes, each in its   *)
(* source; workers are numbered without gaps, at most as many as asked     *)
(* for; and two of them share a source only where it ends a record.        *)
THEOREM PlansCover == Spec => []LogicalCoverage
  <1>1. LogicalInv /\ AssignInv => LogicalCoverage
    BY CoverageHolds
  <1> QED
    BY <1>1, LogicalInvariant, AssignInvariant, PTL
------------------------------------------------------------------------------
(* Where a target inside a source moves to, by definition: nowhere if it   *)
(* ends a record, otherwise behind the next delimiter or to the end.       *)
BoundaryAt(data, d, t) ==
    IF EndsRecord(data, d, t) THEN t
    ELSE IF find_first_pattern_from(data, d, t, Len(data)) = NoPosition THEN Len(data)
    ELSE find_first_pattern_from(data, d, t, Len(data)) + Len(d)

(* The first match of a window, and none. *)
LEMMA FirstPatternIs ==
    ASSUME NEW data, NEW d, NEW from \in Nat, NEW upto \in Nat, Len(d) \in Nat
    PROVE  /\ (\A p \in from..(upto - Len(d)) : ~MatchAt(data, d, p)) =>
                 find_first_pattern_from(data, d, from, upto) = NoPosition
           /\ \A p \in from..(upto - Len(d)) :
                 MatchAt(data, d, p) /\ (\A q \in from..(p - 1) : ~MatchAt(data, d, q)) =>
                    find_first_pattern_from(data, d, from, upto) = p
           /\ find_first_pattern_from(data, d, from, upto) # NoPosition =>
                 /\ find_first_pattern_from(data, d, from, upto) \in from..(upto - Len(d))
                 /\ MatchAt(data, d, find_first_pattern_from(data, d, from, upto))
                 /\ \A q \in from..(find_first_pattern_from(data, d, from, upto) - 1) :
                        ~MatchAt(data, d, q)
           /\ find_first_pattern_from(data, d, from, upto) = NoPosition =>
                 \A p \in from..(upto - Len(d)) : ~MatchAt(data, d, p)
  <1> DEFINE hits == {p \in from..(upto - Len(d)) : MatchAt(data, d, p)}
             x == CHOOSE p \in hits : \A q \in hits : p <= q
             r == find_first_pattern_from(data, d, from, upto)
  <1>1. r = IF hits = {} THEN NoPosition ELSE x
    BY DEF find_first_pattern_from
  <1>2. hits \in SUBSET Nat /\ \A p \in hits : p \in from..(upto - Len(d)) /\ MatchAt(data, d, p)
    OBVIOUS
  <1>3. \A p \in from..(upto - Len(d)) : MatchAt(data, d, p) => p \in hits
    OBVIOUS
  <1> HIDE DEF hits
  <1>4. hits # {} => x \in hits /\ \A q \in hits : x <= q
    <2> SUFFICES ASSUME hits # {} PROVE x \in hits /\ \A q \in hits : x <= q
      OBVIOUS
    <2>1. \E p \in hits : \A q \in hits : p <= q
      BY <1>2, LeastExists
    <2> QED
      BY <2>1
  <1> HIDE DEF x, r
  <1>5. NoPosition \notin Nat
    BY LogicalAssumption
  <1>6. ASSUME \A p \in from..(upto - Len(d)) : ~MatchAt(data, d, p) PROVE r = NoPosition
    BY <1>1, <1>2, <1>6
  <1>7. ASSUME NEW p \in from..(upto - Len(d)), MatchAt(data, d, p),
               \A q \in from..(p - 1) : ~MatchAt(data, d, q)
        PROVE  r = p
    <2>1. p \in hits /\ x \in hits /\ x <= p /\ r = x /\ p \in Nat /\ x \in Nat
      BY <1>1, <1>2, <1>3, <1>4, <1>7
    <2>2. x \in from..(upto - Len(d)) /\ MatchAt(data, d, x)
      BY <1>2, <2>1
    <2>3. ~(x < p)
      BY <1>7, <2>1, <2>2
    <2> QED
      BY <2>1, <2>3
  <1>8. ASSUME r # NoPosition
        PROVE  /\ r \in from..(upto - Len(d)) /\ MatchAt(data, d, r)
               /\ \A q \in from..(r - 1) : ~MatchAt(data, d, q)
    <2>1. r = x /\ x \in hits /\ \A q \in hits : x <= q
      BY <1>1, <1>4, <1>8
    <2>2. x \in from..(upto - Len(d)) /\ MatchAt(data, d, x) /\ x \in Nat
      BY <1>2, <2>1
    <2>3. ASSUME NEW q \in from..(x - 1), MatchAt(data, d, q) PROVE FALSE
      <3>1. q \in from..(upto - Len(d)) /\ q < x /\ q \in Nat
        BY <2>2
      <3>2. x <= q
        BY <1>3, <2>1, <2>3, <3>1
      <3> QED
        BY <2>2, <3>1, <3>2
    <2> QED
      BY <2>1, <2>2, <2>3
  <1>9. ASSUME r = NoPosition, NEW p \in from..(upto - Len(d)), MatchAt(data, d, p) PROVE FALSE
    <2>1. r = x /\ x \in Nat
      BY <1>1, <1>2, <1>3, <1>4, <1>9
    <2> QED
      BY <1>5, <1>9, <2>1
  <1> QED
    BY <1>6, <1>7, <1>8, <1>9 DEF r

(* For one byte, the byte search and the exact test are the pattern ones.  *)
LEMMA ByteIsPattern ==
    ASSUME NEW data \in Seq(Byte), NEW d \in Seq(Byte), Len(d) = 1, NEW from \in Nat,
           NEW upto \in Nat, upto <= Len(data)
    PROVE  position_from(data, d[1], from, upto) = find_first_pattern_from(data, d, from, upto)
  <1>1. \A p \in from..(upto - 1) : data[p + 1] = d[1] <=> MatchAt(data, d, p)
    <2> TAKE p \in from..(upto - 1)
    <2>1. p + 1 <= Len(data) /\ Len(data) \in Nat
      OBVIOUS
    <2>2. \A k \in 1..Len(d) : k = 1
      OBVIOUS
    <2>3. 1 \in 1..Len(d)
      OBVIOUS
    <2> QED
      BY <2>1, <2>2, <2>3 DEF MatchAt
  <1> DEFINE a == {p \in from..(upto - 1) : data[p + 1] = d[1]}
             b == {p \in from..(upto - Len(d)) : MatchAt(data, d, p)}
  <1>2. a = b
    <2>1. a = {p \in from..(upto - 1) : MatchAt(data, d, p)}
      BY <1>1
    <2>2. b = {p \in from..(upto - 1) : MatchAt(data, d, p)}
      OBVIOUS
    <2> QED
      BY <2>1, <2>2
  <1>3. /\ position_from(data, d[1], from, upto)
             = (IF a = {} THEN NoPosition ELSE CHOOSE p \in a : \A q \in a : p <= q)
        /\ find_first_pattern_from(data, d, from, upto)
             = (IF b = {} THEN NoPosition ELSE CHOOSE p \in b : \A q \in b : p <= q)
    BY DEF position_from, find_first_pattern_from
  <1> HIDE DEF a, b
  <1> QED
    BY <1>2, <1>3

LEMMA ByteEndsRecord ==
    ASSUME NEW data \in Seq(Byte), NEW d \in Seq(Byte), Len(d) = 1, NEW t \in Nat
    PROVE  EndsRecord(data, d, t) <=> t >= 1 /\ t <= Len(data) /\ data[t] = d[1]
  <1>1. Len(data) \in Nat /\ \A k \in 1..Len(d) : k = 1
    OBVIOUS
  <1>2. CASE t >= 1
    <2>1. (t - 1) + 1 = t /\ 1 \in 1..Len(d)
      BY <1>2
    <2>2. MatchAt(data, d, t - 1) <=> t <= Len(data) /\ data[t] = d[1]
      BY <1>1, <2>1 DEF MatchAt
    <2> QED
      BY <1>2, <2>2 DEF EndsRecord
  <1>3. CASE ~(t >= 1)
    BY <1>3 DEF EndsRecord
  <1> QED
    BY <1>2, <1>3

(* A target's boundary is not before it, and not after the end. *)
LEMMA BoundaryBounds ==
    ASSUME NEW data \in Seq(Byte), NEW d \in Seq(Byte), Len(d) > 0, NEW t \in 0..Len(data)
    PROVE  BoundaryAt(data, d, t) \in t..Len(data)
  <1> DEFINE r == find_first_pattern_from(data, d, t, Len(data))
  <1>1. Len(data) \in Nat /\ Len(d) \in Nat /\ t \in Nat
    OBVIOUS
  <1>2. r # NoPosition => r \in t..(Len(data) - Len(d))
    BY <1>1, FirstPatternIs
  <1>3. BoundaryAt(data, d, t) = IF EndsRecord(data, d, t) THEN t
                                 ELSE IF r = NoPosition THEN Len(data) ELSE r + Len(d)
    BY DEF BoundaryAt
  <1> HIDE DEF r
  <1> QED
    BY <1>1, <1>2, <1>3

(* A scan that has passed no delimiter since the target finds its boundary. *)
LEMMA ScanFinds ==
    ASSUME NEW data \in Seq(Byte), NEW d \in Seq(Byte), Len(d) > 0, NEW t \in Nat,
           ~EndsRecord(data, d, t), NEW s \in Nat, t <= s,
           \A p \in t..(s - 1) : ~MatchAt(data, d, p), NEW upto \in Nat, upto <= Len(data),
           NEW q, q = find_first_pattern_from(data, d, s, upto)
    PROVE  /\ q # NoPosition => BoundaryAt(data, d, t) = q + Len(d)
           /\ q = NoPosition /\ upto = Len(data) => BoundaryAt(data, d, t) = Len(data)
           /\ q = NoPosition => \A p \in t..(upto - Len(d)) : ~MatchAt(data, d, p)
  <1> DEFINE r == find_first_pattern_from(data, d, t, Len(data))
  <1>1. Len(data) \in Nat /\ Len(d) \in Nat /\ NoPosition \notin Nat
    BY LogicalAssumption
  <1>2. BoundaryAt(data, d, t) = IF r = NoPosition THEN Len(data) ELSE r + Len(d)
    BY DEF BoundaryAt
  <1>3. ASSUME q # NoPosition PROVE BoundaryAt(data, d, t) = q + Len(d)
    <2>1. /\ q \in s..(upto - Len(d)) /\ MatchAt(data, d, q)
          /\ \A p \in s..(q - 1) : ~MatchAt(data, d, p)
      BY <1>1, <1>3, FirstPatternIs
    <2>2. q \in Nat /\ q \in t..(Len(data) - Len(d)) /\ q # NoPosition
      BY <1>1, <2>1
    <2>3. \A p \in t..(q - 1) : ~MatchAt(data, d, p)
      <3> TAKE p \in t..(q - 1)
      <3>1. p \in t..(s - 1) \/ p \in s..(q - 1)
        BY <2>2
      <3> QED
        BY <2>1, <3>1
    <2>4. r = q
      BY <1>1, <2>1, <2>2, <2>3, FirstPatternIs
    <2> QED
      BY <1>2, <2>2, <2>4
  <1>4. ASSUME q = NoPosition, NEW p \in t..(upto - Len(d)) PROVE ~MatchAt(data, d, p)
    <2>1. \A x \in s..(upto - Len(d)) : ~MatchAt(data, d, x)
      BY <1>1, <1>4, FirstPatternIs
    <2>2. p \in t..(s - 1) \/ p \in s..(upto - Len(d))
      BY <1>1
    <2> QED
      BY <2>1, <2>2
  <1>5. ASSUME q = NoPosition, upto = Len(data) PROVE BoundaryAt(data, d, t) = Len(data)
    <2>1. \A p \in t..(Len(data) - Len(d)) : ~MatchAt(data, d, p)
      BY <1>4, <1>5
    <2>2. r = NoPosition
      BY <1>1, <2>1, FirstPatternIs
    <2> QED
      BY <1>2, <2>2
  <1> QED
    BY <1>3, <1>4, <1>5

(* What a search carries over lies at or before the last cut. *)
Quiet(state, p, last) ==
    /\ state.cached_boundary # NoPosition => p + state.cached_boundary <= last
    /\ state.scan_from = 0 \/ p + state.scan_from <= last

(* Then a target beyond the last cut does not meet it. *)
LEMMA QuietSearch ==
    ASSUME NEW state \in State, NEW p \in Nat, NEW last \in Nat, Quiet(state, p, last),
           NEW t \in Nat, last < p + t
    PROVE  /\ ~Cached(state, t) /\ MaxOf(t, state.scan_from) = t
           /\ \A b \in Nat : Quiet(Found(b), p, p + b)
           /\ Quiet(FoundExactly(state, t), p, p + t)
  <1>1. state.scan_from \in Nat /\ (state.cached_boundary # NoPosition => state.cached_boundary \in Nat)
    BY DEF State
  <1>2. ~Cached(state, t)
    BY <1>1 DEF Cached, Quiet
  <1>3. MaxOf(t, state.scan_from) = t
    BY <1>1 DEF MaxOf, Quiet
  <1>4. \A b \in Nat : Quiet(Found(b), p, p + b)
    BY DEF Quiet, Found
  <1>5. Quiet(FoundExactly(state, t), p, p + t)
    BY <1>3 DEF Quiet, FoundExactly
  <1> QED
    BY <1>2, <1>3, <1>4, <1>5

(* So a mapped source has the target's boundary. *)
Projected(data, t, d, state) ==
    IF Len(d) = 1 THEN next_record_boundary(data, t, d[1], state)
    ELSE next_record_boundary_pattern(data, t, d, state)

Projects(r, b, p) == r[1] = b /\ Quiet(r[2], p, p + b)

LEMMA MappedIs ==
    ASSUME NEW data \in Seq(Byte), NEW d \in Seq(Byte), Len(d) > 0, NEW t \in 0..Len(data),
           NEW state \in State, NEW p \in Nat, NEW last \in Nat, Quiet(state, p, last),
           last < p + t
    PROVE  Projects(Projected(data, t, d, state), BoundaryAt(data, d, t), p)
  <1>0. t \in Nat /\ Len(data) \in Nat
    OBVIOUS
  <1>1. /\ ~Cached(state, t) /\ MaxOf(t, state.scan_from) = t
        /\ \A b \in Nat : Quiet(Found(b), p, p + b)
        /\ Quiet(FoundExactly(state, t), p, p + t)
    BY <1>0, QuietSearch
  <1> DEFINE q == find_first_pattern_from(data, d, t, Len(data))
             b == IF q = NoPosition THEN Len(data) ELSE q + Len(d)
             r == Projected(data, t, d, state)
  <1>2. CASE EndsRecord(data, d, t)
    <2>1. r = <<t, FoundExactly(state, t)>>
      <3>1. CASE Len(d) = 1
        <4>1. t >= 1 /\ t <= Len(data) /\ data[t] = d[1]
          BY <1>0, <1>2, <3>1, ByteEndsRecord
        <4> QED
          BY <1>1, <3>1, <4>1 DEF next_record_boundary, Projected
      <3>2. CASE Len(d) # 1
        BY <1>1, <1>2, <3>2 DEF next_record_boundary_pattern, Projected
      <3> QED
        BY <3>1, <3>2
    <2>2. r[1] = t /\ r[2] = FoundExactly(state, t)
      BY <2>1
    <2>3. BoundaryAt(data, d, t) = t
      BY <1>2 DEF BoundaryAt
    <2> QED
      BY <1>1, <2>2, <2>3, Zenon DEF Projects
  <1>3. CASE ~EndsRecord(data, d, t)
    <2>1. r = <<b, Found(b)>>
      <3>1. CASE Len(d) = 1
        <4>1. ~(t >= 1 /\ t <= Len(data) /\ data[t] = d[1])
          BY <1>0, <1>3, <3>1, ByteEndsRecord
        <4>2. position_from(data, d[1], t, Len(data)) = q
          BY <1>0, <3>1, ByteIsPattern
        <4> QED
          BY <1>1, <3>1, <4>1, <4>2 DEF next_record_boundary, Projected
      <3>2. CASE Len(d) # 1
        BY <1>1, <1>3, <3>2 DEF next_record_boundary_pattern, Projected
      <3> QED
        BY <3>1, <3>2
    <2>2. b = BoundaryAt(data, d, t)
      BY <1>3 DEF BoundaryAt
    <2> HIDE DEF b
    <2>3. b \in Nat
      BY <1>0, <2>2, BoundaryBounds
    <2>4. r[1] = b /\ r[2] = Found(b)
      BY <2>1
    <2> HIDE DEF r
    <2> QED
      BY <1>1, <2>2, <2>3, <2>4, Zenon DEF Projects, r
  <1> QED
    BY <1>2, <1>3
------------------------------------------------------------------------------
(* The reference's cut for a target, as far as the opened sources tell.    *)
OnBoundary(px, t) == \E k \in DOMAIN px : px[k] = t

KnownAt(px, src, t) == OnBoundary(px, t) \/ At(px, t) \in DOMAIN src

CutAt(px, src, d, t) ==
    IF OnBoundary(px, t) THEN t
    ELSE px[At(px, t)] + BoundaryAt(src[At(px, t)], d, t - px[At(px, t)])

(* f[i][last] is what the reference cuts from target i on, after last.     *)
(* Targets in sources that were never opened are left open: a plan that    *)
(* succeeded skipped them.                                                 *)
RefRow(f, total, c, i) == IF c = total THEN <<>> ELSE <<c>> \o f[i + 1][c]

Reference(f, px, src, d, n, total) ==
    /\ \A last \in 0..total : f[n][last] = <<>>
    /\ \A i \in 1..(n - 1) : \A last \in 0..total :
          (total * i) \div n <= last => f[i][last] = f[i + 1][last]
    /\ \A i \in 1..(n - 1) : \A last \in 0..total :
          ~((total * i) \div n <= last) /\ KnownAt(px, src, (total * i) \div n) =>
             f[i][last] = RefRow(f, total, CutAt(px, src, d, (total * i) \div n), i)

(* The cuts so far, and then those of the reference; the cuts are those of *)
(* the reference.                                                          *)
Pending(px, src, d, n, total, i, last, cuts) ==
    \A f : Reference(f, px, src, d, n, total) =>
        \A s \in Seq(Nat) : f[i][last] = s => f[1][0] = cuts \o s

Settled(px, src, d, n, total, cuts) ==
    \A f : Reference(f, px, src, d, n, total) => f[1][0] = cuts

LEMMA PendingStart ==
    ASSUME NEW px, NEW src, NEW d, NEW n, NEW total
    PROVE  Pending(px, src, d, n, total, 1, 0, <<>>)
  <1> SUFFICES ASSUME NEW f, NEW s \in Seq(Nat), f[1][0] = s PROVE f[1][0] = <<>> \o s
    BY Zenon DEF Pending
  <1>1. <<>> \o s = s
    BY ConcatEmptySeq
  <1> QED
    BY <1>1

LEMMA PendingSkip ==
    ASSUME NEW px, NEW src, NEW d, NEW n, NEW total, NEW i \in 1..(n - 1), NEW last \in 0..total,
           (total * i) \div n <= last, NEW cuts, Pending(px, src, d, n, total, i, last, cuts)
    PROVE  Pending(px, src, d, n, total, i + 1, last, cuts)
  <1> SUFFICES ASSUME NEW f, Reference(f, px, src, d, n, total),
                      NEW s \in Seq(Nat), f[i + 1][last] = s
               PROVE  f[1][0] = cuts \o s
    BY Zenon DEF Pending
  <1>1. f[i][last] = f[i + 1][last]
    BY Zenon DEF Reference
  <1> QED
    BY <1>1, Zenon DEF Pending

LEMMA PendingCut ==
    ASSUME NEW px, NEW src, NEW d, NEW n, NEW total, NEW i \in 1..(n - 1), NEW last \in 0..total,
           ~((total * i) \div n <= last), KnownAt(px, src, (total * i) \div n),
           NEW c \in Nat, c = CutAt(px, src, d, (total * i) \div n), c # total,
           NEW cuts \in Seq(Nat), Pending(px, src, d, n, total, i, last, cuts)
    PROVE  Pending(px, src, d, n, total, i + 1, c, Append(cuts, c))
  <1> SUFFICES ASSUME NEW f, Reference(f, px, src, d, n, total),
                      NEW s \in Seq(Nat), f[i + 1][c] = s
               PROVE  f[1][0] = Append(cuts, c) \o s
    BY Zenon DEF Pending
  <1>1. f[i][last] = RefRow(f, total, c, i)
    BY Zenon DEF Reference
  <1>2. f[i][last] = <<c>> \o s
    BY <1>1, Zenon DEF RefRow
  <1>3. <<c>> \in Seq(Nat)
    OBVIOUS
  <1>4. <<c>> \o s \in Seq(Nat)
    BY <1>3, ConcatProperties
  <1>5. f[1][0] = cuts \o (<<c>> \o s)
    BY <1>2, <1>4, Zenon DEF Pending
  <1>6. (cuts \o <<c>>) \o s = cuts \o (<<c>> \o s)
    BY <1>3, ConcatAssociative
  <1>7. Append(cuts, c) = cuts \o <<c>>
    BY AppendIsConcat
  <1> QED
    BY <1>5, <1>6, <1>7, Zenon

LEMMA PendingEnd ==
    ASSUME NEW px, NEW src, NEW d, NEW n, NEW total, NEW i \in 1..(n - 1), NEW last \in 0..total,
           ~((total * i) \div n <= last), KnownAt(px, src, (total * i) \div n),
           CutAt(px, src, d, (total * i) \div n) = total,
           NEW cuts \in Seq(Nat), Pending(px, src, d, n, total, i, last, cuts)
    PROVE  Settled(px, src, d, n, total, cuts)
  <1> SUFFICES ASSUME NEW f, Reference(f, px, src, d, n, total) PROVE f[1][0] = cuts
    BY Zenon DEF Settled
  <1>1. f[i][last] = RefRow(f, total, total, i)
    BY Zenon DEF Reference
  <1>2. f[i][last] = <<>>
    BY <1>1, Zenon DEF RefRow
  <1>3. <<>> \in Seq(Nat)
    OBVIOUS
  <1>4. f[1][0] = cuts \o <<>>
    BY <1>2, <1>3, Zenon DEF Pending
  <1> QED
    BY <1>4, ConcatEmptySeq

LEMMA PendingDone ==
    ASSUME NEW px, NEW src, NEW d, NEW n, NEW total, NEW last \in 0..total,
           NEW cuts \in Seq(Nat), Pending(px, src, d, n, total, n, last, cuts)
    PROVE  Settled(px, src, d, n, total, cuts)
  <1> SUFFICES ASSUME NEW f, Reference(f, px, src, d, n, total) PROVE f[1][0] = cuts
    BY Zenon DEF Settled
  <1>1. f[n][last] = <<>>
    BY Zenon DEF Reference
  <1>2. <<>> \in Seq(Nat)
    OBVIOUS
  <1>3. f[1][0] = cuts \o <<>>
    BY <1>1, <1>2, Zenon DEF Pending
  <1> QED
    BY <1>3, ConcatEmptySeq

(* Another source is opened: what was known before is still so. *)
LEMMA PendingGrows ==
    ASSUME NEW px, NEW src, NEW more, NEW d, NEW n, NEW total, NEW i, NEW last, NEW cuts,
           \A k \in DOMAIN src : k \in DOMAIN more /\ more[k] = src[k],
           Pending(px, src, d, n, total, i, last, cuts)
    PROVE  Pending(px, more, d, n, total, i, last, cuts)
  <1> SUFFICES ASSUME NEW f, Reference(f, px, more, d, n, total)
               PROVE  Reference(f, px, src, d, n, total)
    BY Zenon DEF Pending
  <1>1. ASSUME NEW t, KnownAt(px, src, t)
        PROVE  KnownAt(px, more, t) /\ CutAt(px, more, d, t) = CutAt(px, src, d, t)
    <2>1. CASE OnBoundary(px, t)
      BY <2>1, Zenon DEF KnownAt, CutAt
    <2>2. CASE ~OnBoundary(px, t)
      <3>1. At(px, t) \in DOMAIN src
        BY <1>1, <2>2 DEF KnownAt
      <3>2. At(px, t) \in DOMAIN more /\ more[At(px, t)] = src[At(px, t)]
        BY <3>1, Zenon
      <3> QED
        BY <2>2, <3>2, Zenon DEF KnownAt, CutAt
    <2> QED
      BY <2>1, <2>2
  <1>2. ASSUME NEW j \in 1..(n - 1), NEW x \in 0..total, ~((total * j) \div n <= x),
               KnownAt(px, src, (total * j) \div n)
        PROVE  f[j][x] = RefRow(f, total, CutAt(px, src, d, (total * j) \div n), j)
    <2> DEFINE t == (total * j) \div n
    <2>1. KnownAt(px, more, t) /\ CutAt(px, more, d, t) = CutAt(px, src, d, t)
      BY <1>1, <1>2, Zenon
    <2>2. f[j][x] = RefRow(f, total, CutAt(px, more, d, t), j)
      BY <1>2, <2>1, Zenon DEF Reference
    <2> QED
      BY <2>1, <2>2, Zenon
  <1> QED
    BY <1>2, Zenon DEF Reference
------------------------------------------------------------------------------
(* Why the carried search state cannot matter, and how far a scan is. *)
QuietInv ==
    /\ pc \in {"map", "stat"} => last_cut = 0
    /\ pc \in Planning => last_cut < Total
    /\ pc \in Inside => target > last_cut
    /\ pc = "loop" /\ req.mode = "mmap" =>
          \A k \in 1..Len(fs) : Quiet(states[k], prefixes[k], last_cut)
    /\ pc \in Planning /\ req.mode = "sourced" /\ current # NoSource =>
          Quiet(current.state, prefixes[current.index], last_cut)
    /\ pc = "scan" =>
          /\ LocalTarget <= offset /\ ~EndsRecord(Data, req.delim, LocalTarget)
          /\ \A p \in LocalTarget..(offset - 1) : ~MatchAt(Data, req.delim, p)

(* The cuts so far are those of the reference. *)
MatchInv ==
    /\ pc \in Planning =>
          Pending(prefixes, sources, req.delim, effective_parts, Total, partition, last_cut,
                  cut_points)
    /\ pc = "assemble" \/ (Total > 0 /\ (pc = "write" \/ outcome = "ok")) =>
          Settled(prefixes, sources, req.delim, effective_parts, Total, cut_points)

ReferenceInv == QuietInv /\ MatchInv

(* Before the loop there is nothing to compare, and after an error. *)
LEMMA ReferenceOutside ==
    ASSUME pc' \notin Planning, pc' \notin {"assemble", "write"}, outcome' # "ok",
           pc' \in {"map", "stat"} => last_cut' = 0
    PROVE  ReferenceInv'
  BY DEF ReferenceInv, QuietInv, MatchInv, Planning, Inside

LEMMA ReferenceFails ==
    ASSUME Fail
    PROVE  ReferenceInv'
  <1>1. pc' = "done" /\ outcome' = "error"
    BY DEF Fail
  <1> QED
    BY <1>1, ReferenceOutside DEF Planning

(* The loop begins, with fresh search states. *)
LEMMA ReferenceEnters ==
    ASSUME LogicalInv, AssignInv, ReferenceInv, pc \in {"map", "stat"},
           pc' = (IF Total = 0 THEN "write" ELSE "loop"),
           UNCHANGED <<env, prefixes, sources, plan, current, report>>,
           req.mode = "mmap" => states' = [k \in Paths |-> BoundarySearchState]
    PROVE  ReferenceInv'
  <1>1. /\ fs' = fs /\ req' = req /\ prefixes' = prefixes /\ sources' = sources
        /\ partition' = partition /\ last_cut' = last_cut /\ cut_points' = cut_points
        /\ current' = current /\ outcome' = outcome
    BY DEF env, plan, report
  <1>2. Total' = Total /\ effective_parts' = effective_parts /\ Total \in Nat
    BY <1>1, Shape DEF Total, effective_parts
  <1>3. last_cut = 0 /\ partition = 1 /\ cut_points = <<>> /\ outcome = "none"
    BY DEF ReferenceInv, QuietInv, LogicalInv, StageInv, CutInv, AssignInv
  <1>4. req.mode = "sourced" => current = NoSource
    BY DEF LogicalInv, SourcedInv, MmapInv, TypeInv, Planning
  <1>5. CASE Total = 0
    <2>1. pc' = "write" /\ ~(Total' > 0)
      BY <1>2, <1>5
    <2>2. MatchInv'
      BY <2>1 DEF MatchInv, Planning
    <2>3. QuietInv'
      BY <2>1 DEF QuietInv, Planning, Inside
    <2> QED
      BY <2>2, <2>3 DEF ReferenceInv
  <1>6. CASE Total # 0
    <2>1. pc' = "loop" /\ last_cut' < Total'
      BY <1>1, <1>2, <1>3, <1>6
    <2>2. req.mode = "mmap" => \A k \in 1..Len(fs) : Quiet(states'[k], prefixes[k], last_cut)
      BY DEF Paths, Quiet, BoundarySearchState
    <2>3. QuietInv'
      BY <1>1, <1>4, <2>1, <2>2 DEF QuietInv, Planning, Inside
    <2>4. Pending(prefixes, sources, req.delim, effective_parts, Total, partition, last_cut,
                  cut_points)
      BY <1>3, PendingStart
    <2>5. MatchInv'
      BY <1>1, <1>2, <1>3, <2>1, <2>4 DEF MatchInv
    <2> QED
      BY <2>3, <2>5 DEF ReferenceInv
  <1> QED
    BY <1>5, <1>6

(* The numbers of the loop. *)
LEMMA LoopShape ==
    ASSUME LogicalInv, ReferenceInv, pc \in Planning, partition < effective_parts
    PROVE  /\ Total \in Nat /\ Total > 0 /\ effective_parts \in Nat
           /\ partition \in 1..(effective_parts - 1)
           /\ last_cut \in 0..Total /\ cut_points \in Seq(Nat)
           /\ IdealLogicalTarget = (Total * partition) \div effective_parts
           /\ IdealLogicalTarget \in Nat /\ IdealLogicalTarget < Total
           /\ Pending(prefixes, sources, req.delim, effective_parts, Total, partition, last_cut,
                      cut_points)
  <1>1. /\ Total \in Nat /\ effective_parts \in Nat /\ partition \in Nat \ {0} /\ Total > 0
        /\ effective_parts > 0
    BY Shape DEF LogicalInv, TypeInv, PrefixInv
  <1>2. last_cut \in Nat /\ cut_points \in Seq(Nat) /\ last_cut < Total
    BY DEF LogicalInv, CutInv, ReferenceInv, QuietInv
  <1>3. IdealLogicalTarget = (Total * partition) \div effective_parts
    BY DEF IdealLogicalTarget
  <1>4. IdealLogicalTarget \in 0..(Total - 1)
    BY <1>1, <1>3, TargetInside
  <1>5. Pending(prefixes, sources, req.delim, effective_parts, Total, partition, last_cut,
                cut_points)
    BY DEF ReferenceInv, MatchInv
  <1> QED
    BY <1>1, <1>2, <1>3, <1>4, <1>5

(* A target at or before the last cut is skipped by the reference, too.    *)
LEMMA MatchSkips ==
    ASSUME LogicalInv, AssignInv, ReferenceInv, pc = "loop", pc' = "loop",
           partition < effective_parts, IdealLogicalTarget <= last_cut,
           partition' = partition + 1, UNCHANGED <<last_cut, cut_points>>,
           UNCHANGED <<env, prefixes, sources, report>>
    PROVE  MatchInv'
  <1>1. /\ req' = req /\ prefixes' = prefixes /\ sources' = sources /\ outcome' = outcome
        /\ last_cut' = last_cut /\ cut_points' = cut_points
    BY DEF env, report
  <1>2. Total' = Total /\ effective_parts' = effective_parts /\ outcome = "none"
    BY <1>1 DEF Total, effective_parts, AssignInv
  <1>3. Pending(prefixes, sources, req.delim, effective_parts, Total, partition + 1, last_cut,
                cut_points)
    BY LoopShape, PendingSkip DEF Planning
  <1> QED
    BY <1>1, <1>2, <1>3 DEF MatchInv

(* The planner takes the reference's cut. *)
LEMMA MatchCuts ==
    ASSUME LogicalInv, AssignInv, ReferenceInv, pc \in {"loop", "boundary", "scan"},
           partition < effective_parts, NEW t, t = IdealLogicalTarget, t > last_cut,
           KnownAt(prefixes, sources, t), NEW c \in Nat, c = CutAt(prefixes, sources, req.delim, t),
           c >= t, c <= Total, TakeCut(c), UNCHANGED <<env, prefixes, sources, report>>
    PROVE  /\ MatchInv' /\ pc' \in {"loop", "assemble"}
           /\ pc' = "loop" => last_cut' = c /\ last_cut' < Total
  <1>1. /\ req' = req /\ prefixes' = prefixes /\ sources' = sources /\ outcome' = outcome
    BY DEF env, report
  <1>2. Total' = Total /\ effective_parts' = effective_parts /\ outcome = "none"
    BY <1>1 DEF Total, effective_parts, AssignInv
  <1>3. /\ Total \in Nat /\ effective_parts \in Nat /\ partition \in 1..(effective_parts - 1)
        /\ last_cut \in 0..Total /\ cut_points \in Seq(Nat)
        /\ t = (Total * partition) \div effective_parts /\ t \in Nat /\ t < Total
        /\ Pending(prefixes, sources, req.delim, effective_parts, Total, partition, last_cut,
                   cut_points)
    BY LoopShape DEF Planning
  <1>4. c > last_cut /\ ~(t <= last_cut)
    BY <1>3
  <1>5. CASE c = Total
    <2>1. pc' = "assemble" /\ cut_points' = cut_points
      BY <1>4, <1>5 DEF TakeCut
    <2>2. Settled(prefixes, sources, req.delim, effective_parts, Total, cut_points)
      BY <1>3, <1>4, <1>5, PendingEnd
    <2> QED
      BY <1>1, <1>2, <2>1, <2>2 DEF MatchInv, Planning
  <1>6. CASE c # Total
    <2>1. /\ pc' = "loop" /\ cut_points' = Append(cut_points, c) /\ last_cut' = c
          /\ partition' = partition + 1 /\ c < Total
      BY <1>3, <1>4, <1>6 DEF TakeCut
    <2>2. Pending(prefixes, sources, req.delim, effective_parts, Total, partition + 1, c,
                  Append(cut_points, c))
      BY <1>3, <1>4, <1>6, PendingCut
    <2> QED
      BY <1>1, <1>2, <2>1, <2>2 DEF MatchInv, Planning
  <1> QED
    BY <1>5, <1>6
------------------------------------------------------------------------------
(* A target on a source boundary is its own cut. *)
LEMMA CutOnBoundary ==
    ASSUME NEW t, IsSourceBoundary(t)
    PROVE  KnownAt(prefixes, sources, t) /\ CutAt(prefixes, sources, req.delim, t) = t
  BY DEF IsSourceBoundary, KnownAt, CutAt, OnBoundary

(* The cut of a target inside an opened source. *)
LEMMA CutInside ==
    ASSUME LogicalInv, pc \in Planning, partition < effective_parts,
           NEW t, t = IdealLogicalTarget, ~IsSourceBoundary(t),
           NEW k, k = SourceOf(t), k \in DOMAIN sources
    PROVE  /\ sources[k] \in Seq(Byte) /\ t - prefixes[k] \in 0..Len(sources[k])
           /\ prefixes[k] \in Nat /\ prefixes[k] + (t - prefixes[k]) = t
           /\ KnownAt(prefixes, sources, t)
           /\ CutAt(prefixes, sources, req.delim, t)
                = prefixes[k] + BoundaryAt(sources[k], req.delim, t - prefixes[k])
           /\ BoundaryAt(sources[k], req.delim, t - prefixes[k]) \in Nat
           /\ CutAt(prefixes, sources, req.delim, t) \in Nat
           /\ CutAt(prefixes, sources, req.delim, t) >= t
           /\ CutAt(prefixes, sources, req.delim, t) <= Total
  <1> DEFINE p == prefixes[k]
             q == prefixes[k + 1]
             l == Len(sources[k])
             b == BoundaryAt(sources[k], req.delim, t - p)
             c == CutAt(prefixes, sources, req.delim, t)
  <1>1. /\ t \in Nat /\ k \in 1..Len(fs) /\ p \in Nat /\ q \in Nat /\ p < t /\ t < q
    BY InsideSource
  <1>2. Len(prefixes) = Len(fs) + 1 /\ Len(fs) \in Nat
    BY Shape DEF LogicalInv, PrefixInv
  <1>3. k < Len(prefixes) /\ k + 1 \in 1..Len(prefixes)
    BY <1>1, <1>2
  <1>4. q <= Total /\ Total \in Nat
    BY <1>3, Shape
  <1>5. sources[k] \in Seq(Byte) /\ l = q - p
    BY <1>3 DEF LogicalInv, SourceInv
  <1>6. req.delim \in Seq(Byte) /\ Len(req.delim) > 0 /\ k = At(prefixes, t)
    BY Shape
  <1>7. l \in Nat /\ t - p \in 0..l /\ p + (t - p) = t
    BY <1>1, <1>5
  <1>8. b \in (t - p)..l
    BY <1>5, <1>6, <1>7, BoundaryBounds
  <1>9. KnownAt(prefixes, sources, t) /\ c = p + b
    BY <1>6 DEF IsSourceBoundary, OnBoundary, KnownAt, CutAt
  <1> HIDE DEF b, c, p, q, l
  <1>10. b \in Nat /\ c \in Nat /\ c >= t /\ c <= Total
    BY <1>1, <1>4, <1>5, <1>7, <1>8, <1>9
  <1> QED
    BY <1>1, <1>5, <1>7, <1>9, <1>10 DEF b, c, p, q, l

(* A carried state stays behind a later cut. *)
LEMMA QuietLater ==
    ASSUME NEW state \in State, NEW p \in Nat, NEW last \in Nat, NEW later \in Nat, last <= later,
           Quiet(state, p, last)
    PROVE  Quiet(state, p, later)
  <1>1. state.scan_from \in Nat /\ (state.cached_boundary # NoPosition => state.cached_boundary \in Nat)
    BY DEF State
  <1> QED
    BY <1>1 DEF Quiet

(* One iteration of the mapped loop. *)
LEMMA MappedMatches ==
    ASSUME LogicalInv, AssignInv, ReferenceInv, MappedTarget
    PROVE  ReferenceInv'
  <1> DEFINE t == IdealLogicalTarget
             k == SourceOf(t)
             local == project_logical_target(t)
  <1>1. /\ req.mode = "mmap" /\ pc = "loop" /\ partition < effective_parts
        /\ UNCHANGED <<env, prefixes, sources, handles, opens, current, search, report>>
    BY DEF MappedTarget
  <1>2. /\ req' = req /\ fs' = fs /\ prefixes' = prefixes /\ sources' = sources
        /\ outcome' = outcome
    BY <1>1 DEF env, report
  <1>3. /\ states \in [1..Len(fs) -> State] /\ Len(opens) = Len(fs)
        /\ \A i \in 1..Len(opens) : opens[i] = i
    BY <1>1 DEF LogicalInv, MmapInv
  <1>4. /\ \A m \in 1..Len(fs) : Quiet(states[m], prefixes[m], last_cut)
        /\ last_cut < Total
    BY <1>1 DEF ReferenceInv, QuietInv, Planning
  <1>5. Total' = Total /\ Total \in Nat /\ last_cut \in Nat /\ Len(fs) \in Nat
    BY <1>2, Shape DEF Total, LogicalInv, CutInv
  <1>6. \A m \in 1..Len(fs) : prefixes[m] \in Nat
    <2>1. Len(prefixes) = Len(fs) + 1
      BY <1>1 DEF LogicalInv, PrefixInv, Planning
    <2> QED
      BY <1>5, <2>1, Shape
  <1>7. ASSUME pc' \in {"loop", "assemble"},
               pc' = "loop" => last_cut' < Total
                               /\ \A m \in 1..Len(fs) : Quiet(states'[m], prefixes[m], last_cut')
        PROVE  QuietInv'
    BY <1>1, <1>2, <1>5, <1>7 DEF QuietInv, Planning, Inside
  <1>8. CASE /\ t <= last_cut /\ partition' = partition + 1
             /\ UNCHANGED <<pc, states, last_cut, cut_points>>
    <2>1. MatchInv'
      BY <1>1, <1>8, MatchSkips
    <2>2. QuietInv'
      BY <1>1, <1>4, <1>7, <1>8
    <2> QED
      BY <2>1, <2>2 DEF ReferenceInv
  <1>9. CASE t > last_cut /\ IsSourceBoundary(t) /\ TakeCut(t) /\ UNCHANGED states
    <2>1. t \in Nat /\ t <= Total
      BY <1>9, BoundaryIsSound
    <2>2. KnownAt(prefixes, sources, t) /\ t = CutAt(prefixes, sources, req.delim, t)
      BY <1>9, CutOnBoundary
    <2>3. t >= t
      BY <2>1
    <2>4. /\ MatchInv' /\ pc' \in {"loop", "assemble"}
          /\ pc' = "loop" => last_cut' = t /\ last_cut' < Total
      <3>1. t = IdealLogicalTarget
        OBVIOUS
      <3> HIDE DEF t
      <3> QED
        BY <1>1, <1>9, <2>1, <2>2, <2>3, <3>1, MatchCuts
    <2> HIDE DEF t
    <2>5. ASSUME NEW m \in 1..Len(fs), pc' = "loop" PROVE Quiet(states'[m], prefixes[m], last_cut')
      <3>1. states'[m] = states[m] /\ states[m] \in State /\ last_cut' = t /\ last_cut <= t
        BY <1>3, <1>5, <1>9, <2>1, <2>4, <2>5
      <3>2. Quiet(states[m], prefixes[m], last_cut) /\ prefixes[m] \in Nat
        BY <1>4, <1>6
      <3>3. Quiet(states[m], prefixes[m], t)
        BY <1>5, <2>1, <3>1, <3>2, QuietLater
      <3> QED
        BY <3>1, <3>3
    <2>6. QuietInv'
      BY <1>7, <2>4, <2>5
    <2> QED
      BY <2>4, <2>6 DEF ReferenceInv
  <1>10. CASE /\ t > last_cut /\ ~IsSourceBoundary(t)
              /\ TakeCut(prefixes[k] + local[1])
              /\ states' = [states EXCEPT ![k] = local[2]]
    <2> DEFINE lt == t - prefixes[k]
               c == prefixes[k] + local[1]
    <2>1. /\ t \in Nat /\ k \in 1..Len(fs) /\ prefixes[k] \in Nat /\ prefixes[k] < t
      BY <1>1, <1>10, InsideSource DEF Planning
    <2>2. k \in DOMAIN sources
      <3>1. DOMAIN sources = {opens[i] : i \in 1..Len(opens)}
        BY DEF LogicalInv, SourceInv
      <3> QED
        BY <1>3, <2>1, <3>1
    <2>3. /\ sources[k] \in Seq(Byte) /\ lt \in 0..Len(sources[k]) /\ prefixes[k] + lt = t
          /\ KnownAt(prefixes, sources, t)
          /\ CutAt(prefixes, sources, req.delim, t)
               = prefixes[k] + BoundaryAt(sources[k], req.delim, lt)
          /\ BoundaryAt(sources[k], req.delim, lt) \in Nat
          /\ CutAt(prefixes, sources, req.delim, t) \in Nat
          /\ CutAt(prefixes, sources, req.delim, t) >= t
          /\ CutAt(prefixes, sources, req.delim, t) <= Total
      <3>1. t = IdealLogicalTarget /\ k = SourceOf(t) /\ pc \in Planning
        BY <1>1 DEF Planning
      <3> HIDE DEF t, k
      <3> QED
        BY <1>1, <1>10, <2>2, <3>1, CutInside
    <2>4. local = Projected(sources[k], lt, req.delim, states[k])
      BY DEF project_logical_target, Projected
    <2>5. req.delim \in Seq(Byte) /\ Len(req.delim) > 0
      BY Shape
    <2>6. states[k] \in State /\ Quiet(states[k], prefixes[k], last_cut)
      BY <1>3, <1>4, <2>1
    <2>e. t = IdealLogicalTarget
      OBVIOUS
    <2> HIDE DEF t, k, local, lt
    <2>7. /\ local[1] = BoundaryAt(sources[k], req.delim, lt)
          /\ Quiet(local[2], prefixes[k], prefixes[k] + local[1])
      <3> DEFINE b == BoundaryAt(sources[k], req.delim, lt)
      <3>1. last_cut < prefixes[k] + lt
        BY <1>5, <1>10, <2>1, <2>3
      <3>2. sources[k] \in Seq(Byte) /\ lt \in 0..Len(sources[k])
        BY <2>3, Zenon
      <3>3. Projects(Projected(sources[k], lt, req.delim, states[k]), b, prefixes[k])
        BY <1>5, <2>1, <2>5, <2>6, <3>1, <3>2, MappedIs
      <3> HIDE DEF b
      <3>4. Projects(local, b, prefixes[k])
        BY <2>4, <3>3
      <3> QED
        BY <3>4 DEF Projects, b
    <2>8. c \in Nat /\ c = CutAt(prefixes, sources, req.delim, t) /\ c >= t /\ c <= Total
      BY <2>3, <2>7
    <2>9. TakeCut(c)
      BY <1>10
    <2> HIDE DEF c
    <2>10. /\ MatchInv' /\ pc' \in {"loop", "assemble"}
           /\ pc' = "loop" => last_cut' = c /\ last_cut' < Total
      BY <1>1, <1>10, <2>3, <2>8, <2>9, <2>e, MatchCuts
    <2>11. ASSUME NEW m \in 1..Len(fs), pc' = "loop" PROVE Quiet(states'[m], prefixes[m], last_cut')
      <3>1. last_cut' = c /\ last_cut <= c
        BY <1>5, <1>10, <2>1, <2>8, <2>10, <2>11
      <3>2. CASE m = k
        <4>1. states'[m] = local[2]
          BY <1>3, <1>10, <3>2
        <4> QED
          BY <2>7, <3>1, <3>2, <4>1 DEF c
      <3>3. CASE m # k
        <4>1. states'[m] = states[m] /\ states[m] \in State
          BY <1>3, <1>10, <3>3
        <4>2. Quiet(states[m], prefixes[m], last_cut) /\ prefixes[m] \in Nat
          BY <1>4, <1>6
        <4>3. Quiet(states[m], prefixes[m], c)
          BY <1>5, <2>8, <3>1, <4>1, <4>2, QuietLater
        <4> QED
          BY <3>1, <4>1, <4>3
      <3> QED
        BY <3>2, <3>3
    <2>12. QuietInv'
      BY <1>7, <2>10, <2>11
    <2> QED
      BY <2>10, <2>12 DEF ReferenceInv
  <1> QED
    BY <1>8, <1>9, <1>10 DEF MappedTarget

(* Outside the search of a source, a step of the sourced engine keeps what *)
(* the current state says when the last cut has only grown.                *)
LEMMA SourcedQuiet ==
    ASSUME LogicalInv, ReferenceInv, pc \in Planning, req.mode = "sourced",
           pc' \in {"loop", "assemble"}, pc' = "loop" => last_cut' \in Nat /\ last_cut <= last_cut'
                                                      /\ last_cut' < Total,
           UNCHANGED <<env, prefixes, sources, current>>
    PROVE  QuietInv'
  <1>1. /\ req' = req /\ fs' = fs /\ prefixes' = prefixes /\ sources' = sources
        /\ current' = current
    BY DEF env
  <1>2. Total' = Total /\ last_cut \in Nat
    BY <1>1 DEF Total, LogicalInv, CutInv
  <1>3. ASSUME pc' = "loop", current # NoSource
        PROVE  Quiet(current.state, prefixes[current.index], last_cut')
    <2>1. Quiet(current.state, prefixes[current.index], last_cut)
      BY <1>3 DEF ReferenceInv, QuietInv
    <2>2. current.state \in State /\ Len(opens) > 0 /\ opens[Len(opens)] = current.index
      BY <1>3 DEF LogicalInv, SourcedInv
    <2>3. prefixes[current.index] \in Nat
      <3>1. DOMAIN sources = {opens[i] : i \in 1..Len(opens)} /\ Len(opens) \in Nat
        BY DEF LogicalInv, SourceInv
      <3>2. current.index \in DOMAIN sources
        BY <2>2, <3>1
      <3>3. current.index \in 1..Len(fs) /\ Len(prefixes) = Len(fs) + 1 /\ Len(fs) \in Nat
        BY <3>2, Shape DEF LogicalInv, SourceInv, PrefixInv
      <3>4. current.index \in 1..Len(prefixes)
        BY <3>3
      <3> QED
        BY <3>4, Shape
    <2> QED
      BY <1>2, <1>3, <2>1, <2>2, <2>3, QuietLater
  <1> QED
    BY <1>1, <1>2, <1>3 DEF QuietInv, Planning, Inside

(* One iteration of the sourced loop. *)
LEMMA SourcedMatches ==
    ASSUME LogicalInv, AssignInv, ReferenceInv, SourcedTarget
    PROVE  ReferenceInv'
  <1> DEFINE t == IdealLogicalTarget
  <1>1. /\ req.mode = "sourced" /\ pc = "loop" /\ partition < effective_parts
        /\ UNCHANGED <<env, prefixes, held, offset, report>>
    BY DEF SourcedTarget
  <1>2. /\ req' = req /\ fs' = fs /\ prefixes' = prefixes /\ sources' = sources
        /\ outcome' = outcome /\ current' = current
        /\ UNCHANGED <<env, prefixes, sources, report>>
        /\ UNCHANGED <<env, prefixes, sources, current>>
    BY <1>1 DEF env, report, held
  <1>3. /\ Total' = Total /\ effective_parts' = effective_parts /\ Total \in Nat
        /\ last_cut \in Nat /\ last_cut < Total
    BY <1>1, <1>2, Shape
       DEF Total, effective_parts, LogicalInv, CutInv, ReferenceInv, QuietInv, Planning
  <1>4. CASE /\ t <= last_cut /\ partition' = partition + 1
             /\ UNCHANGED <<pc, last_cut, cut_points, target>>
    <2>1. MatchInv'
      BY <1>1, <1>2, <1>4, MatchSkips
    <2>2. QuietInv'
      BY <1>1, <1>2, <1>3, <1>4, SourcedQuiet DEF Planning
    <2> QED
      BY <2>1, <2>2 DEF ReferenceInv
  <1>5. CASE t > last_cut /\ IsSourceBoundary(t) /\ TakeCut(t) /\ UNCHANGED target
    <2>1. t \in Nat /\ t <= Total
      BY <1>5, BoundaryIsSound
    <2>2. KnownAt(prefixes, sources, t) /\ t = CutAt(prefixes, sources, req.delim, t)
      BY <1>5, CutOnBoundary
    <2>3. t >= t
      BY <2>1
    <2>4. /\ MatchInv' /\ pc' \in {"loop", "assemble"}
          /\ pc' = "loop" => last_cut' = t /\ last_cut' < Total
      <3>1. t = IdealLogicalTarget
        OBVIOUS
      <3> HIDE DEF t
      <3> QED
        BY <1>1, <1>2, <1>5, <2>1, <2>2, <2>3, <3>1, MatchCuts
    <2> HIDE DEF t
    <2>5. QuietInv'
      <3>1. pc' = "loop" => last_cut' \in Nat /\ last_cut <= last_cut' /\ last_cut' < Total
        BY <1>3, <1>5, <2>1, <2>4
      <3> QED
        BY <1>1, <1>2, <2>4, <3>1, SourcedQuiet DEF Planning
    <2> QED
      BY <2>4, <2>5 DEF ReferenceInv
  <1>6. CASE /\ t > last_cut /\ ~IsSourceBoundary(t) /\ target' = t
             /\ pc' = (IF current # NoSource /\ current.index = SourceOf(t)
                       THEN "boundary" ELSE "close")
             /\ UNCHANGED <<partition, last_cut, cut_points>>
    <2>1. pc' \in {"boundary", "close"} /\ target' > last_cut'
      BY <1>6
    <2>2. current # NoSource => Quiet(current.state, prefixes[current.index], last_cut)
      BY <1>1 DEF ReferenceInv, QuietInv, Planning
    <2>3. QuietInv'
      BY <1>1, <1>2, <1>3, <1>6, <2>1, <2>2 DEF QuietInv, Planning, Inside
    <2>4. Pending(prefixes, sources, req.delim, effective_parts, Total, partition, last_cut,
                  cut_points)
      BY <1>1 DEF ReferenceInv, MatchInv, Planning
    <2>5. outcome = "none"
      BY <1>1 DEF AssignInv
    <2>6. MatchInv'
      BY <1>2, <1>3, <1>6, <2>1, <2>4, <2>5 DEF MatchInv
    <2> QED
      BY <2>3, <2>6 DEF ReferenceInv
  <1> QED
    BY <1>4, <1>5, <1>6 DEF SourcedTarget
------------------------------------------------------------------------------
(* The current source is closed. *)
LEMMA CloseMatches ==
    ASSUME LogicalInv, AssignInv, ReferenceInv, CloseCurrent
    PROVE  ReferenceInv'
  <1>1. /\ pc = "close" /\ pc' = "open" /\ current' = NoSource
        /\ fs' = fs /\ req' = req /\ prefixes' = prefixes /\ sources' = sources
        /\ partition' = partition /\ last_cut' = last_cut /\ cut_points' = cut_points
        /\ target' = target /\ outcome' = outcome
    BY DEF CloseCurrent, env, plan, search, report
  <1>2. Total' = Total /\ effective_parts' = effective_parts /\ outcome = "none"
    BY <1>1 DEF Total, effective_parts, AssignInv
  <1>3. QuietInv'
    BY <1>1, <1>2 DEF ReferenceInv, QuietInv, Planning, Inside
  <1>4. Pending(prefixes, sources, req.delim, effective_parts, Total, partition, last_cut,
                cut_points)
    BY <1>1 DEF ReferenceInv, MatchInv, Planning
  <1>5. MatchInv'
    BY <1>1, <1>2, <1>4 DEF MatchInv
  <1> QED
    BY <1>3, <1>5 DEF ReferenceInv

(* The next source is opened, with a fresh search state. *)
LEMMA OpenMatches ==
    ASSUME LogicalInv, AssignInv, ReferenceInv, OpenSource
    PROVE  ReferenceInv'
  <1> DEFINE k == SourceOf(target)
  <1>1. CASE Fail
    BY <1>1, ReferenceFails
  <1>2. CASE \E file \in open_sourced(k) :
                /\ sources' = WithSource(k, file)
                /\ handles' = handles \cup {k}
                /\ opens' = Append(opens, k)
                /\ current' = [index |-> k, state |-> BoundarySearchState]
                /\ pc' = "boundary"
                /\ UNCHANGED <<env, prefixes, states, plan, search, report>>
    <2>1. PICK file \in open_sourced(k) :
                /\ sources' = WithSource(k, file)
                /\ current' = [index |-> k, state |-> BoundarySearchState]
                /\ pc' = "boundary"
                /\ UNCHANGED <<env, prefixes, states, plan, search, report>>
      BY <1>2
    <2>2. pc = "open"
      BY DEF OpenSource
    <2>3. /\ fs' = fs /\ req' = req /\ prefixes' = prefixes
          /\ partition' = partition /\ last_cut' = last_cut /\ cut_points' = cut_points
          /\ target' = target /\ outcome' = outcome
      BY <2>1 DEF env, plan, search, report
    <2>4. Total' = Total /\ effective_parts' = effective_parts /\ outcome = "none"
      BY <2>2, <2>3 DEF Total, effective_parts, AssignInv
    <2>5. k \notin DOMAIN sources
      <3>1. req.mode = "sourced"
        BY <2>2 DEF LogicalInv, TypeInv, MmapInv
      <3>2. \A i \in 1..Len(opens) : opens[i] < SourceOf(target)
        BY <2>2, <3>1 DEF LogicalInv, SourcedInv
      <3>3. DOMAIN sources = {opens[i] : i \in 1..Len(opens)} /\ opens \in Seq(Nat)
        BY DEF LogicalInv, SourceInv
      <3>4. \A i \in 1..Len(opens) : opens[i] \in Nat
        BY <3>3
      <3>5. ASSUME k \in DOMAIN sources PROVE FALSE
        <4>1. PICK i \in 1..Len(opens) : opens[i] = k
          BY <3>3, <3>5
        <4> HIDE DEF k
        <4>2. opens[i] < k /\ opens[i] \in Nat
          BY <3>2, <3>4 DEF k
        <4> QED
          BY <4>1, <4>2
      <3> QED
        BY <3>5
    <2> HIDE DEF k
    <2>6. \A m \in DOMAIN sources : m \in DOMAIN sources' /\ sources'[m] = sources[m]
      BY <2>1, <2>5 DEF WithSource
    <2>7. Pending(prefixes, sources, req.delim, effective_parts, Total, partition, last_cut,
                  cut_points)
      BY <2>2 DEF ReferenceInv, MatchInv, Planning
    <2>8. Pending(prefixes, sources', req.delim, effective_parts, Total, partition, last_cut,
                  cut_points)
      BY <2>6, <2>7, PendingGrows
    <2>9. MatchInv'
      BY <2>1, <2>3, <2>4, <2>8 DEF MatchInv
    <2>10. Quiet(current'.state, prefixes'[current'.index], last_cut')
      BY <2>1 DEF Quiet, BoundarySearchState
    <2>11. last_cut < Total /\ target > last_cut
      BY <2>2 DEF ReferenceInv, QuietInv, Planning, Inside
    <2>12. QuietInv'
      BY <2>1, <2>3, <2>4, <2>10, <2>11 DEF QuietInv, Planning, Inside
    <2> QED
      BY <2>9, <2>12 DEF ReferenceInv
  <1> QED
    BY <1>1, <1>2 DEF OpenSource

(* What the search of the open source is about. *)
LEMMA SearchShape ==
    ASSUME LogicalInv, ReferenceInv, pc \in {"boundary", "scan"}
    PROVE  /\ req.mode = "sourced" /\ partition < effective_parts /\ current # NoSource
           /\ current \in [index : Nat, state : State]
           /\ target = IdealLogicalTarget /\ target > last_cut /\ last_cut \in Nat
           /\ Data \in Seq(Byte) /\ LocalTarget \in 0..Len(Data) /\ LocalTarget \in Nat
           /\ prefixes[current.index] \in Nat /\ last_cut < prefixes[current.index] + LocalTarget
           /\ KnownAt(prefixes, sources, target)
           /\ BoundaryAt(Data, req.delim, LocalTarget) \in Nat
           /\ CutAt(prefixes, sources, req.delim, target)
                = prefixes[current.index] + BoundaryAt(Data, req.delim, LocalTarget)
           /\ CutAt(prefixes, sources, req.delim, target) \in Nat
           /\ CutAt(prefixes, sources, req.delim, target) >= target
           /\ CutAt(prefixes, sources, req.delim, target) <= Total
           /\ Quiet(current.state, prefixes[current.index], last_cut)
           /\ req.delim \in Seq(Byte) /\ Len(req.delim) > 0
  <1>1. /\ req.mode = "sourced" /\ partition < effective_parts
        /\ current # NoSource /\ current.index \in DOMAIN sources
        /\ Data \in Seq(Byte) /\ LocalTarget \in Nat
    BY OpenSourceShape
  <1>2. /\ target = IdealLogicalTarget /\ ~IsSourceBoundary(target)
        /\ current.index = SourceOf(target) /\ current \in [index : Nat, state : State]
    BY <1>1 DEF LogicalInv, SourcedInv, Inside, Planning
  <1>3. target > last_cut /\ last_cut \in Nat /\ pc \in Planning
        /\ Quiet(current.state, prefixes[current.index], last_cut)
    BY <1>1 DEF ReferenceInv, QuietInv, Inside, Planning, LogicalInv, CutInv
  <1> DEFINE k == current.index
  <1>4. Data = sources[k] /\ LocalTarget = target - prefixes[k]
    BY DEF Data, LocalTarget
  <1> HIDE DEF k
  <1>5. /\ target - prefixes[k] \in 0..Len(sources[k])
        /\ prefixes[k] \in Nat /\ prefixes[k] + (target - prefixes[k]) = target
        /\ KnownAt(prefixes, sources, target)
        /\ CutAt(prefixes, sources, req.delim, target)
             = prefixes[k] + BoundaryAt(sources[k], req.delim, target - prefixes[k])
        /\ BoundaryAt(sources[k], req.delim, target - prefixes[k]) \in Nat
        /\ CutAt(prefixes, sources, req.delim, target) \in Nat
        /\ CutAt(prefixes, sources, req.delim, target) >= target
        /\ CutAt(prefixes, sources, req.delim, target) <= Total
    <2>1. k = SourceOf(target) /\ k \in DOMAIN sources
      BY <1>1, <1>2 DEF k
    <2> QED
      BY <1>1, <1>2, <1>3, <2>1, CutInside
  <1>6. last_cut < prefixes[k] + (target - prefixes[k])
    BY <1>3, <1>5
  <1> QED
    BY <1>1, <1>2, <1>3, <1>4, <1>5, <1>6, Shape DEF k

(* A search that ends at its target's boundary takes the reference's cut. *)
LEMMA ReachMatches ==
    ASSUME LogicalInv, AssignInv, ReferenceInv, pc \in {"boundary", "scan"},
           NEW b, b = BoundaryAt(Data, req.delim, LocalTarget), NEW state,
           Quiet(state, prefixes[current.index], prefixes[current.index] + b),
           Reaches(b, state), UNCHANGED <<env, prefixes, sources, report>>
    PROVE  ReferenceInv'
  <1> DEFINE k == current.index
             c == prefixes[k] + b
  <1>1. /\ req.mode = "sourced" /\ partition < effective_parts /\ current # NoSource
        /\ current \in [index : Nat, state : State]
        /\ target = IdealLogicalTarget /\ target > last_cut
        /\ KnownAt(prefixes, sources, target)
        /\ c = CutAt(prefixes, sources, req.delim, target)
        /\ c \in Nat /\ c >= target /\ c <= Total
    BY SearchShape
  <1>2. TakeCut(c) /\ current' = [current EXCEPT !.state = state]
    BY DEF Reaches
  <1>3. current'.state = state /\ current'.index = k
    BY <1>1, <1>2
  <1>4. Quiet(state, prefixes[k], c)
    OBVIOUS
  <1> HIDE DEF c, k
  <1>5. /\ MatchInv' /\ pc' \in {"loop", "assemble"}
        /\ pc' = "loop" => last_cut' = c /\ last_cut' < Total
    BY <1>1, <1>2, MatchCuts
  <1>6. req' = req /\ prefixes' = prefixes /\ fs' = fs
    BY DEF env
  <1>7. Total' = Total
    BY <1>6 DEF Total
  <1>8. QuietInv'
    BY <1>1, <1>3, <1>4, <1>5, <1>6, <1>7 DEF QuietInv, Planning, Inside
  <1> QED
    BY <1>5, <1>8 DEF ReferenceInv

(* A scan goes on, with no delimiter behind it. *)
LEMMA ScanMatches ==
    ASSUME LogicalInv, AssignInv, ReferenceInv, pc \in {"boundary", "scan"}, pc' = "scan",
           UNCHANGED <<env, prefixes, sources, report, current, plan, target>>,
           LocalTarget <= offset', ~EndsRecord(Data, req.delim, LocalTarget),
           \A p \in LocalTarget..(offset' - 1) : ~MatchAt(Data, req.delim, p)
    PROVE  ReferenceInv'
  <1>1. /\ fs' = fs /\ req' = req /\ prefixes' = prefixes /\ sources' = sources
        /\ partition' = partition /\ last_cut' = last_cut /\ cut_points' = cut_points
        /\ target' = target /\ outcome' = outcome /\ current' = current
    BY DEF env, plan, report
  <1>2. Total' = Total /\ effective_parts' = effective_parts /\ outcome = "none"
    BY <1>1 DEF Total, effective_parts, AssignInv
  <1>3. LocalTarget' = LocalTarget /\ Data' = Data
    BY <1>1 DEF LocalTarget, Data
  <1>4. Pending(prefixes, sources, req.delim, effective_parts, Total, partition, last_cut,
                cut_points)
    BY DEF ReferenceInv, MatchInv, Planning
  <1>5. MatchInv'
    BY <1>1, <1>2, <1>4 DEF MatchInv
  <1>6. /\ last_cut < Total /\ target > last_cut
        /\ Quiet(current.state, prefixes[current.index], last_cut) /\ req.mode = "sourced"
    BY SearchShape DEF ReferenceInv, QuietInv, Planning
  <1>7. QuietInv'
    BY <1>1, <1>2, <1>3, <1>6 DEF QuietInv, Planning, Inside
  <1> QED
    BY <1>5, <1>7 DEF ReferenceInv

(* The probe of the target: the carried boundary is never used. *)
LEMMA ProbeMatches ==
    ASSUME LogicalInv, AssignInv, ReferenceInv, ProbeTarget
    PROVE  ReferenceInv'
  <1> DEFINE state == current.state
             t == LocalTarget
             p == prefixes[current.index]
             d == req.delim
  <1>1. /\ pc = "boundary"
        /\ UNCHANGED <<env, prefixes, sources, report>> /\ target' = target
    BY DEF ProbeTarget
  <1>2. /\ state \in State /\ Data \in Seq(Byte) /\ t \in 0..Len(Data) /\ t \in Nat
        /\ p \in Nat /\ last_cut \in Nat /\ last_cut < p + t
        /\ Quiet(state, p, last_cut) /\ d \in Seq(Byte) /\ Len(d) > 0
    BY <1>1, SearchShape
  <1> HIDE DEF d
  <1>3. /\ ~Cached(state, t) /\ MaxOf(t, state.scan_from) = t
        /\ Quiet(FoundExactly(state, t), p, p + t)
    <2> HIDE DEF state, t, p
    <2> QED
      BY <1>2, QuietSearch
  <1>4. ExactTarget <=> EndsRecord(Data, d, t)
    <2>1. Len(Data) \in Nat /\ Len(d) \in Nat
      BY <1>2
    <2>2. CASE Len(d) = 1
      <3>1. ExactTarget <=> t >= 1 /\ MinOf((t - 1) + 1, Len(Data)) = t /\ Data[t] = d[1]
        BY <2>2 DEF ExactTarget, ExactByte, fill_from, d
      <3>2. MinOf((t - 1) + 1, Len(Data)) = t
        BY <1>2, <2>1 DEF MinOf
      <3>3. EndsRecord(Data, d, t) <=> t >= 1 /\ t <= Len(Data) /\ Data[t] = d[1]
        <4> HIDE DEF t
        <4> QED
          BY <1>2, <2>2, ByteEndsRecord
      <3>4. t <= Len(Data)
        BY <1>2, <2>1
      <3> QED
        BY <3>1, <3>2, <3>3, <3>4
    <2>3. CASE Len(d) # 1
      <3>1. ExactTarget <=> /\ t >= Len(d) /\ MinOf((t - Len(d)) + Len(d), Len(Data)) = t
                            /\ MatchAt(Data, d, t - Len(d))
        BY <2>3 DEF ExactTarget, ExactPattern, fill_from, d
      <3>2. MinOf((t - Len(d)) + Len(d), Len(Data)) = t
        BY <1>2, <2>1 DEF MinOf
      <3> QED
        BY <3>1, <3>2 DEF EndsRecord
    <2> QED
      BY <2>2, <2>3
  <1>5. CASE ExactTarget /\ Reaches(t, FoundExactly(state, t))
    <2>1. t = BoundaryAt(Data, d, t)
      BY <1>4, <1>5 DEF BoundaryAt
    <2> QED
      BY <1>1, <1>3, <1>5, <2>1, ReachMatches DEF d
  <1>6. CASE /\ ~ExactTarget /\ offset' = MaxOf(t, state.scan_from) /\ pc' = "scan"
             /\ UNCHANGED <<current, plan>>
    <2>1. offset' = t /\ t <= offset' /\ ~EndsRecord(Data, d, t)
      BY <1>2, <1>3, <1>4, <1>6
    <2>2. \A q \in t..(offset' - 1) : FALSE
      BY <1>2, <2>1
    <2>3. \A q \in t..(offset' - 1) : ~MatchAt(Data, d, q)
      BY <2>2
    <2> QED
      BY <1>1, <1>6, <2>1, <2>3, ScanMatches DEF d
  <1> QED
    BY <1>3, <1>5, <1>6 DEF ProbeTarget

(* What a read of either scan knows. *)
LEMMA ReadMatches ==
    ASSUME LogicalInv, ReferenceInv, pc = "scan",
           NEW q, q = find_first_pattern_from(Data, req.delim, offset, fill_from(offset, buffer_len))
    PROVE  /\ q # NoPosition => q + Len(req.delim) = BoundaryAt(Data, req.delim, LocalTarget)
           /\ q = NoPosition /\ fill_from(offset, buffer_len) = Len(Data) =>
                Len(Data) = BoundaryAt(Data, req.delim, LocalTarget)
           /\ q = NoPosition =>
                \A p \in LocalTarget..(fill_from(offset, buffer_len) - Len(req.delim)) :
                   ~MatchAt(Data, req.delim, p)
           /\ \A b \in Nat : Quiet(Found(b), prefixes[current.index], prefixes[current.index] + b)
           /\ ~EndsRecord(Data, req.delim, LocalTarget) /\ LocalTarget \in Nat /\ LocalTarget <= offset
           /\ BoundaryAt(Data, req.delim, LocalTarget) \in Nat
  <1>1. /\ Data \in Seq(Byte) /\ LocalTarget \in Nat
        /\ req.delim \in Seq(Byte) /\ Len(req.delim) > 0
        /\ BoundaryAt(Data, req.delim, LocalTarget) \in Nat
        /\ current.state \in State /\ prefixes[current.index] \in Nat /\ last_cut \in Nat
        /\ Quiet(current.state, prefixes[current.index], last_cut)
        /\ last_cut < prefixes[current.index] + LocalTarget
    BY SearchShape
  <1>2. /\ LocalTarget <= offset /\ ~EndsRecord(Data, req.delim, LocalTarget)
        /\ \A p \in LocalTarget..(offset - 1) : ~MatchAt(Data, req.delim, p)
    BY DEF ReferenceInv, QuietInv
  <1>3. /\ offset \in Nat /\ fill_from(offset, buffer_len) \in Nat
        /\ fill_from(offset, buffer_len) <= Len(Data)
    BY ReadShape
  <1> DEFINE data == Data
             d == req.delim
             t == LocalTarget
             upto == fill_from(offset, buffer_len)
  <1>4. \A b \in Nat : Quiet(Found(b), prefixes[current.index], prefixes[current.index] + b)
    <2> HIDE DEF t
    <2> QED
      BY <1>1, QuietSearch
  <1> HIDE DEF data, d, t, upto
  <1>5. /\ q # NoPosition => BoundaryAt(data, d, t) = q + Len(d)
        /\ q = NoPosition /\ upto = Len(data) => BoundaryAt(data, d, t) = Len(data)
        /\ q = NoPosition => \A p \in t..(upto - Len(d)) : ~MatchAt(data, d, p)
    <2>1. /\ data \in Seq(Byte) /\ d \in Seq(Byte) /\ Len(d) > 0 /\ t \in Nat
          /\ ~EndsRecord(data, d, t) /\ offset \in Nat /\ t <= offset
          /\ \A p \in t..(offset - 1) : ~MatchAt(data, d, p)
          /\ upto \in Nat /\ upto <= Len(data) /\ q = find_first_pattern_from(data, d, offset, upto)
      BY <1>1, <1>2, <1>3 DEF data, d, t, upto
    <2> QED
      BY <2>1, ScanFinds
  <1> QED
    BY <1>1, <1>2, <1>4, <1>5, Zenon DEF data, d, t, upto

(* One read of the one-byte scan. *)
LEMMA ScanByteMatches ==
    ASSUME LogicalInv, AssignInv, ReferenceInv, ScanByte
    PROVE  ReferenceInv'
  <1> DEFINE end == fill_from(offset, buffer_len)
             r == position_from(Data, req.delim[1], offset, end)
             q == find_first_pattern_from(Data, req.delim, offset, end)
             b == BoundaryAt(Data, req.delim, LocalTarget)
             p == prefixes[current.index]
  <1>1. /\ pc = "scan" /\ Len(req.delim) = 1
        /\ UNCHANGED <<env, prefixes, sources, report>> /\ target' = target
    BY DEF ScanByte, ScanUnchanged
  <1>2. /\ offset \in Nat /\ end \in Nat /\ end <= Len(Data) /\ Len(Data) \in Nat
        /\ end < Len(Data) => end >= Len(req.delim)
        /\ end < Len(Data) => end >= offset
    <2>1. offset \in Nat /\ buffer_len \in Nat
      BY Shape DEF LogicalInv, TypeInv
    <2>2. Len(Data) \in Nat
      BY <1>1, ReadShape
    <2> QED
      BY <1>1, <2>1, <2>2, ReadShape DEF fill_from, MinOf
  <1>3. Data \in Seq(Byte) /\ req.delim \in Seq(Byte)
    BY <1>1, SearchShape
  <1>4. r = q
    <2> HIDE DEF end
    <2> QED
      BY <1>1, <1>2, <1>3, ByteIsPattern
  <1>5. /\ q # NoPosition => q + 1 = b
        /\ q = NoPosition /\ end = Len(Data) => Len(Data) = b
        /\ q = NoPosition => \A x \in LocalTarget..(end - 1) : ~MatchAt(Data, req.delim, x)
        /\ \A x \in Nat : Quiet(Found(x), p, p + x)
        /\ ~EndsRecord(Data, req.delim, LocalTarget) /\ LocalTarget \in Nat /\ LocalTarget <= offset
        /\ b \in Nat
    BY <1>1, ReadMatches
  <1> HIDE DEF end, q, r
  <1>6. CASE r # NoPosition /\ Reaches(r + 1, Found(r + 1))
    <2>1. r + 1 = b /\ Quiet(Found(r + 1), p, p + (r + 1))
      BY <1>4, <1>5, <1>6
    <2> QED
      BY <1>1, <1>6, <2>1, ReachMatches
  <1>7. CASE r = NoPosition /\ end = Len(Data) /\ Reaches(Len(Data), Found(Len(Data)))
    <2>1. Len(Data) = b /\ Quiet(Found(Len(Data)), p, p + Len(Data))
      BY <1>4, <1>5, <1>7
    <2> QED
      BY <1>1, <1>7, <2>1, ReachMatches
  <1>8. CASE r = NoPosition /\ end < Len(Data) /\ Advance(end)
    <2>1. offset' = end /\ pc' = "scan" /\ UNCHANGED <<current, plan>>
      BY <1>1, <1>8 DEF Advance
    <2>2. LocalTarget <= offset' /\ \A x \in LocalTarget..(offset' - 1) : ~MatchAt(Data, req.delim, x)
      BY <1>2, <1>4, <1>5, <1>8, <2>1
    <2> QED
      BY <1>1, <1>5, <2>1, <2>2, ScanMatches
  <1> QED
    BY <1>6, <1>7, <1>8 DEF ScanByte, r, end

(* One read of the pattern scan: the bytes read again are enough. *)
LEMMA ScanPatternMatches ==
    ASSUME LogicalInv, AssignInv, ReferenceInv, ScanPattern
    PROVE  ReferenceInv'
  <1> DEFINE end == fill_from(offset, buffer_len)
             dlen == Len(req.delim)
             q == find_first_pattern_from(Data, req.delim, offset, end)
             b == BoundaryAt(Data, req.delim, LocalTarget)
             p == prefixes[current.index]
  <1>1. /\ pc = "scan"
        /\ UNCHANGED <<env, prefixes, sources, report>> /\ target' = target
    BY DEF ScanPattern, ScanPatternWith, ScanUnchanged
  <1>2. /\ offset \in Nat /\ end \in Nat /\ end <= Len(Data) /\ Len(Data) \in Nat
        /\ dlen \in Nat /\ dlen > 0
        /\ end < Len(Data) => end >= offset + dlen
    <2>1. offset \in Nat /\ buffer_len \in Nat /\ dlen \in Nat \ {0} /\ req.scan_buffer \in Nat
      BY Shape DEF LogicalInv, TypeInv
    <2>2. Len(Data) \in Nat
      BY <1>1, ReadShape
    <2>3. buffer_len >= dlen
      BY <2>1 DEF buffer_len, MaxOf
    <2> QED
      BY <1>1, <2>1, <2>2, <2>3, ReadShape DEF fill_from, MinOf
  <1>3. Data \in Seq(Byte) /\ req.delim \in Seq(Byte)
    BY <1>1, SearchShape
  <1>4. /\ q # NoPosition => q + dlen = b
        /\ q = NoPosition /\ end = Len(Data) => Len(Data) = b
        /\ q = NoPosition => \A x \in LocalTarget..(end - dlen) : ~MatchAt(Data, req.delim, x)
        /\ \A x \in Nat : Quiet(Found(x), p, p + x)
        /\ ~EndsRecord(Data, req.delim, LocalTarget) /\ LocalTarget \in Nat /\ LocalTarget <= offset
        /\ b \in Nat
    BY <1>1, ReadMatches
  <1> HIDE DEF end, q, dlen
  <1>5. CASE q # NoPosition /\ Reaches(q + dlen, Found(q + dlen))
    <2>1. q + dlen = b /\ Quiet(Found(q + dlen), p, p + (q + dlen))
      BY <1>4, <1>5
    <2> QED
      BY <1>1, <1>5, <2>1, ReachMatches
  <1>6. CASE q = NoPosition /\ end = Len(Data) /\ Reaches(Len(Data), Found(Len(Data)))
    <2>1. Len(Data) = b /\ Quiet(Found(Len(Data)), p, p + Len(Data))
      BY <1>4, <1>6
    <2> QED
      BY <1>1, <1>6, <2>1, ReachMatches
  <1>7. CASE /\ q = NoPosition /\ end < Len(Data)
             /\ Advance(offset + MaxOf((end - offset) - (dlen - 1), 1))
    <2>0. offset + MaxOf((end - offset) - (dlen - 1), 1) = end - (dlen - 1)
      BY <1>2, <1>7 DEF MaxOf
    <2>1. offset' = end - (dlen - 1) /\ pc' = "scan" /\ UNCHANGED <<current, plan>>
      BY <1>1, <1>7, <2>0 DEF Advance
    <2>2. offset' - 1 = end - dlen /\ LocalTarget <= offset'
      BY <1>2, <1>4, <1>7, <2>1
    <2>3. \A x \in LocalTarget..(offset' - 1) : ~MatchAt(Data, req.delim, x)
      BY <1>4, <1>7, <2>2
    <2> QED
      BY <1>1, <1>4, <2>1, <2>2, <2>3, ScanMatches
  <1> QED
    BY <1>5, <1>6, <1>7 DEF ScanPattern, ScanPatternWith, filled, q, end, dlen
------------------------------------------------------------------------------
(* The reference is settled once the planner returns. *)
LEMMA AssembleMatches ==
    ASSUME LogicalInv, AssignInv, ReferenceInv, Assemble
    PROVE  ReferenceInv'
  <1>1. /\ pc = "assemble" \/ (pc = "loop" /\ partition >= effective_parts)
        /\ pc' = "write" /\ req' = req /\ prefixes' = prefixes /\ sources' = sources
        /\ cut_points' = cut_points
    BY DEF Assemble, env, plan
  <1>2. Total' = Total /\ effective_parts' = effective_parts
    BY <1>1 DEF Total, effective_parts
  <1>3. QuietInv'
    BY <1>1 DEF QuietInv, Planning, Inside
  <1>4. Settled(prefixes, sources, req.delim, effective_parts, Total, cut_points)
    <2>1. CASE pc = "assemble"
      BY <2>1 DEF ReferenceInv, MatchInv
    <2>2. CASE pc = "loop" /\ partition >= effective_parts
      <3>1. partition <= effective_parts /\ partition \in Nat /\ effective_parts \in Nat
        BY <2>2, Shape DEF LogicalInv, PrefixInv, TypeInv, Planning
      <3>2. partition = effective_parts
        BY <2>2, <3>1
      <3>3. Pending(prefixes, sources, req.delim, effective_parts, Total, partition, last_cut,
                    cut_points)
        BY <2>2 DEF ReferenceInv, MatchInv, Planning
      <3>4. last_cut \in 0..Total /\ cut_points \in Seq(Nat)
        <4>1. last_cut \in Nat /\ last_cut < Total /\ cut_points \in Seq(Nat) /\ Total \in Nat
          BY <2>2, Shape DEF LogicalInv, CutInv, ReferenceInv, QuietInv, Planning
        <4> QED
          BY <4>1
      <3> QED
        BY <3>2, <3>3, <3>4, PendingDone
    <2> QED
      BY <1>1, <2>1, <2>2
  <1>5. MatchInv'
    BY <1>1, <1>2, <1>4 DEF MatchInv, Planning
  <1> QED
    BY <1>3, <1>5 DEF ReferenceInv

(* The rows are written from it. *)
LEMMA WriteMatches ==
    ASSUME LogicalInv, AssignInv, ReferenceInv, write_assignments
    PROVE  ReferenceInv'
  <1>1. /\ pc = "write" /\ pc' = "done" /\ req' = req /\ prefixes' = prefixes
        /\ sources' = sources /\ cut_points' = cut_points
    BY DEF write_assignments, env, plan
  <1>2. Total' = Total /\ effective_parts' = effective_parts
    BY <1>1 DEF Total, effective_parts
  <1>3. QuietInv'
    BY <1>1 DEF QuietInv, Planning, Inside
  <1>4. Total > 0 => Settled(prefixes, sources, req.delim, effective_parts, Total, cut_points)
    BY <1>1 DEF ReferenceInv, MatchInv
  <1>5. MatchInv'
    BY <1>1, <1>2, <1>4 DEF MatchInv, Planning
  <1> QED
    BY <1>3, <1>5 DEF ReferenceInv

(* A rename over a path, or a step that changes nothing. *)
LEMMA ReferenceStays ==
    ASSUME LogicalInv, ReferenceInv, Len(fs') = Len(fs),
           UNCHANGED <<req, pc, prefixes, held, plan, search, report>>
    PROVE  ReferenceInv'
  <1>1. /\ req' = req /\ pc' = pc /\ prefixes' = prefixes /\ sources' = sources
        /\ states' = states /\ current' = current /\ partition' = partition
        /\ last_cut' = last_cut /\ cut_points' = cut_points /\ target' = target
        /\ offset' = offset /\ outcome' = outcome
    BY DEF held, plan, search, report
  <1>2. Total' = Total /\ effective_parts' = effective_parts
    BY <1>1 DEF Total, effective_parts
  <1>3. LocalTarget' = LocalTarget /\ Data' = Data
    BY <1>1 DEF LocalTarget, Data
  <1>4. MatchInv'
    BY <1>1, <1>2 DEF ReferenceInv, MatchInv
  <1>5. QuietInv'
    BY <1>1, <1>2, <1>3 DEF ReferenceInv, QuietInv
  <1> QED
    BY <1>4, <1>5 DEF ReferenceInv

LEMMA ReferenceKeeps ==
    ASSUME LogicalInv, AssignInv, ReferenceInv, [Next]_vars
    PROVE  ReferenceInv'
  <1>0. pc # "done" => outcome = "none"
    BY DEF AssignInv
  <1>b. ASSUME pc \in {"map", "stat"}, pc' = pc, UNCHANGED plan, UNCHANGED report
        PROVE  ReferenceInv'
    <2>1. last_cut' = last_cut /\ outcome' = outcome /\ outcome = "none" /\ last_cut = 0
      BY <1>0, <1>b DEF plan, report, ReferenceInv, QuietInv
    <2> QED
      BY <1>b, <2>1, ReferenceOutside DEF Planning
  <1>1. CASE emit_file_partitions
    <2>1. pc = "map" /\ (Fail \/ (pc' = pc /\ UNCHANGED plan /\ UNCHANGED report))
      BY <1>1 DEF emit_file_partitions
    <2> QED
      BY <1>b, <2>1, ReferenceFails
  <1>2. CASE AddPrefix
    <2>1. pc = "map" /\ pc' = pc /\ UNCHANGED plan /\ UNCHANGED report
      BY <1>2 DEF AddPrefix
    <2> QED
      BY <1>b, <2>1
  <1>3. CASE plan_logical_partitions
    <2>1. /\ pc = "map" /\ pc' = (IF Total = 0 THEN "write" ELSE "loop")
          /\ states' = [k \in Paths |-> BoundarySearchState]
          /\ UNCHANGED <<env, prefixes, sources, plan, current, report>>
      BY <1>3 DEF plan_logical_partitions
    <2> QED
      BY <2>1, ReferenceEnters
  <1>4. CASE StatPath
    <2>1. pc = "stat" /\ (Fail \/ (pc' = pc /\ UNCHANGED plan /\ UNCHANGED report))
      BY <1>4 DEF StatPath
    <2> QED
      BY <1>b, <2>1, ReferenceFails
  <1>5. CASE EnterSourcedLoop
    <2>1. /\ pc = "stat" /\ pc' = (IF Total = 0 THEN "write" ELSE "loop")
          /\ UNCHANGED <<env, prefixes, sources, plan, current, report>>
      BY <1>5 DEF EnterSourcedLoop, held
    <2>2. req.mode # "mmap"
      BY <2>1 DEF LogicalInv, MmapInv
    <2> QED
      BY <2>1, <2>2, ReferenceEnters
  <1>6. CASE MappedTarget
    BY <1>6, MappedMatches
  <1>7. CASE SourcedTarget
    BY <1>7, SourcedMatches
  <1>8. CASE CloseCurrent
    BY <1>8, CloseMatches
  <1>9. CASE OpenSource
    BY <1>9, OpenMatches
  <1>10. CASE ProbeTarget
    BY <1>10, ProbeMatches
  <1>11. CASE ScanByte
    BY <1>11, ScanByteMatches
  <1>12. CASE ScanPattern
    BY <1>12, ScanPatternMatches
  <1>13. CASE Assemble
    BY <1>13, AssembleMatches
  <1>14. CASE write_assignments
    BY <1>14, WriteMatches
  <1>15. CASE ReadFails
    BY <1>15, ReferenceFails DEF ReadFails
  <1>16. CASE \E k \in Paths, file \in Contents \cup {Missing} : Replace(k, file)
    <2>1. PICK k \in Paths, file \in Contents \cup {Missing} : Replace(k, file)
      BY <1>16
    <2>2. fs' = [fs EXCEPT ![k] = file] /\ UNCHANGED <<req, pc, prefixes, held, plan, search, report>>
      BY <2>1 DEF Replace
    <2>3. Len(fs') = Len(fs)
      BY <2>2 DEF LogicalInv, TypeInv
    <2> QED
      BY <2>2, <2>3, ReferenceStays
  <1>17. CASE Done \/ UNCHANGED vars
    <2>1. fs' = fs /\ UNCHANGED <<req, pc, prefixes, held, plan, search, report>>
      BY <1>17 DEF Done, vars, held, plan, search, report
    <2> QED
      BY <2>1, ReferenceStays
  <1> QED
    BY <1>1, <1>2, <1>3, <1>4, <1>5, <1>6, <1>7, <1>8, <1>9, <1>10, <1>11, <1>12, <1>13,
       <1>14, <1>15, <1>16, <1>17 DEF Next, Plan

LEMMA ReferenceInvariant == Spec => []ReferenceInv
  <1>1. Init => ReferenceInv
    BY DEF Init, ReferenceInv, QuietInv, MatchInv, Planning, Inside
  <1>2. LogicalInv /\ AssignInv /\ ReferenceInv /\ [Next]_vars => ReferenceInv'
    BY ReferenceKeeps
  <1> QED
    BY <1>1, <1>2, LogicalInvariant, AssignInvariant, PTL DEF Spec
------------------------------------------------------------------------------
(* The stateless cut of a target whose source is known. *)
LEMMA StatelessIs ==
    ASSUME LogicalInv, Len(prefixes) = Len(fs) + 1, NEW t \in Nat,
           KnownAt(prefixes, sources, t)
    PROVE  StatelessCut(t) = CutAt(prefixes, sources, req.delim, t)
  <1> DEFINE k == SourceOf(t)
             lt == t - prefixes[k]
             q == find_first_pattern_from(sources[k], req.delim, lt, Len(sources[k]))
  <1>1. k = At(prefixes, t) /\ (IsSourceBoundary(t) <=> OnBoundary(prefixes, t))
    BY Shape DEF IsSourceBoundary, OnBoundary
  <1>2. StatelessCut(t) = IF IsSourceBoundary(t) \/ EndsRecord(sources[k], req.delim, lt) THEN t
                          ELSE IF q = NoPosition THEN prefixes[k + 1]
                          ELSE prefixes[k] + q + Len(req.delim)
    BY DEF StatelessCut
  <1>3. CASE IsSourceBoundary(t)
    BY <1>1, <1>2, <1>3 DEF CutAt
  <1>4. CASE ~IsSourceBoundary(t)
    <2>1. k \in DOMAIN sources
      BY <1>1, <1>4 DEF KnownAt
    <2>2. k \in 1..Len(fs) /\ Len(fs) \in Nat /\ sources[k] \in Seq(Byte)
      BY <2>1, Shape DEF LogicalInv, SourceInv
    <2>3. k < Len(prefixes) /\ k \in 1..Len(prefixes) /\ k + 1 \in 1..Len(prefixes)
      BY <2>2
    <2>4. Len(sources[k]) = prefixes[k + 1] - prefixes[k]
      BY <2>1, <2>3 DEF LogicalInv, SourceInv
    <2>5. prefixes[k] \in Nat /\ prefixes[k + 1] \in Nat
      BY <2>3, Shape
    <2>6. prefixes[k] <= t
      <3>1. /\ prefixes \in Seq(Nat) /\ Len(prefixes) >= 1 /\ prefixes[1] = 0
            /\ \A i, j \in 1..Len(prefixes) : i <= j => prefixes[i] <= prefixes[j]
        BY <2>2 DEF LogicalInv, PrefixInv
      <3>2. prefixes[At(prefixes, t)] <= t
        BY <3>1, SourceIsLast, Zenon
      <3> QED
        BY <1>1, <3>2
    <2>7. CutAt(prefixes, sources, req.delim, t)
            = prefixes[k] + BoundaryAt(sources[k], req.delim, lt)
      BY <1>1, <1>4 DEF CutAt
    <2>8. BoundaryAt(sources[k], req.delim, lt)
            = IF EndsRecord(sources[k], req.delim, lt) THEN lt
              ELSE IF q = NoPosition THEN Len(sources[k]) ELSE q + Len(req.delim)
      BY DEF BoundaryAt
    <2>9. Len(sources[k]) \in Nat /\ lt \in Nat /\ prefixes[k] + lt = t /\ Len(req.delim) \in Nat
      <3>1. Len(req.delim) \in Nat
        BY Shape
      <3>2. Len(sources[k]) \in Nat
        <4> HIDE DEF k
        <4> QED
          BY <2>2
      <3>3. lt \in Nat /\ prefixes[k] + lt = t
        <4> HIDE DEF k
        <4> QED
          BY <2>5, <2>6
      <3> QED
        BY <3>1, <3>2, <3>3
    <2>10. q # NoPosition => q \in Nat
      <3>1. q # NoPosition => q \in lt..(Len(sources[k]) - Len(req.delim))
        <4> HIDE DEF lt, k
        <4> QED
          BY <2>9, FirstPatternIs
      <3> QED
        BY <2>9, <3>1
    <2>11. prefixes[k] + Len(sources[k]) = prefixes[k + 1]
      BY <2>4, <2>5
    <2> HIDE DEF k, lt, q
    <2>12. CASE EndsRecord(sources[k], req.delim, lt)
      BY <1>2, <2>7, <2>8, <2>9, <2>12
    <2>13. CASE ~EndsRecord(sources[k], req.delim, lt) /\ q = NoPosition
      BY <1>2, <1>4, <2>7, <2>8, <2>11, <2>13
    <2>14. CASE ~EndsRecord(sources[k], req.delim, lt) /\ q # NoPosition
      BY <1>2, <1>4, <2>5, <2>7, <2>8, <2>9, <2>10, <2>14
    <2> QED
      BY <2>12, <2>13, <2>14
  <1> QED
    BY <1>3, <1>4

(* The stateless definition has a table, and it is a reference. *)
LEMMA StatelessTable ==
    ASSUME LogicalInv, Len(prefixes) = Len(fs) + 1, Total > 0
    PROVE  \E f : /\ StatelessCuts = f[1][0]
                  /\ Reference(f, prefixes, sources, req.delim, effective_parts, Total)
  <1> DEFINE n == effective_parts
             T(i) == (Total * i) \div n
             Pick(c, r) == IF c = Total THEN <<>> ELSE <<c>> \o r[c]
             Entry(i, r, last) == IF i = n THEN <<>>
                                  ELSE IF T(i) <= last THEN r[last]
                                  ELSE Pick(StatelessCut(T(i)), r)
             Line(i, r) == [last \in 0..Total |-> Entry(i, r, last)]
             G(f) == [i \in 1..n |-> Line(i, f[i + 1])]
             cuts == CHOOSE f : f = G(f)
  <1>0. /\ Total \in Nat /\ n \in Nat /\ n > 0 /\ n \in 1..n /\ 1 \in 1..n
    BY Shape
  <1>1. StatelessCuts = cuts[1][0]
    BY DEF StatelessCuts
  <1>2. \A r, s : Line(n, r) = Line(n, s)
    OBVIOUS
  <1>3. \E f : f = G(f)
    <2> DEFINE Upto(w, k) == w = [i \in 1..n |-> w[i]] /\ \A i \in k..n : w[i] = Line(i, w[i + 1])
               S == {k \in 1..n : \E w : Upto(w, k)}
    <2> HIDE DEF Line, n
    <2>1. n \in S
      <3> DEFINE w == [i \in 1..n |-> Line(n, <<>>)]
      <3>1. w[n] = Line(n, w[n + 1])
        BY <1>0, <1>2
      <3>2. \A i \in n..n : i = n
        BY <1>0
      <3>3. w = [i \in 1..n |-> w[i]]
        OBVIOUS
      <3> HIDE DEF w
      <3>4. Upto(w, n)
        BY <3>1, <3>2, <3>3
      <3> QED
        BY <1>0, <3>4
    <2>2. ASSUME NEW k \in 1..(n - 1), k + 1 \in S PROVE k \in S
      <3>1. PICK w : Upto(w, k + 1)
        BY <2>2
      <3> DEFINE v == [i \in 1..n |-> IF i = k THEN Line(k, w[k + 1]) ELSE w[i]]
      <3>2. k \in 1..n /\ k + 1 \in 1..n /\ k + 1 # k
        BY <1>0
      <3>3. v[k] = Line(k, w[k + 1]) /\ \A i \in 1..n : i # k => v[i] = w[i]
        BY <3>2
      <3>4. v = [i \in 1..n |-> v[i]]
        OBVIOUS
      <3> HIDE DEF v
      <3>5. ASSUME NEW i \in k..n PROVE v[i] = Line(i, v[i + 1])
        <4>1. CASE i = k
          BY <3>2, <3>3, <4>1
        <4>2. CASE i # k /\ i # n
          <5>1. i \in (k + 1)..n /\ i \in 1..n /\ i + 1 \in 1..n /\ i + 1 # k
            BY <1>0, <4>2
          <5>2. w[i] = Line(i, w[i + 1])
            BY <3>1, <5>1
          <5> QED
            BY <3>3, <4>2, <5>1, <5>2
        <4>3. CASE i # k /\ i = n
          <5>1. n \in (k + 1)..n
            BY <1>0
          <5>2. w[n] = Line(n, w[n + 1])
            BY <3>1, <5>1
          <5>3. v[n] = w[n] /\ Line(n, w[n + 1]) = Line(n, v[n + 1])
            BY <1>0, <1>2, <3>3, <4>3
          <5> QED
            BY <4>3, <5>2, <5>3
        <4> QED
          BY <4>1, <4>2, <4>3
      <3>6. Upto(v, k)
        BY <3>4, <3>5
      <3> QED
        BY <3>2, <3>6
    <2>3. \A k \in 1..n : k \in S
      <3>1. S \in SUBSET (1..n)
        OBVIOUS
      <3> HIDE DEF S
      <3> QED
        BY <1>0, <2>1, <2>2, <3>1, DownToOne
    <2>4. PICK w : Upto(w, 1)
      BY <1>0, <2>3
    <2>5. w = G(w)
      BY <2>4
    <2> QED
      BY <2>5
  <1> HIDE DEF G
  <1>4. cuts = G(cuts)
    BY <1>3
  <1> HIDE DEF cuts
  <1>5. \A i \in 1..n : \A last \in 0..Total : cuts[i][last] = Entry(i, cuts[i + 1], last)
    <2> TAKE i \in 1..n
    <2> HIDE DEF Entry
    <2>1. cuts[i] = Line(i, cuts[i + 1])
      <3> HIDE DEF Line
      <3> QED
        BY <1>4 DEF G
    <2> QED
      BY <2>1, Zenon
  <1> HIDE DEF n
  <1>6. \A last \in 0..Total : cuts[n][last] = <<>>
    BY <1>0, <1>5, Zenon
  <1>7. ASSUME NEW i \in 1..(n - 1), NEW last \in 0..Total
        PROVE  /\ T(i) <= last => cuts[i][last] = cuts[i + 1][last]
               /\ ~(T(i) <= last) => cuts[i][last] = Pick(StatelessCut(T(i)), cuts[i + 1])
    <2>1. i \in 1..n /\ i # n
      BY <1>0
    <2>2. cuts[i][last] = Entry(i, cuts[i + 1], last)
      BY <1>5, <2>1, Zenon
    <2> HIDE DEF T, Pick
    <2> QED
      BY <2>1, <2>2
  <1>8. ASSUME NEW i \in 1..(n - 1), NEW last \in 0..Total, ~(T(i) <= last),
               KnownAt(prefixes, sources, T(i))
        PROVE  cuts[i][last] = RefRow(cuts, Total, CutAt(prefixes, sources, req.delim, T(i)), i)
    <2>1. T(i) \in Nat
      <3>1. i \in Nat /\ i < n /\ n \in Nat \ {0} /\ Total \in Nat \ {0}
        BY <1>0
      <3>2. T(i) \in 0..(Total - 1)
        BY <3>1, TargetInside
      <3> QED
        BY <1>0, <3>2
    <2>2. cuts[i][last] = Pick(StatelessCut(T(i)), cuts[i + 1])
      BY <1>7, <1>8
    <2> HIDE DEF T
    <2>3. StatelessCut(T(i)) = CutAt(prefixes, sources, req.delim, T(i))
      BY <1>8, <2>1, StatelessIs
    <2> QED
      BY <2>2, <2>3, Zenon DEF RefRow
  <1>9. Reference(cuts, prefixes, sources, req.delim, n, Total)
    BY <1>6, <1>7, <1>8, Zenon DEF Reference
  <1> QED
    BY <1>1, <1>9 DEF n

(* The cuts of a plan that succeeded are the stateless ones. *)
LEMMA CutsAreStateless ==
    ASSUME LogicalInv, AssignInv, ReferenceInv, outcome = "ok", Total > 0
    PROVE  cut_points = StatelessCuts
  <1>1. Len(prefixes) = Len(fs) + 1
    BY DEF AssignInv
  <1>2. PICK f : /\ StatelessCuts = f[1][0]
                 /\ Reference(f, prefixes, sources, req.delim, effective_parts, Total)
    BY <1>1, StatelessTable
  <1>3. Settled(prefixes, sources, req.delim, effective_parts, Total, cut_points)
    BY DEF ReferenceInv, MatchInv
  <1> QED
    BY <1>2, <1>3, Zenon DEF Settled
------------------------------------------------------------------------------
(* There is such a loop over the intervals. *)
LEMMA WorkersExist ==
    ASSUME NEW m \in Nat, NEW T, NEW I \in [1..m -> T], \A j \in 1..m : I[j] # <<>>
    PROVE  \E f : IsWorkers(f, I, m)
  <1> DEFINE h == [j \in 1..m |-> <<I[j]>>]
  <1>1. h \in [1..m -> Seq(T)]
    OBVIOUS
  <1>2. \A j \in 1..m : h[j] = <<I[j]>>
    OBVIOUS
  <1> HIDE DEF h
  <1>3. PICK f \in [1..(m + 1) -> Seq(T)] : IsJoin(f, h, m)
    BY <1>1, JoinExists
  <1>4. \A j \in 1..(m + 1) :
          (IF j > m THEN <<>> ELSE h[j] \o f[j + 1])
            = IF j > m THEN <<>> ELSE IF I[j] = <<>> THEN f[j + 1] ELSE <<I[j]>> \o f[j + 1]
    <2> TAKE j \in 1..(m + 1)
    <2>1. ~(j > m) => j \in 1..m
      OBVIOUS
    <2> QED
      BY <1>2, <2>1, Zenon
  <1>5. IsWorkers(f, I, m)
    BY <1>3, <1>4, Zenon DEF IsJoin, IsWorkers
  <1> QED
    BY <1>5
------------------------------------------------------------------------------
(* Of a single file, the cut of a target is where the oracle snaps it.     *)
LEMMA SnapIsBoundary ==
    ASSUME NEW data \in Seq(Byte), NEW d \in Seq(Byte), Len(d) > 0, NEW t \in 0..Len(data)
    PROVE  Snaps(data, d)[t] = BoundaryAt(data, d, t)
  <1> DEFINE l == Len(data)
             r == find_first_pattern_from(data, d, t, l)
  <1>1. l \in Nat /\ Len(d) \in Nat /\ t \in Nat
    OBVIOUS
  <1>2. Snaps(data, d)[t] = IF EndsRecord(data, d, t) THEN t ELSE AfterHit(data, d, t)
    BY DEF Snaps
  <1>3. BoundaryAt(data, d, t) = IF EndsRecord(data, d, t) THEN t
                                 ELSE IF r = NoPosition THEN l ELSE r + Len(d)
    BY DEF BoundaryAt
  <1>4. CASE r = NoPosition
    <2>1. \A p \in t..(l - Len(d)) : ~MatchAt(data, d, p)
      BY <1>1, <1>4, FirstPatternIs
    <2>2. NoMatchIn(data, d, t, l)
      BY <1>1, <2>1 DEF NoMatchIn
    <2>3. AfterHit(data, d, t) = l
      BY <2>2, HitIsMatch
    <2> QED
      BY <1>2, <1>3, <1>4, <2>3
  <1>5. CASE r # NoPosition
    <2>1. /\ r \in t..(l - Len(d)) /\ MatchAt(data, d, r)
          /\ \A q \in t..(r - 1) : ~MatchAt(data, d, q)
      BY <1>1, <1>5, FirstPatternIs
    <2>2. r \in t..l /\ r + Len(d) <= l
      BY <1>1, <2>1
    <2>3. FirstMatchIn(data, d, t, l, r)
      BY <2>1, <2>2 DEF FirstMatchIn
    <2>4. AfterHit(data, d, t) = r + Len(d)
      <3> HIDE DEF r
      <3> QED
        BY <2>3, HitIsMatch
    <2> QED
      BY <1>2, <1>3, <1>5, <2>4
  <1> QED
    BY <1>4, <1>5

(* A table of cuts that leaves out the end of the data. *)
RefTable(f, T, C, n, l) ==
    /\ \A last \in 0..l : f[n][last] = <<>>
    /\ \A i \in 1..(n - 1) : \A last \in 0..l :
          f[i][last] = IF T[i] <= last THEN f[i + 1][last] ELSE RefRow(f, l, C[T[i]], i)

(* The oracle's table, which does not leave it out, has the same cuts.     *)
WithEnd(s, r, l) == r \in Seq(Nat) /\ (s = r \/ s = r \o <<l>>)

LEMMA TablesAgree ==
    ASSUME NEW n, NEW l, NEW T, NEW C, CutArgs(T, C, n, l), NEW f, RefTable(f, T, C, n, l),
           NEW g, IsCuts(g, T, C, n, l)
    PROVE  WithEnd(g[1][0], f[1][0], l)
  <1> DEFINE P(i) == \A last \in 0..l : WithEnd(g[i][last], f[i][last], l)
             S == {i \in 1..n : P(i)}
  <1>0. n \in Nat /\ n > 0 /\ n \in 1..n /\ 1 \in 1..n /\ l \in Nat /\ 0 \in 0..l
    BY DEF CutArgs
  <1>1. /\ \A last \in 0..l : g[n][last] = <<>>
        /\ \A i \in 1..(n - 1) : \A last \in 0..l : g[i][last] = CutRow(g, T, C, l, i, last)
    BY CutsSteps
  <1>2. n \in S
    <2>1. <<>> \in Seq(Nat)
      OBVIOUS
    <2>2. \A last \in 0..l : g[n][last] = <<>> /\ f[n][last] = <<>>
      BY <1>1, Zenon DEF RefTable
    <2> QED
      BY <1>0, <2>1, <2>2, Zenon DEF WithEnd
  <1>3. ASSUME NEW i \in 1..(n - 1), i + 1 \in S PROVE i \in S
    <2> SUFFICES ASSUME NEW last \in 0..l PROVE WithEnd(g[i][last], f[i][last], l)
      BY <1>0
    <2> DEFINE c == C[T[i]]
    <2>1. T[i] \in 0..(l - 1) /\ c \in 0..l /\ c \in Nat
      <3>1. T[i] \in 0..(l - 1)
        BY DEF CutArgs
      <3>2. C[T[i]] \in T[i]..l
        BY <3>1 DEF CutArgs
      <3> QED
        BY <1>0, <3>1, <3>2
    <2>2. f[i][last] = IF T[i] <= last THEN f[i + 1][last] ELSE RefRow(f, l, c, i)
      BY Zenon DEF RefTable
    <2>3. g[i][last] = CutRow(g, T, C, l, i, last)
      BY <1>1, Zenon
    <2>4. \A x \in 0..l : WithEnd(g[i + 1][x], f[i + 1][x], l)
      BY <1>3
    <2>5. CASE T[i] <= last
      <3>1. f[i][last] = f[i + 1][last]
        BY <2>2, <2>5, Zenon
      <3>2. g[i][last] = g[i + 1][last]
        BY <2>3, <2>5, Zenon DEF CutRow
      <3> QED
        BY <2>4, <3>1, <3>2, Zenon
    <2>6. CASE ~(T[i] <= last) /\ c = l
      <3>1. f[i][last] = <<>>
        BY <2>2, <2>6, Zenon DEF RefRow
      <3>2. g[i][last] = <<l>>
        BY <2>3, <2>6, Zenon DEF CutRow
      <3>3. <<l>> \in Seq(Nat) /\ <<>> \in Seq(Nat)
        BY <1>0
      <3>4. <<l>> = <<>> \o <<l>>
        BY <3>3, ConcatEmptySeq
      <3> QED
        BY <3>1, <3>2, <3>3, <3>4, Zenon DEF WithEnd
    <2>7. CASE ~(T[i] <= last) /\ c # l
      <3>1. f[i][last] = <<c>> \o f[i + 1][c]
        BY <2>2, <2>7, Zenon DEF RefRow
      <3>2. g[i][last] = <<c>> \o g[i + 1][c]
        BY <2>3, <2>7, Zenon DEF CutRow
      <3>3. WithEnd(g[i + 1][c], f[i + 1][c], l)
        BY <2>1, <2>4, Zenon
      <3> HIDE DEF c
      <3> DEFINE a == <<c>>
                 r == f[i + 1][c]
                 e == <<l>>
      <3>4. a \in Seq(Nat) /\ e \in Seq(Nat)
        BY <1>0, <2>1
      <3>5. r \in Seq(Nat) /\ (g[i + 1][c] = r \/ g[i + 1][c] = r \o e)
        BY <3>3, Zenon DEF WithEnd
      <3> HIDE DEF a, r, e
      <3>6. a \o r \in Seq(Nat) /\ (a \o r) \o e = a \o (r \o e)
        BY <3>4, <3>5, ConcatProperties, ConcatAssociative, SMTT(60)
      <3>7. f[i][last] = a \o r /\ (g[i][last] = a \o r \/ g[i][last] = (a \o r) \o e)
        BY <3>1, <3>2, <3>5, <3>6, Zenon DEF a, r
      <3> QED
        BY <3>6, <3>7, Zenon DEF WithEnd, e
    <2> QED
      BY <2>5, <2>6, <2>7
  <1>4. \A i \in 1..n : i \in S
    <2>1. S \in SUBSET (1..n)
      OBVIOUS
    <2> HIDE DEF S
    <2> QED
      BY <1>0, <1>2, <1>3, <2>1, DownToOne
  <1> QED
    BY <1>0, <1>4

(* The oracle's ranges, with or without the end among the cuts. *)
IntervalPairs(ends) == [j \in 1..Len(ends) |-> <<Begin(ends, j), ends[j]>>]

Increasing(ends, l) ==
    /\ ends \in Seq(Nat) /\ Len(ends) > 0 /\ ends[Len(ends)] = l
    /\ \A j \in 1..Len(ends) : Begin(ends, j) \in Nat /\ Begin(ends, j) < ends[j] /\ ends[j] <= l

LEMMA OracleRanges ==
    ASSUME NEW l \in Nat, NEW ends, Increasing(ends, l), NEW cuts \in Seq(0..l),
           Len(cuts) \in {Len(ends) - 1, Len(ends)},
           \A j \in 1..Len(cuts) : cuts[j] = ends[j]
    PROVE  Lists(CutRanges(cuts, l), IntervalPairs(ends), Len(ends), Pair)
  <1> DEFINE m == Len(ends)
             q == Len(cuts)
             I == IntervalPairs(ends)
  <1>0. /\ m \in Nat /\ m > 0 /\ q \in Nat /\ (q = m - 1 \/ q = m) /\ m + 1 > m
        /\ ends[m] = l /\ 1 \in 1..m
    BY DEF Increasing
  <1>1. \A j \in 1..m : /\ Begin(ends, j) \in 0..l /\ ends[j] \in 0..l
                        /\ Begin(ends, j) < ends[j] /\ Begin(ends, j) \in Nat /\ ends[j] \in Nat
    BY DEF Increasing
  <1>2. I \in [1..m -> Pair] /\ \A j \in 1..m : I[j] = <<Begin(ends, j), ends[j]>> /\ I[j] # <<>>
    <2>1. \A j \in 1..m : <<Begin(ends, j), ends[j]>> \in Pair /\ <<Begin(ends, j), ends[j]>> # <<>>
      BY <1>1 DEF Pair
    <2> QED
      BY <2>1 DEF IntervalPairs
  <1>3. PICK g \in [1..(q + 1) -> [0..l -> Seq(Pair)]] : IsRanges(g, cuts, l)
    BY RangesExist
  <1>4. CutRanges(cuts, l) = g[1][0]
    BY <1>3, CutRangesIs
  <1>5. \A k \in 1..(q + 1) : \A start \in 0..l : g[k][start] = RangeRow(g, cuts, l, k, start)
    BY <1>3, RangesSteps
  <1> DEFINE v == [k \in 1..(m + 1) |-> IF k > m THEN <<>> ELSE g[k][Begin(ends, k)]]
  <1> HIDE DEF m, I
  <1>6. ASSUME NEW j \in 1..m PROVE v[j] = <<I[j]>> \o v[j + 1]
    <2> DEFINE b == Begin(ends, j)
               e == ends[j]
    <2>1. /\ j \in 1..(m + 1) /\ ~(j > m) /\ j + 1 \in 1..(m + 1) /\ j \in 1..(q + 1)
          /\ j + 1 # 1 /\ (j + 1) - 1 = j
      BY <1>0
    <2>2. v[j] = g[j][b]
      BY <2>1
    <2>3. b \in 0..l /\ e \in 0..l /\ b < e /\ b \in Nat /\ e \in Nat /\ I[j] = <<b, e>>
      BY <1>1, <1>2
    <2>4. g[j][b] = RangeRow(g, cuts, l, j, b)
      BY <1>5, <2>1, <2>3, Zenon
    <2>5. Begin(ends, j + 1) = e
      BY <2>1 DEF Begin
    <2> HIDE DEF b, e
    <2>6. CASE j <= q /\ j < m
      <3>1. cuts[j] = e /\ ~(j + 1 > m)
        BY <1>0, <2>1, <2>6 DEF e
      <3>2. cuts[j] > b
        BY <2>3, <3>1
      <3>3. g[j][b] = <<<<b, e>>>> \o g[j + 1][e]
        BY <2>4, <2>6, <3>1, <3>2, Zenon DEF RangeRow
      <3>4. v[j + 1] = g[j + 1][e]
        BY <2>1, <2>5, <3>1
      <3> QED
        BY <2>2, <2>3, <3>3, <3>4
    <2>7. CASE j <= q /\ ~(j < m)
      <3>1. cuts[j] = e /\ j = m /\ q = m /\ j + 1 > m /\ e = l /\ ~(e < l) /\ ~(j + 1 <= q)
            /\ j + 1 \in 1..(q + 1)
        BY <1>0, <2>1, <2>7 DEF e
      <3>2. cuts[j] > b
        BY <2>3, <3>1
      <3>3. g[j][b] = <<<<b, e>>>> \o g[j + 1][e]
        BY <2>4, <2>7, <3>1, <3>2, Zenon DEF RangeRow
      <3>4. g[j + 1][e] = RangeRow(g, cuts, l, j + 1, e)
        BY <1>5, <2>3, <3>1, Zenon
      <3>5. g[j + 1][e] = <<>>
        BY <3>1, <3>4, Zenon DEF RangeRow
      <3>6. v[j + 1] = <<>>
        BY <2>1, <3>1
      <3> QED
        BY <2>2, <2>3, <3>3, <3>5, <3>6
    <2>8. CASE ~(j <= q)
      <3>1. j = m /\ e = l /\ b < l /\ j + 1 > m
        BY <1>0, <2>1, <2>3, <2>8 DEF e
      <3>2. g[j][b] = <<<<b, e>>>>
        BY <2>4, <2>8, <3>1, Zenon DEF RangeRow
      <3>3. v[j + 1] = <<>>
        BY <2>1, <3>1
      <3>4. <<I[j]>> \o <<>> = <<I[j]>>
        <4>1. I[j] \in Pair
          BY <1>2
        <4>2. <<I[j]>> \in Seq(Pair)
          BY <4>1
        <4> QED
          BY <4>2, ConcatEmptySeq
      <3> QED
        BY <2>2, <2>3, <3>2, <3>3, <3>4
    <2> QED
      BY <2>6, <2>7, <2>8
  <1>7. v[m + 1] = <<>> /\ v[1] = g[1][0]
    <2>1. m + 1 \in 1..(m + 1) /\ 1 \in 1..(m + 1) /\ ~(1 > m) /\ Begin(ends, 1) = 0
      BY <1>0 DEF Begin
    <2> QED
      BY <1>0, <2>1
  <1>8. v = [k \in 1..(m + 1) |-> v[k]]
    OBVIOUS
  <1> HIDE DEF v
  <1>9. IsWorkers(v, I, m)
    <2>1. \A j \in 1..(m + 1) :
            v[j] = IF j > m THEN <<>> ELSE IF I[j] = <<>> THEN v[j + 1] ELSE <<I[j]>> \o v[j + 1]
      <3> TAKE j \in 1..(m + 1)
      <3>1. j = m + 1 \/ (j \in 1..m /\ ~(j > m))
        BY <1>0
      <3> QED
        BY <1>0, <1>2, <1>6, <1>7, <3>1, Zenon
    <2> QED
      BY <1>8, <2>1, Zenon DEF IsWorkers
  <1>10. Lists(v[1], I, m, Pair)
    <2>1. I \in [1..m -> Pair] /\ \A j \in 1..m : I[j] # <<>>
      BY <1>2, Zenon
    <2> QED
      BY <1>0, <1>9, <2>1, WorkersAre, Zenon
  <1> QED
    BY <1>4, <1>7, <1>10 DEF I, m
------------------------------------------------------------------------------
(* A sequence whose elements are in a set is one over that set. *)
LEMMA SeqWithin ==
    ASSUME NEW S, NEW E, NEW s \in Seq(S), \A i \in 1..Len(s) : s[i] \in E
    PROVE  s \in Seq(E)
  <1>1. s \in [1..Len(s) -> E] /\ Len(s) \in Nat
    OBVIOUS
  <1> QED
    BY <1>1, SeqDef, SMTT(60)

(* The only source has one piece in each interval. *)
LEMMA SinglePiece ==
    ASSUME NEW px, px[1] = 0, NEW rs, NEW a, NEW e, Tiling(rs, px, 1, 1, a, e)
    PROVE  Len(rs) = 1 /\ rs[1] \in Piece /\ rs[1].start = a /\ rs[1].end_exclusive = e
  <1>1. rs \in Seq(Piece) /\ Len(rs) \in Nat /\ Len(rs) > 0
    BY DEF Tiling
  <1>2. \A j \in 1..Len(rs) : rs[j].source_index \in 1..1
    BY DEF Tiling, InSource
  <1>3. ASSUME Len(rs) > 1 PROVE FALSE
    <2>1. 1 \in 1..(Len(rs) - 1) /\ 1 \in 1..Len(rs) /\ 2 \in 1..Len(rs) /\ 1 + 1 = 2
      BY <1>1, <1>3
    <2>2. rs[1].source_index < rs[2].source_index
      BY <2>1 DEF Tiling
    <2>3. rs[1].source_index = 1 /\ rs[2].source_index = 1
      BY <1>2, <2>1
    <2> QED
      BY <2>2, <2>3
  <1>4. Len(rs) = 1 /\ 1 \in 1..Len(rs)
    <2>1. ~(Len(rs) > 1)
      BY <1>3
    <2>2. \A k \in Nat : k > 0 /\ ~(k > 1) => k = 1 /\ 1 \in 1..k
      OBVIOUS
    <2> QED
      BY <1>1, <2>1, <2>2, Zenon
  <1>5. rs[1] \in Piece /\ rs[1].source_index = 1
    BY <1>1, <1>2, <1>4, ElementOfSeq
  <1>6. px[1] + rs[1].start = a /\ px[1] + rs[1].end_exclusive = e
    BY <1>4, <1>5 DEF Tiling, From, To
  <1>7. rs[1].start \in Nat /\ rs[1].end_exclusive \in Nat
    BY <1>5 DEF Piece
  <1> QED
    BY <1>4, <1>5, <1>6, <1>7

(* So its rows are the intervals. *)
LEMMA SingleRows ==
    ASSUME NEW px, px[1] = 0, NEW ends, Len(ends) \in Nat, Len(assignments) = Len(ends),
           \A j \in 1..Len(ends) : Tiling(assignments[j], px, 1, 1, Begin(ends, j), ends[j])
    PROVE  /\ Rows \in Seq(OutRow) /\ Len(Rows) = Len(ends)
           /\ \A j \in 1..Len(ends) :
                Rows[j].start = Begin(ends, j) /\ Rows[j].end_exclusive = ends[j]
  <1> DEFINE m == Len(ends)
             block(w) == [j \in 1..Len(assignments[w]) |-> Row(w - 1, assignments[w][j])]
             G(f) == [w \in 1..(m + 1) |-> IF w > m THEN <<>> ELSE block(w) \o f[w + 1]]
             rows == CHOOSE f : f = G(f)
             J == [w \in 1..m |-> Row(w - 1, assignments[w][1])]
  <1>0. m \in Nat
    OBVIOUS
  <1>1. Rows = rows[1]
    BY DEF Rows
  <1>2. ASSUME NEW w \in 1..m
        PROVE  /\ Len(assignments[w]) = 1 /\ assignments[w][1] \in Piece
               /\ assignments[w][1].start = Begin(ends, w)
               /\ assignments[w][1].end_exclusive = ends[w]
    <2>1. Tiling(assignments[w], px, 1, 1, Begin(ends, w), ends[w])
      OBVIOUS
    <2> QED
      BY <2>1, SinglePiece
  <1>3. ASSUME NEW w \in 1..m PROVE block(w) = <<Row(w - 1, assignments[w][1])>>
    <2>1. block(w) = [j \in 1..1 |-> Row(w - 1, assignments[w][j])]
      BY <1>2
    <2> QED
      BY <2>1
  <1>4. ASSUME NEW w \in 1..m
        PROVE  /\ J[w] \in OutRow /\ J[w] # <<>>
               /\ J[w].start = Begin(ends, w) /\ J[w].end_exclusive = ends[w]
    <2>1. J[w] = Row(w - 1, assignments[w][1]) /\ w - 1 \in Nat
      BY <1>0
    <2>2. assignments[w][1] \in Piece
      BY <1>2
    <2>3. Row(w - 1, assignments[w][1]) \in OutRow
      BY <2>1, <2>2 DEF Row, Piece, OutRow
    <2>4. /\ Row(w - 1, assignments[w][1]).start = Begin(ends, w)
          /\ Row(w - 1, assignments[w][1]).end_exclusive = ends[w]
      BY <1>2 DEF Row
    <2>5. \A r \in OutRow : r # <<>>
      <3> SUFFICES ASSUME NEW r \in OutRow PROVE r # <<>>
        OBVIOUS
      <3>1. "start" \in DOMAIN r
        BY DEF OutRow
      <3>2. DOMAIN <<>> = {}
        <4>1. <<>> \in Seq(Nat) /\ Len(<<>>) = 0
          OBVIOUS
        <4>2. DOMAIN <<>> = 1..0
          BY <4>1
        <4> QED
          BY <4>2
      <3> QED
        BY <3>1, <3>2, Zenon
    <2> QED
      BY <2>1, <2>3, <2>4, <2>5, Zenon
  <1>5. J \in [1..m -> OutRow]
    BY <1>4
  <1>6. \A f : f = G(f) <=> IsWorkers(f, J, m)
    <2> SUFFICES ASSUME NEW f PROVE f = G(f) <=> IsWorkers(f, J, m)
      OBVIOUS
    <2>1. \A w \in 1..m : block(w) = <<J[w]>> /\ J[w] # <<>>
      BY <1>3, <1>4
    <2> HIDE DEF J, block, m
    <2> DEFINE H == [j \in 1..(m + 1) |->
                  IF j > m THEN <<>> ELSE IF J[j] = <<>> THEN f[j + 1] ELSE <<J[j]>> \o f[j + 1]]
    <2>2. \A w \in 1..(m + 1) : ~(w > m) => w \in 1..m
      BY <1>0
    <2>3. G(f) = H
      BY <2>1, <2>2, Zenon
    <2> HIDE DEF G
    <2> QED
      BY <2>3, Zenon DEF IsWorkers
  <1> HIDE DEF G, m
  <1>7. \A j \in 1..m : J[j] # <<>>
    BY <1>4
  <1> HIDE DEF J
  <1>8. \E f : IsWorkers(f, J, m)
    BY <1>0, <1>5, <1>7, WorkersExist
  <1>9. rows = G(rows)
    BY <1>6, <1>8
  <1> HIDE DEF rows
  <1>10. IsWorkers(rows, J, m)
    BY <1>6, <1>9, Zenon
  <1>11. Lists(rows[1], J, m, OutRow)
    BY <1>0, <1>5, <1>7, <1>10, WorkersAre, Zenon
  <1>12. /\ rows[1] \in Seq(OutRow) /\ Len(rows[1]) = m
         /\ \A j \in 1..m : rows[1][j] = J[j]
    BY <1>11, Zenon DEF Lists
  <1> QED
    BY <1>1, <1>4, <1>12 DEF m

(* The reference of a single file is a table without its end. *)
LEMMA SingleTable ==
    ASSUME LogicalInv, Len(prefixes) = Len(fs) + 1, Len(fs) = 1, 1 \in DOMAIN sources, Total > 0,
           NEW f, Reference(f, prefixes, sources, req.delim, effective_parts, Total)
    PROVE  /\ sources[1] \in Seq(Byte) /\ Len(sources[1]) = Total /\ prefixes[1] = 0
           /\ RefTable(f, Targets(Total, effective_parts), Snaps(sources[1], req.delim),
                       effective_parts, Total)
  <1> DEFINE s == sources[1]
             d == req.delim
             n == effective_parts
             T == Targets(Total, n)
             C == Snaps(s, d)
  <1>1. /\ Len(prefixes) = 2 /\ prefixes[1] = 0 /\ prefixes \in Seq(Nat) /\ prefixes[2] = Total
        /\ \A i, j \in 1..Len(prefixes) : i <= j => prefixes[i] <= prefixes[j]
    BY DEF LogicalInv, PrefixInv, Total
  <1>2. s \in Seq(Byte) /\ Len(s) = prefixes[1 + 1] - prefixes[1]
    <2>1. 1 < Len(prefixes)
      BY <1>1
    <2> QED
      BY <2>1 DEF LogicalInv, SourceInv
  <1>3. Total \in Nat /\ n \in Nat /\ n > 0 /\ d \in Seq(Byte) /\ Len(d) > 0
    BY Shape
  <1>4. Len(s) = Total
    BY <1>1, <1>2, <1>3
  <1>5. ASSUME NEW t \in 1..(Total - 1)
        PROVE  KnownAt(prefixes, sources, t) /\ CutAt(prefixes, sources, d, t) = C[t]
    <2>1. t \in Nat /\ t # 0 /\ t < Total /\ t \in 0..Len(s) /\ t - 0 = t
      BY <1>3, <1>4
    <2>2. /\ At(prefixes, t) \in 1..Len(prefixes) /\ prefixes[At(prefixes, t)] <= t
      <3>1. Len(prefixes) >= 1
        BY <1>1
      <3> QED
        BY <1>1, <2>1, <3>1, SourceIsLast, Zenon
    <2>3. At(prefixes, t) = 1
      BY <1>1, <1>3, <2>1, <2>2
    <2>4. ~OnBoundary(prefixes, t)
      <3> SUFFICES ASSUME NEW k \in DOMAIN prefixes, prefixes[k] = t PROVE FALSE
        BY DEF OnBoundary
      <3>1. k = 1 \/ k = 2
        BY <1>1
      <3> QED
        BY <1>1, <1>3, <2>1, <3>1
    <2>5. C[t] = BoundaryAt(s, d, t)
      <3> HIDE DEF s, d
      <3> QED
        BY <1>2, <1>3, <2>1, SnapIsBoundary
    <2>6. BoundaryAt(s, d, t) \in Nat
      <3> HIDE DEF s, d
      <3>1. BoundaryAt(s, d, t) \in t..Len(s)
        BY <1>2, <1>3, <2>1, BoundaryBounds
      <3> QED
        BY <1>3, <1>4, <2>1, <3>1
    <2>7. CutAt(prefixes, sources, d, t) = 0 + BoundaryAt(s, d, t)
      BY <1>1, <2>1, <2>3, <2>4 DEF CutAt
    <2>8. KnownAt(prefixes, sources, t)
      BY <2>3 DEF KnownAt
    <2> QED
      BY <2>5, <2>6, <2>7, <2>8
  <1>6. ASSUME NEW i \in 1..(n - 1), NEW last \in 0..Total
        PROVE  f[i][last] = IF T[i] <= last THEN f[i + 1][last] ELSE RefRow(f, Total, C[T[i]], i)
    <2>1. T[i] = (Total * i) \div n /\ T[i] \in 0..(Total - 1)
      BY <1>3, TargetsInFile
    <2>2. CASE T[i] <= last
      <3>1. f[i][last] = f[i + 1][last]
        BY <2>1, <2>2, Zenon DEF Reference
      <3> QED
        BY <2>2, <3>1
    <2>3. CASE ~(T[i] <= last)
      <3>1. T[i] \in 1..(Total - 1)
        BY <1>3, <2>1, <2>3
      <3> HIDE DEF T, C
      <3>2. KnownAt(prefixes, sources, T[i]) /\ CutAt(prefixes, sources, d, T[i]) = C[T[i]]
        BY <1>5, <3>1
      <3>3. f[i][last] = RefRow(f, Total, CutAt(prefixes, sources, d, T[i]), i)
        BY <2>1, <2>3, <3>2, Zenon DEF Reference
      <3> QED
        BY <2>3, <3>2, <3>3, Zenon
    <2> QED
      BY <2>2, <2>3
  <1>7. \A last \in 0..Total : f[n][last] = <<>>
    BY Zenon DEF Reference
  <1> HIDE DEF T, C
  <1>8. RefTable(f, T, C, n, Total)
    BY <1>6, <1>7, Zenon DEF RefTable
  <1> QED
    BY <1>1, <1>2, <1>4, <1>8 DEF T, C

(* The plan of a single file is the plan of `partition` for it. *)
LEMMA SingleFileMatches ==
    ASSUME LogicalInv, AssignInv, ReferenceInv, outcome = "ok", Total > 0,
           Len(fs) = 1, opens # <<>>
    PROVE  [j \in DOMAIN output |-> <<output[j].start, output[j].end_exclusive>>]
             = scalar_partition_boundaries_pattern(sources[1], req.parts, req.delim)
  <1> DEFINE s == sources[1]
             d == req.delim
             n == effective_parts
             ends == Append(cut_points, Total)
             oracle == scalar_partition_boundaries_pattern(s, req.parts, d)
  <1>1. /\ Len(prefixes) = Len(fs) + 1 /\ output = Rows /\ assignments = Assignments
    <2>1. Total # 0
      BY Shape
    <2> QED
      BY <2>1 DEF AssignInv
  <1>2. 1 \in DOMAIN sources
    <2>1. opens \in Seq(Nat) /\ DOMAIN sources = {opens[i] : i \in 1..Len(opens)}
          /\ \A k \in DOMAIN sources : k \in 1..Len(fs)
      BY DEF LogicalInv, SourceInv
    <2>2. 1 \in 1..Len(opens)
      BY <2>1
    <2>3. opens[1] \in DOMAIN sources
      BY <2>1, <2>2
    <2>4. opens[1] = 1
      <3>1. opens[1] \in 1..1
        BY <2>1, <2>3
      <3>2. \A x \in 1..1 : x = 1
        OBVIOUS
      <3> QED
        BY <3>1, <3>2, Zenon
    <2> QED
      BY <2>3, <2>4
  <1>3. PICK f : /\ StatelessCuts = f[1][0]
                 /\ Reference(f, prefixes, sources, req.delim, effective_parts, Total)
    BY <1>1, StatelessTable
  <1>4. f[1][0] = cut_points
    <2>1. Settled(prefixes, sources, req.delim, effective_parts, Total, cut_points)
      BY DEF ReferenceInv, MatchInv
    <2> QED
      BY <1>3, <2>1, Zenon DEF Settled
  <1>5. /\ s \in Seq(Byte) /\ Len(s) = Total /\ prefixes[1] = 0
        /\ RefTable(f, Targets(Total, n), Snaps(s, d), n, Total)
    BY <1>1, <1>2, <1>3, SingleTable
  <1>6. /\ Total \in Nat /\ n \in Nat /\ n > 0 /\ d \in Seq(Byte) /\ Len(d) > 0
        /\ req.parts \in Nat /\ req.parts > 0 /\ n = MinOf(req.parts, Total)
    BY Shape DEF effective_parts, LogicalInv, TypeInv
  <1>7. /\ IsIntervals(ends) /\ Len(ends) = Len(cut_points) + 1
        /\ IsPrefixes(prefixes, Len(fs))
    BY <1>1, IntervalsAre
  <1>8. /\ Len(assignments) = Len(ends)
        /\ \A j \in 1..Len(ends) :
             Tiling(assignments[j], prefixes, 1, 1, Begin(ends, j), ends[j])
    <2> HIDE DEF ends
    <2> QED
      BY <1>1, <1>7, AssignmentsTile DEF ends
  <1>9. cut_points \in Seq(Nat) /\ Len(cut_points) \in Nat /\ Len(ends) \in Nat
        /\ \A j \in 1..Len(cut_points) : ends[j] = cut_points[j] /\ cut_points[j] < Total
    <2>1. cut_points \in Seq(Nat) /\ \A j \in 1..Len(cut_points) : cut_points[j] < Total
      BY DEF LogicalInv, CutInv
    <2> QED
      BY <1>6, <2>1
  <1>10. /\ output \in Seq(OutRow) /\ Len(output) = Len(ends)
         /\ \A j \in 1..Len(ends) :
              output[j].start = Begin(ends, j) /\ output[j].end_exclusive = ends[j]
    <2> HIDE DEF ends
    <2> QED
      BY <1>1, <1>5, <1>8, <1>9, SingleRows
  <1>11. Increasing(ends, Total)
    BY <1>7 DEF IsIntervals, Increasing
  <1>12. Lists(oracle, IntervalPairs(ends), Len(ends), Pair)
    <2>1. CASE req.parts = 1
      <3>1. n = 1
        BY <1>6, <2>1 DEF MinOf
      <3>2. cut_points = <<>>
        <4>1. 0 \in 0..Total
          BY <1>6
        <4>2. f[n][0] = <<>>
          BY <1>3, <4>1, Zenon DEF Reference
        <4> QED
          BY <1>4, <3>1, <4>2
      <3>3. oracle = <<<<0, Total>>>>
        <4>1. Len(s) # 0 /\ req.parts # 0
          BY <1>5, <1>6
        <4> QED
          BY <1>5, <2>1, <4>1 DEF scalar_partition_boundaries_pattern
      <3>4. ends = <<Total>> /\ Len(ends) = 1 /\ ends[1] = Total
        BY <3>2
      <3> HIDE DEF ends, oracle
      <3>5. IntervalPairs(ends) = [j \in 1..1 |-> <<Begin(ends, j), ends[j]>>]
        BY <3>4 DEF IntervalPairs
      <3>6. IntervalPairs(ends)[1] = <<0, Total>>
        BY <3>4, <3>5 DEF Begin
      <3>7. oracle \in Seq(Pair) /\ Len(oracle) = 1 /\ oracle[1] = <<0, Total>>
        <4>1. <<0, Total>> \in Pair
          BY <1>6 DEF Pair
        <4> QED
          BY <3>3, <4>1
      <3>8. \A i \in 1..1 : i = 1
        OBVIOUS
      <3> QED
        BY <3>4, <3>6, <3>7, <3>8 DEF Lists
    <2>2. CASE req.parts # 1
      <3>1. req.parts > 1 /\ Len(s) > 0
        BY <1>5, <1>6, <2>2
      <3> HIDE DEF s, d, ends
      <3>2. CutArgs(Targets(Total, n), Snaps(s, d), n, Total)
        BY <1>5, <1>6, <3>1, SnapArgs
      <3> HIDE DEF n
      <3>3. PICK g \in [1..n -> [0..Total -> Seq(Nat)]] :
                 IsCuts(g, Targets(Total, n), Snaps(s, d), n, Total)
        BY <3>2, CutsExist
      <3>4. oracle = CutRanges(g[1][0], Total)
        <4>1. IsCuts(g, Targets(Len(s), MinOf(req.parts, Len(s))), Snaps(s, d),
                     MinOf(req.parts, Len(s)), Len(s))
          BY <1>5, <1>6, <3>3
        <4>2. oracle = CutRanges(g[1][0], Len(s))
          BY <1>5, <1>6, <3>1, <4>1, PatternPlanOracle
        <4> QED
          BY <1>5, <4>2
      <3>5. WithEnd(g[1][0], cut_points, Total)
        <4>1. WithEnd(g[1][0], f[1][0], Total)
          BY <1>5, <3>2, <3>3, TablesAgree
        <4> QED
          BY <1>4, <4>1
      <3> DEFINE cuts == g[1][0]
      <3>6. cuts = cut_points \/ cuts = cut_points \o <<Total>>
        BY <3>5, Zenon DEF WithEnd
      <3> HIDE DEF cuts
      <3>7. ends = cut_points \o <<Total>>
        BY <1>6, <1>9, AppendIsConcat DEF ends
      <3>8. /\ Len(cuts) \in {Len(ends) - 1, Len(ends)}
            /\ \A j \in 1..Len(cuts) : cuts[j] = ends[j]
            /\ cuts \in Seq(0..Total)
        <4>0. /\ ends \in Seq(Nat) /\ \A j \in 1..Len(ends) : ends[j] \in Nat /\ ends[j] <= Total
          BY <1>11 DEF Increasing
        <4>1. CASE cuts = cut_points
          <5>1. \A j \in 1..Len(cuts) : cuts[j] \in 0..Total
            BY <1>6, <1>9, <4>1
          <5>2. cuts \in Seq(0..Total)
            BY <1>9, <4>1, <5>1, SeqWithin
          <5> QED
            BY <1>7, <1>9, <4>1, <5>2
        <4>2. CASE cuts = cut_points \o <<Total>>
          <5>1. cuts = ends
            BY <3>7, <4>2
          <5>2. \A j \in 1..Len(ends) : ends[j] \in 0..Total
            BY <1>6, <4>0
          <5>3. ends \in Seq(0..Total)
            BY <4>0, <5>2, SeqWithin
          <5> QED
            BY <1>9, <5>1, <5>3
        <4> QED
          BY <3>6, <4>1, <4>2
      <3>9. Lists(CutRanges(cuts, Total), IntervalPairs(ends), Len(ends), Pair)
        BY <1>6, <1>11, <3>8, OracleRanges
      <3> QED
        BY <3>4, <3>9 DEF cuts
    <2> QED
      BY <2>1, <2>2
  <1> DEFINE m == Len(ends)
             I == IntervalPairs(ends)
             rows == [j \in DOMAIN output |-> <<output[j].start, output[j].end_exclusive>>]
  <1>13. I = [j \in 1..m |-> <<Begin(ends, j), ends[j]>>]
    BY DEF IntervalPairs
  <1>14. DOMAIN output = 1..m
    BY <1>10
  <1>15. oracle \in Seq(Pair) /\ Len(oracle) = m /\ \A i \in 1..m : oracle[i] = I[i]
    BY <1>12, Zenon DEF Lists
  <1> HIDE DEF ends, oracle
  <1>16. \A j \in 1..m : <<output[j].start, output[j].end_exclusive>> = oracle[j]
    BY <1>10, <1>13, <1>15
  <1>17. oracle = [j \in 1..m |-> oracle[j]]
    BY <1>9, <1>15
  <1> HIDE DEF I, m
  <1>18. rows = oracle
    BY <1>14, <1>16, <1>17, Zenon
  <1> QED
    BY <1>18 DEF oracle

(* Both engines, with the boundaries they carry over and the reads they    *)
(* make piecewise, cut where the stateless definition cuts; and the plan   *)
(* of a single file is the plan of `partition` for it.                     *)
THEOREM CutsAreReference == Spec => []CutsMatchReference
  <1>1. LogicalInv /\ AssignInv /\ ReferenceInv => CutsMatchReference
    BY CutsAreStateless, SingleFileMatches DEF CutsMatchReference
  <1> QED
    BY <1>1, LogicalInvariant, AssignInvariant, ReferenceInvariant, PTL
===========================================================================
