------------------------ MODULE RangePlanningProofs ------------------------
(***************************************************************************)
(* One call of a range planner, for any files, partition counts, buffer    *)
(* capacities and any number of renames over the path.                     *)
(***************************************************************************)
EXTENDS RangePlanning, FiniteSetTheorems, TLAPS

(* The plan of the file the last open returned. *)
Plan(f) == plan_partition_boundaries(f, req.parts)

(* Inside a native call: before the opener, in an opener that holds nothing *)
(* yet, with the file open, and with more.                                  *)
Openers == {"open", "CreateFileW", "window size", "windowed open", "windowed CreateFileW",
            "pread open"}
FileOpen == {"lseek", "mmap", "GetFileSizeEx", "CreateFileMappingW", "windowed lseek",
             "windowed GetFileSizeEx", "windowed CreateFileMappingW", "pread metadata"}
Holding == FileOpen \cup {"MapViewOfFile", "plan"}
Calling == {"call", "probe"} \cup Openers \cup Holding

(* The steps of the openers, by source. *)
MmapSteps == {"open", "lseek", "mmap"}
MmapWindowsSteps == {"CreateFileW", "GetFileSizeEx", "CreateFileMappingW", "MapViewOfFile"}
WindowedSteps == {"window size", "windowed open", "windowed lseek"}
WindowedWindowsSteps == {"windowed CreateFileW", "windowed GetFileSizeEx",
                         "windowed CreateFileMappingW"}

(* Where the ranges computed last are those of `source`. *)
HasPlan ==
    \/ pc \in {"fill", "lengths", "coverage", "alignment"}
    \/ pc = "returned" /\ code \in {0, -2}
    \/ result = "plan"

(* Where the output buffer holds them. *)
Filled ==
    \/ pc = "returned" /\ code = 0
    \/ pc \in {"coverage", "alignment"} /\ req.client = "plan_file_ranges"

(* The pairs of the client tile the size of the first stat. *)
Tiles ==
    /\ PairsEnd = file_size
    /\ \A k \in 1..Len(Pairs) : Pairs[k][1] = IF k = 1 THEN 0 ELSE Pairs[k - 1][2]

TypeInv ==
    /\ path \in Files \cup {Missing} /\ disturbed \in BOOLEAN
    /\ req.client \in {"plan_file", "plan_file_ranges", "c"} /\ req.parts \in Nat \ {0}
    /\ req.platform \in {"unix", "windows"} /\ req.options.mode \in SourceMode
    /\ req.client = "plan_file" => req.options.mode = "mmap"
    /\ capacity \in Nat /\ out_count \in Nat

(* What is open at every step; at the end of an opener, exactly the fields *)
(* of the source, all of which its Drop closes.                            *)
HandleInv ==
    /\ ~stray
    /\ pc \notin Holding => handles = {}
    /\ pc \in FileOpen => handles = {"file"}
    /\ pc = "MapViewOfFile" => handles = {"mapping", "file"}
    /\ pc = "plan" => handles = owned /\ Dropped = owned

(* Which opener runs. *)
RouteInv ==
    /\ pc \in MmapSteps => req.options.mode = "mmap"
    /\ pc \in MmapWindowsSteps => req.options.mode = "mmap" /\ req.platform = "windows"
    /\ pc \in WindowedSteps => req.options.mode = "windowed"
    /\ pc \in WindowedWindowsSteps =>
          req.options.mode = "windowed" /\ req.platform = "windows"

ErrorInv == pc \in Openers \cup Holding \cup {"fill"} => ~error

BufferInv ==
    /\ \A slot \in DOMAIN out_ranges : slot < capacity
    /\ pc \notin {"returned", "coverage", "alignment", "done"} => DOMAIN out_ranges = {}
    /\ pc = "returned" /\ code # 0 => DOMAIN out_ranges = {}
    /\ pc = "returned" /\ code = -2 => out_count = Len(ranges) /\ out_count > capacity /\ ~error
    /\ pc = "returned" /\ code = 0 => out_count <= capacity
    /\ Filled => /\ out_count = Len(ranges)
                 /\ out_ranges = [slot \in 0..(Len(ranges) - 1) |-> ranges[slot + 1]]

SourceInv ==
    /\ pc \in Holding \/ HasPlan => source \in Files
    /\ HasPlan => ranges = Plan(source)
    /\ pc = "lengths" => req.client = "plan_file"
    /\ pc \in {"coverage", "alignment"} => req.client # "c"

(* What the call knows as long as nothing was renamed over the path. *)
QuietInv ==
    ~disturbed =>
        /\ path \in Files
        /\ pc \in Holding \/ HasPlan => source = path
        /\ req.client = "plan_file_ranges" /\ phase = "fill" => capacity = Len(Plan(path))
        /\ result # "changed"

ResultInv ==
    /\ pc # "done" => result = None
    /\ pc = "alignment" \/ result = "plan" => Tiles
    /\ result = "plan" =>
          /\ Pairs = ranges
          /\ \A k \in 1..Len(Pairs) : k < Len(Pairs) => Pairs[k][2] \in verified.ends

RangeInv ==
    /\ TypeInv /\ HandleInv /\ RouteInv /\ ErrorInv /\ BufferInv /\ SourceInv /\ QuietInv /\ ResultInv
------------------------------------------------------------------------------
(* How many elements of S are at most e. *)
Rank(S, e) == Cardinality({other \in S : other <= e})

(* Ranks grow with the elements. *)
LEMMA RankGrows ==
    ASSUME NEW S, IsFiniteSet(S), S \subseteq Nat, NEW a \in S, NEW b \in S, a < b
    PROVE  /\ Rank(S, a) \in 1..Cardinality(S) /\ Rank(S, b) \in 1..Cardinality(S)
           /\ Rank(S, a) < Rank(S, b)
  <1> DEFINE A == {other \in S : other <= a}
             B == {other \in S : other <= b}
  <1>1. A \in SUBSET B /\ A \in SUBSET S /\ B \in SUBSET S
    <2>1. a \in Nat /\ b \in Nat /\ \A x \in S : x \in Nat
      OBVIOUS
    <2>2. \A x \in S : x <= a => x <= b
      BY <2>1
    <2> QED
      BY <2>2
  <1>2. a \in A /\ b \in B /\ b \notin A
    OBVIOUS
  <1>3. /\ IsFiniteSet(A) /\ IsFiniteSet(B)
        /\ Cardinality(A) <= Cardinality(S) /\ Cardinality(B) <= Cardinality(S)
    BY <1>1, FS_Subset
  <1> HIDE DEF A, B
  <1>4. Cardinality(A) <= Cardinality(B) /\ Cardinality(B) # Cardinality(A)
    BY <1>1, <1>2, <1>3, FS_Subset
  <1>5. Cardinality(A) \in Nat /\ Cardinality(B) \in Nat /\ Cardinality(S) \in Nat
    BY <1>3, FS_CardinalityType
  <1>6. Cardinality(A) # 0 /\ Cardinality(B) # 0
    BY <1>2, <1>3, FS_EmptySet
  <1> QED
    BY <1>3, <1>4, <1>5, <1>6 DEF Rank, A, B

(* The rank of any element. *)
LEMMA RankInRange ==
    ASSUME NEW S, IsFiniteSet(S), S \subseteq Nat, NEW a \in S
    PROVE  Rank(S, a) \in 1..Cardinality(S)
  <1> DEFINE A == {other \in S : other <= a}
  <1>1. A \in SUBSET S /\ a \in A
    OBVIOUS
  <1> HIDE DEF A
  <1>2. IsFiniteSet(A) /\ Cardinality(A) <= Cardinality(S)
    BY <1>1, FS_Subset
  <1>3. Cardinality(A) \in Nat /\ Cardinality(S) \in Nat
    BY <1>2, FS_CardinalityType
  <1>4. Cardinality(A) # 0
    BY <1>1, <1>2, FS_EmptySet
  <1> QED
    BY <1>2, <1>3, <1>4 DEF Rank, A

(* Every rank is taken. *)
LEMMA RankedExists ==
    ASSUME NEW S, IsFiniteSet(S), S \subseteq Nat, NEW k \in 1..Cardinality(S)
    PROVE  Ranked(S, k) \in S /\ Rank(S, Ranked(S, k)) = k
  <1> DEFINE N == Cardinality(S)
             f == [e \in S |-> Rank(S, e)]
  <1>1. N \in Nat
    BY FS_CardinalityType
  <1>2. f \in [S -> 1..N]
    BY RankInRange
  <1>3. \A a, b \in S : f[a] = f[b] => a = b
    <2> SUFFICES ASSUME NEW a \in S, NEW b \in S, a # b PROVE f[a] # f[b]
      OBVIOUS
    <2>1. a < b \/ b < a
      OBVIOUS
    <2>2. ASSUME NEW x \in S, NEW y \in S, x < y PROVE Rank(S, x) # Rank(S, y)
      <3>1. /\ Rank(S, x) \in 1..N /\ Rank(S, y) \in 1..N
            /\ Rank(S, x) < Rank(S, y)
        BY <2>2, RankGrows
      <3> QED
        BY <1>1, <3>1
    <2> QED
      BY <2>1, <2>2
  <1> HIDE DEF f
  <1>4. f \in Injection(S, 1..N)
    BY <1>2, <1>3 DEF Injection, IsInjective
  <1>5. IsFiniteSet(1..N) /\ Cardinality(1..N) = N
    BY <1>1, FS_Interval
  <1>6. f \in Surjection(S, 1..N)
    BY <1>4, <1>5, FS_Injection
  <1>7. \E e \in S : f[e] = k
    BY <1>6 DEF Surjection
  <1>8. \E e \in S : Rank(S, e) = k
    BY <1>7 DEF f
  <1> QED
    BY <1>8 DEF Ranked, Rank

(* The elements in order of rank increase. *)
LEMMA RankedGrows ==
    ASSUME NEW S, IsFiniteSet(S), S \subseteq Nat, NEW j \in 1..Cardinality(S),
           NEW k \in 1..Cardinality(S), j < k
    PROVE  Ranked(S, j) < Ranked(S, k)
  <1> DEFINE a == Ranked(S, j)
             b == Ranked(S, k)
  <1>1. a \in S /\ b \in S /\ Rank(S, a) = j /\ Rank(S, b) = k
    BY RankedExists
  <1>2. a # b
    BY <1>1, FS_CardinalityType
  <1>3. ~(b < a)
    <2> SUFFICES ASSUME b < a PROVE FALSE
      OBVIOUS
    <2> HIDE DEF a, b
    <2>1. Rank(S, b) < Rank(S, a)
      BY <1>1, RankGrows
    <2> QED
      BY <1>1, <2>1, FS_CardinalityType
  <1> HIDE DEF a, b
  <1>4. a < b
    BY <1>1, <1>2, <1>3
  <1> QED
    BY <1>4 DEF a, b

(* A set of numbers that is not empty has a least element. *)
LEMMA FirstExists ==
    ASSUME NEW S, IsFiniteSet(S), S \subseteq Nat, S # {}
    PROVE  First(S) \in S /\ \A other \in S : First(S) <= other
  <1> DEFINE a == Ranked(S, 1)
  <1>1. Cardinality(S) \in Nat /\ Cardinality(S) # 0
    BY FS_CardinalityType, FS_EmptySet
  <1>2. a \in S /\ Rank(S, a) = 1
    <2>1. 1 \in 1..Cardinality(S)
      BY <1>1
    <2> QED
      BY <2>1, RankedExists
  <1> HIDE DEF a
  <1>3. ASSUME NEW other \in S PROVE a <= other
    <2>0. a \in Nat /\ other \in Nat
      BY <1>2
    <2> SUFFICES ASSUME other < a PROVE FALSE
      BY <2>0
    <2>1. Rank(S, other) \in 1..Cardinality(S) /\ Rank(S, other) < Rank(S, a)
      BY <1>2, RankGrows
    <2> QED
      BY <1>1, <1>2, <2>1
  <1> QED
    BY <1>2, <1>3 DEF First

(* An ideal target lies inside the file. *)
LEMMA TargetInFile ==
    ASSUME NEW s \in Nat, NEW n \in Nat \ {0}, NEW i \in 1..n
    PROVE  (s * i) \div n \in Nat /\ (s * i) \div n <= s
  <1> DEFINE x == s * i
             q == x \div n
  <1>1. x \in Nat /\ s * n \in Nat /\ x <= s * n
    OBVIOUS
  <1> HIDE DEF x
  <1>2. q \in Nat /\ q * n <= x
    BY <1>1
  <1> HIDE DEF q
  <1>3. q * n <= s * n
    BY <1>1, <1>2
  <1>4. q <= s
    BY <1>2, <1>3
  <1> QED
    BY <1>2, <1>4 DEF q, x

(* The cuts of a file, and their number. *)
LEMMA CutsInFile ==
    ASSUME NEW f \in Files, NEW parts \in Nat \ {0}
    PROVE  /\ Cuts(f, parts) \subseteq 1..f.size /\ Cuts(f, parts) \subseteq Nat
           /\ IsFiniteSet(Cuts(f, parts))
           /\ Cardinality(Cuts(f, parts)) \in Nat /\ Cardinality(Cuts(f, parts)) <= parts
  <1> DEFINE s == f.size
             n == IF parts < s THEN parts ELSE s
             After(i) == {e \in f.ends \cup {s} : e >= (s * i) \div n}
             C == {First(After(i)) : i \in 1..n}
             g == [i \in 1..n |-> First(After(i))]
  <1>1. s \in Nat /\ f.ends \subseteq 1..s
    BY RangePlanningAssumption
  <1>2. n \in Nat /\ n <= parts /\ n <= s
    BY <1>1
  <1> HIDE DEF s, n
  <1>3. IsFiniteSet(1..s)
    BY <1>1, FS_Interval
  <1>4. ASSUME NEW i \in 1..n PROVE First(After(i)) \in 1..s
    <2>1. n \in Nat \ {0} /\ s > 0
      BY <1>1, <1>2
    <2>2. (s * i) \div n \in Nat /\ (s * i) \div n <= s
      BY <1>1, <2>1, TargetInFile
    <2>3. After(i) \in SUBSET (1..s) /\ s \in After(i)
      BY <1>1, <2>1, <2>2
    <2> HIDE DEF After
    <2>4. IsFiniteSet(After(i))
      BY <1>3, <2>3, FS_Subset
    <2>5. After(i) \subseteq Nat /\ After(i) # {}
      BY <1>1, <2>3
    <2>6. First(After(i)) \in After(i)
      BY <2>4, <2>5, FirstExists
    <2> QED
      BY <2>3, <2>6
  <1>5. C \in SUBSET (1..s)
    BY <1>4
  <1>6. g \in Surjection(1..n, C)
    BY DEF Surjection
  <1>7. IsFiniteSet(1..n) /\ Cardinality(1..n) = n
    BY <1>2, FS_Interval
  <1> HIDE DEF C, g
  <1>8. C \subseteq Nat
    BY <1>1, <1>5
  <1>9. IsFiniteSet(C)
    BY <1>3, <1>5, FS_Subset
  <1>10. Cardinality(C) <= n /\ Cardinality(C) \in Nat
    BY <1>9, <1>6, <1>7, FS_Surjection, FS_CardinalityType
  <1>11. Cardinality(C) <= parts
    BY <1>2, <1>10
  <1>12. C = Cuts(f, parts)
    BY DEF Cuts, C, s, n
  <1> QED
    BY <1>5, <1>8, <1>9, <1>10, <1>11, <1>12 DEF s

(* The plan of a file: at most as many ranges as asked for, none empty. *)
LEMMA PlanShape ==
    ASSUME NEW f \in Files, NEW parts \in Nat \ {0}
    PROVE  LET P == plan_partition_boundaries(f, parts)
           IN  /\ Len(P) \in Nat /\ Len(P) <= parts
               /\ P = [k \in 1..Len(P) |-> P[k]]
               /\ \A k \in 1..Len(P) : P[k][1] < P[k][2]
  <1> DEFINE C == Cuts(f, parts)
             c == Cardinality(C)
             pair(k) == <<IF k = 1 THEN 0 ELSE Ranked(C, k - 1), Ranked(C, k)>>
             P == plan_partition_boundaries(f, parts)
  <1>1. /\ C \subseteq 1..f.size /\ C \subseteq Nat /\ IsFiniteSet(C)
        /\ c \in Nat /\ c <= parts /\ f.size \in Nat
    BY CutsInFile, RangePlanningAssumption
  <1>2. P = [k \in 1..c |-> pair(k)]
    BY DEF plan_partition_boundaries
  <1> HIDE DEF C, P
  <1>3. ASSUME NEW k \in 1..c PROVE pair(k)[1] < pair(k)[2]
    <2>1. Ranked(C, k) \in 1..f.size
      BY <1>1, RankedExists
    <2>2. CASE k = 1
      <3>1. pair(k) = <<0, Ranked(C, k)>>
        BY <2>2
      <3>2. 0 < Ranked(C, k)
        BY <1>1, <2>1
      <3> QED
        BY <3>1, <3>2
    <2>3. CASE k # 1
      <3>1. k - 1 \in 1..c /\ k - 1 < k
        BY <1>1, <2>3
      <3>2. Ranked(C, k - 1) < Ranked(C, k)
        BY <1>1, <3>1, RankedGrows
      <3> QED
        BY <2>3, <3>2
    <2> QED
      BY <2>2, <2>3
  <1> HIDE DEF c
  <1>4. DOMAIN P = 1..c
    BY <1>2
  <1>5. Len(P) = c
    BY <1>1, <1>4
  <1>6. \A k \in 1..c : P[k] = pair(k)
    BY <1>2
  <1> QED
    BY <1>1, <1>2, <1>3, <1>4, <1>5, <1>6 DEF P
------------------------------------------------------------------------------
(* Before the first call. *)
LEMMA InitInv == Init => RangeInv
  <1> SUFFICES ASSUME Init PROVE RangeInv
    OBVIOUS
  <1>1. /\ req.client \in {"plan_file", "plan_file_ranges", "c"} /\ req.parts \in PartCounts
        /\ req.platform \in {"unix", "windows"} /\ req.options.mode \in SourceMode
        /\ req.client = "plan_file" => req.options.mode = "mmap"
    BY DEF Init, PlannerOptions, SourceMode
  <1>2. /\ path \in Files /\ disturbed = FALSE /\ out_count = 0 /\ result = None
        /\ handles = {} /\ stray = FALSE /\ out_ranges = <<>> /\ capacity \in Capacities \cup {0}
        /\ pc \in {"call", "verify_file"}
        /\ (req.client = "plan_file_ranges" => phase = "count")
    BY DEF Init
  <1>3. TypeInv
    <2>1. PartCounts \subseteq Nat \ {0} /\ Capacities \subseteq Nat
      BY RangePlanningAssumption
    <2>2. req.parts \in Nat \ {0}
      BY <1>1, <2>1
    <2>3. capacity \in Nat
      BY <1>2, <2>1
    <2> QED
      BY <1>1, <1>2, <2>2, <2>3 DEF TypeInv
  <1>4. HandleInv /\ RouteInv /\ ErrorInv
    BY <1>2 DEF HandleInv, RouteInv, ErrorInv, Openers, FileOpen, Holding, MmapSteps,
       MmapWindowsSteps, WindowedSteps, WindowedWindowsSteps
  <1>5. BufferInv
    BY <1>2 DEF BufferInv, Filled
  <1>6. result \notin {"plan", "changed"}
    BY <1>2, RangePlanningAssumption
  <1>7. SourceInv
    BY <1>2, <1>6 DEF SourceInv, HasPlan, Holding, FileOpen
  <1>8. QuietInv
    BY <1>2, <1>6 DEF QuietInv, HasPlan, Holding, FileOpen
  <1>9. ResultInv
    BY <1>2, <1>6 DEF ResultInv
  <1> QED
    BY <1>3, <1>4, <1>5, <1>7, <1>8, <1>9 DEF RangeInv

(* A call in progress has no result yet. *)
LEMMA NoResult ==
    ASSUME RangeInv, pc # "done"
    PROVE  result = None /\ result \notin {"plan", "failed", "changed", "returned"}
  BY RangePlanningAssumption DEF RangeInv, ResultInv

(* The control states outside the openers. *)
Idle == {"verify_file", "call", "probe", "returned", "fill", "lengths", "coverage", "alignment",
         "done"}

(* None of them is a step of an opener. *)
LEMMA IdleStates ==
    ASSUME NEW p \in Idle
    PROVE  /\ p \notin Holding /\ p \notin Openers /\ p \notin FileOpen
           /\ p \notin {"MapViewOfFile", "plan"}
           /\ p \notin MmapSteps /\ p \notin MmapWindowsSteps
           /\ p \notin WindowedSteps /\ p \notin WindowedWindowsSteps
  BY DEF Idle, Holding, Openers, FileOpen, MmapSteps, MmapWindowsSteps, WindowedSteps,
     WindowedWindowsSteps

(* Outside the openers nothing is open and nothing is closed. *)
LEMMA IdleKeeps ==
    ASSUME RangeInv, pc \in Idle, pc' \in Idle, UNCHANGED objects
    PROVE  HandleInv' /\ RouteInv' /\ handles = {}
  <1>1. handles = {} /\ ~stray
    BY IdleStates DEF RangeInv, HandleInv
  <1>2. handles' = handles /\ stray' = stray
    BY DEF objects
  <1> QED
    BY <1>1, <1>2, IdleStates DEF HandleInv, RouteInv

(* A step of an opener, or towards one. *)
LEMMA CallStepKeeps ==
    ASSUME RangeInv, pc \in Calling \cup {"verify_file"}, pc' \in Calling,
           UNCHANGED <<world, attempt, phase, capacity, verified, buffer, code, ranges, result>>,
           HandleInv', RouteInv',
           pc' \in Openers \cup Holding => ~error',
           pc' \in Holding => source' \in Files /\ (~disturbed => source' = path)
    PROVE  RangeInv'
  <1>1. /\ path' = path /\ disturbed' = disturbed /\ req' = req
        /\ phase' = phase /\ capacity' = capacity /\ out_ranges' = out_ranges
        /\ out_count' = out_count /\ ranges' = ranges /\ result' = result
    BY DEF world, buffer
  <1>2. /\ pc \notin {"returned", "coverage", "alignment", "done", "fill", "lengths"}
        /\ pc' \notin {"returned", "coverage", "alignment", "done", "fill", "lengths"}
    BY DEF Calling, Openers, Holding, FileOpen
  <1>3. result = None /\ result \notin {"plan", "changed"}
    BY <1>2, NoResult
  <1>4. TypeInv'
    BY <1>1 DEF RangeInv, TypeInv
  <1>5. ErrorInv'
    BY <1>2 DEF ErrorInv
  <1>6. BufferInv'
    BY <1>1, <1>2 DEF RangeInv, BufferInv, Filled
  <1>7. SourceInv'
    BY <1>1, <1>2, <1>3 DEF SourceInv, HasPlan
  <1>8. QuietInv'
    BY <1>1, <1>2, <1>3 DEF RangeInv, QuietInv, HasPlan, Plan
  <1>9. ResultInv'
    BY <1>1, <1>2, <1>3 DEF ResultInv
  <1> QED
    BY <1>4, <1>5, <1>6, <1>7, <1>8, <1>9 DEF RangeInv

(* A native call that fails, and closes what is open. *)
LEMMA NativeFailsKeeps ==
    ASSUME RangeInv, pc \in Calling, NEW closed, NativeFails(closed), closed = handles
    PROVE  RangeInv'
  <1>1. /\ path' = path /\ disturbed' = disturbed /\ req' = req
        /\ phase' = phase /\ capacity' = capacity /\ out_ranges' = out_ranges
        /\ out_count' = out_count /\ result' = result
        /\ handles' = {} /\ ~stray' /\ code' = -1 /\ pc' = "returned"
    BY DEF NativeFails, Close, world, python, buffer, RangeInv, HandleInv
  <1>2. pc \notin {"returned", "coverage", "alignment", "done", "fill", "lengths"}
        /\ pc' \in Idle
    BY <1>1 DEF Calling, Openers, Holding, FileOpen, Idle
  <1>3. result = None /\ result \notin {"plan", "changed"}
    BY <1>2, NoResult
  <1>4. TypeInv'
    BY <1>1 DEF RangeInv, TypeInv
  <1>5. HandleInv' /\ RouteInv' /\ ErrorInv'
    BY <1>1, <1>2, IdleStates DEF HandleInv, RouteInv, ErrorInv
  <1>6. BufferInv'
    BY <1>1, <1>2 DEF RangeInv, BufferInv, Filled
  <1>7. SourceInv'
    BY <1>1, <1>2, <1>3, IdleStates DEF SourceInv, HasPlan
  <1>8. QuietInv'
    <2>1. ~HasPlan' /\ pc' \notin Holding
      BY <1>1, <1>2, <1>3, IdleStates DEF HasPlan
    <2>2. Plan(path)' = Plan(path)
      BY <1>1 DEF Plan
    <2> QED
      BY <1>1, <1>3, <2>1, <2>2 DEF RangeInv, QuietInv
  <1>9. ResultInv'
    BY <1>1, <1>3 DEF ResultInv
  <1> QED
    BY <1>4, <1>5, <1>6, <1>7, <1>8, <1>9 DEF RangeInv

(* An open of the path that succeeds. *)
LEMMA OpenedPath ==
    ASSUME RangeInv, path # Missing
    PROVE  path \in Files
  BY DEF RangeInv, TypeInv

(* Another process renames a file over the path: the file an open returned *)
(* and everything planned from it stay.                                    *)
LEMMA ReplaceKeeps ==
    ASSUME RangeInv, NEW f \in Files \cup {Missing}, Replace(f)
    PROVE  RangeInv'
  <1>1. /\ path' = f /\ disturbed' = TRUE /\ req' = req /\ pc' = pc
        /\ file_size' = file_size /\ capacity' = capacity /\ verified' = verified
        /\ out_ranges' = out_ranges /\ out_count' = out_count /\ code' = code
        /\ error' = error /\ source' = source /\ handles' = handles
        /\ owned' = owned /\ stray' = stray /\ ranges' = ranges /\ result' = result
    BY DEF Replace, python, buffer, objects
  <1>2. TypeInv' /\ QuietInv'
    BY <1>1 DEF RangeInv, TypeInv, QuietInv
  <1>3. HandleInv' /\ RouteInv' /\ ErrorInv'
    <2>1. Dropped' = Dropped
      BY <1>1 DEF Dropped, DropMmapFile, DropWindowedMmapFile, DropPreadSource
    <2> QED
      BY <1>1, <2>1 DEF RangeInv, HandleInv, RouteInv, ErrorInv
  <1>4. BufferInv'
    BY <1>1 DEF RangeInv, BufferInv, Filled
  <1>5. SourceInv'
    BY <1>1 DEF RangeInv, SourceInv, HasPlan, Plan
  <1>6. ResultInv'
    <2>1. Pairs' = Pairs
      BY <1>1 DEF Pairs
    <2>2. PairsEnd' = PairsEnd
      BY <2>1 DEF PairsEnd
    <2>3. Tiles' = Tiles
      BY <1>1, <2>1, <2>2 DEF Tiles
    <2> QED
      BY <1>1, <2>1, <2>3 DEF RangeInv, ResultInv
  <1> QED
    BY <1>2, <1>3, <1>4, <1>5, <1>6 DEF RangeInv

(* A step that changes nothing. *)
LEMMA StutterKeeps == RangeInv /\ UNCHANGED vars => RangeInv'
  <1> SUFFICES ASSUME RangeInv, UNCHANGED vars PROVE RangeInv'
    OBVIOUS
  <1>1. /\ path' = path /\ disturbed' = disturbed /\ req' = req /\ pc' = pc
        /\ file_size' = file_size /\ capacity' = capacity /\ verified' = verified
        /\ out_ranges' = out_ranges /\ out_count' = out_count /\ code' = code
        /\ error' = error /\ source' = source /\ handles' = handles /\ phase' = phase
        /\ owned' = owned /\ stray' = stray /\ ranges' = ranges /\ result' = result
    BY DEF vars
  <1>2. TypeInv' /\ QuietInv'
    BY <1>1 DEF RangeInv, TypeInv, QuietInv, HasPlan, Plan
  <1>3. HandleInv' /\ RouteInv' /\ ErrorInv'
    <2>1. Dropped' = Dropped
      BY <1>1 DEF Dropped, DropMmapFile, DropWindowedMmapFile, DropPreadSource
    <2> QED
      BY <1>1, <2>1 DEF RangeInv, HandleInv, RouteInv, ErrorInv
  <1>4. BufferInv'
    BY <1>1 DEF RangeInv, BufferInv, Filled
  <1>5. SourceInv'
    BY <1>1 DEF RangeInv, SourceInv, HasPlan, Plan
  <1>6. ResultInv'
    <2>1. Pairs' = Pairs
      BY <1>1 DEF Pairs
    <2>2. PairsEnd' = PairsEnd
      BY <2>1 DEF PairsEnd
    <2>3. Tiles' = Tiles
      BY <1>1, <2>1, <2>2 DEF Tiles
    <2> QED
      BY <1>1, <2>1, <2>3 DEF RangeInv, ResultInv
  <1> QED
    BY <1>2, <1>3, <1>4, <1>5, <1>6 DEF RangeInv

(* The checks and probes before anything is held. *)
LEMMA StartKeeps ==
    ASSUME RangeInv, CheckArguments \/ open_path_windows \/ open_windows \/ ProbeUnix
                     \/ ProbeUnmapped
    PROVE  RangeInv'
  <1>1. pc \in {"call", "probe"}
    BY DEF CheckArguments, open_path_windows, open_windows, ProbeUnix, ProbeUnmapped, ProbeThen
  <1>2. pc \in Calling /\ pc \in Idle
    BY <1>1 DEF Calling, Idle
  <1>3. handles = {} /\ ~stray
    BY <1>2, IdleStates DEF RangeInv, HandleInv
  <1>4. CASE NativeFails({})
    BY <1>2, <1>3, <1>4, NativeFailsKeeps
  <1>5. CASE ~NativeFails({})
    <2>1. /\ ~error'
          /\ UNCHANGED <<world, python, buffer, code, source, objects, ranges, result>>
          /\ \/ pc' = "probe"
             \/ pc' = "CreateFileW" /\ req.options.mode = "mmap" /\ req.platform = "windows"
             \/ pc' = "open" /\ req.options.mode = "mmap"
             \/ pc' = "window size" /\ req.options.mode = "windowed"
             \/ pc' = "pread open"
      BY <1>5 DEF CheckArguments, open_path_windows, open_windows, ProbeUnix, ProbeUnmapped,
         ProbeThen, RangeInv, TypeInv
    <2>2. pc' \in {"probe"} \cup Openers /\ pc' \in Calling /\ pc' \notin Holding
          /\ pc' \notin FileOpen /\ pc' \notin {"MapViewOfFile", "plan"}
      BY <2>1 DEF Calling, Openers, Holding, FileOpen
    <2>3. UNCHANGED <<world, attempt, phase, capacity, verified, buffer, code, ranges, result>>
      BY <2>1 DEF python
    <2>4. HandleInv'
      BY <1>3, <2>1, <2>2 DEF HandleInv, objects
    <2>5. RouteInv'
      BY <2>1 DEF RouteInv, MmapSteps, MmapWindowsSteps, WindowedSteps, WindowedWindowsSteps,
         world
    <2> QED
      BY <1>2, <2>1, <2>2, <2>3, <2>4, <2>5, CallStepKeeps
  <1> QED
    BY <1>4, <1>5
------------------------------------------------------------------------------
(* The openers. *)

(* No error message is pending in an opener. *)
LEMMA OpenerQuiet ==
    ASSUME RangeInv, pc \in Openers \cup Holding
    PROVE  ~error /\ ~stray /\ pc \in Calling
  BY DEF RangeInv, ErrorInv, HandleInv, Calling

(* The path is opened. *)
LEMMA OpensFileKeeps ==
    ASSUME RangeInv, pc \in Openers, NEW next \in FileOpen, OpensFile(next), RouteInv'
    PROVE  RangeInv'
  <1>1. ~error /\ ~stray /\ pc \in Calling /\ handles = {}
    BY OpenerQuiet DEF RangeInv, HandleInv, Openers, Holding, FileOpen
  <1>2. /\ path # Missing /\ source' = path /\ handles' = {"file"} /\ pc' = next
        /\ error' = error /\ stray' = stray
        /\ UNCHANGED <<world, attempt, phase, capacity, verified, buffer, code, ranges, result>>
    BY <1>1 DEF OpensFile, python
  <1>3. pc' \in Holding /\ pc' \in Calling /\ pc' \in FileOpen
        /\ pc' \notin {"MapViewOfFile", "plan"}
    BY <1>2 DEF Holding, Calling, FileOpen
  <1>4. HandleInv'
    BY <1>1, <1>2, <1>3 DEF HandleInv
  <1> QED
    BY <1>1, <1>2, <1>3, <1>4, OpenedPath, CallStepKeeps

(* A step that opens nothing more. *)
LEMMA GoesOnKeeps ==
    ASSUME RangeInv, NEW next, GoesOn(next), RouteInv',
           \/ pc \in Openers /\ next \in Openers
           \/ pc \in FileOpen /\ next \in FileOpen
    PROVE  RangeInv'
  <1>1. pc \in Openers \cup Holding
    BY DEF Holding
  <1>2. ~error /\ ~stray /\ pc \in Calling
    BY <1>1, OpenerQuiet
  <1>3. /\ pc' = next /\ error' = error /\ stray' = stray /\ handles' = handles
        /\ source' = source
        /\ UNCHANGED <<world, attempt, phase, capacity, verified, buffer, code, ranges, result>>
    BY DEF GoesOn, python, objects
  <1>4. pc' \in Calling /\ pc' \notin {"MapViewOfFile", "plan"}
        /\ (pc \in Holding <=> pc' \in Holding) /\ (pc \in FileOpen <=> pc' \in FileOpen)
    BY <1>3 DEF Calling, Holding, FileOpen, Openers
  <1>5. HandleInv'
    BY <1>2, <1>3, <1>4 DEF RangeInv, HandleInv
  <1>6. pc' \in Holding => source' \in Files /\ (~disturbed => source' = path)
    BY <1>3, <1>4 DEF RangeInv, SourceInv, QuietInv
  <1> QED
    BY <1>2, <1>3, <1>4, <1>5, <1>6, CallStepKeeps

(* An opener returns a source whose fields are what is open: its Drop will *)
(* close them all.                                                         *)
LEMMA ReturnsKeeps ==
    ASSUME RangeInv, pc \in Holding, NEW fields, Returns(fields), handles' = fields, ~stray',
           \/ fields \subseteq {"file"}
           \/ fields \subseteq {"view", "file"} /\ req.options.mode # "pread"
           \/ /\ fields \subseteq {"view", "mapping", "file"} /\ req.options.mode # "pread"
              /\ req.platform = "windows"
    PROVE  RangeInv'
  <1>1. ~error /\ pc \in Calling
    BY OpenerQuiet
  <1>2. /\ pc' = "plan" /\ error' = error /\ source' = source /\ owned' = fields /\ req' = req
        /\ UNCHANGED <<world, attempt, phase, capacity, verified, buffer, code, ranges, result>>
    BY DEF Returns, python, world
  <1>3. pc' \in Holding /\ pc' \in Calling /\ pc' \notin FileOpen /\ pc' # "MapViewOfFile"
    BY <1>2 DEF Holding, Calling, FileOpen
  <1>4. req.options.mode \in SourceMode /\ req.platform \in {"unix", "windows"}
    BY DEF RangeInv, TypeInv
  <1>5. Dropped' = fields
    <2>1. CASE req.options.mode = "mmap"
      <3>1. Dropped' = DropMmapFile'
        BY <1>2, <2>1 DEF Dropped
      <3> QED
        BY <1>2, <1>4, <2>1, <3>1 DEF DropMmapFile
    <2>2. CASE req.options.mode = "windowed"
      <3>1. Dropped' = DropWindowedMmapFile'
        BY <1>2, <2>2 DEF Dropped
      <3> QED
        BY <1>2, <1>4, <2>2, <3>1 DEF DropWindowedMmapFile
    <2>3. CASE req.options.mode = "pread"
      <3>1. Dropped' = DropPreadSource'
        BY <1>2, <2>3 DEF Dropped
      <3> QED
        BY <1>2, <2>3, <3>1 DEF DropPreadSource
    <2> QED
      BY <1>4, <2>1, <2>2, <2>3 DEF SourceMode
  <1>6. HandleInv'
    BY <1>2, <1>3, <1>5 DEF HandleInv
  <1>7. RouteInv'
    BY <1>2 DEF RouteInv, MmapSteps, MmapWindowsSteps, WindowedSteps, WindowedWindowsSteps
  <1>8. source' \in Files /\ (~disturbed => source' = path)
    BY <1>2 DEF RangeInv, SourceInv, QuietInv
  <1> QED
    BY <1>1, <1>2, <1>3, <1>6, <1>7, <1>8, CallStepKeeps

(* MmapFile::open_unix. *)
LEMMA UnixKeeps ==
    ASSUME RangeInv, OpenUnix \/ LseekUnix \/ MmapUnix
    PROVE  RangeInv'
  <1>1. CASE OpenUnix
    <2>1. pc = "open" /\ pc \in Openers /\ pc \in Calling /\ handles = {}
          /\ req.options.mode = "mmap"
      BY <1>1 DEF OpenUnix, Openers, Calling, Holding, FileOpen, RangeInv, HandleInv, RouteInv,
         MmapSteps
    <2>2. CASE NativeFails({})
      BY <2>1, <2>2, NativeFailsKeeps
    <2>3. CASE OpensFile("lseek")
      <3>1. RouteInv'
        BY <2>1, <2>3 DEF OpensFile, RouteInv, world, MmapSteps, MmapWindowsSteps,
           WindowedSteps, WindowedWindowsSteps
      <3> QED
        BY <2>1, <2>3, <3>1, OpensFileKeeps DEF FileOpen
    <2> QED
      BY <1>1, <2>2, <2>3 DEF OpenUnix
  <1>2. CASE LseekUnix
    <2>1. pc = "lseek" /\ pc \in FileOpen /\ pc \in Holding /\ pc \in Calling
          /\ handles = {"file"} /\ ~stray /\ req.options.mode = "mmap"
      BY <1>2 DEF LseekUnix, Openers, Calling, Holding, FileOpen, RangeInv, HandleInv, RouteInv,
         MmapSteps
    <2>2. CASE NativeFails({"file"})
      BY <2>1, <2>2, NativeFailsKeeps
    <2>3. CASE Close({"file"}) /\ Returns({})
      <3>1. handles' = {} /\ ~stray'
        BY <2>1, <2>3 DEF Close
      <3> QED
        BY <2>1, <2>3, <3>1, ReturnsKeeps
    <2>4. CASE GoesOn("mmap")
      <3>1. RouteInv'
        BY <2>1, <2>4 DEF GoesOn, RouteInv, world, MmapSteps, MmapWindowsSteps,
           WindowedSteps, WindowedWindowsSteps
      <3> QED
        BY <2>1, <2>4, <3>1, GoesOnKeeps DEF FileOpen
    <2> QED
      BY <1>2, <2>2, <2>3, <2>4 DEF LseekUnix
  <1>3. CASE MmapUnix
    <2>1. pc = "mmap" /\ pc \in Holding /\ pc \in Calling
          /\ handles = {"file"} /\ ~stray /\ req.options.mode = "mmap"
      BY <1>3 DEF MmapUnix, Openers, Calling, Holding, FileOpen, RangeInv, HandleInv, RouteInv,
         MmapSteps
    <2>2. CASE NativeFails({"file"})
      BY <2>1, <2>2, NativeFailsKeeps
    <2>3. CASE handles' = handles \cup {"view"} /\ Returns({"view", "file"}) /\ UNCHANGED stray
      <3>1. handles' = {"view", "file"} /\ ~stray'
        BY <2>1, <2>3
      <3> QED
        BY <2>1, <2>3, <3>1, ReturnsKeeps
    <2> QED
      BY <1>3, <2>2, <2>3 DEF MmapUnix
  <1> QED
    BY <1>1, <1>2, <1>3

(* MmapFile::open_windows_wide. *)
LEMMA WindowsKeeps ==
    ASSUME RangeInv, CreateFileW \/ GetFileSizeEx \/ CreateFileMappingW \/ MapViewOfFile
    PROVE  RangeInv'
  <1>1. CASE CreateFileW
    <2>1. pc = "CreateFileW" /\ pc \in Openers /\ pc \in Calling /\ handles = {}
          /\ req.options.mode = "mmap" /\ req.platform = "windows"
      BY <1>1 DEF CreateFileW, Openers, Calling, Holding, FileOpen, RangeInv, HandleInv,
         RouteInv, MmapWindowsSteps
    <2>2. CASE NativeFails({})
      BY <2>1, <2>2, NativeFailsKeeps
    <2>3. CASE OpensFile("GetFileSizeEx")
      <3>1. RouteInv'
        BY <2>1, <2>3 DEF OpensFile, RouteInv, world, MmapSteps, MmapWindowsSteps,
           WindowedSteps, WindowedWindowsSteps
      <3> QED
        BY <2>1, <2>3, <3>1, OpensFileKeeps DEF FileOpen
    <2> QED
      BY <1>1, <2>2, <2>3 DEF CreateFileW
  <1>2. CASE GetFileSizeEx
    <2>1. pc = "GetFileSizeEx" /\ pc \in FileOpen /\ pc \in Holding /\ pc \in Calling
          /\ handles = {"file"} /\ ~stray
          /\ req.options.mode = "mmap" /\ req.platform = "windows"
      BY <1>2 DEF GetFileSizeEx, Openers, Calling, Holding, FileOpen, RangeInv, HandleInv,
         RouteInv, MmapWindowsSteps
    <2>2. CASE NativeFails({"file"})
      BY <2>1, <2>2, NativeFailsKeeps
    <2>3. CASE Close({"file"}) /\ Returns({})
      <3>1. handles' = {} /\ ~stray'
        BY <2>1, <2>3 DEF Close
      <3> QED
        BY <2>1, <2>3, <3>1, ReturnsKeeps
    <2>4. CASE GoesOn("CreateFileMappingW")
      <3>1. RouteInv'
        BY <2>1, <2>4 DEF GoesOn, RouteInv, world, MmapSteps, MmapWindowsSteps,
           WindowedSteps, WindowedWindowsSteps
      <3> QED
        BY <2>1, <2>4, <3>1, GoesOnKeeps DEF FileOpen
    <2> QED
      BY <1>2, <2>2, <2>3, <2>4 DEF GetFileSizeEx
  <1>3. CASE CreateFileMappingW
    <2>1. pc = "CreateFileMappingW" /\ pc \in Holding /\ pc \in Calling
          /\ handles = {"file"} /\ ~stray /\ ~error
          /\ req.options.mode = "mmap" /\ req.platform = "windows"
      BY <1>3, OpenerQuiet DEF CreateFileMappingW, Openers, Calling, Holding, FileOpen,
         RangeInv, HandleInv, RouteInv, MmapWindowsSteps
    <2>2. CASE NativeFails({"file"})
      BY <2>1, <2>2, NativeFailsKeeps
    <2>3. CASE Acquires("mapping", "MapViewOfFile")
      <3>1. /\ handles' = {"mapping", "file"} /\ ~stray' /\ ~error' /\ req' = req
            /\ pc' = "MapViewOfFile" /\ source' = source
            /\ UNCHANGED <<world, attempt, phase, capacity, verified, buffer, code, ranges,
                           result>>
        BY <2>1, <2>3 DEF Acquires, python, world
      <3>2. pc' \in Holding /\ pc' \in Calling /\ pc' \notin FileOpen
        BY <3>1 DEF Holding, Calling, FileOpen
      <3>3. HandleInv'
        BY <3>1, <3>2 DEF HandleInv
      <3>4. RouteInv'
        BY <2>1, <3>1 DEF RouteInv, MmapSteps, MmapWindowsSteps, WindowedSteps,
           WindowedWindowsSteps
      <3>5. source' \in Files /\ (~disturbed => source' = path)
        BY <2>1, <3>1 DEF RangeInv, SourceInv, QuietInv
      <3> QED
        BY <2>1, <3>1, <3>2, <3>3, <3>4, <3>5, CallStepKeeps
    <2> QED
      BY <1>3, <2>2, <2>3 DEF CreateFileMappingW
  <1>4. CASE MapViewOfFile
    <2>1. pc = "MapViewOfFile" /\ pc \in Holding /\ pc \in Calling
          /\ handles = {"mapping", "file"} /\ ~stray
          /\ req.options.mode = "mmap" /\ req.platform = "windows"
      BY <1>4 DEF MapViewOfFile, Openers, Calling, Holding, FileOpen, RangeInv, HandleInv,
         RouteInv, MmapWindowsSteps
    <2>2. CASE NativeFails({"mapping", "file"})
      BY <2>1, <2>2, NativeFailsKeeps
    <2>3. CASE /\ handles' = handles \cup {"view"} /\ Returns({"view", "mapping", "file"})
               /\ UNCHANGED stray
      <3>1. handles' = {"view", "mapping", "file"} /\ ~stray'
        BY <2>1, <2>3
      <3> QED
        BY <2>1, <2>3, <3>1, ReturnsKeeps
    <2> QED
      BY <1>4, <2>2, <2>3 DEF MapViewOfFile
  <1> QED
    BY <1>1, <1>2, <1>3, <1>4

(* WindowedMmapFile::open_path, on both platforms. *)
LEMMA WindowedKeeps ==
    ASSUME RangeInv,
           \/ open_windowed \/ WindowedOpen \/ WindowedLseek
           \/ WindowedCreateFileW \/ WindowedGetFileSizeEx \/ WindowedCreateFileMappingW
    PROVE  RangeInv'
  <1>1. CASE open_windowed
    <2>1. pc = "window size" /\ pc \in Openers /\ pc \in Calling /\ handles = {}
          /\ req.options.mode = "windowed" /\ req.platform \in {"unix", "windows"}
      BY <1>1 DEF open_windowed, Openers, Calling, Holding, FileOpen, RangeInv, HandleInv,
         RouteInv, WindowedSteps, TypeInv
    <2>2. CASE NativeFails({})
      BY <2>1, <2>2, NativeFailsKeeps
    <2> DEFINE next == IF req.platform = "unix" THEN "windowed open" ELSE "windowed CreateFileW"
    <2>3. CASE GoesOn(next)
      <3>1. RouteInv'
        BY <2>1, <2>3 DEF GoesOn, RouteInv, world, MmapSteps, MmapWindowsSteps,
           WindowedSteps, WindowedWindowsSteps
      <3>2. next \in Openers
        BY DEF Openers
      <3> HIDE DEF next
      <3> QED
        BY <2>1, <2>3, <3>1, <3>2, GoesOnKeeps
    <2> QED
      BY <1>1, <2>2, <2>3 DEF open_windowed
  <1>2. CASE WindowedOpen
    <2>1. pc = "windowed open" /\ pc \in Openers /\ pc \in Calling /\ handles = {}
          /\ req.options.mode = "windowed"
      BY <1>2 DEF WindowedOpen, Openers, Calling, Holding, FileOpen, RangeInv, HandleInv,
         RouteInv, WindowedSteps
    <2>2. CASE NativeFails({})
      BY <2>1, <2>2, NativeFailsKeeps
    <2>3. CASE OpensFile("windowed lseek")
      <3>1. RouteInv'
        BY <2>1, <2>3 DEF OpensFile, RouteInv, world, MmapSteps, MmapWindowsSteps,
           WindowedSteps, WindowedWindowsSteps
      <3> QED
        BY <2>1, <2>3, <3>1, OpensFileKeeps DEF FileOpen
    <2> QED
      BY <1>2, <2>2, <2>3 DEF WindowedOpen
  <1>3. CASE WindowedLseek
    <2>1. pc = "windowed lseek" /\ pc \in Holding /\ pc \in Calling
          /\ handles = {"file"} /\ ~stray
      BY <1>3 DEF WindowedLseek, Openers, Calling, Holding, FileOpen, RangeInv, HandleInv
    <2>2. CASE NativeFails({"file"})
      BY <2>1, <2>2, NativeFailsKeeps
    <2>3. CASE Returns({"file"}) /\ UNCHANGED <<handles, stray>>
      BY <2>1, <2>3, ReturnsKeeps
    <2> QED
      BY <1>3, <2>2, <2>3 DEF WindowedLseek
  <1>4. CASE WindowedCreateFileW
    <2>1. pc = "windowed CreateFileW" /\ pc \in Openers /\ pc \in Calling /\ handles = {}
          /\ req.options.mode = "windowed" /\ req.platform = "windows"
      BY <1>4 DEF WindowedCreateFileW, Openers, Calling, Holding, FileOpen, RangeInv, HandleInv,
         RouteInv, WindowedWindowsSteps
    <2>2. CASE NativeFails({})
      BY <2>1, <2>2, NativeFailsKeeps
    <2>3. CASE OpensFile("windowed GetFileSizeEx")
      <3>1. RouteInv'
        BY <2>1, <2>3 DEF OpensFile, RouteInv, world, MmapSteps, MmapWindowsSteps,
           WindowedSteps, WindowedWindowsSteps
      <3> QED
        BY <2>1, <2>3, <3>1, OpensFileKeeps DEF FileOpen
    <2> QED
      BY <1>4, <2>2, <2>3 DEF WindowedCreateFileW
  <1>5. CASE WindowedGetFileSizeEx
    <2>1. pc = "windowed GetFileSizeEx" /\ pc \in FileOpen /\ pc \in Holding /\ pc \in Calling
          /\ handles = {"file"} /\ ~stray
          /\ req.options.mode = "windowed" /\ req.platform = "windows"
      BY <1>5 DEF WindowedGetFileSizeEx, Openers, Calling, Holding, FileOpen, RangeInv,
         HandleInv, RouteInv, WindowedWindowsSteps
    <2>2. CASE NativeFails({"file"})
      BY <2>1, <2>2, NativeFailsKeeps
    <2>3. CASE Returns({"file"}) /\ UNCHANGED <<handles, stray>>
      BY <2>1, <2>3, ReturnsKeeps
    <2>4. CASE GoesOn("windowed CreateFileMappingW")
      <3>1. RouteInv'
        BY <2>1, <2>4 DEF GoesOn, RouteInv, world, MmapSteps, MmapWindowsSteps,
           WindowedSteps, WindowedWindowsSteps
      <3> QED
        BY <2>1, <2>4, <3>1, GoesOnKeeps DEF FileOpen
    <2> QED
      BY <1>5, <2>2, <2>3, <2>4 DEF WindowedGetFileSizeEx
  <1>6. CASE WindowedCreateFileMappingW
    <2>1. pc = "windowed CreateFileMappingW" /\ pc \in Holding /\ pc \in Calling
          /\ handles = {"file"} /\ ~stray
          /\ req.options.mode = "windowed" /\ req.platform = "windows"
      BY <1>6 DEF WindowedCreateFileMappingW, Openers, Calling, Holding, FileOpen, RangeInv,
         HandleInv, RouteInv, WindowedWindowsSteps
    <2>2. CASE NativeFails({"file"})
      BY <2>1, <2>2, NativeFailsKeeps
    <2>3. CASE handles' = handles \cup {"mapping"} /\ Returns({"mapping", "file"})
               /\ UNCHANGED stray
      <3>1. handles' = {"mapping", "file"} /\ ~stray'
        BY <2>1, <2>3
      <3> QED
        BY <2>1, <2>3, <3>1, ReturnsKeeps
    <2> QED
      BY <1>6, <2>2, <2>3 DEF WindowedCreateFileMappingW
  <1> QED
    BY <1>1, <1>2, <1>3, <1>4, <1>5, <1>6

(* PreadSource::open_path. *)
LEMMA PreadKeeps ==
    ASSUME RangeInv, PreadOpen \/ PreadMetadata
    PROVE  RangeInv'
  <1>1. CASE PreadOpen
    <2>1. pc = "pread open" /\ pc \in Openers /\ pc \in Calling /\ handles = {}
      BY <1>1 DEF PreadOpen, Openers, Calling, Holding, FileOpen, RangeInv, HandleInv
    <2>2. CASE NativeFails({})
      BY <2>1, <2>2, NativeFailsKeeps
    <2>3. CASE OpensFile("pread metadata")
      <3>1. RouteInv'
        BY <2>3 DEF OpensFile, RouteInv, MmapSteps, MmapWindowsSteps, WindowedSteps,
           WindowedWindowsSteps
      <3> QED
        BY <2>1, <2>3, <3>1, OpensFileKeeps DEF FileOpen
    <2> QED
      BY <1>1, <2>2, <2>3 DEF PreadOpen
  <1>2. CASE PreadMetadata
    <2>1. pc = "pread metadata" /\ pc \in Holding /\ pc \in Calling
          /\ handles = {"file"} /\ ~stray
      BY <1>2 DEF PreadMetadata, Openers, Calling, Holding, FileOpen, RangeInv, HandleInv
    <2>2. CASE NativeFails({"file"})
      BY <2>1, <2>2, NativeFailsKeeps
    <2>3. CASE Returns({"file"}) /\ UNCHANGED <<handles, stray>>
      BY <2>1, <2>3, ReturnsKeeps
    <2> QED
      BY <1>2, <2>2, <2>3 DEF PreadMetadata
  <1> QED
    BY <1>1, <1>2

(* The first read of a windowed source caches a view, which Drop unmaps. *)
LEMMA ReadAtKeeps ==
    ASSUME RangeInv, WindowedReadAt
    PROVE  RangeInv'
  <1>1. /\ pc = "plan" /\ pc' = "plan" /\ req.options.mode = "windowed"
        /\ handles' = handles \cup {"view"} /\ owned' = owned \cup {"view"}
        /\ error' = error /\ stray' = stray /\ source' = source /\ req' = req
        /\ UNCHANGED <<world, attempt, phase, capacity, verified, buffer, code, ranges, result>>
    BY DEF WindowedReadAt, python, world
  <1>2. pc \in Holding /\ pc' \in Holding /\ pc' \in Calling /\ pc' \notin FileOpen
        /\ pc' # "MapViewOfFile"
    BY <1>1 DEF Holding, Calling, FileOpen
  <1>3. ~error /\ ~stray /\ pc \in Calling
    BY <1>2, OpenerQuiet
  <1>4. handles = owned /\ Dropped = owned
    BY <1>1 DEF RangeInv, HandleInv
  <1>5. Dropped' = owned'
    <2>1. Dropped = DropWindowedMmapFile /\ Dropped' = DropWindowedMmapFile'
      BY <1>1 DEF Dropped
    <2> QED
      BY <1>1, <1>4, <2>1 DEF DropWindowedMmapFile
  <1>6. HandleInv'
    BY <1>1, <1>2, <1>3, <1>4, <1>5 DEF HandleInv
  <1>7. RouteInv'
    BY <1>1 DEF RouteInv, MmapSteps, MmapWindowsSteps, WindowedSteps, WindowedWindowsSteps
  <1>8. source' \in Files /\ (~disturbed => source' = path)
    BY <1>1, <1>2 DEF RangeInv, SourceInv, QuietInv
  <1> QED
    BY <1>1, <1>2, <1>3, <1>6, <1>7, <1>8, CallStepKeeps

(* os.stat of the path, before the planner is called. *)
LEMMA VerifyFileKeeps ==
    ASSUME RangeInv, _verify_file, path # Missing
    PROVE  RangeInv'
  <1>1. /\ pc = "verify_file" /\ pc' \in {"probe", "call"} /\ UNCHANGED objects
        /\ UNCHANGED <<world, attempt, phase, capacity, verified, buffer, code, ranges, result>>
    BY DEF _verify_file
  <1>2. pc' \in Calling /\ pc' \in Idle /\ pc \in Idle
    BY <1>1 DEF Calling, Idle
  <1>3. HandleInv' /\ RouteInv'
    BY <1>1, <1>2, IdleKeeps
  <1>4. pc' \notin Holding /\ pc' \notin Openers
    BY <1>2, IdleStates
  <1> QED
    BY <1>1, <1>2, <1>3, <1>4, CallStepKeeps

(* A call that ends without a plan. *)
LEMMA FinishKeeps ==
    ASSUME RangeInv, NEW o \in {"failed", "returned", "changed"}, Finish(o),
           o = "changed" => disturbed, pc \in Idle
    PROVE  RangeInv'
  <1>1. /\ path' = path /\ disturbed' = disturbed /\ req' = req /\ pc' = "done"
        /\ file_size' = file_size /\ capacity' = capacity
        /\ out_ranges' = out_ranges /\ out_count' = out_count /\ code' = code
        /\ error' = error /\ source' = source /\ phase' = phase
        /\ ranges' = ranges /\ result' = o
    BY DEF Finish, world, buffer
  <1>2. TypeInv'
    BY <1>1 DEF RangeInv, TypeInv
  <1>3. HandleInv' /\ RouteInv' /\ ErrorInv'
    <2>1. pc' \in Idle /\ UNCHANGED objects
      BY <1>1 DEF Idle, Finish
    <2> QED
      BY <1>1, <2>1, IdleKeeps, IdleStates DEF ErrorInv
  <1>4. BufferInv'
    BY <1>1 DEF RangeInv, BufferInv, Filled
  <1>5. ~HasPlan' /\ pc' \notin Holding
    BY <1>1 DEF HasPlan, Holding, FileOpen
  <1>6. SourceInv'
    BY <1>1, <1>5 DEF SourceInv
  <1>7. QuietInv'
    <2>1. Plan(path)' = Plan(path)
      BY <1>1 DEF Plan
    <2> QED
      BY <1>1, <1>5, <2>1 DEF RangeInv, QuietInv
  <1>8. ResultInv'
    BY <1>1 DEF ResultInv
  <1> QED
    BY <1>2, <1>3, <1>4, <1>6, <1>7, <1>8 DEF RangeInv

(* plan_partition_ranges: the plan is that of the file opened, which is    *)
(* closed again.                                                           *)
LEMMA PlanKeeps ==
    ASSUME RangeInv, plan_partition_ranges
    PROVE  RangeInv'
  <1>1. pc = "plan" /\ pc \in Calling /\ pc \in Holding
    BY DEF plan_partition_ranges, Calling, Holding
  <1>2. Dropped = handles /\ ~stray
    BY <1>1 DEF RangeInv, HandleInv
  <1>3. CASE NativeFails(Dropped)
    BY <1>1, <1>2, <1>3, NativeFailsKeeps
  <1>4. CASE ~NativeFails(Dropped)
    <2>1. /\ path' = path /\ disturbed' = disturbed /\ req' = req
          /\ capacity' = capacity
          /\ out_ranges' = out_ranges /\ out_count' = out_count /\ code' = code
          /\ error' = error /\ source' = source /\ Close(Dropped) /\ phase' = phase
          /\ ranges' = Plan(source) /\ result' = result
          /\ pc' = (IF req.client = "plan_file" THEN "lengths" ELSE "fill")
      BY <1>4 DEF plan_partition_ranges, world, python, buffer, Plan
    <2>2. result = None /\ result \notin {"plan", "changed"}
      BY <1>1, NoResult
    <2>3. ~error /\ source \in Files /\ (~disturbed => path \in Files /\ source = path)
      BY <1>1 DEF RangeInv, ErrorInv, SourceInv, QuietInv
    <2>4. TypeInv' /\ ErrorInv'
      BY <2>1, <2>3 DEF RangeInv, TypeInv, ErrorInv
    <2>5. HandleInv' /\ RouteInv'
      <3>1. handles' = {} /\ ~stray'
        BY <1>2, <2>1 DEF Close
      <3>2. pc' \in Idle
        BY <2>1 DEF Idle
      <3> QED
        BY <3>1, <3>2, IdleStates DEF HandleInv, RouteInv
    <2>6. BufferInv'
      BY <1>1, <2>1 DEF RangeInv, BufferInv, Filled
    <2>7. Plan(source)' = Plan(source) /\ Plan(path)' = Plan(path)
      BY <2>1 DEF Plan
    <2>8. SourceInv'
      BY <2>1, <2>3, <2>7 DEF SourceInv
    <2>9. QuietInv'
      BY <2>1, <2>2, <2>3, <2>7 DEF RangeInv, QuietInv
    <2>10. ResultInv'
      BY <2>1, <2>2 DEF ResultInv
    <2> QED
      BY <2>4, <2>5, <2>6, <2>8, <2>9, <2>10 DEF RangeInv
  <1> QED
    BY <1>3, <1>4

(* Wherever there is a plan, its shape. *)
LEMMA RangesShape ==
    ASSUME RangeInv, HasPlan
    PROVE  /\ Len(ranges) \in Nat /\ Len(ranges) <= req.parts
           /\ ranges = [k \in 1..Len(ranges) |-> ranges[k]]
           /\ \A k \in 1..Len(ranges) : ranges[k][1] < ranges[k][2]
  <1>1. source \in Files /\ req.parts \in Nat \ {0}
    BY DEF RangeInv, SourceInv, TypeInv
  <1>2. ranges = plan_partition_boundaries(source, req.parts)
    BY DEF RangeInv, SourceInv, Plan
  <1> QED
    BY <1>1, <1>2, PlanShape

(* The C ABI reports the count and fills the buffer, or only the count. *)
LEMMA FillKeeps ==
    ASSUME RangeInv, Fill
    PROVE  RangeInv'
  <1>1. /\ path' = path /\ disturbed' = disturbed /\ req' = req
        /\ capacity' = capacity /\ pc = "fill" /\ pc' = "returned"
        /\ out_count' = Len(ranges)
        /\ error' = error /\ source' = source /\ phase' = phase
        /\ ranges' = ranges /\ result' = result /\ UNCHANGED objects
        /\ \/ Len(ranges) > capacity /\ code' = -2 /\ out_ranges' = out_ranges
           \/ /\ Len(ranges) <= capacity /\ code' = 0
              /\ out_ranges' = [slot \in 0..(Len(ranges) - 1) |-> ranges[slot + 1]]
    BY DEF Fill, world, python
  <1>2. result = None /\ result \notin {"plan", "changed"}
    BY <1>1, NoResult
  <1>3. HasPlan /\ ~error /\ pc \in Idle /\ pc' \in Idle
    BY <1>1 DEF HasPlan, RangeInv, ErrorInv, Idle
  <1>4. Len(ranges) \in Nat /\ capacity \in Nat
    BY <1>3, RangesShape DEF RangeInv, TypeInv
  <1>5. TypeInv' /\ HandleInv' /\ RouteInv' /\ ErrorInv'
    BY <1>1, <1>3, <1>4, IdleKeeps, IdleStates DEF RangeInv, TypeInv, ErrorInv
  <1>6. BufferInv'
    <2>1. CASE code' = -2
      <3>1. DOMAIN out_ranges = {}
        BY <1>1 DEF RangeInv, BufferInv
      <3> QED
        BY <1>1, <1>3, <2>1, <3>1 DEF BufferInv, Filled
    <2>2. CASE code' = 0
      <3>1. DOMAIN out_ranges' = 0..(Len(ranges) - 1) /\ Len(ranges) <= capacity
        BY <1>1, <2>2
      <3>2. \A slot \in DOMAIN out_ranges' : slot < capacity
        BY <1>4, <3>1
      <3> QED
        BY <1>1, <2>2, <3>1, <3>2 DEF BufferInv, Filled
    <2> QED
      BY <1>1, <2>1, <2>2
  <1>7. Plan(source)' = Plan(source) /\ Plan(path)' = Plan(path)
    BY <1>1 DEF Plan
  <1>8. SourceInv'
    BY <1>1, <1>3, <1>7 DEF RangeInv, SourceInv
  <1>9. QuietInv'
    BY <1>1, <1>2, <1>3, <1>7 DEF RangeInv, QuietInv
  <1>10. ResultInv'
    BY <1>1, <1>2 DEF ResultInv
  <1> QED
    BY <1>5, <1>6, <1>8, <1>9, <1>10 DEF RangeInv
------------------------------------------------------------------------------
(* The client. *)

(* The pairs a Python client checks are the ranges of the plan. *)
LEMMA PairsAreRanges ==
    ASSUME RangeInv, pc \in {"lengths", "coverage", "alignment"}
    PROVE  Pairs = ranges /\ Len(Pairs) \in Nat /\ HasPlan
  <1>1. HasPlan
    BY DEF HasPlan
  <1>2. /\ Len(ranges) \in Nat /\ ranges = [k \in 1..Len(ranges) |-> ranges[k]]
    BY <1>1, RangesShape
  <1>3. req.client \in {"plan_file", "plan_file_ranges"}
    BY DEF RangeInv, SourceInv, TypeInv
  <1>4. CASE req.client = "plan_file"
    BY <1>1, <1>2, <1>4 DEF Pairs
  <1>5. CASE req.client = "plan_file_ranges"
    <2>1. /\ out_count = Len(ranges)
          /\ out_ranges = [slot \in 0..(Len(ranges) - 1) |-> ranges[slot + 1]]
      BY <1>5 DEF RangeInv, BufferInv, Filled, SourceInv
    <2>2. \A k \in 1..Len(ranges) : out_ranges[k - 1] = ranges[k]
      <3> SUFFICES ASSUME NEW k \in 1..Len(ranges) PROVE out_ranges[k - 1] = ranges[k]
        OBVIOUS
      <3>1. k - 1 \in 0..(Len(ranges) - 1) /\ (k - 1) + 1 = k
        BY <1>2
      <3> QED
        BY <2>1, <3>1
    <2>3. Pairs = [k \in 1..Len(ranges) |-> out_ranges[k - 1]]
      BY <1>5, <2>1 DEF Pairs
    <2>4. Pairs = [k \in 1..Len(ranges) |-> ranges[k]]
      BY <2>2, <2>3
    <2> QED
      BY <1>1, <1>2, <2>4
  <1> QED
    BY <1>3, <1>4, <1>5

(* On to the checks of the plan. *)
LEMMA ToCoverageKeeps ==
    ASSUME RangeInv, pc' = "coverage",
           \/ pc = "lengths"
           \/ pc = "returned" /\ code = 0 /\ req.client = "plan_file_ranges",
           UNCHANGED <<world, python, buffer, code, error, source, objects, ranges, result>>
    PROVE  RangeInv'
  <1>1. /\ path' = path /\ disturbed' = disturbed /\ req' = req
        /\ file_size' = file_size /\ capacity' = capacity /\ phase' = phase
        /\ out_ranges' = out_ranges /\ out_count' = out_count /\ code' = code
        /\ error' = error /\ source' = source
        /\ ranges' = ranges /\ result' = result
    BY DEF world, python, buffer
  <1>2. result = None /\ result \notin {"plan", "changed"}
    BY NoResult
  <1>3. HasPlan /\ req.client # "c" /\ pc \in Idle /\ pc' \in Idle
    BY DEF HasPlan, RangeInv, SourceInv, Idle
  <1>4. TypeInv' /\ HandleInv' /\ RouteInv' /\ ErrorInv'
    BY <1>1, <1>3, IdleKeeps, IdleStates DEF RangeInv, TypeInv, ErrorInv
  <1>5. BufferInv'
    <2>1. CASE pc = "lengths"
      <3>1. req.client = "plan_file"
        BY <2>1 DEF RangeInv, SourceInv
      <3> QED
        BY <1>1, <2>1, <3>1 DEF RangeInv, BufferInv, Filled
    <2>2. CASE pc = "returned" /\ code = 0 /\ req.client = "plan_file_ranges"
      <3>1. Filled
        BY <2>2 DEF Filled
      <3> QED
        BY <1>1, <2>2, <3>1 DEF RangeInv, BufferInv
    <2> QED
      BY <2>1, <2>2
  <1>6. Plan(source)' = Plan(source) /\ Plan(path)' = Plan(path)
    BY <1>1 DEF Plan
  <1>7. SourceInv'
    BY <1>1, <1>3, <1>6 DEF RangeInv, SourceInv
  <1>8. QuietInv'
    BY <1>1, <1>2, <1>3, <1>6 DEF RangeInv, QuietInv
  <1>9. ResultInv'
    BY <1>1, <1>2 DEF ResultInv
  <1> QED
    BY <1>4, <1>5, <1>7, <1>8, <1>9 DEF RangeInv

(* A plan is handed to the caller. *)
LEMMA FinishPlanKeeps ==
    ASSUME RangeInv, Finish("plan"), pc \in {"lengths", "alignment"}, Tiles,
           \A k \in 1..Len(Pairs) : k < Len(Pairs) => Pairs[k][2] \in verified'.ends
    PROVE  RangeInv'
  <1>1. /\ path' = path /\ disturbed' = disturbed /\ req' = req /\ pc' = "done"
        /\ file_size' = file_size /\ capacity' = capacity /\ phase' = phase
        /\ out_ranges' = out_ranges /\ out_count' = out_count /\ code' = code
        /\ error' = error /\ source' = source
        /\ ranges' = ranges /\ result' = "plan"
    BY DEF Finish, world, buffer
  <1>2. Pairs = ranges /\ HasPlan
    BY PairsAreRanges
  <1>3. pc \in Idle /\ pc' \in Idle /\ UNCHANGED objects
    BY <1>1 DEF Finish, Idle
  <1>4. TypeInv' /\ HandleInv' /\ RouteInv' /\ ErrorInv'
    BY <1>1, <1>3, IdleKeeps, IdleStates DEF RangeInv, TypeInv, ErrorInv
  <1>5. BufferInv'
    BY <1>1 DEF RangeInv, BufferInv, Filled
  <1>6. Plan(source)' = Plan(source) /\ Plan(path)' = Plan(path)
    BY <1>1 DEF Plan
  <1>7. SourceInv'
    BY <1>1, <1>2, <1>6 DEF RangeInv, SourceInv
  <1>8. QuietInv'
    BY <1>1, <1>2, <1>6 DEF RangeInv, QuietInv
  <1>9. ResultInv'
    <2>1. Pairs' = Pairs
      BY <1>1 DEF Pairs
    <2>2. PairsEnd' = PairsEnd
      BY <2>1 DEF PairsEnd
    <2>3. Tiles'
      BY <1>1, <2>1, <2>2 DEF Tiles
    <2> QED
      BY <1>1, <1>2, <2>1, <2>3 DEF ResultInv
  <1> QED
    BY <1>4, <1>5, <1>7, <1>8, <1>9 DEF RangeInv

(* plan_file turns the chunk lengths into offsets. *)
LEMMA LengthsKeeps ==
    ASSUME RangeInv, Lengths
    PROVE  RangeInv'
  <1>1. pc = "lengths" /\ pc \in Idle
    BY DEF Lengths, Idle
  <1>2. CASE file_size = 0 /\ ranges = <<>>
    <2>1. Finish("plan")
      BY <1>2 DEF Lengths
    <2>2. Pairs = <<>>
      BY <1>1, <1>2, PairsAreRanges
    <2>3. Len(Pairs) = 0 /\ PairsEnd = 0
      BY <2>2 DEF PairsEnd
    <2>4. 1..Len(Pairs) = {}
      BY <2>3
    <2>5. Tiles
      BY <1>2, <2>3, <2>4 DEF Tiles
    <2> QED
      BY <1>1, <2>1, <2>4, <2>5, FinishPlanKeeps
  <1>3. CASE (file_size = 0) # (ranges = <<>>)
    <2>1. Finish("failed")
      BY <1>3 DEF Lengths, Raise
    <2> QED
      BY <1>1, <2>1, FinishKeeps
  <1>4. CASE file_size # 0 /\ ranges # <<>>
    <2>1. /\ pc' = "coverage"
          /\ UNCHANGED <<world, python, buffer, code, error, source, objects, ranges, result>>
      BY <1>4 DEF Lengths
    <2> QED
      BY <1>1, <2>1, ToCoverageKeeps
  <1> QED
    BY <1>2, <1>3, <1>4

(* The count changed: Python goes back to the call with another capacity. *)
LEMMA CallAgainKeeps ==
    ASSUME RangeInv, pc = "returned", code = -2, pc' = "call",
           UNCHANGED <<world, file_size, verified, code, error, source, objects, ranges, result>>,
           capacity' \in Nat, out_count' \in Nat, DOMAIN out_ranges' = {},
           req.client = "plan_file_ranges" /\ phase' = "fill" => capacity' = Len(ranges)
    PROVE  RangeInv'
  <1>1. /\ path' = path /\ disturbed' = disturbed /\ req' = req
        /\ ranges' = ranges /\ result' = result
    BY DEF world
  <1>2. result = None /\ result \notin {"plan", "changed"}
    BY NoResult
  <1>3. HasPlan /\ pc \in Idle /\ pc' \in Idle
    BY DEF Idle, HasPlan
  <1>4. pc' \notin Holding /\ pc' \notin Openers /\ ~HasPlan'
    BY <1>1, <1>2, <1>3, IdleStates DEF HasPlan
  <1>5. TypeInv' /\ HandleInv' /\ RouteInv' /\ ErrorInv'
    BY <1>1, <1>3, <1>4, IdleKeeps DEF RangeInv, TypeInv, ErrorInv
  <1>6. BufferInv'
    BY DEF BufferInv, Filled
  <1>7. SourceInv'
    BY <1>4 DEF SourceInv
  <1>8. QuietInv'
    <2>1. ~disturbed => ranges = Plan(path)
      BY <1>3 DEF RangeInv, SourceInv, QuietInv
    <2>2. Plan(path)' = Plan(path)
      BY <1>1 DEF Plan
    <2> QED
      BY <1>1, <1>2, <1>4, <2>1, <2>2 DEF RangeInv, QuietInv
  <1>9. ResultInv'
    BY <1>1, <1>2 DEF ResultInv
  <1> QED
    BY <1>5, <1>6, <1>7, <1>8, <1>9 DEF RangeInv

(* The client looks at what the counting call returned. *)
LEMMA CountPhaseKeeps ==
    ASSUME RangeInv, CountPhase
    PROVE  RangeInv'
  <1>1. pc = "returned" /\ req.client = "plan_file_ranges" /\ pc \in Idle
    BY DEF CountPhase, Idle
  <1>2. CASE code = -1 /\ Raise
    BY <1>1, <1>2, FinishKeeps DEF Raise
  <1>3. CASE code = 0 /\ pc' = "coverage"
             /\ UNCHANGED <<world, python, buffer, code, error, source, objects, ranges, result>>
    BY <1>1, <1>3, ToCoverageKeeps
  <1>4. CASE /\ code = -2 /\ capacity' = out_count /\ phase' = "fill" /\ out_ranges' = <<>>
             /\ out_count' = 0 /\ pc' = "call"
             /\ UNCHANGED <<world, file_size, attempt, verified, code, error, source,
                            objects, ranges, result>>
    <2>1. out_count = Len(ranges) /\ out_count \in Nat
      BY <1>1, <1>4 DEF RangeInv, BufferInv, TypeInv
    <2>2. capacity' \in Nat /\ capacity' = Len(ranges) /\ out_count' \in Nat
      BY <1>4, <2>1
    <2>3. DOMAIN out_ranges' = {}
      BY <1>4
    <2>4. UNCHANGED <<world, file_size, verified, code, error, source, objects, ranges, result>>
      BY <1>4
    <2> QED
      BY <1>1, <1>4, <2>2, <2>3, <2>4, CallAgainKeeps
  <1> QED
    BY <1>2, <1>3, <1>4 DEF CountPhase

(* Without a rename the second count is the first: only a disturbed call   *)
(* ends in "changed".                                                      *)
LEMMA FillPhaseKeeps ==
    ASSUME RangeInv, FillPhase
    PROVE  RangeInv'
  <1>1. pc = "returned" /\ req.client = "plan_file_ranges" /\ phase = "fill"
        /\ pc \in Idle
    BY DEF FillPhase, Idle
  <1>2. CASE code = -1 /\ Raise
    BY <1>1, <1>2, FinishKeeps DEF Raise
  <1>3. CASE code = 0 /\ pc' = "coverage"
             /\ UNCHANGED <<world, python, buffer, code, error, source, objects, ranges, result>>
    BY <1>1, <1>3, ToCoverageKeeps
  <1>4. CASE code = -2 /\ Finish("changed")
    <2>1. HasPlan
      BY <1>1, <1>4 DEF HasPlan
    <2>2. out_count = Len(ranges) /\ out_count > capacity
      BY <1>1, <1>4 DEF RangeInv, BufferInv
    <2>3. out_count \in Nat /\ capacity \in Nat
      BY DEF RangeInv, TypeInv
    <2>4. ~disturbed => capacity = Len(ranges)
      BY <1>1, <2>1 DEF RangeInv, QuietInv, SourceInv
    <2>5. disturbed
      BY <2>2, <2>3, <2>4
    <2> QED
      BY <1>1, <1>4, <2>5, FinishKeeps
  <1>5. CASE /\ code = -2 /\ capacity' = 0 /\ phase' = "count" /\ pc' = "call"
             /\ UNCHANGED <<world, file_size, verified, buffer, code, error, source, objects,
                            ranges, result>>
    <2>1. out_count \in Nat /\ DOMAIN out_ranges = {}
      BY <1>1, <1>5 DEF RangeInv, BufferInv, TypeInv
    <2>2. capacity' \in Nat /\ out_count' \in Nat /\ DOMAIN out_ranges' = {}
      BY <1>5, <2>1 DEF buffer
    <2>3. UNCHANGED <<world, file_size, verified, code, error, source, objects, ranges, result>>
      BY <1>5
    <2> QED
      BY <1>1, <1>5, <2>2, <2>3, CallAgainKeeps
  <1> QED
    BY <1>2, <1>3, <1>4, <1>5 DEF FillPhase

(* The coverage check lets a plan through that tiles the file. *)
LEMMA CoverageKeeps ==
    ASSUME RangeInv, CheckCoverage
    PROVE  RangeInv'
  <1>1. pc = "coverage" /\ pc \in Idle
    BY DEF CheckCoverage, Idle
  <1>2. CASE Raise
    BY <1>1, <1>2, FinishKeeps DEF Raise
  <1>3. CASE ~Raise
    <2>1. /\ pc' = "alignment" /\ Tiles
          /\ UNCHANGED <<world, python, buffer, code, error, source, objects, ranges, result>>
      BY <1>3 DEF CheckCoverage, Tiles
    <2>2. /\ path' = path /\ disturbed' = disturbed /\ req' = req
          /\ file_size' = file_size /\ capacity' = capacity /\ phase' = phase
          /\ out_ranges' = out_ranges /\ out_count' = out_count /\ code' = code
          /\ error' = error /\ source' = source
          /\ ranges' = ranges /\ result' = result
      BY <2>1 DEF world, python, buffer
    <2>3. result = None /\ result \notin {"plan", "changed"}
      BY <1>1, NoResult
    <2>4. HasPlan /\ pc' \in Idle
      BY <1>1, <2>1 DEF HasPlan, Idle
    <2>5. TypeInv' /\ HandleInv' /\ RouteInv' /\ ErrorInv'
      BY <1>1, <2>1, <2>2, <2>4, IdleKeeps, IdleStates DEF RangeInv, TypeInv, ErrorInv
    <2>6. BufferInv'
      BY <1>1, <2>1, <2>2 DEF RangeInv, BufferInv, Filled
    <2>7. Plan(source)' = Plan(source) /\ Plan(path)' = Plan(path)
      BY <2>2 DEF Plan
    <2>8. SourceInv'
      BY <1>1, <2>1, <2>2, <2>4, <2>7 DEF RangeInv, SourceInv
    <2>9. QuietInv'
      BY <2>1, <2>2, <2>3, <2>4, <2>7 DEF RangeInv, QuietInv
    <2>10. ResultInv'
      <3>1. Pairs' = Pairs
        BY <2>2 DEF Pairs
      <3>2. PairsEnd' = PairsEnd
        BY <3>1 DEF PairsEnd
      <3>3. Tiles'
        BY <2>1, <2>2, <3>1, <3>2 DEF Tiles
      <3> QED
        BY <2>1, <2>2, <2>3, <3>3 DEF ResultInv
    <2> QED
      BY <2>5, <2>6, <2>8, <2>9, <2>10 DEF RangeInv
  <1> QED
    BY <1>2, <1>3

(* The alignment check reads one byte before every inner boundary. *)
LEMMA AlignmentKeeps ==
    ASSUME RangeInv, _verify_record_alignment
    PROVE  RangeInv'
  <1> DEFINE inner == {Pairs[k][2] : k \in 1..(Len(Pairs) - 1)}
  <1>1. pc = "alignment" /\ pc \in Idle /\ Tiles
    BY DEF _verify_record_alignment, Idle, RangeInv, ResultInv
  <1>2. Len(Pairs) \in Nat
    BY <1>1, PairsAreRanges
  <1>3. CASE Pairs = <<>> /\ Finish("plan")
    <2>1. 1..Len(Pairs) = {}
      BY <1>3
    <2> QED
      BY <1>1, <1>3, <2>1, FinishPlanKeeps
  <1>4. CASE Raise
    BY <1>1, <1>4, FinishKeeps DEF Raise
  <1>5. CASE /\ verified' = path
             /\ Finish(IF inner \subseteq path.ends THEN "plan" ELSE "failed")
    <2>1. CASE inner \subseteq path.ends
      <3>1. Finish("plan")
        BY <1>5, <2>1
      <3>2. ASSUME NEW k \in 1..Len(Pairs), k < Len(Pairs)
            PROVE  Pairs[k][2] \in verified'.ends
        <4>1. k \in 1..(Len(Pairs) - 1)
          BY <1>2, <3>2
        <4> QED
          BY <1>5, <2>1, <4>1
      <3> QED
        BY <1>1, <3>1, <3>2, FinishPlanKeeps
    <2>2. CASE ~(inner \subseteq path.ends)
      <3>1. Finish("failed")
        BY <1>5, <2>2
      <3> QED
        BY <1>1, <3>1, FinishKeeps
    <2> QED
      BY <2>1, <2>2
  <1> QED
    BY <1>3, <1>4, <1>5 DEF _verify_record_alignment
------------------------------------------------------------------------------
(* Every step of the client, the ABI and the opener keeps the invariant. *)
LEMMA NextKeeps == RangeInv /\ [Next]_vars => RangeInv'
  <1> SUFFICES ASSUME RangeInv, [Next]_vars PROVE RangeInv'
    OBVIOUS
  <1>1. CASE _verify_file
    <2>1. CASE path = Missing
      <3>1. Finish("failed") /\ pc \in Idle
        BY <1>1, <2>1 DEF _verify_file, Raise, Idle
      <3> QED
        BY <3>1, FinishKeeps
    <2>2. CASE path # Missing
      BY <1>1, <2>2, VerifyFileKeeps
    <2> QED
      BY <2>1, <2>2
  <1>2. CASE CheckArguments \/ open_path_windows \/ open_windows \/ ProbeUnix \/ ProbeUnmapped
    BY <1>2, StartKeeps
  <1>3. CASE OpenUnix \/ LseekUnix \/ MmapUnix
    BY <1>3, UnixKeeps
  <1>4. CASE CreateFileW \/ GetFileSizeEx \/ CreateFileMappingW \/ MapViewOfFile
    BY <1>4, WindowsKeeps
  <1>5. CASE \/ open_windowed \/ WindowedOpen \/ WindowedLseek \/ WindowedCreateFileW
              \/ WindowedGetFileSizeEx \/ WindowedCreateFileMappingW
    BY <1>5, WindowedKeeps
  <1>6. CASE PreadOpen \/ PreadMetadata
    BY <1>6, PreadKeeps
  <1>7. CASE WindowedReadAt
    BY <1>7, ReadAtKeeps
  <1>8. CASE plan_partition_ranges
    BY <1>8, PlanKeeps
  <1>9. CASE Fill
    BY <1>9, FillKeeps
  <1>10. CASE CReturns
    <2>1. Finish("returned") /\ pc \in Idle
      BY <1>10 DEF CReturns, Idle
    <2> QED
      BY <2>1, FinishKeeps
  <1>11. CASE HandleFails
    <2>1. Finish("failed") /\ pc \in Idle
      BY <1>11 DEF HandleFails, Raise, Idle
    <2> QED
      BY <2>1, FinishKeeps
  <1>12. CASE Lengths
    BY <1>12, LengthsKeeps
  <1>13. CASE CountPhase
    BY <1>13, CountPhaseKeeps
  <1>14. CASE FillPhase
    BY <1>14, FillPhaseKeeps
  <1>15. CASE CheckCoverage
    BY <1>15, CoverageKeeps
  <1>16. CASE _verify_record_alignment
    BY <1>16, AlignmentKeeps
  <1>17. CASE \E f \in Files \cup {Missing} : Replace(f)
    BY <1>17, ReplaceKeeps
  <1>18. CASE Done \/ UNCHANGED vars
    BY <1>18, StutterKeeps DEF Done
  <1> QED
    BY <1>1, <1>2, <1>3, <1>4, <1>5, <1>6, <1>7, <1>8, <1>9, <1>10, <1>11, <1>12, <1>13,
       <1>14, <1>15, <1>16, <1>17, <1>18 DEF Next, Step

(* The inductive invariant of a planning call (src/ffi.rs,                 *)
(* python/mmap_chunker): which file the ranges are of, what the output     *)
(* buffer holds and what is open, at every step of the call.               *)
THEOREM RangeInvariant == Spec => []RangeInv
  BY InitInv, NextKeeps, PTL DEF Spec

(* Whatever system call of whatever opener fails, and in whatever state    *)
(* Drop finds the source, the closes of that exit (MmapFile::open_path and *)
(* WindowedMmapFile::open_path on both platforms, PreadSource, the Drops)  *)
(* are exactly the objects open there: none is forgotten and none is       *)
(* closed twice.                                                           *)
THEOREM ObjectsAreReleased == Spec => []HandlesReleased
  <1>1. ASSUME RangeInv PROVE HandlesReleased
    <2>1. {"verify_file", "call", "returned", "fill", "lengths", "coverage", "alignment", "done"}
             \subseteq Idle
      BY DEF Idle
    <2>2. pc \in Idle => handles = {}
      BY <1>1, IdleStates DEF RangeInv, HandleInv
    <2> QED
      BY <1>1, <2>1, <2>2 DEF RangeInv, HandleInv, HandlesReleased
  <1> QED
    BY <1>1, RangeInvariant, PTL

(* mmap_engine_plan_partition_ranges never writes past the capacity it was *)
(* given nor leaves the buffer half written, and Python never reads an     *)
(* element the call did not write.                                         *)
THEOREM BufferIsExact == Spec => []BufferNeverOverrun
  <1>1. ASSUME RangeInv PROVE BufferNeverOverrun
    <2>1. capacity \in Nat /\ out_count \in Nat
      BY <1>1 DEF RangeInv, TypeInv
    <2>2. BufferInv
      BY <1>1 DEF RangeInv
    <2>3. Filled => DOMAIN out_ranges = 0..(out_count - 1)
      BY <2>2 DEF BufferInv
    <2>4. ASSUME pc = "returned", code = 0
          PROVE  DOMAIN out_ranges = {s \in 0..capacity : s < out_count}
      <3>1. out_count <= capacity /\ DOMAIN out_ranges = 0..(out_count - 1)
        BY <2>2, <2>3, <2>4 DEF BufferInv, Filled
      <3> QED
        BY <2>1, <3>1
    <2>5. ASSUME pc = "coverage", req.client = "plan_file_ranges", NEW k \in 1..out_count
          PROVE  k - 1 \in DOMAIN out_ranges
      <3>1. DOMAIN out_ranges = 0..(out_count - 1)
        BY <2>3, <2>5 DEF Filled
      <3> QED
        BY <2>1, <3>1
    <2> QED
      BY <2>2, <2>4, <2>5 DEF BufferNeverOverrun, BufferInv
  <1> QED
    BY <1>1, RangeInvariant, PTL

(* A plan a Python caller gets tiles the size its first stat saw, has at   *)
(* most the ranges asked for, none empty, cuts only where the file read    *)
(* last ends a record, and is the plan of the file if nothing was renamed  *)
(* over the path; "count changed between phases" is never a false alarm.   *)
THEOREM PlansAreCoherent == Spec => []PlanIsCoherent
  <1>1. ASSUME RangeInv PROVE PlanIsCoherent
    <2>1. ASSUME result = "plan"
          PROVE  /\ PairsEnd = file_size
                 /\ Len(Pairs) <= req.parts
                 /\ \A k \in 1..Len(Pairs) :
                       /\ Pairs[k][1] = IF k = 1 THEN 0 ELSE Pairs[k - 1][2]
                       /\ Pairs[k][1] < Pairs[k][2]
                       /\ k < Len(Pairs) => Pairs[k][2] \in verified.ends
                 /\ ~disturbed => Pairs = plan_partition_boundaries(path, req.parts)
      <3>1. HasPlan
        BY <2>1 DEF HasPlan
      <3>2. /\ Len(ranges) <= req.parts
            /\ \A k \in 1..Len(ranges) : ranges[k][1] < ranges[k][2]
        BY <1>1, <3>1, RangesShape
      <3>3. /\ Tiles /\ Pairs = ranges
            /\ \A k \in 1..Len(Pairs) : k < Len(Pairs) => Pairs[k][2] \in verified.ends
        BY <1>1, <2>1 DEF RangeInv, ResultInv
      <3>4. ~disturbed => ranges = plan_partition_boundaries(path, req.parts)
        BY <1>1, <3>1 DEF RangeInv, SourceInv, QuietInv, Plan
      <3> QED
        BY <3>2, <3>3, <3>4 DEF Tiles
    <2>2. result = "changed" => disturbed
      BY <1>1 DEF RangeInv, QuietInv, TypeInv
    <2> QED
      BY <2>1, <2>2 DEF PlanIsCoherent
  <1> QED
    BY <1>1, RangeInvariant, PTL
=============================================================================
