---------------------------- MODULE EngineProofs ----------------------------
(***************************************************************************)
(* The engine handle, for any files, sizes, threads, arguments and any     *)
(* number of file-system changes between its system calls.                 *)
(*                                                                         *)
(* What the gate proves is a fact about the past: the descriptor was       *)
(* opened and measured in steps the gate never sees.  IdentityInv carries  *)
(* it along the open sequence: as long as the path's metadata has never    *)
(* left the captured identity, the inode opened is the one captured and    *)
(* the length measured is the one captured.  DriftInv ties that history to *)
(* what revalidate can observe, so that a passed gate excludes "away".     *)
(***************************************************************************)
EXTENDS Engine, SequenceTheorems, TLAPS

(* The stages at which the identity has been captured, the descriptor      *)
(* opened, the length measured.                                            *)
Measured == {"mmap"} \cup Live
Opened == {"measure"} \cup Measured
Captured == {"probe", "openfd"} \cup Opened

(* Where the calls in progress keep their argument, the plan, the stash    *)
(* and the owner's error.                                                  *)
StageInv ==
    /\ stage \in {"gate", "scan"} => call \in Calls
    /\ stage \notin {"open", "gate"} => pin_error = "none"
    /\ stage \notin {"open", "gate", "scan", "crashed"} => plan = Empty
    /\ stage \notin {"closed", "open"} => ret[Owner] = "none" /\ ~last_error[Owner]
    /\ stage = "mmap" => map.size # 0
    /\ stage = "measure" => map.ino # Missing

(* What the process holds at every stage. *)
HeldInv ==
    /\ stage \in {"closed", "capture", "probe", "openfd"} => held = {}
    /\ stage \in {"measure", "mmap"} => held = {"fd"}
    /\ stage \in Live => held = (IF map.size = 0 THEN {} ELSE {"fd", "map"})

(* The ends of a covering of 0..len. *)
Ends(e, len) ==
    /\ e \in Seq(1..len) /\ Len(e) > 0 /\ e[Len(e)] = len
    /\ \A i \in 1..(Len(e) - 1) : e[i] < e[i + 1]

(* The plan p was computed for a mapping of len bytes. *)
Fits(p, len) ==
    \/ p = Empty
    \/ p = FromRanges(p.ends) /\ Ends(p.ends, len)
    \/ /\ len > 0 /\ p.kind = "fixed" /\ p.ends = <<>>
       /\ p.size \in Nat \ {0} /\ p.count = FixedCount(len, p.size)

PlanFits == Fits(plan, map.size)

(* The captured identity, and what revalidate says of the path now. *)
DriftInv ==
    /\ stage \in {"closed", "capture"} => pin = NoPin
    /\ stage = "capture" => drift = "never" /\ pinned
    /\ stage \in Captured /\ pinned => pin # NoPin
    /\ pin # NoPin => pin.ino # Missing /\ (drift = "away" <=> ~Matches(path, file))

(* As long as the path never left the captured identity. *)
IdentityInv ==
    pinned /\ drift = "never" /\ "identity" \in Effective(flags) =>
        /\ stage \in {"openfd"} \cup Opened => pin.ino \in Files
        /\ stage \in Opened => map.ino = pin.ino
        /\ stage \in Measured /\ "size" \in Effective(flags) => map.size = pin.size

(* The gate's answer is still true if nothing changed since. *)
RaceInv == stage = "scan" /\ pinned /\ ~raced => Matches(path, file)

EngineInv ==
    /\ TypeOK /\ StageInv /\ HeldInv /\ PlanFits /\ FailClosed /\ ErrorsExplained
    /\ DriftInv /\ IdentityInv /\ RaceInv /\ FaultNeedsRace
------------------------------------------------------------------------------
(* The chunks of a fixed layout: the last one is the first to reach the    *)
(* end of the mapping.                                                     *)
LEMMA FixedCountBounds ==
    ASSUME NEW l \in Nat \ {0}, NEW s \in Nat \ {0}
    PROVE  LET c == FixedCount(l, s)
           IN  /\ c \in Nat \ {0} /\ (c - 1) * s < l /\ l <= c * s
               /\ c * s \in Nat /\ (c - 1) * s \in Nat
  <1> DEFINE x == l + s - 1
             c == x \div s
  <1>1. x \in Nat /\ x >= s
    OBVIOUS
  <1> HIDE DEF x
  <1>2. c \in Nat /\ c * s <= x /\ x < c * s + s
    BY <1>1
  <1> HIDE DEF c
  <1>3. c * s \in Nat /\ (c - 1) * s = c * s - s /\ (c = 0 => c * s = 0)
    BY <1>2
  <1>4. c # 0
    BY <1>1, <1>2, <1>3
  <1>5. c >= 1 => c * s >= s
    BY <1>2
  <1> QED
    BY <1>2, <1>3, <1>4, <1>5 DEF FixedCount, x, c

(* What Coverings enumerates. *)
LEMMA CoveringEnds ==
    ASSUME NEW l \in Nat, NEW m \in Nat, NEW e \in Coverings(l, m)
    PROVE  Ends(e, l) /\ e # <<>>
  <1>1. PICK k \in 1..m : e \in [1..k -> 1..l]
    BY DEF Coverings
  <1>2. k \in Nat /\ k > 0
    OBVIOUS
  <1>3. e \in Seq(1..l) /\ Len(e) = k
    BY <1>1, <1>2
  <1>4. e[Len(e)] = l /\ \A i \in 1..(Len(e) - 1) : e[i] < e[i + 1]
    BY DEF Coverings
  <1>5. Len(e) > 0 /\ e # <<>>
    BY <1>2, <1>3
  <1> QED
    BY <1>3, <1>4, <1>5 DEF Ends

(* A plan that fits tiles the mapping. *)
LEMMA FitsTiles ==
    ASSUME PlanFits, map.size \in Nat
    PROVE  LayoutTilesMapping
  <1> DEFINE R(k) == RangeAt(plan, k, map.size)
             l == map.size
  <1>1. CASE plan = Empty
    BY <1>1 DEF LayoutTilesMapping, PlanLen, Empty
  <1>2. CASE plan = FromRanges(plan.ends) /\ Ends(plan.ends, l)
    <2> DEFINE e == plan.ends
    <2>1. /\ e \in Seq(1..l) /\ Len(e) \in Nat \ {0} /\ e[Len(e)] = l
          /\ \A k \in 1..(Len(e) - 1) : e[k] < e[k + 1]
      <3>1. /\ e \in Seq(1..l) /\ Len(e) > 0 /\ e[Len(e)] = l
            /\ \A k \in 1..(Len(e) - 1) : e[k] < e[k + 1]
        BY <1>2 DEF Ends
      <3>2. Len(e) \in Nat
        BY <3>1
      <3> QED
        BY <3>1, <3>2
    <2>2. plan.kind = "ranges"
      <3>1. e # <<>>
        BY <2>1
      <3> QED
        BY <1>2, <3>1 DEF FromRanges
    <2> HIDE DEF e
    <2>3. PlanLen(plan) = Len(e)
      BY <2>2 DEF PlanLen, e
    <2>4. \A k \in 1..Len(e) : R(k) = <<IF k = 1 THEN 0 ELSE e[k - 1], e[k]>>
      BY <2>1, <2>2, <2>3 DEF RangeAt, e
    <2> HIDE DEF R
    <2>5. \A k \in 1..Len(e) :
            /\ R(k)[1] = (IF k = 1 THEN 0 ELSE e[k - 1]) /\ R(k)[2] = e[k]
      BY <2>4
    <2>6. ASSUME NEW k \in 1..Len(e) PROVE R(k)[1] < R(k)[2]
      <3>1. CASE k = 1
        BY <2>1, <2>5, <3>1
      <3>2. CASE k # 1
        <4>1. k - 1 \in 1..(Len(e) - 1) /\ (k - 1) + 1 = k
          BY <2>1, <3>2
        <4>2. e[k - 1] < e[k]
          BY <2>1, <4>1
        <4> QED
          BY <2>5, <3>2, <4>2
      <3> QED
        BY <3>1, <3>2
    <2>7. ASSUME NEW k \in 1..(Len(e) - 1) PROVE R(k)[2] = R(k + 1)[1]
      <3>1. k \in 1..Len(e) /\ k + 1 \in 1..Len(e) /\ (k + 1) - 1 = k /\ k + 1 # 1
        BY <2>1
      <3> QED
        BY <2>5, <3>1
    <2>8. R(1)[1] = 0 /\ R(Len(e))[2] = l
      <3>1. 1 \in 1..Len(e) /\ Len(e) \in 1..Len(e)
        BY <2>1
      <3> QED
        BY <2>1, <2>5, <3>1
    <2> QED
      BY <2>3, <2>6, <2>7, <2>8 DEF LayoutTilesMapping, R
  <1>3. CASE l > 0 /\ plan.kind = "fixed" /\ plan.size \in Nat \ {0}
             /\ plan.count = FixedCount(l, plan.size)
    <2> DEFINE s == plan.size
               c == plan.count
    <2>1. /\ c \in Nat \ {0} /\ (c - 1) * s < l /\ l <= c * s
          /\ (c - 1) * s \in Nat /\ c * s \in Nat
      <3>1. l \in Nat \ {0} /\ s \in Nat \ {0} /\ c = FixedCount(l, s)
        BY <1>3
      <3> HIDE DEF l, s, c
      <3> QED
        BY <3>1, FixedCountBounds
    <2>2. l \in Nat /\ s \in Nat \ {0}
      BY <1>3
    <2>3. PlanLen(plan) = c
      BY <1>3 DEF PlanLen
    <2>4. \A k \in 1..c : R(k) = <<(k - 1) * s, IF k * s > l THEN l ELSE k * s>>
      BY <1>3, <2>1, <2>3 DEF RangeAt, FixedBounds
    <2> HIDE DEF R, s, c
    <2>5. \A k \in 1..c : /\ R(k)[1] = (k - 1) * s
                          /\ R(k)[2] = (IF k * s > l THEN l ELSE k * s)
      BY <2>4
    <2>6. \A a, b \in Nat : a <= b => a * s \in Nat /\ b * s \in Nat /\ a * s <= b * s
      BY <2>2
    <2>7. \A a \in Nat : (a + 1) * s = a * s + s
      BY <2>2
    <2>8. ASSUME NEW k \in 1..c PROVE R(k)[1] < R(k)[2]
      <3>1. k - 1 \in Nat /\ c - 1 \in Nat /\ k - 1 <= c - 1 /\ (k - 1) + 1 = k
        BY <2>1
      <3>2. (k - 1) * s \in Nat /\ (k - 1) * s < l
        BY <2>1, <2>2, <2>6, <3>1
      <3>3. k * s = (k - 1) * s + s
        BY <2>7, <3>1
      <3> QED
        BY <2>2, <2>5, <3>2, <3>3
    <2>9. ASSUME NEW k \in 1..(c - 1) PROVE R(k)[2] = R(k + 1)[1]
      <3>1. k \in 1..c /\ k + 1 \in 1..c /\ (k + 1) - 1 = k /\ k \in Nat
            /\ c - 1 \in Nat /\ k <= c - 1
        BY <2>1
      <3>2. k * s \in Nat /\ k * s <= (c - 1) * s
        BY <2>6, <3>1
      <3>3. ~(k * s > l)
        BY <2>1, <2>2, <3>2
      <3> QED
        BY <2>5, <3>1, <3>3
    <2>10. R(1)[1] = 0 /\ R(c)[2] = l
      <3>1. 1 \in 1..c /\ c \in 1..c /\ (1 - 1) * s = 0
        BY <2>1, <2>2
      <3>2. (IF c * s > l THEN l ELSE c * s) = l
        BY <2>1, <2>2
      <3> QED
        BY <2>5, <3>1, <3>2
    <2> QED
      BY <2>3, <2>8, <2>9, <2>10 DEF LayoutTilesMapping, R
  <1> QED
    BY <1>1, <1>2, <1>3 DEF PlanFits, Fits
------------------------------------------------------------------------------
(* Before the first open. *)
LEMMA InitInv == Init => EngineInv
  <1> SUFFICES ASSUME Init PROVE EngineInv
    OBVIOUS
  <1>1. Owner \in Threads /\ 0 \in Sizes /\ {} \in Flags /\ MaxChanges \in Nat
    BY EngineAssumption
  <1>2. PlanOK(plan) /\ PlanFits
    BY DEF Init, PlanOK, PlanFits, Fits
  <1>3. file \in [Inodes -> [size : Sizes, mtime : Nat]]
    BY DEF Init
  <1>4. pin \in [ino : Inodes \cup {Missing}, size : Sizes, mtime : Nat]
        /\ map \in [ino : Inodes \cup {Missing}, size : Sizes]
    BY <1>1 DEF Init, NoPin, NoMap
  <1>5. TypeOK
    <2>1. path \in Inodes \cup {Missing} /\ changes \in 0..MaxChanges
      BY <1>1 DEF Init, Inodes
    <2>2. /\ held \in {{}, {"fd"}, {"fd", "map"}} /\ call \in Calls \cup {NoCall}
          /\ api \in {"rust", "ffi"} /\ flags \in Flags
      BY <1>1 DEF Init
    <2>3. /\ ret \in [Threads -> {"none", "ok", "zero", "error", "panic"}]
          /\ last_error \in [Threads -> BOOLEAN]
      BY DEF Init
    <2>4. /\ stage = "closed" /\ pinned = FALSE /\ pin_error = "none" /\ drift = "never"
          /\ raced = FALSE
      BY DEF Init
    <2> QED
      BY <1>2, <1>3, <1>4, <2>1, <2>2, <2>3, <2>4 DEF TypeOK
  <1>6. StageInv /\ HeldInv /\ FailClosed /\ FaultNeedsRace /\ RaceInv
    BY <1>1 DEF Init, StageInv, HeldInv, FailClosed, PinStatus, FaultNeedsRace, RaceInv,
       Live
  <1>7. ErrorsExplained
    BY <1>1 DEF Init, ErrorsExplained, HasLastError
  <1>8. DriftInv /\ IdentityInv
    BY DEF Init, DriftInv, IdentityInv, Captured, Opened, Measured, Live
  <1> QED
    BY <1>2, <1>5, <1>6, <1>7, <1>8 DEF EngineInv

(* A step that touches neither the file system nor the handle, and stays   *)
(* in the same stage or between the stages of a live handle.               *)
LEMMA HandleFrame ==
    ASSUME EngineInv, UNCHANGED <<fs, handle, drift>>,
           stage' = stage \/ (stage \in Live /\ stage' \in Live)
    PROVE  /\ HeldInv' /\ DriftInv' /\ IdentityInv'
           /\ Matches(path, file)' = Matches(path, file)
           /\ path' = path /\ file' = file /\ changes' = changes /\ pinned' = pinned
           /\ flags' = flags /\ pin' = pin /\ map' = map /\ held' = held /\ drift' = drift
  <1>1. /\ path' = path /\ file' = file /\ changes' = changes /\ pinned' = pinned
        /\ flags' = flags /\ pin' = pin /\ map' = map /\ held' = held /\ drift' = drift
    BY DEF fs, handle
  <1>2. Matches(path, file)' = Matches(path, file)
    BY <1>1 DEF Matches, Revalidate
  <1>3. \A s \in Live : s \in Captured /\ s \in Opened /\ s \in Measured
                        /\ s \notin {"closed", "capture", "measure", "mmap", "probe", "openfd"}
    BY DEF Live, Captured, Opened, Measured
  <1>4. HeldInv'
    BY <1>1, <1>3 DEF EngineInv, HeldInv
  <1>5. DriftInv'
    BY <1>1, <1>2, <1>3 DEF EngineInv, DriftInv
  <1>6. IdentityInv'
    BY <1>1, <1>3 DEF EngineInv, IdentityInv
  <1> QED
    BY <1>1, <1>2, <1>4, <1>5, <1>6

(* A step that changes nothing. *)
LEMMA StutterKeeps == EngineInv /\ UNCHANGED vars => EngineInv'
  <1> SUFFICES ASSUME EngineInv, UNCHANGED vars PROVE EngineInv'
    OBVIOUS
  <1>1. /\ UNCHANGED <<fs, handle, drift>> /\ stage' = stage /\ api' = api /\ plan' = plan
        /\ call' = call /\ pin_error' = pin_error /\ ret' = ret
        /\ last_error' = last_error /\ raced' = raced
    BY DEF vars, fs, handle
  <1>2. /\ HeldInv' /\ DriftInv' /\ IdentityInv'
        /\ Matches(path, file)' = Matches(path, file)
        /\ path' = path /\ file' = file /\ changes' = changes /\ pinned' = pinned
        /\ flags' = flags /\ pin' = pin /\ map' = map /\ held' = held /\ drift' = drift
    BY <1>1, HandleFrame
  <1>3. TypeOK' /\ PlanFits'
    BY <1>1, <1>2 DEF EngineInv, TypeOK, PlanFits, Fits
  <1>4. StageInv' /\ FailClosed' /\ FaultNeedsRace' /\ RaceInv'
    BY <1>1, <1>2 DEF EngineInv, StageInv, FailClosed, PinStatus, FaultNeedsRace, RaceInv
  <1>5. ErrorsExplained'
    BY <1>1, <1>2 DEF EngineInv, ErrorsExplained, HasLastError
  <1> QED
    BY <1>2, <1>3, <1>4, <1>5 DEF EngineInv

(* What a file-system change does to the history of the captured identity. *)
LEMMA DriftStep ==
    ASSUME pin # NoPin, drift' = NextDrift
    PROVE  /\ ~Matches(path', file') => drift' = "away"
           /\ Matches(path', file') => drift' = (IF drift = "away" THEN "back" ELSE drift)
  BY DEF NextDrift

(* Another process renames or writes.                                      *)
LEMMA ChangeKeeps ==
    ASSUME EngineInv, Rename \/ Write
    PROVE  EngineInv'
  <1>1. /\ stage # "crashed" /\ changes < MaxChanges /\ changes' = changes + 1
        /\ raced' = (stage = "scan") /\ drift' = NextDrift
        /\ UNCHANGED <<api, stage, handle, plan, call, errors>>
    BY DEF Rename, Write, Changed
  <1>2. /\ stage' = stage /\ api' = api /\ plan' = plan /\ call' = call
        /\ pin_error' = pin_error /\ ret' = ret /\ last_error' = last_error
        /\ pinned' = pinned /\ flags' = flags /\ pin' = pin /\ map' = map /\ held' = held
    BY <1>1 DEF handle, errors
  <1>3. /\ path' \in Inodes \cup {Missing}
        /\ file' \in [Inodes -> [size : Sizes, mtime : Nat]]
    <2>1. CASE Rename
      BY <2>1 DEF Rename, EngineInv, TypeOK
    <2>2. CASE Write
      <3>1. PICK i \in Files, s \in Sizes, tick \in 0..1 :
              file' = [file EXCEPT ![i] = [size |-> s, mtime |-> file[i].mtime + tick]]
        BY <2>2 DEF Write
      <3>2. i \in Inodes /\ file[i].mtime \in Nat
        BY DEF EngineInv, TypeOK, Inodes
      <3>3. [size |-> s, mtime |-> file[i].mtime + tick] \in [size : Sizes, mtime : Nat]
        BY <3>2
      <3> QED
        BY <2>2, <3>1, <3>2, <3>3 DEF Write, EngineInv, TypeOK
    <2> QED
      BY <2>1, <2>2
  <1>4. /\ pin = NoPin => drift' = drift
        /\ pin # NoPin => /\ ~Matches(path', file') => drift' = "away"
                          /\ Matches(path', file') =>
                                drift' = (IF drift = "away" THEN "back" ELSE drift)
    BY <1>1, DriftStep DEF NextDrift
  <1>5. Matches(path, file)' = Matches(path', file')
    BY <1>2 DEF Matches, Revalidate
  <1>6. drift' \in {"never", "away", "back"} /\ (drift' = "never" => drift = "never")
    BY <1>4 DEF EngineInv, TypeOK
  <1>7. changes' \in 0..MaxChanges
    BY <1>1, EngineAssumption DEF EngineInv, TypeOK
  <1>8. TypeOK'
    BY <1>1, <1>2, <1>3, <1>6, <1>7 DEF EngineInv, TypeOK
  <1>9. StageInv' /\ HeldInv' /\ PlanFits' /\ FailClosed'
    BY <1>2 DEF EngineInv, StageInv, HeldInv, PlanFits, Fits, FailClosed, PinStatus
  <1>10. ErrorsExplained'
    BY <1>2 DEF EngineInv, ErrorsExplained, HasLastError
  <1>11. DriftInv'
    <2>1. pin' # NoPin => pin'.ino # Missing
      BY <1>2 DEF EngineInv, DriftInv
    <2>2. pin # NoPin => (drift' = "away" <=> ~Matches(path', file'))
      BY <1>4, <1>6
    <2>3. stage = "capture" => drift' = "never"
      BY <1>4 DEF EngineInv, DriftInv
    <2> QED
      BY <1>2, <1>5, <2>1, <2>2, <2>3 DEF EngineInv, DriftInv
  <1>12. IdentityInv'
    BY <1>2, <1>6 DEF EngineInv, IdentityInv
  <1>13. RaceInv' /\ FaultNeedsRace'
    BY <1>1, <1>2 DEF RaceInv, FaultNeedsRace
  <1> QED
    BY <1>8, <1>9, <1>10, <1>11, <1>12, <1>13 DEF EngineInv

(* The owner's error slot, as an open or a gated call clears it. *)
LEMMA EnterErrors ==
    ASSUME EngineInv, Enter(Owner), api' = api, stage' # "open"
    PROVE  /\ ErrorsExplained' /\ ret'[Owner] = "none" /\ ~last_error'[Owner]
           /\ ret' \in [Threads -> {"none", "ok", "zero", "error", "panic"}]
           /\ last_error' \in [Threads -> BOOLEAN]
  <1>1. /\ Owner \in Threads /\ last_error \in [Threads -> BOOLEAN]
        /\ ret \in [Threads -> {"none", "ok", "zero", "error", "panic"}]
    BY EngineAssumption DEF EngineInv, TypeOK
  <1>2. /\ ret' = [ret EXCEPT ![Owner] = "none"]
        /\ last_error' = [last_error EXCEPT ![Owner] = FALSE]
    BY DEF Enter
  <1> QED
    BY <1>1, <1>2 DEF EngineInv, ErrorsExplained, HasLastError

(* A call that fails sets the caller's message and no other one. *)
LEMMA ReturnErrors ==
    ASSUME EngineInv, NEW t \in Threads, ReturnError(t), api' = api,
           stage' # "open" \/ (map' = map /\ (stage = "open" \/ t = Owner))
    PROVE  /\ ErrorsExplained'
           /\ t # Owner => ret'[Owner] = ret[Owner] /\ last_error'[Owner] = last_error[Owner]
           /\ ret' \in [Threads -> {"none", "ok", "zero", "error", "panic"}]
           /\ last_error' \in [Threads -> BOOLEAN]
  <1>1. /\ Owner \in Threads /\ last_error \in [Threads -> BOOLEAN]
        /\ ret \in [Threads -> {"none", "ok", "zero", "error", "panic"}]
    BY EngineAssumption DEF EngineInv, TypeOK
  <1>2. /\ ret' = [ret EXCEPT ![t] = "error"]
        /\ last_error' = [last_error EXCEPT ![t] = (api = "ffi")]
    BY DEF ReturnError
  <1>3. last_error' \in [Threads -> BOOLEAN]
    BY <1>1, <1>2
  <1>4. ret' \in [Threads -> {"none", "ok", "zero", "error", "panic"}]
    BY <1>1, <1>2
  <1>5. /\ ret'[t] = "error" /\ (api = "ffi" => last_error'[t])
        /\ \A u \in Threads \ {t} : ret'[u] = ret[u] /\ last_error'[u] = last_error[u]
    BY <1>1, <1>2
  <1>6. api = "ffi" => \A u \in Threads : HasLastError(u)' <=> ret'[u] = "error"
    BY <1>5 DEF EngineInv, ErrorsExplained, HasLastError
  <1>7. api = "ffi" => (stage' = "open" /\ map'.size > 0 => ret'[Owner] # "zero")
    BY <1>1, <1>5 DEF EngineInv, ErrorsExplained
  <1> QED
    BY <1>1, <1>3, <1>4, <1>5, <1>6, <1>7 DEF ErrorsExplained
------------------------------------------------------------------------------
(* The open sequence. *)

Opening == {"closed", "capture", "probe", "openfd", "measure", "mmap", "opened"}

(* While no handle exists there is no plan and no mismatch. *)
LEMMA OpeningFrame ==
    ASSUME EngineInv, stage \in Opening, stage' \in Opening,
           plan' = plan, pin_error' = pin_error
    PROVE  /\ PlanFits' /\ FailClosed' /\ FaultNeedsRace' /\ RaceInv' /\ PlanOK(plan')
           /\ plan' = Empty /\ pin_error' = "none"
  <1>1. plan = Empty /\ pin_error = "none" /\ PlanOK(plan)
    BY DEF EngineInv, StageInv, Opening, TypeOK
  <1> QED
    BY <1>1 DEF PlanFits, Fits, FailClosed, PinStatus, FaultNeedsRace, RaceInv, Opening

(* An open begins, pinned or not. *)
LEMMA OpenCallKeeps ==
    ASSUME EngineInv, OpenCall
    PROVE  EngineInv'
  <1>1. PICK fl \in Flags, p \in BOOLEAN :
          /\ pinned' = p /\ flags' = fl /\ stage' = IF p THEN "capture" ELSE "probe"
    BY DEF OpenCall
  <1>2. /\ stage = "closed" /\ Enter(Owner) /\ pin' = NoPin /\ drift' = "never"
        /\ path' = path /\ file' = file /\ changes' = changes /\ api' = api /\ map' = map
        /\ held' = held /\ plan' = plan /\ call' = call /\ pin_error' = pin_error
        /\ raced' = raced
    BY DEF OpenCall, fs
  <1>3. stage' \in {"capture", "probe"} /\ (stage' = "capture" <=> pinned')
    BY <1>1
  <1>4. /\ ErrorsExplained' /\ ret'[Owner] = "none" /\ ~last_error'[Owner]
        /\ ret' \in [Threads -> {"none", "ok", "zero", "error", "panic"}]
        /\ last_error' \in [Threads -> BOOLEAN]
    BY <1>2, <1>3, EnterErrors
  <1>5. /\ PlanFits' /\ FailClosed' /\ FaultNeedsRace' /\ RaceInv' /\ PlanOK(plan')
        /\ plan' = Empty /\ pin_error' = "none"
    BY <1>2, <1>3, OpeningFrame DEF Opening
  <1>6. pin' \in [ino : Inodes \cup {Missing}, size : Sizes, mtime : Nat]
    BY <1>2, EngineAssumption DEF NoPin
  <1>7. TypeOK'
    BY <1>1, <1>2, <1>3, <1>4, <1>5, <1>6 DEF EngineInv, TypeOK
  <1>8. StageInv'
    BY <1>3, <1>4, <1>5 DEF StageInv
  <1>9. HeldInv'
    BY <1>2, <1>3 DEF EngineInv, HeldInv, Live
  <1>10. DriftInv' /\ IdentityInv'
    BY <1>2, <1>3 DEF DriftInv, IdentityInv, Captured, Opened, Measured, Live
  <1> QED
    BY <1>4, <1>5, <1>7, <1>8, <1>9, <1>10 DEF EngineInv

(* Every failure of the open sequence returns to the closed handle. *)
LEMMA OpenFailKeeps ==
    ASSUME EngineInv, NEW closed, OpenFails(closed), held = closed, stage \in Opening
    PROVE  EngineInv'
  <1>1. /\ ReturnError(Owner) /\ stage' = "closed" /\ held' = {} /\ map' = NoMap
        /\ pin' = NoPin /\ path' = path /\ file' = file /\ changes' = changes
        /\ api' = api /\ pinned' = pinned /\ flags' = flags /\ plan' = plan
        /\ call' = call /\ pin_error' = pin_error /\ drift' = drift /\ raced' = raced
    BY DEF OpenFails, fs, history
  <1>2. Owner \in Threads /\ 0 \in Sizes
    BY EngineAssumption
  <1>3. /\ ErrorsExplained'
        /\ ret' \in [Threads -> {"none", "ok", "zero", "error", "panic"}]
        /\ last_error' \in [Threads -> BOOLEAN]
    BY <1>1, <1>2, ReturnErrors
  <1>4. /\ PlanFits' /\ FailClosed' /\ FaultNeedsRace' /\ RaceInv' /\ PlanOK(plan')
        /\ plan' = Empty /\ pin_error' = "none"
    BY <1>1, OpeningFrame DEF Opening
  <1>5. /\ pin' \in [ino : Inodes \cup {Missing}, size : Sizes, mtime : Nat]
        /\ map' \in [ino : Inodes \cup {Missing}, size : Sizes]
    BY <1>1, <1>2 DEF NoPin, NoMap
  <1>6. TypeOK'
    BY <1>1, <1>3, <1>4, <1>5 DEF EngineInv, TypeOK
  <1>7. StageInv' /\ HeldInv'
    BY <1>1, <1>4 DEF StageInv, HeldInv, Live
  <1>8. DriftInv' /\ IdentityInv'
    BY <1>1 DEF DriftInv, IdentityInv, Captured, Opened, Measured, Live
  <1> QED
    BY <1>3, <1>4, <1>6, <1>7, <1>8 DEF EngineInv

(* The steps that succeed: one stage further, errors and plan untouched. *)
LEMMA OpenStepFrame ==
    ASSUME EngineInv, stage \in Opening \ {"closed"}, stage' \in Opening \ {"closed"},
           UNCHANGED <<fs, api, pinned, flags, plan, call, errors, history>>,
           pin' \in [ino : Inodes \cup {Missing}, size : Sizes, mtime : Nat],
           map' \in [ino : Inodes \cup {Missing}, size : Sizes],
           held' \in {{}, {"fd"}, {"fd", "map"}},
           stage' = "mmap" => map'.size # 0, stage' = "measure" => map'.ino # Missing,
           HeldInv', DriftInv', IdentityInv'
    PROVE  EngineInv'
  <1>1. /\ path' = path /\ file' = file /\ changes' = changes /\ api' = api
        /\ pinned' = pinned /\ flags' = flags /\ plan' = plan /\ call' = call
        /\ pin_error' = pin_error /\ ret' = ret /\ last_error' = last_error
        /\ drift' = drift /\ raced' = raced
    BY DEF fs, errors, history
  <1>2. /\ PlanFits' /\ FailClosed' /\ FaultNeedsRace' /\ RaceInv' /\ PlanOK(plan')
        /\ plan' = Empty /\ pin_error' = "none"
    BY <1>1, OpeningFrame
  <1>3. stage' \in {"closed", "capture", "probe", "openfd", "measure", "mmap",
                    "opened", "open", "gate", "scan", "crashed"}
    BY DEF Opening
  <1>4. TypeOK'
    BY <1>1, <1>2, <1>3 DEF EngineInv, TypeOK
  <1>5. ret[Owner] = "none" /\ ~last_error[Owner]
    BY DEF EngineInv, StageInv, Opening
  <1>6. StageInv'
    BY <1>1, <1>2, <1>5 DEF StageInv, Opening
  <1>7. ErrorsExplained'
    BY <1>1 DEF EngineInv, ErrorsExplained, HasLastError, Opening
  <1> QED
    BY <1>2, <1>4, <1>6, <1>7 DEF EngineInv

(* A passed comparison on identity names the captured inode. *)
LEMMA MatchesPin ==
    ASSUME Matches(path, file)
    PROVE  /\ path # Missing
           /\ "identity" \in Effective(flags) => path = pin.ino
           /\ "size" \in Effective(flags) => file[path].size = pin.size
  BY DEF Matches, Revalidate

(* What the history says while an open of a pinned handle is in progress. *)
LEMMA NeverDrifted ==
    ASSUME EngineInv, stage \in Captured, pinned, drift = "never"
    PROVE  Matches(path, file)
  BY DEF EngineInv, DriftInv

(* A pinned open captures the identity of what the path names. *)
LEMMA CaptureKeeps ==
    ASSUME EngineInv, Capture
    PROVE  EngineInv'
  <1>1. /\ stage = "capture" /\ stage' = "probe" /\ path # Missing
        /\ pin' = [ino |-> path, size |-> file[path].size, mtime |-> file[path].mtime]
        /\ UNCHANGED <<fs, api, pinned, flags, map, held, plan, call, errors, history>>
        /\ path' = path /\ file' = file /\ map' = map /\ held' = held /\ pinned' = pinned
        /\ flags' = flags /\ drift' = drift
    BY DEF Capture, fs, history
  <1>2. path \in Inodes /\ file[path] \in [size : Sizes, mtime : Nat]
    BY <1>1 DEF EngineInv, TypeOK
  <1>3. pin' \in [ino : Inodes \cup {Missing}, size : Sizes, mtime : Nat]
    BY <1>1, <1>2
  <1>4. pin'.ino = path /\ pin'.size = file[path].size /\ pin'.mtime = file[path].mtime
    BY <1>1
  <1>5. pin' # NoPin
    BY <1>1, <1>4 DEF NoPin
  <1>6. Matches(path, file)'
    BY <1>1, <1>4 DEF Matches, Revalidate
  <1>7. DriftInv'
    BY <1>1, <1>4, <1>5, <1>6 DEF EngineInv, DriftInv
  <1>8. IdentityInv' /\ HeldInv'
    BY <1>1 DEF IdentityInv, Opened, Measured, Live, EngineInv, HeldInv
  <1>9. /\ map' \in [ino : Inodes \cup {Missing}, size : Sizes]
        /\ held' \in {{}, {"fd"}, {"fd", "map"}}
    BY <1>1 DEF EngineInv, TypeOK
  <1>10. stage \in Opening \ {"closed"} /\ stage' \in Opening \ {"closed"} /\ stage' # "mmap"
        /\ stage' # "measure"
    BY <1>1 DEF Opening
  <1>11. UNCHANGED <<fs, api, pinned, flags, plan, call, errors, history>>
    BY <1>1
  <1> QED
    BY <1>3, <1>7, <1>8, <1>9, <1>10, <1>11, OpenStepFrame

(* The steps after the capture leave the pin alone. *)
LEMMA DriftFrame ==
    ASSUME EngineInv, stage \in Captured, stage' \in Captured,
           UNCHANGED <<fs, pinned, flags, pin, drift>>
    PROVE  DriftInv'
  <1>1. /\ path' = path /\ file' = file /\ pinned' = pinned /\ flags' = flags
        /\ pin' = pin /\ drift' = drift
    BY DEF fs
  <1>2. Matches(path, file)' = Matches(path, file)
    BY <1>1 DEF Matches, Revalidate
  <1>3. stage' \notin {"closed", "capture"}
    BY DEF Captured, Opened, Measured, Live
  <1> QED
    BY <1>1, <1>2, <1>3 DEF EngineInv, DriftInv

(* The probe finds a regular file. *)
LEMMA ProbeKeeps ==
    ASSUME EngineInv, Probe
    PROVE  EngineInv'
  <1>1. /\ stage = "probe" /\ stage' = "openfd" /\ path \in Files
        /\ UNCHANGED <<fs, api, pinned, flags, plan, call, errors, history>>
        /\ UNCHANGED <<fs, pinned, flags, pin, drift>>
        /\ map' = map /\ held' = held /\ pinned' = pinned
        /\ flags' = flags /\ drift' = drift /\ pin' = pin
    BY DEF Probe, fs, history, handle
  <1>2. DriftInv'
    BY <1>1, DriftFrame DEF Captured
  <1>3. IdentityInv'
    <2>1. pinned /\ drift = "never" /\ "identity" \in Effective(flags) => pin.ino \in Files
      BY <1>1, NeverDrifted, MatchesPin DEF Captured
    <2> QED
      BY <1>1, <2>1 DEF IdentityInv, Opened, Measured, Live
  <1>4. HeldInv'
    BY <1>1 DEF Live, EngineInv, HeldInv
  <1>5. /\ pin' \in [ino : Inodes \cup {Missing}, size : Sizes, mtime : Nat]
        /\ map' \in [ino : Inodes \cup {Missing}, size : Sizes]
        /\ held' \in {{}, {"fd"}, {"fd", "map"}}
    BY <1>1 DEF EngineInv, TypeOK
  <1>6. stage \in Opening \ {"closed"} /\ stage' \in Opening \ {"closed"} /\ stage' # "mmap"
        /\ stage' # "measure"
    BY <1>1 DEF Opening
  <1> QED
    BY <1>1, <1>2, <1>3, <1>4, <1>5, <1>6, OpenStepFrame

(* The descriptor is opened on what the path names now. *)
LEMMA OpenFdKeeps ==
    ASSUME EngineInv, OpenFd
    PROVE  EngineInv'
  <1>1. /\ stage = "openfd" /\ stage' = "measure" /\ path # Missing
        /\ held' = {"fd"} /\ map' = [ino |-> path, size |-> 0]
        /\ UNCHANGED <<fs, api, pinned, flags, plan, call, errors, history>>
        /\ UNCHANGED <<fs, pinned, flags, pin, drift>>
        /\ pinned' = pinned /\ flags' = flags /\ drift' = drift /\ pin' = pin
    BY DEF OpenFd, fs, history, EngineInv, HeldInv
  <1>2. DriftInv'
    BY <1>1, DriftFrame DEF Captured, Opened
  <1>3. IdentityInv'
    <2>1. pinned /\ drift = "never" /\ "identity" \in Effective(flags) => path = pin.ino
      BY <1>1, NeverDrifted, MatchesPin DEF Captured
    <2>2. pinned /\ drift = "never" /\ "identity" \in Effective(flags) => pin.ino \in Files
      BY <1>1 DEF EngineInv, IdentityInv
    <2>3. map'.ino = path /\ Effective(flags)' = Effective(flags)
      BY <1>1 DEF Effective
    <2>4. stage' \notin Measured
      BY <1>1 DEF Measured, Live
    <2> QED
      BY <1>1, <2>1, <2>2, <2>3, <2>4 DEF IdentityInv
  <1>4. HeldInv'
    BY <1>1 DEF Live, HeldInv
  <1>5. /\ pin' \in [ino : Inodes \cup {Missing}, size : Sizes, mtime : Nat]
        /\ path \in Inodes \cup {Missing} /\ 0 \in Sizes
    BY <1>1, EngineAssumption DEF EngineInv, TypeOK
  <1>6. map' \in [ino : Inodes \cup {Missing}, size : Sizes]
    BY <1>1, <1>5
  <1>7. held' \in {{}, {"fd"}, {"fd", "map"}}
    BY <1>1
  <1>8. stage \in Opening \ {"closed"} /\ stage' \in Opening \ {"closed"} /\ stage' # "mmap"
        /\ map'.ino # Missing
    BY <1>1 DEF Opening
  <1> QED
    BY <1>1, <1>2, <1>3, <1>4, <1>5, <1>6, <1>7, <1>8, OpenStepFrame

(* lseek measures the descriptor, not the path: the two are the same file  *)
(* as long as the path never left the captured identity.                   *)
LEMMA MeasureKeeps ==
    ASSUME EngineInv, Measure
    PROVE  EngineInv'
  <1>1. PICK s \in IF map.ino \in Specials THEN Sizes ELSE {file[map.ino].size} :
          /\ map' = [map EXCEPT !.size = s]
          /\ held' = IF s = 0 THEN held \ {"fd"} ELSE held
          /\ stage' = IF s = 0 THEN "opened" ELSE "mmap"
    BY DEF Measure
  <1>2. /\ stage = "measure"
        /\ UNCHANGED <<fs, api, pinned, flags, plan, call, errors, history>>
        /\ UNCHANGED <<fs, pinned, flags, pin, drift>>
        /\ pinned' = pinned /\ flags' = flags /\ drift' = drift /\ pin' = pin
    BY DEF Measure, fs, history
  <1>3. stage' \in {"opened", "mmap"} /\ (stage' = "opened" <=> s = 0)
    BY <1>1
  <1>4. DriftInv'
    BY <1>2, <1>3, DriftFrame DEF Captured, Opened, Measured, Live
  <1>5. map \in [ino : Inodes \cup {Missing}, size : Sizes]
    BY DEF EngineInv, TypeOK
  <1>6. map'.ino = map.ino /\ map'.size = s
    BY <1>1, <1>5
  <1>7. IdentityInv'
    <2> SUFFICES ASSUME pinned, drift = "never", "identity" \in Effective(flags)
                 PROVE  /\ pin.ino \in Files /\ map.ino = pin.ino
                        /\ "size" \in Effective(flags) => s = pin.size
      BY <1>2, <1>6 DEF IdentityInv, Effective
    <2>1. pin.ino \in Files /\ map.ino = pin.ino
      BY <1>2 DEF EngineInv, IdentityInv, Opened
    <2>2. path = pin.ino /\ ("size" \in Effective(flags) => file[path].size = pin.size)
      BY <1>2, NeverDrifted, MatchesPin DEF Captured, Opened
    <2>3. s = file[map.ino].size
      BY <1>1, <2>1, EngineAssumption
    <2> QED
      BY <2>1, <2>2, <2>3
  <1>8. held = {"fd"}
    BY <1>2 DEF EngineInv, HeldInv
  <1>9. held' = (IF s = 0 THEN {} ELSE {"fd"})
    BY <1>1, <1>8
  <1>10. HeldInv'
    BY <1>3, <1>6, <1>9 DEF HeldInv, Live
  <1>11. s \in Sizes
    <2>1. CASE map.ino \in Specials
      BY <1>1, <2>1
    <2>2. CASE map.ino \notin Specials
      <3>1. map.ino \in Inodes
        BY <1>2, <1>5 DEF EngineInv, StageInv
      <3> QED
        BY <1>1, <2>2, <3>1 DEF EngineInv, TypeOK
    <2> QED
      BY <2>1, <2>2
  <1>12. map' \in [ino : Inodes \cup {Missing}, size : Sizes]
    BY <1>1, <1>5, <1>11
  <1>13. held' \in {{}, {"fd"}, {"fd", "map"}}
    BY <1>9
  <1>14. pin' \in [ino : Inodes \cup {Missing}, size : Sizes, mtime : Nat]
    BY <1>2 DEF EngineInv, TypeOK
  <1>15. stage \in Opening \ {"closed"} /\ stage' \in Opening \ {"closed"}
         /\ (stage' = "mmap" => map'.size # 0) /\ stage' # "measure"
    BY <1>2, <1>3, <1>6 DEF Opening
  <1> QED
    BY <1>2, <1>4, <1>7, <1>10, <1>12, <1>13, <1>14, <1>15, OpenStepFrame

(* The pages of the measured size are mapped. *)
LEMMA MapPagesKeeps ==
    ASSUME EngineInv, MapPages
    PROVE  EngineInv'
  <1>1. /\ stage = "mmap" /\ stage' = "opened" /\ held' = {"fd", "map"} /\ map' = map
        /\ UNCHANGED <<fs, api, pinned, flags, plan, call, errors, history>>
        /\ UNCHANGED <<fs, pinned, flags, pin, drift>>
        /\ pinned' = pinned /\ flags' = flags /\ drift' = drift /\ pin' = pin
    BY DEF MapPages, fs, history, EngineInv, HeldInv
  <1>2. DriftInv'
    BY <1>1, DriftFrame DEF Captured, Opened, Measured, Live
  <1>3. IdentityInv'
    BY <1>1 DEF EngineInv, IdentityInv, Opened, Measured, Live
  <1>4. map.size # 0
    BY <1>1 DEF EngineInv, StageInv
  <1>5. HeldInv'
    BY <1>1, <1>4 DEF HeldInv, Live
  <1>6. /\ pin' \in [ino : Inodes \cup {Missing}, size : Sizes, mtime : Nat]
        /\ map' \in [ino : Inodes \cup {Missing}, size : Sizes]
    BY <1>1 DEF EngineInv, TypeOK
  <1>7. held' \in {{}, {"fd"}, {"fd", "map"}}
    BY <1>1
  <1>8. stage \in Opening \ {"closed"} /\ stage' \in Opening \ {"closed"} /\ stage' # "mmap"
        /\ stage' # "measure"
    BY <1>1 DEF Opening
  <1> QED
    BY <1>1, <1>2, <1>3, <1>5, <1>6, <1>7, <1>8, OpenStepFrame
------------------------------------------------------------------------------
(* The live handle. *)

(* The owner's call returns without an error. *)
LEMMA ReturnGood ==
    ASSUME EngineInv, NEW r \in {"ok", "zero", "panic"}, Return(Owner, r), api' = api,
           stage \notin {"closed", "open"},
           r = "zero" => api = "rust" \/ map'.size = 0
    PROVE  /\ ErrorsExplained'
           /\ ret' \in [Threads -> {"none", "ok", "zero", "error", "panic"}]
           /\ last_error' \in [Threads -> BOOLEAN]
  <1>1. /\ Owner \in Threads /\ last_error \in [Threads -> BOOLEAN]
        /\ ret \in [Threads -> {"none", "ok", "zero", "error", "panic"}]
        /\ ~last_error[Owner]
    BY EngineAssumption DEF EngineInv, TypeOK, StageInv
  <1>2. ret' = [ret EXCEPT ![Owner] = r] /\ last_error' = last_error
    BY DEF Return
  <1>3. ret' \in [Threads -> {"none", "ok", "zero", "error", "panic"}]
    BY <1>1, <1>2
  <1>4. ret'[Owner] = r /\ r # "error" /\ \A u \in Threads \ {Owner} : ret'[u] = ret[u]
    BY <1>1, <1>2
  <1>5. api = "ffi" => \A u \in Threads : HasLastError(u)' <=> ret'[u] = "error"
    BY <1>1, <1>2, <1>4 DEF EngineInv, ErrorsExplained, HasLastError
  <1> QED
    BY <1>1, <1>2, <1>3, <1>4, <1>5 DEF ErrorsExplained

(* A plan that fits has the type of a plan. *)
LEMMA FitsOK ==
    ASSUME NEW p, NEW l \in Nat, Fits(p, l)
    PROVE  PlanOK(p)
  <1>1. CASE p = FromRanges(p.ends) /\ Ends(p.ends, l)
    <2>1. p.ends \in Seq(1..l) /\ Len(p.ends) > 0
      BY <1>1 DEF Ends
    <2>2. p.ends # <<>>
      BY <2>1
    <2>3. p.kind = "ranges"
      BY <1>1, <2>2 DEF FromRanges
    <2>4. p.ends \in Seq(Nat)
      BY <2>1
    <2> QED
      BY <1>1, <2>3, <2>4 DEF PlanOK
  <1>2. CASE /\ l > 0 /\ p.kind = "fixed" /\ p.ends = <<>>
             /\ p.size \in Nat \ {0} /\ p.count = FixedCount(l, p.size)
    <2>1. l \in Nat \ {0} /\ p.size \in Nat \ {0} /\ p.count = FixedCount(l, p.size)
      BY <1>2
    <2>2. p.count \in Nat
      BY <2>1, FixedCountBounds
    <2> QED
      BY <1>2, <2>2 DEF PlanOK
  <1> QED
    BY <1>1, <1>2 DEF Fits, PlanOK

(* The size of a mapping is a number. *)
LEMMA SizeIsNat ==
    ASSUME EngineInv
    PROVE  map.size \in Nat
  BY EngineAssumption DEF EngineInv, TypeOK

(* What is left to show for a step of a live handle. *)
LEMMA LiveStepFrame ==
    ASSUME EngineInv, UNCHANGED <<fs, api, handle, drift>>,
           stage' = stage \/ (stage \in Live /\ stage' \in Live),
           call' \in Calls \cup {NoCall}, pin_error' \in PinMismatchKind \cup {"none"},
           ret' \in [Threads -> {"none", "ok", "zero", "error", "panic"}],
           last_error' \in [Threads -> BOOLEAN], raced' \in BOOLEAN,
           StageInv', PlanFits', FailClosed', ErrorsExplained', RaceInv', FaultNeedsRace'
    PROVE  EngineInv'
  <1>1. UNCHANGED <<fs, handle, drift>> /\ api' = api
    OBVIOUS
  <1>2. /\ HeldInv' /\ DriftInv' /\ IdentityInv'
        /\ path' = path /\ file' = file /\ changes' = changes /\ pinned' = pinned
        /\ flags' = flags /\ pin' = pin /\ map' = map /\ held' = held /\ drift' = drift
    BY <1>1, HandleFrame
  <1>3. map'.size \in Nat
    BY <1>2, SizeIsNat
  <1>4. PlanOK(plan')
    <2>1. Fits(plan', map'.size)
      BY DEF PlanFits
    <2> QED
      BY <1>3, <2>1, FitsOK
  <1>5. stage' \in {"closed", "capture", "probe", "openfd", "measure", "mmap",
                    "opened", "open", "gate", "scan", "crashed"}
    BY DEF EngineInv, TypeOK, Live
  <1>6. TypeOK'
    BY <1>1, <1>2, <1>4, <1>5 DEF EngineInv, TypeOK
  <1> QED
    BY <1>2, <1>6 DEF EngineInv

(* The handle is handed out, with no layout yet. *)
LEMMA NewHandleKeeps ==
    ASSUME EngineInv, NewHandle
    PROVE  EngineInv'
  <1>1. /\ stage = "opened" /\ stage' = "open" /\ plan' = Empty /\ pin_error' = "none"
        /\ Return(Owner, "ok") /\ api' = api /\ call' = call /\ raced' = raced
        /\ UNCHANGED <<fs, api, handle, drift>>
    BY DEF NewHandle, history
  <1>2. /\ ErrorsExplained'
        /\ ret' \in [Threads -> {"none", "ok", "zero", "error", "panic"}]
        /\ last_error' \in [Threads -> BOOLEAN]
    BY <1>1, ReturnGood
  <1>3. StageInv' /\ PlanFits' /\ FailClosed' /\ RaceInv' /\ FaultNeedsRace'
    BY <1>1 DEF StageInv, PlanFits, Fits, FailClosed, PinStatus, RaceInv, FaultNeedsRace
  <1>4. call' \in Calls \cup {NoCall} /\ raced' \in BOOLEAN
    BY <1>1 DEF EngineInv, TypeOK
  <1>5. stage \in Live /\ stage' \in Live
    BY <1>1 DEF Live
  <1> QED
    BY <1>1, <1>2, <1>3, <1>4, <1>5, LiveStepFrame

(* A gated call begins. *)
LEMMA BeginKeeps ==
    ASSUME EngineInv, NEW c \in Calls, Begin(c)
    PROVE  EngineInv'
  <1>1. /\ stage = "open" /\ stage' = "gate" /\ call' = c /\ Enter(Owner) /\ plan' = plan
        /\ pin_error' = pin_error /\ api' = api /\ raced' = raced
        /\ UNCHANGED <<fs, api, handle, drift>>
        /\ map' = map /\ pinned' = pinned /\ flags' = flags
    BY DEF Begin, history, handle
  <1>2. /\ ErrorsExplained' /\ ret'[Owner] = "none" /\ ~last_error'[Owner]
        /\ ret' \in [Threads -> {"none", "ok", "zero", "error", "panic"}]
        /\ last_error' \in [Threads -> BOOLEAN]
    BY <1>1, EnterErrors
  <1>3. PlanFits' /\ FailClosed'
    BY <1>1 DEF EngineInv, PlanFits, Fits, FailClosed, PinStatus
  <1>4. StageInv' /\ RaceInv' /\ FaultNeedsRace'
    BY <1>1, <1>2 DEF StageInv, RaceInv, FaultNeedsRace
  <1>5. /\ call' \in Calls \cup {NoCall} /\ raced' \in BOOLEAN
        /\ pin_error' \in PinMismatchKind \cup {"none"}
    BY <1>1 DEF EngineInv, TypeOK
  <1>6. stage \in Live /\ stage' \in Live
    BY <1>1 DEF Live
  <1> QED
    BY <1>1, <1>2, <1>3, <1>4, <1>5, <1>6, LiveStepFrame

(* The gate lets a scan through: without a pin, or with a path that matches. *)
LEMMA GateKeeps ==
    ASSUME EngineInv, GateUnpinned \/ GatePass
    PROVE  EngineInv'
  <1>1. /\ stage = "gate" /\ stage' = "scan" /\ call' = call /\ plan' = plan
        /\ api' = api /\ ret' = ret /\ last_error' = last_error
        /\ UNCHANGED <<fs, api, handle, drift>>
        /\ map' = map /\ pinned' = pinned /\ flags' = flags /\ path' = path
        /\ file' = file /\ pin' = pin
    BY DEF GateUnpinned, GatePass, history, handle, errors, fs
  <1>2. pin_error' = "none"
    <2>1. CASE GateUnpinned
      BY <2>1 DEF GateUnpinned, errors, EngineInv, FailClosed, PinStatus
    <2>2. CASE GatePass
      BY <2>2 DEF GatePass
    <2> QED
      BY <2>1, <2>2
  <1>3. ~pinned \/ Matches(path, file)
    BY DEF GateUnpinned, GatePass
  <1>4. raced' \in BOOLEAN
    BY DEF EngineInv, TypeOK, GateUnpinned, GatePass, history
  <1>5. RaceInv'
    BY <1>1, <1>3 DEF RaceInv, Matches, Revalidate
  <1>6. PlanFits' /\ FailClosed' /\ FaultNeedsRace'
    BY <1>1, <1>2 DEF EngineInv, PlanFits, Fits, FailClosed, PinStatus, FaultNeedsRace
  <1>7. StageInv'
    BY <1>1, <1>2 DEF EngineInv, StageInv
  <1>8. ErrorsExplained'
    BY <1>1 DEF EngineInv, ErrorsExplained, HasLastError
  <1>9. /\ call' \in Calls \cup {NoCall} /\ pin_error' \in PinMismatchKind \cup {"none"}
        /\ ret' \in [Threads -> {"none", "ok", "zero", "error", "panic"}]
        /\ last_error' \in [Threads -> BOOLEAN]
    BY <1>1, <1>2 DEF EngineInv, TypeOK
  <1>10. stage \in Live /\ stage' \in Live
    BY <1>1 DEF Live
  <1> QED
    BY <1>1, <1>4, <1>5, <1>6, <1>7, <1>8, <1>9, <1>10, LiveStepFrame

(* A refused call: the gate, the C partitioner or the scanner's assertion. *)
LEMMA RefusalKeeps ==
    ASSUME EngineInv,
           GateFailRust \/ GateFailFfi \/ RejectZero \/ PanicPattern
    PROVE  EngineInv'
  <1>1. /\ stage \in {"gate", "scan"} /\ stage' = "open" /\ call' = NoCall
        /\ api' = api /\ raced' = raced /\ map' = map
        /\ UNCHANGED <<fs, api, handle, drift>>
        /\ pinned' = pinned /\ flags' = flags
    BY DEF GateFailRust, GateFailFfi, RejectZero, PanicPattern, history, handle
  <1>2. /\ ErrorsExplained'
        /\ ret' \in [Threads -> {"none", "ok", "zero", "error", "panic"}]
        /\ last_error' \in [Threads -> BOOLEAN]
    <2>1. CASE GateFailRust
      <3>1. Return(Owner, "zero") /\ api = "rust"
        BY <2>1 DEF GateFailRust
      <3> QED
        BY <1>1, <3>1, ReturnGood
    <2>2. CASE GateFailFfi \/ RejectZero
      <3>1. ReturnError(Owner) /\ Owner \in Threads
        BY <2>2, EngineAssumption DEF GateFailFfi, RejectZero
      <3> QED
        BY <1>1, <3>1, ReturnErrors
    <2>3. CASE PanicPattern
      <3>1. Return(Owner, "panic")
        BY <2>3 DEF PanicPattern
      <3> QED
        BY <1>1, <3>1, ReturnGood
    <2> QED
      BY <2>1, <2>2, <2>3
  <1>3. /\ PlanFits' /\ FailClosed' /\ pin_error' \in PinMismatchKind \cup {"none"}
    <2>1. CASE GateFailRust
      <3>1. plan' = Empty /\ pinned /\ pin_error' = Revalidate(path, file)
        BY <2>1 DEF GateFailRust
      <3>2. /\ pin_error' \in PinMismatchKind \cup {"none"}
            /\ pin_error' = "replaced" => "identity" \in Effective(flags)
            /\ pin_error' = "truncated" => "size" \in Effective(flags)
            /\ pin_error' = "mtime-jump" => "mtime" \in Effective(flags)
        BY <3>1 DEF Revalidate, PinMismatchKind
      <3>3. Effective(flags)' = Effective(flags)
        BY <1>1 DEF Effective
      <3> QED
        BY <1>1, <3>1, <3>2, <3>3 DEF PlanFits, Fits, FailClosed, PinStatus
    <2>2. CASE GateFailFfi \/ RejectZero \/ PanicPattern
      <3>1. plan' = plan /\ pin_error' = pin_error
        BY <2>2 DEF GateFailFfi, RejectZero, PanicPattern
      <3> QED
        BY <1>1, <3>1 DEF EngineInv, TypeOK, PlanFits, Fits, FailClosed, PinStatus
    <2> QED
      BY <2>1, <2>2
  <1>4. StageInv' /\ RaceInv' /\ FaultNeedsRace'
    BY <1>1 DEF StageInv, RaceInv, FaultNeedsRace
  <1>5. call' \in Calls \cup {NoCall} /\ raced' \in BOOLEAN
    BY <1>1 DEF EngineInv, TypeOK
  <1>6. stage \in Live /\ stage' \in Live
    BY <1>1 DEF Live
  <1> QED
    BY <1>1, <1>2, <1>3, <1>4, <1>5, <1>6, LiveStepFrame

(* A scan that stores the plan p. *)
LEMMA FinishKeeps ==
    ASSUME EngineInv, stage = "scan", NEW p, Finish(p), Fits(p, map.size),
           PlanLen(p) = 0 => api = "rust" \/ map.size = 0
    PROVE  EngineInv'
  <1>1. /\ stage' = "open" /\ call' = NoCall /\ plan' = p
        /\ api' = api /\ raced' = raced /\ map' = map /\ pin_error' = pin_error
        /\ UNCHANGED <<fs, api, handle, drift>>
        /\ pinned' = pinned /\ flags' = flags
    BY DEF Finish, history, handle
  <1>2. /\ ErrorsExplained'
        /\ ret' \in [Threads -> {"none", "ok", "zero", "error", "panic"}]
        /\ last_error' \in [Threads -> BOOLEAN]
    <2> DEFINE r == IF PlanLen(p) = 0 THEN "zero" ELSE "ok"
    <2>1. Return(Owner, r) /\ r \in {"ok", "zero", "panic"}
      BY DEF Finish
    <2>2. r = "zero" => api = "rust" \/ map'.size = 0
      BY <1>1
    <2> QED
      BY <1>1, <2>1, <2>2, ReturnGood
  <1>3. pin_error' = "none"
    BY <1>1 DEF EngineInv, StageInv
  <1>4. PlanFits' /\ FailClosed'
    BY <1>1, <1>3 DEF PlanFits, FailClosed, PinStatus
  <1>5. StageInv' /\ RaceInv' /\ FaultNeedsRace'
    BY <1>1 DEF StageInv, RaceInv, FaultNeedsRace
  <1>6. /\ call' \in Calls \cup {NoCall} /\ raced' \in BOOLEAN
        /\ pin_error' \in PinMismatchKind \cup {"none"}
    BY <1>1, <1>3 DEF EngineInv, TypeOK
  <1>7. stage \in Live /\ stage' \in Live
    BY <1>1 DEF Live
  <1> QED
    BY <1>1, <1>2, <1>4, <1>5, <1>6, <1>7, LiveStepFrame

(* The arguments of a gated call. *)
LEMMA CallArgument ==
    ASSUME NEW c \in Calls
    PROVE  c.n \in Nat
  BY EngineAssumption DEF Calls

(* A partitioning call that reads the mapping, or has nothing to read. *)
LEMMA ScanKeeps ==
    ASSUME EngineInv, ScanNothing \/ ScanFixed \/ ScanBytes
    PROVE  EngineInv'
  <1>1. stage = "scan"
    BY DEF ScanNothing, ScanFixed, ScanBytes
  <1>2. map.size \in Nat /\ call.n \in Nat
    BY <1>1, SizeIsNat, CallArgument DEF EngineInv, StageInv
  <1>3. CASE ScanNothing
    <2>1. Finish(Empty) /\ (map.size = 0 \/ api = "rust")
      BY <1>3 DEF ScanNothing
    <2>2. Fits(Empty, map.size)
      BY DEF Fits
    <2> QED
      BY <1>1, <2>1, <2>2, FinishKeeps
  <1>4. CASE ScanFixed
    <2> DEFINE size == MaxOne(call.n)
               p == Fixed(map.size, call.n)
    <2>1. size \in Nat \ {0} /\ map.size \in Nat \ {0} /\ Finish(p)
      BY <1>2, <1>4 DEF MaxOne, ScanFixed
    <2> HIDE DEF size
    <2>2. p = [kind |-> "fixed", ends |-> <<>>, size |-> size,
               count |-> FixedCount(map.size, size)]
      BY <2>1 DEF Fixed, size
    <2>3. FixedCount(map.size, size) \in Nat \ {0}
      BY <2>1, FixedCountBounds
    <2> HIDE DEF p
    <2>4. Fits(p, map.size)
      BY <2>1, <2>2 DEF Fits
    <2>5. PlanLen(p) # 0
      BY <2>2, <2>3 DEF PlanLen
    <2> QED
      BY <1>1, <2>1, <2>4, <2>5, FinishKeeps
  <1>5. CASE ScanBytes
    <2>1. PICK e \in Layouts : Finish(FromRanges(e))
      BY <1>5 DEF ScanBytes
    <2>2. Ends(e, map.size) /\ e # <<>>
      <3>1. e \in Coverings(map.size, call.n) \/ e \in Coverings(map.size, map.size)
        BY DEF Layouts
      <3> QED
        BY <1>2, <3>1, CoveringEnds
    <2> DEFINE p == FromRanges(e)
    <2>3. p = [kind |-> "ranges", ends |-> e, size |-> 0, count |-> 0]
      BY <2>2 DEF FromRanges
    <2>4. p.ends = e /\ p.kind = "ranges"
      BY <2>3
    <2>5. Fits(p, map.size)
      BY <2>2, <2>4 DEF Fits
    <2>6. Len(e) # 0
      BY <2>2 DEF Ends
    <2>7. PlanLen(p) # 0
      BY <2>4, <2>6 DEF PlanLen
    <2> QED
      BY <1>1, <2>1, <2>5, <2>7, FinishKeeps
  <1> QED
    BY <1>3, <1>4, <1>5

(* A gate that passed, with no change since and no drift unseen, vouches   *)
(* for the mapping.                                                        *)
LEMMA GateVouches ==
    ASSUME EngineInv, stage = "scan", pinned, ~raced, drift # "back",
           "identity" \in Effective(flags)
    PROVE  /\ map.ino = path
           /\ "size" \in Effective(flags) => map.size = file[path].size
  <1>1. Matches(path, file)
    BY DEF EngineInv, RaceInv
  <1>2. stage \in Captured /\ stage \in Opened /\ stage \in Measured
    BY DEF Captured, Opened, Measured, Live
  <1>3. drift # "away"
    BY <1>1, <1>2 DEF EngineInv, DriftInv
  <1>4. drift = "never"
    BY <1>3 DEF EngineInv, TypeOK
  <1>5. map.ino = pin.ino /\ ("size" \in Effective(flags) => map.size = pin.size)
    BY <1>2, <1>4 DEF EngineInv, IdentityInv
  <1> QED
    BY <1>1, <1>5, MatchesPin

(* A read beyond the end of a file that was cut short. *)
LEMMA FaultKeeps ==
    ASSUME EngineInv, ScanFault
    PROVE  EngineInv'
  <1>1. /\ stage = "scan" /\ stage' = "crashed" /\ file[map.ino].size < map.size
        /\ api' = api /\ raced' = raced /\ map' = map /\ pin_error' = pin_error
        /\ UNCHANGED <<fs, api, handle, drift>> /\ plan' = plan /\ call' = call
        /\ pinned' = pinned /\ flags' = flags /\ drift' = drift
        /\ ret' = ret /\ last_error' = last_error
    BY DEF ScanFault, history, handle, errors
  <1>2. FaultNeedsRace'
    <2> SUFFICES ASSUME pinned, {"identity", "size"} \subseteq Effective(flags),
                        ~raced, drift # "back"
                 PROVE  FALSE
      BY <1>1 DEF FaultNeedsRace, Effective
    <2>1. map.ino = path /\ map.size = file[path].size
      BY <1>1, GateVouches
    <2>2. map.size \in Nat
      BY SizeIsNat
    <2>3. ~(map.size < map.size)
      BY <2>2
    <2> QED
      BY <1>1, <2>1, <2>3
  <1>3. StageInv' /\ RaceInv'
    BY <1>1 DEF EngineInv, StageInv, RaceInv
  <1>4. PlanFits' /\ FailClosed'
    BY <1>1 DEF EngineInv, PlanFits, FailClosed, PinStatus
  <1>5. ErrorsExplained'
    BY <1>1 DEF EngineInv, ErrorsExplained, HasLastError
  <1>6. /\ call' \in Calls \cup {NoCall} /\ raced' \in BOOLEAN
        /\ pin_error' \in PinMismatchKind \cup {"none"}
        /\ ret' \in [Threads -> {"none", "ok", "zero", "error", "panic"}]
        /\ last_error' \in [Threads -> BOOLEAN]
    BY <1>1 DEF EngineInv, TypeOK
  <1>7. stage \in Live /\ stage' \in Live
    BY <1>1 DEF Live
  <1> QED
    BY <1>1, <1>2, <1>3, <1>4, <1>5, <1>6, <1>7, LiveStepFrame
------------------------------------------------------------------------------
(* Calls that are not gated. *)

(* Calls that do not pass the gate: a chunk of the layout, an invalid argument. *)
LEMMA UngatedKeeps ==
    ASSUME EngineInv, NEW t \in Threads, GetChunk(t) \/ InvalidArgument(t)
    PROVE  EngineInv'
  <1>1. /\ stage' = stage /\ api' = api /\ raced' = raced /\ map' = map
        /\ pin_error' = pin_error /\ plan' = plan /\ call' = call
        /\ UNCHANGED <<fs, api, handle, drift>> /\ drift' = drift
        /\ path' = path /\ file' = file /\ pin' = pin
        /\ pinned' = pinned /\ flags' = flags
    BY DEF GetChunk, InvalidArgument, history, handle, fs
  <1>2. /\ ErrorsExplained'
        /\ ret' \in [Threads -> {"none", "ok", "zero", "error", "panic"}]
        /\ last_error' \in [Threads -> BOOLEAN]
        /\ stage \notin {"closed", "open"} =>
              ret'[Owner] = ret[Owner] /\ last_error'[Owner] = last_error[Owner]
    <2>1. CASE ReturnError(t) /\ (stage # "open" => InvalidArgument(t))
      <3>1. t = Owner => stage \in {"closed", "open"}
        BY <2>1 DEF InvalidArgument
      <3>2. stage' # "open" \/ (map' = map /\ (stage = "open" \/ t = Owner))
        BY <1>1
      <3>3. /\ ErrorsExplained'
            /\ t # Owner => ret'[Owner] = ret[Owner] /\ last_error'[Owner] = last_error[Owner]
            /\ ret' \in [Threads -> {"none", "ok", "zero", "error", "panic"}]
            /\ last_error' \in [Threads -> BOOLEAN]
        BY <1>1, <2>1, <3>2, ReturnErrors
      <3> QED
        BY <3>1, <3>3
    <2>2. CASE /\ stage = "open" /\ ret' = [ret EXCEPT ![t] = "ok"]
               /\ last_error' = [last_error EXCEPT ![t] = FALSE]
      <3>1. /\ last_error \in [Threads -> BOOLEAN]
            /\ ret \in [Threads -> {"none", "ok", "zero", "error", "panic"}]
            /\ Owner \in Threads
        BY EngineAssumption DEF EngineInv, TypeOK
      <3>2. ret' \in [Threads -> {"none", "ok", "zero", "error", "panic"}]
        BY <2>2, <3>1
      <3>3. last_error' \in [Threads -> BOOLEAN]
        BY <2>2, <3>1
      <3>4. /\ ret'[t] = "ok" /\ ~last_error'[t]
            /\ \A u \in Threads \ {t} : ret'[u] = ret[u] /\ last_error'[u] = last_error[u]
        BY <2>2, <3>1
      <3>5. api = "ffi" => \A u \in Threads : HasLastError(u)' <=> ret'[u] = "error"
        BY <3>4 DEF EngineInv, ErrorsExplained, HasLastError
      <3>6. api = "ffi" => (map.size > 0 => ret'[Owner] # "zero")
        BY <2>2, <3>1, <3>4 DEF EngineInv, ErrorsExplained
      <3> QED
        BY <1>1, <2>2, <3>2, <3>3, <3>5, <3>6 DEF ErrorsExplained
    <2> QED
      BY <2>1, <2>2 DEF GetChunk, InvalidArgument
  <1>3. StageInv'
    BY <1>1, <1>2 DEF EngineInv, StageInv
  <1>4. RaceInv' /\ FaultNeedsRace'
    BY <1>1 DEF EngineInv, RaceInv, FaultNeedsRace, Matches, Revalidate, Effective
  <1>5. PlanFits' /\ FailClosed'
    BY <1>1 DEF EngineInv, PlanFits, FailClosed, PinStatus
  <1>6. /\ call' \in Calls \cup {NoCall} /\ raced' \in BOOLEAN
        /\ pin_error' \in PinMismatchKind \cup {"none"}
    BY <1>1 DEF EngineInv, TypeOK
  <1> QED
    BY <1>1, <1>2, <1>3, <1>4, <1>5, <1>6, LiveStepFrame

(* The stored pin error is taken. *)
LEMMA TakeKeeps ==
    ASSUME EngineInv, TakePinError
    PROVE  EngineInv'
  <1>1. /\ stage = "open" /\ stage' = stage /\ api' = api /\ raced' = raced /\ map' = map
        /\ pin_error' = "none" /\ plan' = plan /\ call' = call
        /\ UNCHANGED <<fs, api, handle, drift>>
        /\ ret' = ret /\ last_error' = last_error
    BY DEF TakePinError, history, handle
  <1>2. StageInv' /\ RaceInv' /\ FaultNeedsRace' /\ FailClosed'
    BY <1>1 DEF StageInv, RaceInv, FaultNeedsRace, FailClosed, PinStatus
  <1>3. PlanFits'
    BY <1>1 DEF EngineInv, PlanFits
  <1>4. ErrorsExplained'
    BY <1>1 DEF EngineInv, ErrorsExplained, HasLastError
  <1>5. /\ call' \in Calls \cup {NoCall} /\ raced' \in BOOLEAN
        /\ pin_error' \in PinMismatchKind \cup {"none"}
        /\ ret' \in [Threads -> {"none", "ok", "zero", "error", "panic"}]
        /\ last_error' \in [Threads -> BOOLEAN]
    BY <1>1 DEF EngineInv, TypeOK
  <1> QED
    BY <1>1, <1>2, <1>3, <1>4, <1>5, LiveStepFrame

(* The handle is freed. *)
LEMMA FreeKeeps ==
    ASSUME EngineInv, Free
    PROVE  EngineInv'
  <1>1. /\ stage = "open" /\ stage' = "closed" /\ held' = held \ {"map", "fd"}
        /\ map' = NoMap /\ pin' = NoPin /\ plan' = Empty /\ pin_error' = "none"
        /\ path' = path /\ file' = file /\ changes' = changes
        /\ api' = api /\ pinned' = pinned /\ flags' = flags
        /\ call' = call /\ drift' = drift /\ raced' = raced
        /\ ret' = ret /\ last_error' = last_error
    BY DEF Free, DropMmapFile, fs, history
  <1>2. held' = {}
    BY <1>1 DEF EngineInv, HeldInv, Live
  <1>3. /\ pin' \in [ino : Inodes \cup {Missing}, size : Sizes, mtime : Nat]
        /\ map' \in [ino : Inodes \cup {Missing}, size : Sizes]
    BY <1>1, EngineAssumption DEF NoPin, NoMap
  <1>4. PlanOK(plan') /\ held' \in {{}, {"fd"}, {"fd", "map"}}
    BY <1>1, <1>2 DEF PlanOK
  <1>5. TypeOK'
    BY <1>1, <1>3, <1>4 DEF EngineInv, TypeOK
  <1>6. StageInv' /\ HeldInv' /\ PlanFits' /\ FailClosed' /\ RaceInv' /\ FaultNeedsRace'
    BY <1>1, <1>2 DEF StageInv, HeldInv, Live, PlanFits, Fits, FailClosed, PinStatus,
       RaceInv, FaultNeedsRace
  <1>7. ErrorsExplained'
    BY <1>1 DEF EngineInv, ErrorsExplained, HasLastError
  <1>8. DriftInv' /\ IdentityInv'
    BY <1>1 DEF DriftInv, IdentityInv, Captured, Opened, Measured, Live
  <1> QED
    BY <1>5, <1>6, <1>7, <1>8 DEF EngineInv
------------------------------------------------------------------------------
(* Every step of the handle, of its callers and of the file system keeps the invariant. *)
LEMMA NextKeeps == EngineInv /\ [Next]_vars => EngineInv'
  <1> SUFFICES ASSUME EngineInv, [Next]_vars PROVE EngineInv'
    OBVIOUS
  <1>1. CASE Rename \/ Write
    BY <1>1, ChangeKeeps
  <1>2. CASE OpenCall
    BY <1>2, OpenCallKeeps
  <1>3. CASE CaptureFail \/ ProbeFail \/ OpenFdFail \/ MeasureFail \/ MapFail
    <2>1. CASE CaptureFail \/ ProbeFail \/ OpenFdFail
      <3>1. OpenFails({}) /\ held = {} /\ stage \in Opening
        BY <2>1 DEF CaptureFail, ProbeFail, OpenFdFail, Opening, EngineInv, HeldInv
      <3> QED
        BY <3>1, OpenFailKeeps
    <2>2. CASE MeasureFail \/ MapFail
      <3>1. OpenFails({"fd"}) /\ held = {"fd"} /\ stage \in Opening
        BY <2>2 DEF MeasureFail, MapFail, Opening, EngineInv, HeldInv
      <3> QED
        BY <3>1, OpenFailKeeps
    <2> QED
      BY <1>3, <2>1, <2>2
  <1>4. CASE Capture
    BY <1>4, CaptureKeeps
  <1>5. CASE Probe
    BY <1>5, ProbeKeeps
  <1>6. CASE OpenFd
    BY <1>6, OpenFdKeeps
  <1>7. CASE Measure
    BY <1>7, MeasureKeeps
  <1>8. CASE MapPages
    BY <1>8, MapPagesKeeps
  <1>9. CASE OpenedRust \/ OpenedPinnedRust \/ OpenedFfi \/ OpenedPinnedFfi
    BY <1>9, NewHandleKeeps DEF OpenedRust, OpenedPinnedRust, OpenedFfi, OpenedPinnedFfi
  <1>10. CASE ScanCall \/ PartitionCall
    BY <1>10, BeginKeeps DEF ScanCall, PartitionCall
  <1>11. CASE GateUnpinned \/ GatePass
    BY <1>11, GateKeeps
  <1>12. CASE GateFailRust \/ GateFailFfi \/ RejectZero \/ PanicPattern
    BY <1>12, RefusalKeeps
  <1>13. CASE ScanNothing \/ ScanFixed \/ ScanBytes
    BY <1>13, ScanKeeps
  <1>14. CASE ScanFault
    BY <1>14, FaultKeeps
  <1>15. CASE \E t \in Threads : GetChunk(t) \/ InvalidArgument(t)
    BY <1>15, UngatedKeeps
  <1>16. CASE TakePinError
    BY <1>16, TakeKeeps
  <1>17. CASE Free
    BY <1>17, FreeKeeps
  <1>18. CASE Gone \/ UNCHANGED vars
    BY <1>18, StutterKeeps DEF Gone
  <1> QED
    BY <1>1, <1>2, <1>3, <1>4, <1>5, <1>6, <1>7, <1>8, <1>9, <1>10, <1>11, <1>12, <1>13,
       <1>14, <1>15, <1>16, <1>17, <1>18 DEF Next

(* The handle's inductive invariant (src/lib.rs, src/ffi.rs, src/mmap.rs,  *)
(* src/pin.rs): what every stage of an open and of a gated call relies on. *)
THEOREM EngineInvariant == Spec => []EngineInv
  BY InitInv, NextKeeps, PTL DEF Spec

(* Every variable of the handle keeps its type, through failed opens,      *)
(* refused scans and any number of file-system changes.                    *)
THEOREM TypeCorrect == Spec => []TypeOK
  <1>1. EngineInv => TypeOK
    BY DEF EngineInv
  <1> QED
    BY <1>1, EngineInvariant, PTL

(* open_unix and Drop for MmapFile: on every path through the open         *)
(* sequence, its failures included, a descriptor is closed and a mapping   *)
(* unmapped unless the live handle owns it.                                *)
THEOREM HandlesAreReleased == Spec => []NothingLeaks
  <1>1. EngineInv => NothingLeaks
    BY DEF EngineInv, HeldInv, NothingLeaks
  <1> QED
    BY <1>1, EngineInvariant, PTL

(* check_pinned: a stashed mismatch always comes with an empty plan and    *)
(* names a class the handle is pinned on.                                  *)
THEOREM MismatchFailsClosed == Spec => []FailClosed
  <1>1. EngineInv => FailClosed
    BY DEF EngineInv
  <1> QED
    BY <1>1, EngineInvariant, PTL

(* LAST_ERROR: each thread has a message exactly if its own last call      *)
(* failed, however the calls of the threads interleave.                    *)
THEOREM ErrorsAreExplained == Spec => []ErrorsExplained
  <1>1. EngineInv => ErrorsExplained
    BY DEF EngineInv
  <1> QED
    BY <1>1, EngineInvariant, PTL

(* ChunkPlan::range_at: for every mapping length and chunk size, the       *)
(* ranges get_chunk serves tile the mapping.                               *)
THEOREM LayoutTiles == Spec => []LayoutTilesMapping
  <1>1. ASSUME EngineInv PROVE LayoutTilesMapping
    <2>1. PlanFits /\ map.size \in Nat
      BY <1>1, SizeIsNat DEF EngineInv
    <2> QED
      BY <2>1, FitsTiles
  <1> QED
    BY <1>1, EngineInvariant, PTL

(* PinnedFile::revalidate before a scan: a passed gate vouches for the     *)
(* mapping unless a change slipped in after the stat or the metadata left  *)
(* the captured identity and came back.                                    *)
THEOREM PassedGateIsSound == Spec => []GateIsSound
  <1>1. EngineInv => GateIsSound
    BY GateVouches DEF GateIsSound
  <1> QED
    BY <1>1, EngineInvariant, PTL

(* A scan of a handle pinned on identity and size faults on lost pages     *)
(* only in those two cases.                                                *)
THEOREM FaultOnlyByRace == Spec => []FaultNeedsRace
  <1>1. EngineInv => FaultNeedsRace
    BY DEF EngineInv
  <1> QED
    BY <1>1, EngineInvariant, PTL

(* ffi.rs: no step that ends in an error replaces the layout of an open    *)
(* handle.                                                                 *)
THEOREM ErrorsKeepLayout == Spec => LayoutSurvivesErrors
  <1> DEFINE Kept == (api = "ffi" /\ plan' # plan /\ stage' = "open") => ret'[Owner] # "error"
  <1>1. EngineInv /\ [Next]_vars => [Kept]_vars
    <2> SUFFICES ASSUME EngineInv, Next, api = "ffi", plan' # plan, stage' = "open"
                 PROVE  ret'[Owner] # "error"
      OBVIOUS
    <2>1. /\ Owner \in Threads
          /\ ret \in [Threads -> {"none", "ok", "zero", "error", "panic"}]
      BY EngineAssumption DEF EngineInv, TypeOK
    <2>2. \E r \in {"ok", "zero"} : Return(Owner, r)
      <3>1. ~(Rename \/ Write \/ ScanCall \/ PartitionCall)
        BY DEF Rename, Write, Changed, ScanCall, PartitionCall, Begin
      <3>2. ~(OpenCall \/ CaptureFail \/ ProbeFail \/ OpenFdFail \/ MeasureFail \/ MapFail)
        BY DEF OpenCall, CaptureFail, ProbeFail, OpenFdFail, MeasureFail, MapFail, OpenFails
      <3>3. ~(Capture \/ Probe \/ OpenFd \/ Measure \/ MapPages)
        BY DEF Capture, Probe, OpenFd, Measure, MapPages
      <3>4. ~(GateUnpinned \/ GatePass \/ GateFailRust \/ GateFailFfi \/ RejectZero)
        BY DEF GateUnpinned, GatePass, GateFailRust, GateFailFfi, RejectZero
      <3>5. ~(PanicPattern \/ ScanFault \/ TakePinError \/ Free)
        BY DEF PanicPattern, ScanFault, TakePinError, Free
      <3>6. \A t \in Threads : ~(GetChunk(t) \/ InvalidArgument(t))
        BY DEF GetChunk, InvalidArgument
      <3>7. ~Gone
        BY DEF Gone, vars
      <3>8. CASE OpenedRust \/ OpenedPinnedRust \/ OpenedFfi \/ OpenedPinnedFfi
        BY <3>8 DEF OpenedRust, OpenedPinnedRust, OpenedFfi, OpenedPinnedFfi, NewHandle
      <3>9. CASE ScanNothing \/ ScanFixed \/ ScanBytes
        BY <3>9 DEF ScanNothing, ScanFixed, ScanBytes, Finish
      <3> QED
        BY <3>1, <3>2, <3>3, <3>4, <3>5, <3>6, <3>7, <3>8, <3>9 DEF Next
    <2> QED
      BY <2>1, <2>2 DEF Return
  <1> QED
    BY <1>1, EngineInvariant, PTL DEF LayoutSurvivesErrors, Spec
=============================================================================
