------------------------------- MODULE Engine -------------------------------
(***************************************************************************)
(* The handle that serves chunks of one memory-mapped file, behind its two *)
(* surfaces: MmapChunker (src/lib.rs, api = "rust") and the C ABI engine   *)
(* (src/ffi.rs, api = "ffi"), with file-identity pinning (src/pin.rs) and  *)
(* the Unix mapping (src/mmap.rs).                                         *)
(*                                                                         *)
(* Every system call is a step of its own, because other processes rename  *)
(* and write files between any two of them: the identity is captured, the  *)
(* path probed, opened, measured and mapped in five separate steps, and a  *)
(* gated scan first stats the path and reads the mapping later.            *)
(*                                                                         *)
(* File contents are abstracted away: a delimited scan or a partitioning   *)
(* of a mapping of n bytes may produce any contiguous covering of 0..n     *)
(* (what PartitionPlanner promises of the real algorithm).                 *)
(***************************************************************************)
EXTENDS Integers, Sequences, FiniteSets

CONSTANTS
    Files,        \* regular files, as inode numbers
    Specials,     \* directories, fifos, sockets: they open but do not map
    Missing,      \* the path names nothing
    Sizes,        \* possible file sizes
    ChunkSizes,   \* chunk_size arguments of the scans
    Counts,       \* num_partitions arguments
    Flags,        \* the pin flag sets callers pass; {} stands for 0
    Threads,      \* the threads of the process
    Owner,        \* the thread that opens, scans and frees
    MaxChanges    \* bound: file-system changes in one behaviour

Inodes == Files \cup Specials
Classes == {"size", "identity", "mtime"}
\* The kinds revalidate reports ("rotated" is reserved and never returned).
PinMismatchKind == {"replaced", "truncated", "mtime-jump", "metadata-unavailable"}

NoPin == [ino |-> Missing, size |-> 0, mtime |-> 0]
NoMap == [ino |-> Missing, size |-> 0]

ASSUME EngineAssumption ==
    /\ Missing \notin Inodes
    /\ Files \cap Specials = {}
    /\ Owner \in Threads
    /\ Sizes \subseteq Nat /\ 0 \in Sizes
    /\ ChunkSizes \subseteq Nat /\ Counts \subseteq Nat
    /\ Flags \subseteq SUBSET (Classes \cup {"unknown"}) /\ {} \in Flags
    /\ MaxChanges \in Nat

VARIABLES
    path,       \* the inode the path leads to, or Missing
    file,       \* every inode's size and modification time
    changes,    \* file-system changes so far
    api,        \* the surface in use
    stage,      \* how far the current open or scan call has come
    pinned,     \* is the handle (being) opened with a pin?
    flags,      \* its raw pin flags
    pin,        \* FileIdentity captured for it
    map,        \* MmapFile: inode and length of the mapping
    held,       \* the descriptor and the mapping the process holds
    plan,       \* ChunkPlan
    call,       \* the gated call in progress
    pin_error,  \* MmapChunker.pin_error, a PinMismatchKind or "none"
    ret,        \* per thread, how its last API call returned
    last_error, \* per thread, LAST_ERROR: is a message set?
    drift,      \* history: did the path's identity leave the pin, and return?
    raced       \* history: did files change after the last revalidation?

fs == <<path, file, changes>>
handle == <<pinned, flags, pin, map, held>>
history == <<drift, raced>>
errors == <<ret, last_error, pin_error>>
vars == <<path, file, changes, api, stage, pinned, flags, pin, map, held,
          plan, call, pin_error, ret, last_error, drift, raced>>

-----------------------------------------------------------------------------
(* ChunkPlan (src/plan.rs): "ranges" keeps the end of each range. *)

Empty == [kind |-> "empty", ends |-> <<>>, size |-> 0, count |-> 0]

MaxOne(n) == IF n = 0 THEN 1 ELSE n

\* Plausible slip in FixedCount: the division rounds down.
FixedCountFloor(len, size) == len \div size

\* scanner::fixed_chunk_count
FixedCount(len, size) == (len + size - 1) \div size

FromRanges(ends) ==
    IF ends = <<>> THEN Empty
    ELSE [kind |-> "ranges", ends |-> ends, size |-> 0, count |-> 0]

Fixed(len, chunk_size) ==
    IF len = 0 THEN Empty
    ELSE [kind |-> "fixed", ends |-> <<>>, size |-> MaxOne(chunk_size),
          count |-> FixedCount(len, MaxOne(chunk_size))]

PlanLen(p) ==
    CASE p.kind = "empty"  -> 0
      [] p.kind = "ranges" -> Len(p.ends)
      [] p.kind = "fixed"  -> p.count

\* scanner::fixed_chunk_bounds of the i-th chunk, counting from 1.
FixedBounds(len, size, i) ==
    LET end == i * size
    IN  <<(i - 1) * size, IF end > len THEN len ELSE end>>

\* ChunkPlan::range_at of the i-th chunk; the empty sequence is None.
RangeAt(p, i, len) ==
    IF i > PlanLen(p) THEN <<>>
    ELSE IF p.kind = "ranges" THEN <<IF i = 1 THEN 0 ELSE p.ends[i - 1], p.ends[i]>>
    ELSE FixedBounds(len, p.size, i)

\* The increasing sequences of at most n ends that cover 0..len.
Coverings(len, n) ==
    {e \in UNION {[1..k -> 1..len] : k \in 1..n} :
        /\ e[Len(e)] = len
        /\ \A i \in 1..(Len(e) - 1) : e[i] < e[i + 1]}

-----------------------------------------------------------------------------
(* The file system, changed by other processes. *)

\* effective_flags: no flag at all selects every class.
Effective(fl) == IF fl = {} THEN Classes ELSE fl

\* Plausible slip in Revalidate: the device and inode are not compared.
RevalidateAnyKey(p, f) ==
    IF p = Missing THEN "metadata-unavailable"
    ELSE IF "size" \in Effective(flags) /\ f[p].size # pin.size THEN "truncated"
    ELSE IF "mtime" \in Effective(flags) /\ f[p].mtime # pin.mtime THEN "mtime-jump"
    ELSE "none"

\* Plausible slip in Revalidate: the size is not compared.
RevalidateAnySize(p, f) ==
    IF p = Missing THEN "metadata-unavailable"
    ELSE IF "identity" \in Effective(flags) /\ p # pin.ino THEN "replaced"
    ELSE IF "mtime" \in Effective(flags) /\ f[p].mtime # pin.mtime THEN "mtime-jump"
    ELSE "none"

\* PinnedFile::revalidate on the path p with metadata f: the first class
\* that differs, in this order.
Revalidate(p, f) ==
    IF p = Missing THEN "metadata-unavailable"
    ELSE IF "identity" \in Effective(flags) /\ p # pin.ino THEN "replaced"
    ELSE IF "size" \in Effective(flags) /\ f[p].size # pin.size THEN "truncated"
    ELSE IF "mtime" \in Effective(flags) /\ f[p].mtime # pin.mtime THEN "mtime-jump"
    ELSE "none"

\* The identity captured is the one the path has.
Matches(p, f) == Revalidate(p, f) = "none"

NextDrift ==
    IF pin = NoPin THEN drift
    ELSE CASE ~Matches(path', file')                   -> "away"
           [] Matches(path', file') /\ drift = "away"  -> "back"
           [] OTHER                                    -> drift

Changed ==
    /\ stage # "crashed"
    /\ changes < MaxChanges
    /\ changes' = changes + 1
    /\ raced' = (stage = "scan")
    /\ drift' = NextDrift
    /\ UNCHANGED <<api, stage, handle, plan, call, errors>>

\* rename(2) over the path, unlink(2), or a symbolic link switched.
Rename ==
    /\ \E x \in (Inodes \cup {Missing}) \ {path} : path' = x
    /\ UNCHANGED file
    /\ Changed

\* A write or truncate(2) in place; the clock may be too coarse to tick.
Write ==
    /\ \E i \in Files, s \in Sizes, tick \in 0..1 :
          /\ <<s, tick>> # <<file[i].size, 0>>
          /\ file' = [file EXCEPT ![i] = [size  |-> s,
                                          mtime |-> file[i].mtime + tick]]
    /\ UNCHANGED path
    /\ Changed

-----------------------------------------------------------------------------
(* How API calls begin and end. *)

\* Plausible slip in Enter: one error buffer for all threads.
EnterClearsAll(t) ==
    /\ ret' = [ret EXCEPT ![t] = "none"]
    /\ last_error' = [u \in Threads |-> FALSE]

\* clear_error() at the head of every C entry point.
Enter(t) ==
    /\ ret' = [ret EXCEPT ![t] = "none"]
    /\ last_error' = [last_error EXCEPT ![t] = FALSE]

Return(t, r) ==
    /\ ret' = [ret EXCEPT ![t] = r]
    /\ UNCHANGED last_error

\* A failure: C callers get a message through set_error().
ReturnError(t) ==
    /\ ret' = [ret EXCEPT ![t] = "error"]
    /\ last_error' = [last_error EXCEPT ![t] = api = "ffi"]

\* mmap_engine_last_error called by t returns a message, not null.
HasLastError(t) == last_error[t]

-----------------------------------------------------------------------------
(* Opening: open, open_pinned, mmap_engine_open, mmap_engine_open_pinned. *)

OpenCall ==
    /\ stage = "closed"
    /\ \E fl \in Flags, p \in BOOLEAN :
          /\ p \/ fl = {}
          /\ pinned' = p
          /\ flags' = fl
          /\ stage' = IF p THEN "capture" ELSE "probe"
    /\ Enter(Owner)
    /\ pin' = NoPin
    /\ drift' = "never"
    /\ UNCHANGED <<fs, api, map, held, plan, call, pin_error, raced>>

\* A failed open returns null (Err); each exit closes its own objects.
OpenFails(closed) ==
    /\ ReturnError(Owner)
    /\ stage' = "closed"
    /\ held' = held \ closed
    /\ map' = NoMap
    /\ pin' = NoPin
    /\ UNCHANGED <<fs, api, pinned, flags, plan, call, pin_error, history>>

\* PinnedFile::capture
CaptureFail ==
    /\ stage = "capture"
    /\ "unknown" \in flags \/ path = Missing
    /\ OpenFails({})

Capture ==
    /\ stage = "capture"
    /\ "unknown" \notin flags
    /\ path # Missing
    /\ pin' = [ino |-> path, size |-> file[path].size, mtime |-> file[path].mtime]
    /\ stage' = "probe"
    /\ UNCHANGED <<fs, api, pinned, flags, map, held, plan, call, errors, history>>

\* probe_mmap_eligible refuses everything but regular files.
ProbeFail ==
    /\ stage = "probe"
    /\ path \notin Files
    /\ OpenFails({})

Probe ==
    /\ stage = "probe"
    /\ path \in Files
    /\ stage' = "openfd"
    /\ UNCHANGED <<fs, api, handle, plan, call, errors, history>>

OpenFdFail ==
    /\ stage = "openfd"
    /\ OpenFails({})

OpenFd ==
    /\ stage = "openfd"
    /\ path # Missing
    /\ held' = held \cup {"fd"}
    /\ map' = [ino |-> path, size |-> 0]
    /\ stage' = "measure"
    /\ UNCHANGED <<fs, api, pinned, flags, pin, plan, call, errors, history>>

\* lseek(SEEK_END) fails only where seeking makes no sense.
MeasureFail ==
    /\ stage = "measure"
    /\ map.ino \in Specials
    /\ OpenFails({"fd"})

\* An empty file needs no descriptor and no mapping.
Measure ==
    /\ stage = "measure"
    /\ \E s \in IF map.ino \in Specials THEN Sizes ELSE {file[map.ino].size} :
          /\ map' = [map EXCEPT !.size = s]
          /\ held' = IF s = 0 THEN held \ {"fd"} ELSE held
          /\ stage' = IF s = 0 THEN "opened" ELSE "mmap"
    /\ UNCHANGED <<fs, api, pinned, flags, pin, plan, call, errors, history>>

\* Plausible slip in MapFail: the descriptor is not closed.
MapFailKeepsFd ==
    /\ stage = "mmap"
    /\ ReturnError(Owner)
    /\ stage' = "closed"
    /\ map' = NoMap
    /\ pin' = NoPin
    /\ UNCHANGED <<fs, api, pinned, flags, held, plan, call, pin_error, history>>

MapFail ==
    /\ stage = "mmap"
    /\ OpenFails({"fd"})

\* Plausible slip in MapPages: the descriptor is closed once the file is mapped.
MapPagesThenClose ==
    /\ stage = "mmap"
    /\ map.ino \in Files
    /\ held' = {"map"}
    /\ stage' = "opened"
    /\ UNCHANGED <<fs, api, pinned, flags, pin, map, plan, call, errors, history>>

MapPages ==
    /\ stage = "mmap"
    /\ map.ino \in Files
    /\ held' = held \cup {"map"}
    /\ stage' = "opened"
    /\ UNCHANGED <<fs, api, pinned, flags, pin, map, plan, call, errors, history>>

\* The mapping becomes a handle with an empty plan and no mismatch.
NewHandle ==
    /\ stage = "opened"
    /\ plan' = Empty
    /\ pin_error' = "none"
    /\ Return(Owner, "ok")
    /\ stage' = "open"
    /\ UNCHANGED <<fs, api, handle, call, history>>

OpenedRust == api = "rust" /\ ~pinned /\ NewHandle
OpenedPinnedRust == api = "rust" /\ pinned /\ NewHandle

\* madvise, which the C calls make here, is a hint only.
OpenedFfi == api = "ffi" /\ ~pinned /\ NewHandle
OpenedPinnedFfi == api = "ffi" /\ pinned /\ NewHandle

-----------------------------------------------------------------------------
(* Gated calls: the scans and the partitioners of both surfaces.  A call's *)
(* argument n is chunk_size or num_partitions; dlen is 0 for an empty      *)
(* pattern (only the pattern variants can be given one), 1 for any other.  *)

Calls ==
    [op : {"delimited"}, n : ChunkSizes, dlen : {1}] \cup
    [op : {"fixed"},     n : ChunkSizes, dlen : {1}] \cup
    [op : {"pattern"},   n : ChunkSizes, dlen : 0..1] \cup
    [op : {"records"},   n : Counts,     dlen : 0..1]

NoCall == [op |-> "none", n |-> 0, dlen |-> 1]

Begin(c) ==
    /\ stage = "open"
    /\ api = "ffi" => c.dlen > 0
    /\ call' = c
    /\ stage' = "gate"
    /\ Enter(Owner)
    /\ UNCHANGED <<fs, api, handle, plan, pin_error, history>>

ScanCall == \E c \in Calls : c.op # "records" /\ Begin(c)
PartitionCall == \E c \in Calls : c.op = "records" /\ Begin(c)

GateUnpinned ==
    /\ stage = "gate"
    /\ ~pinned
    /\ stage' = "scan"
    /\ UNCHANGED <<fs, api, handle, plan, call, errors, history>>

\* Plausible slip in GatePass: a passed gate keeps the old mismatch.
GatePassKeepsStash ==
    /\ stage = "gate"
    /\ pinned
    /\ Matches(path, file)
    /\ raced' = FALSE
    /\ stage' = "scan"
    /\ UNCHANGED <<fs, api, handle, plan, call, errors, drift>>

\* check_pinned clears the stash; check_engine_pin has none.
GatePass ==
    /\ stage = "gate"
    /\ pinned
    /\ Matches(path, file)
    /\ pin_error' = "none"
    /\ raced' = FALSE
    /\ stage' = "scan"
    /\ UNCHANGED <<fs, api, handle, plan, call, ret, last_error, drift>>

\* The Rust call drops the plan, keeps the mismatch and returns 0.
GateFailRust ==
    /\ stage = "gate"
    /\ api = "rust"
    /\ pinned
    /\ ~Matches(path, file)
    /\ plan' = Empty
    /\ pin_error' = Revalidate(path, file)
    /\ Return(Owner, "zero")
    /\ call' = NoCall
    /\ stage' = "open"
    /\ UNCHANGED <<fs, api, handle, history>>

\* The C call keeps the previous layout and sets the thread's error.
GateFailFfi ==
    /\ stage = "gate"
    /\ api = "ffi"
    /\ pinned
    /\ ~Matches(path, file)
    /\ ReturnError(Owner)
    /\ call' = NoCall
    /\ stage' = "open"
    /\ UNCHANGED <<fs, api, handle, plan, pin_error, history>>

Finish(p) ==
    /\ plan' = p
    /\ Return(Owner, IF PlanLen(p) = 0 THEN "zero" ELSE "ok")
    /\ call' = NoCall
    /\ stage' = "open"
    /\ UNCHANGED <<fs, api, handle, pin_error, history>>

\* Nothing to lay out: an empty mapping, or (Rust) no partitions wanted.
ScanNothing ==
    /\ stage = "scan"
    /\ \/ map.size = 0
       \/ api = "rust" /\ call.op = "records" /\ call.n = 0
    /\ Finish(Empty)

\* Plausible slip in RejectZero: the layout is dropped, as the Rust call does.
RejectZeroClears ==
    /\ stage = "scan"
    /\ map.size > 0
    /\ api = "ffi"
    /\ call.op = "records" /\ call.n = 0
    /\ ReturnError(Owner)
    /\ plan' = Empty
    /\ call' = NoCall
    /\ stage' = "open"
    /\ UNCHANGED <<fs, api, handle, pin_error, history>>

\* The C partitioners refuse zero partitions, after the gate.
RejectZero ==
    /\ stage = "scan"
    /\ map.size > 0
    /\ api = "ffi"
    /\ call.op = "records" /\ call.n = 0
    /\ ReturnError(Owner)
    /\ call' = NoCall
    /\ stage' = "open"
    /\ UNCHANGED <<fs, api, handle, plan, pin_error, history>>

\* Rust asserts a non-empty delimiter inside the scanner.
PanicPattern ==
    /\ stage = "scan"
    /\ map.size > 0
    /\ call.dlen = 0
    /\ ~(call.op = "records" /\ call.n = 0)
    /\ Return(Owner, "panic")
    /\ call' = NoCall
    /\ stage' = "open"
    /\ UNCHANGED <<fs, api, handle, plan, pin_error, history>>

\* ChunkPlan::fixed looks at the length of the mapping only.
ScanFixed ==
    /\ stage = "scan"
    /\ call.op = "fixed"
    /\ map.size > 0
    /\ Finish(Fixed(map.size, call.n))

\* The calls whose search looks at bytes: a chunk that reaches the end of
\* the mapping and a single partition are cut without reading any.
Searches ==
    /\ map.size > 0
    /\ call.dlen > 0
    /\ \/ call.op \in {"delimited", "pattern"} /\ MaxOne(call.n) < map.size
       \/ call.op = "records" /\ call.n > 1

\* Every chunk but the last is longer than chunk_size (it ends after a
\* delimiter found at or beyond that distance); partitions are only counted.
Layouts ==
    IF call.op = "records" THEN Coverings(map.size, call.n)
    ELSE {e \in Coverings(map.size, map.size) : \A i \in 1..(Len(e) - 1) :
             e[i] > (IF i = 1 THEN 0 ELSE e[i - 1]) + MaxOne(call.n)}

ScanBytes ==
    /\ stage = "scan"
    /\ map.size > 0
    /\ call.dlen > 0
    /\ call.op # "fixed"
    /\ \E e \in Layouts : Finish(FromRanges(e))

\* Reading a page the mapped file has lost kills the process (SIGBUS).
ScanFault ==
    /\ stage = "scan"
    /\ Searches
    /\ file[map.ino].size < map.size
    /\ stage' = "crashed"
    /\ UNCHANGED <<fs, api, handle, plan, call, errors, history>>

-----------------------------------------------------------------------------
(* Calls that are not gated. *)

\* MmapChunker::pin_status shows the stash without taking it.
PinStatus == pin_error

\* mmap_engine_get_chunk, by any thread once a scan is done.
GetChunk(t) ==
    /\ stage = "open"
    /\ api = "ffi"
    /\ \E i \in 1..(PlanLen(plan) + 1) :
          IF RangeAt(plan, i, map.size) = <<>> THEN ReturnError(t)
          ELSE /\ ret' = [ret EXCEPT ![t] = "ok"]
               /\ last_error' = [last_error EXCEPT ![t] = FALSE]
    /\ UNCHANGED <<fs, api, stage, handle, plan, call, pin_error, history>>

\* Any C entry point given a null handle, path or out pointer, or a pattern
\* that is null, empty or too long: refused before the engine is looked at.
InvalidArgument(t) ==
    /\ stage # "crashed"
    /\ api = "ffi"
    /\ t = Owner => stage \in {"closed", "open"}
    /\ ReturnError(t)
    /\ UNCHANGED <<fs, api, stage, handle, plan, call, pin_error, history>>

TakePinError ==
    /\ stage = "open"
    /\ api = "rust"
    /\ pin_error' = "none"
    /\ UNCHANGED <<fs, api, stage, handle, plan, call, ret, last_error, history>>

\* Drop for MmapFile: unmap, then close; an empty file has neither.
DropMmapFile ==
    /\ map' = NoMap
    /\ held' = held \ {"map", "fd"}

\* mmap_engine_free, or a MmapChunker going out of scope.
Free ==
    /\ stage = "open"
    /\ DropMmapFile
    /\ pin' = NoPin
    /\ plan' = Empty
    /\ pin_error' = "none"
    /\ stage' = "closed"
    /\ UNCHANGED <<fs, api, pinned, flags, call, ret, last_error, history>>

\* A process killed by the fault takes no further step.
Gone == stage = "crashed" /\ UNCHANGED vars

-----------------------------------------------------------------------------
Init ==
    /\ path \in Files
    /\ file \in [Inodes -> [size : Sizes, mtime : {0}]]
    /\ \A x \in Specials : file[x].size = 0
    /\ changes = 0
    /\ api \in {"rust", "ffi"}
    /\ stage = "closed"
    /\ pinned = FALSE
    /\ flags = {}
    /\ pin = NoPin
    /\ map = NoMap
    /\ held = {}
    /\ plan = Empty
    /\ call = NoCall
    /\ pin_error = "none"
    /\ ret = [t \in Threads |-> "none"]
    /\ last_error = [t \in Threads |-> FALSE]
    /\ drift = "never"
    /\ raced = FALSE

Next ==
    \/ Rename \/ Write
    \/ OpenCall \/ CaptureFail \/ Capture \/ ProbeFail \/ Probe
    \/ OpenFdFail \/ OpenFd \/ MeasureFail \/ Measure \/ MapFail \/ MapPages
    \/ OpenedRust \/ OpenedPinnedRust \/ OpenedFfi \/ OpenedPinnedFfi
    \/ ScanCall \/ PartitionCall
    \/ GateUnpinned \/ GatePass \/ GateFailRust \/ GateFailFfi
    \/ ScanNothing \/ RejectZero \/ PanicPattern \/ ScanFixed
    \/ ScanBytes \/ ScanFault
    \/ \E t \in Threads : GetChunk(t) \/ InvalidArgument(t)
    \/ TakePinError \/ Free \/ Gone

Spec == Init /\ [][Next]_vars

-----------------------------------------------------------------------------
Live == {"opened", "open", "gate", "scan", "crashed"}

PlanOK(p) ==
    \/ p = Empty
    \/ p.kind = "ranges" /\ p = FromRanges(p.ends) /\ p.ends \in Seq(Nat)
    \/ p.kind = "fixed" /\ p.ends = <<>> /\ p.size \in Nat \ {0} /\ p.count \in Nat

\* Every variable keeps its type.
TypeOK ==
    /\ path \in Inodes \cup {Missing}
    /\ file \in [Inodes -> [size : Sizes, mtime : Nat]]
    /\ changes \in 0..MaxChanges
    /\ api \in {"rust", "ffi"}
    /\ stage \in {"closed", "capture", "probe", "openfd", "measure", "mmap",
                   "opened", "open", "gate", "scan", "crashed"}
    /\ pinned \in BOOLEAN
    /\ flags \in Flags
    /\ pin \in [ino : Inodes \cup {Missing}, size : Sizes, mtime : Nat]
    /\ map \in [ino : Inodes \cup {Missing}, size : Sizes]
    /\ held \in {{}, {"fd"}, {"fd", "map"}}
    /\ PlanOK(plan)
    /\ call \in Calls \cup {NoCall}
    /\ pin_error \in PinMismatchKind \cup {"none"}
    /\ ret \in [Threads -> {"none", "ok", "zero", "error", "panic"}]
    /\ last_error \in [Threads -> BOOLEAN]
    /\ drift \in {"never", "away", "back"}
    /\ raced \in BOOLEAN

\* pin.rs, revalidate: a gate that passed means the mapping is the file the
\* path names now (and, with the size class too, is as long as that file),
\* as long as no change slipped in after the stat and the path's metadata
\* never left the captured identity and came back between two gates.
GateIsSound ==
    (stage = "scan" /\ pinned /\ ~raced /\ drift # "back") =>
        /\ "identity" \in Effective(flags) => map.ino = path
        /\ {"identity", "size"} \subseteq Effective(flags) =>
              map.size = file[path].size

\* What pinning buys: a scan of a handle pinned on identity and size reads
\* lost pages only if the truncation fell into the gap between stat and
\* read, or the metadata left the pin and came back unseen.
FaultNeedsRace ==
    (stage = "crashed" /\ pinned /\ {"identity", "size"} \subseteq Effective(flags))
        => raced \/ drift = "back"

\* plan.rs, fixed_chunk_bounds: whatever sequence of scans, mismatches and
\* mode switches led here, get_chunk's ranges tile the whole mapping, so no
\* view starts or ends outside it.
LayoutTilesMapping ==
    LET n == PlanLen(plan)
        R(i) == RangeAt(plan, i, map.size)
    IN  n > 0 => /\ R(1)[1] = 0 /\ R(n)[2] = map.size
                 /\ \A i \in 1..n : R(i)[1] < R(i)[2]
                 /\ \A i \in 1..(n - 1) : R(i)[2] = R(i + 1)[1]

\* lib.rs, check_pinned and pin_status: as long as a mismatch is stashed the
\* plan is empty, so a caller that reads chunks finds none of a layout that
\* lost its gate; and only a handle pinned on the class reported has one.
FailClosed ==
    PinStatus # "none" =>
        /\ plan = Empty
        /\ pinned
        /\ PinStatus = "replaced" => "identity" \in Effective(flags)
        /\ PinStatus = "truncated" => "size" \in Effective(flags)
        /\ PinStatus = "mtime-jump" => "mtime" \in Effective(flags)

\* ffi.rs: an error leaves the previous layout in place; only a call that
\* succeeds, finds an empty mapping, or frees the handle replaces it.
LayoutSurvivesErrors ==
    [][(api = "ffi" /\ plan' # plan /\ stage' = "open")
          => ret'[Owner] # "error"]_vars

\* ffi.rs, LAST_ERROR: a thread has a message exactly if its own last call
\* failed, whatever other threads call, and a scan of a file with bytes in
\* it never returns 0 without one.  Scans of an empty file are left out:
\* they return 0 and no message, although the comments at ffi.rs:335-337,
\* 361-363 and 506-507 list the empty file among the errors that have one.
ErrorsExplained ==
    api = "ffi" => /\ \A t \in Threads : HasLastError(t) <=> ret[t] = "error"
                   /\ stage = "open" /\ map.size > 0 => ret[Owner] # "zero"

\* mmap.rs, open_unix and Drop: a handle that failed to open, was freed or
\* maps an empty file holds nothing; every other one its fd and mapping.
NothingLeaks ==
    /\ stage \in {"closed", "capture", "probe", "openfd"} => held = {}
    /\ stage \in Live => held = (IF map.size = 0 THEN {} ELSE {"fd", "map"})

\* pin.rs and MmapChunker::open_pinned: a swap that lands between capture
\* and map is caught by the gate, which otherwise passes only for the file
\* that is mapped.
GateCatchesSwap ==
    (stage = "scan" /\ pinned /\ ~raced /\ Effective(flags) = Classes)
        => map.ino = pin.ino
=============================================================================
