---------------------------- MODULE WindowedMmap ----------------------------
(***************************************************************************)
(* WindowedMmapFile: threads share one bounded, cached view of a file      *)
(* behind a mutex.  read_at is served from the cached view, or maps a new  *)
(* one, copies from it, installs it and unmaps the one it replaces.        *)
(*                                                                         *)
(* The byte at file offset o is represented by o itself, so "the right     *)
(* bytes" is "the right offset".  A view is a mapping at an address;       *)
(* `live` is the set of mappings of the process, from mmap to munmap.      *)
(***************************************************************************)
EXTENDS Naturals, FiniteSets

CONSTANTS
    Threads,      \* threads that may call read_at
    Sizes,        \* file sizes considered
    Windows,      \* window_bytes values considered, valid or not
    Align,        \* VIEW_ALIGNMENT
    U64Max,       \* u64::MAX
    Offsets,      \* offsets requested
    Lengths,      \* out.len() of the requests
    Addresses,    \* where a view may be mapped
    None          \* no thread, no view

ASSUME WindowAssumption ==
    /\ Sizes \subseteq 0..U64Max /\ Windows \subseteq 0..U64Max
    /\ Align \in Nat \ {0} /\ U64Max \in Nat
    /\ Offsets \subseteq Nat /\ Lengths \subseteq Nat
    /\ None \notin Threads

VARIABLES
    size, window_bytes,
    file,     \* "unopened", "refused", "open" or "closed"
    lock,     \* holder of the view mutex
    cached,   \* Option<WindowView> behind the mutex
    live,     \* mapped views
    pc,       \* where each thread is in read_at
    offset, len,
    using,    \* the view a thread copies from
    got       \* what the last call returned: Ok(n) at an offset, or Err

config == <<size, window_bytes>>
shared == <<lock, cached, live>>
request == <<offset, len>>
vars == <<config, file, shared, pc, request, using, got>>

View == [addr : Addresses, start : Nat, len : Nat]

(* Option<WindowView> is None or Some(view), never both. *)
ASSUME NoneIsNoView == None \notin View

NoResult == [ok |-> TRUE, at |-> 0, n |-> 0]
Min2(a, b) == IF a <= b THEN a ELSE b
Max2(a, b) == IF a >= b THEN a ELSE b
SaturatingAdd(a, b) == Min2(a + b, U64Max)

(* let n = out.len().min(self.size - offset) *)
Count(t) == Min2(len[t], size - offset[t])

ViewCovers(v, t) ==
    v.start <= offset[t] /\ offset[t] + Count(t) <= v.start + v.len

AlignedStart(t) == (offset[t] \div Align) * Align
Slack(t) == offset[t] - AlignedStart(t)

(* Plausible slip: the view is not clamped to the file. *)
MappedLenUnclamped(t) ==
    Max2(SaturatingAdd(window_bytes, Slack(t)), Slack(t) + Count(t))

MappedLen(t) ==
    Min2(Max2(SaturatingAdd(window_bytes, Slack(t)), Slack(t) + Count(t)),
         size - AlignedStart(t))

Init ==
    /\ size \in Sizes /\ window_bytes \in Windows
    /\ file = "unopened"
    /\ lock = None /\ cached = None /\ live = {}
    /\ pc = [t \in Threads |-> "idle"]
    /\ offset = [t \in Threads |-> 0] /\ len = [t \in Threads |-> 0]
    /\ using = [t \in Threads |-> None]
    /\ got = [t \in Threads |-> NoResult]
------------------------------------------------------------------------------
(* Plausible slips in the code below.                                      *)

(* The cache is read without holding the mutex. *)
LockNotTaken(t) ==
    /\ pc[t] = "lock"
    /\ pc' = [pc EXCEPT ![t] = "check"]
    /\ UNCHANGED <<config, file, shared, request, using, got>>

(* The replaced view is dropped without being unmapped. *)
InstallWithoutUnmap(t) ==
    /\ pc[t] = "install"
    /\ cached' = using[t]
    /\ lock' = None
    /\ pc' = [pc EXCEPT ![t] = "idle"]
    /\ using' = [using EXCEPT ![t] = None]
    /\ UNCHANGED <<config, file, live, request, got>>

(* The slack is not added when copying from a fresh view. *)
CopyFreshFromStart(t) ==
    /\ pc[t] = "copyfresh"
    /\ got' = [got EXCEPT ![t] = [ok |-> TRUE, at |-> using[t].start, n |-> Count(t)]]
    /\ pc' = [pc EXCEPT ![t] = "install"]
    /\ UNCHANGED <<config, file, shared, request, using>>

(* The guard is kept when map_view fails. *)
MapFailKeepsLock(t) ==
    /\ pc[t] = "map"
    /\ got' = [got EXCEPT ![t] = [ok |-> FALSE, at |-> 0, n |-> 0]]
    /\ pc' = [pc EXCEPT ![t] = "idle"]
    /\ UNCHANGED <<config, file, shared, request, using>>
------------------------------------------------------------------------------
(* open_path: the probe, open and lseek may refuse, and a window below the *)
(* alignment is InvalidInput; nothing stays open.                          *)
OpenRefused ==
    /\ file = "unopened"
    /\ file' = "refused"
    /\ UNCHANGED <<config, shared, pc, request, using, got>>

Open ==
    /\ file = "unopened"
    /\ window_bytes >= Align
    /\ file' = "open"
    /\ UNCHANGED <<config, shared, pc, request, using, got>>

(* read_at is called; an empty request or one past EOF returns 0 without   *)
(* taking the lock.                                                        *)
CallEmpty(t) ==
    /\ file = "open" /\ pc[t] = "idle"
    /\ \E o \in Offsets, l \in Lengths :
          /\ l = 0 \/ o >= size
          /\ offset' = [offset EXCEPT ![t] = o]
          /\ len' = [len EXCEPT ![t] = l]
    /\ got' = [got EXCEPT ![t] = NoResult]
    /\ UNCHANGED <<config, file, shared, pc, using>>

Call(t) ==
    /\ file = "open" /\ pc[t] = "idle"
    /\ \E o \in Offsets, l \in Lengths :
          /\ l > 0 /\ o < size
          /\ offset' = [offset EXCEPT ![t] = o]
          /\ len' = [len EXCEPT ![t] = l]
    /\ pc' = [pc EXCEPT ![t] = "lock"]
    /\ UNCHANGED <<config, file, shared, using, got>>

Lock(t) ==
    /\ pc[t] = "lock"
    /\ lock = None
    /\ lock' = t
    /\ pc' = [pc EXCEPT ![t] = "check"]
    /\ UNCHANGED <<config, file, cached, live, request, using, got>>

(* The cached view serves the request. *)
Served(t) == cached # None /\ ViewCovers(cached, t)

Hit(t) ==
    /\ pc[t] = "check"
    /\ Served(t)
    /\ using' = [using EXCEPT ![t] = cached]
    /\ pc' = [pc EXCEPT ![t] = "copyhit"]
    /\ UNCHANGED <<config, file, shared, request, got>>

Miss(t) ==
    /\ pc[t] = "check"
    /\ ~Served(t)
    /\ pc' = [pc EXCEPT ![t] = "map"]
    /\ UNCHANGED <<config, file, shared, request, using, got>>

(* Copy from the cached view; returning releases the guard. *)
CopyHit(t) ==
    /\ pc[t] = "copyhit"
    /\ got' = [got EXCEPT ![t] =
                 [ok |-> TRUE,
                  at |-> using[t].start + (offset[t] - using[t].start),
                  n |-> Count(t)]]
    /\ lock' = None
    /\ pc' = [pc EXCEPT ![t] = "idle"]
    /\ using' = [using EXCEPT ![t] = None]
    /\ UNCHANGED <<config, file, cached, live, request>>

(* map_view: a new mapping beside the cached one. *)
Map(t) ==
    /\ pc[t] = "map"
    /\ \E a \in Addresses \ {v.addr : v \in live} :
          LET v == [addr |-> a, start |-> AlignedStart(t), len |-> MappedLen(t)]
          IN  /\ live' = live \cup {v}
              /\ using' = [using EXCEPT ![t] = v]
    /\ pc' = [pc EXCEPT ![t] = "copyfresh"]
    /\ UNCHANGED <<config, file, lock, cached, request, got>>

(* mmap fails: `?` returns the error and releases the guard; the cached    *)
(* view stays.                                                             *)
MapFail(t) ==
    /\ pc[t] = "map"
    /\ got' = [got EXCEPT ![t] = [ok |-> FALSE, at |-> 0, n |-> 0]]
    /\ lock' = None
    /\ pc' = [pc EXCEPT ![t] = "idle"]
    /\ UNCHANGED <<config, file, cached, live, request, using>>

CopyFresh(t) ==
    /\ pc[t] = "copyfresh"
    /\ got' = [got EXCEPT ![t] =
                 [ok |-> TRUE, at |-> using[t].start + Slack(t), n |-> Count(t)]]
    /\ pc' = [pc EXCEPT ![t] = "install"]
    /\ UNCHANGED <<config, file, shared, request, using>>

(* guard.replace(view), unmap_view(old), release the guard. *)
Install(t) ==
    /\ pc[t] = "install"
    /\ cached' = using[t]
    /\ live' = live \ {cached}
    /\ lock' = None
    /\ pc' = [pc EXCEPT ![t] = "idle"]
    /\ using' = [using EXCEPT ![t] = None]
    /\ UNCHANGED <<config, file, request, got>>

(* Drop needs exclusive ownership: no thread is inside read_at. *)
Drop ==
    /\ file = "open"
    /\ \A t \in Threads : pc[t] = "idle"
    /\ cached' = None
    /\ live' = live \ {cached}
    /\ file' = "closed"
    /\ UNCHANGED <<config, lock, pc, request, using, got>>

Gone ==
    /\ file \in {"refused", "closed"}
    /\ UNCHANGED vars

(* A call under way. *)
Step(t) ==
    \/ Lock(t) \/ Hit(t) \/ Miss(t) \/ CopyHit(t)
    \/ Map(t) \/ MapFail(t) \/ CopyFresh(t) \/ Install(t)

Next ==
    \/ OpenRefused \/ Open \/ Drop \/ Gone
    \/ \E t \in Threads : CallEmpty(t) \/ Call(t) \/ Step(t)

Spec == Init /\ [][Next]_vars
FairSpec == Spec /\ \A t \in Threads : WF_vars(Step(t))
------------------------------------------------------------------------------
(* The shape of the state. *)
TypeOK ==
    /\ file \in {"unopened", "refused", "open", "closed"}
    /\ lock \in Threads \cup {None}
    /\ cached \in View \cup {None}
    /\ live \subseteq View
    /\ pc \in [Threads -> {"idle", "lock", "check", "copyhit", "map", "copyfresh", "install"}]
    /\ using \in [Threads -> View \cup {None}]
    /\ got \in [Threads -> [ok : BOOLEAN, at : Nat, n : Nat]]

(* A read that succeeds returns exactly the bytes at the requested offset, *)
(* as many as fit before EOF, whichever view served it and whatever the    *)
(* other threads remapped meanwhile.                                       *)
ExactBytes ==
    \A t \in Threads :
        pc[t] = "idle" /\ got[t].ok /\ got[t].n > 0 =>
            got[t].at = offset[t] /\ got[t].n = Count(t)

(* No use after munmap, no read outside the view: while a thread copies,   *)
(* its view is mapped and holds the whole request.                         *)
CopiesFromLiveView ==
    \A t \in Threads :
        pc[t] \in {"copyhit", "copyfresh"} =>
            using[t] \in live /\ ViewCovers(using[t], t)

(* No view leaks: outside a remap the cached view is the only mapping, and *)
(* a dropped file leaves none.                                             *)
NoViewLeaks ==
    /\ lock = None => live = {cached} \ {None}
    /\ file \in {"refused", "closed"} => live = {}

(* Address space: a remap holds the old and the new view, never more;      *)
(* every view starts aligned and ends inside the file, whatever            *)
(* window_bytes asks for; and none exceeds both the window and the request *)
(* that caused it by more than the alignment.                              *)
ViewBudget ==
    /\ Cardinality(live) <= 2
    /\ \A v \in live :
          /\ v.start % Align = 0 /\ v.len > 0 /\ v.start + v.len <= size
          /\ v.len < window_bytes + Align \/ \E l \in Lengths : v.len < l + Align

(* "Maps at most one window at a time" (source.rs, WindowedMmapSource).    *)
AtMostOneWindow == Cardinality(live) <= 1

(* Every thread that takes the view mutex releases it, on the hit, the     *)
(* remap and the map-failure path alike.                                   *)
LockReleased == \A t \in Threads : lock = t ~> lock # t
==============================================================================
