------------------------- MODULE WindowedMmapProofs -------------------------
(***************************************************************************)
(* read_at of WindowedMmapFile, for any number of threads, any file size,  *)
(* any window and any requests: the mutex protects the cached view, the    *)
(* mapped views are the cached one and the holder's fresh one, and what a  *)
(* call returns is the bytes of the request.                               *)
(***************************************************************************)
EXTENDS WindowedMmap, FiniteSetTheorems, TLAPS

(* A thread inside the critical section, and one whose view is fresh. *)
Inside == {"check", "copyhit", "map", "copyfresh", "install"}
Fresh == {"copyfresh", "install"}

(* The numbers of the configuration and of the requests. *)
RequestOK ==
    /\ size \in Nat /\ window_bytes \in Nat
    /\ offset \in [Threads -> Nat] /\ len \in [Threads -> Nat]

(* The mutex is held by exactly the thread inside the critical section. *)
LockInv == \A t \in Threads : lock = t <=> pc[t] \in Inside

(* A call under way: the file is open and the request is not empty. *)
CallInv ==
    \A t \in Threads :
        pc[t] # "idle" =>
            /\ file = "open"
            /\ offset[t] < size /\ len[t] > 0 /\ len[t] \in Lengths

(* A file that is not open has no cached view. *)
ClosedInv == file # "open" => cached = None

(* The view in a thread's hands: the cached one on a hit, a view beside it *)
(* mapped for this request on a miss.                                      *)
UsingInv ==
    \A t \in Threads :
        /\ pc[t] = "copyhit" =>
              using[t] = cached /\ cached # None /\ ViewCovers(cached, t)
        /\ pc[t] \in Fresh =>
              /\ using[t] # None /\ using[t] # cached
              /\ using[t].start = AlignedStart(t) /\ using[t].len = MappedLen(t)

(* The mapped views are the cached one and the fresh one of the holder. *)
Mapped(c, p, u) ==
    ({c} \cup {u[t] : t \in {s \in Threads : p[s] \in Fresh}}) \ {None}
LiveInv == live = Mapped(cached, pc, using)

(* Every mapped view is aligned, inside the file and within its budget. *)
ViewFits(v) ==
    /\ v.start % Align = 0 /\ v.len > 0 /\ v.start + v.len <= size
    /\ v.len < window_bytes + Align \/ \E l \in Lengths : v.len < l + Align
FitsInv == \A v \in live : ViewFits(v)

(* The bytes a call has copied, before and after it returns. *)
GotInv ==
    \A t \in Threads :
        /\ pc[t] = "install" => got[t].at = offset[t] /\ got[t].n = Count(t)
        /\ pc[t] = "idle" /\ got[t].ok /\ got[t].n > 0 =>
              got[t].at = offset[t] /\ got[t].n = Count(t)

ViewInv ==
    /\ TypeOK /\ RequestOK /\ LockInv /\ CallInv /\ ClosedInv
    /\ UsingInv /\ LiveInv /\ FitsInv /\ GotInv
------------------------------------------------------------------------------
(* align_down: the aligned start is a multiple of the alignment, at most   *)
(* the offset and less than one unit below it.                             *)
LEMMA AlignDown ==
    ASSUME NEW o \in Nat, NEW a \in Nat \ {0}
    PROVE  LET s == (o \div a) * a
           IN  s \in Nat /\ s <= o /\ o < s + a /\ s % a = 0
  <1>1. /\ o \div a \in Nat
        /\ (o \div a) * a <= o /\ o < (o \div a) * a + a
    OBVIOUS
  <1>2. \A k \in Nat : k * a \in Nat /\ (k * a) % a = 0
    OBVIOUS
  <1> QED
    BY <1>1, <1>2

(* The view map_view asks for holds the whole request, starts aligned,     *)
(* ends inside the file and stays within its budget, whatever the window.  *)
LEMMA FreshView ==
    ASSUME RequestOK, NEW t \in Threads,
           offset[t] < size, len[t] > 0, len[t] \in Lengths
    PROVE  /\ AlignedStart(t) \in Nat /\ MappedLen(t) \in Nat \ {0}
           /\ AlignedStart(t) % Align = 0
           /\ AlignedStart(t) <= offset[t]
           /\ AlignedStart(t) + MappedLen(t) <= size
           /\ offset[t] + Count(t) <= AlignedStart(t) + MappedLen(t)
           /\ MappedLen(t) < window_bytes + Align \/ MappedLen(t) < len[t] + Align
           /\ Count(t) \in Nat \ {0}
  <1> DEFINE s == AlignedStart(t)
  <1>1. /\ offset[t] \in Nat /\ len[t] \in Nat /\ size \in Nat
        /\ window_bytes \in Nat /\ Align \in Nat \ {0} /\ U64Max \in Nat
    BY WindowAssumption DEF RequestOK
  <1>2. s \in Nat /\ s <= offset[t] /\ offset[t] < s + Align /\ s % Align = 0
    BY <1>1, AlignDown DEF AlignedStart
  <1>3. /\ Count(t) \in Nat \ {0} /\ Count(t) <= len[t]
        /\ Count(t) <= size - offset[t]
    BY <1>1 DEF Count, Min2
  <1>4. Slack(t) = offset[t] - s /\ Slack(t) \in Nat /\ Slack(t) < Align
    BY <1>1, <1>2 DEF Slack
  <1>5. /\ SaturatingAdd(window_bytes, Slack(t)) \in Nat
        /\ SaturatingAdd(window_bytes, Slack(t)) < window_bytes + Align
    BY <1>1, <1>4 DEF SaturatingAdd, Min2
  <1> HIDE DEF s
  <1>6. /\ MappedLen(t) \in Nat
        /\ Slack(t) + Count(t) <= MappedLen(t) /\ MappedLen(t) <= size - s
        /\ \/ MappedLen(t) <= SaturatingAdd(window_bytes, Slack(t))
           \/ MappedLen(t) <= Slack(t) + Count(t)
    BY <1>1, <1>2, <1>3, <1>4, <1>5 DEF MappedLen, Min2, Max2, s
  <1>7. /\ s + MappedLen(t) <= size /\ offset[t] + Count(t) <= s + MappedLen(t)
        /\ MappedLen(t) # 0
    BY <1>1, <1>2, <1>3, <1>4, <1>6
  <1>8. MappedLen(t) < window_bytes + Align \/ MappedLen(t) < len[t] + Align
    BY <1>1, <1>3, <1>4, <1>5, <1>6
  <1> QED
    BY <1>2, <1>3, <1>6, <1>7, <1>8 DEF s

(* Before the first view. *)
LEMMA InitInv == Init => ViewInv
  <1> SUFFICES ASSUME Init PROVE ViewInv
    OBVIOUS
  <1>1. size \in Nat /\ window_bytes \in Nat
    BY WindowAssumption DEF Init
  <1>2. TypeOK /\ RequestOK
    BY <1>1 DEF Init, TypeOK, RequestOK, NoResult
  <1>3. LockInv /\ CallInv /\ ClosedInv /\ UsingInv
    BY WindowAssumption DEF Init, LockInv, CallInv, ClosedInv, UsingInv, Inside, Fresh
  <1>4. LiveInv
    BY DEF Init, LiveInv, Mapped, Fresh
  <1>5. FitsInv /\ GotInv
    BY DEF Init, FitsInv, GotInv, NoResult
  <1> QED
    BY <1>2, <1>3, <1>4, <1>5 DEF ViewInv

(* At most one thread is inside the critical section. *)
LEMMA Exclusion ==
    ASSUME LockInv, NEW t \in Threads, pc[t] \in Inside
    PROVE  \A u \in Threads : pc[u] \in Inside => u = t
  BY DEF LockInv

(* Outside a remap the cached view is the only mapping. *)
LEMMA OnlyCached ==
    ASSUME LiveInv, \A u \in Threads : pc[u] \notin Fresh
    PROVE  live = {cached} \ {None}
  BY DEF LiveInv, Mapped

(* During a remap there are two. *)
LEMMA CachedAndFresh ==
    ASSUME ViewInv, NEW t \in Threads, pc[t] \in Fresh
    PROVE  /\ live = ({cached} \ {None}) \cup {using[t]}
           /\ using[t] \in View /\ using[t] \in live /\ using[t] # cached
           /\ \A u \in Threads : pc[u] \in Fresh => u = t
  <1>1. \A u \in Threads : pc[u] \in Fresh => u = t
    BY Exclusion DEF ViewInv, Fresh, Inside
  <1>2. using[t] # None /\ using[t] # cached /\ using[t] \in View
    BY DEF ViewInv, UsingInv, TypeOK
  <1>3. {u \in Threads : pc[u] \in Fresh} = {t}
    BY <1>1
  <1>4. Mapped(cached, pc, using) = ({cached} \cup {using[t]}) \ {None}
    BY <1>3 DEF Mapped
  <1> QED
    BY <1>1, <1>2, <1>4 DEF ViewInv, LiveInv
------------------------------------------------------------------------------
(* What depends on the request of a thread alone does not change while the *)
(* request and the configuration do not.                                   *)
LEMMA SameRequest ==
    ASSUME UNCHANGED <<config, request>>, NEW u
    PROVE  /\ Count(u)' = Count(u)
           /\ AlignedStart(u)' = AlignedStart(u) /\ MappedLen(u)' = MappedLen(u)
           /\ \A v : ViewFits(v)' = ViewFits(v)
           /\ \A v : ViewCovers(v, u)' = ViewCovers(v, u)
  <1>1. /\ size' = size /\ window_bytes' = window_bytes
        /\ offset' = offset /\ len' = len
    BY DEF config, request
  <1> QED
    BY <1>1 DEF Count, AlignedStart, MappedLen, Slack, ViewFits, ViewCovers

(* Opening, and the steps after the file is gone. *)
LEMMA OpenKeeps ==
    ASSUME ViewInv, OpenRefused \/ Open \/ Gone \/ UNCHANGED vars
    PROVE  ViewInv'
  <1>1. UNCHANGED <<config, request, shared, pc, using, got>>
    BY DEF OpenRefused, Open, Gone, vars
  <1>2. /\ lock' = lock /\ cached' = cached /\ live' = live /\ pc' = pc
        /\ using' = using /\ got' = got /\ size' = size
        /\ window_bytes' = window_bytes /\ offset' = offset /\ len' = len
    BY <1>1 DEF shared, config, request
  <1>3. file' \in {"unopened", "refused", "open", "closed"}
    BY DEF OpenRefused, Open, Gone, vars, ViewInv, TypeOK
  <1>4. TypeOK' /\ RequestOK'
    BY <1>2, <1>3 DEF ViewInv, TypeOK, RequestOK
  <1>5. LockInv' /\ LiveInv'
    BY <1>2 DEF ViewInv, LockInv, LiveInv, Mapped
  <1>6. file = "open" => file' = "open"
    BY DEF OpenRefused, Open, Gone, vars
  <1>7. CallInv'
    BY <1>2, <1>6 DEF ViewInv, CallInv
  <1>8. file' # "open" => file # "open"
    BY <1>6
  <1>9. ClosedInv'
    BY <1>2, <1>8 DEF ViewInv, ClosedInv
  <1>10. UsingInv'
    BY <1>1, <1>2, SameRequest DEF ViewInv, UsingInv
  <1>11. FitsInv' /\ GotInv'
    BY <1>1, <1>2, SameRequest DEF ViewInv, FitsInv, GotInv
  <1> QED
    BY <1>4, <1>5, <1>7, <1>9, <1>10, <1>11 DEF ViewInv

(* read_at is called: only the caller's request and result change. *)
LEMMA CallKeeps ==
    ASSUME ViewInv, NEW t \in Threads, CallEmpty(t) \/ Call(t)
    PROVE  ViewInv'
  <1>1. /\ pc[t] = "idle" /\ file = "open" /\ pc'[t] \in {"idle", "lock"}
        /\ UNCHANGED <<config, file, shared, using>>
        /\ pc' \in [Threads -> {"idle", "lock", "check", "copyhit", "map", "copyfresh", "install"}]
        /\ \A u \in Threads \ {t} : pc'[u] = pc[u] /\ got'[u] = got[u]
    BY DEF CallEmpty, Call, ViewInv, TypeOK
  <1>2. /\ lock' = lock /\ cached' = cached /\ live' = live /\ using' = using
        /\ size' = size /\ window_bytes' = window_bytes /\ file' = file
    BY <1>1 DEF shared, config
  <1>3. PICK o \in Offsets, l \in Lengths :
          /\ offset' = [offset EXCEPT ![t] = o] /\ len' = [len EXCEPT ![t] = l]
          /\ pc'[t] = "lock" => l > 0 /\ o < size
    BY DEF CallEmpty, Call, ViewInv, TypeOK
  <1>4. o \in Nat /\ l \in Nat
    BY WindowAssumption
  <1>5. /\ RequestOK' /\ offset'[t] = o /\ len'[t] = l
        /\ \A u \in Threads \ {t} : offset'[u] = offset[u] /\ len'[u] = len[u]
    BY <1>2, <1>3, <1>4 DEF ViewInv, RequestOK
  <1>6. \/ got'[t] = NoResult /\ got' = [got EXCEPT ![t] = NoResult]
        \/ got' = got /\ pc'[t] = "lock"
    BY DEF CallEmpty, Call, ViewInv, TypeOK
  <1>7. TypeOK'
    <2>1. got \in [Threads -> [ok : BOOLEAN, at : Nat, n : Nat]]
      BY DEF ViewInv, TypeOK
    <2>2. NoResult \in [ok : BOOLEAN, at : Nat, n : Nat]
      BY DEF NoResult
    <2>3. got' \in [Threads -> [ok : BOOLEAN, at : Nat, n : Nat]]
      BY <1>6, <2>1, <2>2
    <2> QED
      BY <1>1, <1>2, <2>3 DEF ViewInv, TypeOK
  <1>8. LockInv'
    BY <1>1, <1>2 DEF ViewInv, LockInv, Inside
  <1>9. CallInv'
    BY <1>1, <1>2, <1>3, <1>5 DEF ViewInv, CallInv
  <1>10. ClosedInv'
    BY <1>2 DEF ViewInv, ClosedInv
  <1>11. \A u \in Threads \ {t} :
            /\ Count(u)' = Count(u) /\ AlignedStart(u)' = AlignedStart(u)
            /\ MappedLen(u)' = MappedLen(u)
            /\ \A v : ViewCovers(v, u)' = ViewCovers(v, u)
    BY <1>2, <1>5 DEF Count, AlignedStart, MappedLen, Slack, ViewCovers
  <1>12. UsingInv'
    BY <1>1, <1>2, <1>11 DEF ViewInv, UsingInv, Fresh
  <1>13. \A u \in Threads : pc'[u] \in Fresh <=> pc[u] \in Fresh
    BY <1>1 DEF Fresh
  <1>14. LiveInv'
    BY <1>2, <1>13 DEF ViewInv, LiveInv, Mapped
  <1>15. FitsInv'
    BY <1>2 DEF ViewInv, FitsInv, ViewFits
  <1>16. ASSUME NEW u \in Threads, u # t
         PROVE  /\ pc'[u] = "install" => got'[u].at = offset'[u] /\ got'[u].n = Count(u)'
                /\ pc'[u] = "idle" /\ got'[u].ok /\ got'[u].n > 0 =>
                     got'[u].at = offset'[u] /\ got'[u].n = Count(u)'
    BY <1>1, <1>5, <1>11, <1>16 DEF ViewInv, GotInv
  <1>17. pc'[t] # "install" /\ (pc'[t] = "idle" => got'[t].n = 0)
    BY <1>1, <1>6 DEF NoResult
  <1>18. GotInv'
    BY <1>16, <1>17 DEF GotInv
  <1> QED
    BY <1>5, <1>7, <1>8, <1>9, <1>10, <1>12, <1>14, <1>15, <1>18 DEF ViewInv

(* Taking the mutex, and looking at the cached view under it. *)
LEMMA LookKeeps ==
    ASSUME ViewInv, NEW t \in Threads, Lock(t) \/ Hit(t) \/ Miss(t)
    PROVE  ViewInv'
  <1>1. UNCHANGED <<config, request, file, cached, live, got>>
    BY DEF Lock, Hit, Miss, shared
  <1>2. /\ cached' = cached /\ live' = live /\ got' = got /\ file' = file
        /\ size' = size /\ window_bytes' = window_bytes
        /\ offset' = offset /\ len' = len
    BY <1>1 DEF config, request
  <1>3. /\ pc[t] \in {"lock", "check"} /\ pc'[t] \in {"check", "copyhit", "map"}
        /\ pc' \in [Threads -> {"idle", "lock", "check", "copyhit", "map", "copyfresh", "install"}]
        /\ \A u \in Threads \ {t} : pc'[u] = pc[u] /\ using'[u] = using[u]
    BY DEF Lock, Hit, Miss, ViewInv, TypeOK
  <1>4. pc[t] = "lock" => lock = None
    BY DEF Lock, Hit, Miss
  <1>5. lock' = t
    BY DEF Lock, Hit, Miss, shared, ViewInv, LockInv, Inside
  <1>6. using' = using \/ using' = [using EXCEPT ![t] = cached]
    BY DEF Lock, Hit, Miss
  <1>7. TypeOK' /\ RequestOK'
    BY <1>2, <1>3, <1>5, <1>6 DEF ViewInv, TypeOK, RequestOK
  <1>8. \A u \in Threads \ {t} : pc[u] \notin Inside
    BY <1>3, <1>4, WindowAssumption DEF ViewInv, LockInv, Inside
  <1>9. LockInv'
    BY <1>3, <1>5, <1>8 DEF LockInv, Inside
  <1>10. CallInv' /\ ClosedInv'
    BY <1>2, <1>3 DEF ViewInv, CallInv, ClosedInv
  <1>11. \A u \in Threads : pc[u] \notin Fresh /\ pc'[u] \notin Fresh
    BY <1>3, <1>8 DEF Fresh, Inside
  <1>12. LiveInv'
    BY <1>2, <1>11 DEF ViewInv, LiveInv, Mapped
  <1>13. pc'[t] = "copyhit" =>
            using'[t] = cached /\ cached # None /\ ViewCovers(cached, t)
    BY DEF Lock, Hit, Miss, Served, ViewInv, TypeOK
  <1>14. \A u \in Threads \ {t} : pc'[u] # "copyhit"
    BY <1>3, <1>8 DEF Inside
  <1>15. UsingInv'
    BY <1>1, <1>2, <1>11, <1>13, <1>14, SameRequest DEF UsingInv
  <1>16. FitsInv'
    BY <1>1, <1>2, SameRequest DEF ViewInv, FitsInv
  <1>17. GotInv'
    BY <1>1, <1>2, <1>3, SameRequest DEF ViewInv, GotInv
  <1> QED
    BY <1>7, <1>9, <1>10, <1>12, <1>15, <1>16, <1>17 DEF ViewInv

(* Copying out of the cached view: the request is in it, so the copy is    *)
(* exact, and returning releases the mutex.                                *)
LEMMA CopyHitKeeps ==
    ASSUME ViewInv, NEW t \in Threads, CopyHit(t)
    PROVE  ViewInv'
  <1> DEFINE r == [ok |-> TRUE,
                   at |-> using[t].start + (offset[t] - using[t].start),
                   n |-> Count(t)]
  <1>1. /\ pc[t] = "copyhit" /\ lock' = None
        /\ pc' = [pc EXCEPT ![t] = "idle"] /\ using' = [using EXCEPT ![t] = None]
        /\ got' = [got EXCEPT ![t] = r]
        /\ UNCHANGED <<config, request, file, cached, live>>
    BY DEF CopyHit
  <1>2. /\ cached' = cached /\ live' = live /\ file' = file
        /\ size' = size /\ window_bytes' = window_bytes
        /\ offset' = offset /\ len' = len
    BY <1>1 DEF config, request
  <1>3. using[t] = cached /\ cached \in View
    BY <1>1 DEF ViewInv, UsingInv, TypeOK
  <1>4. offset[t] \in Nat /\ len[t] \in Nat /\ offset[t] < size /\ size \in Nat
    BY <1>1 DEF ViewInv, RequestOK, CallInv
  <1>5. Count(t) \in Nat
    BY <1>4 DEF Count, Min2
  <1>6. r.at = offset[t] /\ r.n = Count(t) /\ r \in [ok : BOOLEAN, at : Nat, n : Nat]
    BY <1>3, <1>4, <1>5 DEF View
  <1> HIDE DEF r
  <1>7. /\ got' \in [Threads -> [ok : BOOLEAN, at : Nat, n : Nat]]
        /\ got'[t] = r /\ \A u \in Threads \ {t} : got'[u] = got[u]
    BY <1>1, <1>6 DEF ViewInv, TypeOK
  <1>8. /\ pc' \in [Threads -> {"idle", "lock", "check", "copyhit", "map", "copyfresh", "install"}]
        /\ pc'[t] = "idle" /\ \A u \in Threads \ {t} : pc'[u] = pc[u]
    BY <1>1 DEF ViewInv, TypeOK
  <1>9. \A u \in Threads : pc'[u] \notin Inside /\ (pc[u] \in Inside => u = t)
    BY <1>1, <1>8, Exclusion DEF ViewInv, Inside
  <1>10. TypeOK' /\ RequestOK'
    BY <1>1, <1>2, <1>7, <1>8 DEF ViewInv, TypeOK, RequestOK
  <1>11. LockInv'
    BY <1>1, <1>9, WindowAssumption DEF LockInv
  <1>12. CallInv' /\ ClosedInv'
    BY <1>2, <1>8 DEF ViewInv, CallInv, ClosedInv
  <1>13. UsingInv'
    BY <1>9 DEF UsingInv, Inside, Fresh
  <1>14. \A u \in Threads : pc[u] \notin Fresh /\ pc'[u] \notin Fresh
    BY <1>1, <1>9 DEF Inside, Fresh
  <1>15. LiveInv'
    BY <1>2, <1>14 DEF ViewInv, LiveInv, Mapped
  <1>16. FitsInv'
    BY <1>1, <1>2, SameRequest DEF ViewInv, FitsInv
  <1>17. GotInv'
    BY <1>1, <1>2, <1>6, <1>7, <1>8, SameRequest DEF ViewInv, GotInv
  <1> QED
    BY <1>10, <1>11, <1>12, <1>13, <1>15, <1>16, <1>17 DEF ViewInv

(* mmap fails: the guard is released and nothing else has changed. *)
LEMMA MapFailKeeps ==
    ASSUME ViewInv, NEW t \in Threads, MapFail(t)
    PROVE  ViewInv'
  <1> DEFINE r == [ok |-> FALSE, at |-> 0, n |-> 0]
  <1>1. /\ pc[t] = "map" /\ lock' = None /\ pc' = [pc EXCEPT ![t] = "idle"]
        /\ got' = [got EXCEPT ![t] = r]
        /\ UNCHANGED <<config, request, file, cached, live, using>>
    BY DEF MapFail
  <1>2. /\ cached' = cached /\ live' = live /\ file' = file /\ using' = using
        /\ size' = size /\ window_bytes' = window_bytes
        /\ offset' = offset /\ len' = len
    BY <1>1 DEF config, request
  <1>3. r \in [ok : BOOLEAN, at : Nat, n : Nat] /\ r.n = 0
    OBVIOUS
  <1> HIDE DEF r
  <1>4. /\ got' \in [Threads -> [ok : BOOLEAN, at : Nat, n : Nat]]
        /\ got'[t] = r /\ \A u \in Threads \ {t} : got'[u] = got[u]
    BY <1>1, <1>3 DEF ViewInv, TypeOK
  <1>5. /\ pc' \in [Threads -> {"idle", "lock", "check", "copyhit", "map", "copyfresh", "install"}]
        /\ pc'[t] = "idle" /\ \A u \in Threads \ {t} : pc'[u] = pc[u]
    BY <1>1 DEF ViewInv, TypeOK
  <1>6. \A u \in Threads : pc'[u] \notin Inside /\ (pc[u] \in Inside => u = t)
    BY <1>1, <1>5, Exclusion DEF ViewInv, Inside
  <1>7. TypeOK' /\ RequestOK'
    BY <1>1, <1>2, <1>4, <1>5 DEF ViewInv, TypeOK, RequestOK
  <1>8. LockInv'
    BY <1>1, <1>6, WindowAssumption DEF LockInv
  <1>9. CallInv' /\ ClosedInv'
    BY <1>2, <1>5 DEF ViewInv, CallInv, ClosedInv
  <1>10. UsingInv'
    BY <1>6 DEF UsingInv, Inside, Fresh
  <1>11. \A u \in Threads : pc[u] \notin Fresh /\ pc'[u] \notin Fresh
    BY <1>1, <1>6 DEF Inside, Fresh
  <1>12. LiveInv'
    BY <1>2, <1>11 DEF ViewInv, LiveInv, Mapped
  <1>13. FitsInv'
    BY <1>1, <1>2, SameRequest DEF ViewInv, FitsInv
  <1>14. GotInv'
    BY <1>1, <1>2, <1>3, <1>4, <1>5, SameRequest DEF ViewInv, GotInv
  <1> QED
    BY <1>7, <1>8, <1>9, <1>10, <1>12, <1>13, <1>14 DEF ViewInv

(* mmap succeeds: the new view is beside every mapped one, holds the       *)
(* request and fits.                                                       *)
LEMMA MapKeeps ==
    ASSUME ViewInv, NEW t \in Threads, Map(t)
    PROVE  ViewInv'
  <1>1. /\ pc[t] = "map" /\ pc' = [pc EXCEPT ![t] = "copyfresh"]
        /\ UNCHANGED <<config, request, file, lock, cached, got>>
    BY DEF Map
  <1>2. PICK a \in Addresses \ {v.addr : v \in live} :
          LET v == [addr |-> a, start |-> AlignedStart(t), len |-> MappedLen(t)]
          IN  live' = live \cup {v} /\ using' = [using EXCEPT ![t] = v]
    BY DEF Map
  <1> DEFINE w == [addr |-> a, start |-> AlignedStart(t), len |-> MappedLen(t)]
  <1>3. live' = live \cup {w} /\ using' = [using EXCEPT ![t] = w]
    BY <1>2
  <1>4. /\ cached' = cached /\ lock' = lock /\ file' = file /\ got' = got
        /\ size' = size /\ window_bytes' = window_bytes
        /\ offset' = offset /\ len' = len
    BY <1>1 DEF config, request
  <1>5. offset[t] < size /\ len[t] > 0 /\ len[t] \in Lengths /\ RequestOK
    BY <1>1 DEF ViewInv, CallInv
  <1>6. /\ AlignedStart(t) \in Nat /\ MappedLen(t) \in Nat \ {0}
        /\ AlignedStart(t) % Align = 0
        /\ AlignedStart(t) + MappedLen(t) <= size
        /\ MappedLen(t) < window_bytes + Align \/ MappedLen(t) < len[t] + Align
    BY <1>5, FreshView
  <1>7. ViewFits(w)
    BY <1>5, <1>6 DEF ViewFits
  <1>8. w \in View /\ w # None
    BY <1>6, NoneIsNoView DEF View
  <1>9. w \notin live
    BY <1>2
  <1>10. w.start = AlignedStart(t) /\ w.len = MappedLen(t)
    OBVIOUS
  <1> HIDE DEF w
  <1>11. /\ pc' \in [Threads -> {"idle", "lock", "check", "copyhit", "map", "copyfresh", "install"}]
         /\ pc'[t] = "copyfresh" /\ \A u \in Threads \ {t} : pc'[u] = pc[u]
    BY <1>1 DEF ViewInv, TypeOK
  <1>12. /\ using' \in [Threads -> View \cup {None}] /\ using'[t] = w
    BY <1>3, <1>8 DEF ViewInv, TypeOK
  <1>13. \A u \in Threads : pc[u] \in Inside => u = t
    BY <1>1, Exclusion DEF ViewInv, Inside
  <1>14. TypeOK' /\ RequestOK'
    BY <1>3, <1>4, <1>8, <1>11, <1>12 DEF ViewInv, TypeOK, RequestOK
  <1>15. LockInv'
    BY <1>1, <1>4, <1>11 DEF ViewInv, LockInv, Inside
  <1>16. CallInv' /\ ClosedInv'
    BY <1>1, <1>4, <1>11 DEF ViewInv, CallInv, ClosedInv
  <1>17. /\ live = {cached} \ {None}
         /\ {u \in Threads : pc'[u] \in Fresh} = {t}
    <2>1. \A u \in Threads : pc[u] \notin Fresh
      BY <1>1, <1>13 DEF Fresh, Inside
    <2>2. live = {cached} \ {None}
      BY <2>1, OnlyCached DEF ViewInv
    <2>3. {u \in Threads : pc'[u] \in Fresh} = {t}
      BY <1>11, <2>1 DEF Fresh
    <2> QED
      BY <2>2, <2>3
  <1>18. w # cached
    BY <1>8, <1>9, <1>17
  <1>19. LiveInv'
    <2>1. Mapped(cached', pc', using') = ({cached} \cup {w}) \ {None}
      BY <1>4, <1>12, <1>17 DEF Mapped
    <2> QED
      BY <1>3, <1>8, <1>17, <2>1 DEF LiveInv
  <1>20. \A u \in Threads : pc'[u] # "copyhit"
    BY <1>11, <1>13 DEF Inside
  <1>21. UsingInv'
    BY <1>1, <1>4, <1>8, <1>10, <1>12, <1>17, <1>18, <1>20, SameRequest DEF UsingInv
  <1>22. FitsInv'
    BY <1>1, <1>3, <1>4, <1>7, SameRequest DEF ViewInv, FitsInv
  <1>23. GotInv'
    BY <1>1, <1>4, <1>11, SameRequest DEF ViewInv, GotInv
  <1> QED
    BY <1>14, <1>15, <1>16, <1>19, <1>21, <1>22, <1>23 DEF ViewInv

(* Copying out of the fresh view, slack included. *)
LEMMA CopyFreshKeeps ==
    ASSUME ViewInv, NEW t \in Threads, CopyFresh(t)
    PROVE  ViewInv'
  <1> DEFINE r == [ok |-> TRUE, at |-> using[t].start + Slack(t), n |-> Count(t)]
  <1>1. /\ pc[t] = "copyfresh" /\ pc' = [pc EXCEPT ![t] = "install"]
        /\ got' = [got EXCEPT ![t] = r]
        /\ UNCHANGED <<config, request, file, shared, using>>
    BY DEF CopyFresh
  <1>2. /\ cached' = cached /\ live' = live /\ file' = file /\ lock' = lock
        /\ size' = size /\ window_bytes' = window_bytes /\ using' = using
        /\ offset' = offset /\ len' = len
    BY <1>1 DEF config, request, shared
  <1>3. using[t].start = AlignedStart(t)
    BY <1>1 DEF ViewInv, UsingInv, Fresh
  <1>4. /\ offset[t] < size /\ len[t] > 0 /\ len[t] \in Lengths /\ RequestOK
        /\ offset[t] \in Nat
    BY <1>1 DEF ViewInv, CallInv, RequestOK
  <1>5. AlignedStart(t) \in Nat /\ Count(t) \in Nat
    BY <1>4, FreshView
  <1>6. r.at = offset[t] /\ r.n = Count(t) /\ r \in [ok : BOOLEAN, at : Nat, n : Nat]
    BY <1>3, <1>4, <1>5 DEF Slack
  <1> HIDE DEF r
  <1>7. /\ got' \in [Threads -> [ok : BOOLEAN, at : Nat, n : Nat]]
        /\ got'[t] = r /\ \A u \in Threads \ {t} : got'[u] = got[u]
    BY <1>1, <1>6 DEF ViewInv, TypeOK
  <1>8. /\ pc' \in [Threads -> {"idle", "lock", "check", "copyhit", "map", "copyfresh", "install"}]
        /\ pc'[t] = "install" /\ \A u \in Threads \ {t} : pc'[u] = pc[u]
    BY <1>1 DEF ViewInv, TypeOK
  <1>9. TypeOK' /\ RequestOK'
    BY <1>2, <1>7, <1>8 DEF ViewInv, TypeOK, RequestOK
  <1>10. LockInv'
    BY <1>1, <1>2, <1>8 DEF ViewInv, LockInv, Inside
  <1>11. CallInv' /\ ClosedInv'
    BY <1>1, <1>2, <1>8 DEF ViewInv, CallInv, ClosedInv
  <1>12. \A u \in Threads :
            /\ pc'[u] \in Fresh <=> pc[u] \in Fresh
            /\ pc'[u] = "copyhit" <=> pc[u] = "copyhit"
    BY <1>1, <1>8 DEF Fresh
  <1>13. UsingInv'
    BY <1>1, <1>2, <1>12, SameRequest DEF ViewInv, UsingInv
  <1>14. LiveInv'
    BY <1>2, <1>12 DEF ViewInv, LiveInv, Mapped
  <1>15. FitsInv'
    BY <1>1, <1>2, SameRequest DEF ViewInv, FitsInv
  <1>16. GotInv'
    BY <1>1, <1>2, <1>6, <1>7, <1>8, SameRequest DEF ViewInv, GotInv
  <1> QED
    BY <1>9, <1>10, <1>11, <1>13, <1>14, <1>15, <1>16 DEF ViewInv

(* The fresh view replaces the cached one, which is unmapped. *)
LEMMA InstallKeeps ==
    ASSUME ViewInv, NEW t \in Threads, Install(t)
    PROVE  ViewInv'
  <1>1. /\ pc[t] = "install" /\ cached' = using[t] /\ live' = live \ {cached}
        /\ lock' = None /\ pc' = [pc EXCEPT ![t] = "idle"]
        /\ using' = [using EXCEPT ![t] = None]
        /\ UNCHANGED <<config, request, file, got>>
    BY DEF Install
  <1>2. /\ file' = file /\ got' = got /\ size' = size /\ window_bytes' = window_bytes
        /\ offset' = offset /\ len' = len
    BY <1>1 DEF config, request
  <1>3. /\ live = ({cached} \ {None}) \cup {using[t]}
        /\ using[t] \in View /\ using[t] # cached
    BY <1>1, CachedAndFresh DEF Fresh
  <1>4. live' = {using[t]} /\ using[t] # None
    BY <1>1, <1>3, NoneIsNoView
  <1>5. /\ pc' \in [Threads -> {"idle", "lock", "check", "copyhit", "map", "copyfresh", "install"}]
        /\ pc'[t] = "idle" /\ \A u \in Threads \ {t} : pc'[u] = pc[u]
    BY <1>1 DEF ViewInv, TypeOK
  <1>6. \A u \in Threads : pc'[u] \notin Inside
    BY <1>1, <1>5, Exclusion DEF ViewInv, Inside
  <1>7. TypeOK' /\ RequestOK'
    BY <1>1, <1>2, <1>3, <1>4, <1>5 DEF ViewInv, TypeOK, RequestOK
  <1>8. LockInv'
    BY <1>1, <1>6, WindowAssumption DEF LockInv
  <1>9. CallInv' /\ ClosedInv'
    BY <1>1, <1>2, <1>5 DEF ViewInv, CallInv, ClosedInv
  <1>10. UsingInv'
    BY <1>6 DEF UsingInv, Inside, Fresh
  <1>11. \A u \in Threads : pc'[u] \notin Fresh
    BY <1>6 DEF Inside, Fresh
  <1>12. LiveInv'
    BY <1>1, <1>4, <1>11 DEF LiveInv, Mapped
  <1>13. FitsInv'
    BY <1>1, <1>3, <1>4, SameRequest DEF ViewInv, FitsInv
  <1>14. GotInv'
    BY <1>1, <1>2, <1>5, SameRequest DEF ViewInv, GotInv
  <1> QED
    BY <1>7, <1>8, <1>9, <1>10, <1>12, <1>13, <1>14 DEF ViewInv

(* Drop, which nobody else can see. *)
LEMMA DropKeeps ==
    ASSUME ViewInv, Drop
    PROVE  ViewInv'
  <1>1. /\ \A t \in Threads : pc[t] = "idle"
        /\ cached' = None /\ live' = live \ {cached} /\ file' = "closed"
        /\ UNCHANGED <<config, request, lock, pc, using, got>>
    BY DEF Drop
  <1>2. /\ lock' = lock /\ pc' = pc /\ using' = using /\ got' = got /\ size' = size
        /\ window_bytes' = window_bytes /\ offset' = offset /\ len' = len
    BY <1>1 DEF config, request
  <1>3. live' = {}
    BY <1>1, OnlyCached DEF ViewInv, Fresh
  <1>4. TypeOK' /\ RequestOK'
    BY <1>1, <1>2, <1>3 DEF ViewInv, TypeOK, RequestOK
  <1>5. LockInv' /\ CallInv' /\ ClosedInv'
    BY <1>1, <1>2 DEF ViewInv, LockInv, CallInv, ClosedInv
  <1>6. UsingInv'
    BY <1>1, <1>2 DEF UsingInv, Fresh
  <1>7. LiveInv'
    BY <1>1, <1>2, <1>3 DEF LiveInv, Mapped, Fresh
  <1>8. FitsInv' /\ GotInv'
    BY <1>1, <1>2, <1>3, SameRequest DEF ViewInv, FitsInv, GotInv
  <1> QED
    BY <1>4, <1>5, <1>6, <1>7, <1>8 DEF ViewInv

(* Every step of a reader or of the mapping keeps the invariant. *)
LEMMA NextKeeps == ViewInv /\ [Next]_vars => ViewInv'
  <1> SUFFICES ASSUME ViewInv, [Next]_vars PROVE ViewInv'
    OBVIOUS
  <1>1. CASE OpenRefused \/ Open \/ Gone \/ UNCHANGED vars
    BY <1>1, OpenKeeps
  <1>2. CASE Drop
    BY <1>2, DropKeeps
  <1>3. ASSUME NEW t \in Threads, CallEmpty(t) \/ Call(t) \/ Step(t)
        PROVE  ViewInv'
    <2>1. CASE CallEmpty(t) \/ Call(t)
      BY <2>1, CallKeeps
    <2>2. CASE Lock(t) \/ Hit(t) \/ Miss(t)
      BY <2>2, LookKeeps
    <2>3. CASE CopyHit(t)
      BY <2>3, CopyHitKeeps
    <2>4. CASE Map(t)
      BY <2>4, MapKeeps
    <2>5. CASE MapFail(t)
      BY <2>5, MapFailKeeps
    <2>6. CASE CopyFresh(t)
      BY <2>6, CopyFreshKeeps
    <2>7. CASE Install(t)
      BY <2>7, InstallKeeps
    <2> QED
      BY <1>3, <2>1, <2>2, <2>3, <2>4, <2>5, <2>6, <2>7 DEF Step
  <1> QED
    BY <1>1, <1>2, <1>3 DEF Next

(* The inductive invariant of the windowed mapping. *)
THEOREM ViewInvariant == Spec => []ViewInv
  BY InitInv, NextKeeps, PTL DEF Spec

(* The mutex, the cached view, the mapped views and the threads' requests  *)
(* keep their shape.                                                       *)
THEOREM TypeCorrect == Spec => []TypeOK
  <1>1. ViewInv => TypeOK
    BY DEF ViewInv
  <1> QED
    BY <1>1, ViewInvariant, PTL

(* A successful read_at returns exactly the requested bytes, however many  *)
(* threads remap the view in between.                                      *)
THEOREM ReadsAreExact == Spec => []ExactBytes
  <1>1. ViewInv => ExactBytes
    BY DEF ViewInv, GotInv, ExactBytes
  <1> QED
    BY <1>1, ViewInvariant, PTL

(* The view a thread copies from is mapped and holds the whole request:    *)
(* read_at never touches an unmapped view or bytes outside one.            *)
THEOREM CopiesAreSafe == Spec => []CopiesFromLiveView
  <1>1. ViewInv => CopiesFromLiveView
    <2> SUFFICES ASSUME ViewInv, NEW t \in Threads,
                        pc[t] \in {"copyhit", "copyfresh"}
                 PROVE  using[t] \in live /\ ViewCovers(using[t], t)
      BY DEF CopiesFromLiveView
    <2>1. CASE pc[t] = "copyhit"
      <3>1. using[t] = cached /\ cached # None /\ ViewCovers(cached, t)
        BY <2>1 DEF ViewInv, UsingInv
      <3>2. cached \in live
        BY <3>1 DEF ViewInv, LiveInv, Mapped
      <3> QED
        BY <3>1, <3>2
    <2>2. CASE pc[t] = "copyfresh"
      <3>1. using[t] \in live
        BY <2>2, CachedAndFresh DEF Fresh
      <3>2. using[t].start = AlignedStart(t) /\ using[t].len = MappedLen(t)
        BY <2>2 DEF ViewInv, UsingInv, Fresh
      <3>3. /\ AlignedStart(t) <= offset[t]
            /\ offset[t] + Count(t) <= AlignedStart(t) + MappedLen(t)
        BY <2>2, FreshView DEF ViewInv, CallInv
      <3> QED
        BY <3>1, <3>2, <3>3 DEF ViewCovers
    <2> QED
      BY <2>1, <2>2
  <1> QED
    BY <1>1, ViewInvariant, PTL

(* Outside a remap the cached view is the only mapping of the process, and *)
(* a refused or dropped file leaves none.                                  *)
THEOREM NothingLeaks == Spec => []NoViewLeaks
  <1>1. ViewInv => NoViewLeaks
    <2> SUFFICES ASSUME ViewInv PROVE NoViewLeaks
      OBVIOUS
    <2>1. ASSUME \A t \in Threads : pc[t] \notin Inside
          PROVE  live = {cached} \ {None}
      BY <2>1, OnlyCached DEF ViewInv, Inside, Fresh
    <2>2. lock = None => live = {cached} \ {None}
      BY <2>1, WindowAssumption DEF ViewInv, LockInv
    <2>3. file # "open" => live = {cached} \ {None} /\ cached = None
      BY <2>1 DEF ViewInv, CallInv, ClosedInv, Inside
    <2> QED
      BY <2>2, <2>3 DEF NoViewLeaks
  <1> QED
    BY <1>1, ViewInvariant, PTL

(* A remap holds two views and never more, and every view is aligned,      *)
(* inside the file and within its budget.                                  *)
THEOREM BudgetHolds == Spec => []ViewBudget
  <1>1. ViewInv => ViewBudget
    <2> SUFFICES ASSUME ViewInv PROVE ViewBudget
      OBVIOUS
    <2>1. \E v : live \subseteq {cached} \cup {v}
      <3>1. CASE \E t \in Threads : pc[t] \in Fresh
        BY <3>1, CachedAndFresh
      <3>2. CASE \A t \in Threads : pc[t] \notin Fresh
        BY <3>2, OnlyCached DEF ViewInv
      <3> QED
        BY <3>1, <3>2
    <2>2. PICK v : live \subseteq {cached} \cup {v}
      BY <2>1
    <2>3. IsFiniteSet({cached}) /\ Cardinality({cached}) = 1
      BY FS_Singleton
    <2>4. /\ IsFiniteSet({cached} \cup {v})
          /\ Cardinality({cached} \cup {v}) \in {1, 2}
      BY <2>3, FS_AddElement
    <2>5. Cardinality(live) <= Cardinality({cached} \cup {v}) /\ IsFiniteSet(live)
      BY <2>2, <2>4, FS_Subset
    <2>6. Cardinality(live) \in Nat
      BY <2>5, FS_CardinalityType
    <2>7. Cardinality(live) <= 2
      BY <2>4, <2>5, <2>6
    <2> QED
      BY <2>7 DEF ViewInv, FitsInv, ViewFits, ViewBudget
  <1> QED
    BY <1>1, ViewInvariant, PTL
=============================================================================
