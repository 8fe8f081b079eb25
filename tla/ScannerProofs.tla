---------------------------- MODULE ScannerProofs ----------------------------
(***************************************************************************)
(* The scanner, for every slice, delimiter and chunk size: the eager scan  *)
(* tiles the slice, the cursor yields the same chunks, its size_hint is    *)
(* right, fixed chunks computed in usize are exact, all of it is what the  *)
(* scalar oracles say; and the word-at-a-time search under it finds the    *)
(* leftmost match, for every byte and word size and every alignment.       *)
(*                                                                         *)
(* Both loops build a Tiled sequence: chunk k begins where chunk k - 1     *)
(* ended and ends where ChunkEnd says.  ChunkEnd is a partial function of  *)
(* the start, so two Tiled sequences agree as far as both go.  The upper   *)
(* bound of size_hint holds because every chunk has at least one byte,     *)
(* which Tiled counts from every chunk to the end.                         *)
(*                                                                         *)
(* The search rests on what its word test computes.  A word is the sum of  *)
(* its bytes times powers of two; where no byte below byte k is 0, taking  *)
(* the word of ones off borrows nothing from byte k (NoBorrow), so up to   *)
(* the first zero byte the test is exact (WordTest) and the least bit left *)
(* is that byte.  Above it the test may be wrong, and is not looked at.    *)
(***************************************************************************)
EXTENDS ChunkDifferential, PatternSearch, OracleTheorems, FiniteSetTheorems, FunctionTheorems,
        TLAPS

(* A chunk that starts at `from` ends at e. *)
ChunkEnd(from, e) ==
    LET t == SaturatingAdd(from, step)
    IN  /\ from < len
        /\ \/ t >= len /\ e = len
           \/ t < len /\ e = len /\ NoMatchIn(data, delim, t, len)
           \/ /\ t < len
              /\ \E p \in t..len :
                    FirstMatchIn(data, delim, t, len, p) /\ e = MinOf(p + Len(delim), len)

(* Where the k-th range ends, and where the one after it begins. *)
EndOf(rs, k) == IF k = 0 THEN 0 ELSE rs[k][2]

Tiled(rs, at) ==
    /\ rs \in Seq(Nat \X Nat) /\ at \in 0..len /\ at = EndOf(rs, Len(rs))
    /\ \A k \in 1..Len(rs) :
          /\ rs[k] = <<EndOf(rs, k - 1), EndOf(rs, k)>>
          /\ ChunkEnd(EndOf(rs, k - 1), EndOf(rs, k))
    /\ \A k \in 0..Len(rs) : EndOf(rs, k) \in Nat /\ Len(rs) - k <= at - EndOf(rs, k)

Agree(a, b) == \A k \in 1..MinOf(Len(a), Len(b)) : a[k] = b[k]

InputsOK ==
    /\ data \in Seq(Byte) /\ delim \in Seq(Byte) \ {<<>>}
    /\ len <= UsizeMax /\ chunk_size \in 0..UsizeMax

ChunkInv ==
    InputsOK /\ Tiled(chunks, start) /\ Tiled(yielded, position) /\ Agree(chunks, yielded)
------------------------------------------------------------------------------
(* The sizes a scan works with. *)
LEMMA Lengths ==
    ASSUME InputsOK
    PROVE  /\ len \in Nat /\ UsizeMax \in Nat /\ step \in Nat \ {0}
           /\ Len(delim) \in Nat \ {0}
  <1>1. len \in Nat /\ UsizeMax \in Nat /\ Len(delim) \in Nat \ {0} /\ chunk_size \in Nat
    BY ChunkAssumption DEF InputsOK, len
  <1> QED
    BY <1>1 DEF step, MaxOf

(* A chunk is not empty and stays in the slice. *)
LEMMA ChunkEndMoves ==
    ASSUME InputsOK, NEW from \in Nat, NEW e, ChunkEnd(from, e)
    PROVE  e \in Nat /\ from < e /\ e <= len
  <1> DEFINE t == SaturatingAdd(from, step)
  <1>1. /\ len \in Nat /\ UsizeMax \in Nat /\ step \in Nat \ {0}
        /\ Len(delim) \in Nat \ {0} /\ from < len /\ len <= UsizeMax
    BY Lengths DEF InputsOK, ChunkEnd
  <1>2. t \in Nat /\ from <= t
    BY <1>1 DEF SaturatingAdd, MinOf
  <1> HIDE DEF t
  <1>3. \/ e = len
        \/ \E p \in t..len : e = MinOf(p + Len(delim), len)
    BY DEF ChunkEnd, t
  <1> QED
    BY <1>1, <1>2, <1>3 DEF MinOf

(* The end is determined by the start. *)
LEMMA ChunkEndUnique ==
    ASSUME InputsOK, NEW from \in Nat, NEW e, NEW f, ChunkEnd(from, e), ChunkEnd(from, f)
    PROVE  e = f
  <1> DEFINE t == SaturatingAdd(from, step)
  <1>1. /\ len \in Nat /\ t \in Nat /\ Len(delim) \in Nat \ {0}
    BY Lengths DEF SaturatingAdd, MinOf
  <1> HIDE DEF t
  <1>2. CASE t >= len
    BY <1>1, <1>2 DEF ChunkEnd, t
  <1>3. CASE t < len
    <2>1. ASSUME NEW p \in t..len, FirstMatchIn(data, delim, t, len, p)
          PROVE  ~NoMatchIn(data, delim, t, len)
      BY <1>1, <2>1 DEF FirstMatchIn, NoMatchIn
    <2>2. ASSUME NEW p \in t..len, FirstMatchIn(data, delim, t, len, p),
                 NEW q \in t..len, FirstMatchIn(data, delim, t, len, q)
          PROVE  p = q
      <3>1. ~(p < q) /\ ~(q < p)
        BY <1>1, <2>2 DEF FirstMatchIn
      <3> QED
        BY <1>1, <3>1
    <2>3. /\ \/ e = len /\ NoMatchIn(data, delim, t, len)
             \/ \E p \in t..len :
                   FirstMatchIn(data, delim, t, len, p) /\ e = MinOf(p + Len(delim), len)
          /\ \/ f = len /\ NoMatchIn(data, delim, t, len)
             \/ \E p \in t..len :
                   FirstMatchIn(data, delim, t, len, p) /\ f = MinOf(p + Len(delim), len)
      BY <1>1, <1>3 DEF ChunkEnd, t
    <2> QED
      BY <2>1, <2>2, <2>3
  <1> QED
    BY <1>1, <1>2, <1>3

(* What Append does, for any element set. *)
LEMMA Appended ==
    ASSUME NEW S, NEW rs \in Seq(S), NEW r \in S
    PROVE  /\ Append(rs, r) \in Seq(S) /\ Len(Append(rs, r)) = Len(rs) + 1
           /\ Append(rs, r)[Len(rs) + 1] = r /\ Len(rs) \in Nat
           /\ \A k \in 1..Len(rs) : Append(rs, r)[k] = rs[k]
  OBVIOUS

(* One more chunk on a Tiled sequence. *)
LEMMA Extend ==
    ASSUME InputsOK, NEW rs, NEW at, NEW e, Tiled(rs, at), ChunkEnd(at, e)
    PROVE  Tiled(Append(rs, <<at, e>>), e)
  <1> DEFINE ns == Append(rs, <<at, e>>)
  <1>1. /\ rs \in Seq(Nat \X Nat) /\ at \in Nat /\ Len(rs) \in Nat /\ len \in Nat
        /\ at = EndOf(rs, Len(rs))
    BY Lengths DEF Tiled
  <1>2. e \in Nat /\ at < e /\ e <= len
    BY <1>1, ChunkEndMoves
  <1>3. <<at, e>> \in Nat \X Nat
    BY <1>1, <1>2
  <1>4. /\ ns \in Seq(Nat \X Nat) /\ Len(ns) = Len(rs) + 1 /\ ns[Len(rs) + 1] = <<at, e>>
        /\ \A k \in 1..Len(rs) : ns[k] = rs[k]
    BY <1>1, <1>3, Appended
  <1> HIDE DEF ns
  <1>5. /\ \A k \in 0..Len(rs) : EndOf(ns, k) = EndOf(rs, k)
        /\ EndOf(ns, Len(rs) + 1) = e
    <2>1. ASSUME NEW k \in 0..Len(rs) PROVE EndOf(ns, k) = EndOf(rs, k)
      <3>1. k = 0 \/ k \in 1..Len(rs)
        BY <1>1
      <3> QED
        BY <1>4, <3>1 DEF EndOf
    <2>2. Len(rs) + 1 # 0 /\ ns[Len(rs) + 1][2] = e
      BY <1>1, <1>4
    <2> QED
      BY <2>1, <2>2 DEF EndOf
  <1>6. ASSUME NEW k \in 1..Len(ns)
        PROVE  ns[k] = <<EndOf(ns, k - 1), EndOf(ns, k)>>
               /\ ChunkEnd(EndOf(ns, k - 1), EndOf(ns, k))
    <2>1. CASE k \in 1..Len(rs)
      <3>1. k - 1 \in 0..Len(rs) /\ k \in 0..Len(rs)
        BY <1>1, <2>1
      <3> QED
        BY <1>4, <1>5, <2>1, <3>1 DEF Tiled
    <2>2. CASE k = Len(rs) + 1
      <3>1. k - 1 = Len(rs) /\ Len(rs) \in 0..Len(rs)
        BY <1>1, <2>2
      <3> QED
        BY <1>1, <1>4, <1>5, <2>2, <3>1
    <2>3. k \in 1..Len(rs) \/ k = Len(rs) + 1
      BY <1>1, <1>4
    <2> QED
      BY <2>1, <2>2, <2>3
  <1>7. ASSUME NEW k \in 0..Len(ns)
        PROVE  EndOf(ns, k) \in Nat /\ Len(ns) - k <= e - EndOf(ns, k)
    <2>1. CASE k \in 0..Len(rs)
      <3>1. EndOf(rs, k) \in Nat /\ Len(rs) - k <= at - EndOf(rs, k)
        BY <2>1 DEF Tiled
      <3> QED
        BY <1>1, <1>2, <1>4, <1>5, <2>1, <3>1
    <2>2. CASE k = Len(rs) + 1
      BY <1>1, <1>2, <1>4, <1>5, <2>2
    <2> QED
      BY <1>1, <1>4, <2>1, <2>2
  <1>8. e \in 0..len /\ e = EndOf(ns, Len(ns))
    BY <1>1, <1>2, <1>4, <1>5
  <1> QED
    BY <1>4, <1>6, <1>7, <1>8 DEF Tiled, ns

(* The ends of two sequences that agree, agree. *)
LEMMA AgreeEnds ==
    ASSUME NEW a, NEW b, Agree(a, b), Len(a) \in Nat, Len(b) \in Nat,
           NEW k \in Nat, k <= Len(a), k <= Len(b)
    PROVE  EndOf(a, k) = EndOf(b, k)
  BY DEF Agree, EndOf, MinOf

(* Extending one of two agreeing Tiled sequences keeps them agreeing. *)
LEMMA ExtendAgrees ==
    ASSUME InputsOK, NEW a, NEW at, NEW b, NEW bt, NEW e,
           Tiled(a, at), Tiled(b, bt), Agree(a, b), ChunkEnd(at, e)
    PROVE  Agree(Append(a, <<at, e>>), b) /\ Agree(b, Append(a, <<at, e>>))
  <1> DEFINE ns == Append(a, <<at, e>>)
  <1>1. /\ a \in Seq(Nat \X Nat) /\ at \in Nat /\ Len(a) \in Nat /\ Len(b) \in Nat
        /\ at = EndOf(a, Len(a))
    BY Lengths DEF Tiled
  <1>2. e \in Nat
    BY <1>1, ChunkEndMoves
  <1>3. /\ Len(ns) = Len(a) + 1 /\ ns[Len(a) + 1] = <<at, e>>
        /\ \A k \in 1..Len(a) : ns[k] = a[k]
    <2>1. <<at, e>> \in Nat \X Nat
      BY <1>1, <1>2
    <2> QED
      BY <1>1, <2>1, Appended
  <1> HIDE DEF ns
  <1>4. ASSUME Len(b) >= Len(a) + 1
        PROVE  b[Len(a) + 1] = <<at, e>>
    <2>1. EndOf(b, Len(a)) = at
      BY <1>1, <1>4, AgreeEnds
    <2>2. Len(a) + 1 \in 1..Len(b) /\ Len(a) + 1 - 1 = Len(a)
      BY <1>1, <1>4
    <2>3. /\ b[Len(a) + 1] = <<EndOf(b, Len(a)), EndOf(b, Len(a) + 1)>>
          /\ ChunkEnd(EndOf(b, Len(a)), EndOf(b, Len(a) + 1))
      <3>1. \A k \in 1..Len(b) :
              /\ b[k] = <<EndOf(b, k - 1), EndOf(b, k)>>
              /\ ChunkEnd(EndOf(b, k - 1), EndOf(b, k))
        BY Zenon DEF Tiled
      <3> DEFINE k == Len(a) + 1
      <3>2. k \in 1..Len(b) /\ k - 1 = Len(a)
        BY <2>2
      <3> HIDE DEF k
      <3>3. b[k] = <<EndOf(b, k - 1), EndOf(b, k)>> /\ ChunkEnd(EndOf(b, k - 1), EndOf(b, k))
        BY <3>1, <3>2, Zenon
      <3>4. b[k] = <<EndOf(b, Len(a)), EndOf(b, k)>> /\ ChunkEnd(EndOf(b, Len(a)), EndOf(b, k))
        BY <3>2, <3>3, Zenon
      <3> QED
        BY <3>4 DEF k
    <2>4. EndOf(b, Len(a) + 1) = e
      BY <1>1, <2>1, <2>3, ChunkEndUnique
    <2> QED
      BY <2>1, <2>3, <2>4
  <1>5. ASSUME NEW k \in 1..MinOf(Len(ns), Len(b))
        PROVE  ns[k] = b[k]
    <2>1. k \in 1..(Len(a) + 1) /\ k \in 1..Len(b)
      BY <1>1, <1>3 DEF MinOf
    <2>2. CASE k \in 1..Len(a)
      <3>1. k \in 1..MinOf(Len(a), Len(b))
        BY <1>1, <2>1, <2>2 DEF MinOf
      <3> QED
        BY <1>3, <2>2, <3>1 DEF Agree
    <2>3. CASE k = Len(a) + 1
      <3>1. Len(b) >= Len(a) + 1
        BY <1>1, <2>1, <2>3
      <3> QED
        BY <1>3, <1>4, <2>3, <3>1
    <2>4. k \in 1..Len(a) \/ k = Len(a) + 1
      BY <1>1, <2>1
    <2> QED
      BY <2>2, <2>3, <2>4
  <1>6. MinOf(Len(ns), Len(b)) = MinOf(Len(b), Len(ns))
    BY <1>1, <1>3 DEF MinOf
  <1> QED
    BY <1>5, <1>6 DEF Agree, ns
------------------------------------------------------------------------------
(* A scan that has not begun satisfies the invariant. *)
LEMMA InitInv == Init => ChunkInv
  <1> SUFFICES ASSUME Init PROVE ChunkInv
    OBVIOUS
  <1>1. InputsOK
    BY ChunkAssumption DEF Init, InputsOK, len
  <1>2. len \in Nat
    BY <1>1, Lengths
  <1>3. Tiled(<<>>, 0)
    BY <1>2 DEF Tiled, EndOf
  <1>4. Agree(<<>>, <<>>)
    BY DEF Agree, MinOf
  <1> QED
    BY <1>1, <1>3, <1>4 DEF Init, NewCursor, ChunkInv

(* Nothing of a Tiled sequence depends on the loops' variables. *)
LEMMA SameInputs ==
    ASSUME UNCHANGED args
    PROVE  /\ InputsOK' = InputsOK /\ len' = len
           /\ \A rs, at : Tiled(rs, at)' = Tiled(rs, at)
  <1>1. data' = data /\ delim' = delim /\ chunk_size' = chunk_size
    BY DEF args
  <1> QED
    BY <1>1 DEF InputsOK, len, Tiled, ChunkEnd, step

(* Every step of the scan or of the cursor keeps it. *)
LEMMA NextKeeps == ChunkInv /\ [Next]_vars => ChunkInv'
  <1> SUFFICES ASSUME ChunkInv, [Next]_vars PROVE ChunkInv'
    OBVIOUS
  <1>1. UNCHANGED args
    BY DEF Next, ScanToEnd, ScanSnap, ScanMiss, NextToEnd, NextSnap, NextMiss, Exhausted,
       Push, Yield, vars
  <1>2. CASE ScanToEnd \/ ScanSnap \/ ScanMiss
    <2>1. PICK e : ChunkEnd(start, e) /\ Push(e)
      BY <1>2 DEF ScanToEnd, ScanSnap, ScanMiss, ScanTarget, ChunkEnd
    <2>2. Tiled(Append(chunks, <<start, e>>), e)
      BY <2>1, Extend DEF ChunkInv
    <2>3. Agree(Append(chunks, <<start, e>>), yielded)
      BY <2>1, ExtendAgrees DEF ChunkInv
    <2>4. /\ chunks' = Append(chunks, <<start, e>>) /\ start' = e
          /\ position' = position /\ yielded' = yielded
      BY <2>1 DEF Push, cursor
    <2> QED
      BY <1>1, <2>2, <2>3, <2>4, SameInputs DEF ChunkInv, Agree
  <1>3. CASE NextToEnd \/ NextSnap \/ NextMiss
    <2>1. PICK e : ChunkEnd(position, e) /\ Yield(e)
      BY <1>3 DEF NextToEnd, NextSnap, NextMiss, NextTarget, ChunkEnd
    <2>2. Tiled(Append(yielded, <<position, e>>), e)
      BY <2>1, Extend DEF ChunkInv
    <2>3. Agree(yielded, chunks)
      <3>1. Len(chunks) \in Nat /\ Len(yielded) \in Nat
        BY DEF ChunkInv, Tiled
      <3>2. MinOf(Len(yielded), Len(chunks)) = MinOf(Len(chunks), Len(yielded))
        BY <3>1 DEF MinOf
      <3> QED
        BY <3>2 DEF ChunkInv, Agree
    <2>4. Agree(chunks, Append(yielded, <<position, e>>))
      BY <2>1, <2>3, ExtendAgrees DEF ChunkInv
    <2>5. /\ yielded' = Append(yielded, <<position, e>>) /\ position' = e
          /\ start' = start /\ chunks' = chunks
      BY <2>1 DEF Yield, scan
    <2> QED
      BY <1>1, <2>2, <2>4, <2>5, SameInputs DEF ChunkInv, Agree
  <1>4. CASE Exhausted \/ UNCHANGED vars
    <2>1. chunks' = chunks /\ start' = start /\ yielded' = yielded /\ position' = position
      BY <1>4 DEF Exhausted, vars, scan, cursor
    <2> QED
      BY <1>1, <2>1, SameInputs DEF ChunkInv, Agree
  <1> QED
    BY <1>2, <1>3, <1>4 DEF Next

(* The inductive invariant of the chunk scanner and the cursor beside it. *)
THEOREM ChunkInvariant == Spec => []ChunkInv
  BY InitInv, NextKeeps, PTL DEF Spec

(* find_chunk_boundaries(_pattern) tiles what it has scanned, for every    *)
(* chunk size from 0 to usize::MAX.                                        *)
THEOREM ScanTiles == Spec => []ChunksTile
  <1>1. ChunkInv => ChunksTile
    <2> SUFFICES ASSUME ChunkInv PROVE ChunksTile
      OBVIOUS
    <2>1. /\ Len(chunks) \in Nat /\ len \in Nat /\ start \in 0..len
          /\ start = EndOf(chunks, Len(chunks)) /\ chunks \in Seq(Nat \X Nat)
      BY Lengths DEF ChunkInv, Tiled
    <2>2. \A k \in 1..Len(chunks) :
            /\ chunks[k][1] = EndOf(chunks, k - 1) /\ chunks[k][2] = EndOf(chunks, k)
            /\ EndOf(chunks, k - 1) \in Nat /\ EndOf(chunks, k - 1) < EndOf(chunks, k)
      <3> TAKE k \in 1..Len(chunks)
      <3>1. /\ chunks[k] = <<EndOf(chunks, k - 1), EndOf(chunks, k)>>
            /\ ChunkEnd(EndOf(chunks, k - 1), EndOf(chunks, k))
        BY DEF ChunkInv, Tiled
      <3>2. k - 1 \in 0..Len(chunks)
        BY <2>1
      <3>3. EndOf(chunks, k - 1) \in Nat
        BY <3>2 DEF ChunkInv, Tiled
      <3> QED
        BY <3>1, <3>3, ChunkEndMoves DEF ChunkInv
    <2>3. CASE chunks = <<>>
      BY <2>1, <2>3 DEF ChunksTile, EndOf
    <2>4. CASE chunks # <<>>
      <3>1. Len(chunks) > 0
        BY <2>1, <2>4
      <3>2. 1 \in 1..Len(chunks) /\ Len(chunks) \in 1..Len(chunks) /\ 1 - 1 = 0
        BY <2>1, <3>1
      <3>3. chunks[1][1] = 0 /\ chunks[Len(chunks)][2] = start
        BY <2>1, <2>2, <3>2 DEF EndOf
      <3>4. ASSUME NEW k \in 1..(Len(chunks) - 1)
            PROVE  chunks[k][2] = chunks[k + 1][1]
        <4>1. k \in 1..Len(chunks) /\ k + 1 \in 1..Len(chunks) /\ (k + 1) - 1 = k
          BY <2>1
        <4> QED
          BY <2>2, <4>1
      <3> QED
        BY <2>1, <2>2, <2>4, <3>1, <3>3, <3>4 DEF ChunksTile, Covers
    <2> QED
      BY <2>3, <2>4
  <1> QED
    BY <1>1, ChunkInvariant, PTL

(* ChunkCursor and PatternChunkCursor yield the chunks the eager scan      *)
(* finds, however the two are interleaved, and size_hint bounds what is    *)
(* left.                                                                   *)
THEOREM CursorParity == Spec => []CursorAgrees
  <1>1. ChunkInv => CursorAgrees
    <2> SUFFICES ASSUME ChunkInv PROVE CursorAgrees
      OBVIOUS
    <2> DEFINE c == Len(chunks)
               y == Len(yielded)
    <2>1. /\ c \in Nat /\ y \in Nat /\ len \in Nat /\ start \in 0..len /\ position \in 0..len
          /\ start = EndOf(chunks, c) /\ position = EndOf(yielded, y)
      BY Lengths DEF ChunkInv, Tiled
    <2>2. /\ \A k \in 1..c : EndOf(chunks, k - 1) < len
          /\ \A k \in 1..y : EndOf(yielded, k - 1) < len
      BY DEF ChunkInv, Tiled, ChunkEnd
    <2>3. \A k \in Nat : k <= c /\ k <= y => EndOf(chunks, k) = EndOf(yielded, k)
      BY <2>1, AgreeEnds DEF ChunkInv
    <2>4. \A k \in 0..c : c - k <= start - EndOf(chunks, k)
      BY DEF ChunkInv, Tiled
    <2> HIDE DEF c, y
    <2>5. ASSUME start >= len
          PROVE  c - y \in size_hint[1]..size_hint[2]
      <3>1. start = len
        BY <2>1, <2>5
      <3>2. ~(c < y)
        <4> SUFFICES ASSUME c < y PROVE FALSE
          OBVIOUS
        <4>1. c + 1 \in 1..y /\ (c + 1) - 1 = c
          BY <2>1
        <4>2. EndOf(yielded, c) < len
          BY <2>2, <4>1
        <4>3. EndOf(yielded, c) = len
          <5>1. c \in Nat /\ c <= c /\ c <= y
            BY <2>1
          <5>2. EndOf(chunks, c) = EndOf(yielded, c)
            BY <2>3, <5>1
          <5> QED
            BY <2>1, <3>1, <5>2
        <4> QED
          BY <2>1, <4>2, <4>3
      <3>3. y <= c /\ EndOf(chunks, y) = position
        BY <2>1, <2>3, <3>2
      <3>4. CASE is_empty
        <4>1. position = len
          BY <2>1, <3>4 DEF is_empty
        <4>2. ~(y < c)
          <5> SUFFICES ASSUME y < c PROVE FALSE
            OBVIOUS
          <5>1. y + 1 \in 1..c /\ (y + 1) - 1 = y
            BY <2>1
          <5>2. EndOf(chunks, y) < len
            BY <2>2, <5>1
          <5> QED
            BY <2>1, <3>3, <4>1, <5>2
        <4>3. c - y = 0
          BY <2>1, <3>3, <4>2
        <4>4. size_hint[1] = 0 /\ size_hint[2] = 0
          BY <3>4 DEF size_hint
        <4> QED
          BY <4>3, <4>4
      <3>5. CASE ~is_empty
        <4>1. position < len
          BY <2>1, <3>5 DEF is_empty
        <4>2. y # c
          <5> SUFFICES ASSUME y = c PROVE FALSE
            OBVIOUS
          <5>1. EndOf(chunks, c) = position
            BY <3>3
          <5>2. start = position
            BY <2>1, <5>1
          <5> QED
            BY <2>1, <3>1, <4>1, <5>2
        <4>3. c - y <= len - position
          BY <2>1, <2>4, <3>1, <3>3
        <4>4. size_hint[1] = 1 /\ size_hint[2] = len - position
          BY <3>5 DEF size_hint
        <4> QED
          BY <2>1, <3>3, <4>1, <4>2, <4>3, <4>4
      <3> QED
        BY <3>4, <3>5
    <2> QED
      BY <2>5 DEF CursorAgrees, ChunkInv, Agree, c, y
  <1> QED
    BY <1>1, ChunkInvariant, PTL
------------------------------------------------------------------------------
(* Fixed chunks: what div_ceil computes. *)
LEMMA DivUnique ==
    ASSUME NEW x \in Nat, NEW e \in Nat \ {0}, NEW k \in Nat,
           k * e <= x, x < k * e + e
    PROVE  x \div e = k
  <1> DEFINE q == x \div e
  <1>1. q \in Nat /\ q * e <= x /\ x < q * e + e
    OBVIOUS
  <1> HIDE DEF q
  <1>2. \A a, b \in Nat : a > b => a * e >= b * e + e
    OBVIOUS
  <1>3. k * e \in Nat /\ q * e \in Nat
    BY <1>1
  <1>4. ~(q > k) /\ ~(k > q)
    BY <1>1, <1>2, <1>3
  <1> QED
    BY <1>1, <1>4 DEF q

(* fixed_chunk_count(file_len, size) chunks hold the file, one fewer do    *)
(* not, and it is the count of the oracle's sum.                           *)
LEMMA CountIsCeiling ==
    ASSUME NEW l \in Nat, NEW s \in Nat
    PROVE  LET e == MaxOf(s, 1)
               c == fixed_chunk_count(l, s)
           IN  /\ e \in Nat \ {0} /\ c \in Nat /\ l <= c * e
               /\ l > 0 => c > 0 /\ (c - 1) * e < l
               /\ l = 0 => c = 0
               /\ c = oracle_count(l, s)
  <1> DEFINE e == MaxOf(s, 1)
             q == l \div e
             c == fixed_chunk_count(l, s)
  <1>1. e \in Nat \ {0}
    BY DEF MaxOf
  <1>2. fixed_chunk_count(l, s) = l \div e + (IF l % e > 0 THEN 1 ELSE 0)
    BY DEF fixed_chunk_count
  <1>3. oracle_count(l, s) = IF l = 0 THEN 0 ELSE (l + e - 1) \div e
    BY DEF oracle_count
  <1> HIDE DEF e
  <1>4. /\ q \in Nat /\ l = q * e + (l % e) /\ l % e \in 0..(e - 1)
    BY <1>1
  <1>5. c = IF l % e > 0 THEN q + 1 ELSE q
    BY <1>2, <1>4
  <1> HIDE DEF q, c
  <1>6. q * e \in Nat /\ (q + 1) * e = q * e + e
    BY <1>1, <1>4
  <1>7. c \in Nat
    BY <1>4, <1>5
  <1>8. CASE l % e > 0
    <2>1. c = q + 1 /\ c * e = q * e + e /\ c - 1 = q
      BY <1>4, <1>5, <1>6, <1>8
    <2>2. l <= c * e /\ c > 0 /\ (c - 1) * e < l /\ l # 0
      BY <1>1, <1>4, <1>6, <1>8, <2>1
    <2>3. c * e <= l + e - 1 /\ l + e - 1 < c * e + e /\ l + e - 1 \in Nat
      BY <1>1, <1>4, <1>6, <1>8, <2>1
    <2>4. (l + e - 1) \div e = c
      BY <1>1, <1>7, <2>3, DivUnique
    <2> QED
      BY <1>1, <1>3, <1>7, <2>2, <2>4 DEF e, c
  <1>9. CASE l % e = 0
    <2>1. c = q /\ l = q * e
      BY <1>4, <1>5, <1>6, <1>9
    <2>2. l = 0 => c = 0
      <3>1. q > 0 => q * e > 0
        BY <1>1, <1>4
      <3> QED
        BY <1>4, <2>1, <3>1
    <2>3. l > 0 => c > 0 /\ (c - 1) * e < l
      <3>1. q = 0 => q * e = 0
        BY <1>1
      <3>2. (q - 1) * e = q * e - e
        BY <1>1, <1>4
      <3> QED
        BY <1>1, <1>4, <1>6, <2>1, <3>1, <3>2
    <2>4. l > 0 => (l + e - 1) \div e = c
      <3>1. c * e <= l + e - 1 /\ l + e - 1 < c * e + e /\ l + e - 1 \in Nat
        BY <1>1, <1>6, <2>1
      <3> QED
        BY <1>1, <1>7, <3>1, DivUnique
    <2>5. l <= c * e
      BY <1>6, <2>1
    <2> QED
      BY <1>1, <1>3, <1>7, <2>2, <2>3, <2>4, <2>5 DEF e, c
  <1> QED
    BY <1>4, <1>8, <1>9

(* Saturation never changes a fixed chunk: the index is bounded first. *)
LEMMA FixedCase ==
    ASSUME NEW l \in 0..UsizeMax, NEW s \in 0..UsizeMax, NEW x \in 0..UsizeMax
    PROVE  assert_case(l, s, x)
  <1> DEFINE e == MaxOf(s, 1)
             c == fixed_chunk_count(l, s)
  <1>1. l \in Nat /\ s \in Nat /\ x \in Nat /\ UsizeMax \in Nat /\ l <= UsizeMax
    BY ChunkAssumption
  <1>2. /\ e \in Nat \ {0} /\ c \in Nat /\ l <= c * e
        /\ l > 0 => c > 0 /\ (c - 1) * e < l
        /\ l = 0 => c = 0
        /\ c = oracle_count(l, s)
    BY <1>1, CountIsCeiling
  <1>3. \A k : fixed_chunk_bounds(l, s, k) =
          IF l = 0 \/ k >= c THEN <<>>
          ELSE <<SaturatingMul(k, e),
                 IF SaturatingAdd(SaturatingMul(k, e), e) > l THEN l
                 ELSE SaturatingAdd(SaturatingMul(k, e), e)>>
    BY DEF fixed_chunk_bounds
  <1>4. \A k : oracle_bounds(l, s, k) =
          IF k >= c THEN <<>> ELSE <<k * e, MinOf(k * e + e, l)>>
    BY <1>2 DEF oracle_bounds
  <1> HIDE DEF e, c
  <1>5. ASSUME NEW k \in Nat, k < c
        PROVE  /\ k * e \in Nat /\ k * e < l /\ SaturatingMul(k, e) = k * e
               /\ (IF SaturatingAdd(k * e, e) > l THEN l ELSE SaturatingAdd(k * e, e))
                     = MinOf(k * e + e, l)
    <2>1. l > 0 /\ c - 1 \in Nat /\ k <= c - 1 /\ (c - 1) * e < l
      BY <1>1, <1>2, <1>5
    <2>2. \A a, b \in Nat : a <= b => a * e <= b * e /\ a * e \in Nat /\ b * e \in Nat
      BY <1>2
    <2>3. k * e \in Nat /\ k * e < l
      BY <1>1, <2>1, <2>2
    <2>4. SaturatingMul(k, e) = k * e
      BY <1>1, <2>3 DEF SaturatingMul, MinOf
    <2> DEFINE m == k * e
    <2>5. m \in Nat /\ m < l
      BY <2>3
    <2> HIDE DEF m
    <2>6. (IF SaturatingAdd(m, e) > l THEN l ELSE SaturatingAdd(m, e)) = MinOf(m + e, l)
      BY <1>1, <1>2, <2>5 DEF SaturatingAdd, MinOf
    <2> QED
      BY <2>3, <2>4, <2>6 DEF m
  <1>6. ASSUME NEW k \in Nat, k < c
        PROVE  fixed_chunk_bounds(l, s, k) = <<k * e, MinOf(k * e + e, l)>>
    <2>1. l # 0 /\ ~(k >= c)
      BY <1>2, <1>6
    <2> QED
      BY <1>3, <1>5, <1>6, <2>1
  <1>7. fixed_chunk_bounds(l, s, x) = oracle_bounds(l, s, x)
    <2>1. CASE x >= c
      BY <1>3, <1>4, <2>1
    <2>2. CASE x < c
      <3>1. x \in Nat /\ ~(x >= c)
        BY <1>1, <1>2, <2>2
      <3>2. fixed_chunk_bounds(l, s, x) = <<x * e, MinOf(x * e + e, l)>>
        BY <1>6, <2>2, <3>1, Zenon
      <3>3. oracle_bounds(l, s, x) = <<x * e, MinOf(x * e + e, l)>>
        BY <1>4, <3>1, Zenon
      <3> QED
        BY <3>2, <3>3, Zenon
    <2> QED
      BY <1>1, <1>2, <2>1, <2>2
  <1>8. fixed_chunk_bounds(l, s, c) = <<>>
    BY <1>2, <1>3
  <1>9. ASSUME l > 0 PROVE fixed_chunk_bounds(l, s, c - 1)[2] = l
    <2>1. c - 1 \in Nat /\ c - 1 < c
      BY <1>2, <1>9
    <2>2. (c - 1) * e \in Nat /\ (c - 1) * e + e = c * e
      BY <1>2, <2>1
    <2>3. MinOf((c - 1) * e + e, l) = l
      BY <1>1, <1>2, <2>2 DEF MinOf
    <2> QED
      BY <1>6, <2>1, <2>3
  <1> QED
    BY <1>2, <1>7, <1>8, <1>9 DEF assert_case, c

(* The assertions of the fixed_extremes fuzz target hold for every usize   *)
(* length, chunk size and index, whatever the width of usize.              *)
THEOREM FixedChunksExact == Spec => []FixedMatchesOracle
  <1>1. ChunkInv => FixedMatchesOracle
    <2> SUFFICES ASSUME ChunkInv, NEW l \in 0..UsizeMax, NEW x \in 0..UsizeMax,
                        NEW power \in 1..UsizeMax
                 PROVE  fuzz_extremes(l, chunk_size, x, power)
      BY DEF FixedMatchesOracle
    <2>1. chunk_size \in 0..UsizeMax /\ UsizeMax \in Nat /\ UsizeMax >= 1
      BY ChunkAssumption DEF ChunkInv, InputsOK
    <2>2. {0, 1, UsizeMax, UsizeMax - 1, power, MaxOf(power - 1, 0),
           SaturatingAdd(power, 1)} \subseteq 0..UsizeMax
      BY <2>1 DEF MaxOf, SaturatingAdd, MinOf
    <2>3. assert_case(l, chunk_size, x)
      BY <2>1, FixedCase
    <2>4. \A a, b \in 0..UsizeMax : assert_case(a, b, x)
      BY FixedCase
    <2> QED
      BY <2>2, <2>3, <2>4 DEF fuzz_extremes
  <1> QED
    BY <1>1, ChunkInvariant, PTL
------------------------------------------------------------------------------
(* Where a chunk that begins at `from` ends, by the reference loops. *)
ChunkEnds(s, d, size) ==
    [from \in 0..Len(s) |-> IF from + MaxOf(size, 1) >= Len(s) THEN Len(s)
                            ELSE AfterHit(s, d, from + MaxOf(size, 1))]

(* A chunk is not empty and ends inside the slice. *)
LEMMA ChunkEndsAreEnds ==
    ASSUME NEW B, NEW s \in Seq(B), NEW d \in Seq(B), Len(d) > 0, NEW size \in Nat
    PROVE  /\ IsEnds(ChunkEnds(s, d, size), Len(s)) /\ Len(s) \in Nat
           /\ MaxOf(size, 1) \in Nat \ {0}
  <1>0. Len(s) \in Nat /\ MaxOf(size, 1) \in Nat \ {0}
    BY DEF MaxOf
  <1> DEFINE m == MaxOf(size, 1)
  <1> HIDE DEF m
  <1>1. ASSUME NEW k \in 0..(Len(s) - 1) PROVE ChunkEnds(s, d, size)[k] \in (k + 1)..Len(s)
    <2>0. m \in Nat \ {0}
      BY <1>0 DEF m
    <2>1. k \in 0..Len(s) /\ k \in Nat
      BY <1>0
    <2>2. ChunkEnds(s, d, size)[k] = IF k + m >= Len(s) THEN Len(s) ELSE AfterHit(s, d, k + m)
      BY <2>1 DEF ChunkEnds, m
    <2>3. CASE k + m >= Len(s)
      BY <1>0, <2>1, <2>2, <2>3
    <2>4. CASE k + m < Len(s)
      <3>1. k + m \in 0..Len(s)
        BY <1>0, <2>0, <2>1, <2>4
      <3>2. AfterHit(s, d, k + m) \in (k + m)..Len(s)
        BY <3>1, HitBounds
      <3> QED
        BY <1>0, <2>0, <2>1, <2>2, <2>4, <3>2
    <2> QED
      BY <1>0, <2>0, <2>1, <2>3, <2>4
  <1> QED
    BY <1>0, <1>1 DEF IsEnds

(* scalar_pattern_boundaries *)
LEMMA ScalarPatternBoundaries ==
    ASSUME NEW B, NEW s \in Seq(B), NEW d \in Seq(B), Len(d) > 0, NEW size \in Nat,
           NEW w \in [0..Len(s) -> Seq(Pair)], IsWalk(w, ChunkEnds(s, d, size), Len(s))
    PROVE  scalar_pattern_boundaries(s, size, d) = w[0]
  <1> DEFINE l == Len(s)
             m == MaxOf(size, 1)
             e == ChunkEnds(s, d, size)
             F(f) == [candidate \in 0..l |->
                        IF candidate + Len(d) > l THEN l
                        ELSE IF \A k \in 1..Len(d) : s[candidate + k] = d[k]
                        THEN candidate + Len(d) ELSE f[candidate + 1]]
             end == CHOOSE f : f = F(f)
             G(f) == [begin \in 0..l |->
                        IF begin = l THEN <<>>
                        ELSE IF begin + m >= l THEN <<<<begin, l>>>>
                        ELSE <<<<begin, end[begin + m]>>>> \o f[end[begin + m]]]
             walk == CHOOSE f : f = G(f)
  <1>0. l \in Nat /\ m \in Nat \ {0} /\ IsEnds(e, l)
    BY ChunkEndsAreEnds
  <1>1. scalar_pattern_boundaries(s, size, d) = walk[0]
    BY DEF scalar_pattern_boundaries
  <1>2. end = Ends(s, d)
    <2>1. \A f : F(f) = [c \in 0..l |-> IF c \in Stops(s, d) THEN StopEnd(s, d)[c] ELSE f[c + 1]]
      <3>1. ASSUME NEW f, NEW c \in 0..l
            PROVE  (IF c + Len(d) > l THEN l
                    ELSE IF \A k \in 1..Len(d) : s[c + k] = d[k]
                    THEN c + Len(d) ELSE f[c + 1])
                   = IF c \in Stops(s, d) THEN StopEnd(s, d)[c] ELSE f[c + 1]
        BY <1>0 DEF Stops, StopEnd, MatchAt
      <3> QED
        BY <3>1, Zenon
    <2>2. \A f : f = F(f) <=> IsSearch(f, Stops(s, d), StopEnd(s, d), l)
      <3> HIDE DEF F
      <3> QED
        BY <2>1, Zenon DEF IsSearch
    <2>3. Ends(s, d) = F(Ends(s, d))
      BY <2>2, EndsSearch
    <2> HIDE DEF F
    <2>4. end = F(end)
      BY <2>3
    <2> HIDE DEF end
    <2> QED
      BY <1>0, <2>2, <2>3, <2>4, EndsSearch, SearchUnique
  <1> HIDE DEF end, F, m
  <1>3. \A f : G(f)[l] = <<>>
    BY <1>0
  <1>4. \A begin \in 0..(l - 1) : e[begin] = IF begin + m >= l THEN l ELSE end[begin + m]
    <2> TAKE begin \in 0..(l - 1)
    <2>1. begin \in 0..l
      BY <1>0
    <2>2. e[begin] = IF begin + m >= l THEN l ELSE AfterHit(s, d, begin + m)
      BY <2>1 DEF ChunkEnds, m
    <2>3. begin + m < l => begin + m \in 0..l
      BY <1>0
    <2> HIDE DEF e
    <2> QED
      BY <1>0, <1>2, <2>2, <2>3 DEF Ends
  <1> HIDE DEF e
  <1>5. \A begin \in 0..(l - 1) : <<<<begin, l>>>> \o <<>> = <<<<begin, l>>>>
    <2> TAKE begin \in 0..(l - 1)
    <2>1. <<<<begin, l>>>> \in Seq(Pair)
      BY <1>0 DEF Pair
    <2> QED
      BY <2>1, ConcatEmptySeq
  <1>6. ASSUME NEW f, f[l] = <<>>
        PROVE  G(f) = [begin \in 0..l |->
                         IF begin = l THEN <<>> ELSE <<<<begin, e[begin]>>>> \o f[e[begin]]]
    <2>1. ASSUME NEW begin \in 0..l
          PROVE  (IF begin = l THEN <<>>
                  ELSE IF begin + m >= l THEN <<<<begin, l>>>>
                  ELSE <<<<begin, end[begin + m]>>>> \o f[end[begin + m]])
                 = IF begin = l THEN <<>> ELSE <<<<begin, e[begin]>>>> \o f[e[begin]]
      <3>1. CASE begin = l
        BY <3>1
      <3>2. CASE begin # l /\ begin + m >= l
        <4>0. begin \in 0..(l - 1)
          BY <1>0, <3>2
        <4>h. e[begin] = IF begin + m >= l THEN l ELSE end[begin + m]
          BY <1>4, <4>0, Zenon
        <4>1. e[begin] = l
          BY <1>0, <3>2, <4>0, <4>h
        <4> QED
          BY <1>5, <1>6, <3>2, <4>0, <4>1
      <3>3. CASE begin # l /\ begin + m < l
        <4>0. begin \in 0..(l - 1)
          BY <1>0, <3>3
        <4>h. e[begin] = IF begin + m >= l THEN l ELSE end[begin + m]
          BY <1>4, <4>0, Zenon
        <4>1. e[begin] = end[begin + m]
          BY <1>0, <3>3, <4>0, <4>h
        <4> QED
          BY <1>0, <3>3, <4>0, <4>1
      <3> QED
        BY <1>0, <3>1, <3>2, <3>3
    <2> QED
      BY <2>1, Zenon
  <1>7. w = G(w)
    <2>1. w[l] = <<>>
      BY <1>0 DEF IsWalk
    <2> QED
      BY <1>6, <2>1 DEF IsWalk, e
  <1>8. walk = G(walk)
    <2> HIDE DEF G
    <2> QED
      BY <1>7
  <1>9. walk[l] = <<>>
    <2> HIDE DEF G, walk
    <2> QED
      BY <1>3, <1>8
  <1>10. IsWalk(walk, e, l)
    <2> HIDE DEF walk
    <2> QED
      BY <1>6, <1>8, <1>9 DEF IsWalk
  <1>11. IsWalk(w, e, l)
    BY DEF e
  <1> HIDE DEF walk
  <1> QED
    BY <1>0, <1>1, <1>10, <1>11, WalkUnique

(* scalar_single_byte_boundaries *)
LEMMA ScalarSingleByteBoundaries ==
    ASSUME NEW B, NEW s \in Seq(B), NEW d \in Seq(B), Len(d) = 1, NEW size \in Nat,
           NEW w \in [0..Len(s) -> Seq(Pair)], IsWalk(w, ChunkEnds(s, d, size), Len(s))
    PROVE  scalar_single_byte_boundaries(s, size, d[1]) = w[0]
  <1> DEFINE l == Len(s)
             m == MaxOf(size, 1)
             e == ChunkEnds(s, d, size)
             F(f) == [x \in 0..l |-> IF x = l THEN l
                                     ELSE IF s[x + 1] = d[1] THEN x + 1 ELSE f[x + 1]]
             end == CHOOSE f : f = F(f)
             G(f) == [begin \in 0..l |->
                        IF begin = l THEN <<>>
                        ELSE IF begin + m >= l THEN <<<<begin, l>>>>
                        ELSE <<<<begin, end[begin + m]>>>> \o f[end[begin + m]]]
             walk == CHOOSE f : f = G(f)
  <1>0. l \in Nat /\ m \in Nat \ {0} /\ IsEnds(e, l) /\ Len(d) > 0
    BY ChunkEndsAreEnds
  <1>1. scalar_single_byte_boundaries(s, size, d[1]) = walk[0]
    BY DEF scalar_single_byte_boundaries
  <1>2. end = Ends(s, d)
    <2>1. \A f : F(f) = [c \in 0..l |-> IF c \in Stops(s, d) THEN StopEnd(s, d)[c] ELSE f[c + 1]]
      <3>1. ASSUME NEW f, NEW c \in 0..l
            PROVE  (IF c = l THEN l ELSE IF s[c + 1] = d[1] THEN c + 1 ELSE f[c + 1])
                   = IF c \in Stops(s, d) THEN StopEnd(s, d)[c] ELSE f[c + 1]
        BY <1>0 DEF Stops, StopEnd, MatchAt
      <3> QED
        BY <3>1, Zenon
    <2>2. \A f : f = F(f) <=> IsSearch(f, Stops(s, d), StopEnd(s, d), l)
      <3> HIDE DEF F
      <3> QED
        BY <2>1, Zenon DEF IsSearch
    <2>3. Ends(s, d) = F(Ends(s, d))
      BY <1>0, <2>2, EndsSearch
    <2> HIDE DEF F
    <2>4. end = F(end)
      BY <2>3
    <2> HIDE DEF end
    <2> QED
      BY <1>0, <2>2, <2>3, <2>4, EndsSearch, SearchUnique
  <1> HIDE DEF end, F, m
  <1>3. \A f : G(f)[l] = <<>>
    BY <1>0
  <1>4. \A begin \in 0..(l - 1) : e[begin] = IF begin + m >= l THEN l ELSE end[begin + m]
    <2> TAKE begin \in 0..(l - 1)
    <2>1. begin \in 0..l
      BY <1>0
    <2>2. e[begin] = IF begin + m >= l THEN l ELSE AfterHit(s, d, begin + m)
      BY <2>1 DEF ChunkEnds, m
    <2>3. begin + m < l => begin + m \in 0..l
      BY <1>0
    <2> HIDE DEF e
    <2> QED
      BY <1>0, <1>2, <2>2, <2>3 DEF Ends
  <1> HIDE DEF e
  <1>5. \A begin \in 0..(l - 1) : <<<<begin, l>>>> \o <<>> = <<<<begin, l>>>>
    <2> TAKE begin \in 0..(l - 1)
    <2>1. <<<<begin, l>>>> \in Seq(Pair)
      BY <1>0 DEF Pair
    <2> QED
      BY <2>1, ConcatEmptySeq
  <1>6. ASSUME NEW f, f[l] = <<>>
        PROVE  G(f) = [begin \in 0..l |->
                         IF begin = l THEN <<>> ELSE <<<<begin, e[begin]>>>> \o f[e[begin]]]
    <2>1. ASSUME NEW begin \in 0..l
          PROVE  (IF begin = l THEN <<>>
                  ELSE IF begin + m >= l THEN <<<<begin, l>>>>
                  ELSE <<<<begin, end[begin + m]>>>> \o f[end[begin + m]])
                 = IF begin = l THEN <<>> ELSE <<<<begin, e[begin]>>>> \o f[e[begin]]
      <3>1. CASE begin = l
        BY <3>1
      <3>2. CASE begin # l /\ begin + m >= l
        <4>0. begin \in 0..(l - 1)
          BY <1>0, <3>2
        <4>h. e[begin] = IF begin + m >= l THEN l ELSE end[begin + m]
          BY <1>4, <4>0, Zenon
        <4>1. e[begin] = l
          BY <1>0, <3>2, <4>0, <4>h
        <4> QED
          BY <1>5, <1>6, <3>2, <4>0, <4>1
      <3>3. CASE begin # l /\ begin + m < l
        <4>0. begin \in 0..(l - 1)
          BY <1>0, <3>3
        <4>h. e[begin] = IF begin + m >= l THEN l ELSE end[begin + m]
          BY <1>4, <4>0, Zenon
        <4>1. e[begin] = end[begin + m]
          BY <1>0, <3>3, <4>0, <4>h
        <4> QED
          BY <1>0, <3>3, <4>0, <4>1
      <3> QED
        BY <1>0, <3>1, <3>2, <3>3
    <2> QED
      BY <2>1, Zenon
  <1>7. w = G(w)
    <2>1. w[l] = <<>>
      BY <1>0 DEF IsWalk
    <2> QED
      BY <1>6, <2>1 DEF IsWalk, e
  <1>8. walk = G(walk)
    <2> HIDE DEF G
    <2> QED
      BY <1>7
  <1>9. walk[l] = <<>>
    <2> HIDE DEF G, walk
    <2> QED
      BY <1>3, <1>8
  <1>10. IsWalk(walk, e, l)
    <2> HIDE DEF walk
    <2> QED
      BY <1>6, <1>8, <1>9 DEF IsWalk
  <1>11. IsWalk(w, e, l)
    BY DEF e
  <1> HIDE DEF walk
  <1> QED
    BY <1>0, <1>1, <1>10, <1>11, WalkUnique

(* scalar_single *)
LEMMA ScalarSingle ==
    ASSUME NEW B, NEW s \in Seq(B), NEW d \in Seq(B), Len(d) = 1, NEW size \in Nat,
           NEW w \in [0..Len(s) -> Seq(Pair)], IsWalk(w, ChunkEnds(s, d, size), Len(s))
    PROVE  scalar_single(s, size, d[1]) = w[0]
  <1> DEFINE l == Len(s)
             m == MaxOf(size, 1)
             e == ChunkEnds(s, d, size)
             end(begin) == IF begin + m >= l THEN l ELSE MinOf(SkipTo(s, d[1], begin + m) + 1, l)
             G(f) == [begin \in 0..l |->
                        IF begin = l THEN <<>> ELSE <<<<begin, end(begin)>>>> \o f[end(begin)]]
             walk == CHOOSE f : f = G(f)
  <1>0. l \in Nat /\ m \in Nat \ {0} /\ IsEnds(e, l) /\ Len(d) > 0
    BY ChunkEndsAreEnds
  <1>1. scalar_single(s, size, d[1]) = walk[0]
    BY DEF scalar_single
  <1> HIDE DEF m
  <1>2. \A begin \in 0..(l - 1) : end(begin) = e[begin]
    <2> TAKE begin \in 0..(l - 1)
    <2>1. begin \in 0..l
      BY <1>0
    <2>2. e[begin] = IF begin + m >= l THEN l ELSE AfterHit(s, d, begin + m)
      BY <2>1 DEF ChunkEnds, m
    <2>3. CASE begin + m < l
      <3>1. begin + m \in 0..l
        BY <1>0, <2>3
      <3>2. SkipTo(s, d[1], begin + m) = FirstHit(s, d, begin + m)
        BY <3>1, SkipToIs
      <3>3. /\ FirstHit(s, d, begin + m) \in (begin + m)..l
            /\ AfterHit(s, d, begin + m) = MinOf(FirstHit(s, d, begin + m) + 1, l)
        BY <1>0, <3>1, AfterOneByte
      <3> HIDE DEF e
      <3> QED
        BY <1>0, <2>2, <2>3, <3>2, <3>3
    <2>4. CASE begin + m >= l
      BY <2>2, <2>4
    <2> QED
      BY <1>0, <2>3, <2>4
  <1> HIDE DEF end, e
  <1>3. \A f : f = G(f) <=> IsWalk(f, e, l)
    <2>1. ASSUME NEW f, NEW begin \in 0..l
          PROVE  (IF begin = l THEN <<>> ELSE <<<<begin, end(begin)>>>> \o f[end(begin)])
                 = IF begin = l THEN <<>> ELSE <<<<begin, e[begin]>>>> \o f[e[begin]]
      <3>1. begin # l => end(begin) = e[begin]
        BY <1>0, <1>2
      <3> QED
        BY <3>1, Zenon
    <2>2. \A f : G(f) = [begin \in 0..l |->
                  IF begin = l THEN <<>> ELSE <<<<begin, e[begin]>>>> \o f[e[begin]]]
      BY <2>1, Zenon
    <2> HIDE DEF G
    <2> QED
      BY <2>2, Zenon DEF IsWalk
  <1> HIDE DEF G
  <1>4. w = G(w) /\ IsWalk(w, e, l)
    BY <1>3 DEF e
  <1>5. walk = G(walk)
    BY <1>4
  <1> HIDE DEF walk
  <1> QED
    BY <1>0, <1>1, <1>3, <1>4, <1>5, WalkUnique

(* scalar_pattern *)
LEMMA ScalarPattern ==
    ASSUME NEW B, NEW s \in Seq(B), NEW d \in Seq(B), Len(d) > 0, NEW size \in Nat,
           NEW w \in [0..Len(s) -> Seq(Pair)], IsWalk(w, ChunkEnds(s, d, size), Len(s))
    PROVE  scalar_pattern(s, size, d) = w[0]
  <1> DEFINE l == Len(s)
             m == MaxOf(size, 1)
             e == ChunkEnds(s, d, size)
             last == IF l > Len(d) THEN l - Len(d) ELSE 0
             F(f) == [candidate \in 0..(l + 1) |->
                        IF candidate > last THEN l
                        ELSE IF MatchAt(s, d, candidate)
                             THEN candidate + Len(d) ELSE f[candidate + 1]]
             boundary == CHOOSE f : f = F(f)
             end(begin) == IF begin + m >= l THEN l ELSE boundary[begin + m]
             G(f) == [begin \in 0..l |->
                        IF begin = l THEN <<>> ELSE <<<<begin, end(begin)>>>> \o f[end(begin)]]
             walk == CHOOSE f : f = G(f)
             stop == {c \in 0..(l + 1) : c > last \/ MatchAt(s, d, c)}
             found == [c \in 0..(l + 1) |-> IF c > last THEN l ELSE c + Len(d)]
             after == [c \in 0..(l + 1) |-> AfterHit(s, d, c)]
  <1>0. l \in Nat /\ m \in Nat \ {0} /\ IsEnds(e, l) /\ Len(d) \in Nat \ {0} /\ last \in 0..l
    BY ChunkEndsAreEnds, SMTT(60)
  <1>1. scalar_pattern(s, size, d) = walk[0]
    BY DEF scalar_pattern
  <1>2. \A c \in 1..l : boundary[c] = AfterHit(s, d, c)
    <2>1. \A f : f = F(f) <=> IsSearch(f, stop, found, l + 1)
      <3>1. ASSUME NEW f, NEW c \in 0..(l + 1)
            PROVE  (IF c > last THEN l ELSE IF MatchAt(s, d, c) THEN c + Len(d) ELSE f[c + 1])
                   = IF c \in stop THEN found[c] ELSE f[c + 1]
        BY Zenon
      <3> QED
        BY <3>1, Zenon DEF IsSearch
    <2>2. after = F(after)
      <3>1. ASSUME NEW c \in 0..(l + 1)
            PROVE  AfterHit(s, d, c) =
                     IF c > last THEN l
                     ELSE IF MatchAt(s, d, c) THEN c + Len(d) ELSE after[c + 1]
        <4>0. c \in Nat
          BY <1>0
        <4>1. CASE c > last
          <5>1. c + Len(d) > l
            BY <1>0, <4>1
          <5>2. AfterHit(s, d, c) = l
            BY <4>0, <5>1, HitSteps
          <5> QED
            BY <4>1, <5>2
        <4>2. CASE c <= last /\ MatchAt(s, d, c)
          <5>1. c <= l
            BY <1>0, <4>2
          <5>2. AfterHit(s, d, c) = c + Len(d)
            BY <4>0, <4>2, <5>1, HitSteps
          <5> QED
            BY <1>0, <4>0, <4>2, <5>2
        <4>3. CASE c <= last /\ ~MatchAt(s, d, c) /\ c < l
          <5>1. AfterHit(s, d, c) = AfterHit(s, d, c + 1)
            BY <4>0, <4>3, HitSteps
          <5>2. c + 1 \in 0..(l + 1)
            BY <1>0, <4>3
          <5> QED
            BY <1>0, <4>0, <4>3, <5>1, <5>2
        <4>4. CASE c <= last /\ ~MatchAt(s, d, c) /\ c >= l
          <5>1. c + Len(d) > l /\ (c + 1) + Len(d) > l /\ c + 1 \in Nat /\ c + 1 \in 0..(l + 1)
            BY <1>0, <4>0, <4>4
          <5>2. AfterHit(s, d, c) = l
            BY <4>0, <5>1, HitSteps
          <5>3. AfterHit(s, d, c + 1) = l
            BY <5>1, HitSteps
          <5> QED
            BY <1>0, <4>0, <4>4, <5>1, <5>2, <5>3
        <4> QED
          BY <1>0, <4>0, <4>1, <4>2, <4>3, <4>4
      <3> QED
        BY <3>1, Zenon
    <2>3. l + 1 \in stop /\ l + 1 \in Nat
      BY <1>0
    <2> HIDE DEF F
    <2>4. boundary = F(boundary)
      BY <2>2
    <2> HIDE DEF boundary, stop, found
    <2>5. boundary = after
      BY <2>1, <2>2, <2>3, <2>4, SearchUnique
    <2>6. \A c \in 1..l : c \in 0..(l + 1)
      BY <1>0
    <2> QED
      BY <2>5, <2>6
  <1> HIDE DEF boundary, m, F, stop, found, after, last
  <1>3. \A begin \in 0..(l - 1) : end(begin) = e[begin]
    <2> TAKE begin \in 0..(l - 1)
    <2>1. begin \in 0..l
      BY <1>0
    <2>2. e[begin] = IF begin + m >= l THEN l ELSE AfterHit(s, d, begin + m)
      BY <2>1 DEF ChunkEnds, m
    <2>3. begin + m < l => begin + m \in 1..l
      BY <1>0
    <2> HIDE DEF e
    <2> QED
      BY <1>0, <1>2, <2>2, <2>3
  <1> HIDE DEF end, e
  <1>4. \A f : f = G(f) <=> IsWalk(f, e, l)
    <2>1. ASSUME NEW f, NEW begin \in 0..l
          PROVE  (IF begin = l THEN <<>> ELSE <<<<begin, end(begin)>>>> \o f[end(begin)])
                 = IF begin = l THEN <<>> ELSE <<<<begin, e[begin]>>>> \o f[e[begin]]
      <3>1. begin # l => end(begin) = e[begin]
        BY <1>0, <1>3
      <3> QED
        BY <3>1, Zenon
    <2>2. \A f : G(f) = [begin \in 0..l |->
                  IF begin = l THEN <<>> ELSE <<<<begin, e[begin]>>>> \o f[e[begin]]]
      BY <2>1, Zenon
    <2> HIDE DEF G
    <2> QED
      BY <2>2, Zenon DEF IsWalk
  <1> HIDE DEF G
  <1>5. w = G(w) /\ IsWalk(w, e, l)
    BY <1>4 DEF e
  <1>6. walk = G(walk)
    BY <1>5
  <1> HIDE DEF walk
  <1> QED
    BY <1>0, <1>1, <1>4, <1>5, <1>6, WalkUnique

(* naive_pattern_boundaries *)
LEMMA NaivePatternBoundaries ==
    ASSUME NEW B, NEW s \in Seq(B), NEW d \in Seq(B), Len(d) > 0, NEW size \in Nat,
           NEW w \in [0..Len(s) -> Seq(Pair)], IsWalk(w, ChunkEnds(s, d, size), Len(s))
    PROVE  naive_pattern_boundaries(s, size, d) = w[0]
  <1> DEFINE l == Len(s)
             m == MaxOf(size, 1)
             e == ChunkEnds(s, d, size)
             hits(t) == {p \in t..(l - Len(d)) : MatchAt(s, d, p)}
             end(begin) == IF begin + m >= l \/ hits(begin + m) = {} THEN l
                           ELSE (CHOOSE p \in hits(begin + m) :
                                    \A q \in hits(begin + m) : p <= q) + Len(d)
             G(f) == [begin \in 0..l |->
                        IF begin = l THEN <<>> ELSE <<<<begin, end(begin)>>>> \o f[end(begin)]]
             walk == CHOOSE f : f = G(f)
  <1>0. l \in Nat /\ m \in Nat \ {0} /\ IsEnds(e, l) /\ Len(d) \in Nat \ {0}
    BY ChunkEndsAreEnds
  <1>1. naive_pattern_boundaries(s, size, d) = walk[0]
    BY DEF naive_pattern_boundaries
  <1> HIDE DEF m
  <1>2. \A t \in Nat : hits(t) = Hits(s, d, t)
    BY <1>0 DEF Hits, MatchAt
  <1> HIDE DEF hits
  <1>3. \A begin \in 0..(l - 1) : end(begin) = e[begin]
    <2> TAKE begin \in 0..(l - 1)
    <2>1. begin \in 0..l /\ begin + m \in Nat
      BY <1>0
    <2>2. e[begin] = IF begin + m >= l THEN l ELSE AfterHit(s, d, begin + m)
      BY <2>1 DEF ChunkEnds, m
    <2>3. hits(begin + m) = Hits(s, d, begin + m)
      BY <1>2, <2>1
    <2> HIDE DEF e
    <2> QED
      BY <2>2, <2>3, Zenon DEF AfterHit, FirstHit
  <1> HIDE DEF end, e
  <1>4. \A f : f = G(f) <=> IsWalk(f, e, l)
    <2>1. ASSUME NEW f, NEW begin \in 0..l
          PROVE  (IF begin = l THEN <<>> ELSE <<<<begin, end(begin)>>>> \o f[end(begin)])
                 = IF begin = l THEN <<>> ELSE <<<<begin, e[begin]>>>> \o f[e[begin]]
      <3>1. begin # l => end(begin) = e[begin]
        BY <1>0, <1>3
      <3> QED
        BY <3>1, Zenon
    <2>2. \A f : G(f) = [begin \in 0..l |->
                  IF begin = l THEN <<>> ELSE <<<<begin, e[begin]>>>> \o f[e[begin]]]
      BY <2>1, Zenon
    <2> HIDE DEF G
    <2> QED
      BY <2>2, Zenon DEF IsWalk
  <1> HIDE DEF G
  <1>5. w = G(w) /\ IsWalk(w, e, l)
    BY <1>4 DEF e
  <1>6. walk = G(walk)
    BY <1>5
  <1> HIDE DEF walk
  <1> QED
    BY <1>0, <1>1, <1>4, <1>5, <1>6, WalkUnique

(* The chunks the scan and the cursor build are the walk of the oracles.   *)
LEMMA ChunkEndIs ==
    ASSUME InputsOK, NEW from \in Nat, NEW e, ChunkEnd(from, e)
    PROVE  from \in 0..(len - 1) /\ ChunkEnds(data, delim, chunk_size)[from] = e
  <1> DEFINE t == SaturatingAdd(from, step)
             after == AfterHit(data, delim, from + step)
  <1>1. /\ len \in Nat /\ UsizeMax \in Nat /\ step \in Nat \ {0} /\ len <= UsizeMax
        /\ data \in Seq(Byte) /\ delim \in Seq(Byte) /\ from < len
    BY Lengths DEF InputsOK, ChunkEnd
  <1>2. from \in 0..(len - 1) /\ from \in 0..Len(data)
    BY <1>1 DEF len
  <1>3. ChunkEnds(data, delim, chunk_size)[from] =
          IF from + step >= len THEN len ELSE after
    BY <1>2 DEF ChunkEnds, step, len
  <1>4. (t >= len <=> from + step >= len) /\ (t < len => t = from + step) /\ t \in Nat
    BY <1>1 DEF SaturatingAdd, MinOf
  <1> HIDE DEF t, after
  <1>5. CASE t >= len
    BY <1>1, <1>2, <1>3, <1>4, <1>5 DEF ChunkEnd, t
  <1>6. CASE t < len /\ e = len /\ NoMatchIn(data, delim, t, len)
    <2>1. t \in 0..Len(data)
      BY <1>1, <1>4, <1>6 DEF len
    <2>2. AfterHit(data, delim, t) = len
      BY <1>1, <1>6, <2>1, HitIsMatch DEF len
    <2> QED
      BY <1>1, <1>2, <1>3, <1>4, <1>6, <2>2 DEF after
  <1>7. CASE t < len /\ \E p \in t..len :
                FirstMatchIn(data, delim, t, len, p) /\ e = MinOf(p + Len(delim), len)
    <2>1. t \in 0..Len(data)
      BY <1>1, <1>4, <1>7 DEF len
    <2>2. PICK p \in t..len : FirstMatchIn(data, delim, t, len, p) /\ e = MinOf(p + Len(delim), len)
      BY <1>7
    <2>3. p \in Nat /\ AfterHit(data, delim, t) = p + Len(delim) /\ p + Len(delim) <= len
      BY <1>1, <2>1, <2>2, HitIsMatch DEF len
    <2>4. e = p + Len(delim)
      BY <2>2, <2>3 DEF MinOf
    <2> QED
      BY <1>1, <1>2, <1>3, <1>4, <1>7, <2>3, <2>4 DEF after
  <1> QED
    BY <1>1, <1>4, <1>5, <1>6, <1>7 DEF ChunkEnd, t

(* A tiling that has reached the end is the walk from 0. *)
LEMMA TiledIsWalk ==
    ASSUME InputsOK, NEW rs, Tiled(rs, len),
           NEW w \in [0..len -> Seq(Pair)], IsWalk(w, ChunkEnds(data, delim, chunk_size), len)
    PROVE  rs = w[0]
  <1> DEFINE m == Len(rs)
             c == ChunkEnds(data, delim, chunk_size)
             Tail1(k) == SubSeq(rs, k + 1, m)
             S == {k \in 0..m : Tail1(k) = w[EndOf(rs, k)]}
  <1>0. /\ len \in Nat /\ rs \in Seq(Pair) /\ m \in Nat
        /\ EndOf(rs, m) = len
        /\ \A k \in 0..m : EndOf(rs, k) \in Nat
    BY Lengths DEF Tiled, Pair
  <1>1. ASSUME NEW k \in 0..(m - 1)
        PROVE  /\ rs[k + 1] = <<EndOf(rs, k), EndOf(rs, k + 1)>>
               /\ EndOf(rs, k) \in 0..(len - 1) /\ c[EndOf(rs, k)] = EndOf(rs, k + 1)
    <2>1. k + 1 \in 1..m /\ (k + 1) - 1 = k /\ k \in 0..m
      BY <1>0
    <2>2. rs[k + 1] = <<EndOf(rs, k), EndOf(rs, k + 1)>> /\ ChunkEnd(EndOf(rs, k), EndOf(rs, k + 1))
      BY <2>1 DEF Tiled
    <2>3. EndOf(rs, k) \in Nat
      BY <1>0, <2>1
    <2> QED
      BY <2>2, <2>3, ChunkEndIs
  <1>2. m \in S
    <2>1. Tail1(m) = <<>>
      BY <1>0, SubSeqEmpty
    <2>2. w[len] = <<>>
      BY <1>0 DEF IsWalk
    <2> QED
      BY <1>0, <2>1, <2>2
  <1>3. ASSUME NEW k \in 0..(m - 1), \A q \in (k + 1)..m : q \in S PROVE k \in S
    <2>1. k + 1 \in (k + 1)..m /\ k \in 0..m /\ k + 1 \in 1..m /\ m \in (k + 1)..m
      BY <1>0
    <2>2. Tail1(k + 1) = w[EndOf(rs, k + 1)]
      BY <1>3, <2>1
    <2>3. Tail1(k) = <<rs[k + 1]>> \o SubSeq(rs, (k + 1) + 1, m)
      BY <1>0, <2>1, SubSeqRecursiveFirst
    <2>4. EndOf(rs, k) \in 0..len /\ EndOf(rs, k) # len
      BY <1>0, <1>1
    <2>5. w[EndOf(rs, k)] = <<<<EndOf(rs, k), c[EndOf(rs, k)]>>>> \o w[c[EndOf(rs, k)]]
      BY <2>4, Zenon DEF IsWalk
    <2>6. Tail1(k) = w[EndOf(rs, k)]
      BY <1>1, <2>2, <2>3, <2>5
    <2> QED
      BY <2>1, <2>6
  <1>4. S = 0..m
    <2> HIDE DEF S
    <2>1. S \in SUBSET (0..m)
      BY DEF S
    <2> QED
      BY <1>0, <1>2, <1>3, <2>1, Downward
  <1>5. Tail1(0) = w[EndOf(rs, 0)]
    <2>1. 0 \in S
      <3> HIDE DEF S
      <3> QED
        BY <1>0, <1>4
    <2> QED
      BY <2>1
  <1>6. Tail1(0) = rs
    BY <1>0, SubSeqFull
  <1> QED
    BY <1>5, <1>6 DEF EndOf

(* Every reference loop of the differential tests, the fuzz targets and    *)
(* the C ABI tests cuts the data where find_chunk_boundaries(_pattern) and *)
(* the cursors do, for every slice, delimiter and chunk size.              *)
THEOREM ScanMatchesOracles == Spec => []MatchesScalarOracles
  <1>1. ChunkInv /\ ChunksTile => MatchesScalarOracles
    <2> SUFFICES ASSUME ChunkInv, ChunksTile PROVE MatchesScalarOracles
      OBVIOUS
    <2>1. /\ InputsOK /\ Tiled(chunks, start) /\ Tiled(yielded, position)
          /\ data \in Seq(Byte) /\ delim \in Seq(Byte) /\ chunk_size \in Nat
          /\ Len(delim) > 0 /\ len \in Nat /\ len = Len(data)
          /\ start \in 0..len /\ position \in 0..len
      <3>1. InputsOK /\ Tiled(chunks, start) /\ Tiled(yielded, position)
        BY DEF ChunkInv
      <3>2. len \in Nat /\ Len(delim) \in Nat \ {0} /\ UsizeMax \in Nat
        BY <3>1, Lengths
      <3>3. start \in 0..len /\ position \in 0..len
        BY <3>1 DEF Tiled
      <3>4. data \in Seq(Byte) /\ delim \in Seq(Byte) /\ chunk_size \in 0..UsizeMax
        BY <3>1 DEF InputsOK
      <3>5. chunk_size \in Nat /\ Len(delim) > 0
        BY <3>2, <3>4
      <3> QED
        BY <3>1, <3>2, <3>3, <3>4, <3>5 DEF len
    <2>2. IsEnds(ChunkEnds(data, delim, chunk_size), len)
      BY <2>1, ChunkEndsAreEnds
    <2>3. PICK w \in [0..len -> Seq(Pair)] : IsWalk(w, ChunkEnds(data, delim, chunk_size), len)
      <3> DEFINE e == ChunkEnds(data, delim, chunk_size)
      <3> HIDE DEF e
      <3>1. IsEnds(e, len)
        BY <2>2 DEF e
      <3>2. \E w \in [0..len -> Seq(Pair)] : IsWalk(w, e, len)
        BY <2>1, <3>1, WalkExists
      <3> QED
        BY <3>2 DEF e
    <2>4. scalar_pattern_boundaries(data, chunk_size, delim) = w[0]
      BY <2>1, <2>3, ScalarPatternBoundaries DEF len
    <2>5. scalar_pattern(data, chunk_size, delim) = w[0]
      BY <2>1, <2>3, ScalarPattern DEF len
    <2>6. naive_pattern_boundaries(data, chunk_size, delim) = w[0]
      BY <2>1, <2>3, NaivePatternBoundaries DEF len
    <2>7. Len(delim) = 1 => scalar_single_byte_boundaries(data, chunk_size, delim[1]) = w[0]
      BY <2>1, <2>3, ScalarSingleByteBoundaries DEF len
    <2>8. Len(delim) = 1 => scalar_single(data, chunk_size, delim[1]) = w[0]
      BY <2>1, <2>3, ScalarSingle DEF len
    <2>9. start >= len => chunks = w[0] /\ assert_cover(data, chunks)
      <3> SUFFICES ASSUME start >= len PROVE chunks = w[0] /\ assert_cover(data, chunks)
        OBVIOUS
      <3>1. start = len
        BY <2>1
      <3>2. chunks = w[0]
        BY <2>1, <2>3, <3>1, TiledIsWalk
      <3>3. CASE data = <<>>
        <4>1. len = 0
          BY <3>3 DEF len
        <4>2. chunks \in Seq(Nat \X Nat) /\ Len(chunks) \in Nat
          BY <2>1 DEF Tiled
        <4>3. 0 \in 0..Len(chunks)
          BY <4>2
        <4>4. Len(chunks) - 0 <= start - EndOf(chunks, 0)
          BY <2>1, <4>3 DEF Tiled
        <4>5. chunks = <<>>
          BY <3>1, <4>1, <4>2, <4>4 DEF EndOf
        <4> QED
          BY <3>2, <3>3, <4>5 DEF assert_cover
      <3>4. CASE data # <<>>
        <4>1. len > 0
          BY <2>1, <3>4 DEF len
        <4>2. chunks # <<>>
          BY <3>1, <4>1, <2>1 DEF ChunksTile
        <4>3. Covers(chunks, len)
          BY <3>1, <4>2 DEF ChunksTile
        <4> QED
          BY <3>2, <3>4, <4>3 DEF assert_cover, len
      <3> QED
        BY <3>3, <3>4
    <2>10. is_empty => yielded = w[0] /\ position = len /\ size_hint = <<0, 0>>
      <3> SUFFICES ASSUME is_empty PROVE yielded = w[0] /\ position = len /\ size_hint = <<0, 0>>
        OBVIOUS
      <3>1. position = len
        BY <2>1 DEF is_empty
      <3>2. yielded = w[0]
        BY <2>1, <2>3, <3>1, TiledIsWalk
      <3> QED
        BY <3>1, <3>2 DEF size_hint
    <2> QED
      BY <2>4, <2>5, <2>6, <2>7, <2>8, <2>9, <2>10
         DEF MatchesScalarOracles, cursor_ranges, pattern_cursor_ranges, fuzz_single, fuzz_pattern
  <1> QED
    BY <1>1, ChunkInvariant, ScanTiles, PTL
------------------------------------------------------------------------------
(* The search: numbers, powers of two and sums.                            *)

(* Upwards from 0: what passes from each number to the next holds of every *)
(* number up to n.                                                         *)
LEMMA Upward ==
    ASSUME NEW n \in Nat, NEW S, 0 \in S, \A k \in 0..(n - 1) : k \in S => k + 1 \in S
    PROVE  \A k \in 0..n : k \in S
  <1> DEFINE Out == {k \in 0..n : k \notin S}
  <1> SUFFICES ASSUME Out # {} PROVE FALSE
    OBVIOUS
  <1>1. PICK k \in Out : \A q \in Out : k <= q
    <2>1. Out \in SUBSET Nat
      OBVIOUS
    <2> HIDE DEF Out
    <2> QED
      BY <2>1, LeastExists
  <1>2. k \in 0..n /\ k \notin S /\ k # 0
    OBVIOUS
  <1>3. k - 1 \in 0..(n - 1) /\ k - 1 \in 0..n /\ (k - 1) + 1 = k /\ ~(k <= k - 1)
    BY <1>2
  <1>4. k - 1 \in S
    BY <1>1, <1>3
  <1> QED
    BY <1>2, <1>3, <1>4

(* Powers of two count the subsets of a set. *)
LEMMA PowCounts ==
    ASSUME NEW n \in Nat
    PROVE  IsFiniteSet(SUBSET (1..n)) /\ Cardinality(SUBSET (1..n)) = 2^n
  <1>1. IsFiniteSet(1..n) /\ Cardinality(1..n) = n
    BY FS_Interval
  <1> QED
    BY <1>1, FS_SUBSET

LEMMA PowIsPositive ==
    ASSUME NEW n \in Nat
    PROVE  2^n \in Nat /\ 2^n > 0
  <1>1. IsFiniteSet(SUBSET (1..n)) /\ Cardinality(SUBSET (1..n)) = 2^n
    BY PowCounts
  <1>2. SUBSET (1..n) # {}
    <2>1. {} \in SUBSET (1..n)
      OBVIOUS
    <2> QED
      BY <2>1
  <1>3. Cardinality(SUBSET (1..n)) \in Nat
    BY <1>1, FS_CardinalityType
  <1>4. Cardinality(SUBSET (1..n)) # 0
    BY <1>1, <1>2, FS_EmptySet
  <1> QED
    BY <1>1, <1>3, <1>4

(* Of the subsets of 1..(n + 1), half contain n + 1. *)
LEMMA PowStep ==
    ASSUME NEW n \in Nat
    PROVE  2^(n + 1) = 2 * 2^n
  <1> DEFINE A == SUBSET (1..n)
             C == {T \in SUBSET (1..(n + 1)) : n + 1 \in T}
             f == [T \in A |-> T \cup {n + 1}]
  <1>1. IsFiniteSet(A) /\ Cardinality(A) = 2^n
    BY PowCounts
  <1>2. Cardinality(SUBSET (1..(n + 1))) = 2^(n + 1)
    BY PowCounts
  <1>3. 1..(n + 1) = (1..n) \cup {n + 1} /\ n + 1 \notin 1..n
    OBVIOUS
  <1> DEFINE N == 1..n
             v == n + 1
  <1> HIDE DEF N, v
  <1>4. SUBSET (N \cup {v}) = (SUBSET N) \cup {T \in SUBSET (N \cup {v}) : v \in T}
    OBVIOUS
  <1>5. v \notin N => (SUBSET N) \cap {T \in SUBSET (N \cup {v}) : v \in T} = {}
    OBVIOUS
  <1>6. v \notin N => [T \in SUBSET N |-> T \cup {v}]
                        \in Bijection(SUBSET N, {T \in SUBSET (N \cup {v}) : v \in T})
    <2> SUFFICES ASSUME v \notin N
                 PROVE  [T \in SUBSET N |-> T \cup {v}]
                          \in Bijection(SUBSET N, {T \in SUBSET (N \cup {v}) : v \in T})
      OBVIOUS
    <2> DEFINE K == {T \in SUBSET (N \cup {v}) : v \in T}
               g == [T \in SUBSET N |-> T \cup {v}]
    <2>1. g \in [SUBSET N -> K]
      OBVIOUS
    <2>2. \A S, T \in SUBSET N : g[S] = g[T] => S = T
      <3> SUFFICES ASSUME NEW S \in SUBSET N, NEW T \in SUBSET N, S \cup {v} = T \cup {v}
                   PROVE  S = T
        OBVIOUS
      <3>1. S = (S \cup {v}) \ {v} /\ T = (T \cup {v}) \ {v}
        OBVIOUS
      <3> QED
        BY <3>1
    <2>3. \A U \in K : \E T \in SUBSET N : g[T] = U
      <3> SUFFICES ASSUME NEW U \in K PROVE \E T \in SUBSET N : g[T] = U
        OBVIOUS
      <3>1. U \ {v} \in SUBSET N /\ (U \ {v}) \cup {v} = U
        OBVIOUS
      <3> QED
        BY <3>1
    <2> HIDE DEF g, K
    <2>4. g \in Bijection(SUBSET N, K)
      BY <2>1, <2>2, <2>3, Fun_IsBij, Zenon
    <2> QED
      BY <2>4 DEF g, K
  <1>7. SUBSET (1..(n + 1)) = A \cup C /\ A \cap C = {} /\ ExistsBijection(A, C)
    <2>1. n + 1 = v /\ 1..n = N
      BY DEF N, v
    <2>2. 1..v = N \cup {v} /\ v \notin N
      BY <1>3 DEF N, v
    <2>3. A = SUBSET N /\ C = {T \in SUBSET (N \cup {v}) : v \in T}
      BY <2>1, <2>2
    <2>4. ExistsBijection(SUBSET N, {T \in SUBSET (N \cup {v}) : v \in T})
      BY <1>6, <2>2, Zenon DEF ExistsBijection
    <2> HIDE DEF A, C
    <2>5. SUBSET (1..(n + 1)) = SUBSET (N \cup {v})
      BY <2>1, <2>2
    <2>6. SUBSET (1..(n + 1)) = A \cup C
      BY <1>4, <2>3, <2>5, Zenon
    <2>7. A \cap C = {}
      BY <1>5, <2>2, <2>3, Zenon
    <2>8. ExistsBijection(A, C)
      BY <2>3, <2>4, Zenon
    <2> QED
      BY <2>6, <2>7, <2>8
  <1> HIDE DEF A, C
  <1>8. IsFiniteSet(C) /\ Cardinality(C) = 2^n
    BY <1>1, <1>7, FS_Bijection
  <1>9. Cardinality(A \cup C) = 2^n + 2^n - 0
    BY <1>1, <1>7, <1>8, FS_Union, FS_EmptySet, ZenonT(60)
  <1>10. 2^(n + 1) = 2^n + 2^n - 0
    BY <1>2, <1>7, <1>9, Zenon
  <1>11. 2^n \in Nat
    BY PowIsPositive
  <1> QED
    BY <1>10, <1>11

LEMMA PowZero == 2^0 = 1
  OBVIOUS

LEMMA DoubleProduct == \A x, y \in Nat : 2 * (x * y) = x * (2 * y)
  BY SMT

LEMMA PowAdd ==
    ASSUME NEW a \in Nat, NEW b \in Nat
    PROVE  2^(a + b) = 2^a * 2^b
  <1> DEFINE S == {k \in Nat : 2^(a + k) = 2^a * 2^k}
  <1>1. 0 \in S
    <2>1. a + 0 = a /\ 2^a \in Nat
      BY PowIsPositive
    <2> QED
      BY <2>1, PowZero
  <1>2. ASSUME NEW k \in 0..(b - 1), k \in S PROVE k + 1 \in S
    <2>1. 2^(a + k) = 2^a * 2^k /\ a + k \in Nat /\ k \in Nat /\ a + (k + 1) = (a + k) + 1
      BY <1>2
    <2>2. 2^((a + k) + 1) = 2 * 2^(a + k) /\ 2^(k + 1) = 2 * 2^k
      BY <2>1, PowStep
    <2>3. 2 * (2^a * 2^k) = 2^a * (2 * 2^k)
      BY <2>1, PowIsPositive, DoubleProduct
    <2> QED
      BY <2>1, <2>2, <2>3
  <1>3. b \in S
    <2>1. b \in 0..b
      OBVIOUS
    <2> HIDE DEF S
    <2> QED
      BY <1>1, <1>2, <2>1, Upward
  <1> QED
    BY <1>3
------------------------------------------------------------------------------
(* Sums: f[k] is the sum of the first k of n terms. *)
IsSum(f, t, n) == f = [k \in 0..n |-> IF k = 0 THEN 0 ELSE f[k - 1] + t[k - 1]]

LEMMA SumSteps ==
    ASSUME NEW n \in Nat, NEW t \in [0..(n - 1) -> Nat], NEW f, IsSum(f, t, n)
    PROVE  /\ f[0] = 0
           /\ \A k \in 0..(n - 1) : f[k + 1] = f[k] + t[k]
           /\ \A k \in 0..n : f[k] \in Nat
  <1>1. \A k \in 0..n : f[k] = IF k = 0 THEN 0 ELSE f[k - 1] + t[k - 1]
    BY Zenon DEF IsSum
  <1>2. f[0] = 0
    BY <1>1
  <1>3. ASSUME NEW k \in 0..(n - 1) PROVE f[k + 1] = f[k] + t[k]
    <2>1. k + 1 \in 0..n /\ k + 1 # 0 /\ (k + 1) - 1 = k
      OBVIOUS
    <2> QED
      BY <1>1, <2>1
  <1> DEFINE S == {k \in Nat : f[k] \in Nat}
  <1>4. ASSUME NEW k \in 0..(n - 1), k \in S PROVE k + 1 \in S
    BY <1>3, <1>4
  <1>5. \A k \in 0..n : k \in S
    <2>1. 0 \in S
      BY <1>2
    <2> HIDE DEF S
    <2> QED
      BY <1>4, <2>1, Upward
  <1> QED
    BY <1>2, <1>3, <1>5

LEMMA SumExists ==
    ASSUME NEW n \in Nat, NEW t \in [0..(n - 1) -> Nat]
    PROVE  \E f : IsSum(f, t, n)
  <1> DEFINE S == {m \in Nat : \E f : IsSum(f, t, m)}
  <1>1. 0 \in S
    <2> DEFINE z == [k \in 0..0 |-> 0]
    <2>1. \A k \in 0..0 : k = 0
      OBVIOUS
    <2>2. IsSum(z, t, 0)
      BY <2>1 DEF IsSum
    <2> HIDE DEF z
    <2> QED
      BY <2>2
  <1>2. ASSUME NEW m \in 0..(n - 1), m \in S PROVE m + 1 \in S
    <2>1. PICK f : IsSum(f, t, m)
      BY <1>2
    <2> DEFINE g == [k \in 0..(m + 1) |-> IF k = m + 1 THEN f[m] + t[m] ELSE f[k]]
    <2>2. \A k \in 0..m : f[k] = IF k = 0 THEN 0 ELSE f[k - 1] + t[k - 1]
      BY <2>1, Zenon DEF IsSum
    <2>3. ASSUME NEW k \in 0..(m + 1)
          PROVE  g[k] = IF k = 0 THEN 0 ELSE g[k - 1] + t[k - 1]
      <3>1. CASE k = m + 1
        <4>1. k # 0 /\ k - 1 = m /\ m \in 0..(m + 1) /\ m # m + 1
          BY <3>1
        <4>2. g[k] = f[m] + t[m] /\ g[m] = f[m]
          BY <3>1, <4>1
        <4> QED
          BY <4>1, <4>2
      <3>2. CASE k # m + 1
        <4>1. k \in 0..m /\ g[k] = f[k]
          BY <3>2
        <4>2. k # 0 => k - 1 \in 0..(m + 1) /\ k - 1 # m + 1
          BY <4>1
        <4>3. k # 0 => g[k - 1] = f[k - 1]
          BY <4>2
        <4> QED
          BY <2>2, <4>1, <4>3
      <3> QED
        BY <3>1, <3>2
    <2>4. g = [k \in 0..(m + 1) |-> g[k]]
      OBVIOUS
    <2> HIDE DEF g
    <2>5. IsSum(g, t, m + 1)
      BY <2>3, <2>4, Zenon DEF IsSum
    <2> QED
      BY <2>5
  <1>3. n \in S
    <2>1. n \in 0..n
      OBVIOUS
    <2> HIDE DEF S
    <2> QED
      BY <1>1, <1>2, <2>1, Upward
  <1> QED
    BY <1>3
------------------------------------------------------------------------------
(* Quotient and remainder are the ones their bounds determine. *)
LEMMA DivisionIs ==
    ASSUME NEW d \in Nat, d > 0, NEW q \in Nat, NEW r \in 0..(d - 1), NEW a \in Nat, a = d * q + r
    PROVE  a \div d = q /\ a % d = r
  <1>1. (a \div d) \in Nat /\ d * (a \div d) <= a /\ a < d * (a \div d) + d
    BY QuotientIs
  <1> DEFINE p == a \div d
  <1>2. ~(p > q)
    <2>1. p > q => d * p >= d * (q + 1) /\ d * (q + 1) = d * q + d
      BY <1>1, ScaleMonotone
    <2> HIDE DEF p
    <2> QED
      BY <1>1, <2>1 DEF p
  <1>3. ~(p < q)
    <2>1. p < q => d * q >= d * (p + 1) /\ d * (p + 1) = d * p + d
      BY <1>1, ScaleMonotone
    <2> HIDE DEF p
    <2> QED
      BY <1>1, <2>1 DEF p
  <1>4. p = q
    BY <1>1, <1>2, <1>3
  <1>5. a = d * (a \div d) + (a % d) /\ a % d \in Nat
    BY SMT
  <1> QED
    BY <1>4, <1>5

(* The top bit of the digit at the place of weight P. *)
TopIs(y, P, H, set) == (y \div (P * H)) % 2 = IF set THEN 1 ELSE 0

(* The top bit of the place is the top bit of the digit there: y has  the digit b   *)
(* above r, which is below the place's weight P, and q above it.           *)
LEMMA TopOfDigit ==
    ASSUME NEW P \in Nat, P > 0, NEW H \in Nat, H > 0,
           NEW r \in 0..(P - 1), NEW b \in 0..(2 * H - 1), NEW q \in Nat,
           NEW y \in Nat, y = r + P * b + (P * (2 * H)) * q
    PROVE  TopIs(y, P, H, b >= H)
  <1>1. PICK h \in {0, 1} : (h = 1 <=> b >= H) /\ b - h * H \in 0..(H - 1)
    <2>1. CASE b >= H
      BY <2>1
    <2>2. CASE b < H
      BY <2>2
    <2> QED
      BY <2>1, <2>2
  <1> DEFINE c == b - h * H
             M == P * H
  <1>2. c \in Nat /\ c <= H - 1 /\ b = c + h * H
    BY <1>1
  <1>3. M \in Nat /\ M > 0
    BY SMT
  <1>4. P * c \in Nat /\ P * c <= P * (H - 1) /\ P * (H - 1) = M - P
    <2>1. P * (H - 1) >= P * c
      BY <1>2, ScaleMonotone
    <2>2. P * (H - 1) = P * H - P
      BY SMT
    <2>3. P * c \in Nat
      BY <1>2, SMT
    <2> QED
      BY <1>2, <2>1, <2>2, <2>3
  <1>5. P * b = P * c + M * h
    <2>1. CASE h = 0
      BY <1>2, <2>1
    <2>2. CASE h = 1
      BY <1>2, <2>2
    <2> QED
      BY <2>1, <2>2
  <1>6. (P * (2 * H)) * q = M * (2 * q)
    BY SMT
  <1>7. M * (h + 2 * q) = M * h + M * (2 * q) /\ M * h \in Int /\ M * (2 * q) \in Int
    BY SMT
  <1>8. r + P * c \in 0..(M - 1)
    <2> HIDE DEF M, c
    <2> QED
      BY <1>2, <1>3, <1>4
  <1>9. y = M * (h + 2 * q) + (r + P * c)
    <2> HIDE DEF M, c
    <2> QED
      BY <1>4, <1>5, <1>6, <1>7
  <1>10. y \div M = h + 2 * q
    <2>1. h + 2 * q \in Nat
      OBVIOUS
    <2> DEFINE Q == h + 2 * q
               R == r + P * c
    <2> HIDE DEF M, c, Q, R
    <2>2. y \div M = Q
      BY <1>3, <1>8, <1>9, <2>1, DivisionIs DEF Q, R
    <2> QED
      BY <2>2 DEF Q
  <1>11. (h + 2 * q) % 2 = h
    BY SMT
  <1> QED
    BY <1>1, <1>10, <1>11 DEF TopIs
------------------------------------------------------------------------------
(* The weight of byte k in a word, and the weight of a byte's top bit.     *)
Weight(k) == 2^(ByteBits * k)
Base == 2^ByteBits
Half == 2^(ByteBits - 1)

LEMMA Weights ==
    /\ Half \in Nat /\ Half > 0 /\ Base = 2 * Half
    /\ Weight(0) = 1
    /\ \A k \in Nat : /\ Weight(k) \in Nat /\ Weight(k) > 0
                      /\ Weight(k + 1) = Weight(k) * (2 * Half)
                      /\ 2^(ByteBits * (k + 1) - 1) = Weight(k) * Half
  <1>0. ByteBits \in Nat /\ ByteBits > 0 /\ ByteBits - 1 \in Nat
    BY SearchAssumption
  <1>1. Half \in Nat /\ Half > 0 /\ Base = 2 * Half
    <2>1. 2^((ByteBits - 1) + 1) = 2 * 2^(ByteBits - 1) /\ (ByteBits - 1) + 1 = ByteBits
      BY <1>0, PowStep
    <2> QED
      BY <1>0, <2>1, PowIsPositive DEF Half, Base
  <1>2. Weight(0) = 1
    <2>1. ByteBits * 0 = 0
      BY <1>0
    <2> QED
      BY <2>1, PowZero DEF Weight
  <1>3. ASSUME NEW k \in Nat
        PROVE  /\ Weight(k) \in Nat /\ Weight(k) > 0
               /\ Weight(k + 1) = Weight(k) * (2 * Half)
               /\ 2^(ByteBits * (k + 1) - 1) = Weight(k) * Half
    <2>1. ByteBits * k \in Nat /\ ByteBits * (k + 1) = ByteBits * k + ByteBits
      BY <1>0, SMT
    <2>2. Weight(k) \in Nat /\ Weight(k) > 0
      BY <2>1, PowIsPositive DEF Weight
    <2>3. Weight(k + 1) = Weight(k) * Base
      BY <1>0, <2>1, PowAdd DEF Weight, Base
    <2>4. ByteBits * (k + 1) - 1 = ByteBits * k + (ByteBits - 1)
      <3> DEFINE b == ByteBits * k
      <3> HIDE DEF b
      <3>1. b \in Nat /\ ByteBits * (k + 1) = b + ByteBits
        BY <2>1 DEF b
      <3>2. ByteBits * (k + 1) - 1 = b + (ByteBits - 1)
        BY <1>0, <3>1
      <3> QED
        BY <3>2 DEF b
    <2>5. 2^(ByteBits * (k + 1) - 1) = Weight(k) * Half
      BY <1>0, <2>1, <2>4, PowAdd DEF Weight, Half
    <2> QED
      BY <1>1, <2>2, <2>3, <2>5
  <1> QED
    BY <1>1, <1>2, <1>3

WordIndex == 0..(WordBytes - 1)
Digits == [WordIndex -> 0..(2 * Half - 1)]

(* The terms of a word's sum. *)
Terms(b) == [k \in WordIndex |-> b[k] * Weight(k)]

LEMMA TermsAre ==
    ASSUME NEW b \in Digits
    PROVE  Terms(b) \in [WordIndex -> Nat]
  <1>1. ASSUME NEW k \in WordIndex PROVE b[k] * Weight(k) \in Nat
    <2>1. k \in Nat
      BY DEF WordIndex
    <2>2. Weight(k) \in Nat
      BY <2>1, Weights
    <2>3. b[k] \in Nat
      <3>1. b[k] \in 0..(2 * Half - 1)
        BY DEF Digits
      <3> QED
        BY <3>1
    <2> QED
      BY <2>2, <2>3, SMT
  <1> QED
    BY <1>1 DEF Terms

(* FromBytes is the sum of its terms. *)
LEMMA WordIsSum ==
    ASSUME NEW b \in Digits
    PROVE  \E s : IsSum(s, Terms(b), WordBytes) /\ FromBytes(b) = s[WordBytes]
  <1> DEFINE W == WordBytes
             F(f) == [k \in 0..W |-> IF k = 0 THEN 0 ELSE f[k - 1] + b[k - 1] * 2^(ByteBits * (k - 1))]
             s == CHOOSE f : f = F(f)
  <1>0. W \in Nat /\ W > 0
    BY SearchAssumption
  <1>1. FromBytes(b) = s[W]
    BY DEF FromBytes
  <1>2. ASSUME NEW k \in 0..W, k # 0
        PROVE  b[k - 1] * 2^(ByteBits * (k - 1)) = Terms(b)[k - 1]
    <2>1. k - 1 \in WordIndex
      BY <1>0, <1>2 DEF WordIndex
    <2> QED
      BY <2>1 DEF Terms, Weight
  <1>3. \A f : f = F(f) <=> IsSum(f, Terms(b), W)
    <2> SUFFICES ASSUME NEW f PROVE f = F(f) <=> IsSum(f, Terms(b), W)
      OBVIOUS
    <2> DEFINE G == [k \in 0..W |-> IF k = 0 THEN 0 ELSE f[k - 1] + Terms(b)[k - 1]]
    <2>1. F(f) = G
      BY <1>2, Zenon
    <2> HIDE DEF F
    <2> QED
      BY <2>1, Zenon DEF IsSum
  <1> HIDE DEF F
  <1>4. \E f : IsSum(f, Terms(b), W)
    BY <1>0, TermsAre, SumExists DEF WordIndex
  <1>5. s = F(s)
    BY <1>3, <1>4
  <1> HIDE DEF s
  <1>6. IsSum(s, Terms(b), W)
    BY <1>3, <1>5, Zenon
  <1> QED
    BY <1>1, <1>6 DEF W

(* The first k bytes of a word are below the weight of byte k, and the     *)
(* whole is those, byte k, and a multiple of the weight of byte k + 1.     *)
LEMMA WordSplits ==
    ASSUME NEW b \in Digits, NEW s, IsSum(s, Terms(b), WordBytes)
    PROVE  /\ s[0] = 0
           /\ \A k \in WordIndex : s[k + 1] = s[k] + b[k] * Weight(k)
           /\ \A k \in 0..WordBytes : s[k] \in 0..(Weight(k) - 1)
           /\ \A k \in WordIndex : \E q \in Nat :
                s[WordBytes] = s[k] + Weight(k) * b[k] + (Weight(k) * (2 * Half)) * q
  <1> DEFINE W == WordBytes
  <1>0. W \in Nat /\ W > 0
    BY SearchAssumption
  <1>1. /\ s[0] = 0
        /\ \A k \in 0..(W - 1) : s[k + 1] = s[k] + Terms(b)[k]
        /\ \A k \in 0..W : s[k] \in Nat
    <2>1. Terms(b) \in [0..(W - 1) -> Nat]
      BY TermsAre DEF WordIndex
    <2> QED
      BY <1>0, <2>1, SumSteps
  <1>2. ASSUME NEW k \in WordIndex
        PROVE  /\ k \in Nat /\ k \in 0..W /\ k + 1 \in 0..W /\ b[k] \in 0..(2 * Half - 1)
               /\ s[k + 1] = s[k] + b[k] * Weight(k)
    BY <1>0, <1>1 DEF WordIndex, Digits, Terms
  <1> DEFINE S == {k \in Nat : s[k] \in 0..(Weight(k) - 1)}
  <1>3. 0 \in S
    BY <1>1, Weights
  <1>4. ASSUME NEW k \in 0..(W - 1), k \in S PROVE k + 1 \in S
    <2> DEFINE w == Weight(k)
               n == Weight(k + 1)
    <2>1. k \in Nat /\ s[k] \in 0..(w - 1) /\ b[k] \in 0..(2 * Half - 1) /\ s[k + 1] = s[k] + b[k] * w
      BY <1>2, <1>4 DEF WordIndex
    <2>2. w \in Nat /\ w > 0 /\ Half \in Nat /\ Half > 0 /\ n = w * (2 * Half)
      BY <2>1, Weights
    <2> HIDE DEF w, n
    <2>3. w * (2 * Half - 1) >= w * b[k]
      BY <2>1, <2>2, ScaleMonotone
    <2>4. w * (2 * Half - 1) = n - w /\ w * b[k] = b[k] * w /\ b[k] * w \in Nat /\ n \in Nat
      BY <2>1, <2>2, SMT
    <2>5. s[k + 1] \in 0..(n - 1)
      BY <2>1, <2>2, <2>3, <2>4
    <2> QED
      BY <2>1, <2>5 DEF n
  <1>5. \A k \in 0..W : s[k] \in 0..(Weight(k) - 1)
    <2> HIDE DEF S
    <2>1. \A k \in 0..W : k \in S
      BY <1>0, <1>3, <1>4, Upward
    <2> QED
      BY <2>1 DEF S
  <1> DEFINE Above(k, q) == s[W] = s[k] + Weight(k) * q
             D == {k \in 0..W : \E q \in Nat : Above(k, q)}
  <1>6. W \in D
    <2>1. Weight(W) * 0 = 0 /\ s[W] \in Nat /\ W \in 0..W
      BY <1>0, <1>1, Weights
    <2>2. Above(W, 0)
      BY <2>1
    <2> QED
      BY <2>1, <2>2
  <1>7. ASSUME NEW k \in WordIndex, NEW q \in Nat, Above(k + 1, q)
        PROVE  /\ Above(k, b[k] + (2 * Half) * q) /\ b[k] + (2 * Half) * q \in Nat
               /\ s[W] = s[k] + Weight(k) * b[k] + (Weight(k) * (2 * Half)) * q
    <2> DEFINE w == Weight(k)
               n == Weight(k + 1)
               x == s[W]
               y == s[k]
               z == s[k + 1]
    <2>1. z = y + b[k] * w /\ y \in Nat /\ b[k] \in Nat /\ k \in Nat /\ x = z + n * q
      BY <1>1, <1>2, <1>7
    <2>2. w \in Nat /\ Half \in Nat /\ n = w * (2 * Half)
      BY <2>1, Weights
    <2> HIDE DEF w, n, x, y, z
    <2>3. w * (b[k] + (2 * Half) * q) = w * b[k] + (w * (2 * Half)) * q
          /\ b[k] * w = w * b[k] /\ w * b[k] \in Nat /\ (w * (2 * Half)) * q \in Nat
          /\ b[k] + (2 * Half) * q \in Nat
      BY <2>1, <2>2, SMT
    <2>4. x = y + w * b[k] + (w * (2 * Half)) * q
      BY <2>1, <2>2, <2>3
    <2>5. x = y + w * (b[k] + (2 * Half) * q)
      BY <2>1, <2>3, <2>4
    <2> QED
      BY <2>3, <2>4, <2>5 DEF w, x, y
  <1>8. ASSUME NEW k \in 0..(W - 1), \A m \in (k + 1)..W : m \in D PROVE k \in D
    <2>1. k \in WordIndex /\ k + 1 \in (k + 1)..W /\ k \in 0..W
      BY <1>0 DEF WordIndex
    <2>2. PICK q \in Nat : Above(k + 1, q)
      BY <1>8, <2>1
    <2> HIDE DEF Above
    <2> QED
      BY <1>7, <2>1, <2>2
  <1>9. D = 0..W
    <2>1. D \in SUBSET (0..W)
      OBVIOUS
    <2> HIDE DEF D
    <2> QED
      BY <1>0, <1>6, <1>8, <2>1, Downward
  <1>10. ASSUME NEW k \in WordIndex
         PROVE  \E q \in Nat : s[W] = s[k] + Weight(k) * b[k] + (Weight(k) * (2 * Half)) * q
    <2>1. k + 1 \in D
      BY <1>2, <1>9
    <2>2. PICK q \in Nat : Above(k + 1, q)
      BY <2>1
    <2> HIDE DEF Above
    <2> QED
      BY <1>7, <2>2
  <1> QED
    BY <1>1, <1>2, <1>5, <1>10
------------------------------------------------------------------------------
(* A word below the weight of one byte more; its top bits are its bytes'.  *)
LEMMA WordTop ==
    ASSUME NEW b \in Digits
    PROVE  /\ FromBytes(b) \in 0..(WordSize - 1)
           /\ \A k \in WordIndex : TopBit(FromBytes(b), k) = IF b[k] >= Half THEN 1 ELSE 0
  <1> DEFINE W == WordBytes
             x == FromBytes(b)
  <1>0. W \in Nat /\ W > 0 /\ WordSize = Weight(W)
    BY SearchAssumption DEF WordSize, Weight
  <1>1. PICK s : IsSum(s, Terms(b), W) /\ x = s[W]
    BY WordIsSum
  <1>2. /\ \A k \in 0..W : s[k] \in 0..(Weight(k) - 1)
        /\ \A k \in WordIndex : \E q \in Nat :
             s[W] = s[k] + Weight(k) * b[k] + (Weight(k) * (2 * Half)) * q
    BY <1>1, WordSplits
  <1>3. x \in 0..(WordSize - 1)
    <2>1. W \in 0..W
      BY <1>0
    <2> QED
      BY <1>0, <1>1, <1>2, <2>1
  <1>4. ASSUME NEW k \in WordIndex
        PROVE  TopBit(x, k) = IF b[k] >= Half THEN 1 ELSE 0
    <2>1. k \in Nat /\ k \in 0..W
      BY <1>0 DEF WordIndex
    <2>2. PICK q \in Nat : x = s[k] + Weight(k) * b[k] + (Weight(k) * (2 * Half)) * q
      BY <1>1, <1>2
    <2>3. /\ Weight(k) \in Nat /\ Weight(k) > 0 /\ Half \in Nat /\ Half > 0
          /\ 2^(ByteBits * (k + 1) - 1) = Weight(k) * Half
      BY <2>1, Weights
    <2>4. s[k] \in 0..(Weight(k) - 1) /\ b[k] \in 0..(2 * Half - 1) /\ x \in Nat
      BY <1>2, <1>3, <2>1 DEF Digits
    <2> HIDE DEF x
    <2>5. TopIs(x, Weight(k), Half, b[k] >= Half)
      BY <2>2, <2>3, <2>4, TopOfDigit
    <2> QED
      BY <2>3, <2>5 DEF TopBit, Bit, TopIs
  <1> QED
    BY <1>3, <1>4

(* A number of which a digit is left when a multiple m of its place is     *)
(* taken off is not below 0 only if the multiple is not.                   *)
LEMMA Carried ==
    ASSUME NEW M \in Nat, M > 0, NEW a \in Int, a < M, NEW m \in Int, NEW y \in Nat, y = a + M * m
    PROVE  m \in Nat
  <1>1. M * m \in Int /\ M * (-1 - m) \in Int /\ M * (-1 - m) = -M - M * m
    BY SMT
  <1>2. m < 0 => M * (-1 - m) >= M * 0
    <2>1. m < 0 => -1 - m \in Nat /\ -1 - m >= 0
      OBVIOUS
    <2> QED
      BY <2>1, ScaleMonotone
  <1>3. M * 0 = 0
    OBVIOUS
  <1> QED
    BY <1>1, <1>2, <1>3

(* The top bit of byte k of x - y modulo n * M, when the first k bytes of  *)
(* x are not below those of y: no borrow has reached byte k.               *)
LEMMA TopOfDifference ==
    ASSUME NEW P \in Nat, P > 0, NEW H \in Nat, H > 0,
           NEW r \in 0..(P - 1), NEW t \in 0..(P - 1), t <= r,
           NEW b \in 0..(2 * H - 1), NEW q \in Nat, NEW u \in Nat, NEW n \in Nat,
           NEW size \in Nat, size = (P * (2 * H)) * n,
           NEW x \in 0..(size - 1), x = r + P * b + (P * (2 * H)) * q,
           NEW y \in 0..(size - 1), y = t + P * 1 + (P * (2 * H)) * u
    PROVE  TopIs((x - y + size) % size, P, H, b = 0 \/ b - 1 >= H)
  <1> DEFINE M == P * (2 * H)
             z == (x - y + size) % size
  <1>1. M \in Nat /\ M > 0
    BY SMT
  <1>2. PICK j \in {0, 1} : z = x - y + j * size /\ z \in Nat
    <2> HIDE DEF M
    <2>1. CASE x >= y
      <3>1. x - y \in 0..(size - 1) /\ x - y + size \in Nat /\ x - y + size = size * 1 + (x - y) /\ size > 0
        BY <2>1
      <3> DEFINE d == x - y
                 e == x - y + size
      <3> HIDE DEF d, e
      <3>2. e % size = d
        <4>1. d \in 0..(size - 1) /\ e \in Nat /\ e = size * 1 + d
          BY <3>1 DEF d, e
        <4> QED
          BY <3>1, <4>1, DivisionIs
      <3>3. z = x - y + 0 * size /\ z \in Nat
        BY <3>1, <3>2 DEF d, e
      <3> QED
        BY <3>3
    <2>2. CASE x < y
      <3>1. x - y + size \in 0..(size - 1) /\ x - y + size = size * 0 + (x - y + size) /\ size > 0
        BY <2>2
      <3> DEFINE e == x - y + size
      <3> HIDE DEF e
      <3>2. e % size = e
        <4>1. e \in 0..(size - 1) /\ e \in Nat /\ e = size * 0 + e
          BY <3>1 DEF e
        <4> QED
          BY <3>1, <4>1, DivisionIs
      <3>3. z = x - y + 1 * size /\ z \in Nat
        BY <3>1, <3>2 DEF e
      <3> QED
        BY <3>3
    <2> QED
      BY <2>1, <2>2
  <1> HIDE DEF z
  <1> DEFINE g == q - u + j * n
             d == r - t
  <1>3. d \in 0..(P - 1) /\ g \in Int
    <2>1. j * n \in Int
      BY SMT
    <2> QED
      BY <2>1
  <1>4. M * g = M * q - M * u + j * size /\ M * q \in Int /\ M * u \in Int /\ j * size \in Int
    <2>1. CASE j = 0
      BY <1>1, <2>1, SMT
    <2>2. CASE j = 1
      BY <1>1, <2>2, SMT
    <2> QED
      BY <2>1, <2>2
  <1>5. P * b \in Int /\ M * g \in Int /\ z = d + (P * b - P) + M * g
    <2>1. P * b \in Int /\ P * 1 = P
      BY SMT
    <2>2. x = r + P * b + M * q /\ y = t + P + M * u
      BY <2>1
    <2>3. M * g \in Int
      BY <1>1, <1>3, SMT
    <2> HIDE DEF M, g
    <2> QED
      BY <1>2, <1>4, <2>1, <2>2, <2>3
  <1>6. CASE b # 0
    <2> DEFINE c == b - 1
    <2>1. c \in 0..(2 * H - 1) /\ P * c = P * b - P /\ P * c \in Int
      BY <1>6, SMT
    <2>2. P * c <= M - P - P
      <3>1. P * (2 * H - 2) >= P * c
        <4>1. 2 * H - 2 \in Nat /\ c \in Nat /\ 2 * H - 2 >= c
          BY <1>6
        <4> HIDE DEF c
        <4> QED
          BY <4>1, ScaleMonotone
      <3>2. P * (2 * H - 2) = M - P - P
        BY SMT
      <3> QED
        BY <3>1, <3>2
    <2> HIDE DEF M, g, d, c
    <2>3. z = (d + P * c) + M * g /\ d + P * c < M /\ d + P * c \in Int
      BY <1>1, <1>3, <1>5, <2>1, <2>2
    <2>4. g \in Nat
      BY <1>1, <1>2, <1>3, <2>3, Carried
    <2>5. z = d + P * c + (P * (2 * H)) * g /\ z \in Nat
      BY <1>2, <2>3 DEF M
    <2>6. TopIs(z, P, H, c >= H)
      BY <1>3, <2>1, <2>4, <2>5, TopOfDigit, Zenon
    <2> QED
      BY <1>6, <2>6 DEF z, c, TopIs
  <1>7. CASE b = 0
    <2> DEFINE c == 2 * H - 1
               v == g - 1
    <2>1. c \in 0..(2 * H - 1) /\ P * c = M - P /\ P * c \in Int /\ c >= H /\ P * b = 0
      BY <1>7, SMT
    <2>2. M * v = M * g - M /\ M * v \in Int /\ v \in Int
      BY <1>1, <1>3, SMT
    <2> HIDE DEF M, g, d, c, v
    <2>3. z = (d + P * c) + M * v /\ d + P * c < M /\ d + P * c \in Int
      BY <1>1, <1>3, <1>5, <2>1, <2>2
    <2>4. v \in Nat
      BY <1>1, <1>2, <2>2, <2>3, Carried
    <2>5. z = d + P * c + (P * (2 * H)) * v /\ z \in Nat
      BY <1>2, <2>3 DEF M
    <2>6. TopIs(z, P, H, c >= H)
      BY <1>3, <2>1, <2>4, <2>5, TopOfDigit, Zenon
    <2> QED
      BY <1>7, <2>1, <2>6 DEF z, TopIs
  <1> QED
    BY <1>6, <1>7
------------------------------------------------------------------------------
Ones == [k \in WordIndex |-> 1]

LEMMA OnesAre == Ones \in Digits /\ Lo = FromBytes(Ones)
  <1>1. 1 \in 0..(2 * Half - 1)
    BY Weights
  <1> QED
    BY <1>1 DEF Ones, Digits, Lo, WordIndex

(* Where no byte below k is 0, the first k bytes of a word are not below   *)
(* those of the word of ones.                                              *)
LEMMA NoBorrow ==
    ASSUME NEW b \in Digits, NEW s, IsSum(s, Terms(b), WordBytes),
           NEW o, IsSum(o, Terms(Ones), WordBytes),
           NEW k \in WordIndex, \A j \in 0..(k - 1) : b[j] # 0
    PROVE  o[k] <= s[k]
  <1> DEFINE W == WordBytes
             S == {j \in Nat : o[j] <= s[j]}
  <1>0. W \in Nat /\ k \in Nat /\ k < W
    BY SearchAssumption DEF WordIndex
  <1>1. /\ s[0] = 0
        /\ \A j \in WordIndex : s[j + 1] = s[j] + b[j] * Weight(j)
        /\ \A j \in 0..W : s[j] \in 0..(Weight(j) - 1)
    BY WordSplits
  <1>2. /\ o[0] = 0
        /\ \A j \in WordIndex : o[j + 1] = o[j] + Ones[j] * Weight(j)
        /\ \A j \in 0..W : o[j] \in 0..(Weight(j) - 1)
    BY OnesAre, WordSplits
  <1>3. ASSUME NEW j \in 0..(k - 1), j \in S PROVE j + 1 \in S
    <2>1. j \in WordIndex /\ j \in Nat /\ j \in 0..W
      BY <1>0 DEF WordIndex
    <2> DEFINE w == Weight(j)
    <2>2. w \in Nat /\ Half \in Nat /\ w > 0
      BY <2>1, Weights
    <2>3. b[j] \in 0..(2 * Half - 1) /\ b[j] # 0
      BY <2>1 DEF Digits
    <2>4. s[j + 1] = s[j] + b[j] * w /\ o[j + 1] = o[j] + 1 * w /\ o[j] <= s[j]
          /\ o[j] \in Nat /\ s[j] \in Nat
      BY <1>1, <1>2, <1>3, <2>1 DEF Ones
    <2> HIDE DEF w
    <2>5. w * b[j] >= w * 1 /\ w * b[j] = b[j] * w /\ b[j] * w \in Nat
      <3>1. b[j] \in Nat /\ b[j] >= 1
        BY <2>2, <2>3
      <3> QED
        BY <2>2, <3>1, ScaleMonotone
    <2> QED
      BY <2>1, <2>2, <2>4, <2>5
  <1>4. k \in S
    <2>1. 0 \in S /\ k \in 0..k
      BY <1>0, <1>1, <1>2
    <2> HIDE DEF S
    <2> QED
      BY <1>0, <1>3, <2>1, Upward
  <1> QED
    BY <1>4

(* The word test is exact up to the first zero byte.  Above it a borrow    *)
(* may turn a byte of 1 into a false zero, which the least bit hides.      *)
LEMMA WordTest ==
    ASSUME NEW b \in Digits, NEW k \in WordIndex, \A j \in 0..(k - 1) : b[j] # 0
    PROVE  k \in HasZero(FromBytes(b)) <=> b[k] = 0
  <1> DEFINE W == WordBytes
             x == FromBytes(b)
             y == FromBytes(Ones)
             P == Weight(k)
  <1>0. W \in Nat /\ W > 0 /\ k \in Nat /\ k \in 0..W /\ k + 1 <= W
    BY SearchAssumption DEF WordIndex
  <1>1. PICK s : IsSum(s, Terms(b), W) /\ x = s[W]
    BY WordIsSum
  <1>2. PICK o : IsSum(o, Terms(Ones), W) /\ y = o[W]
    BY OnesAre, WordIsSum
  <1>3. /\ P \in Nat /\ P > 0 /\ Half \in Nat /\ Half > 0
        /\ 2^(ByteBits * (k + 1) - 1) = P * Half
    BY <1>0, Weights
  <1>4. s[k] \in 0..(P - 1) /\ \E q \in Nat : x = s[k] + P * b[k] + (P * (2 * Half)) * q
    <2>1. /\ \A j \in 0..W : s[j] \in 0..(Weight(j) - 1)
          /\ \A j \in WordIndex : \E q \in Nat :
               s[W] = s[j] + Weight(j) * b[j] + (Weight(j) * (2 * Half)) * q
      BY <1>1, WordSplits
    <2> QED
      BY <1>0, <1>1, <2>1
  <1>5. o[k] \in 0..(P - 1) /\ \E q \in Nat : y = o[k] + P * 1 + (P * (2 * Half)) * q
    <2>1. /\ \A j \in 0..W : o[j] \in 0..(Weight(j) - 1)
          /\ \A j \in WordIndex : \E q \in Nat :
               o[W] = o[j] + Weight(j) * Ones[j] + (Weight(j) * (2 * Half)) * q
      BY <1>2, OnesAre, WordSplits
    <2>2. Ones[k] = 1
      BY DEF Ones
    <2> QED
      BY <1>0, <1>2, <2>1, <2>2
  <1>6. o[k] <= s[k]
    BY <1>1, <1>2, NoBorrow
  <1>7. WordSize \in Nat /\ \E n \in Nat : WordSize = (P * (2 * Half)) * n
    <2>1. Weight(k + 1) = P * (2 * Half)
      BY <1>0, Weights
    <2> DEFINE a == ByteBits * (k + 1)
               c == ByteBits * (W - (k + 1))
    <2>2. a \in Nat /\ c \in Nat /\ ByteBits * W = a + c
      <3>1. ByteBits \in Nat /\ k + 1 \in Nat /\ W - (k + 1) \in Nat
        BY <1>0, SearchAssumption
      <3> QED
        BY <3>1, <1>0, SMT
    <2> HIDE DEF a, c
    <2>3. 2^(a + c) = 2^a * 2^c /\ 2^c \in Nat /\ 2^(a + c) \in Nat
      BY <2>2, PowAdd, PowIsPositive
    <2>4. WordSize = 2^(a + c)
      BY <2>2 DEF WordSize
    <2>5. 2^a = P * (2 * Half)
      BY <2>1 DEF a, Weight
    <2> QED
      BY <2>3, <2>4, <2>5
  <1>8. x \in 0..(WordSize - 1) /\ y \in 0..(WordSize - 1)
        /\ TopBit(x, k) = IF b[k] >= Half THEN 1 ELSE 0
    BY OnesAre, WordTop
  <1>9. b[k] \in 0..(2 * Half - 1)
    BY DEF Digits
  <1>10. y = Lo
    BY OnesAre
  <1>11. TopBit((x - y + WordSize) % WordSize, k) = IF b[k] = 0 \/ b[k] - 1 >= Half THEN 1 ELSE 0
    <2>1. PICK q \in Nat : x = s[k] + P * b[k] + (P * (2 * Half)) * q
      BY <1>4
    <2>2. PICK u \in Nat : y = o[k] + P * 1 + (P * (2 * Half)) * u
      BY <1>5
    <2>3. PICK n \in Nat : WordSize = (P * (2 * Half)) * n
      BY <1>7
    <2> HIDE DEF x, y, P
    <2>4. TopIs((x - y + WordSize) % WordSize, P, Half, b[k] = 0 \/ b[k] - 1 >= Half)
      BY <1>3, <1>4, <1>5, <1>6, <1>7, <1>8, <1>9, <2>1, <2>2, <2>3, TopOfDifference, Zenon
    <2> QED
      BY <1>3, <2>4 DEF TopBit, Bit, TopIs
  <1> HIDE DEF x, y
  <1>12. k \in HasZero(x) <=>
            TopBit((x - y + WordSize) % WordSize, k) = 1 /\ TopBit(x, k) = 0
    BY <1>10 DEF HasZero, WordIndex
  <1> QED
    BY <1>3, <1>8, <1>9, <1>11, <1>12 DEF x

(* The least byte that the test leaves is the first zero byte, and if it   *)
(* leaves none there is none.                                              *)
THEOREM WordTestFindsFirst ==
    ASSUME NEW b \in Digits
    PROVE  LET zeros == HasZero(FromBytes(b))
           IN  /\ zeros = {} => \A k \in WordIndex : b[k] # 0
               /\ zeros # {} => /\ Min(zeros) \in WordIndex /\ b[Min(zeros)] = 0
                                /\ \A k \in 0..(Min(zeros) - 1) : b[k] # 0
  <1> DEFINE zeros == HasZero(FromBytes(b))
             Z == {k \in WordIndex : b[k] = 0}
  <1>0. WordIndex \in SUBSET Nat /\ zeros \in SUBSET WordIndex /\ WordBytes \in Nat
    BY SearchAssumption DEF WordIndex, HasZero
  <1>1. ASSUME Z # {}
        PROVE  \E z \in zeros : b[z] = 0 /\ \A k \in Z : z <= k
    <2>1. PICK z \in Z : \A k \in Z : z <= k
      <3>1. Z \in SUBSET Nat
        BY <1>0
      <3> HIDE DEF Z
      <3> QED
        BY <1>1, <3>1, LeastExists
    <2>2. \A j \in 0..(z - 1) : b[j] # 0
      <3> SUFFICES ASSUME NEW j \in 0..(z - 1), b[j] = 0 PROVE FALSE
        OBVIOUS
      <3>1. j \in WordIndex /\ ~(z <= j)
        BY <1>0 DEF WordIndex
      <3> QED
        BY <2>1, <3>1
    <2>3. z \in zeros
      BY <2>2, WordTest
    <2> HIDE DEF zeros
    <2> QED
      BY <2>1, <2>3
  <1>2. ASSUME zeros = {} PROVE \A k \in WordIndex : b[k] # 0
    <2> HIDE DEF zeros
    <2>1. Z = {}
      BY <1>1, <1>2
    <2> QED
      BY <2>1
  <1>3. ASSUME zeros # {}
        PROVE  /\ Min(zeros) \in WordIndex /\ b[Min(zeros)] = 0
               /\ \A k \in 0..(Min(zeros) - 1) : b[k] # 0
    <2> DEFINE m == Min(zeros)
    <2>1. m \in zeros /\ \A k \in zeros : m <= k
      <3>1. \E p \in zeros : \A q \in zeros : p <= q
        <4>1. zeros \in SUBSET Nat
          BY <1>0
        <4> HIDE DEF zeros
        <4> QED
          BY <1>3, <4>1, LeastExists
      <3> HIDE DEF zeros
      <3> QED
        BY <3>1 DEF Min
    <2> HIDE DEF m
    <2>2. m \in WordIndex /\ m \in Nat
      BY <1>0, <2>1
    <2>3. \A k \in 0..(m - 1) : b[k] # 0
      <3> SUFFICES ASSUME NEW k \in 0..(m - 1), b[k] = 0 PROVE FALSE
        OBVIOUS
      <3>1. k \in WordIndex /\ k < m
        BY <1>0, <2>2 DEF WordIndex
      <3>2. k \in Z
        BY <3>1
      <3>3. PICK z \in zeros : \A j \in Z : z <= j
        BY <1>1, <3>2
      <3>4. z <= k /\ m <= z /\ z \in Nat
        BY <1>0, <2>1, <3>2, <3>3
      <3> QED
        BY <2>2, <3>1, <3>4
    <2>4. b[m] = 0
      BY <2>1, <2>2, <2>3, WordTest
    <2> QED
      BY <2>2, <2>3, <2>4 DEF m
  <1> QED
    BY <1>2, <1>3
------------------------------------------------------------------------------
(* One bit more of a number. *)
LEMMA OneBitMore ==
    ASSUME NEW P \in Nat, P > 0, NEW a \in Nat
    PROVE  /\ a % P \in 0..(P - 1) /\ (a \div P) % 2 \in {0, 1}
           /\ a % (2 * P) = (a % P) + P * ((a \div P) % 2)
  <1> DEFINE q == a \div P
             r == a % P
             m == q \div 2
             h == q % 2
  <1>1. q \in Nat /\ r \in 0..(P - 1) /\ a = P * q + r
    BY SMT
  <1> HIDE DEF q, r
  <1>2. m \in Nat /\ h \in {0, 1} /\ q = 2 * m + h
    BY <1>1, SMT
  <1> HIDE DEF m, h
  <1>3. P * q = (2 * P) * m + P * h /\ (2 * P) * m \in Nat /\ P * h \in 0..P
    BY <1>2, SMT
  <1>4. P * h + r \in 0..(2 * P - 1) /\ a = (2 * P) * m + (P * h + r) /\ 2 * P \in Nat /\ 2 * P > 0
    BY <1>1, <1>2, <1>3
  <1>5. a % (2 * P) = P * h + r
    <2> DEFINE d == 2 * P
               e == P * h + r
    <2>1. d \in Nat /\ d > 0 /\ e \in 0..(d - 1) /\ a = d * m + e
      BY <1>4
    <2> HIDE DEF d, e
    <2>2. a % d = e
      BY <1>2, <2>1, DivisionIs
    <2> QED
      BY <2>2 DEF d, e
  <1>6. a % (2 * P) = r + P * h
    BY <1>1, <1>3, <1>5
  <1> QED
    BY <1>1, <1>2, <1>6 DEF q, r, h

ByteIndex == 0..(ByteBits - 1)
XorTerms(a, b) == [k \in ByteIndex |-> 2^k * ((Bit(a, k) + Bit(b, k)) % 2)]

(* n is below P, and 0 just when a and b agree below P. *)
Differ(n, P, a, b) == n \in 0..(P - 1) /\ (n = 0 <=> a % P = b % P)

(* So it is with the bits in which they differ, one bit at a time. *)
LEMMA XorStep ==
    ASSUME NEW P \in Nat, P > 0, NEW a \in Nat, NEW b \in Nat,
           NEW s, Differ(s, P, a, b),
           NEW n, n = s + P * ((((a \div P) % 2) + ((b \div P) % 2)) % 2)
    PROVE  Differ(n, 2 * P, a, b)
  <1> DEFINE u == a % P
             v == b % P
             g == (a \div P) % 2
             h == (b \div P) % 2
             e == (g + h) % 2
  <1>1. u \in 0..(P - 1) /\ g \in {0, 1} /\ a % (2 * P) = u + P * g
    BY OneBitMore
  <1>2. v \in 0..(P - 1) /\ h \in {0, 1} /\ b % (2 * P) = v + P * h
    BY OneBitMore
  <1>3. n = s + P * e /\ s \in 0..(P - 1) /\ (s = 0 <=> u = v)
    BY DEF Differ
  <1> HIDE DEF u, v, g, h
  <1>4. (g = h /\ e = 0) \/ (g # h /\ e = 1)
    <2>1. CASE g = 0 /\ h = 0
      BY <2>1, SMT
    <2>2. CASE g = 0 /\ h = 1
      BY <2>2, SMT
    <2>3. CASE g = 1 /\ h = 0
      BY <2>3, SMT
    <2>4. CASE g = 1 /\ h = 1
      BY <2>4, SMT
    <2> QED
      BY <1>1, <1>2, <2>1, <2>2, <2>3, <2>4
  <1> HIDE DEF e
  <1>5. P * 0 = 0 /\ P * 1 = P
    OBVIOUS
  <1>6. CASE g = h /\ e = 0
    <2>1. n = s
      BY <1>3, <1>5, <1>6
    <2>2. P * g = P * h /\ P * g \in Int
      BY <1>1, <1>5, <1>6
    <2>3. a % (2 * P) = b % (2 * P) <=> u = v
      BY <1>1, <1>2, <2>2
    <2> QED
      BY <1>3, <2>1, <2>3 DEF Differ
  <1>7. CASE g # h /\ e = 1
    <2>1. n = s + P
      BY <1>3, <1>5, <1>7
    <2>2. a % (2 * P) # b % (2 * P)
      BY <1>1, <1>2, <1>5, <1>7
    <2> QED
      BY <1>3, <2>1, <2>2 DEF Differ
  <1> QED
    BY <1>4, <1>6, <1>7

(* x ^ y is a byte, and 0 just when x = y. *)
LEMMA XorIsZero ==
    ASSUME NEW a \in 0..(2 * Half - 1), NEW b \in 0..(2 * Half - 1)
    PROVE  XorByte(a, b) \in 0..(2 * Half - 1) /\ (XorByte(a, b) = 0 <=> a = b)
  <1> DEFINE n == ByteBits
             t == XorTerms(a, b)
             F(f) == [k \in 0..n |-> IF k = 0 THEN 0
                        ELSE f[k - 1] + 2^(k - 1) * ((Bit(a, k - 1) + Bit(b, k - 1)) % 2)]
             s == CHOOSE f : f = F(f)
  <1>0. n \in Nat /\ n > 0 /\ a \in Nat /\ b \in Nat /\ Base = 2 * Half /\ Half \in Nat
    BY SearchAssumption, Weights
  <1>1. XorByte(a, b) = s[n]
    BY DEF XorByte
  <1>2. t \in [ByteIndex -> Nat]
    <2>1. ASSUME NEW k \in ByteIndex PROVE 2^k * ((Bit(a, k) + Bit(b, k)) % 2) \in Nat
      <3>1. k \in Nat /\ 2^k \in Nat /\ 2^k > 0
        BY PowIsPositive DEF ByteIndex
      <3>2. Bit(a, k) \in {0, 1} /\ Bit(b, k) \in {0, 1}
        BY <1>0, <3>1, OneBitMore DEF Bit
      <3> DEFINE e == (Bit(a, k) + Bit(b, k)) % 2
      <3>3. e \in Nat
        BY <3>2, SMT
      <3> HIDE DEF e
      <3>4. 2^k * e \in Nat
        BY <3>1, <3>3, SMT
      <3> QED
        BY <3>4 DEF e
    <2> QED
      BY <2>1 DEF XorTerms
  <1>3. \A f : f = F(f) <=> IsSum(f, t, n)
    <2> SUFFICES ASSUME NEW f PROVE f = F(f) <=> IsSum(f, t, n)
      OBVIOUS
    <2> DEFINE G == [k \in 0..n |-> IF k = 0 THEN 0 ELSE f[k - 1] + t[k - 1]]
    <2>1. ASSUME NEW k \in 0..n, k # 0
          PROVE  2^(k - 1) * ((Bit(a, k - 1) + Bit(b, k - 1)) % 2) = t[k - 1]
      <3>1. k - 1 \in ByteIndex
        BY <1>0, <2>1 DEF ByteIndex
      <3> QED
        BY <3>1 DEF XorTerms
    <2> HIDE DEF t
    <2>2. F(f) = G
      BY <2>1, Zenon
    <2> HIDE DEF F
    <2> QED
      BY <2>2, Zenon DEF IsSum
  <1> HIDE DEF F, t
  <1>4. \E f : IsSum(f, t, n)
    BY <1>0, <1>2, SumExists DEF ByteIndex
  <1>5. s = F(s)
    BY <1>3, <1>4
  <1> HIDE DEF s
  <1>6. IsSum(s, t, n)
    BY <1>3, <1>5, Zenon
  <1>7. s[0] = 0 /\ \A k \in ByteIndex : s[k + 1] = s[k] + t[k]
    BY <1>0, <1>2, <1>6, SumSteps DEF ByteIndex
  <1> DEFINE S == {k \in Nat : Differ(s[k], 2^k, a, b)}
  <1>8. 0 \in S
    <2>1. a % 1 = 0 /\ b % 1 = 0
      BY <1>0, SMT
    <2> QED
      BY <1>7, <2>1, PowZero DEF Differ
  <1>9. ASSUME NEW k \in 0..(n - 1), k \in S PROVE k + 1 \in S
    <2>1. k \in Nat /\ k \in ByteIndex /\ 2^k \in Nat /\ 2^k > 0 /\ 2^(k + 1) = 2 * 2^k
      BY PowIsPositive, PowStep DEF ByteIndex
    <2>2. s[k + 1] = s[k] + 2^k * ((((a \div 2^k) % 2) + ((b \div 2^k) % 2)) % 2)
      BY <1>7, <2>1 DEF t, XorTerms, Bit
    <2>3. Differ(s[k], 2^k, a, b)
      BY <1>9
    <2>4. Differ(s[k + 1], 2 * 2^k, a, b)
      BY <1>0, <2>1, <2>2, <2>3, XorStep, Zenon
    <2> QED
      BY <2>1, <2>4
  <1>10. n \in S
    <2>1. n \in 0..n
      BY <1>0
    <2> HIDE DEF S
    <2> QED
      BY <1>0, <1>8, <1>9, <2>1, Upward
  <1>11. s[n] \in 0..(Base - 1) /\ (s[n] = 0 <=> a % Base = b % Base)
    BY <1>10 DEF Base, Differ
  <1>12. a % Base = a /\ b % Base = b
    <2>1. Base \in Nat /\ Base > 0 /\ a \in 0..(Base - 1) /\ b \in 0..(Base - 1)
          /\ a = Base * 0 + a /\ b = Base * 0 + b
      BY <1>0
    <2> QED
      BY <1>0, <2>1, DivisionIs
  <1> QED
    BY <1>0, <1>1, <1>11, <1>12
------------------------------------------------------------------------------
(* The search.  Below search_start nothing matches; from there to i no     *)
(* byte is the first of the pattern.                                       *)
Scanning == {"prefix", "word", "tail", "candidate"}

SearchInv ==
    /\ haystack \in Haystacks /\ pattern \in Patterns /\ align \in 0..(WordBytes - 1)
    /\ pc \in Scanning \cup {"start", "outer", "done"}
    /\ search_start \in Nat /\ i \in Nat
    /\ pc = "start" => search_start = 0
    /\ pc \in Scanning \cup {"outer"} =>
         hlen >= plen /\ \A q \in 0..(search_start - 1) : ~MatchAt(haystack, pattern, q)
    /\ pc \in Scanning =>
         /\ search_start <= max_search /\ i <= rem_len
         /\ \A k \in 0..(i - 1) : RemByte(k) # first_byte
    /\ pc = "candidate" => i < rem_len /\ RemByte(i) = first_byte
    /\ pc = "done" =>
         IF result = NoPosition THEN NoMatchIn(haystack, pattern, 0, hlen)
         ELSE FirstMatchIn(haystack, pattern, 0, hlen, result)

LEMMA SearchTypes ==
    ASSUME haystack \in Haystacks, pattern \in Patterns
    PROVE  /\ haystack \in Seq(0..(2 * Half - 1)) /\ pattern \in Seq(0..(2 * Half - 1))
           /\ hlen \in Nat /\ plen \in Nat /\ plen > 0 /\ first_byte \in 0..(2 * Half - 1)
           /\ \A k \in 1..hlen : haystack[k] \in 0..(2 * Half - 1)
  <1>1. Base = 2 * Half
    BY Weights
  <1>2. haystack \in Seq(0..(2 * Half - 1)) /\ pattern \in Seq(0..(2 * Half - 1)) /\ pattern # <<>>
    BY <1>1, SearchAssumption DEF Base
  <1>3. hlen \in Nat /\ plen \in Nat /\ plen > 0
    BY <1>2 DEF hlen, plen
  <1>4. first_byte \in 0..(2 * Half - 1)
    <2>1. 1 \in 1..Len(pattern)
      BY <1>3 DEF plen
    <2>2. pattern[1] \in 0..(2 * Half - 1)
      BY <1>2, <2>1, ElementOfSeq
    <2> QED
      BY <2>2 DEF first_byte
  <1>5. \A k \in 1..hlen : haystack[k] \in 0..(2 * Half - 1)
    BY <1>2, ElementOfSeq DEF hlen
  <1> QED
    BY <1>2, <1>3, <1>4, <1>5

(* Where the first byte is not, the pattern is not. *)
LEMMA NoFirstByte ==
    ASSUME haystack \in Haystacks, pattern \in Patterns,
           NEW q \in Nat, q + plen > hlen \/ haystack[q + 1] # first_byte
    PROVE  ~MatchAt(haystack, pattern, q)
  <1>1. plen \in Nat /\ plen > 0 /\ 1 \in 1..plen
    BY SearchTypes
  <1> QED
    BY <1>1, SearchTypes DEF MatchAt, first_byte, hlen, plen

(* So nothing matches below the byte the scan is at. *)
LEMMA NoneBefore ==
    ASSUME SearchInv, pc \in Scanning
    PROVE  /\ pos \in Nat /\ pos <= hlen /\ rem_len = hlen - search_start /\ max_search = hlen - plen
           /\ \A q \in 0..(pos - 1) : ~MatchAt(haystack, pattern, q)
  <1>0. /\ search_start \in Nat /\ i \in Nat /\ hlen \in Nat /\ plen \in Nat /\ plen > 0
        /\ search_start <= max_search /\ i <= rem_len /\ hlen >= plen
    BY SearchTypes DEF SearchInv
  <1>1. pos \in Nat /\ pos <= hlen /\ rem_len = hlen - search_start /\ max_search = hlen - plen
    BY <1>0 DEF pos, rem_len, max_search
  <1>2. ASSUME NEW q \in 0..(pos - 1) PROVE ~MatchAt(haystack, pattern, q)
    <2>1. CASE q < search_start
      <3>1. q \in 0..(search_start - 1)
        BY <1>0, <2>1
      <3> QED
        BY <3>1 DEF SearchInv
    <2>2. CASE ~(q < search_start)
      <3>1. q - search_start \in 0..(i - 1) /\ search_start + (q - search_start) + 1 = q + 1 /\ q \in Nat
        BY <1>0, <2>2 DEF pos
      <3>2. RemByte(q - search_start) # first_byte
        BY <3>1 DEF SearchInv
      <3>3. haystack[q + 1] # first_byte
        BY <3>1, <3>2 DEF RemByte
      <3> QED
        BY <3>1, <3>3, NoFirstByte DEF SearchInv
    <2> QED
      BY <2>1, <2>2
  <1> QED
    BY <1>1, <1>2

(* Nothing matches at all if nothing matches as far as a match would fit. *)
LEMMA NoneAtAll ==
    ASSUME haystack \in Haystacks, pattern \in Patterns,
           NEW p \in Nat, p + plen > hlen, \A q \in 0..(p - 1) : ~MatchAt(haystack, pattern, q)
    PROVE  NoMatchIn(haystack, pattern, 0, hlen)
  <1> SUFFICES ASSUME NEW q \in 0..hlen, q + plen <= hlen PROVE ~MatchAt(haystack, pattern, q)
    BY DEF NoMatchIn, plen
  <1>1. q \in 0..(p - 1)
    BY SearchTypes
  <1> QED
    BY <1>1

(* The bytes of a word that XOR leaves 0 are the ones equal to the first   *)
(* byte of the pattern.                                                    *)
LEMMA WordIsExact ==
    ASSUME SearchInv, pc = "word", i + WordBytes <= rem_len
    PROVE  LET zeros == HasZero(Xored)
           IN  /\ zeros = {} => \A k \in WordIndex : RemByte(i + k) # first_byte
               /\ zeros # {} => /\ Min(zeros) \in WordIndex /\ RemByte(i + Min(zeros)) = first_byte
                                /\ \A k \in 0..(Min(zeros) - 1) : RemByte(i + k) # first_byte
  <1> DEFINE b == [k \in WordIndex |-> XorByte(RemByte(i + k), first_byte)]
             zeros == HasZero(FromBytes(b))
  <1>0. /\ WordBytes \in Nat /\ WordBytes > 0 /\ i \in Nat /\ search_start \in Nat
        /\ hlen \in Nat /\ rem_len = hlen - search_start /\ first_byte \in 0..(2 * Half - 1)
        /\ \A k \in 1..hlen : haystack[k] \in 0..(2 * Half - 1)
    BY SearchTypes, SearchAssumption DEF SearchInv, rem_len
  <1>1. Xored = FromBytes(b)
    BY DEF Xored, WordIndex
  <1>2. ASSUME NEW k \in WordIndex
        PROVE  b[k] \in 0..(2 * Half - 1) /\ (b[k] = 0 <=> RemByte(i + k) = first_byte)
    <2>1. k \in Nat /\ k < WordBytes
      BY <1>0 DEF WordIndex
    <2>2. search_start + (i + k) + 1 \in 1..hlen
      BY <1>0, <2>1
    <2>3. RemByte(i + k) \in 0..(2 * Half - 1)
      BY <1>0, <2>2 DEF RemByte
    <2> QED
      BY <1>0, <2>3, XorIsZero
  <1>3. b \in Digits
    BY <1>2 DEF Digits
  <1> HIDE DEF b
  <1>4. /\ zeros = {} => \A k \in WordIndex : b[k] # 0
        /\ zeros # {} => /\ Min(zeros) \in WordIndex /\ b[Min(zeros)] = 0
                         /\ \A k \in 0..(Min(zeros) - 1) : b[k] # 0
    BY <1>3, WordTestFindsFirst
  <1> DEFINE m == Min(zeros)
  <1>5. ASSUME m \in WordIndex, NEW k \in 0..(m - 1) PROVE k \in WordIndex
    <2> HIDE DEF m
    <2> QED
      BY <1>0, <1>5 DEF WordIndex
  <1> HIDE DEF zeros
  <1>6. zeros = {} => \A k \in WordIndex : RemByte(i + k) # first_byte
    BY <1>2, <1>4
  <1>7. zeros # {} => /\ m \in WordIndex /\ RemByte(i + m) = first_byte
                      /\ \A k \in 0..(m - 1) : RemByte(i + k) # first_byte
    <2> HIDE DEF m
    <2> QED
      BY <1>2, <1>4, <1>5 DEF m
  <1> QED
    BY <1>1, <1>6, <1>7 DEF zeros
------------------------------------------------------------------------------
LEMMA SearchBegins == SearchInit => SearchInv
  BY DEF SearchInit, SearchInv, Scanning

(* What the steps of find_pattern_in_slice do not touch. *)
LEMMA SameCall ==
    ASSUME UNCHANGED call
    PROVE  /\ haystack' = haystack /\ pattern' = pattern /\ align' = align
           /\ hlen' = hlen /\ plen' = plen /\ max_search' = max_search /\ first_byte' = first_byte
  BY DEF call, hlen, plen, max_search, first_byte

(* The search returns None when there is no match. *)
LEMMA ReturnNone ==
    ASSUME SearchInv, Return(NoPosition), NoMatchIn(haystack, pattern, 0, hlen)
    PROVE  SearchInv'
  <1>1. /\ haystack' = haystack /\ pattern' = pattern /\ align' = align /\ hlen' = hlen
        /\ search_start' = search_start /\ i' = i /\ pc' = "done" /\ result' = NoPosition
    BY SameCall DEF Return
  <1> QED
    BY <1>1 DEF SearchInv, Scanning

LEMMA TooShortKeeps == SearchInv /\ TooShort => SearchInv'
  <1> SUFFICES ASSUME SearchInv, TooShort PROVE SearchInv'
    OBVIOUS
  <1>1. haystack \in Haystacks /\ pattern \in Patterns
    BY DEF SearchInv
  <1>2. NoMatchIn(haystack, pattern, 0, hlen)
    <2>1. 0 \in Nat /\ 0 + plen > hlen /\ \A q \in 0..(0 - 1) : ~MatchAt(haystack, pattern, q)
      BY <1>1, SearchTypes DEF TooShort
    <2> QED
      BY <1>1, <2>1, NoneAtAll
  <1> QED
    BY <1>2, ReturnNone DEF TooShort

LEMMA ExhaustedKeeps == SearchInv /\ SearchExhausted => SearchInv'
  <1> SUFFICES ASSUME SearchInv, SearchExhausted PROVE SearchInv'
    OBVIOUS
  <1>1. haystack \in Haystacks /\ pattern \in Patterns /\ search_start \in Nat
    BY DEF SearchInv
  <1>2. \A q \in 0..(search_start - 1) : ~MatchAt(haystack, pattern, q)
    BY DEF SearchInv, SearchExhausted
  <1>3. search_start + plen > hlen
    BY <1>1, SearchTypes DEF SearchExhausted, max_search
  <1>4. NoMatchIn(haystack, pattern, 0, hlen)
    BY <1>1, <1>2, <1>3, NoneAtAll
  <1> QED
    BY <1>4, ReturnNone DEF SearchExhausted

LEMMA BeginKeeps == SearchInv /\ (Begin \/ EnterSwar) => SearchInv'
  <1>1. ASSUME SearchInv, Begin PROVE SearchInv'
    <2>1. /\ haystack' = haystack /\ pattern' = pattern /\ align' = align
          /\ hlen' = hlen /\ plen' = plen /\ pc = "start" /\ pc' = "outer"
          /\ search_start' = search_start /\ i' = i /\ hlen >= plen
      BY <1>1, SameCall DEF Begin
    <2>2. search_start = 0
      BY <1>1, <2>1 DEF SearchInv
    <2> QED
      BY <1>1, <2>1, <2>2 DEF SearchInv, Scanning
  <1>2. ASSUME SearchInv, EnterSwar PROVE SearchInv'
    <2>1. /\ haystack' = haystack /\ pattern' = pattern /\ align' = align
          /\ hlen' = hlen /\ plen' = plen /\ pc = "outer" /\ pc' = "prefix"
          /\ search_start' = search_start /\ i' = 0 /\ max_search' = max_search
          /\ search_start <= max_search /\ first_byte' = first_byte /\ rem_len' = rem_len
      BY <1>2, SameCall DEF EnterSwar, rem_len
    <2>2. 0 <= rem_len
      BY <1>2, <2>1, SearchTypes DEF SearchInv, rem_len, max_search
    <2> QED
      BY <1>2, <2>1, <2>2 DEF SearchInv, Scanning
  <1> QED
    BY <1>1, <1>2

(* One byte of the scan. *)
LEMMA ScalarKeeps ==
    ASSUME SearchInv, pc \in {"prefix", "tail"}, i < rem_len, ScalarByte
    PROVE  SearchInv'
  <1>1. /\ haystack' = haystack /\ pattern' = pattern /\ align' = align
        /\ hlen' = hlen /\ plen' = plen /\ search_start' = search_start
        /\ max_search' = max_search /\ first_byte' = first_byte /\ rem_len' = rem_len
        /\ \A k : RemByte(k)' = haystack[search_start + k + 1]
    BY SameCall DEF ScalarByte, rem_len, RemByte
  <1>2. \A k : RemByte(k) = haystack[search_start + k + 1]
    BY DEF RemByte
  <1>3. i \in Nat /\ rem_len \in Int /\ pc \in Scanning
    BY SearchTypes DEF SearchInv, rem_len, Scanning
  <1>4. \A k \in 0..(i - 1) : haystack[search_start + k + 1] # first_byte
    BY <1>2, <1>3 DEF SearchInv
  <1>5. CASE RemByte(i) = first_byte
    <2>1. pc' = "candidate" /\ i' = i
      BY <1>5 DEF ScalarByte
    <2>2. RemByte(i)' = first_byte'
      BY <1>1, <1>2, <1>5, <2>1 DEF RemByte
    <2>3. (\A k \in 0..(i - 1) : RemByte(k) # first_byte)'
      BY <1>1, <1>4, <2>1
    <2> QED
      BY <1>1, <1>3, <2>1, <2>2, <2>3 DEF SearchInv, Scanning
  <1>6. CASE RemByte(i) # first_byte
    <2>1. pc' = pc /\ i' = i + 1
      BY <1>6 DEF ScalarByte
    <2>2. haystack[search_start + i + 1] # first_byte
      BY <1>2, <1>6
    <2>3. \A k \in 0..((i + 1) - 1) : k \in 0..(i - 1) \/ k = i
      BY <1>3
    <2>4. (\A k \in 0..(i - 1) : RemByte(k) # first_byte)'
      BY <1>1, <1>4, <2>1, <2>2, <2>3
    <2>5. i' \in Nat /\ i' <= rem_len'
      BY <1>1, <1>3, <2>1
    <2> QED
      BY <1>1, <1>3, <2>1, <2>4, <2>5 DEF SearchInv, Scanning
  <1> QED
    BY <1>5, <1>6

LEMMA BytesKeep == SearchInv /\ (PrefixByte \/ TailByte) => SearchInv'
  <1>1. ASSUME SearchInv, PrefixByte PROVE SearchInv'
    <2>1. search_start \in Nat /\ i \in Nat /\ hlen \in Nat /\ align \in Nat /\ WordBytes \in Nat /\ WordBytes > 0
      BY <1>1, SearchTypes, SearchAssumption DEF SearchInv
    <2>2. rem_align \in Nat /\ rem_len \in Int
      BY <2>1, SMT DEF rem_align, rem_len
    <2>3. i < rem_len
      BY <1>1, <2>1, <2>2 DEF PrefixByte, prefix_end, MinOf
    <2> QED
      BY <1>1, <2>3, ScalarKeeps DEF PrefixByte
  <1>2. ASSUME SearchInv, TailByte PROVE SearchInv'
    BY <1>2, ScalarKeeps DEF TailByte
  <1> QED
    BY <1>1, <1>2

(* From one part of the byte search to the next. *)
LEMMA PartsKeep == SearchInv /\ (PrefixEnd \/ WordsEnd) => SearchInv'
  <1> SUFFICES ASSUME SearchInv, PrefixEnd \/ WordsEnd PROVE SearchInv'
    OBVIOUS
  <1>1. /\ haystack' = haystack /\ pattern' = pattern /\ align' = align
        /\ hlen' = hlen /\ plen' = plen /\ search_start' = search_start /\ i' = i
        /\ max_search' = max_search /\ first_byte' = first_byte /\ rem_len' = rem_len
        /\ pc \in {"prefix", "word"} /\ pc' \in {"word", "tail"}
        /\ \A k : RemByte(k)' = RemByte(k)
    BY SameCall DEF PrefixEnd, WordsEnd, rem_len, RemByte
  <1> QED
    BY <1>1 DEF SearchInv, Scanning

LEMMA WordKeeps == SearchInv /\ WordStep => SearchInv'
  <1> SUFFICES ASSUME SearchInv, WordStep PROVE SearchInv'
    OBVIOUS
  <1> DEFINE zeros == HasZero(Xored)
             m == Min(zeros)
  <1>1. /\ haystack' = haystack /\ pattern' = pattern /\ align' = align
        /\ hlen' = hlen /\ plen' = plen /\ search_start' = search_start
        /\ max_search' = max_search /\ first_byte' = first_byte /\ rem_len' = rem_len
        /\ pc = "word" /\ i + WordBytes <= rem_len
        /\ \A k : RemByte(k)' = haystack[search_start + k + 1]
    BY SameCall DEF WordStep, rem_len, RemByte
  <1>2. \A k : RemByte(k) = haystack[search_start + k + 1]
    BY DEF RemByte
  <1>3. /\ zeros = {} => \A k \in WordIndex : RemByte(i + k) # first_byte
        /\ zeros # {} => /\ m \in WordIndex /\ RemByte(i + m) = first_byte
                         /\ \A k \in 0..(m - 1) : RemByte(i + k) # first_byte
    BY <1>1, WordIsExact
  <1>4. i \in Nat /\ rem_len \in Int /\ pc \in Scanning /\ WordBytes \in Nat
    BY <1>1, SearchTypes, SearchAssumption DEF SearchInv, rem_len, Scanning
  <1>5. \A k \in 0..(i - 1) : RemByte(k) # first_byte
    BY <1>4 DEF SearchInv
  <1>6. IF zeros # {} THEN i' = i + m /\ pc' = "candidate" ELSE i' = i + WordBytes /\ pc' = pc
    BY DEF WordStep
  <1> HIDE DEF zeros, m
  <1>7. CASE zeros # {}
    <2>1. i' = i + m /\ pc' = "candidate" /\ m \in Nat /\ m < WordBytes
      BY <1>3, <1>4, <1>6, <1>7 DEF WordIndex
    <2>2. ASSUME NEW k \in 0..((i + m) - 1) PROVE RemByte(k) # first_byte
      <3>1. CASE k < i
        <4>1. k \in 0..(i - 1)
          BY <1>4, <2>1, <3>1
        <4> QED
          BY <1>5, <4>1
      <3>2. CASE ~(k < i)
        <4>1. k - i \in 0..(m - 1) /\ i + (k - i) = k
          BY <1>4, <2>1, <3>2
        <4>2. RemByte(i + (k - i)) # first_byte
          BY <1>3, <1>7, <4>1
        <4> QED
          BY <4>1, <4>2
      <3> QED
        BY <3>1, <3>2
    <2>3. (\A k \in 0..(i - 1) : RemByte(k) # first_byte)'
      BY <1>1, <1>2, <2>1, <2>2
    <2>4. i' \in Nat /\ i' < rem_len'
      BY <1>1, <1>4, <2>1
    <2>5. (RemByte(i) = first_byte)'
      <3>1. haystack[search_start + (i + m) + 1] = first_byte
        BY <1>2, <1>3, <1>7
      <3> QED
        BY <1>1, <2>1, <3>1 DEF RemByte
    <2>6. i' <= rem_len'
      BY <1>1, <1>4, <2>4
    <2> QED
      BY <1>1, <1>4, <2>1, <2>3, <2>4, <2>5, <2>6 DEF SearchInv, Scanning
  <1>8. CASE zeros = {}
    <2>1. i' = i + WordBytes /\ pc' = pc
      BY <1>6, <1>8
    <2>2. ASSUME NEW k \in 0..((i + WordBytes) - 1) PROVE RemByte(k) # first_byte
      <3>1. CASE k < i
        <4>1. k \in 0..(i - 1)
          BY <1>4, <2>1, <3>1
        <4> QED
          BY <1>5, <4>1
      <3>2. CASE ~(k < i)
        <4>1. k - i \in WordIndex /\ i + (k - i) = k
          BY <1>4, <2>1, <3>2 DEF WordIndex
        <4>2. RemByte(i + (k - i)) # first_byte
          BY <1>3, <1>8, <4>1
        <4> QED
          BY <4>1, <4>2
      <3> QED
        BY <3>1, <3>2
    <2>3. (\A k \in 0..(i - 1) : RemByte(k) # first_byte)'
      BY <1>1, <1>2, <2>1, <2>2
    <2>4. i' \in Nat /\ i' <= rem_len'
      BY <1>1, <1>4, <2>1
    <2> QED
      BY <1>1, <1>4, <2>1, <2>3, <2>4 DEF SearchInv, Scanning
  <1> QED
    BY <1>7, <1>8

LEMMA TailEndKeeps == SearchInv /\ TailEnd => SearchInv'
  <1> SUFFICES ASSUME SearchInv, TailEnd PROVE SearchInv'
    OBVIOUS
  <1>1. pc \in Scanning /\ i >= rem_len
    BY DEF TailEnd, Scanning
  <1>2. /\ haystack \in Haystacks /\ pattern \in Patterns /\ search_start \in Nat /\ i \in Nat
        /\ hlen \in Nat /\ plen \in Nat /\ plen > 0
    BY SearchTypes DEF SearchInv
  <1>3. /\ pos \in Nat /\ pos <= hlen /\ rem_len = hlen - search_start
        /\ \A q \in 0..(pos - 1) : ~MatchAt(haystack, pattern, q)
    BY <1>1, NoneBefore
  <1>4. pos + plen > hlen
    BY <1>1, <1>2, <1>3 DEF pos
  <1>5. NoMatchIn(haystack, pattern, 0, hlen)
    BY <1>2, <1>3, <1>4, NoneAtAll
  <1> QED
    BY <1>5, ReturnNone DEF TailEnd

LEMMA TooLateKeeps == SearchInv /\ TooLate => SearchInv'
  <1> SUFFICES ASSUME SearchInv, TooLate PROVE SearchInv'
    OBVIOUS
  <1>1. pc \in Scanning /\ pos > max_search
    BY DEF TooLate, Scanning
  <1>2. /\ haystack \in Haystacks /\ pattern \in Patterns /\ hlen \in Nat /\ plen \in Nat
    BY SearchTypes DEF SearchInv
  <1>3. /\ pos \in Nat /\ max_search = hlen - plen
        /\ \A q \in 0..(pos - 1) : ~MatchAt(haystack, pattern, q)
    BY <1>1, NoneBefore
  <1>4. pos + plen > hlen
    BY <1>1, <1>2, <1>3
  <1>5. NoMatchIn(haystack, pattern, 0, hlen)
    BY <1>2, <1>3, <1>4, NoneAtAll
  <1> QED
    BY <1>5, ReturnNone DEF TooLate

LEMMA FoundKeeps == SearchInv /\ Found => SearchInv'
  <1> SUFFICES ASSUME SearchInv, Found PROVE SearchInv'
    OBVIOUS
  <1>1. pc \in Scanning /\ pc = "candidate"
    BY DEF Found, Scanning
  <1>2. /\ haystack \in Haystacks /\ pattern \in Patterns /\ search_start \in Nat /\ i \in Nat
        /\ hlen \in Nat /\ plen \in Nat /\ plen > 0 /\ i < rem_len /\ RemByte(i) = first_byte
    BY <1>1, SearchTypes DEF SearchInv
  <1>3. /\ pos \in Nat /\ pos <= hlen /\ rem_len = hlen - search_start
        /\ max_search = hlen - plen
        /\ \A q \in 0..(pos - 1) : ~MatchAt(haystack, pattern, q)
    BY <1>1, NoneBefore
  <1>4. MatchAt(haystack, pattern, pos)
    <2>1. CASE plen = 1
      <3>1. pos + 1 <= hlen
        BY <1>2, <1>3 DEF pos
      <3>2. haystack[pos + 1] = pattern[1]
        <4>1. search_start + i + 1 = pos + 1
          BY DEF pos
        <4> QED
          BY <1>2, <4>1 DEF RemByte, first_byte
      <3>3. \A k \in 1..1 : k = 1
        OBVIOUS
      <3> QED
        BY <2>1, <3>1, <3>2, <3>3 DEF MatchAt, hlen, plen
    <2>2. CASE plen # 1
      BY <2>2 DEF Found
    <2> QED
      BY <2>1, <2>2
  <1>5. pos + plen <= hlen
    BY <1>4 DEF MatchAt, hlen, plen
  <1>6. FirstMatchIn(haystack, pattern, 0, hlen, pos)
    <2>1. pos \in 0..hlen
      BY <1>2, <1>3
    <2> QED
      BY <1>3, <1>4, <1>5, <2>1 DEF FirstMatchIn, plen
  <1>7. pos # NoPosition
    BY <1>3, SearchAssumption
  <1>8. /\ haystack' = haystack /\ pattern' = pattern /\ align' = align /\ hlen' = hlen
        /\ search_start' = search_start /\ i' = i /\ pc' = "done" /\ result' = pos
    BY SameCall DEF Found, Return
  <1> HIDE DEF pos
  <1> QED
    BY <1>6, <1>7, <1>8 DEF SearchInv, Scanning

LEMMA ResyncKeeps == SearchInv /\ Resync => SearchInv'
  <1> SUFFICES ASSUME SearchInv, Resync PROVE SearchInv'
    OBVIOUS
  <1>1. /\ pc \in Scanning /\ pc' = "outer" /\ search_start' = pos + 1 /\ i' = i
        /\ ~MatchAt(haystack, pattern, pos)
    BY DEF Resync, Scanning
  <1>2. pos \in Nat /\ \A q \in 0..(pos - 1) : ~MatchAt(haystack, pattern, q)
    BY <1>1, NoneBefore
  <1>3. \A q \in 0..((pos + 1) - 1) : ~MatchAt(haystack, pattern, q)
    <2> SUFFICES ASSUME NEW q \in 0..((pos + 1) - 1) PROVE ~MatchAt(haystack, pattern, q)
      OBVIOUS
    <2>1. q = pos \/ q \in 0..(pos - 1)
      BY <1>2
    <2> QED
      BY <1>1, <1>2, <2>1
  <1>4. /\ haystack' = haystack /\ pattern' = pattern /\ align' = align
        /\ hlen' = hlen /\ plen' = plen
    BY SameCall DEF Resync
  <1> DEFINE p == pos
  <1> HIDE DEF p
  <1>5. p \in Nat /\ search_start' = p + 1 /\ \A q \in 0..((p + 1) - 1) : ~MatchAt(haystack, pattern, q)
    BY <1>1, <1>2, <1>3 DEF p
  <1> QED
    BY <1>1, <1>4, <1>5 DEF SearchInv, Scanning

LEMMA SearchInvariant == SearchSpec => []SearchInv
  <1>1. ASSUME SearchInv, UNCHANGED search_vars PROVE SearchInv'
    <2>1. /\ haystack' = haystack /\ pattern' = pattern /\ align' = align /\ pc' = pc
          /\ search_start' = search_start /\ i' = i /\ result' = result
      BY <1>1 DEF search_vars, call
    <2> QED
      BY <1>1, <2>1 DEF SearchInv, hlen, plen, max_search, rem_len, RemByte, first_byte
  <1>2. ASSUME SearchInv, SearchNext PROVE SearchInv'
    BY <1>1, <1>2, TooShortKeeps, ExhaustedKeeps, BeginKeeps, BytesKeep, PartsKeep, WordKeeps,
       TailEndKeeps, FoundKeeps, TooLateKeeps, ResyncKeeps DEF SearchNext, Done
  <1> QED
    BY <1>1, <1>2, SearchBegins, PTL DEF SearchSpec

(* find_pattern_in_slice returns the leftmost occurrence or None, for      *)
(* every byte and word size, alignment, haystack and pattern; for one byte *)
(* that is what the byte loop of the differential tests returns.           *)
THEOREM SearchFindsFirst == SearchSpec => []FindsFirst
  <1>1. ASSUME SearchInv PROVE FindsFirst
    <2> SUFFICES ASSUME pc = "done" PROVE FindsFirst
      BY DEF FindsFirst
    <2> DEFINE hit == FirstHit(haystack, pattern, 0)
    <2>1. IF result = NoPosition THEN NoMatchIn(haystack, pattern, 0, hlen)
          ELSE FirstMatchIn(haystack, pattern, 0, hlen, result)
      BY <1>1 DEF SearchInv
    <2>2. /\ haystack \in Seq(0..(2 * Half - 1)) /\ pattern \in Seq(0..(2 * Half - 1))
          /\ hlen \in Nat /\ 0 \in 0..Len(haystack)
      BY <1>1, SearchTypes DEF SearchInv, hlen
    <2>3. /\ NoMatchIn(haystack, pattern, 0, Len(haystack)) => hit = Len(haystack)
          /\ \A p : FirstMatchIn(haystack, pattern, 0, Len(haystack), p) =>
               p \in Nat /\ hit = p /\ p + Len(pattern) <= Len(haystack)
      BY <2>2, HitIsMatch
    <2>4. ASSUME plen = 1 PROVE result = scalar_byte_position(haystack, first_byte)
      <3>1. SkipTo(haystack, pattern[1], 0) = hit
        BY <2>2, <2>4, SkipToIs DEF plen
      <3>2. scalar_byte_position(haystack, first_byte) = IF hit < hlen THEN hit ELSE NoPosition
        BY <3>1 DEF scalar_byte_position, first_byte, hlen
      <3> HIDE DEF hit
      <3>3. CASE result = NoPosition
        <4>1. hit = hlen
          BY <2>1, <2>3, <3>3 DEF hlen
        <4> QED
          BY <2>2, <3>2, <3>3, <4>1
      <3>4. CASE result # NoPosition
        <4>1. result \in Nat /\ hit = result /\ result + 1 <= hlen
          BY <2>1, <2>3, <2>4, <3>4 DEF hlen, plen
        <4> QED
          BY <2>2, <3>2, <4>1
      <3> QED
        BY <3>3, <3>4
    <2> QED
      BY <2>1, <2>4 DEF FindsFirst
  <1> QED
    BY <1>1, SearchInvariant, PTL
==============================================================================
