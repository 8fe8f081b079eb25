---------------------------- MODULE PatternSearch ----------------------------
(***************************************************************************)
(* find_pattern_in_slice and the word-at-a-time byte search under it,      *)
(* find_byte_swar: scalar steps up to an aligned address, then whole words *)
(* tested for the first pattern byte by subtract-and-mask, then scalar     *)
(* steps; every candidate is compared with the pattern.                    *)
(*                                                                         *)
(* Bytes have ByteBits bits and words WordBytes bytes (8 and 8 in the      *)
(* code): the word test borrows from byte to byte, so it is modelled on    *)
(* the numbers themselves.                                                 *)
(***************************************************************************)
EXTENDS ScalarOracles, Integers, FiniteSetsExt

CONSTANTS
    ByteBits, WordBytes,
    Haystacks, Patterns

ASSUME SearchAssumption ==
    /\ ByteBits \in Nat \ {0} /\ WordBytes \in Nat \ {0}
    /\ Haystacks \subseteq Seq(0..(2^ByteBits - 1))
    /\ Patterns \subseteq Seq(0..(2^ByteBits - 1)) \ {<<>>}
    /\ NoPosition \notin Nat

VARIABLES
    haystack, pattern,
    align,         \* haystack.as_ptr() % WordBytes
    pc,
    search_start,  \* find_pattern_in_slice: where the remainder begins
    i,             \* find_byte_swar: offset in the remainder
    result

call == <<haystack, pattern, align>>
search_vars == <<call, pc, search_start, i, result>>

hlen == Len(haystack)
plen == Len(pattern)
max_search == hlen - plen
first_byte == pattern[1]

(* The remainder find_byte_swar is given, and where its words begin. *)
rem_len == hlen - search_start
RemByte(k) == haystack[search_start + k + 1]
rem_align == (align + search_start) % WordBytes
prefix_end == IF rem_align = 0 THEN 0 ELSE MinOf(WordBytes - rem_align, rem_len)

(* A machine word from its bytes, least significant first: from_le_bytes,  *)
(* and the constants that repeat one byte.                                 *)
WordSize == 2^(ByteBits * WordBytes)
FromBytes(bytes) ==
    LET sum[k \in 0..WordBytes] ==
            IF k = 0 THEN 0
            ELSE sum[k - 1] + bytes[k - 1] * 2^(ByteBits * (k - 1))
    IN  sum[WordBytes]
Lo == FromBytes([k \in 0..(WordBytes - 1) |-> 1])

Bit(w, k) == (w \div 2^k) % 2
XorByte(a, b) ==
    LET sum[k \in 0..ByteBits] ==
            IF k = 0 THEN 0
            ELSE sum[k - 1] + 2^(k - 1) * ((Bit(a, k - 1) + Bit(b, k - 1)) % 2)
    IN  sum[ByteBits]

(* word ^ pattern, for the word at offset i of the remainder.  The pattern *)
(* is first_byte in every byte, so the XOR works byte by byte.             *)
Xored == FromBytes([k \in 0..(WordBytes - 1) |-> XorByte(RemByte(i + k), first_byte)])

TopBit(w, k) == Bit(w, ByteBits * (k + 1) - 1)

(* Plausible slip: the complement is not masked in. *)
HasZeroNoComplement(x) ==
    {k \in 0..(WordBytes - 1) : TopBit((x - Lo + WordSize) % WordSize, k) = 1}

(* xored.wrapping_sub(lo) & !xored & hi: the bytes whose top bit is left.  *)
HasZero(x) ==
    {k \in 0..(WordBytes - 1) :
        TopBit((x - Lo + WordSize) % WordSize, k) = 1 /\ TopBit(x, k) = 0}

SearchInit ==
    /\ haystack \in Haystacks /\ pattern \in Patterns
    /\ align \in 0..(WordBytes - 1)
    /\ pc = "start"
    /\ search_start = 0 /\ i = 0 /\ result = NoPosition
------------------------------------------------------------------------------
Return(r) ==
    /\ result' = r
    /\ pc' = "done"
    /\ UNCHANGED <<call, search_start, i>>

TooShort == pc = "start" /\ hlen < plen /\ Return(NoPosition)

Begin ==
    /\ pc = "start"
    /\ hlen >= plen
    /\ pc' = "outer"
    /\ UNCHANGED <<call, search_start, i, result>>

(* while search_start <= max_search *)
SearchExhausted == pc = "outer" /\ search_start > max_search /\ Return(NoPosition)

EnterSwar ==
    /\ pc = "outer"
    /\ search_start <= max_search
    /\ i' = 0
    /\ pc' = "prefix"
    /\ UNCHANGED <<call, search_start, result>>

(* One byte of the scalar prefix or tail: a candidate, or the next byte. *)
ScalarByte ==
    /\ pc' = IF RemByte(i) = first_byte THEN "candidate" ELSE pc
    /\ i' = IF RemByte(i) = first_byte THEN i ELSE i + 1
    /\ UNCHANGED <<call, search_start, result>>

PrefixByte == pc = "prefix" /\ i < prefix_end /\ ScalarByte

PrefixEnd ==
    /\ pc = "prefix" /\ i >= prefix_end
    /\ pc' = "word"
    /\ UNCHANGED <<call, search_start, i, result>>

WordStep ==
    /\ pc = "word" /\ i + WordBytes <= rem_len
    /\ LET zeros == HasZero(Xored)   \* trailing_zeros() / 8 is the lowest
       IN  IF zeros # {}
           THEN i' = i + Min(zeros) /\ pc' = "candidate"
           ELSE i' = i + WordBytes /\ UNCHANGED pc
    /\ UNCHANGED <<call, search_start, result>>

WordsEnd ==
    /\ pc = "word" /\ i + WordBytes > rem_len
    /\ pc' = "tail"
    /\ UNCHANGED <<call, search_start, i, result>>

TailByte == pc = "tail" /\ i < rem_len /\ ScalarByte

(* find_byte_swar returns None and `?` passes it on. *)
TailEnd == pc = "tail" /\ i >= rem_len /\ Return(NoPosition)

pos == search_start + i

(* The byte search's answer is the answer for a one-byte pattern; a longer *)
(* one is compared, haystack[pos..].starts_with(pattern).                  *)
Found ==
    /\ pc = "candidate"
    /\ plen = 1 \/ (pos <= max_search /\ MatchAt(haystack, pattern, pos))
    /\ Return(pos)

(* The candidate starts too late for the rest of the pattern. *)
TooLate == pc = "candidate" /\ plen > 1 /\ pos > max_search /\ Return(NoPosition)

(* Plausible slip: the search restarts at the false candidate. *)
ResyncInPlace ==
    /\ pc = "candidate"
    /\ plen > 1 /\ pos <= max_search
    /\ ~MatchAt(haystack, pattern, pos)
    /\ search_start' = pos
    /\ pc' = "outer"
    /\ UNCHANGED <<call, i, result>>

(* A false candidate: search on from the byte after it. *)
Resync ==
    /\ pc = "candidate"
    /\ plen > 1 /\ pos <= max_search
    /\ ~MatchAt(haystack, pattern, pos)
    /\ search_start' = pos + 1
    /\ pc' = "outer"
    /\ UNCHANGED <<call, i, result>>

Done == pc = "done" /\ UNCHANGED search_vars

SearchNext ==
    \/ TooShort \/ Begin \/ SearchExhausted \/ EnterSwar
    \/ PrefixByte \/ PrefixEnd \/ WordStep \/ WordsEnd \/ TailByte \/ TailEnd
    \/ Found \/ TooLate \/ Resync \/ Done

SearchSpec == SearchInit /\ [][SearchNext]_search_vars
FairSearchSpec == SearchSpec /\ WF_search_vars(SearchNext)
------------------------------------------------------------------------------
(* The search returns the leftmost occurrence, or None when there is none: *)
(* no alignment of the slice, borrow inside the word test or false         *)
(* candidate hides a match or invents one.  For one byte that is what the  *)
(* byte-at-a-time oracle of the differential tests returns.                *)
FindsFirst ==
    pc = "done" =>
        /\ IF result = NoPosition THEN NoMatchIn(haystack, pattern, 0, hlen)
           ELSE FirstMatchIn(haystack, pattern, 0, hlen, result)
        /\ plen = 1 => result = scalar_byte_position(haystack, first_byte)

(* The search ends, however many false candidates it meets.                *)
SearchTerminates == <>(pc = "done")
==============================================================================
