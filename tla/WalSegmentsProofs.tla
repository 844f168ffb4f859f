------------------------- MODULE WalSegmentsProofs -------------------------
(***************************************************************************)
(* Proofs about the segmented write-ahead log, for every segment size, any *)
(* mix of kills and power losses and any number of records and errors:     *)
(* what a crash or an error leaves can be read, a usable handle agrees     *)
(* with the directory, and the log implements DurableLog.                  *)
(*                                                                         *)
(* The argument: the retained segments are a range first .. n of which     *)
(* all but the last are whole, synced and not empty, and hold their        *)
(* records at the LSNs that the lengths before them add up to (Dir).  Each *)
(* step on the directory keeps such a range, and the handle is at the end  *)
(* of it unless it is poisoned or the operation under way is moving it.    *)
(***************************************************************************)
EXTENDS WalSegments, FiniteSetTheorems, NaturalsInduction, WellFoundedInduction, TLAPS

\* What the theorems assume of the environment: the rotation of a cut does not
\* fail and no WAL without records is reset.  Each is a known deviation.
Calm == "cut" \notin IoErrors /\ EmptyReset = FALSE

\* The bytes of the segments S of the directory d, the retained segments before
\* i, and the LSN at which segment i starts.
Bytes(d, S) == MapThenSumSet(LAMBDA i : Len(d[i]), S)
Below(d, b, i) == {j \in DOMAIN d : b.first_segment <= j /\ j < i}
At(d, b, i) == b.lsn + Bytes(d, Below(d, b, i))

\* Segments, synced lengths and wal.base have their types.
Typed(d, s, b) ==
  /\ DOMAIN d \in SUBSET Nat /\ IsFiniteSet(DOMAIN d)
  /\ d \in [DOMAIN d -> Seq(Nat)] /\ s \in [DOMAIN d -> Nat]
  /\ \A i \in DOMAIN d : s[i] <= Len(d[i])
  /\ b \in [lsn : Nat, first_segment : Nat, last_segment : Nat \cup {None}]

\* The retained segments are first_segment .. n, those before the last are
\* whole, synced and not empty, and none beyond the frontier holds data.
Contiguous(d, s, b, n) ==
  /\ n \in Int /\ n >= b.first_segment - 1
  /\ {i \in DOMAIN d : i >= b.first_segment} = b.first_segment .. n
  /\ b.last_segment # None => b.first_segment <= b.last_segment /\ b.last_segment <= n
  /\ \A i \in DOMAIN d : i >= b.first_segment /\ i > b.last_segment => Len(d[i]) = 0
  /\ \A i \in DOMAIN d :
       i >= b.first_segment /\ i < n => /\ Len(d[i]) > 0 /\ Len(d[i]) % 2 = 0
                                        /\ s[i] = Len(d[i])

\* The cells of the whole frames among x cells.
Down(x) == 2 * (x \div 2)

\* Every retained cell names the LSN of its frame.
Placed(d, b) ==
  \A i \in DOMAIN d : i >= b.first_segment =>
    \A k \in 1 .. Len(d[i]) : d[i][k] = At(d, b, i) + Down(k - 1)

Dir(d, s, b, n) == Typed(d, s, b) /\ Contiguous(d, s, b, n) /\ Placed(d, b)

\* The end of what a scan finds, and of what it finds after any power loss.
EndAt(d, b, n) ==
  IF n < b.first_segment THEN b.lsn ELSE At(d, b, n) + Down(Len(d[n]))
DurableEnd(d, s, b, n) ==
  IF n < b.first_segment THEN b.lsn ELSE At(d, b, n) + Down(s[n])

Whole(n) == n >= base.first_segment => Len(data[n]) % 2 = 0

\* The handle is at the end of the last segment.
AtEnd(n) ==
  /\ n >= base.first_segment /\ file = n /\ active_index = n
  /\ base_lsn = At(data, base, n) /\ Len(data[n]) % 2 = 0

Steady ==
  {"idle", "write", "sync", "rotate_sync", "capture", "reset_sync", "reset_create",
   "reset_remove", "prefix_sync", "prefix_base", "prefix_remove"}

\* What is not known to be synced was found by open.
Clean(n) ==
  ~dirty => synced[n] = Len(data[n]) \/ At(data, base, n) + Len(data[n]) <= inherited

\* Where the handle is at each stage.
Placement(n) ==
  /\ poisoned => stage = "idle"
  /\ stage \in {"open_remove", "open_create"} => Whole(n)
  /\ stage = "open_base" => AtEnd(n) /\ inherited = base_lsn + Len(data[n])
  /\ stage \in Steady /\ ~poisoned => AtEnd(n) /\ base.last_segment = n /\ Clean(n)
  /\ stage = "rotate_create" =>
       /\ n >= base.first_segment /\ file = n /\ active_index = n + 1
       /\ base_lsn = At(data, base, n) + Len(data[n]) /\ base.last_segment = n
       /\ Len(data[n]) > 0 /\ Len(data[n]) % 2 = 0 /\ synced[n] = Len(data[n])
  /\ stage = "rotate_base" => AtEnd(n) /\ Len(data[n]) = 0
  /\ stage = "reset_base" => n > base.first_segment /\ Len(data[n]) = 0

\* What the operation under way has recorded.
Operation(n) ==
  /\ stage = "write" => op.kind = "append" /\ op.lsn = wal_len
  /\ stage = "rotate_sync" =>
       /\ op.kind \in {"append", "cut", "prefix"} /\ active_len > 0
       /\ op.kind # "prefix" => op.lsn = wal_len
  /\ stage \in {"rotate_create", "rotate_base"} =>
       /\ op.kind \in {"append", "cut", "prefix"}
       /\ op.kind # "prefix" => op.lsn = base_lsn
  /\ stage = "capture" => op.lsn = base_lsn
  /\ stage = "prefix_sync" => op.kind = "prefix"
  /\ stage \in {"reset_sync", "reset_create"} =>
       active_len > 0 /\ op.lsn = wal_len /\ doomed = Segments
  /\ stage = "reset_create" => synced[n] = Len(data[n])
  /\ stage = "reset_base" => op.lsn = At(data, base, n) /\ doomed = Segments \ {n}
  /\ stage \in {"reset_remove", "prefix_remove"} =>
       doomed # {} /\ \A i \in doomed : i < base.first_segment
  /\ \/ stage \in {"reset_sync", "reset_create", "reset_base", "prefix_sync", "prefix_base"}
     \/ op.kind = "prefix"
     => op.lsn <= released

\* What callers were promised survives, and only what was there was released.
Kept(n) == promised <= DurableEnd(data, synced, base, n) /\ released <= EndAt(data, base, n)

HandleTypes ==
  /\ file \in Nat /\ active_index \in Nat /\ base_lsn \in Nat
  /\ poisoned \in BOOLEAN /\ dirty \in BOOLEAN /\ stage \in Stages
  /\ op \in [kind : {"none", "append", "cut", "reset", "prefix"}, sync : BOOLEAN, lsn : Nat]
  /\ doomed \subseteq Nat
  /\ promised \in Nat /\ released \in Nat /\ inherited \in Nat

Inv(n) ==
  /\ HandleTypes /\ Dir(data, synced, base, n)
  /\ Placement(n) /\ Operation(n) /\ Kept(n)

IInv == \E n \in {base.first_segment - 1} \cup Segments : Inv(n)

\* A step of the log that starts at base.lsn and ends where a scan ends: the
\* steps of DurableLog, and one that changes nothing.
Moves(n, m) ==
  LET lo == base.lsn
      hi == EndAt(data, base, n)
      lo2 == base'.lsn
      hi2 == EndAt(data', base', m)
  IN  \/ lo2 = lo /\ hi2 = hi /\ promised' = promised /\ released' = released
      \/ hi2 > hi /\ lo2 = lo /\ promised' = promised /\ released' = released
      \/ promised' \in promised .. hi /\ lo2 = lo /\ hi2 = hi /\ released' = released
      \/ released' \in released .. hi /\ lo2 = lo /\ hi2 = hi /\ promised' = promised
      \/ /\ lo2 \in lo .. released /\ lo2 <= promised' /\ promised' \in promised .. hi
         /\ hi2 = hi /\ released' = released
      \/ /\ hi2 \in promised .. hi /\ lo2 = lo /\ promised' = promised
         /\ released' = IF released <= hi2 THEN released ELSE hi2

\* Where a step leads from a directory that ends with segment n.
Leads(n) == \E m : Inv(m)' /\ Moves(n, m)
-----------------------------------------------------------------------------
(***************************************************************************)
(* Numbers and sums of lengths.                                            *)
(***************************************************************************)
\* A set of numbers has a least element, and a bounded one a greatest.
LEMMA LeastOf ==
  ASSUME NEW S \in SUBSET Nat, S # {}
  PROVE  \E x \in S : \A y \in S : x <= y
<1>1. PICK x \in S : \A y \in S : ~(<<y, x>> \in OpToRel(<, Nat))
  BY NatLessThanWellFounded, WFMin
<1>2. \A y \in S : ~(y < x)
  BY <1>1 DEF OpToRel
<1> QED BY <1>2

LEMMA MinOf ==
  ASSUME NEW S \in SUBSET Nat, S # {}
  PROVE  Min(S) \in S /\ \A y \in S : Min(S) <= y
<1>1. \E x \in S : \A y \in S : x =< y
  BY LeastOf
<1> QED BY <1>1, Zenon DEF Min

LEMMA MaxOf ==
  ASSUME NEW S \in SUBSET Nat, S # {}, NEW b \in Nat, \A x \in S : x <= b
  PROVE  Max(S) \in S /\ \A y \in S : y <= Max(S)
<1> DEFINE T == {k \in Nat : \E x \in S : k + x = b}
<1>1. T \in SUBSET Nat /\ T # {}
  <2>1. PICK x \in S : TRUE
    OBVIOUS
  <2>2. b - x \in Nat /\ (b - x) + x = b
    OBVIOUS
  <2> QED BY <2>2
<1>2. PICK z \in T : \A y \in T : z <= y
  BY <1>1, LeastOf
<1>3. PICK x \in S : z + x = b
  OBVIOUS
<1>4. \A y \in S : x >= y
  <2> TAKE y \in S
  <2>1. b - y \in T
    OBVIOUS
  <2>2. z <= b - y
    BY <1>2, <2>1
  <2>3. x \in Nat /\ y \in Nat /\ z \in Nat
    OBVIOUS
  <2> HIDE DEF T
  <2> QED BY <1>3, <2>2, <2>3
<1>5. Max(S) \in S /\ \A y \in S : Max(S) >= y
  BY <1>4, Zenon DEF Max
<1>6. Max(S) \in Nat
  BY <1>5
<1> QED BY <1>5, <1>6

\* The element a sum takes first, and the function it is computed by.
First(s) == CHOOSE x \in s : TRUE
Sums(d, S, f) ==
  f = [s \in SUBSET S |-> IF s = {} THEN 0 ELSE Len(d[First(s)]) + f[s \ {First(s)}]]

LEMMA BytesChoose ==
  ASSUME NEW d, NEW S
  PROVE  Bytes(d, S) = (CHOOSE f : Sums(d, S, f))[S]
  BY Zenon DEF Bytes, MapThenSumSet, MapThenFoldSet, Sums, First

\* Induction on numbers, for a set of them.
LEMMA EveryNumber ==
  ASSUME NEW T, 0 \in T, \A k \in Nat : k \in T => k + 1 \in T
  PROVE  \A k \in Nat : k \in T
<1> SUFFICES ASSUME NEW k \in Nat, k \notin T PROVE FALSE
  OBVIOUS
<1>1. PICK x \in Nat \ T : \A y \in Nat \ T : x <= y
  <2>1. Nat \ T \in SUBSET Nat /\ Nat \ T # {}
    OBVIOUS
  <2> QED BY <2>1, LeastOf
<1>2. x # 0 /\ x - 1 \in Nat /\ (x - 1) + 1 = x
  BY <1>1
<1>3. x - 1 \in T
  BY <1>1, <1>2
<1> QED BY <1>1, <1>2, <1>3

LEMMA FirstIn ==
  ASSUME NEW s, s # {}
  PROVE  First(s) \in s
  BY Zenon DEF First

LEMMA WithoutFirst ==
  ASSUME NEW s, IsFiniteSet(s), s # {}
  PROVE  /\ IsFiniteSet(s \ {First(s)}) /\ Cardinality(s) \in Nat
         /\ Cardinality(s \ {First(s)}) \in Nat
         /\ Cardinality(s \ {First(s)}) + 1 = Cardinality(s)
<1>1. First(s) \in s
  BY FirstIn
<1>2. Cardinality(s) \in Nat
  BY FS_CardinalityType
<1>3. IsFiniteSet(s \ {First(s)}) /\ Cardinality(s \ {First(s)}) = Cardinality(s) - 1
  BY <1>1, FS_RemoveElement
<1>4. Cardinality(s \ {First(s)}) \in Nat
  BY <1>3, FS_CardinalityType
<1> QED BY <1>2, <1>3, <1>4

\* The recursion has a solution on a finite set, by induction on the size of
\* the subsets it is solved for.
UpTo(S, k) == {s \in SUBSET S : Cardinality(s) <= k}
Solves(d, S, k, f) ==
  f = [s \in UpTo(S, k) |-> IF s = {} THEN 0 ELSE Len(d[First(s)]) + f[s \ {First(s)}]]

LEMMA SolvesMore ==
  ASSUME NEW d, NEW S, IsFiniteSet(S), NEW k \in Nat, NEW f, Solves(d, S, k, f)
  PROVE  \E g : Solves(d, S, k + 1, g)
<1> DEFINE g == [s \in UpTo(S, k + 1) |->
                   IF s = {} THEN 0 ELSE Len(d[First(s)]) + f[s \ {First(s)}]]
<1>1. \A s \in UpTo(S, k) : s \in UpTo(S, k + 1) /\ g[s] = f[s]
  <2> TAKE s \in UpTo(S, k)
  <2>1. s \in SUBSET S /\ Cardinality(s) <= k
    BY DEF UpTo
  <2>2. Cardinality(s) \in Nat
    BY <2>1, FS_Subset, FS_CardinalityType
  <2>3. s \in UpTo(S, k + 1)
    BY <2>1, <2>2 DEF UpTo
  <2>4. f[s] = IF s = {} THEN 0 ELSE Len(d[First(s)]) + f[s \ {First(s)}]
    BY Zenon DEF Solves
  <2> QED BY <2>3, <2>4, Zenon
<1>2. \A s \in UpTo(S, k + 1) : s # {} => s \ {First(s)} \in UpTo(S, k)
  <2> SUFFICES ASSUME NEW s \in UpTo(S, k + 1), s # {}
               PROVE  s \ {First(s)} \in UpTo(S, k)
    OBVIOUS
  <2>1. s \in SUBSET S /\ Cardinality(s) <= k + 1
    BY DEF UpTo
  <2>2. IsFiniteSet(s)
    BY <2>1, FS_Subset
  <2>3. Cardinality(s \ {First(s)}) <= k
    BY <2>1, <2>2, WithoutFirst
  <2>4. s \ {First(s)} \in SUBSET S
    BY <2>1
  <2> QED BY <2>3, <2>4 DEF UpTo
<1>3. \A s \in UpTo(S, k + 1) : s # {} => f[s \ {First(s)}] = g[s \ {First(s)}]
  BY <1>1, <1>2, Zenon
<1>4. g = [s \in UpTo(S, k + 1) |->
             IF s = {} THEN 0 ELSE Len(d[First(s)]) + g[s \ {First(s)}]]
  <2> DEFINE h == [s \in UpTo(S, k + 1) |->
                     IF s = {} THEN 0 ELSE Len(d[First(s)]) + g[s \ {First(s)}]]
  <2>1. \A s \in UpTo(S, k + 1) : g[s] = h[s]
    <3> TAKE s \in UpTo(S, k + 1)
    <3>1. CASE s = {}
      <4>1. g[s] = 0 /\ h[s] = 0
        BY <3>1, Zenon
      <4> QED BY <4>1
    <3>2. CASE s # {}
      <4>1. g[s] = Len(d[First(s)]) + f[s \ {First(s)}]
        BY <3>2, Zenon
      <4>2. h[s] = Len(d[First(s)]) + g[s \ {First(s)}]
        BY <3>2, Zenon
      <4>3. f[s \ {First(s)}] = g[s \ {First(s)}]
        BY <1>3, <3>2
      <4> HIDE DEF g, h
      <4> QED BY <4>1, <4>2, <4>3, Zenon
    <3> QED BY <3>1, <3>2
  <2>2. g = [s \in UpTo(S, k + 1) |-> g[s]]
    OBVIOUS
  <2>3. h = [s \in UpTo(S, k + 1) |-> h[s]]
    OBVIOUS
  <2> HIDE DEF g, h
  <2>4. g = h
    BY <2>1, <2>2, <2>3, Zenon
  <2> QED BY <2>4 DEF h
<1>5. Solves(d, S, k + 1, g)
  BY <1>4, Zenon DEF Solves
<1> HIDE DEF g
<1> QED BY <1>5

LEMMA SolvesNone ==
  ASSUME NEW d, NEW S, IsFiniteSet(S)
  PROVE  \E f : Solves(d, S, 0, f)
<1> DEFINE f == [s \in UpTo(S, 0) |-> 0]
<1>1. UpTo(S, 0) \subseteq {{}}
  <2> SUFFICES ASSUME NEW s \in UpTo(S, 0) PROVE s = {}
    OBVIOUS
  <2>1. IsFiniteSet(s) /\ Cardinality(s) <= 0
    BY FS_Subset DEF UpTo
  <2>2. Cardinality(s) = 0
    BY <2>1, FS_CardinalityType
  <2> QED BY <2>1, <2>2, FS_EmptySet
<1>2. f = [s \in UpTo(S, 0) |-> IF s = {} THEN 0 ELSE Len(d[First(s)]) + f[s \ {First(s)}]]
  BY <1>1, Zenon
<1>3. Solves(d, S, 0, f)
  BY <1>2, Zenon DEF Solves
<1> QED BY <1>3

LEMMA SumsExist ==
  ASSUME NEW d, NEW S, IsFiniteSet(S)
  PROVE  \E f : Sums(d, S, f)
<1> DEFINE T == {k \in Nat : \E f : Solves(d, S, k, f)}
<1>1. 0 \in T
  BY SolvesNone
<1>2. \A k \in Nat : k \in T => k + 1 \in T
  <2> SUFFICES ASSUME NEW k \in Nat, k \in T PROVE k + 1 \in T
    OBVIOUS
  <2>1. PICK f : Solves(d, S, k, f)
    OBVIOUS
  <2>2. \E g : Solves(d, S, k + 1, g)
    BY <2>1, SolvesMore
  <2> QED BY <2>2
<1>3. \A k \in Nat : k \in T
  <2> HIDE DEF T
  <2> QED BY <1>1, <1>2, EveryNumber
<1>4. Cardinality(S) \in Nat
  BY FS_CardinalityType
<1>5. PICK f : Solves(d, S, Cardinality(S), f)
  BY <1>3, <1>4
<1>6. UpTo(S, Cardinality(S)) = SUBSET S
  BY FS_Subset DEF UpTo
<1>7. Sums(d, S, f)
  BY <1>5, <1>6, Zenon DEF Solves, Sums
<1> QED BY <1>7

\* Two solutions agree where both are defined.
LEMMA SumsAgree ==
  ASSUME NEW d, NEW S, IsFiniteSet(S), NEW U, NEW f, NEW g, Sums(d, S, f), Sums(d, U, g)
  PROVE  \A s \in SUBSET (S \cap U) : f[s] = g[s]
<1> DEFINE C == {k \in Nat : \E s \in SUBSET (S \cap U) : Cardinality(s) = k /\ f[s] # g[s]}
<1> SUFFICES ASSUME NEW r \in SUBSET (S \cap U), f[r] # g[r] PROVE FALSE
  OBVIOUS
<1>1. \A s \in SUBSET (S \cap U) : IsFiniteSet(s) /\ Cardinality(s) \in Nat
  BY FS_Subset, FS_CardinalityType
<1>2. C \in SUBSET Nat /\ C # {}
  BY <1>1
<1>3. PICK k \in C : \A y \in C : k <= y
  BY <1>2, LeastOf
<1>4. PICK s \in SUBSET (S \cap U) : Cardinality(s) = k /\ f[s] # g[s]
  OBVIOUS
<1> DEFINE t == s \ {First(s)}
<1>5. f[s] = IF s = {} THEN 0 ELSE Len(d[First(s)]) + f[t]
  <2>1. s \in SUBSET S
    OBVIOUS
  <2> QED BY <2>1, Zenon DEF Sums
<1>6. g[s] = IF s = {} THEN 0 ELSE Len(d[First(s)]) + g[t]
  <2>1. s \in SUBSET U
    OBVIOUS
  <2> QED BY <2>1, Zenon DEF Sums
<1>7. s # {}
  BY <1>4, <1>5, <1>6
<1>8. Cardinality(t) \in Nat /\ Cardinality(t) + 1 = k
  BY <1>1, <1>4, <1>7, WithoutFirst
<1>9. t \in SUBSET (S \cap U)
  OBVIOUS
<1>10. k \in Nat
  BY <1>2
<1>11. f[t] = g[t]
  <2> SUFFICES ASSUME f[t] # g[t] PROVE FALSE
    OBVIOUS
  <2>1. Cardinality(t) \in C
    BY <1>8, <1>9
  <2>2. k <= Cardinality(t)
    BY <1>3, <2>1
  <2> HIDE DEF t, C
  <2> QED BY <1>8, <1>10, <2>2
<1> HIDE DEF t
<1> QED BY <1>4, <1>5, <1>6, <1>7, <1>11, Zenon

\* A sum is the first length and the sum of the others.
LEMMA BytesUnfold ==
  ASSUME NEW d, NEW S, IsFiniteSet(S)
  PROVE  /\ S = {} => Bytes(d, S) = 0
         /\ S # {} => Bytes(d, S) = Len(d[First(S)]) + Bytes(d, S \ {First(S)})
<1> DEFINE U == S \ {First(S)}
           f == CHOOSE h : Sums(d, S, h)
           g == CHOOSE h : Sums(d, U, h)
<1>1. IsFiniteSet(U)
  BY FS_RemoveElement
<1>2. Sums(d, S, f)
  BY SumsExist, Zenon
<1>3. Sums(d, U, g)
  <2>1. \E h : Sums(d, U, h)
    BY <1>1, SumsExist
  <2> HIDE DEF U
  <2> QED BY <2>1, Zenon
<1>4. Bytes(d, S) = f[S] /\ Bytes(d, U) = g[U]
  <2>1. Bytes(d, S) = f[S]
    BY BytesChoose, Zenon
  <2>2. Bytes(d, U) = g[U]
    <3> HIDE DEF U
    <3> QED BY BytesChoose, Zenon
  <2> QED BY <2>1, <2>2
<1> HIDE DEF f, g
<1>5. f[U] = g[U]
  <2>1. U \in SUBSET (S \cap U)
    OBVIOUS
  <2> HIDE DEF U
  <2> QED BY <1>2, <1>3, <2>1, SumsAgree
<1>6. f[S] = IF S = {} THEN 0 ELSE Len(d[First(S)]) + f[U]
  <2>1. S \in SUBSET S
    OBVIOUS
  <2> QED BY <1>2, <2>1, Zenon DEF Sums
<1> HIDE DEF U
<1>7. S # {} => Bytes(d, S) = Len(d[First(S)]) + Bytes(d, U)
  BY <1>4, <1>5, <1>6, Zenon
<1>8. S = {} => Bytes(d, S) = 0
  BY <1>4, <1>6
<1> QED BY <1>7, <1>8 DEF U

\* The segments of S have lengths.
Sized(d, S) == IsFiniteSet(S) /\ \A i \in S : Len(d[i]) \in Nat

LEMMA SizedSubset ==
  ASSUME NEW d, NEW S, Sized(d, S), NEW T \in SUBSET S
  PROVE  Sized(d, T) /\ Cardinality(T) \in Nat
  BY FS_Subset, FS_CardinalityType DEF Sized

LEMMA BytesNat ==
  ASSUME NEW d, NEW S, Sized(d, S)
  PROVE  Bytes(d, S) \in Nat
<1> DEFINE C == {k \in Nat : \E s \in SUBSET S : Cardinality(s) = k /\ Bytes(d, s) \notin Nat}
<1> SUFFICES ASSUME Bytes(d, S) \notin Nat PROVE FALSE
  OBVIOUS
<1>1. S \in SUBSET S
  OBVIOUS
<1>2. C \in SUBSET Nat /\ C # {}
  BY <1>1, SizedSubset
<1>3. PICK k \in C : \A y \in C : k <= y
  BY <1>2, LeastOf
<1>4. PICK s \in SUBSET S : Cardinality(s) = k /\ Bytes(d, s) \notin Nat
  OBVIOUS
<1>5. Sized(d, s) /\ k \in Nat
  BY <1>2, SizedSubset
<1>6. s # {}
  <2>1. IsFiniteSet(s)
    BY <1>5 DEF Sized
  <2>2. s = {} => Bytes(d, s) = 0
    BY <2>1, BytesUnfold
  <2> HIDE DEF C
  <2> QED BY <1>4, <2>2
<1> DEFINE t == s \ {First(s)}
<1>7. Bytes(d, s) = Len(d[First(s)]) + Bytes(d, t)
  BY <1>5, <1>6, BytesUnfold DEF Sized
<1>8. Cardinality(t) \in Nat /\ Cardinality(t) + 1 = k
  BY <1>4, <1>5, <1>6, WithoutFirst DEF Sized
<1>9. Bytes(d, t) \in Nat
  <2> SUFFICES ASSUME Bytes(d, t) \notin Nat PROVE FALSE
    OBVIOUS
  <2>1. t \in SUBSET S
    OBVIOUS
  <2>2. Cardinality(t) \in C
    BY <1>8, <2>1
  <2>3. k <= Cardinality(t)
    BY <1>3, <2>2
  <2> HIDE DEF t, C
  <2> QED BY <1>5, <1>8, <2>3
<1>10. Len(d[First(s)]) \in Nat
  BY <1>5, <1>6, FirstIn DEF Sized
<1> HIDE DEF t
<1> QED BY <1>4, <1>7, <1>9, <1>10

\* Any element may be taken first.
TakesAny(d, s) == \A x \in s : Bytes(d, s) = Len(d[x]) + Bytes(d, s \ {x})

LEMMA TakesAnyStep ==
  ASSUME NEW d, NEW s, Sized(d, s),
         \A t \in SUBSET s : t # s => TakesAny(d, t)
  PROVE  TakesAny(d, s)
<1> SUFFICES ASSUME NEW x \in s PROVE Bytes(d, s) = Len(d[x]) + Bytes(d, s \ {x})
  BY DEF TakesAny
<1> DEFINE c == First(s)
<1>1. c \in s /\ Bytes(d, s) = Len(d[c]) + Bytes(d, s \ {c})
  BY BytesUnfold, FirstIn DEF Sized
<1> HIDE DEF c
<1>2. CASE x = c
  BY <1>1, <1>2
<1>3. CASE x # c
  <2>1. Bytes(d, s \ {c}) = Len(d[x]) + Bytes(d, (s \ {c}) \ {x})
    <3>1. TakesAny(d, s \ {c})
      BY <1>1
    <3>2. x \in s \ {c}
      BY <1>3
    <3> QED BY <3>1, <3>2, Zenon DEF TakesAny
  <2>2. Bytes(d, s \ {x}) = Len(d[c]) + Bytes(d, (s \ {x}) \ {c})
    <3>1. TakesAny(d, s \ {x})
      OBVIOUS
    <3>2. c \in s \ {x}
      BY <1>1, <1>3
    <3> QED BY <3>1, <3>2, Zenon DEF TakesAny
  <2>3. (s \ {x}) \ {c} = (s \ {c}) \ {x}
    OBVIOUS
  <2>4. Bytes(d, (s \ {c}) \ {x}) \in Nat
    <3>1. Sized(d, (s \ {c}) \ {x})
      BY SizedSubset
    <3> QED BY <3>1, BytesNat
  <2>5. Len(d[x]) \in Nat /\ Len(d[c]) \in Nat
    BY <1>1 DEF Sized
  <2> DEFINE r == Bytes(d, (s \ {c}) \ {x})
  <2>6. Bytes(d, s) = Len(d[c]) + (Len(d[x]) + r)
    BY <1>1, <2>1
  <2>7. Bytes(d, s \ {x}) = Len(d[c]) + r
    BY <2>2, <2>3, Zenon
  <2> HIDE DEF r
  <2> QED BY <2>4, <2>5, <2>6, <2>7 DEF r
<1> QED BY <1>2, <1>3

LEMMA BytesTake ==
  ASSUME NEW d, NEW S, Sized(d, S)
  PROVE  TakesAny(d, S)
<1> DEFINE C == {k \in Nat : \E s \in SUBSET S : Cardinality(s) = k /\ ~TakesAny(d, s)}
<1> SUFFICES ASSUME ~TakesAny(d, S) PROVE FALSE
  OBVIOUS
<1>1. S \in SUBSET S
  OBVIOUS
<1>2. C \in SUBSET Nat /\ C # {}
  BY <1>1, SizedSubset
<1>3. PICK k \in C : \A y \in C : k <= y
  BY <1>2, LeastOf
<1>4. PICK s \in SUBSET S : Cardinality(s) = k /\ ~TakesAny(d, s)
  OBVIOUS
<1>5. Sized(d, s) /\ k \in Nat
  BY <1>2, SizedSubset
<1>6. PICK t \in SUBSET s : t # s /\ ~TakesAny(d, t)
  BY <1>4, <1>5, TakesAnyStep
<1>7. Cardinality(t) \in Nat /\ Cardinality(t) <= k /\ Cardinality(t) # k
  BY <1>4, <1>5, <1>6, FS_Subset, FS_CardinalityType DEF Sized
<1>8. Cardinality(t) \in C
  BY <1>6, <1>7
<1>9. k <= Cardinality(t)
  BY <1>3, <1>8
<1> HIDE DEF C
<1> QED BY <1>5, <1>7, <1>9

LEMMA BytesWith ==
  ASSUME NEW d, NEW S, NEW x, x \notin S, Sized(d, S \cup {x})
  PROVE  Bytes(d, S \cup {x}) = Bytes(d, S) + Len(d[x]) /\ Bytes(d, S) \in Nat
<1>1. TakesAny(d, S \cup {x})
  BY BytesTake
<1>2. Bytes(d, S \cup {x}) = Len(d[x]) + Bytes(d, (S \cup {x}) \ {x})
  BY <1>1, Zenon DEF TakesAny
<1>3. (S \cup {x}) \ {x} = S
  OBVIOUS
<1>4. Sized(d, S)
  BY SizedSubset
<1>5. Bytes(d, S) \in Nat /\ Len(d[x]) \in Nat
  BY <1>4, BytesNat DEF Sized
<1>6. Bytes(d, S \cup {x}) = Len(d[x]) + Bytes(d, S)
  BY <1>2, <1>3, Zenon
<1> QED BY <1>5, <1>6

\* Directories whose segments have the same lengths have the same sums.
LEMMA BytesSame ==
  ASSUME NEW d, NEW e, NEW S, Sized(d, S), \A i \in S : Len(e[i]) = Len(d[i])
  PROVE  Bytes(e, S) = Bytes(d, S)
<1> DEFINE C == {k \in Nat : \E s \in SUBSET S : Cardinality(s) = k /\ Bytes(e, s) # Bytes(d, s)}
<1> SUFFICES ASSUME Bytes(e, S) # Bytes(d, S) PROVE FALSE
  OBVIOUS
<1>1. S \in SUBSET S
  OBVIOUS
<1>2. C \in SUBSET Nat /\ C # {}
  BY <1>1, SizedSubset
<1>3. PICK k \in C : \A y \in C : k <= y
  BY <1>2, LeastOf
<1>4. PICK s \in SUBSET S : Cardinality(s) = k /\ Bytes(e, s) # Bytes(d, s)
  OBVIOUS
<1>5. IsFiniteSet(s) /\ k \in Nat
  BY <1>2, SizedSubset DEF Sized
<1> DEFINE t == s \ {First(s)}
<1>6. s # {}
  BY <1>4, <1>5, BytesUnfold, Zenon
<1>7. Bytes(d, s) = Len(d[First(s)]) + Bytes(d, t) /\ Bytes(e, s) = Len(e[First(s)]) + Bytes(e, t)
  BY <1>5, <1>6, BytesUnfold
<1>8. Cardinality(t) \in Nat /\ Cardinality(t) + 1 = k
  BY <1>4, <1>5, <1>6, WithoutFirst
<1>9. Len(e[First(s)]) = Len(d[First(s)])
  BY <1>6, FirstIn
<1>10. Bytes(d, t) # Bytes(e, t)
  <2> HIDE DEF t, C
  <2> QED BY <1>4, <1>7, <1>9, Zenon
<1>11. t \in SUBSET S
  OBVIOUS
<1>12. Cardinality(t) \in C
  BY <1>8, <1>10, <1>11
<1>13. k <= Cardinality(t)
  BY <1>3, <1>12
<1> HIDE DEF t, C
<1> QED BY <1>5, <1>8, <1>13

\* The sum over two disjoint sets.
LEMMA BytesSplit ==
  ASSUME NEW d, NEW S, NEW T, S \cap T = {}, Sized(d, S \cup T)
  PROVE  Bytes(d, S \cup T) = Bytes(d, S) + Bytes(d, T)
<1> DEFINE Adds(s) == Bytes(d, S \cup s) = Bytes(d, S) + Bytes(d, s)
           C == {k \in Nat : \E s \in SUBSET T : Cardinality(s) = k /\ ~Adds(s)}
<1> SUFFICES ASSUME ~Adds(T) PROVE FALSE
  OBVIOUS
<1>1. T \in SUBSET T
  OBVIOUS
<1>2. \A s \in SUBSET T : IsFiniteSet(s) /\ Cardinality(s) \in Nat
  BY SizedSubset DEF Sized
<1>3. C \in SUBSET Nat /\ C # {}
  BY <1>1, <1>2
<1>4. PICK k \in C : \A y \in C : k <= y
  BY <1>3, LeastOf
<1>5. PICK s \in SUBSET T : Cardinality(s) = k /\ ~Adds(s)
  OBVIOUS
<1>6. Bytes(d, S) \in Nat /\ Bytes(d, {}) = 0
  <2> HIDE DEF Adds, C
  <2>1. Bytes(d, S) \in Nat
    BY SizedSubset, BytesNat
  <2>2. Bytes(d, {}) = 0
    BY BytesUnfold, FS_EmptySet
  <2> QED BY <2>1, <2>2
<1>7. s # {}
  <2> SUFFICES ASSUME s = {} PROVE FALSE
    OBVIOUS
  <2>1. S \cup s = S
    OBVIOUS
  <2>2. Bytes(d, S \cup s) = Bytes(d, S) /\ Bytes(d, s) = 0
    BY <1>6, <2>1
  <2> QED BY <1>5, <1>6, <2>2
<1> DEFINE x == First(s)
           t == s \ {x}
<1>8. x \in s
  BY <1>7, FirstIn
<1>9. Cardinality(t) \in Nat /\ Cardinality(t) + 1 = k
  BY <1>2, <1>5, <1>7, WithoutFirst
<1> HIDE DEF x
<1>10. t \in SUBSET T /\ t \cup {x} = s /\ (S \cup t) \cup {x} = S \cup s
       /\ x \notin t /\ x \notin S \cup t
  BY <1>8
<1>11. Sized(d, t \cup {x}) /\ Sized(d, (S \cup t) \cup {x})
  BY <1>10, SizedSubset
<1>12. Bytes(d, s) = Bytes(d, t) + Len(d[x]) /\ Bytes(d, t) \in Nat
  <2> HIDE DEF t
  <2> QED BY <1>10, <1>11, BytesWith
<1>13. Bytes(d, S \cup s) = Bytes(d, S \cup t) + Len(d[x]) /\ Bytes(d, S \cup t) \in Nat
  <2> DEFINE u == S \cup t
  <2> HIDE DEF t, u
  <2>1. x \notin u /\ u \cup {x} = S \cup s /\ Sized(d, u \cup {x})
    BY <1>10, <1>11 DEF u
  <2>2. Bytes(d, u \cup {x}) = Bytes(d, u) + Len(d[x]) /\ Bytes(d, u) \in Nat
    BY <2>1, BytesWith
  <2> QED BY <2>1, <2>2 DEF u
<1>14. Adds(t)
  <2> SUFFICES ASSUME ~Adds(t) PROVE FALSE
    OBVIOUS
  <2> HIDE DEF t, Adds
  <2>1. Cardinality(t) \in C
    BY <1>9, <1>10
  <2>2. k <= Cardinality(t)
    BY <1>4, <2>1
  <2>3. k \in Nat
    BY <1>3
  <2> HIDE DEF C
  <2> QED BY <1>9, <2>2, <2>3
<1>15. Len(d[x]) \in Nat
  BY <1>8 DEF Sized
<1> HIDE DEF t, C
<1> QED BY <1>5, <1>6, <1>12, <1>13, <1>14, <1>15

(***************************************************************************)
(* Where segments start.                                                   *)
(***************************************************************************)
LEMMA TypedSized ==
  ASSUME NEW d, NEW s, NEW b, Typed(d, s, b), NEW S \in SUBSET DOMAIN d
  PROVE  Sized(d, S)
  BY FS_Subset DEF Typed, Sized

LEMMA AtType ==
  ASSUME NEW d, NEW s, NEW b, Typed(d, s, b), NEW i
  PROVE  At(d, b, i) \in Nat /\ b.lsn <= At(d, b, i)
<1>1. Bytes(d, Below(d, b, i)) \in Nat
  BY TypedSized, BytesNat DEF Below
<1> QED BY <1>1 DEF At, Typed

\* The first segment starts at the base.
LEMMA AtFirst ==
  ASSUME NEW d, NEW s, NEW b, Typed(d, s, b)
  PROVE  At(d, b, b.first_segment) = b.lsn
<1>1. Below(d, b, b.first_segment) = {}
  BY DEF Below, Typed
<1>2. Bytes(d, {}) = 0
  BY BytesUnfold, FS_EmptySet
<1> QED BY <1>1, <1>2 DEF At, Typed

\* A segment starts where the one before it ends.
LEMMA AtNext ==
  ASSUME NEW d, NEW s, NEW b, Typed(d, s, b), NEW i \in DOMAIN d, i >= b.first_segment
  PROVE  At(d, b, i + 1) = At(d, b, i) + Len(d[i]) /\ i \in Nat /\ Len(d[i]) \in Nat
<1> DEFINE B == Below(d, b, i)
<1>1. Below(d, b, i + 1) = B \cup {i} /\ i \notin B /\ i \in Nat
  BY DEF Below, Typed
<1>2. Sized(d, B \cup {i})
  BY TypedSized DEF Below
<1>3. Bytes(d, B \cup {i}) = Bytes(d, B) + Len(d[i]) /\ Bytes(d, B) \in Nat
  <2> HIDE DEF B
  <2> QED BY <1>1, <1>2, BytesWith
<1>4. b.lsn \in Nat /\ Len(d[i]) \in Nat
  BY DEF Typed
<1> HIDE DEF B
<1>5. At(d, b, i + 1) = b.lsn + Bytes(d, B \cup {i}) /\ At(d, b, i) = b.lsn + Bytes(d, B)
  BY <1>1 DEF At, B
<1> QED BY <1>1, <1>3, <1>4, <1>5

\* Where segment i starts depends on the lengths before it only.
LEMMA AtSame ==
  ASSUME NEW d, NEW s, NEW b, Typed(d, s, b), NEW e, NEW c, NEW i,
         c.lsn = b.lsn, Below(e, c, i) = Below(d, b, i),
         \A j \in Below(d, b, i) : Len(e[j]) = Len(d[j])
  PROVE  At(e, c, i) = At(d, b, i)
<1>1. Sized(d, Below(d, b, i))
  BY TypedSized DEF Below
<1>2. Bytes(e, Below(d, b, i)) = Bytes(d, Below(d, b, i))
  BY <1>1, BytesSame
<1> QED BY <1>2, Zenon DEF At

\* A base that has moved to the start of segment m leaves later segments where
\* they were.
LEMMA AtMoved ==
  ASSUME NEW d, NEW s, NEW b, Typed(d, s, b), NEW c, NEW m \in Nat, NEW i \in Nat,
         b.first_segment <= m, m <= i, c.first_segment = m, c.lsn = At(d, b, m)
  PROVE  At(d, c, i) = At(d, b, i)
<1>1. Below(d, b, i) = Below(d, b, m) \cup Below(d, c, i)
      /\ Below(d, b, m) \cap Below(d, c, i) = {}
  BY DEF Below, Typed
<1>2. Sized(d, Below(d, b, m) \cup Below(d, c, i))
  BY <1>1, TypedSized DEF Below
<1>3. Bytes(d, Below(d, b, i)) = Bytes(d, Below(d, b, m)) + Bytes(d, Below(d, c, i))
  BY <1>1, <1>2, BytesSplit
<1>4. Bytes(d, Below(d, b, m)) \in Nat /\ Bytes(d, Below(d, c, i)) \in Nat
  BY TypedSized, BytesNat DEF Below
<1>5. b.lsn \in Nat
  BY DEF Typed
<1>6. /\ At(d, c, i) = At(d, b, m) + Bytes(d, Below(d, c, i))
      /\ At(d, b, m) = b.lsn + Bytes(d, Below(d, b, m))
      /\ At(d, b, i) = b.lsn + Bytes(d, Below(d, b, i))
  BY Zenon DEF At
<1> QED BY <1>3, <1>4, <1>5, <1>6

LEMMA AtGrows ==
  ASSUME NEW d, NEW s, NEW b, Typed(d, s, b), NEW i \in Nat, NEW j \in Nat, i <= j
  PROVE  At(d, b, i) <= At(d, b, j)
<1> DEFINE M == {k \in Below(d, b, j) : k >= i}
<1>1. Below(d, b, j) = Below(d, b, i) \cup M /\ Below(d, b, i) \cap M = {}
  BY DEF Below, Typed
<1>2. Sized(d, Below(d, b, i) \cup M) /\ Sized(d, M) /\ Sized(d, Below(d, b, i))
  BY <1>1, TypedSized DEF Below
<1> HIDE DEF M
<1>3. Bytes(d, Below(d, b, j)) = Bytes(d, Below(d, b, i)) + Bytes(d, M)
  BY <1>1, <1>2, BytesSplit
<1>4. Bytes(d, Below(d, b, i)) \in Nat /\ Bytes(d, M) \in Nat
  BY <1>2, BytesNat
<1>5. b.lsn \in Nat
  BY DEF Typed
<1>6. /\ At(d, b, i) = b.lsn + Bytes(d, Below(d, b, i))
      /\ At(d, b, j) = b.lsn + Bytes(d, Below(d, b, j))
  BY Zenon DEF At
<1> QED BY <1>3, <1>4, <1>5, <1>6

-----------------------------------------------------------------------------
(***************************************************************************)
(* What steps on the directory keep.                                       *)
(***************************************************************************)
LEMMA Whole2 ==
  ASSUME NEW x \in Nat
  PROVE  /\ Down(x) \in Nat /\ Down(x) <= x /\ Down(x) % 2 = 0
         /\ x % 2 = 0 => Down(x) = x
         /\ \A y \in Nat : (x <= y \/ Down(x) <= y) => Down(x) <= Down(y)
<1>1. Down(x) \in Nat /\ Down(x) <= x
  BY DEF Down
<1>2. Down(x) % 2 = 0 /\ (x % 2 = 0 => Down(x) = x)
  BY DEF Down
<1>3. \A y \in Nat : x <= y => Down(x) <= Down(y)
  BY DEF Down
<1>4. \A y \in Nat : Down(x) <= y => Down(x) <= Down(y)
  BY DEF Down
<1> QED BY <1>1, <1>2, <1>3, <1>4

LEMMA DirFacts ==
  ASSUME NEW d, NEW s, NEW b, NEW n, Dir(d, s, b, n)
  PROVE  /\ n \in Int /\ b.first_segment \in Nat /\ b.lsn \in Nat
         /\ n + 1 >= b.first_segment
         /\ \A i \in Nat : i >= b.first_segment => (i \in DOMAIN d <=> i <= n)
         /\ \A i \in DOMAIN d : i \in Nat /\ i <= n /\ Len(d[i]) \in Nat /\ d[i] \in Seq(Nat)
                                /\ s[i] \in Nat /\ s[i] <= Len(d[i])
         /\ n >= b.first_segment => n \in DOMAIN d /\ n \in Nat
<1>1. /\ n \in Int /\ b.first_segment \in Nat /\ b.lsn \in Nat /\ n + 1 >= b.first_segment
      /\ {i \in DOMAIN d : i >= b.first_segment} = b.first_segment .. n
      /\ DOMAIN d \in SUBSET Nat
  BY DEF Dir, Typed, Contiguous
<1>2. \A i \in Nat : i >= b.first_segment => (i \in DOMAIN d <=> i <= n)
  BY <1>1
<1>3. \A i \in DOMAIN d : Len(d[i]) \in Nat /\ d[i] \in Seq(Nat) /\ s[i] \in Nat /\ s[i] <= Len(d[i])
  BY DEF Dir, Typed
<1>4. \A i \in DOMAIN d : i \in Nat /\ i <= n
  BY <1>1, <1>2
<1>5. n >= b.first_segment => n \in DOMAIN d /\ n \in Nat
  BY <1>1, <1>2
<1> QED BY <1>1, <1>2, <1>3, <1>4, <1>5

\* Segments whose predecessors have kept their lengths have kept their place.
LEMMA AtKept ==
  ASSUME NEW d, NEW s, NEW b, NEW n, Typed(d, s, b), Contiguous(d, s, b, n),
         NEW e, NEW t, NEW c, NEW m, Typed(e, t, c), Contiguous(e, t, c, m),
         c.lsn = b.lsn, c.first_segment = b.first_segment,
         NEW k \in Int, k <= n + 1, k <= m + 1,
         \A j \in Nat : b.first_segment <= j /\ j < k => Len(e[j]) = Len(d[j])
  PROVE  \A i \in Int : i <= k => At(e, c, i) = At(d, b, i)
<1> SUFFICES ASSUME NEW i \in Int, i <= k PROVE At(e, c, i) = At(d, b, i)
  OBVIOUS
<1>1. /\ n \in Int /\ m \in Int /\ b.first_segment \in Nat
      /\ DOMAIN d \in SUBSET Nat /\ DOMAIN e \in SUBSET Nat
      /\ {j \in DOMAIN d : j >= b.first_segment} = b.first_segment .. n
      /\ {j \in DOMAIN e : j >= b.first_segment} = b.first_segment .. m
  BY DEF Typed, Contiguous
<1>2. \A j \in Nat : b.first_segment <= j /\ j < i => (j \in DOMAIN d /\ j \in DOMAIN e)
  BY <1>1
<1>3. Below(e, c, i) = Below(d, b, i)
  BY <1>1, <1>2 DEF Below
<1>4. \A j \in Below(d, b, i) : Len(e[j]) = Len(d[j])
  BY <1>1 DEF Below
<1> QED BY <1>3, <1>4, AtSame

\* More is synced.
LEMMA DirSynced ==
  ASSUME NEW d, NEW s, NEW b, NEW n, Dir(d, s, b, n), NEW t, t \in [DOMAIN d -> Nat],
         \A i \in DOMAIN d : t[i] >= s[i] /\ t[i] <= Len(d[i])
  PROVE  Dir(d, t, b, n) /\ DurableEnd(d, t, b, n) >= DurableEnd(d, s, b, n)
<1>1. Typed(d, t, b)
  BY DEF Dir, Typed
<1>2. \A i \in DOMAIN d : s[i] = Len(d[i]) => t[i] = Len(d[i])
  BY DirFacts
<1>3. Contiguous(d, t, b, n)
  BY <1>2 DEF Dir, Contiguous
<1>4. Dir(d, t, b, n)
  BY <1>1, <1>3 DEF Dir
<1>5. DurableEnd(d, t, b, n) >= DurableEnd(d, s, b, n)
  <2>1. CASE n < b.first_segment
    BY <2>1, DirFacts DEF DurableEnd
  <2>2. CASE ~(n < b.first_segment)
    <3>1. n \in DOMAIN d /\ s[n] \in Nat /\ t[n] \in Nat /\ t[n] >= s[n]
      BY <2>2, DirFacts
    <3>2. At(d, b, n) \in Nat
      BY <1>1, AtType
    <3>3. Down(t[n]) >= Down(s[n]) /\ Down(t[n]) \in Nat /\ Down(s[n]) \in Nat
      BY <3>1, Whole2
    <3> QED BY <2>2, <3>1, <3>2, <3>3 DEF DurableEnd
  <2> QED BY <2>1, <2>2
<1> QED BY <1>4, <1>5

\* The last segment loses part of what was not synced.
Cut(d, s, b, n, e, t) ==
  /\ DOMAIN e = DOMAIN d /\ e \in [DOMAIN d -> Seq(Nat)] /\ t \in [DOMAIN d -> Nat]
  /\ \A i \in DOMAIN d : /\ t[i] <= Len(e[i]) /\ Len(e[i]) <= Len(d[i]) /\ t[i] >= Down(s[i])
                         /\ \A k \in 1 .. Len(e[i]) : e[i][k] = d[i][k]
  /\ \A i \in DOMAIN d : i >= b.first_segment /\ i < n => Len(e[i]) = Len(d[i]) /\ t[i] = Len(d[i])

LEMMA DirCut ==
  ASSUME NEW d, NEW s, NEW b, NEW n, Dir(d, s, b, n), NEW e, NEW t, Cut(d, s, b, n, e, t)
  PROVE  /\ Dir(e, t, b, n) /\ At(e, b, n) = At(d, b, n)
         /\ DurableEnd(e, t, b, n) >= DurableEnd(d, s, b, n)
         /\ EndAt(e, b, n) <= EndAt(d, b, n)
<1>1. Typed(e, t, b)
  BY DEF Dir, Typed, Cut
<1>2. \A i \in DOMAIN d : Len(d[i]) = 0 => Len(e[i]) = 0
  <2> TAKE i \in DOMAIN d
  <2>1. Len(e[i]) \in Nat /\ Len(d[i]) \in Nat /\ Len(e[i]) <= Len(d[i])
    BY DirFacts DEF Cut
  <2> QED BY <2>1
<1>3. Contiguous(e, t, b, n)
  <2>1. /\ n \in Int /\ n >= b.first_segment - 1
        /\ {i \in DOMAIN e : i >= b.first_segment} = b.first_segment .. n
        /\ b.last_segment # None => b.first_segment <= b.last_segment /\ b.last_segment <= n
    BY DEF Dir, Contiguous, Cut
  <2>2. \A i \in DOMAIN e : i >= b.first_segment /\ i > b.last_segment => Len(e[i]) = 0
    BY <1>2 DEF Dir, Contiguous, Cut
  <2>3. \A i \in DOMAIN e : i >= b.first_segment /\ i < n =>
           Len(e[i]) > 0 /\ Len(e[i]) % 2 = 0 /\ t[i] = Len(e[i])
    BY DEF Dir, Contiguous, Cut
  <2> QED BY <2>1, <2>2, <2>3 DEF Contiguous
<1>4. \A i \in Int : i <= n => At(e, b, i) = At(d, b, i)
  <2>1. Typed(d, s, b) /\ Contiguous(d, s, b, n) /\ n \in Int /\ n <= n + 1
    BY DirFacts DEF Dir
  <2>2. \A j \in Nat : b.first_segment <= j /\ j < n => Len(e[j]) = Len(d[j])
    BY DirFacts DEF Cut
  <2> QED BY <1>1, <1>3, <2>1, <2>2, AtKept
<1>5. Placed(e, b)
  <2> SUFFICES ASSUME NEW i \in DOMAIN e, i >= b.first_segment, NEW k \in 1 .. Len(e[i])
               PROVE  e[i][k] = At(e, b, i) + Down(k - 1)
    BY DEF Placed
  <2>1. i \in DOMAIN d /\ i \in Int /\ i <= n /\ Len(e[i]) <= Len(d[i])
        /\ Len(e[i]) \in Nat /\ Len(d[i]) \in Nat
    BY DirFacts DEF Cut
  <2>2. k \in 1 .. Len(d[i]) /\ e[i][k] = d[i][k]
    BY <2>1 DEF Cut
  <2>3. d[i][k] = At(d, b, i) + Down(k - 1)
    BY <2>1, <2>2 DEF Dir, Placed
  <2> QED BY <1>4, <2>1, <2>2, <2>3
<1>6. At(e, b, n) = At(d, b, n) /\ At(d, b, n) \in Nat
  BY <1>4, DirFacts, AtType DEF Dir
<1>7. DurableEnd(e, t, b, n) >= DurableEnd(d, s, b, n) /\ EndAt(e, b, n) <= EndAt(d, b, n)
  <2>1. CASE n < b.first_segment
    BY <2>1, DirFacts DEF DurableEnd, EndAt
  <2>2. CASE ~(n < b.first_segment)
    <3>1. n \in DOMAIN d /\ s[n] \in Nat /\ t[n] \in Nat /\ t[n] >= Down(s[n])
          /\ Len(e[n]) \in Nat /\ Len(d[n]) \in Nat /\ Len(e[n]) <= Len(d[n])
      BY <2>2, DirFacts DEF Cut
    <3>2. Down(t[n]) >= Down(s[n]) /\ Down(Len(e[n])) <= Down(Len(d[n]))
      BY <3>1, Whole2
    <3>3. Down(t[n]) \in Nat /\ Down(s[n]) \in Nat /\ Down(Len(e[n])) \in Nat /\ Down(Len(d[n])) \in Nat
      BY <3>1, Whole2
    <3> QED BY <1>6, <2>2, <3>2, <3>3 DEF DurableEnd, EndAt
  <2> QED BY <2>1, <2>2, DirFacts
<1> QED BY <1>1, <1>3, <1>5, <1>6, <1>7 DEF Dir

\* A scan ends at the end of a last segment that is whole.
LEMMA EndWhole ==
  ASSUME NEW d, NEW s, NEW b, NEW n, Dir(d, s, b, n)
  PROVE  /\ EndAt(d, b, n) \in Nat /\ DurableEnd(d, s, b, n) \in Nat
         /\ DurableEnd(d, s, b, n) <= EndAt(d, b, n) /\ b.lsn <= EndAt(d, b, n)
         /\ n >= b.first_segment /\ Len(d[n]) % 2 = 0 => EndAt(d, b, n) = At(d, b, n) + Len(d[n])
         /\ n >= b.first_segment /\ Len(d[n]) % 2 = 0 /\ s[n] = Len(d[n])
              => DurableEnd(d, s, b, n) = At(d, b, n) + Len(d[n])
<1>1. CASE n < b.first_segment
  <2>1. n \in Int /\ b.first_segment \in Nat /\ b.lsn \in Nat /\ ~(n >= b.first_segment)
    BY <1>1, DirFacts
  <2>2. EndAt(d, b, n) = b.lsn /\ DurableEnd(d, s, b, n) = b.lsn
    BY <1>1, Zenon DEF EndAt, DurableEnd
  <2>3. /\ EndAt(d, b, n) \in Nat /\ DurableEnd(d, s, b, n) \in Nat
        /\ DurableEnd(d, s, b, n) <= EndAt(d, b, n) /\ b.lsn <= EndAt(d, b, n)
    BY <2>1, <2>2
  <2> QED BY <2>1, <2>3, Zenon
<1>2. CASE ~(n < b.first_segment)
  <2>1. n \in DOMAIN d /\ Len(d[n]) \in Nat /\ s[n] \in Nat /\ s[n] <= Len(d[n])
    BY <1>2, DirFacts
  <2>2. At(d, b, n) \in Nat /\ b.lsn <= At(d, b, n) /\ b.lsn \in Nat
    BY AtType, DirFacts DEF Dir
  <2>3. /\ Down(Len(d[n])) \in Nat /\ Down(s[n]) \in Nat /\ Down(s[n]) <= Down(Len(d[n]))
        /\ Len(d[n]) % 2 = 0 => Down(Len(d[n])) = Len(d[n])
    BY <2>1, Whole2
  <2>4. EndAt(d, b, n) = At(d, b, n) + Down(Len(d[n])) /\ DurableEnd(d, s, b, n) = At(d, b, n) + Down(s[n])
    BY <1>2, Zenon DEF EndAt, DurableEnd
  <2> QED BY <2>1, <2>2, <2>3, <2>4
<1> QED BY <1>1, <1>2, DirFacts

\* An empty segment is added behind the last one.
Created(d, s, i, e, t) ==
  /\ e = [j \in DOMAIN d \cup {i} |-> IF j = i THEN << >> ELSE d[j]]
  /\ t = [j \in DOMAIN d \cup {i} |-> IF j = i THEN 0 ELSE s[j]]

\* The last segment is one that may be followed by another.
Full(d, s, b, n) ==
  n >= b.first_segment => Len(d[n]) > 0 /\ Len(d[n]) % 2 = 0 /\ s[n] = Len(d[n])

Creates(d, s, b, n, i, e, t) ==
  Dir(d, s, b, n) /\ Full(d, s, b, n) /\ i = n + 1 /\ Created(d, s, i, e, t)

LEMMA DirCreated ==
  ASSUME NEW d, NEW s, NEW b, NEW n, NEW new, NEW e, NEW t, Creates(d, s, b, n, new, e, t)
  PROVE  /\ Dir(e, t, b, new) /\ Len(e[new]) = 0 /\ t[new] = 0
         /\ At(e, b, new) = EndAt(d, b, n)
         /\ EndAt(e, b, new) = EndAt(d, b, n) /\ DurableEnd(e, t, b, new) = EndAt(d, b, n)
         /\ new \in Nat /\ new >= b.first_segment /\ new \notin DOMAIN d
<1> SUFFICES ASSUME Dir(d, s, b, n),
                    n >= b.first_segment => Len(d[n]) > 0 /\ Len(d[n]) % 2 = 0 /\ s[n] = Len(d[n]),
                    Created(d, s, n + 1, e, t)
             PROVE  /\ Dir(e, t, b, n + 1) /\ Len(e[n + 1]) = 0 /\ t[n + 1] = 0
                    /\ At(e, b, n + 1) = EndAt(d, b, n)
                    /\ EndAt(e, b, n + 1) = EndAt(d, b, n)
                    /\ DurableEnd(e, t, b, n + 1) = EndAt(d, b, n)
                    /\ n + 1 \in Nat /\ n + 1 >= b.first_segment /\ n + 1 \notin DOMAIN d
  BY DEF Full, Creates
<1>1. n \in Int /\ n + 1 \in Nat /\ n + 1 >= b.first_segment /\ b.first_segment \in Nat /\ b.lsn \in Nat
  BY DirFacts
<1>2. /\ DOMAIN e = DOMAIN d \cup {n + 1} /\ DOMAIN t = DOMAIN e
      /\ e[n + 1] = << >> /\ t[n + 1] = 0
      /\ \A i \in DOMAIN d : i # n + 1 => e[i] = d[i] /\ t[i] = s[i]
  BY DEF Created
<1>3. \A i \in DOMAIN d : i # n + 1 /\ i <= n /\ i \in Nat
  <2> TAKE i \in DOMAIN d
  <2>1. i \in Nat /\ i <= n
    BY DirFacts
  <2> QED BY <1>1, <2>1
<1>4. \A i \in DOMAIN d : e[i] = d[i] /\ t[i] = s[i]
  BY <1>2, <1>3
<1>5. Typed(e, t, b)
  <2>1. IsFiniteSet(DOMAIN e) /\ DOMAIN e \in SUBSET Nat
    <3>1. IsFiniteSet(DOMAIN d) /\ DOMAIN d \in SUBSET Nat
      BY DEF Dir, Typed
    <3>2. IsFiniteSet(DOMAIN d \cup {n + 1})
      BY <3>1, FS_AddElement
    <3> QED BY <1>1, <1>2, <3>1, <3>2
  <2>2. e \in [DOMAIN e -> Seq(Nat)] /\ t \in [DOMAIN e -> Nat]
    <3>1. \A i \in DOMAIN e : e[i] \in Seq(Nat) /\ t[i] \in Nat
      <4> TAKE i \in DOMAIN e
      <4>1. CASE i = n + 1
        <5>1. << >> \in Seq(Nat) /\ 0 \in Nat
          OBVIOUS
        <5> QED BY <1>2, <4>1, <5>1, Zenon
      <4>2. CASE i \in DOMAIN d
        <5>1. d[i] \in Seq(Nat) /\ s[i] \in Nat
          BY <4>2, DirFacts
        <5> QED BY <1>4, <4>2, <5>1
      <4> QED BY <1>2, <4>1, <4>2
    <3>2. e = [j \in DOMAIN e |-> e[j]] /\ t = [j \in DOMAIN e |-> t[j]]
      BY <1>2 DEF Created
    <3> QED BY <3>1, <3>2
  <2>3. \A i \in DOMAIN e : t[i] <= Len(e[i])
    BY <1>2, <1>4, DirFacts
  <2>4. b \in [lsn : Nat, first_segment : Nat, last_segment : Nat \cup {None}]
    BY DEF Dir, Typed
  <2> QED BY <2>1, <2>2, <2>3, <2>4 DEF Typed
<1>6. Contiguous(e, t, b, n + 1)
  <2>1. {i \in DOMAIN e : i >= b.first_segment} = b.first_segment .. (n + 1)
    <3>1. {i \in DOMAIN d : i >= b.first_segment} = b.first_segment .. n
      BY DEF Dir, Contiguous
    <3>2. b.first_segment .. (n + 1) = (b.first_segment .. n) \cup {n + 1}
      BY <1>1
    <3> QED BY <1>1, <1>2, <3>1, <3>2
  <2>2. b.last_segment # None => b.first_segment <= b.last_segment /\ b.last_segment <= n + 1
    BY <1>1 DEF Dir, Contiguous, Typed
  <2>3. \A i \in DOMAIN e : i >= b.first_segment /\ i > b.last_segment => Len(e[i]) = 0
    BY <1>2, <1>4 DEF Dir, Contiguous
  <2>4. \A i \in DOMAIN e : i >= b.first_segment /\ i < n + 1 =>
           Len(e[i]) > 0 /\ Len(e[i]) % 2 = 0 /\ t[i] = Len(e[i])
    <3> SUFFICES ASSUME NEW i \in DOMAIN e, i >= b.first_segment, i < n + 1
                 PROVE  Len(e[i]) > 0 /\ Len(e[i]) % 2 = 0 /\ t[i] = Len(e[i])
      OBVIOUS
    <3>1. i \in DOMAIN d /\ i \in Nat
      BY <1>1, <1>2, <1>3
    <3>2. CASE i = n
      BY <1>1, <1>4, <3>1, <3>2
    <3>3. CASE i < n
      BY <1>4, <3>1, <3>3 DEF Dir, Contiguous
    <3> QED BY <1>1, <3>1, <3>2, <3>3
  <2> QED BY <1>1, <2>1, <2>2, <2>3, <2>4 DEF Contiguous
<1>7. \A i \in Int : i <= n + 1 => At(e, b, i) = At(d, b, i)
  <2>1. Typed(d, s, b) /\ Contiguous(d, s, b, n)
    BY DEF Dir
  <2>2. n + 1 \in Int /\ n + 1 <= n + 1 /\ n + 1 <= (n + 1) + 1
    BY <1>1
  <2>3. \A j \in Nat : b.first_segment <= j /\ j < n + 1 => Len(e[j]) = Len(d[j])
    BY <1>1, <1>4, DirFacts
  <2> DEFINE m == n + 1
  <2>4. Contiguous(e, t, b, m) /\ m \in Int /\ m <= n + 1 /\ m <= m + 1
        /\ \A j \in Nat : b.first_segment <= j /\ j < m => Len(e[j]) = Len(d[j])
    BY <1>6, <2>2, <2>3
  <2> HIDE DEF m
  <2>5. \A i \in Int : i <= m => At(e, b, i) = At(d, b, i)
    BY <1>5, <2>1, <2>4, AtKept
  <2> QED BY <2>5 DEF m
<1>8. Placed(e, b)
  <2> SUFFICES ASSUME NEW i \in DOMAIN e, i >= b.first_segment, NEW k \in 1 .. Len(e[i])
               PROVE  e[i][k] = At(e, b, i) + Down(k - 1)
    BY DEF Placed
  <2>1. i # n + 1
    BY <1>2
  <2>2. i \in DOMAIN d /\ i \in Int /\ i <= n + 1
    BY <1>1, <1>2, <1>3, <2>1
  <2>3. d[i][k] = At(d, b, i) + Down(k - 1)
    BY <1>4, <2>2 DEF Dir, Placed
  <2> QED BY <1>4, <1>7, <2>2, <2>3
<1>9. At(e, b, n + 1) = EndAt(d, b, n)
  <2>1. CASE n < b.first_segment
    <3>1. n + 1 = b.first_segment
      BY <1>1, <2>1
    <3>2. At(e, b, b.first_segment) = b.lsn
      BY <1>5, AtFirst
    <3> QED BY <2>1, <3>1, <3>2 DEF EndAt
  <2>2. CASE ~(n < b.first_segment)
    <3>1. n \in DOMAIN d /\ n >= b.first_segment
      BY <1>1, <2>2, DirFacts
    <3>2. At(d, b, n + 1) = At(d, b, n) + Len(d[n])
      BY <3>1, AtNext DEF Dir
    <3>3. EndAt(d, b, n) = At(d, b, n) + Len(d[n])
      BY <3>1, EndWhole
    <3> QED BY <1>1, <1>7, <3>2, <3>3
  <2> QED BY <2>1, <2>2
<1>10. EndAt(e, b, n + 1) = EndAt(d, b, n) /\ DurableEnd(e, t, b, n + 1) = EndAt(d, b, n)
  <2>1. EndAt(d, b, n) \in Nat
    BY EndWhole
  <2>2. Down(0) = 0
    BY DEF Down
  <2>3. ~(n + 1 < b.first_segment)
    BY <1>1
  <2>4. Len(e[n + 1]) = 0
    BY <1>2
  <2> QED BY <1>2, <1>9, <2>1, <2>2, <2>3, <2>4 DEF EndAt, DurableEnd
<1>11. Dir(e, t, b, n + 1)
  BY <1>5, <1>6, <1>8 DEF Dir
<1>12. Len(e[n + 1]) = 0 /\ n + 1 \notin DOMAIN d
  BY <1>2, <1>3
<1> QED BY <1>1, <1>2, <1>9, <1>10, <1>11, <1>12

\* A segment before the base is removed.
Removed(d, s, i, e, t) ==
  /\ e = [j \in DOMAIN d \ {i} |-> d[j]]
  /\ t = [j \in DOMAIN d \ {i} |-> s[j]]

LEMMA DirRemoved ==
  ASSUME NEW d, NEW s, NEW b, NEW n, Dir(d, s, b, n), NEW i \in Nat, i < b.first_segment,
         NEW e, NEW t, Removed(d, s, i, e, t)
  PROVE  /\ Dir(e, t, b, n) /\ At(e, b, n) = At(d, b, n)
         /\ EndAt(e, b, n) = EndAt(d, b, n)
         /\ DurableEnd(e, t, b, n) = DurableEnd(d, s, b, n)
         /\ n >= b.first_segment => e[n] = d[n] /\ t[n] = s[n]
<1>1. n \in Int /\ b.first_segment \in Nat /\ b.lsn \in Nat
  BY DirFacts
<1>2. /\ DOMAIN e = DOMAIN d \ {i} /\ DOMAIN t = DOMAIN e
      /\ \A j \in DOMAIN e : e[j] = d[j] /\ t[j] = s[j]
  BY DEF Removed
<1>3. Typed(e, t, b)
  <2>1. IsFiniteSet(DOMAIN e) /\ DOMAIN e \in SUBSET Nat
    <3>1. IsFiniteSet(DOMAIN d) /\ DOMAIN d \in SUBSET Nat
      BY DEF Dir, Typed
    <3>2. IsFiniteSet(DOMAIN d \ {i})
      BY <3>1, FS_RemoveElement
    <3> QED BY <1>2, <3>1, <3>2
  <2>2. e \in [DOMAIN e -> Seq(Nat)] /\ t \in [DOMAIN e -> Nat]
    <3>1. \A j \in DOMAIN e : e[j] \in Seq(Nat) /\ t[j] \in Nat
      BY <1>2, DirFacts
    <3>2. e = [j \in DOMAIN e |-> e[j]] /\ t = [j \in DOMAIN e |-> t[j]]
      BY <1>2 DEF Removed
    <3> QED BY <3>1, <3>2
  <2>3. \A j \in DOMAIN e : t[j] <= Len(e[j])
    BY <1>2, DirFacts
  <2>4. b \in [lsn : Nat, first_segment : Nat, last_segment : Nat \cup {None}]
    BY DEF Dir, Typed
  <2> QED BY <2>1, <2>2, <2>3, <2>4 DEF Typed
<1>4. {j \in DOMAIN e : j >= b.first_segment} = {j \in DOMAIN d : j >= b.first_segment}
  BY <1>1, <1>2
<1>5. Contiguous(e, t, b, n)
  <2>1. /\ n >= b.first_segment - 1
        /\ {j \in DOMAIN e : j >= b.first_segment} = b.first_segment .. n
        /\ b.last_segment # None => b.first_segment <= b.last_segment /\ b.last_segment <= n
    BY <1>4 DEF Dir, Contiguous
  <2>2. /\ \A j \in DOMAIN e : j >= b.first_segment /\ j > b.last_segment => Len(e[j]) = 0
        /\ \A j \in DOMAIN e : j >= b.first_segment /\ j < n =>
             Len(e[j]) > 0 /\ Len(e[j]) % 2 = 0 /\ t[j] = Len(e[j])
    BY <1>2 DEF Dir, Contiguous
  <2> QED BY <1>1, <2>1, <2>2 DEF Contiguous
<1>6. \A j \in Int : j <= n => At(e, b, j) = At(d, b, j)
  <2>1. Typed(d, s, b) /\ Contiguous(d, s, b, n) /\ n \in Int /\ n <= n + 1
    BY <1>1 DEF Dir
  <2>2. \A j \in Nat : b.first_segment <= j /\ j < n => Len(e[j]) = Len(d[j])
    <3> SUFFICES ASSUME NEW j \in Nat, b.first_segment <= j, j < n PROVE Len(e[j]) = Len(d[j])
      OBVIOUS
    <3>1. j \in DOMAIN d /\ j # i
      BY <1>1, DirFacts
    <3> QED BY <1>2, <3>1
  <2> QED BY <1>3, <1>5, <2>1, <2>2, AtKept
<1>7. Placed(e, b)
  <2> SUFFICES ASSUME NEW j \in DOMAIN e, j >= b.first_segment, NEW k \in 1 .. Len(e[j])
               PROVE  e[j][k] = At(e, b, j) + Down(k - 1)
    BY DEF Placed
  <2>1. j \in DOMAIN d /\ j \in Int /\ j <= n
    BY <1>2, DirFacts
  <2>2. d[j][k] = At(d, b, j) + Down(k - 1)
    BY <1>2, <2>1 DEF Dir, Placed
  <2> QED BY <1>2, <1>6, <2>1, <2>2
<1>8. n >= b.first_segment => e[n] = d[n] /\ t[n] = s[n]
  BY <1>1, <1>2, DirFacts
<1>9. At(e, b, n) = At(d, b, n)
  BY <1>1, <1>6
<1>10. EndAt(e, b, n) = EndAt(d, b, n) /\ DurableEnd(e, t, b, n) = DurableEnd(d, s, b, n)
  BY <1>1, <1>8, <1>9 DEF EndAt, DurableEnd
<1> QED BY <1>3, <1>5, <1>7, <1>8, <1>9, <1>10 DEF Dir

\* m cells of a frame are appended to the last segment.
Grown(d, n, m, x, e) == e = [d EXCEPT ![n] = @ \o [k \in 1 .. m |-> x]]

Appends(d, s, b, n, m, x, e) ==
  /\ Dir(d, s, b, n) /\ n >= b.first_segment /\ b.last_segment = n /\ Len(d[n]) % 2 = 0
  /\ m \in Nat /\ m <= 2 /\ x = At(d, b, n) + Len(d[n]) /\ Grown(d, n, m, x, e)

LEMMA ConcatLen ==
  ASSUME NEW p \in Seq(Nat), NEW r \in Seq(Nat)
  PROVE  (p \o r) \in Seq(Nat) /\ Len(p \o r) = Len(p) + Len(r)
  OBVIOUS

LEMMA ConcatAt ==
  ASSUME NEW p \in Seq(Nat), NEW r \in Seq(Nat), NEW k \in Nat, ~(k <= Len(p)),
         k <= Len(p) + Len(r)
  PROVE  (p \o r)[k] = r[k - Len(p)]
  OBVIOUS

LEMMA DirAppended ==
  ASSUME NEW d, NEW s, NEW b, NEW n, NEW m, NEW x, NEW e, Appends(d, s, b, n, m, x, e)
  PROVE  /\ Dir(e, s, b, n) /\ At(e, b, n) = At(d, b, n) /\ Len(e[n]) = Len(d[n]) + m
         /\ DOMAIN e = DOMAIN d
         /\ DurableEnd(e, s, b, n) = DurableEnd(d, s, b, n)
         /\ EndAt(e, b, n) = IF m = 2 THEN EndAt(d, b, n) + 2 ELSE EndAt(d, b, n)
<1> SUFFICES ASSUME Dir(d, s, b, n), n >= b.first_segment, b.last_segment = n,
                    Len(d[n]) % 2 = 0, NEW q \in Nat, q <= 2, x = At(d, b, n) + Len(d[n]),
                    Grown(d, n, q, x, e)
             PROVE  /\ Dir(e, s, b, n) /\ At(e, b, n) = At(d, b, n) /\ Len(e[n]) = Len(d[n]) + q
                    /\ DOMAIN e = DOMAIN d
                    /\ DurableEnd(e, s, b, n) = DurableEnd(d, s, b, n)
                    /\ EndAt(e, b, n) = IF q = 2 THEN EndAt(d, b, n) + 2 ELSE EndAt(d, b, n)
  BY DEF Appends
<1>1. n \in Nat /\ n \in DOMAIN d /\ d[n] \in Seq(Nat) /\ Len(d[n]) \in Nat
      /\ b.first_segment \in Nat /\ b.lsn \in Nat /\ At(d, b, n) \in Nat /\ x \in Nat
  BY DirFacts, AtType DEF Dir
<1> DEFINE tail == [k \in 1 .. q |-> x]
<1>2. tail \in Seq(Nat) /\ Len(tail) = q
  BY <1>1
<1>3. e[n] = d[n] \o tail /\ DOMAIN e = DOMAIN d /\ \A i \in DOMAIN d : i # n => e[i] = d[i]
  BY <1>1 DEF Grown
<1>4. e[n] \in Seq(Nat) /\ Len(e[n]) = Len(d[n]) + q
  <2> HIDE DEF tail
  <2>1. d[n] \in Seq(Nat) /\ tail \in Seq(Nat)
    BY <1>1, <1>2
  <2>2. (d[n] \o tail) \in Seq(Nat) /\ Len(d[n] \o tail) = Len(d[n]) + Len(tail)
    BY <2>1, ConcatLen
  <2> QED BY <1>2, <1>3, <2>2
<1>5. \A k \in 1 .. Len(e[n]) : e[n][k] = IF k <= Len(d[n]) THEN d[n][k] ELSE x
  <2> TAKE k \in 1 .. Len(e[n])
  <2>1. CASE k <= Len(d[n])
    <3> HIDE DEF tail
    <3> QED BY <1>1, <1>2, <1>3, <1>4, <2>1
  <2>2. CASE ~(k <= Len(d[n]))
    <3>1. k - Len(d[n]) \in 1 .. q
      <4> DEFINE y == Len(d[n])
                 z == Len(e[n])
      <4>1. y \in Nat /\ z = y + q /\ k \in 1 .. z /\ ~(k <= y)
        BY <1>1, <1>4, <2>2
      <4> HIDE DEF y, z, tail
      <4>2. k - y \in 1 .. q
        BY <4>1
      <4> QED BY <4>2 DEF y
    <3>2. tail[k - Len(d[n])] = x
      BY <3>1
    <3> HIDE DEF tail
    <3>3. e[n][k] = tail[k - Len(d[n])]
      <4>1. d[n] \in Seq(Nat) /\ tail \in Seq(Nat) /\ k \in Nat /\ ~(k <= Len(d[n]))
            /\ k <= Len(d[n]) + Len(tail)
        BY <1>1, <1>2, <1>4, <2>2
      <4>2. (d[n] \o tail)[k] = tail[k - Len(d[n])]
        BY <4>1, ConcatAt
      <4> QED BY <1>3, <4>2
    <3> QED BY <2>2, <3>2, <3>3
  <2> QED BY <2>1, <2>2
<1> HIDE DEF tail
<1>6. Typed(e, s, b)
  <2>1. \A i \in DOMAIN d : e[i] \in Seq(Nat) /\ s[i] <= Len(e[i])
    <3> TAKE i \in DOMAIN d
    <3>1. CASE i = n
      <4>1. s[n] \in Nat /\ s[n] <= Len(d[n])
        BY <1>1, DirFacts
      <4>2. s[n] <= Len(e[n])
        <5> DEFINE y == Len(d[n])
                   z == s[n]
        <5>1. y \in Nat /\ z \in Nat /\ z <= y /\ Len(e[n]) = y + q
          BY <1>1, <1>4, <4>1
        <5> HIDE DEF y, z
        <5>2. z <= y + q
          BY <5>1
        <5> QED BY <5>1, <5>2 DEF z
      <4> QED BY <1>4, <3>1, <4>2
    <3>2. CASE i # n
      BY <1>3, <3>2, DirFacts
    <3> QED BY <3>1, <3>2
  <2>2. e = [i \in DOMAIN d |-> e[i]]
    BY DEF Grown
  <2>3. e \in [DOMAIN e -> Seq(Nat)]
    BY <1>3, <2>1, <2>2
  <2> QED BY <1>3, <2>1, <2>3 DEF Dir, Typed
<1>7. Contiguous(e, s, b, n)
  <2>1. \A i \in DOMAIN e : i >= b.first_segment /\ i > b.last_segment => Len(e[i]) = 0
    BY <1>1, <1>3, DirFacts
  <2>2. \A i \in DOMAIN e : i >= b.first_segment /\ i < n =>
           Len(e[i]) > 0 /\ Len(e[i]) % 2 = 0 /\ s[i] = Len(e[i])
    <3> SUFFICES ASSUME NEW i \in DOMAIN e, i >= b.first_segment, i < n
                 PROVE  Len(e[i]) > 0 /\ Len(e[i]) % 2 = 0 /\ s[i] = Len(e[i])
      OBVIOUS
    <3>1. i \in DOMAIN d /\ i # n
      BY <1>1, <1>3
    <3>2. Len(d[i]) > 0 /\ Len(d[i]) % 2 = 0 /\ s[i] = Len(d[i])
      BY <3>1 DEF Dir, Contiguous
    <3> QED BY <1>3, <3>1, <3>2
  <2> QED BY <1>3, <2>1, <2>2 DEF Dir, Contiguous
<1>8. \A i \in Int : i <= n => At(e, b, i) = At(d, b, i)
  <2>1. Typed(d, s, b) /\ Contiguous(d, s, b, n) /\ n \in Int /\ n <= n + 1
    BY <1>1 DEF Dir
  <2>2. \A j \in Nat : b.first_segment <= j /\ j < n => Len(e[j]) = Len(d[j])
    <3> SUFFICES ASSUME NEW j \in Nat, b.first_segment <= j, j < n PROVE Len(e[j]) = Len(d[j])
      OBVIOUS
    <3>1. j \in DOMAIN d /\ j # n
      BY <1>1, DirFacts
    <3> QED BY <1>3, <3>1
  <2> QED BY <1>6, <1>7, <2>1, <2>2, AtKept
<1>9. Placed(e, b)
  <2> SUFFICES ASSUME NEW i \in DOMAIN e, i >= b.first_segment, NEW k \in 1 .. Len(e[i])
               PROVE  e[i][k] = At(e, b, i) + Down(k - 1)
    BY DEF Placed
  <2>1. i \in DOMAIN d /\ i \in Int /\ i <= n
    BY <1>3, DirFacts
  <2>2. At(e, b, i) = At(d, b, i)
    BY <1>8, <2>1
  <2>3. CASE i # n \/ k <= Len(d[n])
    <3>1. k \in 1 .. Len(d[i]) /\ e[i][k] = d[i][k]
      BY <1>1, <1>3, <1>4, <1>5, <2>1, <2>3
    <3>2. d[i][k] = At(d, b, i) + Down(k - 1)
      BY <2>1, <3>1 DEF Dir, Placed
    <3> QED BY <2>2, <3>1, <3>2
  <2>4. CASE i = n /\ ~(k <= Len(d[n]))
    <3>0. e[i][k] = x /\ k \in 1 .. Len(e[n])
      BY <1>5, <2>4
    <3>1. e[i][k] = x /\ k \in Nat /\ k <= Len(d[n]) + 2 /\ k > Len(d[n])
      <4> DEFINE y == Len(d[n])
                 z == Len(e[n])
      <4>1. y \in Nat /\ z = y + q /\ k \in 1 .. z /\ ~(k <= y)
        BY <1>1, <1>4, <2>4, <3>0
      <4> HIDE DEF y, z
      <4>2. k \in Nat /\ k <= y + 2 /\ k > y
        BY <4>1
      <4> QED BY <3>0, <4>2 DEF y
    <3>2. Down(k - 1) = Len(d[n])
      <4> DEFINE y == Len(d[n])
      <4>0. y \in Nat /\ y % 2 = 0 /\ k \in Nat /\ k <= y + 2 /\ k > y
        BY <1>1, <3>1, Zenon
      <4> HIDE DEF y
      <4>1. y \in Nat /\ y % 2 = 0 /\ (k = y + 1 \/ k = y + 2)
        BY <4>0
      <4>2. Down(k - 1) = y
        BY <4>1 DEF Down
      <4> QED BY <4>2 DEF y
    <3> QED BY <1>1, <2>2, <2>4, <3>1, <3>2
  <2> QED BY <2>3, <2>4
<1>10. At(e, b, n) = At(d, b, n)
  BY <1>1, <1>8
<1>11. DurableEnd(e, s, b, n) = DurableEnd(d, s, b, n)
  BY <1>10, Zenon DEF DurableEnd
<1>12. EndAt(e, b, n) = IF q = 2 THEN EndAt(d, b, n) + 2 ELSE EndAt(d, b, n)
  <2>1. Down(Len(d[n])) = Len(d[n])
        /\ Down(Len(e[n])) = IF q = 2 THEN Len(d[n]) + 2 ELSE Len(d[n])
    <3> DEFINE y == Len(d[n])
    <3>1. y \in Nat /\ y % 2 = 0 /\ Len(e[n]) = y + q
      BY <1>1, <1>4
    <3> HIDE DEF y
    <3>2. Down(y) = y /\ Down(y + q) = IF q = 2 THEN y + 2 ELSE y
      BY <3>1 DEF Down
    <3> QED BY <3>1, <3>2 DEF y
  <2>2. ~(n < b.first_segment)
    BY <1>1
  <2>3. EndAt(e, b, n) = At(d, b, n) + Down(Len(e[n])) /\ EndAt(d, b, n) = At(d, b, n) + Down(Len(d[n]))
    BY <1>10, <2>2, Zenon DEF EndAt
  <2>4. CASE q = 2
    <3> DEFINE y == Len(d[n])
               a == At(d, b, n)
    <3>1. y \in Nat /\ a \in Nat /\ EndAt(e, b, n) = a + (y + 2) /\ EndAt(d, b, n) = a + y
      BY <1>1, <2>1, <2>3, <2>4
    <3> HIDE DEF y, a
    <3>2. EndAt(e, b, n) = EndAt(d, b, n) + 2
      BY <3>1
    <3> QED BY <2>4, <3>2
  <2>5. CASE q # 2
    BY <2>1, <2>3, <2>5, Zenon
  <2> QED BY <2>4, <2>5
<1> QED BY <1>3, <1>4, <1>6, <1>7, <1>9, <1>10, <1>11, <1>12 DEF Dir

\* The base is given a new frontier, which is the last segment.
LEMMA DirFrontier ==
  ASSUME NEW d, NEW s, NEW b, NEW n, Dir(d, s, b, n), n >= b.first_segment,
         NEW c, c = [b EXCEPT !.last_segment = n]
  PROVE  /\ Dir(d, s, c, n) /\ At(d, c, n) = At(d, b, n)
         /\ EndAt(d, c, n) = EndAt(d, b, n) /\ DurableEnd(d, s, c, n) = DurableEnd(d, s, b, n)
         /\ c.last_segment = n /\ c.first_segment = b.first_segment /\ c.lsn = b.lsn
<1>1. b \in [lsn : Nat, first_segment : Nat, last_segment : Nat \cup {None}] /\ n \in Nat
  BY DirFacts DEF Dir, Typed
<1>2. /\ c \in [lsn : Nat, first_segment : Nat, last_segment : Nat \cup {None}]
      /\ c.last_segment = n /\ c.first_segment = b.first_segment /\ c.lsn = b.lsn
  BY <1>1
<1>3. \A i : At(d, c, i) = At(d, b, i)
  BY <1>2, Zenon DEF At, Below
<1>4. Typed(d, s, c)
  BY <1>2 DEF Dir, Typed
<1>5. Contiguous(d, s, c, n)
  <2>1. \A i \in DOMAIN d : i >= b.first_segment => ~(i > n)
    BY <1>1, DirFacts
  <2> QED BY <1>1, <1>2, <2>1 DEF Dir, Contiguous
<1>6. Placed(d, c)
  <2>1. Placed(d, b)
    BY DEF Dir
  <2> QED BY <1>2, <1>3, <2>1 DEF Placed
<1>7. EndAt(d, c, n) = EndAt(d, b, n) /\ DurableEnd(d, s, c, n) = DurableEnd(d, s, b, n)
  BY <1>2, <1>3, Zenon DEF EndAt, DurableEnd
<1> QED BY <1>2, <1>3, <1>4, <1>5, <1>6, <1>7 DEF Dir

\* The base moves to the start of segment m.
LEMMA DirMoved ==
  ASSUME NEW d, NEW s, NEW b, NEW n, Dir(d, s, b, n), NEW m \in Nat,
         b.first_segment <= m, m <= n, NEW c,
         c = [lsn |-> At(d, b, m), first_segment |-> m, last_segment |-> n]
  PROVE  /\ Dir(d, s, c, n) /\ At(d, c, n) = At(d, b, n) /\ At(d, b, m) \in Nat
         /\ EndAt(d, c, n) = EndAt(d, b, n) /\ DurableEnd(d, s, c, n) = DurableEnd(d, s, b, n)
         /\ b.lsn <= At(d, b, m) /\ At(d, b, m) <= At(d, b, n)
<1>1. b \in [lsn : Nat, first_segment : Nat, last_segment : Nat \cup {None}] /\ n \in Nat
      /\ Typed(d, s, b)
  <2>1. Typed(d, s, b)
    BY DEF Dir
  <2>2. b \in [lsn : Nat, first_segment : Nat, last_segment : Nat \cup {None}]
    BY <2>1 DEF Typed
  <2>3. n \in Int
    BY DirFacts
  <2> QED BY <2>1, <2>2, <2>3
<1>2. At(d, b, m) \in Nat /\ b.lsn <= At(d, b, m) /\ At(d, b, m) <= At(d, b, n)
  BY <1>1, AtType, AtGrows
<1>3. /\ c \in [lsn : Nat, first_segment : Nat, last_segment : Nat \cup {None}]
      /\ c.last_segment = n /\ c.first_segment = m /\ c.lsn = At(d, b, m)
  BY <1>1, <1>2
<1>4. \A i \in Nat : m <= i => At(d, c, i) = At(d, b, i)
  BY <1>1, <1>3, AtMoved
<1>5. Typed(d, s, c)
  BY <1>1, <1>3 DEF Typed
<1>6. Contiguous(d, s, c, n)
  <2>1. \A i \in Nat : i >= b.first_segment => (i \in DOMAIN d <=> i <= n)
    BY DirFacts
  <2>2. DOMAIN d \in SUBSET Nat /\ b.first_segment \in Nat
    BY <1>1 DEF Typed
  <2>3. {i \in DOMAIN d : i >= m} = m .. n
    BY <1>1, <2>1, <2>2
  <2>4. \A i \in DOMAIN d : ~(i > n)
    BY <1>1, DirFacts
  <2>5. \A i \in DOMAIN d : i >= m => i >= b.first_segment
    BY <2>2
  <2> QED BY <1>1, <1>3, <2>3, <2>4, <2>5 DEF Dir, Contiguous
<1>7. Placed(d, c)
  <2> SUFFICES ASSUME NEW i \in DOMAIN d, i >= m, NEW k \in 1 .. Len(d[i])
               PROVE  d[i][k] = At(d, c, i) + Down(k - 1)
    BY <1>3 DEF Placed
  <2>1. i \in Nat /\ m <= i /\ i >= b.first_segment
    BY <1>1 DEF Typed
  <2>2. d[i][k] = At(d, b, i) + Down(k - 1)
    BY <2>1 DEF Dir, Placed
  <2> QED BY <1>4, <2>1, <2>2
<1>8. At(d, c, n) = At(d, b, n)
  BY <1>1, <1>4
<1>9. ~(n < c.first_segment) /\ ~(n < b.first_segment)
  BY <1>1, <1>3
<1>10. EndAt(d, c, n) = EndAt(d, b, n) /\ DurableEnd(d, s, c, n) = DurableEnd(d, s, b, n)
  BY <1>8, <1>9, Zenon DEF EndAt, DurableEnd
<1> QED BY <1>2, <1>5, <1>6, <1>7, <1>8, <1>10 DEF Dir

(***************************************************************************)
(* The directory as the model reads it.                                    *)
(***************************************************************************)
LEMMA RetainedIs ==
  ASSUME NEW d, NEW s, NEW b, NEW n, Dir(d, s, b, n), NEW R,
         R = {i \in DOMAIN d : i >= b.first_segment}
  PROVE  /\ R = b.first_segment .. n /\ (R = {} <=> n < b.first_segment)
         /\ n >= b.first_segment => Max(R) = n
<1>1. R = b.first_segment .. n /\ n \in Int /\ b.first_segment \in Nat
  BY DEF Dir, Contiguous, Typed
<1>2. R = {} <=> n < b.first_segment
  BY <1>1
<1>3. ASSUME n >= b.first_segment PROVE Max(R) = n
  <2>1. R \in SUBSET Nat /\ n \in R /\ n \in Nat /\ \A x \in R : x <= n
    BY <1>1, <1>3
  <2>2. Max(R) \in R /\ \A y \in R : y <= Max(R)
    BY <2>1, MaxOf
  <2> QED BY <2>1, <2>2
<1> QED BY <1>1, <1>2, <1>3

LEMMA StartIs ==
  ASSUME NEW d, NEW b, NEW i, NEW R, R = {j \in DOMAIN d : j >= b.first_segment},
         DOMAIN d \in SUBSET Nat, b.first_segment \in Nat
  PROVE  {j \in R : j < i} = Below(d, b, i)
  BY DEF Below

\* The end of a scan.
ReadEnd(d, b, R) ==
  IF R = {} THEN b.lsn
  ELSE (b.lsn + Bytes(d, {j \in R : j < Max(R)})) + 2 * (Len(d[Max(R)]) \div 2)
Read(d, b, R) == R = {i \in DOMAIN d : i >= b.first_segment}

LEMMA ScanEndOf ==
  ASSUME NEW d, NEW s, NEW b, NEW n, Dir(d, s, b, n), NEW R, Read(d, b, R)
  PROVE  ReadEnd(d, b, R) = EndAt(d, b, n)
<1>1. R = {} <=> n < b.first_segment
  BY RetainedIs DEF Read
<1>2. ASSUME R # {} PROVE Max(R) = n /\ {j \in R : j < n} = Below(d, b, n)
  <2>1. DOMAIN d \in SUBSET Nat /\ b.first_segment \in Nat /\ n \in Int
    BY DEF Dir, Typed, Contiguous
  <2>2. n >= b.first_segment
    BY <1>1, <1>2, <2>1
  <2> QED BY <2>1, <2>2, RetainedIs, StartIs DEF Read
<1> QED BY <1>1, <1>2, Zenon DEF EndAt, At, Down, ReadEnd

LEMMA ScanEndIs ==
  ASSUME NEW n, Dir(data, synced, base, n)
  PROVE  ScanEnd = EndAt(data, base, n)
<1>1. Read(data, base, Retained)
  BY DEF Retained, Segments, Read
<1>2. ScanEnd = ReadEnd(data, base, Retained)
  BY Zenon DEF ScanEnd, Final, Start, BytesOf, Bytes, Frames, RecordLen, ReadEnd
<1> QED BY <1>1, <1>2, ScanEndOf

LEMMA ScanEndIsNext ==
  ASSUME NEW n, Dir(data', synced', base', n)
  PROVE  ScanEnd' = EndAt(data', base', n)
<1>1. Read(data', base', Retained')
  BY DEF Retained, Segments, Read
<1>2. ScanEnd' = ReadEnd(data', base', Retained')
  BY Zenon DEF ScanEnd, Final, Start, BytesOf, Bytes, Frames, RecordLen, ReadEnd, MapThenSumSet, MapThenFoldSet
<1> QED BY <1>1, <1>2, ScanEndOf

-----------------------------------------------------------------------------
(***************************************************************************)
(* What follows from the invariant.                                        *)
(***************************************************************************)
LEMMA InvTypes ==
  ASSUME NEW n, Inv(n)
  PROVE  TypeOK
<1>1. Typed(data, synced, base) /\ Contiguous(data, synced, base, n) /\ HandleTypes
  BY DEF Inv, Dir
<1>2. base.last_segment = None \/ base.first_segment <= base.last_segment
  BY <1>1 DEF Contiguous
<1> QED BY <1>1, <1>2 DEF TypeOK, Typed, HandleTypes, Segments

LEMMA InvStart ==
  ASSUME NEW n, Dir(data, synced, base, n)
  PROVE  /\ Retained = base.first_segment .. n /\ (Retained = {} <=> n < base.first_segment)
         /\ n >= base.first_segment => Final = n
         /\ \A i : {j \in Retained : j < i} = Below(data, base, i)
         /\ \A i : Start(i) = At(data, base, i)
         /\ \A i : base.lsn + BytesOf({j \in Retained : j < i}) = At(data, base, i)
<1>1. Retained = {i \in DOMAIN data : i >= base.first_segment}
  BY DEF Retained, Segments
<1>2. DOMAIN data \in SUBSET Nat /\ base.first_segment \in Nat
  BY DEF Dir, Typed
<1>3. \A i : {j \in Retained : j < i} = Below(data, base, i)
  BY <1>1, <1>2, StartIs
<1>4. \A i : base.lsn + BytesOf({j \in Retained : j < i}) = At(data, base, i)
  BY <1>3, Zenon DEF At, BytesOf, Bytes
<1>5. \A i : Start(i) = At(data, base, i)
  BY <1>4, Zenon DEF Start
<1>6. /\ Retained = base.first_segment .. n /\ (Retained = {} <=> n < base.first_segment)
      /\ n >= base.first_segment => Max(Retained) = n
  BY <1>1, RetainedIs
<1> QED BY <1>3, <1>4, <1>5, <1>6 DEF Final

\* A scan accepts every directory the invariant describes.
LEMMA InvScans ==
  ASSUME NEW n, Dir(data, synced, base, n)
  PROVE  scan_accepts
<1>1. /\ Retained = base.first_segment .. n /\ n \in Int /\ base.first_segment \in Nat
      /\ Retained # {} => Final = n /\ n >= base.first_segment
  BY InvStart, DirFacts
<1>2. base.last_segment \in Nat \cup {None} /\ Retained \subseteq DOMAIN data
  BY DEF Dir, Typed, Retained, Segments
<1>3. wal_segments_accepts
  <2>1. Retained # {} => Retained = base.first_segment .. Final
    BY <1>1
  <2>2. ASSUME base.last_segment # None
        PROVE  /\ Retained # {} /\ Final >= Required
               /\ \A i \in Retained : i > Required => data[i] = << >>
    <3>1. base.first_segment <= base.last_segment /\ base.last_segment <= n
          /\ base.last_segment \in Nat
      BY <1>2, <2>2 DEF Dir, Contiguous
    <3>2. Retained # {} /\ Final = n
      BY <1>1, <3>1
    <3>3. Required = base.last_segment
      BY <1>1, <3>1 DEF Required
    <3>4. \A i \in Retained : i > Required => data[i] = << >>
      <4> SUFFICES ASSUME NEW i \in Retained, i > Required PROVE data[i] = << >>
        OBVIOUS
      <4>1. i \in DOMAIN data /\ i >= base.first_segment
        BY <1>2 DEF Retained
      <4>2. Len(data[i]) = 0 /\ data[i] \in Seq(Nat)
        BY <3>3, <4>1, DirFacts DEF Dir, Contiguous
      <4> QED BY <4>2
    <3> QED BY <1>1, <3>1, <3>2, <3>3, <3>4
  <2> QED BY <2>1, <2>2 DEF wal_segments_accepts
<1>4. \A i \in Retained : segment_accepts(i)
  <2> SUFFICES ASSUME NEW i \in Retained PROVE segment_accepts(i)
    OBVIOUS
  <2>1. i \in DOMAIN data /\ i >= base.first_segment /\ i \in Nat /\ i <= n /\ Final = n
        /\ Len(data[i]) \in Nat
    BY <1>1, <1>2, DirFacts
  <2>2. ASSUME i # Final PROVE data[i] # << >> /\ ~Torn(i)
    <3>1. i < n
      BY <1>1, <2>1, <2>2
    <3>2. Len(data[i]) > 0 /\ Len(data[i]) % 2 = 0
      BY <2>1, <3>1 DEF Dir, Contiguous
    <3>3. data[i] # << >>
      BY <3>2
    <3> QED BY <3>2, <3>3 DEF Torn, RecordLen
  <2>3. \A k \in 1 .. Frames(i) * RecordLen :
           data[i][k] = Start(i) + RecordLen * ((k - 1) \div RecordLen)
    <3> SUFFICES ASSUME NEW k \in 1 .. Frames(i) * RecordLen
                 PROVE  data[i][k] = Start(i) + RecordLen * ((k - 1) \div RecordLen)
      OBVIOUS
    <3>1. k \in 1 .. Len(data[i])
      <4> DEFINE y == Len(data[i])
      <4>1. y \in Nat /\ k \in 1 .. ((y \div 2) * 2)
        BY <2>1 DEF Frames, RecordLen
      <4> HIDE DEF y
      <4>2. k \in 1 .. y
        BY <4>1
      <4> QED BY <4>2 DEF y
    <3>2. data[i][k] = At(data, base, i) + Down(k - 1)
      BY <2>1, <3>1 DEF Dir, Placed
    <3>3. Start(i) = At(data, base, i)
      BY InvStart
    <3> QED BY <3>2, <3>3 DEF Down, RecordLen
  <2> QED BY <2>2, <2>3 DEF segment_accepts
<1> QED BY <1>3, <1>4 DEF scan_accepts

\* The last segment of a handle that is at rest.
LEMMA AtRest ==
  ASSUME NEW n, Inv(n), stage \in Steady, ~poisoned
  PROVE  /\ file = n /\ active_index = n /\ base.last_segment = n /\ n \in Nat
         /\ n \in DOMAIN data /\ n >= base.first_segment /\ base.first_segment \in Nat
         /\ Len(data[n]) \in Nat /\ Len(data[n]) % 2 = 0
         /\ base_lsn = At(data, base, n) /\ At(data, base, n) \in Nat
         /\ active_len = Len(data[n]) /\ wal_len = At(data, base, n) + Len(data[n])
         /\ wal_len = EndAt(data, base, n) /\ wal_len \in Nat /\ Clean(n)
<1>1. AtEnd(n) /\ base.last_segment = n /\ Clean(n) /\ Dir(data, synced, base, n)
  BY DEF Inv, Placement
<1>2. n >= base.first_segment /\ file = n /\ active_index = n
      /\ base_lsn = At(data, base, n) /\ Len(data[n]) % 2 = 0
  BY <1>1 DEF AtEnd
<1>3. n \in DOMAIN data /\ n \in Nat /\ base.first_segment \in Nat /\ Len(data[n]) \in Nat
  BY <1>1, <1>2, DirFacts
<1>4. At(data, base, n) \in Nat
  BY <1>1, AtType DEF Dir
<1>5. active_len = Len(data[n]) /\ wal_len = At(data, base, n) + Len(data[n])
  BY <1>2 DEF active_len, wal_len
<1>6. EndAt(data, base, n) = At(data, base, n) + Len(data[n])
  BY <1>1, <1>2, EndWhole
<1> QED BY <1>1, <1>2, <1>3, <1>4, <1>5, <1>6

LEMMA InvHolds ==
  ASSUME NEW n, Inv(n)
  PROVE  /\ Recoverable /\ HandleAgrees /\ CleanIsDurable /\ CutIsExact
         /\ FrontierFencesMutations
<1>1. scan_accepts /\ Dir(data, synced, base, n)
  BY InvScans DEF Inv
<1>2. Recoverable
  BY <1>1 DEF Recoverable
<1>3. HandleAgrees
  <2> SUFFICES ASSUME Available PROVE wal_len = ScanEnd
    BY <1>1 DEF HandleAgrees
  <2>1. stage \in Steady /\ ~poisoned
    BY DEF Available, Steady
  <2>2. wal_len = EndAt(data, base, n)
    BY <2>1, AtRest
  <2>3. ScanEnd = EndAt(data, base, n)
    BY <1>1, ScanEndIs
  <2> QED BY <2>2, <2>3, Zenon
<1>4. CleanIsDurable
  <2> SUFFICES ASSUME Available, ~dirty, NEW i \in Retained, synced[i] < Len(data[i])
               PROVE  Start(i) + Len(data[i]) <= inherited
    BY DEF CleanIsDurable
  <2>1. stage \in Steady /\ ~poisoned
    BY DEF Available, Steady
  <2>2. i \in DOMAIN data /\ i >= base.first_segment /\ i \in Nat /\ i <= n /\ n \in Nat
        /\ Len(data[i]) \in Nat /\ synced[i] \in Nat
    BY <1>1, <2>1, AtRest, DirFacts DEF Retained, Segments
  <2>3. i = n
    <3> SUFFICES ASSUME i < n PROVE FALSE
      BY <2>2
    <3>1. synced[i] = Len(data[i])
      BY <1>1, <2>2 DEF Dir, Contiguous
    <3> QED BY <2>2, <3>1
  <2>4. At(data, base, n) + Len(data[n]) <= inherited
    <3>1. Clean(n)
      BY <2>1, AtRest
    <3> QED BY <2>2, <2>3, <3>1 DEF Clean
  <2>5. Start(i) = At(data, base, i)
    BY <1>1, InvStart
  <2> QED BY <2>3, <2>4, <2>5
<1>5. CutIsExact
  <2> SUFFICES ASSUME stage = "capture" PROVE base.lsn + BytesOf(Frozen) = op.lsn
    BY DEF CutIsExact
  <2>1. stage \in Steady /\ ~poisoned /\ op.lsn = base_lsn
    BY DEF Inv, Placement, Operation, Steady
  <2>2. active_index = n /\ base_lsn = At(data, base, n)
    BY <2>1, AtRest
  <2>3. base.lsn + BytesOf({j \in Retained : j < n}) = At(data, base, n)
    BY <1>1, InvStart
  <2> QED BY <2>1, <2>2, <2>3 DEF Frozen
<1>6. FrontierFencesMutations
  BY <1>1 DEF scan_accepts, wal_segments_accepts, FrontierFencesMutations
<1> QED BY <1>2, <1>3, <1>4, <1>5, <1>6

-----------------------------------------------------------------------------
(***************************************************************************)
(* The steps.  Each leads to a directory that the invariant describes, as  *)
(* a step of the durable log or one that it does not see.                  *)
(***************************************************************************)
LEMMA Lands ==
  ASSUME NEW n, NEW m, HandleTypes', Dir(data', synced', base', m), Placement(m)', Operation(m)',
         promised' <= DurableEnd(data', synced', base', m),
         released' <= EndAt(data', base', m), Moves(n, m)
  PROVE  Leads(n)
<1>1. Kept(m)'
  BY DEF Kept
<1>2. Inv(m)'
  BY <1>1 DEF Inv
<1> QED BY <1>2 DEF Leads

\* A handle that is poisoned, or at the end of the log, is idle.
LEMMA LandsPoisoned ==
  ASSUME NEW n, NEW m, HandleTypes', Dir(data', synced', base', m),
         promised' <= DurableEnd(data', synced', base', m),
         released' <= EndAt(data', base', m), Moves(n, m),
         returns, poisoned'
  PROVE  Leads(n)
<1>1. Placement(m)'
  BY DEF Placement, returns
<1>2. Operation(m)'
  BY DEF Operation, returns, NoOp
<1> QED BY <1>1, <1>2, Lands

LEMMA LandsIdle ==
  ASSUME NEW n, NEW m, HandleTypes', Dir(data', synced', base', m),
         promised' <= DurableEnd(data', synced', base', m),
         released' <= EndAt(data', base', m), Moves(n, m),
         stage' = "idle", op'.kind # "prefix", AtEnd(m)', base'.last_segment = m, Clean(m)'
  PROVE  Leads(n)
<1>1. Placement(m)'
  BY DEF Placement
<1>2. Operation(m)'
  BY DEF Operation
<1> QED BY <1>1, <1>2, Lands

\* A step that the durable log does not see.
LEMMA MovesNot ==
  ASSUME NEW n, NEW m, base'.lsn = base.lsn, EndAt(data', base', m) = EndAt(data, base, n),
         promised' = promised, released' = released
  PROVE  Moves(n, m)
  BY DEF Moves

LEMMA PairMax ==
  ASSUME NEW a \in Nat, NEW b \in Nat
  PROVE  /\ Max({a, b}) = IF a <= b THEN b ELSE a
         /\ Min({a, b}) = IF a <= b THEN a ELSE b
<1>1. {a, b} \in SUBSET Nat /\ {a, b} # {} /\ \A x \in {a, b} : x <= a + b
  OBVIOUS
<1>2. Max({a, b}) \in {a, b} /\ \A y \in {a, b} : y <= Max({a, b})
  BY <1>1, MaxOf
<1>3. Min({a, b}) \in {a, b} /\ \A y \in {a, b} : Min({a, b}) <= y
  BY <1>1, MinOf
<1>4. Max({a, b}) = IF a <= b THEN b ELSE a
  <2> DEFINE x == Max({a, b})
  <2> HIDE DEF x
  <2>1. (x = a \/ x = b) /\ a <= x /\ b <= x
    BY <1>2 DEF x
  <2>2. x = IF a <= b THEN b ELSE a
    BY <2>1
  <2> QED BY <2>2 DEF x
<1>5. Min({a, b}) = IF a <= b THEN a ELSE b
  <2> DEFINE x == Min({a, b})
  <2> HIDE DEF x
  <2>1. (x = a \/ x = b) /\ x <= a /\ x <= b
    BY <1>3 DEF x
  <2>2. x = IF a <= b THEN a ELSE b
    BY <2>1
  <2> QED BY <2>2 DEF x
<1> QED BY <1>4, <1>5

LEMMA recover_from_step ==
  ASSUME NEW n, Inv(n), recover_from
  PROVE  Leads(n)
<1>1. Dir(data, synced, base, n) /\ HandleTypes /\ Kept(n) /\ base' = base
      /\ stage' = "open_remove" /\ promised' = promised /\ released' = released
      /\ poisoned' = poisoned /\ op' = op /\ stage = "closed"
  BY DEF Inv, recover_from, handle
<1>2. HandleTypes'
  BY <1>1 DEF recover_from, handle, HandleTypes, Stages, Opening
<1>3. ~poisoned' /\ (op'.kind = "prefix" => op'.lsn <= released')
  <2>1. ~poisoned /\ poisoned \in BOOLEAN
    BY <1>1 DEF Inv, Placement, HandleTypes
  <2>2. op.kind = "prefix" => op.lsn <= released
    BY <1>1 DEF Inv, Operation
  <2> QED BY <1>1, <2>1, <2>2
<1>4. Operation(n)'
  BY <1>1, <1>3 DEF Operation
<1>5. ASSUME Whole(n)', Dir(data', synced', base', n),
             EndAt(data', base', n) = EndAt(data, base, n),
             DurableEnd(data', synced', base', n) >= DurableEnd(data, synced, base, n)
      PROVE  Leads(n)
  <2>1. Placement(n)'
    BY <1>1, <1>3, <1>5 DEF Placement, Steady
  <2>2. Moves(n, n)
    BY <1>1, <1>5, MovesNot
  <2>3. promised' <= DurableEnd(data', synced', base', n) /\ released' <= EndAt(data', base', n)
    <3>1. DurableEnd(data, synced, base, n) \in Nat /\ DurableEnd(data', synced', base', n) \in Nat
          /\ promised \in Nat
      BY <1>1, <1>5, EndWhole DEF HandleTypes
    <3> QED BY <1>1, <1>5, <3>1 DEF Kept
  <2> QED BY <1>2, <1>4, <1>5, <2>1, <2>2, <2>3, Lands
<1>6. CASE Retained # {} /\ Torn(Final)
  <2>1. n >= base.first_segment /\ Final = n /\ n \in DOMAIN data /\ n \in Nat
        /\ Len(data[n]) \in Nat /\ synced[n] \in Nat /\ synced[n] <= Len(data[n])
    <3>1. n >= base.first_segment /\ Final = n
      BY <1>1, <1>6, InvStart, DirFacts
    <3> QED BY <1>1, <3>1, DirFacts
  <2> DEFINE y == Down(Len(data[n]))
  <2>2. y \in Nat /\ y <= Len(data[n]) /\ y % 2 = 0 /\ y >= Down(synced[n])
        /\ \A z \in Nat : y <= z => Down(y) <= Down(z)
    BY <2>1, Whole2
  <2>3. data' = [data EXCEPT ![n] = SubSeq(data[n], 1, y)] /\ synced' = [synced EXCEPT ![n] = y]
    BY <1>6, <2>1 DEF recover_from, Frames, RecordLen, Down
  <2> HIDE DEF y
  <2>4. data[n] \in Seq(Nat) /\ SubSeq(data[n], 1, y) \in Seq(Nat) /\ Len(SubSeq(data[n], 1, y)) = y
        /\ \A k \in 1 .. y : SubSeq(data[n], 1, y)[k] = data[n][k]
    <3>1. data[n] \in Seq(Nat)
      BY <1>1, <2>1, DirFacts
    <3> QED BY <2>1, <2>2, <3>1
  <2>5. /\ DOMAIN data' = DOMAIN data /\ data'[n] = SubSeq(data[n], 1, y) /\ synced'[n] = y
        /\ \A i \in DOMAIN data : i # n => data'[i] = data[i] /\ synced'[i] = synced[i]
        /\ data' \in [DOMAIN data -> Seq(Nat)] /\ synced' \in [DOMAIN data -> Nat]
    <3>1. data \in [DOMAIN data -> Seq(Nat)] /\ synced \in [DOMAIN data -> Nat]
      BY <1>1 DEF Dir, Typed
    <3> QED BY <2>1, <2>2, <2>3, <2>4, <3>1
  <2>6. Cut(data, synced, base, n, data', synced')
    <3>1. ASSUME NEW i \in DOMAIN data
          PROVE  /\ synced'[i] <= Len(data'[i]) /\ Len(data'[i]) <= Len(data[i])
                 /\ synced'[i] >= Down(synced[i])
                 /\ \A k \in 1 .. Len(data'[i]) : data'[i][k] = data[i][k]
      <4>1. CASE i = n
        BY <2>1, <2>2, <2>4, <2>5, <4>1
      <4>2. CASE i # n
        <5>1. synced[i] \in Nat /\ Len(data[i]) \in Nat /\ synced[i] <= Len(data[i])
          BY <1>1, DirFacts
        <5>2. Down(synced[i]) <= synced[i]
          BY <5>1, Whole2
        <5> QED BY <2>5, <4>2, <5>1, <5>2
      <4> QED BY <4>1, <4>2
    <3>2. \A i \in DOMAIN data : i >= base.first_segment /\ i < n
             => Len(data'[i]) = Len(data[i]) /\ synced'[i] = Len(data[i])
      <4>1. \A i \in DOMAIN data : i >= base.first_segment /\ i < n => synced[i] = Len(data[i]) /\ i # n
        BY <1>1, <2>1 DEF Dir, Contiguous
      <4> QED BY <2>5, <4>1
    <3> QED BY <2>5, <3>1, <3>2 DEF Cut
  <2>7. /\ Dir(data', synced', base, n) /\ At(data', base, n) = At(data, base, n)
        /\ DurableEnd(data', synced', base, n) >= DurableEnd(data, synced, base, n)
    BY <1>1, <2>6, DirCut
  <2>8. EndAt(data', base, n) = EndAt(data, base, n)
    <3>1. Len(data'[n]) = y /\ Down(y) = y
      BY <2>2, <2>4, <2>5, Whole2
    <3> QED BY <2>1, <2>7, <3>1 DEF EndAt, y
  <2>9. Whole(n)'
    BY <2>2, <2>4, <2>5 DEF Whole
  <2> QED BY <1>1, <1>5, <2>7, <2>8, <2>9
<1>7. CASE ~(Retained # {} /\ Torn(Final))
  <2>1. data' = data /\ synced' = synced
    BY <1>7 DEF recover_from
  <2>2. Whole(n)'
    <3> SUFFICES ASSUME n >= base.first_segment PROVE Len(data[n]) % 2 = 0
      BY <1>1, <2>1 DEF Whole
    <3>1. Retained # {} /\ Final = n
      BY <1>1, InvStart, DirFacts
    <3> QED BY <1>7, <3>1 DEF Torn, RecordLen
  <2>3. DurableEnd(data, synced, base, n) \in Nat
    BY <1>1, EndWhole
  <2> QED BY <1>1, <1>5, <2>1, <2>2, <2>3
<1> QED BY <1>6, <1>7

LEMMA open_remove_step ==
  ASSUME NEW n, Inv(n), open_remove
  PROVE  Leads(n)
<1>1. Dir(data, synced, base, n) /\ HandleTypes /\ Kept(n) /\ base' = base
      /\ stage' \in {"open_remove", "open_create"} /\ promised' = promised /\ released' = released
      /\ poisoned' = poisoned /\ op' = op /\ stage = "open_remove"
  BY DEF Inv, open_remove, handle
<1>2. HandleTypes'
  BY <1>1 DEF open_remove, handle, HandleTypes, Stages, Opening
<1>3. ~poisoned' /\ (op'.kind = "prefix" => op'.lsn <= released') /\ Whole(n)
  <2>1. ~poisoned /\ poisoned \in BOOLEAN /\ Whole(n)
    BY <1>1 DEF Inv, Placement, HandleTypes
  <2>2. op.kind = "prefix" => op.lsn <= released
    BY <1>1 DEF Inv, Operation
  <2> QED BY <1>1, <2>1, <2>2
<1>4. Operation(n)'
  BY <1>1, <1>3 DEF Operation
<1>5. /\ Dir(data', synced', base', n) /\ EndAt(data', base', n) = EndAt(data, base, n)
      /\ DurableEnd(data', synced', base', n) = DurableEnd(data, synced, base, n)
      /\ n >= base.first_segment => data'[n] = data[n]
  <2>1. CASE Stale # {}
    <3>1. Stale \in SUBSET Nat /\ \A i \in Stale : i < base.first_segment
      BY <1>1 DEF Stale, Segments, Dir, Typed
    <3>2. Min(Stale) \in Stale
      BY <2>1, <3>1, MinOf
    <3>3. Removed(data, synced, Min(Stale), data', synced')
      BY <2>1 DEF open_remove, remove, Removed, Segments
    <3>4. Min(Stale) \in Nat /\ Min(Stale) < base.first_segment
      BY <3>1, <3>2
    <3> QED BY <1>1, <3>3, <3>4, DirRemoved
  <2>2. CASE Stale = {}
    BY <1>1, <2>2 DEF open_remove
  <2> QED BY <2>1, <2>2
<1>6. Placement(n)'
  <2>1. Whole(n)'
    BY <1>1, <1>3, <1>5 DEF Whole
  <2> QED BY <1>1, <1>3, <2>1 DEF Placement, Steady
<1>7. Moves(n, n)
  BY <1>1, <1>5, MovesNot
<1>8. promised' <= DurableEnd(data', synced', base', n) /\ released' <= EndAt(data', base', n)
  BY <1>1, <1>5 DEF Kept
<1> QED BY <1>2, <1>4, <1>5, <1>6, <1>7, <1>8, Lands

LEMMA open_create_step ==
  ASSUME NEW n, Inv(n), open_create
  PROVE  Leads(n)
<1>1. Dir(data, synced, base, n) /\ HandleTypes /\ Kept(n) /\ base' = base
      /\ stage' = "open_base" /\ promised' = promised /\ released' = released
      /\ poisoned' = FALSE /\ op' = op /\ stage = "open_create" /\ Whole(n)
      /\ file' = active_index' /\ inherited' = base_lsn' + Len(data'[active_index'])
      /\ doomed' = doomed /\ dirty' = FALSE
      /\ base_lsn' = base.lsn + BytesOf({i \in Retained : i < active_index'})
  BY DEF Inv, open_create, Placement
<1>0. Dir(data, synced, base, n)
  BY DEF Inv
<1>2. base_lsn' = At(data, base, active_index') /\ base_lsn' \in Nat
  <2>1. PICK a : a = active_index'
    OBVIOUS
  <2>2. base_lsn' = base.lsn + BytesOf({i \in Retained : i < a})
    BY <1>1, <2>1
  <2>3. base_lsn' = At(data, base, a)
    BY <1>1, <2>2, InvStart, Zenon
  <2> QED BY <1>1, <2>1, <2>3, AtType DEF Dir
<1>3. op'.kind = "prefix" => op'.lsn <= released'
  BY <1>1 DEF Inv, Operation
<1> DEFINE Opened(m) ==
      /\ m \in Nat /\ Dir(data', synced', base, m) /\ m >= base.first_segment
      /\ active_index' = m /\ Len(data'[m]) \in Nat /\ Len(data'[m]) % 2 = 0
      /\ At(data', base, m) = At(data, base, m)
      /\ EndAt(data', base, m) = EndAt(data, base, n)
      /\ DurableEnd(data', synced', base, m) >= DurableEnd(data, synced, base, n)
<1>4. ASSUME NEW m, Opened(m)
      PROVE  Leads(n)
  <2>1. HandleTypes'
    <3>1. inherited' \in Nat /\ active_index' \in Nat /\ file' \in Nat
      BY <1>1, <1>2, <1>4
    <3>2. HandleTypes /\ stage' = "open_base" /\ promised' = promised /\ released' = released
          /\ poisoned' = FALSE /\ op' = op /\ doomed' = doomed /\ dirty' = FALSE
      BY <1>1
    <3> QED BY <1>2, <3>1, <3>2 DEF HandleTypes, Stages, Opening
  <2>2. Operation(m)'
    BY <1>1, <1>3 DEF Operation
  <2>3. AtEnd(m)'
    BY <1>1, <1>2, <1>4 DEF AtEnd
  <2>4. Placement(m)'
    BY <1>1, <1>4, <2>3 DEF Placement, Steady
  <2>5. Moves(n, m)
    BY <1>1, <1>4, MovesNot
  <2>6. promised' <= DurableEnd(data', synced', base', m) /\ released' <= EndAt(data', base', m)
    <3>1. DurableEnd(data, synced, base, n) \in Nat /\ DurableEnd(data', synced', base, m) \in Nat
          /\ promised \in Nat
      BY <1>1, <1>4, EndWhole DEF HandleTypes
    <3> QED BY <1>1, <1>4, <3>1 DEF Kept
  <2> QED BY <1>1, <1>4, <2>1, <2>2, <2>4, <2>5, <2>6, Lands
<1> HIDE DEF Opened
<1>5. CASE Retained = {}
  <2>1. n < base.first_segment /\ n + 1 = base.first_segment /\ n + 1 \in Nat
    <3>1. n < base.first_segment
      BY <1>1, <1>5, InvStart
    <3> QED BY <1>1, <3>1, DirFacts
  <2>2. Created(data, synced, n + 1, data', synced') /\ active_index' = n + 1
    BY <1>5, <2>1 DEF open_create, create, Created, Segments
  <2>3. /\ Dir(data', synced', base, n + 1) /\ Len(data'[n + 1]) = 0
        /\ At(data', base, n + 1) = EndAt(data, base, n)
        /\ EndAt(data', base, n + 1) = EndAt(data, base, n)
        /\ DurableEnd(data', synced', base, n + 1) = EndAt(data, base, n)
    <3>1. ~(n >= base.first_segment)
      BY <1>1, <2>1, DirFacts
    <3>2. Full(data, synced, base, n)
      BY <3>1 DEF Full
    <3>3. PICK i : i = n + 1
      OBVIOUS
    <3>4. Creates(data, synced, base, n, i, data', synced')
      BY <1>0, <2>2, <3>2, <3>3 DEF Creates
    <3>5. /\ Dir(data', synced', base, i) /\ Len(data'[i]) = 0
          /\ At(data', base, i) = EndAt(data, base, n)
          /\ EndAt(data', base, i) = EndAt(data, base, n)
          /\ DurableEnd(data', synced', base, i) = EndAt(data, base, n)
      BY <3>4, DirCreated
    <3> QED BY <3>3, <3>5
  <2>4. At(data, base, n + 1) = base.lsn
    BY <1>1, <2>1, AtFirst DEF Dir
  <2>5. EndAt(data, base, n) = base.lsn /\ DurableEnd(data, synced, base, n) = base.lsn
    BY <2>1 DEF EndAt, DurableEnd
  <2>6. base.lsn \in Nat
    BY <1>1, DirFacts
  <2>7. Opened(n + 1)
    BY <2>1, <2>2, <2>3, <2>4, <2>5, <2>6 DEF Opened
  <2> QED BY <1>4, <2>7
<1>6. CASE Retained # {}
  <2>1. n >= base.first_segment /\ Final = n /\ n \in Nat /\ Len(data[n]) \in Nat
    <3>1. n >= base.first_segment /\ Final = n
      BY <1>1, <1>6, InvStart, DirFacts
    <3> QED BY <1>1, <3>1, DirFacts
  <2>2. data' = data /\ synced' = synced /\ active_index' = n
    BY <1>6, <2>1 DEF open_create
  <2>3. Len(data[n]) % 2 = 0
    BY <1>1, <2>1 DEF Whole
  <2>4. DurableEnd(data, synced, base, n) \in Nat
    BY <1>1, EndWhole
  <2>5. Opened(n)
    <3>1. Dir(data', synced', base, n) /\ Len(data'[n]) \in Nat /\ Len(data'[n]) % 2 = 0
      BY <1>0, <2>1, <2>2, <2>3
    <3>2. /\ At(data', base, n) = At(data, base, n)
          /\ EndAt(data', base, n) = EndAt(data, base, n)
      BY <2>2
    <3>3. DurableEnd(data', synced', base, n) >= DurableEnd(data, synced, base, n)
      BY <2>2, <2>4
    <3> QED BY <2>1, <2>2, <3>1, <3>2, <3>3 DEF Opened
  <2> QED BY <1>4, <2>5
<1> QED BY <1>5, <1>6

LEMMA open_base_step ==
  ASSUME NEW n, Inv(n), open_base
  PROVE  Leads(n)
<1>1. Dir(data, synced, base, n) /\ HandleTypes /\ Kept(n) /\ AtEnd(n)
      /\ inherited = base_lsn + Len(data[n])
      /\ data' = data /\ synced' = synced /\ stage' = "idle" /\ op' = op /\ stage = "open_base"
      /\ promised' = promised /\ released' = released /\ inherited' = inherited
      /\ base' = [base EXCEPT !.last_segment = active_index]
      /\ UNCHANGED <<handle, doomed>>
  BY DEF Inv, open_base, Placement
<1>2. HandleTypes'
  BY <1>1 DEF handle, HandleTypes, Stages, Opening
<1>3. n >= base.first_segment /\ active_index = n /\ base_lsn = At(data, base, n)
      /\ base' = [base EXCEPT !.last_segment = n]
  BY <1>1 DEF AtEnd
<1>4. /\ Dir(data', synced', base', n) /\ At(data', base', n) = At(data, base, n)
      /\ EndAt(data', base', n) = EndAt(data, base, n)
      /\ DurableEnd(data', synced', base', n) = DurableEnd(data, synced, base, n)
      /\ base'.last_segment = n /\ base'.first_segment = base.first_segment /\ base'.lsn = base.lsn
  BY <1>1, <1>3, DirFrontier
<1>5. AtEnd(n)'
  BY <1>1, <1>4 DEF AtEnd, handle
<1>6. n \in DOMAIN data /\ Len(data[n]) \in Nat
  BY <1>1, <1>3, DirFacts
<1>7. Clean(n)'
  <2>1. At(data', base', n) + Len(data'[n]) = inherited' /\ inherited' \in Nat
    BY <1>1, <1>3, <1>4 DEF HandleTypes
  <2> QED BY <2>1 DEF Clean
<1>8. Moves(n, n)
  BY <1>1, <1>4, MovesNot
<1>9. promised' <= DurableEnd(data', synced', base', n) /\ released' <= EndAt(data', base', n)
  BY <1>1, <1>4 DEF Kept
<1>10. ~poisoned' /\ (op'.kind = "prefix" => op'.lsn <= released')
  <2>1. ~poisoned /\ poisoned \in BOOLEAN
    BY <1>1 DEF Inv, Placement, HandleTypes
  <2>2. op.kind = "prefix" => op.lsn <= released
    BY <1>1 DEF Inv, Operation
  <2> QED BY <1>1, <2>1, <2>2 DEF handle
<1>11. Operation(n)'
  BY <1>1, <1>10 DEF Operation
<1>12. Placement(n)'
  BY <1>1, <1>4, <1>5, <1>7 DEF Placement
<1> QED BY <1>2, <1>4, <1>8, <1>9, <1>11, <1>12, Lands

-----------------------------------------------------------------------------
\* A step that leaves the directory alone.
LEMMA DiskStays ==
  ASSUME NEW n, Inv(n), UNCHANGED disk
  PROVE  /\ Dir(data', synced', base', n) /\ EndAt(data', base', n) = EndAt(data, base, n)
         /\ DurableEnd(data', synced', base', n) = DurableEnd(data, synced, base, n)
         /\ base'.lsn = base.lsn
         /\ promised <= DurableEnd(data', synced', base', n) /\ released <= EndAt(data', base', n)
         /\ promised \in Nat /\ released \in Nat /\ DurableEnd(data, synced, base, n) \in Nat
         /\ EndAt(data, base, n) \in Nat /\ HandleTypes
<1>1. Dir(data, synced, base, n) /\ Kept(n) /\ HandleTypes
  BY DEF Inv
<1>2. data' = data /\ synced' = synced /\ base' = base
  BY DEF disk
<1>3. DurableEnd(data, synced, base, n) \in Nat /\ EndAt(data, base, n) \in Nat
  BY <1>1, EndWhole
<1>4. Dir(data', synced', base', n) /\ EndAt(data', base', n) = EndAt(data, base, n)
      /\ DurableEnd(data', synced', base', n) = DurableEnd(data, synced, base, n)
      /\ base'.lsn = base.lsn
  BY <1>1, <1>2
<1> QED BY <1>1, <1>3, <1>4 DEF Kept, HandleTypes

LEMMA HandleStays ==
  ASSUME NEW n, Inv(n), stage \in Steady, ~poisoned, UNCHANGED <<disk, handle, inherited>>
  PROVE  /\ AtEnd(n)' /\ base'.last_segment = n /\ Clean(n)' /\ poisoned' = poisoned
         /\ wal_len' = wal_len /\ active_len' = active_len
<1>1. AtEnd(n) /\ base.last_segment = n /\ Clean(n)
  BY DEF Inv, Placement
<1>2. data' = data /\ synced' = synced /\ base' = base /\ file' = file
      /\ active_index' = active_index /\ base_lsn' = base_lsn /\ poisoned' = poisoned
      /\ dirty' = dirty /\ inherited' = inherited
  BY DEF disk, handle
<1>3. AtEnd(n)'
  BY <1>1, <1>2 DEF AtEnd
<1>4. Clean(n)'
  BY <1>1, <1>2 DEF Clean
<1> QED BY <1>1, <1>2, <1>3, <1>4 DEF wal_len, active_len

\* A sync of the active segment makes the whole log durable.
LEMMA Fsynced ==
  ASSUME NEW n, Inv(n), stage \in Steady, ~poisoned, fsync(file), data' = data, base' = base
  PROVE  /\ Dir(data', synced', base', n) /\ synced'[n] = Len(data[n]) /\ wal_len \in Nat
         /\ EndAt(data, base, n) = wal_len /\ EndAt(data', base', n) = wal_len
         /\ DurableEnd(data', synced', base', n) = wal_len
         /\ promised <= wal_len /\ released <= wal_len /\ promised \in Nat /\ released \in Nat
<1>1. Dir(data, synced, base, n) /\ Kept(n) /\ HandleTypes
  BY DEF Inv
<1>2. file = n /\ n \in DOMAIN data /\ n >= base.first_segment /\ Len(data[n]) \in Nat
      /\ Len(data[n]) % 2 = 0 /\ wal_len = At(data, base, n) + Len(data[n])
      /\ wal_len = EndAt(data, base, n) /\ At(data, base, n) \in Nat
  BY AtRest
<1>3. synced \in [DOMAIN data -> Nat] /\ synced' = [synced EXCEPT ![n] = Len(data[n])]
  BY <1>1, <1>2 DEF fsync, Dir, Typed
<1>4. synced' \in [DOMAIN data -> Nat] /\ synced'[n] = Len(data[n])
      /\ \A i \in DOMAIN data : i # n => synced'[i] = synced[i]
  BY <1>2, <1>3
<1>5. \A i \in DOMAIN data : synced'[i] >= synced[i] /\ synced'[i] <= Len(data[i])
  <2>1. \A i \in DOMAIN data : synced[i] \in Nat /\ Len(data[i]) \in Nat /\ synced[i] <= Len(data[i])
    BY <1>1, DirFacts
  <2> QED BY <1>4, <2>1
<1>6. Dir(data, synced', base, n)
  BY <1>1, <1>4, <1>5, DirSynced
<1>7. DurableEnd(data, synced', base, n) = wal_len
  BY <1>2, <1>4, <1>6, EndWhole
<1>8. promised <= wal_len /\ released <= wal_len /\ promised \in Nat /\ released \in Nat
  <2>1. DurableEnd(data, synced, base, n) \in Nat /\ EndAt(data, base, n) \in Nat
        /\ DurableEnd(data, synced, base, n) <= EndAt(data, base, n)
    BY <1>1, EndWhole
  <2> QED BY <1>1, <1>2, <2>1 DEF Kept, HandleTypes
<1> QED BY <1>2, <1>4, <1>6, <1>7, <1>8

LEMMA append_inner_step ==
  ASSUME NEW n, Inv(n), NEW b \in BOOLEAN, append_inner(b)
  PROVE  Leads(n)
<1>1. stage \in Steady /\ ~poisoned /\ UNCHANGED <<disk, handle, doomed, promised, released, inherited>>
      /\ op' = [kind |-> "append", sync |-> b, lsn |-> wal_len]
      /\ stage' = IF active_len > 0 /\ active_len + RecordLen > SegmentBytes
                  THEN "rotate_sync" ELSE "write"
  BY DEF append_inner, Available, Steady
<1>2. wal_len \in Nat
  BY <1>1, AtRest
<1>3. AtEnd(n)' /\ base'.last_segment = n /\ Clean(n)' /\ poisoned' = poisoned
      /\ wal_len' = wal_len /\ active_len' = active_len
  BY <1>1, HandleStays
<1>4. HandleTypes'
  BY <1>1, <1>2, DiskStays DEF HandleTypes, handle, Stages
<1>5. Placement(n)'
  BY <1>1, <1>3 DEF Placement, Steady
<1>6. Operation(n)'
  BY <1>1, <1>3 DEF Operation
<1>7. Moves(n, n)
  BY <1>1, DiskStays, MovesNot
<1> QED BY <1>1, <1>4, <1>5, <1>6, <1>7, DiskStays, Lands

LEMMA write_frame_step ==
  ASSUME NEW n, Inv(n), NEW m \in Nat, m <= 2, write_frame(m)
  PROVE  Leads(n)
<1>1. Dir(data, synced, base, n) /\ Kept(n) /\ HandleTypes /\ stage \in Steady /\ ~poisoned
      /\ op.kind = "append" /\ op.lsn = wal_len
  BY DEF Inv, Placement, Operation, write_frame, Steady
<1>2. file = n /\ base.last_segment = n /\ n >= base.first_segment /\ active_index = n
      /\ Len(data[n]) % 2 = 0 /\ wal_len = At(data, base, n) + Len(data[n]) /\ base_lsn = At(data, base, n)
      /\ Len(data[n]) \in Nat
  BY <1>1, AtRest
<1>3. synced' = synced /\ base' = base /\ file' = file /\ active_index' = active_index
      /\ base_lsn' = base_lsn /\ promised' = promised /\ released' = released /\ inherited' = inherited
      /\ Grown(data, n, m, op.lsn, data')
  BY <1>2 DEF write_frame, Grown
<1>4. /\ Dir(data', synced, base, n) /\ At(data', base, n) = At(data, base, n)
      /\ Len(data'[n]) = Len(data[n]) + m
      /\ DurableEnd(data', synced, base, n) = DurableEnd(data, synced, base, n)
      /\ EndAt(data', base, n) = IF m = 2 THEN EndAt(data, base, n) + 2 ELSE EndAt(data, base, n)
  <2>1. PICK x : x = op.lsn
    OBVIOUS
  <2>2. x = At(data, base, n) + Len(data[n]) /\ Grown(data, n, m, x, data')
    BY <1>1, <1>2, <1>3, <2>1
  <2>3. n >= base.first_segment /\ base.last_segment = n /\ Len(data[n]) % 2 = 0
    BY <1>2
  <2>4. Dir(data, synced, base, n)
    BY <1>1
  <2>5. m <= 2 /\ m \in Nat
    OBVIOUS
  <2>6. Appends(data, synced, base, n, m, x, data')
    BY <2>2, <2>3, <2>4, <2>5 DEF Appends
  <2> QED BY <2>6, DirAppended
<1>5. Dir(data', synced', base', n) /\ promised' <= DurableEnd(data', synced', base', n)
      /\ released' <= EndAt(data', base', n) /\ EndAt(data, base, n) \in Nat
  <2>1. EndAt(data, base, n) \in Nat /\ released \in Nat
    BY <1>1, EndWhole DEF HandleTypes
  <2> QED BY <1>1, <1>3, <1>4, <2>1 DEF Kept
<1>6. CASE m < 2
  <2>1. poisoned' = TRUE /\ returns /\ dirty' = dirty
    BY <1>6 DEF write_frame, RecordLen, write_fails
  <2>2. HandleTypes'
    BY <1>1, <1>3, <2>1 DEF HandleTypes, returns, NoOp, Stages
  <2>3. Moves(n, n)
    BY <1>3, <1>4, <1>6, MovesNot
  <2> QED BY <1>5, <2>1, <2>2, <2>3, LandsPoisoned
<1>7. CASE m = 2
  <2>1. dirty' = TRUE /\ poisoned' = poisoned
        /\ ((stage' = "sync" /\ op' = op /\ doomed' = doomed) \/ returns)
    BY <1>7 DEF write_frame, RecordLen
  <2>2. HandleTypes'
    <3>1. CASE returns
      BY <1>1, <1>3, <2>1, <3>1 DEF HandleTypes, returns, NoOp, Stages
    <3>2. CASE stage' = "sync" /\ op' = op /\ doomed' = doomed
      BY <1>1, <1>3, <2>1, <3>2 DEF HandleTypes, Stages
    <3> QED BY <2>1, <3>1, <3>2
  <2>3. Moves(n, n)
    <3>1. EndAt(data', base', n) > EndAt(data, base, n)
      BY <1>3, <1>4, <1>5, <1>7
    <3> QED BY <1>3, <3>1 DEF Moves
  <2>4. AtEnd(n)' /\ Clean(n)'
    <3>1. Len(data'[n]) % 2 = 0
      <4> DEFINE y == Len(data[n])
      <4>1. y \in Nat /\ y % 2 = 0 /\ Len(data'[n]) = y + 2
        BY <1>2, <1>4, <1>7
      <4> HIDE DEF y
      <4> QED BY <4>1
    <3> QED BY <1>2, <1>3, <1>4, <2>1, <3>1 DEF AtEnd, Clean
  <2>5. stage' \in {"sync", "idle"} /\ op'.kind # "prefix"
    BY <1>1, <2>1 DEF returns, NoOp
  <2>6. Placement(n)'
    BY <1>1, <1>2, <1>3, <2>1, <2>4, <2>5 DEF Placement, Steady
  <2>7. Operation(n)'
    BY <2>5 DEF Operation
  <2> QED BY <1>5, <2>2, <2>3, <2>6, <2>7, Lands
<1> QED BY <1>6, <1>7

LEMMA sync_step ==
  ASSUME NEW n, Inv(n), NEW ok \in BOOLEAN, sync(ok)
  PROVE  Leads(n)
<1>1. stage \in Steady /\ ~poisoned /\ data' = data /\ base' = base /\ file' = file
      /\ active_index' = active_index /\ base_lsn' = base_lsn /\ released' = released
      /\ inherited' = inherited /\ returns /\ HandleTypes /\ poisoned \in BOOLEAN
  BY DEF sync, Inv, Placement, Available, Steady, HandleTypes
<1>2. CASE ok
  <2>1. fsync(file) /\ dirty' = FALSE /\ promised' = wal_len /\ poisoned' = poisoned
    BY <1>2 DEF sync
  <2>2. /\ Dir(data', synced', base', n) /\ synced'[n] = Len(data[n]) /\ wal_len \in Nat
        /\ EndAt(data, base, n) = wal_len /\ EndAt(data', base', n) = wal_len
        /\ DurableEnd(data', synced', base', n) = wal_len
        /\ promised <= wal_len /\ released <= wal_len /\ promised \in Nat /\ released \in Nat
    BY <1>1, <2>1, Fsynced
  <2>3. HandleTypes'
    BY <1>1, <2>1, <2>2 DEF HandleTypes, returns, NoOp, Stages
  <2>4. AtEnd(n) /\ base.last_segment = n
    BY <1>1 DEF Inv, Placement
  <2>5. AtEnd(n)' /\ Clean(n)' /\ base'.last_segment = n
    BY <1>1, <2>2, <2>4 DEF AtEnd, Clean
  <2>6. Moves(n, n)
    <3>1. promised' \in promised .. EndAt(data, base, n) /\ EndAt(data', base', n) = EndAt(data, base, n)
      BY <2>1, <2>2
    <3> QED BY <1>1, <3>1 DEF Moves
  <2>7. promised' <= DurableEnd(data', synced', base', n) /\ released' <= EndAt(data', base', n)
    BY <1>1, <2>1, <2>2
  <2>8. stage' = "idle" /\ op'.kind # "prefix"
    BY <1>1 DEF returns, NoOp
  <2> QED BY <2>2, <2>3, <2>5, <2>6, <2>7, <2>8, LandsIdle
<1>3. CASE ~ok
  <2>1. poisoned' = TRUE /\ dirty' = dirty /\ promised' = promised /\ UNCHANGED disk
    BY <1>1, <1>3 DEF sync, disk
  <2>2. HandleTypes'
    BY <1>1, <2>1 DEF HandleTypes, returns, NoOp, Stages
  <2>3. Moves(n, n)
    BY <1>1, <2>1, DiskStays, MovesNot
  <2> QED BY <1>1, <2>1, <2>2, <2>3, DiskStays, LandsPoisoned
<1> QED BY <1>2, <1>3

\* Rotation fails only in an append, and poisons the handle.
LEMMA RotationFails ==
  ASSUME NEW n, Inv(n), Calm, rotation_error \in IoErrors, rotation_fails,
         stage \in {"rotate_sync", "rotate_create", "rotate_base"}
  PROVE  poisoned' = TRUE /\ returns
<1>1. op.kind = "append"
  BY DEF Calm, rotation_error
<1> QED BY <1>1 DEF rotation_fails

LEMMA rotate_sync_step ==
  ASSUME NEW n, Inv(n), Calm, NEW ok \in BOOLEAN, rotate_sync(ok)
  PROVE  Leads(n)
<1>1. stage \in Steady /\ stage = "rotate_sync" /\ ~poisoned /\ data' = data /\ base' = base
      /\ file' = file /\ released' = released /\ inherited' = inherited /\ HandleTypes
      /\ poisoned \in BOOLEAN /\ op.kind \in {"append", "cut", "prefix"} /\ active_len > 0
      /\ (op.kind # "prefix" => op.lsn = wal_len) /\ (op.kind = "prefix" => op.lsn <= released)
  BY DEF rotate_sync, Inv, Placement, Operation, Steady, HandleTypes
<1>2. CASE ok
  <2>1. fsync(file) /\ dirty' = FALSE /\ promised' = wal_len /\ poisoned' = poisoned
        /\ base_lsn' = base_lsn + active_len /\ active_index' = active_index + 1
        /\ stage' = "rotate_create" /\ op' = op /\ doomed' = doomed
    BY <1>2 DEF rotate_sync
  <2>2. /\ Dir(data', synced', base', n) /\ synced'[n] = Len(data[n]) /\ wal_len \in Nat
        /\ EndAt(data, base, n) = wal_len /\ EndAt(data', base', n) = wal_len
        /\ DurableEnd(data', synced', base', n) = wal_len
        /\ promised <= wal_len /\ released <= wal_len /\ promised \in Nat /\ released \in Nat
    BY <1>1, <2>1, Fsynced
  <2>3. file = n /\ active_index = n /\ base.last_segment = n /\ n >= base.first_segment
        /\ Len(data[n]) % 2 = 0 /\ base_lsn = At(data, base, n) /\ active_len = Len(data[n])
        /\ Len(data[n]) \in Nat
    BY <1>1, AtRest
  <2>4. base_lsn' = wal_len
    BY <2>1 DEF wal_len
  <2>5. HandleTypes'
    <3>1. base_lsn' \in Nat /\ active_index' \in Nat
      BY <1>1, <2>1, <2>2, <2>4 DEF HandleTypes
    <3> QED BY <1>1, <2>1, <2>2, <3>1 DEF HandleTypes, Stages
  <2>6. Moves(n, n)
    <3>1. promised' \in promised .. EndAt(data, base, n) /\ EndAt(data', base', n) = EndAt(data, base, n)
      BY <2>1, <2>2
    <3> QED BY <1>1, <3>1 DEF Moves
  <2>7. promised' <= DurableEnd(data', synced', base', n) /\ released' <= EndAt(data', base', n)
    BY <1>1, <2>1, <2>2
  <2>8. Placement(n)'
    <3>1. /\ n >= base'.first_segment /\ file' = n /\ active_index' = n + 1
          /\ base_lsn' = At(data', base', n) + Len(data'[n]) /\ base'.last_segment = n
          /\ Len(data'[n]) > 0 /\ Len(data'[n]) % 2 = 0 /\ synced'[n] = Len(data'[n])
      BY <1>1, <2>1, <2>2, <2>3
    <3> QED BY <1>1, <2>1, <3>1 DEF Placement, Steady
  <2>9. Operation(n)'
    BY <1>1, <2>1, <2>4 DEF Operation
  <2> QED BY <2>2, <2>5, <2>6, <2>7, <2>8, <2>9, Lands
<1>3. CASE ~ok
  <2>1. rotation_fails /\ rotation_error \in IoErrors
        /\ dirty' = dirty /\ promised' = promised /\ UNCHANGED disk
        /\ base_lsn' = base_lsn /\ active_index' = active_index
    BY <1>1, <1>3 DEF rotate_sync, disk, io
  <2>2. poisoned' = TRUE /\ returns
    BY <1>1, <2>1, RotationFails
  <2>3. HandleTypes'
    BY <1>1, <2>1, <2>2 DEF HandleTypes, returns, NoOp, Stages
  <2>4. Moves(n, n)
    BY <1>1, <2>1, DiskStays, MovesNot
  <2> QED BY <1>1, <2>1, <2>2, <2>3, <2>4, DiskStays, LandsPoisoned
<1> QED BY <1>2, <1>3

LEMMA rotate_create_step ==
  ASSUME NEW n, Inv(n), Calm, NEW done \in BOOLEAN, NEW ok \in BOOLEAN, rotate_create(done, ok)
  PROVE  Leads(n)
<1>1. Dir(data, synced, base, n) /\ HandleTypes /\ Kept(n) /\ stage = "rotate_create" /\ base' = base
      /\ active_index' = active_index /\ base_lsn' = base_lsn /\ dirty' = dirty
      /\ promised' = promised /\ released' = released /\ inherited' = inherited
      /\ n >= base.first_segment /\ file = n /\ active_index = n + 1
      /\ base_lsn = At(data, base, n) + Len(data[n]) /\ base.last_segment = n
      /\ Len(data[n]) > 0 /\ Len(data[n]) % 2 = 0 /\ synced[n] = Len(data[n])
      /\ op.kind \in {"append", "cut", "prefix"} /\ (op.kind # "prefix" => op.lsn = base_lsn)
      /\ (op.kind = "prefix" => op.lsn <= released)
  BY DEF rotate_create, Inv, Placement, Operation
<1>2. n \in Nat /\ n + 1 \notin DOMAIN data /\ EndAt(data, base, n) = base_lsn
      /\ EndAt(data, base, n) \in Nat
  <2>1. n \in Nat /\ n \in DOMAIN data
    BY <1>1, DirFacts
  <2>2. n + 1 \notin DOMAIN data
    BY <1>1, <2>1, DirFacts
  <2>3. EndAt(data, base, n) = At(data, base, n) + Len(data[n]) /\ EndAt(data, base, n) \in Nat
    <3>1. Dir(data, synced, base, n) /\ n >= base.first_segment /\ Len(data[n]) % 2 = 0
      BY <1>1
    <3> QED BY <3>1, EndWhole
  <2> QED BY <1>1, <2>1, <2>2, <2>3
<1>3. ~poisoned /\ poisoned \in BOOLEAN
  BY <1>1 DEF Inv, Placement, HandleTypes
<1>4. (ok => done) /\ (~ok => rotation_error \in IoErrors)
  BY <1>1, <1>2 DEF rotate_create, io, Segments
<1>5. ASSUME done
      PROVE  /\ Dir(data', synced', base', n + 1) /\ Len(data'[n + 1]) = 0 /\ file' = n + 1
             /\ At(data', base', n + 1) = base_lsn
             /\ EndAt(data', base', n + 1) = EndAt(data, base, n)
             /\ DurableEnd(data', synced', base', n + 1) = EndAt(data, base, n)
  <2>1. Created(data, synced, n + 1, data', synced') /\ file' = n + 1
    BY <1>1, <1>5 DEF rotate_create, create, Created, Segments
  <2>2. Dir(data, synced, base, n)
    BY <1>1
  <2>3. Full(data, synced, base, n)
    BY <1>1 DEF Full
  <2>4. /\ Dir(data', synced', base, n + 1) /\ Len(data'[n + 1]) = 0
        /\ At(data', base, n + 1) = EndAt(data, base, n)
        /\ EndAt(data', base, n + 1) = EndAt(data, base, n)
        /\ DurableEnd(data', synced', base, n + 1) = EndAt(data, base, n)
    <3>1. PICK i : i = n + 1
      OBVIOUS
    <3>2. Creates(data, synced, base, n, i, data', synced')
      BY <2>1, <2>2, <2>3, <3>1 DEF Creates
    <3>3. /\ Dir(data', synced', base, i) /\ Len(data'[i]) = 0
          /\ At(data', base, i) = EndAt(data, base, n)
          /\ EndAt(data', base, i) = EndAt(data, base, n)
          /\ DurableEnd(data', synced', base, i) = EndAt(data, base, n)
      BY <3>2, DirCreated
    <3> QED BY <3>1, <3>3
  <2> QED BY <1>1, <1>2, <2>1, <2>4
<1>6. promised <= EndAt(data, base, n) /\ released <= EndAt(data, base, n)
  <2>1. DurableEnd(data, synced, base, n) \in Nat /\ promised \in Nat
        /\ DurableEnd(data, synced, base, n) <= EndAt(data, base, n)
    BY <1>1, EndWhole DEF HandleTypes
  <2> QED BY <1>1, <1>2, <2>1 DEF Kept
<1>7. CASE ok
  <2>1. stage' = "rotate_base" /\ poisoned' = poisoned /\ op' = op /\ doomed' = doomed
    BY <1>7 DEF rotate_create
  <2>2. HandleTypes'
    <3>1. file' \in Nat
      BY <1>2, <1>4, <1>5, <1>7
    <3> QED BY <1>1, <2>1, <3>1 DEF HandleTypes, Stages
  <2>3. AtEnd(n + 1)' /\ Len(data'[n + 1]) = 0
    <3>1. file' = n + 1 /\ At(data', base', n + 1) = base_lsn /\ Len(data'[n + 1]) = 0
      BY <1>4, <1>5, <1>7
    <3>2. n + 1 >= base'.first_segment
      BY <1>1, <1>2, DirFacts
    <3>3. 0 % 2 = 0
      OBVIOUS
    <3>4. active_index' = n + 1 /\ base_lsn' = base_lsn
      BY <1>1
    <3> QED BY <3>1, <3>2, <3>3, <3>4 DEF AtEnd
  <2>4. Placement(n + 1)'
    BY <1>3, <2>1, <2>3 DEF Placement, Steady
  <2>5. Operation(n + 1)'
    BY <1>1, <2>1 DEF Operation
  <2>6. Moves(n, n + 1)
    BY <1>1, <1>4, <1>5, <1>7, MovesNot
  <2> QED BY <1>1, <1>4, <1>5, <1>6, <1>7, <2>2, <2>4, <2>5, <2>6, Lands
<1>8. CASE ~ok
  <2>1. poisoned' = TRUE /\ returns
    BY <1>1, <1>4, <1>8, RotationFails DEF rotate_create
  <2>2. file' \in Nat
    BY <1>1, <1>2, <1>5 DEF rotate_create, HandleTypes
  <2>3. HandleTypes'
    BY <1>1, <2>1, <2>2 DEF HandleTypes, returns, NoOp, Stages
  <2>4. CASE done
    <3>1. Moves(n, n + 1)
      BY <1>1, <1>5, <2>4, MovesNot
    <3> QED BY <1>1, <1>5, <1>6, <2>1, <2>3, <2>4, <3>1, LandsPoisoned
  <2>5. CASE ~done
    <3>1. UNCHANGED disk
      BY <1>1, <2>5 DEF rotate_create, disk
    <3>2. Moves(n, n)
      BY <1>1, <3>1, DiskStays, MovesNot
    <3> QED BY <1>1, <2>1, <2>3, <3>1, <3>2, DiskStays, LandsPoisoned
  <2> QED BY <2>4, <2>5
<1> QED BY <1>7, <1>8

LEMMA rotate_base_step ==
  ASSUME NEW n, Inv(n), Calm, NEW done \in BOOLEAN, NEW ok \in BOOLEAN, rotate_base(done, ok)
  PROVE  Leads(n)
<1>1. Dir(data, synced, base, n) /\ HandleTypes /\ Kept(n) /\ stage = "rotate_base"
      /\ data' = data /\ synced' = synced /\ file' = file
      /\ active_index' = active_index /\ base_lsn' = base_lsn /\ dirty' = dirty
      /\ promised' = promised /\ released' = released /\ inherited' = inherited
      /\ AtEnd(n) /\ Len(data[n]) = 0
      /\ op.kind \in {"append", "cut", "prefix"} /\ (op.kind # "prefix" => op.lsn = base_lsn)
      /\ (op.kind = "prefix" => op.lsn <= released)
  BY DEF rotate_base, Inv, Placement, Operation
<1>2. n >= base.first_segment /\ active_index = n /\ base_lsn = At(data, base, n) /\ file = n
  BY <1>1 DEF AtEnd
<1>3. ~poisoned /\ poisoned \in BOOLEAN
  BY <1>1 DEF Inv, Placement, HandleTypes
<1>4. (ok => done) /\ (~ok => rotation_error \in IoErrors)
  BY DEF rotate_base, io
<1>5. base' = base \/ base' = [base EXCEPT !.last_segment = n]
  BY <1>2 DEF rotate_base
<1>6. /\ Dir(data', synced', base', n) /\ At(data', base', n) = At(data, base, n)
      /\ EndAt(data', base', n) = EndAt(data, base, n)
      /\ DurableEnd(data', synced', base', n) = DurableEnd(data, synced, base, n)
      /\ base'.first_segment = base.first_segment /\ base'.lsn = base.lsn
      /\ done => base'.last_segment = n
  <2>1. CASE base' = [base EXCEPT !.last_segment = n]
    BY <1>1, <1>2, <2>1, DirFrontier
  <2>2. CASE base' = base /\ base' # [base EXCEPT !.last_segment = n]
    <3>1. ~done
      BY <1>2, <2>2 DEF rotate_base
    <3> QED BY <1>1, <2>2, <3>1
  <2> QED BY <1>5, <2>1, <2>2
<1>7. Moves(n, n)
  BY <1>1, <1>6, MovesNot
<1>8. promised' <= DurableEnd(data', synced', base', n) /\ released' <= EndAt(data', base', n)
  BY <1>1, <1>6 DEF Kept
<1>9. CASE ok
  <2>1. stage' = after_rotation /\ poisoned' = poisoned /\ op' = op /\ doomed' = doomed
    BY <1>9 DEF rotate_base
  <2>2. /\ stage' \in {"write", "capture", "prefix_base"}
        /\ stage' = "write" <=> op.kind = "append"
        /\ stage' = "capture" <=> op.kind = "cut"
        /\ stage' = "prefix_base" <=> op.kind = "prefix"
    BY <1>1, <2>1 DEF after_rotation
  <2>3. HandleTypes'
    BY <1>1, <2>1, <2>2 DEF HandleTypes, Stages
  <2>4. AtEnd(n)'
    BY <1>1, <1>6 DEF AtEnd
  <2>5. synced[n] = Len(data[n])
    <3>1. synced[n] \in Nat /\ synced[n] <= Len(data[n])
      BY <1>1, <1>2, DirFacts
    <3> QED BY <1>1, <3>1
  <2>6. Clean(n)'
    BY <1>1, <2>5 DEF Clean
  <2>7. Placement(n)'
    BY <1>3, <1>4, <1>6, <1>9, <2>1, <2>2, <2>4, <2>6 DEF Placement
  <2>8. wal_len' = base_lsn
    BY <1>1, <1>2 DEF wal_len, active_len, HandleTypes
  <2>9. Operation(n)'
    BY <1>1, <2>1, <2>2, <2>8 DEF Operation
  <2> QED BY <1>6, <1>7, <1>8, <2>3, <2>7, <2>9, Lands
<1>10. CASE ~ok
  <2>1. poisoned' = TRUE /\ returns
    BY <1>1, <1>4, <1>10, RotationFails DEF rotate_base
  <2>2. HandleTypes'
    BY <1>1, <2>1 DEF HandleTypes, returns, NoOp, Stages
  <2> QED BY <1>6, <1>7, <1>8, <2>1, <2>2, LandsPoisoned
<1> QED BY <1>9, <1>10

LEMMA freeze_archive_cut_step ==
  ASSUME NEW n, Inv(n), NEW ok \in BOOLEAN, freeze_archive_cut(ok)
  PROVE  Leads(n)
<1>1. stage \in Steady /\ ~poisoned /\ data' = data /\ base' = base /\ file' = file
      /\ active_index' = active_index /\ base_lsn' = base_lsn /\ dirty' = dirty
      /\ promised' = promised /\ released' = released /\ inherited' = inherited
      /\ HandleTypes /\ poisoned \in BOOLEAN /\ AtEnd(n) /\ base.last_segment = n /\ Clean(n)
      /\ Kept(n) /\ Dir(data, synced, base, n)
  BY DEF freeze_archive_cut, Inv, Placement, Available, Steady, HandleTypes
<1>2. wal_len \in Nat /\ active_len = Len(data[n]) /\ Len(data[n]) \in Nat /\ base_lsn \in Nat
      /\ n >= base.first_segment
  BY <1>1, AtRest DEF HandleTypes
<1>3. CASE ok
  <2>1. op' = [kind |-> "cut", sync |-> FALSE, lsn |-> wal_len] /\ poisoned' = poisoned
        /\ doomed' = doomed
        /\ (active_len = 0 => fsync(file) /\ stage' = "capture")
        /\ (active_len # 0 => stage' = "rotate_sync" /\ synced' = synced)
    BY <1>3 DEF freeze_archive_cut
  <2>2. HandleTypes'
    BY <1>1, <1>2, <2>1 DEF HandleTypes, Stages
  <2>3. AtEnd(n)'
    BY <1>1 DEF AtEnd
  <2>4. stage' \in {"capture", "rotate_sync"}
    BY <2>1
  <2>5. /\ Dir(data', synced', base', n) /\ EndAt(data', base', n) = EndAt(data, base, n)
        /\ promised' <= DurableEnd(data', synced', base', n) /\ released' <= EndAt(data', base', n)
        /\ Clean(n)'
    <3>1. CASE active_len = 0
      <4>1. /\ Dir(data', synced', base', n) /\ synced'[n] = Len(data[n])
            /\ EndAt(data, base, n) = wal_len /\ EndAt(data', base', n) = wal_len
            /\ DurableEnd(data', synced', base', n) = wal_len
            /\ promised <= wal_len /\ released <= wal_len
        BY <1>1, <2>1, <3>1, Fsynced
      <4>2. Clean(n)'
        BY <1>1, <4>1 DEF Clean
      <4> QED BY <1>1, <4>1, <4>2
    <3>2. CASE active_len # 0
      <4>1. synced' = synced
        BY <2>1, <3>2
      <4>2. Clean(n)'
        BY <1>1, <4>1 DEF Clean
      <4> QED BY <1>1, <4>1, <4>2 DEF Kept
    <3> QED BY <3>1, <3>2
  <2>6. Placement(n)'
    BY <1>1, <2>1, <2>3, <2>4, <2>5 DEF Placement, Steady
  <2>7. wal_len' = wal_len /\ active_len' = active_len
    BY <1>1 DEF wal_len, active_len
  <2>8. Operation(n)'
    <3>1. CASE stage' = "capture"
      <4>1. active_len = 0
        BY <2>1, <3>1
      <4>2. op'.lsn = base_lsn' /\ op'.kind = "cut"
        BY <1>1, <1>2, <2>1, <4>1 DEF wal_len
      <4> QED BY <3>1, <4>2 DEF Operation
    <3>2. CASE stage' = "rotate_sync"
      <4>1. active_len > 0
        BY <1>2, <2>1, <3>2
      <4> QED BY <2>1, <2>7, <3>2, <4>1 DEF Operation
    <3> QED BY <2>4, <3>1, <3>2
  <2>9. Moves(n, n)
    BY <1>1, <2>5, MovesNot
  <2> QED BY <2>2, <2>5, <2>6, <2>8, <2>9, Lands
<1>4. CASE ~ok
  <2>1. poisoned' = TRUE /\ returns /\ UNCHANGED disk
    BY <1>1, <1>4 DEF freeze_archive_cut, disk
  <2>2. HandleTypes'
    BY <1>1, <2>1 DEF HandleTypes, returns, NoOp, Stages
  <2>3. Moves(n, n)
    BY <1>1, <2>1, DiskStays, MovesNot
  <2> QED BY <1>1, <2>1, <2>2, <2>3, DiskStays, LandsPoisoned
<1> QED BY <1>3, <1>4

LEMMA capture_step ==
  ASSUME NEW n, Inv(n), capture
  PROVE  Leads(n)
<1>1. stage \in Steady /\ ~poisoned /\ UNCHANGED <<disk, handle, promised, released, inherited>>
      /\ returns
  BY DEF capture, Inv, Placement, Steady
<1>2. HandleTypes'
  BY <1>1, DiskStays DEF HandleTypes, handle, returns, NoOp, Stages
<1>3. AtEnd(n)' /\ base'.last_segment = n /\ Clean(n)'
  BY <1>1, HandleStays
<1>4. Moves(n, n)
  BY <1>1, DiskStays, MovesNot
<1>5. stage' = "idle" /\ op'.kind # "prefix"
  BY <1>1 DEF returns, NoOp
<1> QED BY <1>1, <1>2, <1>3, <1>4, <1>5, DiskStays, LandsIdle

LEMMA reset_step ==
  ASSUME NEW n, Inv(n), Calm, reset
  PROVE  Leads(n)
<1>1. stage \in Steady /\ ~poisoned /\ UNCHANGED <<disk, handle, promised, inherited>>
      /\ released' = Max({released, wal_len}) /\ doomed' = Segments /\ stage' = "reset_sync"
      /\ op' = [kind |-> "reset", sync |-> FALSE, lsn |-> wal_len] /\ active_len # 0
  BY DEF reset, Available, Steady, Calm
<1>2. wal_len \in Nat /\ wal_len = EndAt(data, base, n) /\ active_len = Len(data[n])
      /\ Len(data[n]) \in Nat
  BY <1>1, AtRest
<1>3. AtEnd(n)' /\ base'.last_segment = n /\ Clean(n)' /\ poisoned' = poisoned
      /\ wal_len' = wal_len /\ active_len' = active_len
  BY <1>1, HandleStays
<1>4. released \in Nat /\ released <= wal_len /\ HandleTypes
  BY <1>2, EndWhole DEF Inv, Kept, HandleTypes
<1>5. released' = wal_len
  <2>1. Max({released, wal_len}) = IF released <= wal_len THEN wal_len ELSE released
    BY <1>2, <1>4, PairMax
  <2> QED BY <1>1, <1>4, <2>1
<1>6. HandleTypes'
  <2>1. doomed' \subseteq Nat
    BY <1>1 DEF Segments, Inv, Dir, Typed
  <2> QED BY <1>1, <1>2, <1>4, <1>5, <2>1 DEF HandleTypes, handle, Stages
<1>7. Placement(n)'
  BY <1>1, <1>3 DEF Placement, Steady
<1>8. Operation(n)'
  <2>1. active_len' > 0 /\ op'.lsn = wal_len' /\ doomed' = Segments' /\ op'.lsn <= released'
    BY <1>1, <1>2, <1>3, <1>5 DEF Segments, disk
  <2> QED BY <1>1, <2>1 DEF Operation
<1>9. /\ Dir(data', synced', base', n) /\ EndAt(data', base', n) = EndAt(data, base, n)
      /\ base'.lsn = base.lsn /\ promised' <= DurableEnd(data', synced', base', n)
      /\ promised' = promised
  BY <1>1, DiskStays
<1>10. Moves(n, n) /\ released' <= EndAt(data', base', n)
  <2>1. released' \in released .. EndAt(data, base, n) /\ released' <= EndAt(data', base', n)
    BY <1>2, <1>4, <1>5, <1>9
  <2> QED BY <1>9, <2>1 DEF Moves
<1> QED BY <1>6, <1>7, <1>8, <1>9, <1>10, Lands

LEMMA reset_sync_step ==
  ASSUME NEW n, Inv(n), NEW ok \in BOOLEAN, reset_sync(ok)
  PROVE  Leads(n)
<1>1. stage \in Steady /\ ~poisoned /\ data' = data /\ base' = base /\ file' = file
      /\ active_index' = active_index /\ base_lsn' = base_lsn /\ dirty' = dirty
      /\ promised' = promised /\ released' = released /\ inherited' = inherited
      /\ HandleTypes /\ poisoned \in BOOLEAN /\ AtEnd(n) /\ base.last_segment = n
      /\ active_len > 0 /\ op.lsn = wal_len /\ doomed = Segments /\ op.lsn <= released
  BY DEF reset_sync, Inv, Placement, Operation, Steady, HandleTypes
<1>2. CASE ok
  <2>1. fsync(file) /\ stage' = "reset_create" /\ poisoned' = poisoned /\ op' = op /\ doomed' = doomed
    BY <1>2 DEF reset_sync
  <2>2. /\ Dir(data', synced', base', n) /\ synced'[n] = Len(data[n])
        /\ EndAt(data, base, n) = wal_len /\ EndAt(data', base', n) = wal_len
        /\ DurableEnd(data', synced', base', n) = wal_len
        /\ promised <= wal_len /\ released <= wal_len
    BY <1>1, <2>1, Fsynced
  <2>3. HandleTypes'
    BY <1>1, <2>1 DEF HandleTypes, Stages
  <2>4. AtEnd(n)' /\ Clean(n)'
    BY <1>1, <2>2 DEF AtEnd, Clean
  <2>5. Placement(n)'
    BY <1>1, <2>1, <2>4 DEF Placement, Steady
  <2>6. Operation(n)'
    <3>1. active_len' > 0 /\ op'.lsn = wal_len' /\ doomed' = Segments' /\ op'.lsn <= released'
          /\ synced'[n] = Len(data'[n])
      BY <1>1, <2>1, <2>2 DEF Segments, active_len, wal_len
    <3> QED BY <2>1, <3>1 DEF Operation
  <2>7. Moves(n, n)
    BY <1>1, <2>2, MovesNot
  <2> QED BY <1>1, <2>2, <2>3, <2>5, <2>6, <2>7, Lands
<1>3. CASE ~ok
  <2>1. poisoned' = TRUE /\ returns /\ UNCHANGED disk
    BY <1>1, <1>3 DEF reset_sync, reset_fails, disk
  <2>2. HandleTypes'
    BY <1>1, <2>1 DEF HandleTypes, returns, NoOp, Stages
  <2>3. Moves(n, n)
    BY <1>1, <2>1, DiskStays, MovesNot
  <2> QED BY <1>1, <2>1, <2>2, <2>3, DiskStays, LandsPoisoned
<1> QED BY <1>2, <1>3

LEMMA reset_create_step ==
  ASSUME NEW n, Inv(n), NEW done \in BOOLEAN, NEW ok \in BOOLEAN, reset_create(done, ok)
  PROVE  Leads(n)
<1>1. stage \in Steady /\ ~poisoned /\ base' = base /\ file' = file
      /\ active_index' = active_index /\ base_lsn' = base_lsn /\ dirty' = dirty
      /\ promised' = promised /\ released' = released /\ inherited' = inherited
      /\ HandleTypes /\ poisoned \in BOOLEAN /\ Dir(data, synced, base, n) /\ Kept(n)
      /\ active_len > 0 /\ op.lsn = wal_len /\ doomed = Segments /\ op.lsn <= released
      /\ synced[n] = Len(data[n]) /\ (ok => done)
  BY DEF reset_create, io, Inv, Placement, Operation, Steady, HandleTypes
<1>2. n \in Nat /\ n \in DOMAIN data /\ n >= base.first_segment /\ base.first_segment \in Nat
      /\ Len(data[n]) % 2 = 0 /\ active_len = Len(data[n])
      /\ wal_len = EndAt(data, base, n) /\ wal_len \in Nat
  BY <1>1, AtRest
<1>3. successor = n + 1
  <2>1. doomed \in SUBSET Nat /\ doomed # {} /\ n \in doomed /\ \A x \in doomed : x <= n
    BY <1>1, <1>2, DirFacts DEF Segments, HandleTypes
  <2>2. Max(doomed) \in doomed /\ \A y \in doomed : y <= Max(doomed)
    BY <1>2, <2>1, MaxOf
  <2>3. Max(doomed) = n
    <3> DEFINE x == Max(doomed)
    <3>1. x \in Nat /\ x <= n /\ n <= x
      BY <2>1, <2>2
    <3> HIDE DEF x
    <3>2. x = n
      BY <1>2, <3>1
    <3> QED BY <3>2 DEF x
  <2> QED BY <2>3 DEF successor
<1>4. promised <= EndAt(data, base, n) /\ released <= EndAt(data, base, n)
  <2>1. DurableEnd(data, synced, base, n) \in Nat /\ promised \in Nat
        /\ DurableEnd(data, synced, base, n) <= EndAt(data, base, n)
    BY <1>1, EndWhole DEF HandleTypes
  <2> QED BY <1>1, <1>2, <2>1 DEF Kept
<1>5. PICK i : i = n + 1
  OBVIOUS
<1>6. ASSUME done
      PROVE  /\ Dir(data', synced', base', i) /\ Len(data'[i]) = 0
             /\ At(data', base', i) = EndAt(data, base, n)
             /\ EndAt(data', base', i) = EndAt(data, base, n)
             /\ DurableEnd(data', synced', base', i) = EndAt(data, base, n)
             /\ i > base.first_segment
             /\ DOMAIN data = DOMAIN data' \ {i}
  <2>1. Created(data, synced, i, data', synced')
    BY <1>3, <1>5, <1>6 DEF reset_create, create, Created, Segments
  <2>2. Full(data, synced, base, n)
    BY <1>1, <1>2 DEF Full
  <2>3. Creates(data, synced, base, n, i, data', synced')
    BY <1>1, <1>5, <2>1, <2>2 DEF Creates
  <2>4. /\ Dir(data', synced', base, i) /\ Len(data'[i]) = 0
        /\ At(data', base, i) = EndAt(data, base, n)
        /\ EndAt(data', base, i) = EndAt(data, base, n)
        /\ DurableEnd(data', synced', base, i) = EndAt(data, base, n)
        /\ i \notin DOMAIN data
    BY <2>3, DirCreated
  <2>5. DOMAIN data = DOMAIN data' \ {i}
    <3>1. DOMAIN data' = DOMAIN data \cup {i}
      BY <2>1 DEF Created
    <3> QED BY <2>4, <3>1
  <2> QED BY <1>1, <1>2, <1>5, <2>4, <2>5
<1>7. CASE ok
  <2>1. stage' = "reset_base" /\ poisoned' = poisoned /\ op' = op /\ doomed' = doomed
    BY <1>7 DEF reset_create
  <2>2. HandleTypes'
    BY <1>1, <2>1 DEF HandleTypes, Stages
  <2>3. Placement(i)'
    BY <1>1, <1>6, <1>7, <2>1 DEF Placement, Steady
  <2>4. Operation(i)'
    <3>1. op'.lsn = At(data', base', i) /\ doomed' = Segments' \ {i} /\ op'.lsn <= released'
      BY <1>1, <1>2, <1>6, <1>7, <2>1 DEF Segments
    <3> QED BY <2>1, <3>1 DEF Operation
  <2>5. Moves(n, i)
    BY <1>1, <1>6, <1>7, MovesNot
  <2>6. promised' <= DurableEnd(data', synced', base', i) /\ released' <= EndAt(data', base', i)
    BY <1>1, <1>4, <1>6, <1>7
  <2> QED BY <1>1, <1>6, <1>7, <2>2, <2>3, <2>4, <2>5, <2>6, Lands
<1>8. CASE ~ok
  <2>1. poisoned' = TRUE /\ returns
    BY <1>8 DEF reset_create, reset_fails
  <2>2. HandleTypes'
    BY <1>1, <2>1 DEF HandleTypes, returns, NoOp, Stages
  <2>3. CASE done
    <3>1. Moves(n, i)
      BY <1>1, <1>6, <2>3, MovesNot
    <3>2. promised' <= DurableEnd(data', synced', base', i) /\ released' <= EndAt(data', base', i)
      BY <1>1, <1>4, <1>6, <2>3
    <3> QED BY <1>6, <2>1, <2>2, <2>3, <3>1, <3>2, LandsPoisoned
  <2>4. CASE ~done
    <3>1. UNCHANGED disk
      BY <1>1, <2>4 DEF reset_create, disk
    <3>2. Moves(n, n)
      BY <1>1, <3>1, DiskStays, MovesNot
    <3> QED BY <1>1, <2>1, <2>2, <3>1, <3>2, DiskStays, LandsPoisoned
  <2> QED BY <2>3, <2>4
<1> QED BY <1>7, <1>8

LEMMA reset_base_step ==
  ASSUME NEW n, Inv(n), NEW done \in BOOLEAN, NEW ok \in BOOLEAN, reset_base(done, ok)
  PROVE  Leads(n)
<1>1. Dir(data, synced, base, n) /\ HandleTypes /\ Kept(n) /\ stage = "reset_base"
      /\ data' = data /\ synced' = synced /\ released' = released /\ inherited' = inherited
      /\ n > base.first_segment /\ Len(data[n]) = 0 /\ op.lsn = At(data, base, n)
      /\ doomed = Segments \ {n} /\ op.lsn <= released /\ (ok => done)
  BY DEF reset_base, io, Inv, Placement, Operation
<1>2. n \in Nat /\ base.first_segment \in Nat /\ n - 1 \in Nat /\ n - 1 \in DOMAIN data
      /\ n \in DOMAIN data /\ synced[n] = 0 /\ n >= base.first_segment
  <2>1. n \in Int /\ base.first_segment \in Nat
    BY <1>1, DirFacts
  <2>2. n \in Nat /\ n >= base.first_segment /\ n - 1 \in Nat /\ n - 1 >= base.first_segment /\ n - 1 <= n
    BY <1>1, <2>1
  <2>3. n \in DOMAIN data /\ n - 1 \in DOMAIN data
    BY <1>1, <2>2, DirFacts
  <2>4. synced[n] \in Nat /\ synced[n] <= Len(data[n])
    BY <1>1, <2>3, DirFacts
  <2> QED BY <1>1, <2>1, <2>2, <2>3, <2>4
<1>3. successor = n
  <2>1. doomed \in SUBSET Nat /\ n - 1 \in doomed /\ \A x \in doomed : x <= n /\ x # n
    BY <1>1, <1>2, DirFacts DEF Segments, HandleTypes
  <2>2. Max(doomed) \in doomed /\ \A y \in doomed : y <= Max(doomed)
    BY <1>2, <2>1, MaxOf
  <2>3. Max(doomed) + 1 = n
    <3> DEFINE x == Max(doomed)
    <3>1. x \in Nat /\ x <= n /\ x # n /\ n - 1 <= x
      BY <2>1, <2>2
    <3> HIDE DEF x
    <3>2. x + 1 = n
      BY <1>2, <3>1
    <3> QED BY <3>2 DEF x
  <2> QED BY <2>3 DEF successor
<1>4. EndAt(data, base, n) = op.lsn /\ DurableEnd(data, synced, base, n) = op.lsn /\ op.lsn \in Nat
  <2>1. Len(data[n]) % 2 = 0 /\ synced[n] = Len(data[n]) /\ n >= base.first_segment
    BY <1>1, <1>2
  <2>2. EndAt(data, base, n) = At(data, base, n) + Len(data[n])
        /\ DurableEnd(data, synced, base, n) = At(data, base, n) + Len(data[n])
    <3>1. Dir(data, synced, base, n)
      BY <1>1
    <3> QED BY <2>1, <3>1, EndWhole
  <2>3. op.lsn \in Nat
    BY <1>1 DEF HandleTypes
  <2> QED BY <1>1, <2>2, <2>3
<1>5. promised <= op.lsn /\ promised \in Nat /\ released = op.lsn /\ released \in Nat
  BY <1>1, <1>4 DEF Kept, HandleTypes
<1>6. ASSUME done
      PROVE  /\ Dir(data', synced', base', n) /\ At(data', base', n) = op.lsn
             /\ EndAt(data', base', n) = op.lsn /\ DurableEnd(data', synced', base', n) = op.lsn
             /\ base'.first_segment = n /\ base'.last_segment = n
             /\ promised' = op.lsn /\ Moves(n, n)
  <2>1. base' = [lsn |-> op.lsn, first_segment |-> n, last_segment |-> n] /\ promised' = op.lsn
    BY <1>3, <1>6 DEF reset_base, reset_lsn
  <2>2. base' = [lsn |-> At(data, base, n), first_segment |-> n, last_segment |-> n]
    BY <1>1, <2>1
  <2>3. base.first_segment <= n /\ n <= n
    BY <1>2
  <2>4. /\ Dir(data, synced, base', n) /\ At(data, base', n) = At(data, base, n)
        /\ EndAt(data, base', n) = EndAt(data, base, n)
        /\ DurableEnd(data, synced, base', n) = DurableEnd(data, synced, base, n)
        /\ base.lsn <= At(data, base, n)
    BY <1>1, <1>2, <2>2, <2>3, DirMoved
  <2>5. base'.first_segment = n /\ base'.last_segment = n /\ base'.lsn = op.lsn
    BY <2>1
  <2>6. base.lsn \in Nat
    BY <1>1, DirFacts
  <2>7. Moves(n, n)
    <3>1. base'.lsn \in base.lsn .. released /\ base'.lsn <= promised'
          /\ promised' \in promised .. EndAt(data, base, n)
      BY <1>1, <1>4, <1>5, <2>1, <2>4, <2>5, <2>6
    <3>2. EndAt(data', base', n) = EndAt(data, base, n) /\ released' = released
      BY <1>1, <2>4
    <3> QED BY <3>1, <3>2 DEF Moves
  <2> QED BY <1>1, <1>4, <2>1, <2>4, <2>5, <2>7
<1>7. CASE ok
  <2>1. file' = n /\ active_index' = n /\ base_lsn' = op.lsn /\ dirty' = FALSE
        /\ stage' = "reset_remove" /\ poisoned' = poisoned /\ op' = op /\ doomed' = doomed
    BY <1>3, <1>7 DEF reset_base, reset_lsn
  <2>2. done /\ poisoned \in BOOLEAN /\ ~poisoned
    BY <1>1, <1>7 DEF Inv, Placement, HandleTypes
  <2>3. HandleTypes'
    BY <1>1, <1>2, <1>4, <1>6, <2>1, <2>2 DEF HandleTypes, Stages
  <2>4. AtEnd(n)' /\ Clean(n)'
    BY <1>1, <1>2, <1>6, <2>1, <2>2 DEF AtEnd, Clean
  <2>5. Placement(n)'
    BY <1>6, <2>1, <2>2, <2>4 DEF Placement, Steady
  <2>6. Operation(n)'
    <3>1. doomed' # {} /\ \A i \in doomed' : i < base'.first_segment
      BY <1>1, <1>2, <1>6, <2>1, <2>2, DirFacts DEF Segments
    <3> QED BY <1>1, <2>1, <3>1 DEF Operation
  <2> QED BY <1>1, <1>4, <1>5, <1>6, <2>2, <2>3, <2>5, <2>6, Lands
<1>8. CASE ~ok
  <2>1. poisoned' = TRUE /\ returns /\ file' = file /\ active_index' = active_index
        /\ base_lsn' = base_lsn /\ dirty' = dirty
    BY <1>8 DEF reset_base, reset_fails
  <2>2. CASE done
    <3>1. HandleTypes'
      BY <1>1, <1>4, <1>6, <2>1, <2>2 DEF HandleTypes, returns, NoOp, Stages
    <3> QED BY <1>1, <1>4, <1>5, <1>6, <2>1, <2>2, <3>1, LandsPoisoned
  <2>3. CASE ~done
    <3>1. UNCHANGED disk /\ promised' = promised
      BY <1>1, <2>3 DEF reset_base, disk
    <3>2. HandleTypes'
      BY <1>1, <2>1, <3>1 DEF HandleTypes, returns, NoOp, Stages
    <3>3. Moves(n, n)
      BY <1>1, <3>1, DiskStays, MovesNot
    <3> QED BY <1>1, <2>1, <3>1, <3>2, <3>3, DiskStays, LandsPoisoned
  <2> QED BY <2>2, <2>3
<1> QED BY <1>7, <1>8

\* The removal of a segment that is no longer retained.
LEMMA Removes ==
  ASSUME NEW n, Inv(n), stage \in {"reset_remove", "prefix_remove"}, NEW done \in BOOLEAN,
         IF done THEN remove(Min(doomed)) ELSE UNCHANGED <<data, synced>>,
         UNCHANGED <<base, file, active_index, base_lsn, dirty, promised, released, inherited>>
  PROVE  /\ Dir(data', synced', base', n) /\ Moves(n, n) /\ ~poisoned /\ poisoned \in BOOLEAN
         /\ promised' <= DurableEnd(data', synced', base', n) /\ released' <= EndAt(data', base', n)
         /\ AtEnd(n)' /\ Clean(n)' /\ base'.last_segment = n /\ HandleTypes
         /\ op.kind = "prefix" => op.lsn <= released
         /\ doomed # {} /\ \A i \in doomed : i < base.first_segment
<1>1. Dir(data, synced, base, n) /\ HandleTypes /\ Kept(n) /\ AtEnd(n) /\ base.last_segment = n
      /\ Clean(n) /\ doomed # {} /\ ~poisoned /\ poisoned \in BOOLEAN
      /\ (\A i \in doomed : i < base.first_segment) /\ (op.kind = "prefix" => op.lsn <= released)
  BY DEF Inv, Placement, Operation, Steady, HandleTypes
<1>2. base' = base /\ file' = file /\ active_index' = active_index /\ base_lsn' = base_lsn
      /\ dirty' = dirty /\ promised' = promised /\ released' = released /\ inherited' = inherited
  OBVIOUS
<1>3. n >= base.first_segment
  BY <1>1 DEF AtEnd
<1>4. /\ Dir(data', synced', base, n) /\ At(data', base, n) = At(data, base, n)
      /\ EndAt(data', base, n) = EndAt(data, base, n)
      /\ DurableEnd(data', synced', base, n) = DurableEnd(data, synced, base, n)
      /\ data'[n] = data[n] /\ synced'[n] = synced[n]
  <2>1. CASE done
    <3>1. doomed \in SUBSET Nat
      BY <1>1 DEF HandleTypes
    <3>2. Min(doomed) \in doomed
      BY <1>1, <3>1, MinOf
    <3>3. Removed(data, synced, Min(doomed), data', synced')
      BY <2>1 DEF remove, Removed, Segments
    <3>4. Min(doomed) \in Nat /\ Min(doomed) < base.first_segment
      BY <1>1, <3>1, <3>2
    <3> QED BY <1>1, <1>3, <3>3, <3>4, DirRemoved
  <2>2. CASE ~done
    BY <1>1, <2>2
  <2> QED BY <2>1, <2>2
<1>5. Moves(n, n)
  BY <1>2, <1>4, MovesNot
<1>6. AtEnd(n)' /\ Clean(n)'
  <2>1. At(data', base', n) = At(data, base, n) /\ data'[n] = data[n] /\ synced'[n] = synced[n]
    BY <1>2, <1>4
  <2>2. AtEnd(n)'
    BY <1>1, <1>2, <2>1, Zenon DEF AtEnd
  <2>3. Clean(n)'
    <3>1. Clean(n) /\ dirty' = dirty /\ inherited' = inherited
      BY <1>1, <1>2
    <3> QED BY <2>1, <3>1 DEF Clean
  <2> QED BY <2>2, <2>3
<1> QED BY <1>1, <1>2, <1>4, <1>5, <1>6 DEF Kept

\* What is left to remove after the least segment.
LEMMA StillDoomed ==
  ASSUME doomed \subseteq Nat, doomed # {}, doomed # {Min(doomed)}
  PROVE  doomed \ {Min(doomed)} # {}
<1>1. Min(doomed) \in doomed
  BY MinOf
<1> QED BY <1>1

LEMMA reset_remove_step ==
  ASSUME NEW n, Inv(n), NEW done \in BOOLEAN, NEW ok \in BOOLEAN, reset_remove(done, ok)
  PROVE  Leads(n)
<1>1. stage = "reset_remove" /\ (IF done THEN remove(Min(doomed)) ELSE UNCHANGED <<data, synced>>)
      /\ UNCHANGED <<base, file, active_index, base_lsn, dirty, promised, released, inherited>>
  BY DEF reset_remove
<1>2. /\ Dir(data', synced', base', n) /\ Moves(n, n) /\ ~poisoned /\ poisoned \in BOOLEAN
      /\ promised' <= DurableEnd(data', synced', base', n) /\ released' <= EndAt(data', base', n)
      /\ AtEnd(n)' /\ Clean(n)' /\ base'.last_segment = n /\ HandleTypes
      /\ op.kind = "prefix" => op.lsn <= released
      /\ doomed # {} /\ \A i \in doomed : i < base.first_segment
  BY <1>1, Removes
<1>3. CASE ~ok
  <2>1. poisoned' = TRUE /\ returns
    BY <1>3 DEF reset_remove, reset_fails
  <2>2. HandleTypes'
    BY <1>1, <1>2, <2>1 DEF HandleTypes, returns, NoOp, Stages
  <2> QED BY <1>2, <2>1, <2>2, LandsPoisoned
<1>4. CASE ok /\ doomed = {Min(doomed)}
  <2>1. poisoned' = poisoned /\ returns
    BY <1>4 DEF reset_remove
  <2>2. HandleTypes'
    BY <1>1, <1>2, <2>1 DEF HandleTypes, returns, NoOp, Stages
  <2>3. stage' = "idle" /\ op'.kind # "prefix"
    BY <2>1 DEF returns, NoOp
  <2> QED BY <1>2, <2>2, <2>3, LandsIdle
<1>5. CASE ok /\ doomed # {Min(doomed)}
  <2>1. poisoned' = poisoned /\ doomed' = doomed \ {Min(doomed)} /\ stage' = stage /\ op' = op
    BY <1>5 DEF reset_remove
  <2>2. doomed' # {} /\ doomed' \subseteq doomed /\ doomed \subseteq Nat
    BY <1>2, <1>5, <2>1, StillDoomed DEF HandleTypes
  <2>3. HandleTypes'
    BY <1>1, <1>2, <2>1, <2>2 DEF HandleTypes
  <2>4. Placement(n)'
    BY <1>1, <1>2, <2>1 DEF Placement, Steady
  <2>5. Operation(n)'
    BY <1>1, <1>2, <2>1, <2>2 DEF Operation
  <2> QED BY <1>2, <2>3, <2>4, <2>5, Lands
<1> QED BY <1>3, <1>4, <1>5

LEMMA drop_prefix_step ==
  ASSUME NEW n, Inv(n), NEW up_to, drop_prefix(up_to)
  PROVE  Leads(n)
<1>1. stage \in Steady /\ ~poisoned /\ UNCHANGED <<disk, handle, doomed, promised, inherited>>
      /\ released' = Max({released, up_to}) /\ stage' = "prefix_sync"
      /\ op' = [kind |-> "prefix", sync |-> FALSE, lsn |-> up_to] /\ up_to \in base.lsn .. wal_len
  BY DEF drop_prefix, Boundaries, Available, Steady
<1>2. wal_len \in Nat /\ wal_len = EndAt(data, base, n) /\ base.lsn \in Nat
  BY <1>1, AtRest, DirFacts DEF Inv
<1>3. up_to \in Nat /\ up_to <= wal_len
  BY <1>1, <1>2
<1>4. AtEnd(n)' /\ base'.last_segment = n /\ Clean(n)' /\ poisoned' = poisoned
  BY <1>1, HandleStays
<1>5. released \in Nat /\ released <= wal_len /\ HandleTypes
  BY <1>2 DEF Inv, Kept, HandleTypes
<1>6. released' \in Nat /\ released <= released' /\ released' <= wal_len /\ up_to <= released'
  <2>1. Max({released, up_to}) = IF released <= up_to THEN up_to ELSE released
    BY <1>3, <1>5, PairMax
  <2> QED BY <1>1, <1>2, <1>3, <1>5, <2>1
<1>7. HandleTypes'
  BY <1>1, <1>3, <1>5, <1>6 DEF HandleTypes, handle, Stages
<1>8. Placement(n)'
  BY <1>1, <1>4 DEF Placement, Steady
<1>9. Operation(n)'
  BY <1>1, <1>6 DEF Operation
<1>10. /\ Dir(data', synced', base', n) /\ EndAt(data', base', n) = EndAt(data, base, n)
       /\ base'.lsn = base.lsn /\ promised' <= DurableEnd(data', synced', base', n)
       /\ promised' = promised
  BY <1>1, DiskStays
<1>11. Moves(n, n) /\ released' <= EndAt(data', base', n)
  <2>1. released' \in released .. EndAt(data, base, n) /\ released' <= EndAt(data', base', n)
    BY <1>2, <1>5, <1>6, <1>10
  <2> QED BY <1>10, <2>1 DEF Moves
<1> QED BY <1>7, <1>8, <1>9, <1>10, <1>11, Lands

LEMMA prefix_sync_step ==
  ASSUME NEW n, Inv(n), NEW ok \in BOOLEAN, prefix_sync(ok)
  PROVE  Leads(n)
<1>1. stage \in Steady /\ ~poisoned /\ data' = data /\ base' = base /\ file' = file
      /\ active_index' = active_index /\ base_lsn' = base_lsn /\ dirty' = dirty
      /\ promised' = promised /\ released' = released /\ inherited' = inherited
      /\ HandleTypes /\ poisoned \in BOOLEAN /\ AtEnd(n) /\ base.last_segment = n
      /\ op.kind = "prefix" /\ op.lsn <= released
  BY DEF prefix_sync, Inv, Placement, Operation, Steady, HandleTypes
<1>2. CASE ok
  <2>1. fsync(file) /\ poisoned' = poisoned /\ op' = op /\ doomed' = doomed
        /\ stage' = IF active_len > 0 /\ wal_len <= op.lsn THEN "rotate_sync" ELSE "prefix_base"
    BY <1>2 DEF prefix_sync
  <2>2. /\ Dir(data', synced', base', n) /\ synced'[n] = Len(data[n])
        /\ EndAt(data, base, n) = wal_len /\ EndAt(data', base', n) = wal_len
        /\ DurableEnd(data', synced', base', n) = wal_len
        /\ promised <= wal_len /\ released <= wal_len
    BY <1>1, <2>1, Fsynced
  <2>3. HandleTypes'
    BY <1>1, <2>1 DEF HandleTypes, Stages
  <2>4. AtEnd(n)' /\ Clean(n)'
    BY <1>1, <2>2 DEF AtEnd, Clean
  <2>5. stage' \in {"rotate_sync", "prefix_base"} /\ (stage' = "rotate_sync" => active_len' > 0)
    BY <1>1, <2>1 DEF active_len
  <2>6. Placement(n)'
    BY <1>1, <2>1, <2>4, <2>5 DEF Placement, Steady
  <2>7. Operation(n)'
    BY <1>1, <2>1, <2>5 DEF Operation
  <2>8. Moves(n, n)
    BY <1>1, <2>2, MovesNot
  <2> QED BY <1>1, <2>2, <2>3, <2>6, <2>7, <2>8, Lands
<1>3. CASE ~ok
  <2>1. poisoned' = TRUE /\ returns /\ UNCHANGED disk
    BY <1>1, <1>3 DEF prefix_sync, disk
  <2>2. HandleTypes'
    BY <1>1, <2>1 DEF HandleTypes, returns, NoOp, Stages
  <2>3. Moves(n, n)
    BY <1>1, <2>1, DiskStays, MovesNot
  <2> QED BY <1>1, <2>1, <2>2, <2>3, DiskStays, LandsPoisoned
<1> QED BY <1>2, <1>3

\* The segments that may go are a prefix of the retained ones, which ends where
\* the first one that stays starts.
LEMMA DroppedIs ==
  ASSUME NEW n, Dir(data, synced, base, n), n >= base.first_segment, active_index = n,
         op.lsn \in Nat, Dropped # {}
  PROVE  \E m \in Nat :
           /\ base.first_segment <= m /\ m <= n /\ Max(Dropped) + 1 = m
           /\ base.lsn + BytesOf(Dropped) = At(data, base, m) /\ At(data, base, m) <= op.lsn
           /\ \A i \in Dropped : i < m
<1>1. n \in Nat /\ base.first_segment \in Nat /\ Typed(data, synced, base)
  BY DirFacts DEF Dir
<1>2. \A i : i \in Retained <=> i \in DOMAIN data /\ i >= base.first_segment
  BY DEF Retained, Segments
<1>3. \A i \in Retained : i \in Nat /\ i <= n /\ i >= base.first_segment /\ Len(data[i]) \in Nat
  BY <1>2, DirFacts
<1>4. \A i : i \in Dropped <=> i \in Retained /\ i < n /\ At(data, base, i + 1) <= op.lsn
  <2>1. \A i : Start(i) = At(data, base, i)
    BY InvStart
  <2>2. \A i \in Retained : At(data, base, i + 1) = Start(i) + Len(data[i])
    <3> TAKE i \in Retained
    <3>1. i \in DOMAIN data /\ i >= base.first_segment
      BY <1>2
    <3>2. At(data, base, i + 1) = At(data, base, i) + Len(data[i])
      BY <1>1, <3>1, AtNext
    <3> QED BY <2>1, <3>2
  <2> QED BY <2>2 DEF Dropped
<1>5. Dropped \in SUBSET Nat /\ \A x \in Dropped : x <= n
  BY <1>3, <1>4
<1>6. Max(Dropped) \in Dropped /\ \A y \in Dropped : y <= Max(Dropped)
  BY <1>1, <1>5, MaxOf
<1>7. PICK k : k = Max(Dropped)
  OBVIOUS
<1>8. k \in Nat /\ k \in Retained /\ k < n /\ At(data, base, k + 1) <= op.lsn /\ k >= base.first_segment
      /\ k + 1 \in Nat /\ base.first_segment <= k + 1 /\ k + 1 <= n
      /\ \A i \in Dropped : i <= k /\ i \in Nat
  <2>1. k \in Dropped /\ \A i \in Dropped : i <= k
    BY <1>6, <1>7
  <2>2. k \in Nat /\ k \in Retained /\ k < n /\ At(data, base, k + 1) <= op.lsn /\ k >= base.first_segment
    BY <1>3, <1>4, <1>5, <2>1
  <2> QED BY <1>1, <1>5, <2>1, <2>2
<1>9. Dropped = Below(data, base, k + 1)
  <2>1. ASSUME NEW i \in Dropped PROVE i \in Below(data, base, k + 1)
    <3>1. i \in Retained /\ i <= k /\ i \in Nat
      BY <1>4, <1>8
    <3>2. i \in DOMAIN data /\ base.first_segment <= i /\ i < k + 1
      BY <1>1, <1>2, <1>8, <3>1
    <3> QED BY <3>2 DEF Below
  <2>2. ASSUME NEW i \in Below(data, base, k + 1) PROVE i \in Dropped
    <3>1. i \in DOMAIN data /\ base.first_segment <= i /\ i < k + 1 /\ i \in Nat
      BY <1>1 DEF Below, Typed
    <3>2. i \in Retained /\ i < n /\ i + 1 \in Nat /\ i + 1 <= k + 1
      BY <1>1, <1>2, <1>8, <3>1
    <3>3. At(data, base, i + 1) <= At(data, base, k + 1)
      <4>1. PICK p \in Nat : p = i + 1
        BY <3>2
      <4>2. PICK q \in Nat : q = k + 1
        BY <1>8
      <4>3. p <= q
        BY <3>2, <4>1, <4>2
      <4>4. At(data, base, p) <= At(data, base, q)
        BY <1>1, <4>3, AtGrows
      <4> QED BY <4>1, <4>2, <4>4
    <3>4. At(data, base, i + 1) \in Nat /\ At(data, base, k + 1) \in Nat
      BY <1>1, AtType
    <3>5. At(data, base, i + 1) <= op.lsn
      BY <1>8, <3>3, <3>4
    <3> QED BY <1>4, <3>2, <3>5
  <2> QED BY <2>1, <2>2
<1>10. base.lsn + BytesOf(Dropped) = At(data, base, k + 1)
  BY <1>9, Zenon DEF At, BytesOf, Bytes
<1>11. \A i \in Dropped : i < k + 1
  BY <1>8
<1>12. Max(Dropped) + 1 = k + 1
  BY <1>7
<1> k + 1 \in Nat
  BY <1>8
<1> WITNESS k + 1 \in Nat
<1> QED BY <1>8, <1>10, <1>11, <1>12

LEMMA prefix_base_step ==
  ASSUME NEW n, Inv(n), NEW done \in BOOLEAN, NEW ok \in BOOLEAN, prefix_base(done, ok)
  PROVE  Leads(n)
<1>1. Dir(data, synced, base, n) /\ HandleTypes /\ Kept(n) /\ stage \in Steady /\ stage = "prefix_base"
      /\ data' = data /\ synced' = synced /\ UNCHANGED handle
      /\ released' = released /\ inherited' = inherited
      /\ AtEnd(n) /\ base.last_segment = n /\ Clean(n) /\ ~poisoned /\ poisoned \in BOOLEAN
      /\ op.lsn <= released /\ (ok => done) /\ promised' = Max({promised, base'.lsn})
  BY DEF prefix_base, io, Inv, Placement, Operation, Steady, HandleTypes
<1>2. n \in Nat /\ n >= base.first_segment /\ active_index = n /\ base.lsn \in Nat
      /\ op.lsn \in Nat /\ promised \in Nat /\ released \in Nat
      /\ file = n /\ base_lsn = At(data, base, n) /\ base_lsn \in Nat
  BY <1>1, DirFacts DEF AtEnd, HandleTypes
<1>3. DurableEnd(data, synced, base, n) \in Nat /\ EndAt(data, base, n) \in Nat
      /\ DurableEnd(data, synced, base, n) <= EndAt(data, base, n)
      /\ promised <= DurableEnd(data, synced, base, n) /\ released <= EndAt(data, base, n)
  BY <1>1, EndWhole DEF Kept
<1>4. At(data, base, n) <= DurableEnd(data, synced, base, n)
  <2>1. synced[n] \in Nat
    BY <1>1, <1>2, DirFacts
  <2>2. Down(synced[n]) \in Nat
    BY <2>1, Whole2
  <2>3. DurableEnd(data, synced, base, n) = At(data, base, n) + Down(synced[n])
    <3>1. ~(n < base.first_segment)
      BY <1>1, <1>2, DirFacts
    <3> QED BY <3>1 DEF DurableEnd
  <2> QED BY <1>2, <2>2, <2>3
<1>5. base.lsn <= At(data, base, n)
  BY <1>1, AtType DEF Dir
<1> DEFINE Based(x) ==
      /\ x \in Nat /\ base'.lsn = x /\ base.lsn <= x /\ x <= DurableEnd(data, synced, base, n)
      /\ x = base.lsn \/ x <= released
      /\ Dir(data', synced', base', n) /\ At(data', base', n) = At(data, base, n)
      /\ EndAt(data', base', n) = EndAt(data, base, n)
      /\ DurableEnd(data', synced', base', n) = DurableEnd(data, synced, base, n)
      /\ n >= base'.first_segment /\ base'.last_segment = n
      /\ done /\ Dropped # {} => \A i \in Dropped : i < base'.first_segment
<1>6. \E x : Based(x)
  <2>1. CASE done /\ Dropped # {}
    <3>1. PICK m \in Nat :
             /\ base.first_segment <= m /\ m <= n /\ Max(Dropped) + 1 = m
             /\ base.lsn + BytesOf(Dropped) = At(data, base, m) /\ At(data, base, m) <= op.lsn
             /\ \A i \in Dropped : i < m
      BY <1>1, <1>2, <2>1, DroppedIs
    <3>2. base' = [lsn |-> At(data, base, m), first_segment |-> m, last_segment |-> n]
      <4>1. base' = retained_base
        BY <2>1 DEF prefix_base
      <4>2. base' = [lsn |-> base.lsn + BytesOf(Dropped), first_segment |-> Max(Dropped) + 1,
                     last_segment |-> active_index]
        BY <4>1, Zenon DEF retained_base
      <4>3. base.lsn + BytesOf(Dropped) = At(data, base, m) /\ Max(Dropped) + 1 = m
        BY <3>1
      <4> QED BY <1>2, <4>2, <4>3, Zenon
    <3>3. base'.lsn = At(data, base, m) /\ base'.first_segment = m /\ base'.last_segment = n
      BY <3>2
    <3>4. /\ Dir(data, synced, base', n) /\ At(data, base', n) = At(data, base, n)
          /\ At(data, base, m) \in Nat
          /\ EndAt(data, base', n) = EndAt(data, base, n)
          /\ DurableEnd(data, synced, base', n) = DurableEnd(data, synced, base, n)
          /\ base.lsn <= At(data, base, m) /\ At(data, base, m) <= At(data, base, n)
      <4>1. base.first_segment <= m /\ m <= n /\ Dir(data, synced, base, n)
        BY <1>1, <3>1
      <4> QED BY <3>2, <4>1, DirMoved
    <3>5. At(data, base, m) <= released /\ (\A i \in Dropped : i < m) /\ m <= n
      <4>1. At(data, base, m) <= op.lsn /\ (\A i \in Dropped : i < m) /\ m <= n
        BY <3>1
      <4> QED BY <1>1, <1>2, <3>4, <4>1
    <3>6. At(data, base, m) <= DurableEnd(data, synced, base, n)
      BY <1>2, <1>3, <1>4, <3>4
    <3>7. Based(At(data, base, m))
      BY <1>1, <1>2, <3>3, <3>4, <3>5, <3>6
    <3> QED BY <3>7
  <2>2. CASE ~(done /\ Dropped # {})
    <3>1. base' = base
      BY <2>2 DEF prefix_base
    <3>2. base.lsn <= DurableEnd(data, synced, base, n)
      BY <1>2, <1>3, <1>4, <1>5
    <3>3. Based(base.lsn)
      BY <1>1, <1>2, <2>2, <3>1, <3>2
    <3> QED BY <3>3
  <2> QED BY <2>1, <2>2
<1>7. PICK x : Based(x)
  BY <1>6
<1>8. promised' = (IF promised <= x THEN x ELSE promised) /\ promised' \in Nat
      /\ promised <= promised' /\ x <= promised' /\ promised' <= DurableEnd(data, synced, base, n)
  <2>1. x \in Nat /\ promised' = Max({promised, x}) /\ x <= DurableEnd(data, synced, base, n)
    BY <1>1, <1>7
  <2>2. Max({promised, x}) = IF promised <= x THEN x ELSE promised
    BY <1>2, <2>1, PairMax
  <2> QED BY <1>2, <1>3, <2>1, <2>2
<1>9. Moves(n, n)
  <2>1. base'.lsn = x /\ EndAt(data', base', n) = EndAt(data, base, n) /\ released' = released
        /\ x \in Nat /\ base.lsn <= x /\ (x = base.lsn \/ x <= released)
    BY <1>1, <1>7
  <2>2. promised' \in promised .. EndAt(data, base, n)
    BY <1>2, <1>3, <1>8
  <2>3. CASE x = base.lsn
    BY <2>1, <2>2, <2>3 DEF Moves
  <2>4. CASE x <= released
    <3>1. base'.lsn \in base.lsn .. released /\ base'.lsn <= promised'
      BY <1>2, <1>8, <2>1, <2>4
    <3> QED BY <2>1, <2>2, <3>1 DEF Moves
  <2> QED BY <2>1, <2>3, <2>4
<1>10. promised' <= DurableEnd(data', synced', base', n) /\ released' <= EndAt(data', base', n)
  BY <1>1, <1>3, <1>7, <1>8
<1>11. Dir(data', synced', base', n) /\ base'.last_segment = n /\ AtEnd(n)' /\ Clean(n)'
  <2>1. At(data', base', n) = At(data, base, n) /\ n >= base'.first_segment
        /\ Dir(data', synced', base', n) /\ base'.last_segment = n
    BY <1>7
  <2>2. AtEnd(n)'
    BY <1>1, <1>2, <2>1 DEF AtEnd, handle
  <2>3. Clean(n)'
    BY <1>1, <2>1 DEF Clean, handle
  <2> QED BY <2>1, <2>2, <2>3
<1>12. CASE ok /\ Dropped # {}
  <2>1. stage' = "prefix_remove" /\ doomed' = Dropped /\ op' = op
    BY <1>12 DEF prefix_base
  <2>2. doomed' # {} /\ \A i \in doomed' : i < base'.first_segment
    BY <1>1, <1>7, <1>12, <2>1
  <2>3. HandleTypes'
    <3>1. doomed' \subseteq Nat
      BY <1>1, <2>1 DEF Dropped, Retained, Segments, Dir, Typed
    <3> QED BY <1>1, <1>8, <2>1, <3>1 DEF HandleTypes, handle, Stages
  <2>4. Placement(n)'
    BY <1>1, <1>11, <2>1 DEF Placement, Steady, handle
  <2>5. Operation(n)'
    BY <1>1, <2>1, <2>2 DEF Operation
  <2> QED BY <1>9, <1>10, <1>11, <2>3, <2>4, <2>5, Lands
<1>13. CASE ~(ok /\ Dropped # {})
  <2>1. returns
    BY <1>13 DEF prefix_base
  <2>2. HandleTypes'
    BY <1>1, <1>8, <2>1 DEF HandleTypes, handle, returns, NoOp, Stages
  <2>3. stage' = "idle" /\ op'.kind # "prefix"
    BY <2>1 DEF returns, NoOp
  <2> QED BY <1>9, <1>10, <1>11, <2>2, <2>3, LandsIdle
<1> QED BY <1>12, <1>13

LEMMA prefix_remove_step ==
  ASSUME NEW n, Inv(n), NEW done \in BOOLEAN, NEW ok \in BOOLEAN, prefix_remove(done, ok)
  PROVE  Leads(n)
<1>1. stage = "prefix_remove" /\ (IF done THEN remove(Min(doomed)) ELSE UNCHANGED <<data, synced>>)
      /\ UNCHANGED <<base, file, active_index, base_lsn, dirty, promised, released, inherited>>
      /\ poisoned' = poisoned
  BY DEF prefix_remove, handle
<1>2. /\ Dir(data', synced', base', n) /\ Moves(n, n) /\ ~poisoned /\ poisoned \in BOOLEAN
      /\ promised' <= DurableEnd(data', synced', base', n) /\ released' <= EndAt(data', base', n)
      /\ AtEnd(n)' /\ Clean(n)' /\ base'.last_segment = n /\ HandleTypes
      /\ op.kind = "prefix" => op.lsn <= released
      /\ doomed # {} /\ \A i \in doomed : i < base.first_segment
  BY <1>1, Removes
<1>3. CASE ok /\ doomed # {Min(doomed)}
  <2>1. doomed' = doomed \ {Min(doomed)} /\ stage' = stage /\ op' = op
    BY <1>3 DEF prefix_remove
  <2>2. doomed' # {} /\ doomed' \subseteq doomed /\ doomed \subseteq Nat
    BY <1>2, <1>3, <2>1, StillDoomed DEF HandleTypes
  <2>3. HandleTypes'
    BY <1>1, <1>2, <2>1, <2>2 DEF HandleTypes
  <2>4. Placement(n)'
    BY <1>1, <1>2, <2>1 DEF Placement, Steady
  <2>5. Operation(n)'
    BY <1>1, <1>2, <2>1, <2>2 DEF Operation
  <2> QED BY <1>2, <2>3, <2>4, <2>5, Lands
<1>4. CASE ~(ok /\ doomed # {Min(doomed)})
  <2>1. returns
    BY <1>4 DEF prefix_remove
  <2>2. HandleTypes'
    BY <1>1, <1>2, <2>1 DEF HandleTypes, returns, NoOp, Stages
  <2>3. stage' = "idle" /\ op'.kind # "prefix"
    BY <2>1 DEF returns, NoOp
  <2> QED BY <1>2, <2>2, <2>3, LandsIdle
<1> QED BY <1>3, <1>4

\* A crash leaves the last segment as it was or shorter.
LEMMA Crashed ==
  ASSUME NEW n, Inv(n), crash, Dir(data', synced', base', n),
         DurableEnd(data', synced', base', n) >= DurableEnd(data, synced, base, n),
         EndAt(data', base', n) <= EndAt(data, base, n)
  PROVE  Leads(n)
<1>1. HandleTypes /\ Kept(n) /\ Dir(data, synced, base, n)
  BY DEF Inv
<1>2. stage' = "closed" /\ op' = NoOp /\ poisoned' = FALSE /\ base' = base /\ promised' = promised
      /\ released' = Min({released, ScanEnd'})
  BY DEF crash
<1>3. ScanEnd' = EndAt(data', base', n)
  BY ScanEndIsNext
<1>4. /\ EndAt(data, base, n) \in Nat /\ EndAt(data', base', n) \in Nat
      /\ DurableEnd(data, synced, base, n) \in Nat /\ DurableEnd(data', synced', base', n) \in Nat
      /\ DurableEnd(data', synced', base', n) <= EndAt(data', base', n)
      /\ promised \in Nat /\ released \in Nat /\ promised <= DurableEnd(data, synced, base, n)
  BY <1>1, EndWhole DEF HandleTypes, Kept
<1>5. released' = IF released <= EndAt(data', base', n) THEN released ELSE EndAt(data', base', n)
  <2>1. PICK h \in Nat : h = EndAt(data', base', n)
    BY <1>4
  <2>2. Min({released, h}) = IF released <= h THEN released ELSE h
    BY <1>4, PairMax
  <2>3. released' = Min({released, h})
    BY <1>2, <1>3, <2>1, Zenon
  <2> QED BY <2>1, <2>2, <2>3, Zenon
<1>6. HandleTypes'
  <2>1. released' \in Nat
    BY <1>4, <1>5
  <2>2. doomed' = {} /\ file' = 0 /\ active_index' = 0 /\ base_lsn' = 0 /\ dirty' = FALSE
        /\ inherited' = 0
    BY DEF crash
  <2>3. promised' \in Nat
    BY <1>2, <1>4
  <2>4. stage' = "closed" /\ op' = NoOp /\ poisoned' = FALSE
    BY <1>2
  <2> QED BY <2>1, <2>2, <2>3, <2>4 DEF HandleTypes, NoOp, Stages, Opening
<1>7. Placement(n)'
  BY <1>2 DEF Placement, Steady
<1>8. Operation(n)'
  BY <1>2 DEF Operation, NoOp
<1>9. Moves(n, n)
  <2>1. EndAt(data', base', n) \in promised .. EndAt(data, base, n) /\ base'.lsn = base.lsn
    BY <1>2, <1>4
  <2> QED BY <1>2, <1>5, <2>1 DEF Moves
<1>10. promised' <= DurableEnd(data', synced', base', n) /\ released' <= EndAt(data', base', n)
  BY <1>2, <1>4, <1>5
<1> QED BY <1>6, <1>7, <1>8, <1>9, <1>10, Lands

LEMMA kill_step ==
  ASSUME NEW n, Inv(n), kill
  PROVE  Leads(n)
<1>1. crash /\ data' = data /\ synced' = synced /\ base' = base /\ Dir(data, synced, base, n)
  BY DEF kill, crash, Inv
<1>2. DurableEnd(data, synced, base, n) \in Nat /\ EndAt(data, base, n) \in Nat
  BY <1>1, EndWhole
<1> QED BY <1>1, <1>2, Crashed

LEMMA power_loss_step ==
  ASSUME NEW n, Inv(n), power_loss
  PROVE  Leads(n)
<1>1. crash /\ base' = base /\ Dir(data, synced, base, n)
  BY DEF power_loss, crash, Inv
<1>2. PICK kept \in [Unsynced -> 0 .. MaxLsn] :
        /\ \A i \in Unsynced : kept[i] \in synced[i] .. Len(data[i])
        /\ synced' = [i \in Segments |-> IF i \in Unsynced THEN kept[i] ELSE synced[i]]
        /\ data' = [i \in Segments |-> SubSeq(data[i], 1, synced'[i])]
  BY DEF power_loss
<1>3. \A i \in DOMAIN data :
        /\ i \in Nat /\ synced[i] \in Nat /\ Len(data[i]) \in Nat /\ data[i] \in Seq(Nat)
        /\ synced[i] <= Len(data[i])
  BY <1>1, DirFacts
<1>4. DOMAIN data' = DOMAIN data /\ DOMAIN synced' = DOMAIN data
  BY <1>2 DEF Segments
<1>5. ASSUME NEW i \in DOMAIN data
      PROVE  /\ synced'[i] \in Nat /\ synced'[i] >= synced[i] /\ synced'[i] <= Len(data[i])
             /\ synced[i] = Len(data[i]) => synced'[i] = Len(data[i])
  <2>1. CASE i \in Unsynced
    <3>1. synced'[i] = kept[i] /\ kept[i] \in synced[i] .. Len(data[i])
      BY <1>2, <2>1 DEF Segments
    <3> QED BY <1>3, <2>1, <3>1 DEF Unsynced
  <2>2. CASE i \notin Unsynced
    <3>1. synced'[i] = synced[i]
      BY <1>2, <2>2 DEF Segments
    <3> QED BY <1>3, <3>1
  <2> QED BY <2>1, <2>2
<1>6. ASSUME NEW i \in DOMAIN data
      PROVE  /\ data'[i] \in Seq(Nat) /\ Len(data'[i]) = synced'[i]
             /\ \A k \in 1 .. Len(data'[i]) : data'[i][k] = data[i][k]
  <2>1. PICK y : y = synced'[i]
    OBVIOUS
  <2>2. data'[i] = SubSeq(data[i], 1, y)
    BY <1>2, <2>1 DEF Segments
  <2>3. y \in Nat /\ y <= Len(data[i]) /\ data[i] \in Seq(Nat) /\ Len(data[i]) \in Nat
    BY <1>3, <1>5, <2>1
  <2>4. SubSeq(data[i], 1, y) \in Seq(Nat) /\ Len(SubSeq(data[i], 1, y)) = y
        /\ \A k \in 1 .. y : SubSeq(data[i], 1, y)[k] = data[i][k]
    BY <2>3
  <2> QED BY <2>1, <2>2, <2>4
<1>7. Cut(data, synced, base, n, data', synced')
  <2>1. data' \in [DOMAIN data -> Seq(Nat)]
    <3>1. data' = [i \in DOMAIN data |-> data'[i]]
      BY <1>2 DEF Segments
    <3> QED BY <1>6, <3>1
  <2>2. synced' \in [DOMAIN data -> Nat]
    <3>1. synced' = [i \in DOMAIN data |-> synced'[i]]
      BY <1>2 DEF Segments
    <3> QED BY <1>5, <3>1
  <2>3. ASSUME NEW i \in DOMAIN data
        PROVE  /\ synced'[i] <= Len(data'[i]) /\ Len(data'[i]) <= Len(data[i])
               /\ synced'[i] >= Down(synced[i])
               /\ \A k \in 1 .. Len(data'[i]) : data'[i][k] = data[i][k]
    <3>1. Down(synced[i]) \in Nat /\ Down(synced[i]) <= synced[i]
      BY <1>3, Whole2
    <3> QED BY <1>3, <1>5, <1>6, <3>1
  <2>4. ASSUME NEW i \in DOMAIN data, i >= base.first_segment, i < n
        PROVE  Len(data'[i]) = Len(data[i]) /\ synced'[i] = Len(data[i])
    <3>1. synced[i] = Len(data[i])
      BY <1>1, <2>4 DEF Dir, Contiguous
    <3> QED BY <1>5, <1>6, <3>1
  <2> QED BY <1>4, <2>1, <2>2, <2>3, <2>4 DEF Cut
<1>8. /\ Dir(data', synced', base, n)
      /\ DurableEnd(data', synced', base, n) >= DurableEnd(data, synced, base, n)
      /\ EndAt(data', base, n) <= EndAt(data, base, n)
  BY <1>1, <1>7, DirCut
<1> QED BY <1>1, <1>8, Crashed

-----------------------------------------------------------------------------
(***************************************************************************)
(* The theorems.                                                           *)
(***************************************************************************)
LEMMA InitInv ==
  ASSUME Init
  PROVE  Inv(-1) /\ EndAt(data, base, -1) = 0
<1>1. /\ DOMAIN data = {} /\ data \in [{} -> Seq(Nat)] /\ synced \in [{} -> Nat]
      /\ base = [lsn |-> 0, first_segment |-> 0, last_segment |-> None]
  BY DEF Init
<1>2. base.lsn = 0 /\ base.first_segment = 0 /\ base.last_segment = None
  BY <1>1
<1>3. Typed(data, synced, base)
  <2>1. IsFiniteSet(DOMAIN data)
    BY <1>1, FS_EmptySet
  <2>2. base \in [lsn : Nat, first_segment : Nat, last_segment : Nat \cup {None}]
    BY <1>1
  <2> QED BY <1>1, <2>1, <2>2 DEF Typed
<1>4. Contiguous(data, synced, base, -1)
  BY <1>1, <1>2 DEF Contiguous
<1>5. Dir(data, synced, base, -1)
  BY <1>1, <1>3, <1>4 DEF Dir, Placed
<1>6. HandleTypes
  BY DEF Init, HandleTypes, NoOp, Stages, Opening
<1>7. EndAt(data, base, -1) = 0 /\ DurableEnd(data, synced, base, -1) = 0
  BY <1>2 DEF EndAt, DurableEnd
<1>8. Placement(-1) /\ Operation(-1)
  BY DEF Init, Placement, Operation, NoOp, Steady
<1>9. Kept(-1)
  BY <1>7 DEF Kept, Init
<1> QED BY <1>5, <1>6, <1>7, <1>8, <1>9 DEF Inv

LEMMA NextLeads ==
  ASSUME NEW n, Inv(n), Calm, [Next]_vars
  PROVE  Leads(n)
<1>1. CASE Next
  <2>1. CASE recover_from \/ open_remove \/ open_create \/ open_base
    BY <2>1, recover_from_step, open_remove_step, open_create_step, open_base_step
  <2>2. ASSUME NEW b \in BOOLEAN, append_inner(b) PROVE Leads(n)
    BY <2>2, append_inner_step
  <2>3. ASSUME NEW b \in BOOLEAN, sync(b) PROVE Leads(n)
    BY <2>3, sync_step
  <2>4. ASSUME NEW b \in BOOLEAN, rotate_sync(b) PROVE Leads(n)
    BY <2>4, rotate_sync_step
  <2>5. ASSUME NEW b \in BOOLEAN, reset_sync(b) PROVE Leads(n)
    BY <2>5, reset_sync_step
  <2>6. ASSUME NEW b \in BOOLEAN, prefix_sync(b) PROVE Leads(n)
    BY <2>6, prefix_sync_step
  <2>7. ASSUME NEW b \in BOOLEAN, freeze_archive_cut(b) PROVE Leads(n)
    BY <2>7, freeze_archive_cut_step
  <2>8. ASSUME NEW m \in 0 .. RecordLen, write_frame(m) PROVE Leads(n)
    <3>1. m \in Nat /\ m <= 2
      BY DEF RecordLen
    <3> QED BY <2>8, <3>1, write_frame_step
  <2>9. ASSUME NEW done \in BOOLEAN, NEW ok \in BOOLEAN, rotate_create(done, ok) PROVE Leads(n)
    BY <2>9, rotate_create_step
  <2>10. ASSUME NEW done \in BOOLEAN, NEW ok \in BOOLEAN, rotate_base(done, ok) PROVE Leads(n)
    BY <2>10, rotate_base_step
  <2>11. ASSUME NEW done \in BOOLEAN, NEW ok \in BOOLEAN, reset_create(done, ok) PROVE Leads(n)
    BY <2>11, reset_create_step
  <2>12. ASSUME NEW done \in BOOLEAN, NEW ok \in BOOLEAN, reset_base(done, ok) PROVE Leads(n)
    BY <2>12, reset_base_step
  <2>13. ASSUME NEW done \in BOOLEAN, NEW ok \in BOOLEAN, reset_remove(done, ok) PROVE Leads(n)
    BY <2>13, reset_remove_step
  <2>14. ASSUME NEW done \in BOOLEAN, NEW ok \in BOOLEAN, prefix_base(done, ok) PROVE Leads(n)
    BY <2>14, prefix_base_step
  <2>15. ASSUME NEW done \in BOOLEAN, NEW ok \in BOOLEAN, prefix_remove(done, ok) PROVE Leads(n)
    BY <2>15, prefix_remove_step
  <2>16. CASE capture \/ reset
    BY <2>16, capture_step, reset_step
  <2>17. ASSUME NEW up_to \in 0 .. MaxLsn, drop_prefix(up_to) PROVE Leads(n)
    BY <2>17, drop_prefix_step
  <2>18. CASE kill \/ power_loss
    BY <2>18, kill_step, power_loss_step
  <2> QED BY <1>1, <2>1, <2>2, <2>3, <2>4, <2>5, <2>6, <2>7, <2>8, <2>9, <2>10, <2>11, <2>12,
             <2>13, <2>14, <2>15, <2>16, <2>17, <2>18 DEF Next
<1>2. CASE UNCHANGED vars
  <2>1. UNCHANGED disk /\ UNCHANGED <<handle, stage, op, doomed, promised, released, inherited>>
    BY <1>2 DEF vars, running
  <2>2. Moves(n, n)
    BY <2>1, DiskStays, MovesNot
  <2>3. Inv(n)'
    <3>1. HandleTypes' /\ Placement(n)' /\ Operation(n)'
      <4>1. HandleTypes /\ Placement(n) /\ Operation(n)
        BY DEF Inv
      <4>2. data' = data /\ synced' = synced /\ base' = base /\ file' = file
            /\ active_index' = active_index /\ base_lsn' = base_lsn /\ poisoned' = poisoned
            /\ dirty' = dirty /\ stage' = stage /\ op' = op /\ doomed' = doomed
            /\ promised' = promised /\ released' = released /\ inherited' = inherited
        BY <2>1 DEF disk, handle
      <4>3. HandleTypes'
        BY <4>1, <4>2 DEF HandleTypes
      <4>4. Placement(n)'
        BY <4>1, <4>2 DEF Placement, Whole, AtEnd, Clean
      <4>5. Operation(n)'
        BY <4>1, <4>2 DEF Operation, active_len, wal_len, Segments
      <4> QED BY <4>3, <4>4, <4>5
    <3>2. Dir(data', synced', base', n) /\ Kept(n)'
      BY <2>1, DiskStays DEF Kept
    <3> QED BY <3>1, <3>2 DEF Inv
  <2> QED BY <2>2, <2>3 DEF Leads
<1> QED BY <1>1, <1>2

LEMMA LastSegment ==
  ASSUME NEW d, NEW s, NEW b, NEW n, Dir(d, s, b, n)
  PROVE  n \in {b.first_segment - 1} \cup DOMAIN d
<1>1. n \in Int /\ b.first_segment \in Nat /\ n + 1 >= b.first_segment
      /\ (n >= b.first_segment => n \in DOMAIN d)
  BY DirFacts
<1>2. CASE n >= b.first_segment
  BY <1>1, <1>2
<1>3. CASE ~(n >= b.first_segment)
  BY <1>1, <1>3
<1> QED BY <1>2, <1>3

LEMMA InvIs ==
  ASSUME NEW n, Inv(n)
  PROVE  IInv
<1>1. n \in {base.first_segment - 1} \cup Segments
  BY LastSegment DEF Inv, Segments
<1> QED BY <1>1 DEF IInv

LEMMA InvIsNext ==
  ASSUME NEW n, Inv(n)'
  PROVE  IInv'
<1>1. Dir(data', synced', base', n)
  BY DEF Inv
<1>2. n \in {base'.first_segment - 1} \cup DOMAIN data'
  BY <1>1, LastSegment
<1> QED BY <1>2 DEF IInv, Segments

LEMMA IInvInit == Init => IInv
<1> SUFFICES ASSUME Init PROVE IInv
  OBVIOUS
<1> QED BY InitInv, InvIs

LEMMA IInvStep ==
  ASSUME Calm
  PROVE  IInv /\ [Next]_vars => IInv'
<1> SUFFICES ASSUME IInv, [Next]_vars PROVE IInv'
  OBVIOUS
<1>1. PICK n : Inv(n)
  BY DEF IInv
<1>2. PICK m : Inv(m)'
  BY <1>1, NextLeads DEF Leads
<1> QED BY <1>2, InvIsNext

LEMMA Invariance ==
  ASSUME Calm
  PROVE  Spec => []IInv
<1>1. IInv /\ [Next]_vars => IInv'
  BY IInvStep
<1> QED BY <1>1, IInvInit, PTL DEF Spec

LEMMA IInvHolds ==
  IInv => TypeOK /\ Recoverable /\ HandleAgrees /\ CleanIsDurable /\ CutIsExact
          /\ FrontierFencesMutations
<1> SUFFICES ASSUME IInv
             PROVE  TypeOK /\ Recoverable /\ HandleAgrees /\ CleanIsDurable /\ CutIsExact
                    /\ FrontierFencesMutations
  OBVIOUS
<1>1. PICK n : Inv(n)
  BY DEF IInv
<1> QED BY <1>1, InvTypes, InvHolds

\* Type correctness of the write-ahead log.
THEOREM WalTypesHold ==
  ASSUME Calm
  PROVE  Spec => []TypeOK
  BY Invariance, IInvHolds, PTL

\* Whatever step of open, append, rotation, archive cut, reset or prefix drop a
\* kill, a power loss or an I/O error cuts short, recovery reads the directory
\* that is left: its inventory is accepted and each frame is at its LSN.
THEOREM CrashesAreRecoverable ==
  ASSUME Calm
  PROVE  Spec => []Recoverable
  BY Invariance, IInvHolds, PTL

\* A handle that still takes records gives the next one the LSN at which
\* recovery will look for it.
THEOREM UsableHandleAgrees ==
  ASSUME Calm
  PROVE  Spec => []HandleAgrees
  BY Invariance, IInvHolds, PTL

\* A handle that is not dirty has no unsynced record of its own, so the
\* background flusher may skip it.
THEOREM CleanHandleIsDurable ==
  ASSUME Calm
  PROVE  Spec => []CleanIsDurable
  BY Invariance, IInvHolds, PTL

\* The segments that an archive cut freezes hold exactly the records from the
\* base to the end at which freeze_archive_cut was called.
THEOREM ArchiveCutIsExact ==
  ASSUME Calm
  PROVE  Spec => []CutIsExact
  BY Invariance, IInvHolds, PTL

\* No record is ever in a segment beyond the frontier that wal.base names, so
\* wal_segments never refuses what this program wrote.
THEOREM FrontierFences ==
  ASSUME Calm
  PROVE  Spec => []FrontierFencesMutations
  BY Invariance, IInvHolds, PTL

\* A step of the WAL is a step of the durable log.
LEMMA DurableStep ==
  ASSUME Calm
  PROVE  IInv /\ [Next]_vars =>
           [Durable!Append \/ Durable!Promise \/ Durable!Release \/ Durable!Trim
             \/ Durable!Crash]_<<base.lsn, ScanEnd, promised, released>>
<1> SUFFICES ASSUME IInv, [Next]_vars
             PROVE  [Durable!Append \/ Durable!Promise \/ Durable!Release \/ Durable!Trim
                      \/ Durable!Crash]_<<base.lsn, ScanEnd, promised, released>>
  OBVIOUS
<1>1. PICK n : Inv(n)
  BY DEF IInv
<1>2. PICK m : Inv(m)' /\ Moves(n, m)
  BY <1>1, NextLeads DEF Leads
<1>3. ScanEnd = EndAt(data, base, n)
  BY <1>1, ScanEndIs DEF Inv
<1>4. ScanEnd' = EndAt(data', base', m)
  <2>1. Dir(data', synced', base', m)
    BY <1>2 DEF Inv
  <2> QED BY <2>1, ScanEndIsNext
<1> HIDE DEF ScanEnd
<1> QED BY <1>2, <1>3, <1>4
  DEF Moves, Durable!Append, Durable!Promise, Durable!Release, Durable!Trim, Durable!Crash

\* The write-ahead log is a durable log: through rotations, resets, prefix drops
\* and crashes, records that were promised survive, and only records that their
\* owner released are dropped.
THEOREM WalImplementsDurableLog ==
  ASSUME Calm
  PROVE  Spec => ImplementsDurableLog
<1>1. Spec => []IInv
  BY Invariance
<1>2. Init => Durable!Init
  <2> SUFFICES ASSUME Init PROVE Durable!Init
    OBVIOUS
  <2>1. ScanEnd = EndAt(data, base, -1) /\ EndAt(data, base, -1) = 0
    BY InitInv, ScanEndIs DEF Inv
  <2>2. base.lsn = 0 /\ promised = 0 /\ released = 0
    BY DEF Init
  <2> QED BY <2>1, <2>2 DEF Durable!Init
<1>3. IInv /\ [Next]_vars =>
        [Durable!Append \/ Durable!Promise \/ Durable!Release \/ Durable!Trim
          \/ Durable!Crash]_<<base.lsn, ScanEnd, promised, released>>
  BY DurableStep
<1> QED BY <1>1, <1>2, <1>3, PTL
  DEF Spec, ImplementsDurableLog, Durable!Spec, Durable!log

=============================================================================
